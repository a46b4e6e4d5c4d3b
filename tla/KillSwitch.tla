----------------------------- MODULE KillSwitch -----------------------------
(***************************************************************************)
(* The kill-switch channel in one server process: the WebSocket handler of *)
(* app/api/v1/security.py, the hub and the relay task of                   *)
(* app/services/kill_switch.py, and the publishers of lock messages        *)
(* (revoke_and_block, the EDR report, the Celery worker, the priority      *)
(* socket).                                                                *)
(*                                                                         *)
(* Code between two awaits of the event loop is one action.  A relay task  *)
(* is named by the socket whose handler created it.  The force_overlay     *)
(* flag does not expire: the module covers the hour it lasts.              *)
(***************************************************************************)
EXTENDS Naturals, Sequences

CONSTANTS
    Sockets,      \* the WebSocket connections, each opened once
    Devices,
    DeviceOf,     \* DeviceOf[s]: the device of socket s; names without ':'
    Publishers,   \* requests and jobs that lock a device, each run once
    RedisFails,   \* whether the relay task may lose its Redis connection
    NoTask        \* listener_task = None

ASSUME HubAssumption ==
    /\ DeviceOf \in [Sockets -> Devices]
    /\ RedisFails \in BOOLEAN
    /\ NoTask \notin Sockets

Scripts == {"revoke", "worker", "edr", "alarm"}
Message == [kind : {"block", "score", "IMMEDIATE_QUARANTINE", "CRITICAL_LOCK"}, dev : Devices]

VARIABLES
    connections,   \* kill_switch_hub.connections
    sk,            \* sk[s]: where the handler of socket s is
    waits,         \* waits[s]: the task the handler of s awaits in its finally block
    listenerTask,  \* listener_task
    stop,          \* stop_event
    task,          \* task[t]: where the relay task t is
    inbox,         \* inbox[t]: messages Redis has queued for its subscription
    todo,          \* todo[t]: the sockets its broadcast has still to serve
    overlay,       \* devices with force_overlay:{id}
    pub,           \* pub[p]: where the publisher p is
    warned,        \* history: sockets that were sent a lock for their device
    relayed        \* history: messages whose broadcast is over

hub == <<connections, sk, waits, listenerTask, stop>>
relay == <<task, inbox, todo, relayed>>
vars == <<hub, relay, overlay, pub, warned>>

Subscribed(t) == task[t] \in {"loop", "wait", "cast", "ending"}
Over(t) == task[t] \in {"ended", "failed"}
Listening == listenerTask \in {t \in Sockets : ~Over(t)}   \* not None, not done()
Joiners(t) == {s \in Sockets : sk[s] = "join" /\ waits[s] = t}

\* Handlers whose task is over are already in the ready queue of the event
\* loop: nothing but what is in the queue with them runs before they do.
Waking == \E t \in Sockets : Over(t) /\ Joiners(t) # {}

TypeOK ==
    /\ connections \subseteq Sockets
    /\ sk \in [Sockets -> {"new", "check", "listen", "open", "lost", "closing", "join", "gone"}]
    /\ waits \in [Sockets -> Sockets \cup {NoTask}]
    /\ listenerTask \in Sockets \cup {NoTask}
    /\ stop \in BOOLEAN
    /\ task \in [Sockets -> {"none", "starting", "loop", "wait", "cast", "ending",
                             "ended", "failed"}]
    /\ inbox \in [Sockets -> Seq(Message)]
    /\ todo \in [Sockets -> SUBSET Sockets]
    /\ overlay \subseteq Devices
    /\ pub \in [Publishers -> [pc : {"idle", "block", "flag", "final", "done"},
                               script : Scripts, dev : Devices]]
    /\ warned \subseteq Sockets
    /\ relayed \subseteq Message

Init ==
    /\ connections = {}
    /\ sk = [s \in Sockets |-> "new"]
    /\ waits = [s \in Sockets |-> NoTask]
    /\ listenerTask = NoTask
    /\ stop = FALSE
    /\ task = [t \in Sockets |-> "none"]
    /\ inbox = [t \in Sockets |-> <<>>]
    /\ todo = [t \in Sockets |-> {}]
    /\ overlay = {}
    /\ pub \in [Publishers -> [pc : {"idle"}, script : Scripts, dev : Devices]]
    /\ warned = {}
    /\ relayed = {}

-----------------------------------------------------------------------------
(* The WebSocket handler                                                   *)

\* Admission is over; accept() and connections.add.
Register(s) ==
    /\ ~Waking
    /\ sk[s] = "new"
    /\ sk' = [sk EXCEPT ![s] = "check"]
    /\ connections' = connections \cup {s}
    /\ UNCHANGED <<waits, listenerTask, stop, relay, overlay, pub, warned>>

\* GET force_overlay, and the message it calls for.
CheckOverlay(s) ==
    /\ ~Waking
    /\ sk[s] = "check"
    /\ sk' = [sk EXCEPT ![s] = "listen"]
    /\ warned' = IF DeviceOf[s] \in overlay THEN warned \cup {s} ELSE warned
    /\ UNCHANGED <<connections, waits, listenerTask, stop, relay, overlay, pub>>

\* Redis or the client fails inside register: the handler ends before its try
\* block, and the hub keeps the connection.
RegisterFails(s) ==
    /\ ~Waking
    /\ sk[s] = "check"
    /\ sk' = [sk EXCEPT ![s] = "gone"]
    /\ UNCHANGED <<connections, waits, listenerTask, stop, relay, overlay, pub, warned>>

StartListener(s) ==
    /\ sk[s] = "listen"
    /\ sk' = [sk EXCEPT ![s] = "open"]
    /\ \/ /\ ~Listening
          /\ listenerTask' = s
          /\ task' = [task EXCEPT ![s] = "starting"]
       \/ /\ Listening
          /\ UNCHANGED <<listenerTask, task>>
    /\ UNCHANGED <<connections, waits, stop, inbox, todo, relayed, overlay, pub, warned>>

ClientLeaves(s) ==
    /\ ~Waking
    /\ sk[s] = "open"
    /\ sk' = [sk EXCEPT ![s] = "lost"]
    /\ UNCHANGED <<connections, waits, listenerTask, stop, relay, overlay, pub, warned>>

\* receive_text raises WebSocketDisconnect; unregister.
Disconnect(s) ==
    /\ ~Waking
    /\ sk[s] = "lost"
    /\ sk' = [sk EXCEPT ![s] = "closing"]
    /\ connections' = connections \ {s}
    /\ UNCHANGED <<waits, listenerTask, stop, relay, overlay, pub, warned>>

\* receive_text raises something else, say for a binary frame: the handler goes
\* on to its finally block, and the hub keeps the connection.
ReadFails(s) ==
    /\ ~Waking
    /\ sk[s] = "open"
    /\ sk' = [sk EXCEPT ![s] = "closing"]
    /\ UNCHANGED <<connections, waits, listenerTask, stop, relay, overlay, pub, warned>>

\* The finally block, after redis.aclose: the last one out stops the relay.
\* Awaiting a task that is over does not yield; one that failed raises here.
LastOneOut(s) ==
    /\ sk[s] = "closing"
    /\ \/ /\ connections # {} \/ listenerTask = NoTask
          /\ sk' = [sk EXCEPT ![s] = "gone"]
          /\ UNCHANGED <<waits, listenerTask, stop>>
       \/ /\ connections = {} /\ listenerTask # NoTask
          /\ \/ /\ Listening
                /\ sk' = [sk EXCEPT ![s] = "join"]
                /\ waits' = [waits EXCEPT ![s] = listenerTask]
                /\ stop' = TRUE
                /\ UNCHANGED listenerTask
             \/ /\ task[listenerTask] = "ended"
                /\ sk' = [sk EXCEPT ![s] = "gone"]
                /\ stop' = FALSE
                /\ listenerTask' = NoTask
                /\ UNCHANGED waits
             \/ /\ task[listenerTask] = "failed"
                /\ sk' = [sk EXCEPT ![s] = "gone"]
                /\ stop' = TRUE
                /\ UNCHANGED <<waits, listenerTask>>
    /\ UNCHANGED <<connections, relay, overlay, pub, warned>>

\* Mutant: the event is never cleared.
JoinersForget(t) ==
    /\ Over(t) /\ Joiners(t) # {}
    /\ sk' = [s \in Sockets |-> IF s \in Joiners(t) THEN "gone" ELSE sk[s]]
    /\ listenerTask' = NoTask
    /\ UNCHANGED <<connections, waits, stop, relay, overlay, pub, warned>>

\* Everyone who awaited t goes on, one right after the other: stop_event.clear
\* and listener_task = None, unless t failed and the await raises.
JoinersReturn(t) ==
    /\ Over(t) /\ Joiners(t) # {}
    /\ sk' = [s \in Sockets |-> IF s \in Joiners(t) THEN "gone" ELSE sk[s]]
    /\ \/ task[t] = "ended" /\ stop' = FALSE /\ listenerTask' = NoTask
       \/ task[t] = "failed" /\ UNCHANGED <<stop, listenerTask>>
    /\ UNCHANGED <<connections, waits, relay, overlay, pub, warned>>

-----------------------------------------------------------------------------
(* The relay task                                                          *)

MoveTask(t, from, to) ==
    /\ ~Waking
    /\ task[t] = from
    /\ task' = [task EXCEPT ![t] = to]
    /\ UNCHANGED <<hub, overlay, pub, warned>>

Subscribe(t) ==
    /\ MoveTask(t, "starting", "loop")
    /\ UNCHANGED <<inbox, todo, relayed>>

\* while not stop_event.is_set()
CheckStop(t) ==
    /\ MoveTask(t, "loop", IF stop THEN "ending" ELSE "wait")
    /\ UNCHANGED <<inbox, todo, relayed>>

\* Mutant: get_message without a timeout returns with a message only.
BlockingRead(t) ==
    /\ Len(inbox[t]) > 0
    /\ MoveTask(t, "wait", "loop")
    /\ UNCHANGED <<inbox, todo, relayed>>

\* Mutant: a read that gives up loses what was on its way.
LossyRead(t) ==
    /\ MoveTask(t, "wait", "loop")
    /\ inbox' = [inbox EXCEPT ![t] = IF @ = <<>> THEN @ ELSE Tail(@)]
    /\ UNCHANGED <<todo, relayed>>

\* get_message gives up after its timeout; a message may still be on its way.
ReadTimeout(t) ==
    /\ MoveTask(t, "wait", "loop")
    /\ UNCHANGED <<inbox, todo, relayed>>

\* get_message returns one; broadcast takes a snapshot of the connections.
\* Only "block:" messages are narrowed down to their device.
Receive(t) ==
    /\ inbox[t] # <<>>
    /\ LET m == Head(inbox[t])
           narrow == m.kind \in {"block", "score"}
       IN  todo' = [todo EXCEPT ![t] = {s \in connections : narrow => DeviceOf[s] = m.dev}]
    /\ MoveTask(t, "wait", "cast")
    /\ UNCHANGED <<inbox, relayed>>

Deaf(s) == sk[s] \in {"lost", "closing", "join", "gone"}

\* One send of the broadcast; a failed one unregisters the socket, and one to a
\* client that has just left may still succeed.
Send(t, s) ==
    /\ ~Waking
    /\ task[t] = "cast" /\ s \in todo[t]
    /\ todo' = [todo EXCEPT ![t] = @ \ {s}]
    /\ \/ /\ ~Deaf(s)
          /\ warned' = IF Head(inbox[t]).dev = DeviceOf[s] THEN warned \cup {s} ELSE warned
          /\ UNCHANGED connections
       \/ /\ Deaf(s)
          /\ connections' = connections \ {s}
          /\ UNCHANGED warned
       \/ sk[s] = "lost" /\ UNCHANGED <<connections, warned>>
    /\ UNCHANGED <<sk, waits, listenerTask, stop, task, inbox, relayed, overlay, pub>>

EndCast(t) ==
    /\ todo[t] = {}
    /\ MoveTask(t, "cast", "loop")
    /\ relayed' = relayed \cup {Head(inbox[t])}
    /\ inbox' = [inbox EXCEPT ![t] = Tail(@)]
    /\ UNCHANGED todo

\* unsubscribe and close, in the finally block.
Finish(t) ==
    /\ MoveTask(t, "ending", "ended")
    /\ inbox' = [inbox EXCEPT ![t] = <<>>]
    /\ UNCHANGED <<todo, relayed>>

\* A Redis error in subscribe, get_message or unsubscribe ends the task.
TaskFails(t) ==
    /\ RedisFails
    /\ \E from \in {"starting", "wait", "ending"} : MoveTask(t, from, "failed")
    /\ inbox' = [inbox EXCEPT ![t] = <<>>]
    /\ UNCHANGED <<todo, relayed>>

-----------------------------------------------------------------------------
(* The publishers                                                          *)

\* Mutant: the worker announces the block before it is recorded.
AnnounceFirst(script, pc) ==
    CASE pc = "idle"  -> IF script = "alarm" THEN "final" ELSE "block"
      [] pc = "block" -> IF script \in {"worker", "edr"} THEN "final" ELSE "flag"
      [] pc = "final" -> IF script \in {"worker", "edr"} THEN "flag" ELSE "done"
      [] pc = "flag"  -> "done"

\* revoke_and_block publishes, then sets force_overlay; the worker and the EDR
\* report publish again after it; the priority socket only publishes.
NextPc(script, pc) ==
    CASE pc = "idle"  -> IF script = "alarm" THEN "final" ELSE "block"
      [] pc = "block" -> "flag"
      [] pc = "flag"  -> IF script \in {"worker", "edr"} THEN "final" ELSE "done"
      [] pc = "final" -> "done"

\* Mutant: an EDR report publishes a command the channel does not have.
KindMisspelt(p) == IF pub[p].script = "edr" THEN "QUARANTINE" ELSE "block"

LastKind == [revoke |-> "block", worker |-> "score",
             edr |-> "IMMEDIATE_QUARANTINE", alarm |-> "CRITICAL_LOCK"]

Kind(p) == IF pub[p].pc = "block" THEN "block" ELSE LastKind[pub[p].script]

Advance(p) == pub' = [pub EXCEPT ![p].pc = NextPc(pub[p].script, @)]

Begin(p) ==
    /\ ~Waking
    /\ pub[p].pc = "idle"
    /\ Advance(p)
    /\ UNCHANGED <<hub, relay, overlay, warned>>

Publish(p) ==
    /\ ~Waking
    /\ pub[p].pc \in {"block", "final"}
    /\ Advance(p)
    /\ inbox' = [t \in Sockets |->
                   IF Subscribed(t) THEN Append(inbox[t], [kind |-> Kind(p), dev |-> pub[p].dev])
                   ELSE inbox[t]]
    /\ UNCHANGED <<hub, task, todo, relayed, overlay, warned>>

SetOverlay(p) ==
    /\ ~Waking
    /\ pub[p].pc = "flag"
    /\ Advance(p)
    /\ overlay' = overlay \cup {pub[p].dev}
    /\ UNCHANGED <<hub, relay, warned>>

PublisherDies(p) ==
    /\ ~Waking
    /\ pub[p].pc \in {"block", "flag", "final"}
    /\ pub' = [pub EXCEPT ![p].pc = "done"]
    /\ UNCHANGED <<hub, relay, overlay, warned>>

-----------------------------------------------------------------------------
HandlerStep(s) ==
    \/ CheckOverlay(s) \/ StartListener(s) \/ Disconnect(s) \/ LastOneOut(s) \/ JoinersReturn(s)

TaskStep(t) ==
    \/ Subscribe(t) \/ CheckStop(t) \/ ReadTimeout(t) \/ EndCast(t) \/ Finish(t)
    \/ \E s \in Sockets : Send(t, s)

Next ==
    \/ \E s \in Sockets : Register(s) \/ RegisterFails(s) \/ ClientLeaves(s) \/ ReadFails(s)
                         \/ HandlerStep(s)
    \/ \E t \in Sockets : TaskStep(t) \/ Receive(t) \/ TaskFails(t)
    \/ \E p \in Publishers : Begin(p) \/ Publish(p) \/ SetOverlay(p) \/ PublisherDies(p)

Spec == Init /\ [][Next]_vars

\* Ready coroutines run, a timeout of get_message comes, and a message on its
\* way arrives at one of the reads that follow.  Clients and publishers may do
\* nothing for ever.
Fairness ==
    /\ \A s \in Sockets : WF_vars(HandlerStep(s))
    /\ \A t \in Sockets : WF_vars(TaskStep(t)) /\ SF_vars(Receive(t))

FairSpec == Spec /\ Fairness
-----------------------------------------------------------------------------
(* Properties                                                              *)

\* The stop event is set only while somebody waits for the relay to stop, who
\* will clear it, or after a relay task has failed (security.py, finally).
StopHasOwner ==
    stop => \E s \in Sockets : sk[s] = "join" \/ task[s] = "failed"

\* Once the last message of a worker or of an EDR report has been relayed, no
\* open socket of the device is left without a lock, however late it connected:
\* the overlay it checks after joining the hub was set before that message.
LastMessageCovers ==
    \A m \in relayed : m.kind \in {"score", "IMMEDIATE_QUARANTINE"} =>
       \A s \in Sockets : sk[s] = "open" /\ DeviceOf[s] = m.dev => s \in warned

\* A handler that waits for the relay task to stop comes back: nobody clears
\* the event under it, and a silent channel does not hold it up.
LeaversReturn == \A s \in Sockets : sk[s] = "join" ~> sk[s] = "gone"

\* A lock that is queued for a running relay reaches each registered socket of
\* the device, also when another socket fails in the middle of the broadcast.
LockArrives ==
    \A s, t \in Sockets :
       (/\ sk[s] = "open" /\ s \in connections /\ ~stop
        /\ task[t] \in {"loop", "wait"}
        /\ \E i \in DOMAIN inbox[t] : inbox[t][i].dev = DeviceOf[s])
       ~> (s \in warned \/ sk[s] # "open" \/ task[t] = "failed")

(* What documents say and the code does not do                             *)

\* README "hub WebSocket retransmite para apps moveis": an open socket has a
\* relay task, or one is about to be stopped and replaced.
ConnectedIsServed ==
    \A s \in Sockets : sk[s] = "open" /\ s \in connections =>
       \E t \in Sockets : task[t] # "none" /\ ~Over(t)
=============================================================================
