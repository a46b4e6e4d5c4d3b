----------------------------- MODULE Enforcement -----------------------------
(***************************************************************************)
(* How a device is judged and locked: POST /heartbeat (app/api/v1/signals),*)
(* the task analyze_signal (app/workers/celery_app) and POST /report       *)
(* (app/api/v1/edr), for one device.  A heartbeat keeps its slot until its *)
(* analysis is over.  What Sessions and KillSwitch say of revoke_and_block *)
(* is summed up here in three steps; scores and risks are any (Trust and   *)
(* Threat compute them).                                                   *)
(***************************************************************************)
EXTENDS Integers, Sequences, FiniteSets

CONSTANTS
    Beats, Reports,  \* heartbeats and EDR reports under way at a time
    Workers,         \* number of jobs the Celery workers run at a time
    MaxDepth,        \* depth of the queue beyond which jobs are dropped (1000)
    Window, Kept,    \* runtime samples read (200) and kept (300)
    DecisionTTL,     \* life of decision:{device} (300 s)
    BlockTTL,        \* life of device:{device}:state (3600 s)
    Crashes,         \* whether processes die
    MaxCount         \* bound: analyses the baseline counts up to

ASSUME EnforcementAssumption ==
    /\ Beats \cap Reports = {} /\ IsFiniteSet(Beats)
    /\ Workers \in Nat /\ MaxDepth \in Nat /\ Crashes \in BOOLEAN
    /\ Window \in Nat /\ Kept \in Nat /\ MaxCount \in Nat
    /\ DecisionTTL \in Nat \ {0} /\ BlockTTL \in Nat

VARIABLES
    job,        \* job[x]: the heartbeat, or report, of slot x
    queue,      \* list "celery": slots whose analysis waits
    blocked,    \* what is left of device:{device}:state, 0: no such key
    decision,   \* what is left of decision:{device}
    slow,       \* metrics:celery:runtime_ms, newest first: was it over 500?
    base,       \* baseline:{device}
    passes      \* history: analyses the runtime breaker let pass in this life of `decision`

vars == <<job, queue, blocked, decision, slow, base, passes>>

Slots == Beats \cup Reports
Ended == {"idle", "lost"}    \* returned; its process died
Handling == {"insert", "push", "acked"}
Locking == {"audit", "sweep", "block", "notice"}
Analysing == {"depth", "runtime", "decision", "read", "write", "decide", "sample"}

\* `of`: how many scores mean and m2 are of; `count`: what the field says.
Baseline == [of : 0 .. MaxCount, count : 0 .. MaxCount]
\* cause: why it locks; seen: the baseline it has read; open: it has found the
\* runtime breaker open and no decision.  `audited` is history.
JobState == [pc : Ended \cup Handling \cup Locking \cup Analysing \cup {"queued"},
             cause : {"none", "breach", "score", "report"}, audited : BOOLEAN,
             seen : Baseline, open : BOOLEAN]

New == [pc |-> "idle", cause |-> "none", audited |-> FALSE,
        seen |-> [of |-> 0, count |-> 0], open |-> FALSE]
Started(pc, cause) == [New EXCEPT !.pc = pc, !.cause = cause]

TypeOK ==
    /\ job \in [Slots -> JobState]
    /\ queue \in Seq(Beats)
    /\ blocked \in 0 .. BlockTTL /\ decision \in 0 .. DecisionTTL
    /\ slow \in Seq(BOOLEAN)
    /\ base \in Baseline
    /\ passes \in Nat

Init ==
    /\ job = [x \in Slots |-> New]
    /\ queue = <<>>
    /\ blocked = 0 /\ decision = 0
    /\ slow = <<>>
    /\ base = [of |-> 0, count |-> 0]
    /\ passes = 0

At(x, pc) == job[x].pc = pc
Becomes(x, j) == job' = [job EXCEPT ![x] = j]
\* With the end of a job its variables go.
Moved(j, pc) == IF pc \in Ended THEN [New EXCEPT !.pc = pc] ELSE [j EXCEPT !.pc = pc]
Goto(x, pc) == Becomes(x, Moved(job[x], pc))
Active(j) == j.pc \in Analysing \/ (j.pc \in Locking /\ j.cause = "score")
Busy == {h \in Beats : Active(job[h])}

-----------------------------------------------------------------------------
(* POST /heartbeat                                                         *)

\* The pipeline reads the state; then the two permissions are looked at.
Arrive(h) ==
    /\ job[h].pc \in Ended
    /\ \E breach \in BOOLEAN :
          Becomes(h, IF blocked > 0 THEN New
                     ELSE IF breach THEN Started("sweep", "breach") ELSE Started("insert", "none"))
    /\ UNCHANGED <<queue, blocked, decision, slow, base, passes>>

\* The row is committed; the payload is pushed and the answer sent.
Ingest(h) ==
    /\ \/ At(h, "insert") /\ Goto(h, "push")
       \/ At(h, "push") /\ Goto(h, "acked")
    /\ UNCHANGED <<queue, blocked, decision, slow, base, passes>>

\* The background task, after the answer: analyze_signal.delay.
Enqueue(h) ==
    /\ At(h, "acked")
    /\ Goto(h, "queued")
    /\ queue' = Append(queue, h)
    /\ UNCHANGED <<blocked, decision, slow, base, passes>>

-----------------------------------------------------------------------------
(* analyze_signal                                                          *)

\* The message is acknowledged when a worker takes it.
Take(h) ==
    /\ queue # <<>> /\ h = Head(queue) /\ At(h, "queued")
    /\ Cardinality(Busy) < Workers
    /\ Goto(h, "depth")
    /\ queue' = Tail(queue)
    /\ UNCHANGED <<blocked, decision, slow, base, passes>>

\* Mutant: a job that is too much goes back to the end of the queue.
Requeue(h) ==
    /\ At(h, "depth")
    /\ Goto(h, IF Len(queue) > MaxDepth THEN "queued" ELSE "runtime")
    /\ queue' = IF Len(queue) > MaxDepth THEN Append(queue, h) ELSE queue
    /\ UNCHANGED <<blocked, decision, slow, base, passes>>

CheckDepth(h) ==
    /\ At(h, "depth")
    /\ Goto(h, IF Len(queue) > MaxDepth THEN "idle" ELSE "runtime")
    /\ UNCHANGED <<queue, blocked, decision, slow, base, passes>>

\* Whether the 95th percentile of the samples read is over 500 ms.
SlowP95 ==
    LET read == SubSeq(slow, 1, IF Len(slow) < Window THEN Len(slow) ELSE Window)
        rank == -((-95 * Len(read)) \div 100)
    IN  Len(SelectSeq(read, LAMBDA over : ~over)) < rank

CheckRuntime(h) ==
    /\ At(h, "runtime")
    /\ Goto(h, IF SlowP95 THEN "decision" ELSE "read")
    /\ UNCHANGED <<queue, blocked, decision, slow, base, passes>>

\* Mutant: a skipped job keeps the last decision alive.
SkipAndRenew(h) ==
    /\ At(h, "decision")
    /\ IF decision > 0 THEN Goto(h, "idle") /\ decision' = DecisionTTL
       ELSE /\ Becomes(h, [job[h] EXCEPT !.pc = "read", !.open = TRUE])
            /\ UNCHANGED decision
    /\ UNCHANGED <<queue, blocked, slow, base, passes>>

\* Mutant: no look at the decision.
NeverSkip(h) ==
    /\ At(h, "decision")
    /\ Becomes(h, [job[h] EXCEPT !.pc = "read", !.open = TRUE])
    /\ UNCHANGED <<queue, blocked, decision, slow, base, passes>>

\* While the workers are slow, a device with a decision is left alone.
CheckDecision(h) ==
    /\ At(h, "decision")
    /\ IF decision > 0 THEN Goto(h, "idle")
       ELSE Becomes(h, [job[h] EXCEPT !.pc = "read", !.open = TRUE])
    /\ UNCHANGED <<queue, blocked, decision, slow, base, passes>>

\* The history is read, the score computed, the baseline read.
Score(h) ==
    /\ At(h, "read")
    /\ Becomes(h, [job[h] EXCEPT !.pc = "write", !.seen = base])
    /\ UNCHANGED <<queue, blocked, decision, slow, base, passes>>

Capped(n) == IF n < MaxCount THEN n + 1 ELSE MaxCount

\* Mutant: HINCRBY for the count, HSET for the rest.
CountApart(h) ==
    /\ At(h, "write")
    /\ base' = [of |-> Capped(job[h].seen.of), count |-> Capped(base.count)]
    /\ Becomes(h, [job[h] EXCEPT !.pc = "decide", !.seen = New.seen])
    /\ UNCHANGED <<queue, blocked, decision, slow, passes>>

\* One HSET of what was read and this score: what came between is lost.
WriteBaseline(h) ==
    LET seen == job[h].seen IN
    /\ At(h, "write")
    /\ base' = [of |-> Capped(seen.of), count |-> Capped(seen.count)]
    /\ Becomes(h, [job[h] EXCEPT !.pc = "decide", !.seen = New.seen])
    /\ UNCHANGED <<queue, blocked, decision, slow, passes>>

\* Mutant: the tokens are swept first, the audit row follows the lock.
LockThenAudit(h) ==
    /\ At(h, "decide")
    /\ \E low \in BOOLEAN :
          Becomes(h, IF low THEN Started("sweep", "score") ELSE Started("sample", "none"))
    /\ decision' = DecisionTTL
    /\ passes' = passes + (IF job[h].open THEN 1 ELSE 0)
    /\ UNCHANGED <<queue, blocked, slow, base>>

\* Mutant: the life of the decision is given in milliseconds.
DecideForLong(h) ==
    /\ At(h, "decide")
    /\ \E low \in BOOLEAN :
          Becomes(h, IF low THEN Started("audit", "score") ELSE Started("sample", "none"))
    /\ decision' = 1000 * DecisionTTL
    /\ passes' = passes + (IF job[h].open THEN 1 ELSE 0)
    /\ UNCHANGED <<queue, blocked, slow, base>>

\* SET decision:{device} ex=300; whether the score is below the threshold.
Decide(h) ==
    /\ At(h, "decide")
    /\ \E low \in BOOLEAN :
          Becomes(h, IF low THEN Started("audit", "score") ELSE Started("sample", "none"))
    /\ decision' = DecisionTTL
    /\ passes' = passes + (IF job[h].open THEN 1 ELSE 0)
    /\ UNCHANGED <<queue, blocked, slow, base>>

Push(over) == slow' = SubSeq(<<over>> \o slow, 1, IF Len(slow) < Kept THEN Len(slow) + 1 ELSE Kept)

\* What is measured is the lock alone: without one it takes no time.
Sample(h) ==
    /\ At(h, "sample")
    /\ \E over \in BOOLEAN : (over => job[h].cause = "score") /\ Push(over)
    /\ Goto(h, "idle")
    /\ UNCHANGED <<queue, blocked, decision, base, passes>>

-----------------------------------------------------------------------------
(* Audit row and lock, of a score, of a report and of a breach             *)

\* An EDR report: high is audited, critical is audited and locks.  The endpoint
\* does not look at the state; the revocation flag may be missing when that is set.
Report(x) ==
    /\ job[x].pc \in Ended
    /\ \E cause \in {"none", "report"} :
          Becomes(x, Started("audit", cause))
    /\ UNCHANGED <<queue, blocked, decision, slow, base, passes>>

Audit(x) ==
    /\ At(x, "audit")
    /\ IF job[x].cause = "none" THEN Goto(x, "idle")
       ELSE Becomes(x, [job[x] EXCEPT !.pc = "sweep", !.audited = TRUE])
    /\ UNCHANGED <<queue, blocked, decision, slow, base, passes>>

\* revoke_device_tokens and the first message; then the flags.
Sweep(x) ==
    /\ At(x, "sweep")
    /\ Goto(x, "block")
    /\ UNCHANGED <<queue, blocked, decision, slow, base, passes>>

Block(x) ==
    /\ At(x, "block")
    /\ blocked' = BlockTTL
    /\ Goto(x, IF job[x].cause = "breach" THEN "idle" ELSE "notice")
    /\ UNCHANGED <<queue, decision, slow, base, passes>>

\* The second message, block:{device}:score or IMMEDIATE_QUARANTINE.
Notice(x) ==
    /\ At(x, "notice")
    /\ Goto(x, IF job[x].cause = "score" THEN "sample" ELSE "idle")
    /\ UNCHANGED <<queue, blocked, decision, slow, base, passes>>

-----------------------------------------------------------------------------
(* The environment                                                         *)

\* A process dies, or a call fails: what it was doing is lost.
Crash(x) ==
    /\ Crashes
    /\ job[x].pc \in Handling \cup Locking \cup Analysing
    /\ Goto(x, "lost")
    /\ UNCHANGED <<queue, blocked, decision, slow, base, passes>>

\* The analysis of another device ends.
OtherSample(over) ==
    /\ Push(over)
    /\ UNCHANGED <<job, queue, blocked, decision, base, passes>>

Tick ==
    /\ blocked + decision > 0
    /\ blocked' = (IF blocked > 0 THEN blocked - 1 ELSE 0)
    /\ decision' = (IF decision > 0 THEN decision - 1 ELSE 0)
    /\ passes' = IF decision' = 0 THEN 0 ELSE passes
    /\ UNCHANGED <<job, queue, slow, base>>

Handler(h) == Ingest(h) \/ Enqueue(h)
Worker(h) ==
    \/ Take(h) \/ CheckDepth(h) \/ CheckRuntime(h) \/ CheckDecision(h)
    \/ Score(h) \/ WriteBaseline(h) \/ Decide(h) \/ Sample(h)
Lock(x) == Audit(x) \/ Sweep(x) \/ Block(x) \/ Notice(x)

Next ==
    \/ \E h \in Beats : Arrive(h) \/ Handler(h) \/ Worker(h)
    \/ \E x \in Reports : Report(x)
    \/ \E x \in Slots : Lock(x) \/ Crash(x)
    \/ \E over \in BOOLEAN : OtherSample(over)
    \/ Tick

Spec == Init /\ [][Next]_vars

\* A handler and a worker that live go on; the workers serve the queue; keys expire.
Fairness ==
    /\ \A h \in Beats : WF_vars(Handler(h) \/ Worker(h) \/ Lock(h))
    /\ \A x \in Reports : WF_vars(Lock(x))
    /\ WF_vars(Tick)

FairSpec == Spec /\ Fairness

-----------------------------------------------------------------------------
(* Properties                                                              *)

\* No lock by a score or a report takes effect without its audit row, whatever
\* the process does after (the commit before revoke_and_block).
LockedIsAudited ==
    \A x \in Slots :
        job[x].pc \in {"sweep", "block", "notice"} /\ job[x].cause # "breach" => job[x].audited

\* mean, m2 and count of the baseline are always of the same number of scores,
\* although workers overwrite each other (one HSET of what one HGETALL read).
BaselineMatches == base.count = base.of

\* While the workers are slow a device is analysed once per decision, and at
\* most once more for each other worker (the runtime breaker).
BreakerSheds == passes <= Workers

\* An acknowledged heartbeat is analysed or dropped by a breaker, or its
\* process died (the queue, the workers and both breakers).
AckedIsAnalysed ==
    \A h \in Beats : At(h, "acked") ~> job[h].pc \in Ended

\* However slow the workers, a device whose heartbeats keep coming to the
\* runtime breaker is scored again and again, unless they keep dying.
Rescored ==
    []<>(\E h \in Beats : At(h, "runtime"))
       => []<>(\E h \in Beats : job[h].pc \in {"decide", "lost"})
=============================================================================
