-------------------------- MODULE EnforcementProofs --------------------------
(***************************************************************************)
(* Theorems about Enforcement, for any number of heartbeats, reports and   *)
(* workers, every queue limit, sample window and key lifetime.             *)
(***************************************************************************)
EXTENDS Enforcement, FiniteSetTheorems, SequenceTheorems, TLAPS

\* What a slot says by itself: a lock that needs a row has it, the baseline it has
\* read is of as many scores as it counts, and only an analysis is `open`.
Sane(j) ==
    /\ j.pc \in {"sweep", "block", "notice"} /\ j.cause # "breach" => j.audited
    /\ j.seen.of = j.seen.count
    /\ j.open => j.pc \in {"read", "write", "decide"}

Safe == /\ TypeOK
        /\ \A x \in Slots : Sane(job[x])
        /\ base.of = base.count

-----------------------------------------------------------------------------
(* One slot moves                                                          *)

LEMMA Fields ==
    ASSUME NEW j \in JobState
    PROVE  /\ j.seen \in Baseline /\ j.audited \in BOOLEAN /\ j.open \in BOOLEAN
           /\ j.cause \in {"none", "breach", "score", "report"}
           /\ j.pc \in Ended \cup Handling \cup Locking \cup Analysing \cup {"queued"}
BY Zenon DEF JobState

LEMMA NewType ==
    /\ New \in JobState /\ Sane(New) /\ ~New.open /\ New.seen \in Baseline
    /\ New.seen.of = New.seen.count /\ New.pc = "idle" /\ New.cause = "none"
<1>1. [of |-> 0, count |-> 0] \in Baseline
  BY EnforcementAssumption DEF Baseline
<1>2. New \in JobState
  BY <1>1, Zenon DEF New, JobState, Ended
<1> QED BY <1>1, <1>2 DEF New, Sane

\* A job that ends, or goes on to another position with what it has.
LEMMA GotoMoves ==
    ASSUME NEW x, NEW j \in JobState, Sane(j),
           NEW pc \in Ended \cup Handling \cup Locking \cup Analysing \cup {"queued"},
           pc \in {"sweep", "block", "notice"} /\ j.cause # "breach" => j.audited,
           j.open => pc \in Ended \cup {"read", "write", "decide"}
    PROVE  /\ Moved(j, pc) \in JobState /\ Sane(Moved(j, pc)) /\ Moved(j, pc).pc = pc
           /\ Moved(j, pc).open => j.open
           /\ pc \notin Ended => Moved(j, pc).cause = j.cause
<1>1. CASE pc \in Ended
  <2>1. [New EXCEPT !.pc = pc] \in JobState
    BY NewType, Zenon DEF JobState
  <2>2. [New EXCEPT !.pc = pc].pc = pc /\ [New EXCEPT !.pc = pc].open = FALSE
        /\ [New EXCEPT !.pc = pc].seen = New.seen
    BY DEF New
  <2>3. Moved(j, pc) = [New EXCEPT !.pc = pc]
    BY <1>1, Zenon DEF Moved
  <2> QED BY <1>1, <2>1, <2>2, <2>3, NewType DEF Sane, Ended
<1>2. CASE pc \notin Ended
  <2>1. [j EXCEPT !.pc = pc] \in JobState
    BY Zenon DEF JobState
  <2>2. /\ [j EXCEPT !.pc = pc].pc = pc /\ [j EXCEPT !.pc = pc].open = j.open
        /\ [j EXCEPT !.pc = pc].seen = j.seen /\ [j EXCEPT !.pc = pc].cause = j.cause
        /\ [j EXCEPT !.pc = pc].audited = j.audited
    BY DEF JobState
  <2>3. Moved(j, pc) = [j EXCEPT !.pc = pc]
    BY <1>2, Zenon DEF Moved
  <2> QED BY <1>2, <2>1, <2>2, <2>3 DEF Sane
<1> QED BY <1>1, <1>2

\* A step of slot x, and one that makes nothing active or open.
Move(x) == \E j \in JobState : Sane(j) /\ Becomes(x, j)
Calm(x) == \E j \in JobState :
    /\ Sane(j) /\ Becomes(x, j)
    /\ Active(j) => Active(job[x])
    /\ j.open => job[x].open

LEMMA GotoCalm ==
    ASSUME TypeOK, NEW x \in Slots, Sane(job[x]),
           NEW pc \in Ended \cup Handling \cup Locking \cup Analysing \cup {"queued"}, Goto(x, pc),
           pc \in {"sweep", "block", "notice"} /\ job[x].cause # "breach" => job[x].audited,
           job[x].open => pc \in Ended \cup {"read", "write", "decide"},
           pc \in Ended \cup Handling \cup {"queued"} \/ Active(job[x])
             \/ (pc \in Locking /\ job[x].cause # "score")
    PROVE  Calm(x)
<1> DEFINE r == Moved(job[x], pc)
<1>1. job[x] \in JobState
  BY Zenon DEF TypeOK
<1>2. /\ r \in JobState /\ Sane(r) /\ r.pc = pc /\ (r.open => job[x].open)
      /\ pc \notin Ended => r.cause = job[x].cause
  BY <1>1, GotoMoves, Zenon
<1>3. Becomes(x, r)
  BY Zenon DEF Goto
<1> HIDE DEF r
<1>4. Active(r) => Active(job[x])
  BY <1>2 DEF Active, Ended, Handling, Analysing, Locking
<1> QED BY <1>2, <1>3, <1>4, Zenon DEF Calm

LEMMA StartedType ==
    ASSUME NEW cause \in {"none", "breach", "score", "report"},
           NEW pc \in Ended \cup Handling \cup Locking \cup Analysing,
           pc \in {"sweep", "block", "notice"} => cause = "breach"
    PROVE  /\ Started(pc, cause) \in JobState /\ Sane(Started(pc, cause))
           /\ ~Started(pc, cause).open
           /\ Started(pc, cause).pc = pc /\ Started(pc, cause).cause = cause
<1>1. Started(pc, cause) \in JobState
  BY NewType, Zenon DEF Started, JobState
<1>2. /\ Started(pc, cause).pc = pc /\ Started(pc, cause).cause = cause
      /\ Started(pc, cause).seen = New.seen /\ Started(pc, cause).open = New.open
  BY NewType DEF Started, JobState
<1> QED BY <1>1, <1>2, NewType DEF Sane

\* Every step of a slot keeps it sane; only Take makes it active and only
\* CheckDecision opens it.
LEMMA SlotCalm ==
    ASSUME Safe, NEW x \in Slots,
           \/ x \in Beats /\ (Arrive(x) \/ Handler(x) \/ CheckDepth(x) \/ CheckRuntime(x)
                                \/ Score(x) \/ WriteBaseline(x) \/ Decide(x) \/ Sample(x))
           \/ Report(x) \/ Lock(x) \/ Crash(x)
    PROVE  Calm(x)
<1>a. TypeOK /\ Sane(job[x]) /\ job[x] \in JobState /\ base.of = base.count /\ base \in Baseline
  BY Zenon DEF Safe, TypeOK
<1>b. /\ job[x].seen \in Baseline /\ job[x].audited \in BOOLEAN /\ job[x].open \in BOOLEAN
      /\ job[x].cause \in {"none", "breach", "score", "report"}
  BY <1>a, Fields, Zenon
<1>c. ASSUME NEW j \in JobState, Sane(j), ~j.open, Becomes(x, j), Active(j) => Active(job[x])
      PROVE  Calm(x)
  BY <1>c, Zenon DEF Calm
<1>d. ASSUME x \in Beats, Arrive(x) PROVE Calm(x)
  <2>1. PICK j \in {New, Started("sweep", "breach"), Started("insert", "none")} : Becomes(x, j)
    <3>1. PICK breach \in BOOLEAN :
             Becomes(x, IF blocked > 0 THEN New
                        ELSE IF breach THEN Started("sweep", "breach") ELSE Started("insert", "none"))
      BY <1>d, Zenon DEF Arrive
    <3>2. CASE blocked > 0 BY <3>1, <3>2
    <3>3. CASE ~(blocked > 0) /\ breach BY <3>1, <3>3
    <3>4. CASE ~(blocked > 0) /\ ~breach BY <3>1, <3>4
    <3> QED BY <3>2, <3>3, <3>4
  <2>2. CASE j = New
    BY <1>c, <2>1, <2>2, NewType DEF Active, Locking, Analysing
  <2>3. CASE j = Started("sweep", "breach")
    BY <1>c, <2>1, <2>3, StartedType DEF Active, Locking, Analysing
  <2>4. CASE j = Started("insert", "none")
    BY <1>c, <2>1, <2>4, StartedType DEF Active, Locking, Analysing, Handling
  <2> QED BY <2>1, <2>2, <2>3, <2>4
<1>1. ASSUME x \in Beats, Handler(x) PROVE Calm(x)
  BY <1>1, <1>a, GotoCalm DEF Handler, Ingest, Enqueue, At, Handling, Sane
<1>2. ASSUME x \in Beats, CheckDepth(x) \/ CheckRuntime(x) PROVE Calm(x)
  <2>1. ~job[x].open /\ Active(job[x])
    BY <1>2, <1>a DEF CheckDepth, CheckRuntime, At, Sane, Active, Analysing
  <2>2. Goto(x, "idle") \/ Goto(x, "runtime") \/ Goto(x, "decision") \/ Goto(x, "read")
    BY <1>2, Zenon DEF CheckDepth, CheckRuntime
  <2> QED BY <1>a, <2>1, <2>2, GotoCalm DEF Ended, Analysing
<1>3. ASSUME x \in Beats, Score(x) PROVE Calm(x)
  <2> DEFINE j == [job[x] EXCEPT !.pc = "write", !.seen = base]
  <2>1. j \in JobState
    BY <1>a, Zenon DEF JobState, Analysing
  <2>2. j.pc = "write" /\ j.seen = base /\ j.open = job[x].open
    BY <1>a DEF JobState
  <2>3. Active(job[x]) /\ Becomes(x, j)
    BY <1>3, Zenon DEF Score, At, Active, Analysing
  <2> HIDE DEF j
  <2>4. Sane(j)
    BY <1>a, <2>2 DEF Sane
  <2> QED BY <2>1, <2>2, <2>3, <2>4, Zenon DEF Calm
<1>4. ASSUME x \in Beats, WriteBaseline(x) PROVE Calm(x)
  <2> DEFINE j == [job[x] EXCEPT !.pc = "decide", !.seen = New.seen]
  <2>1. j \in JobState
    BY <1>a, NewType, Zenon DEF JobState, Analysing
  <2>2. j.pc = "decide" /\ j.seen = New.seen /\ j.open = job[x].open
    BY <1>a DEF JobState
  <2>3. Active(job[x]) /\ Becomes(x, j)
    BY <1>4, Zenon DEF WriteBaseline, At, Active, Analysing
  <2> HIDE DEF j
  <2>4. Sane(j)
    BY NewType, <2>2 DEF Sane
  <2> QED BY <2>1, <2>2, <2>3, <2>4, Zenon DEF Calm
<1>5. ASSUME x \in Beats, Decide(x) PROVE Calm(x)
  <2>1. PICK j \in {Started("audit", "score"), Started("sample", "none")} : Becomes(x, j)
    BY <1>5, Zenon DEF Decide
  <2>2. j \in JobState /\ Sane(j) /\ ~j.open
    BY <2>1, StartedType DEF Sane, Locking, Analysing
  <2>3. Active(job[x])
    BY <1>5 DEF Decide, At, Active, Analysing
  <2> QED BY <1>c, <2>1, <2>2, <2>3
<1>6. ASSUME x \in Beats, Sample(x) PROVE Calm(x)
  BY <1>6, <1>a, GotoCalm DEF Sample, Ended
<1>7. ASSUME Report(x) PROVE Calm(x)
  <2>1. PICK cause \in {"none", "report"} : Becomes(x, Started("audit", cause))
    BY <1>7, Zenon DEF Report
  <2> DEFINE j == Started("audit", cause)
  <2>2. ~Active(j) /\ j \in JobState /\ Sane(j) /\ ~j.open
    BY StartedType DEF Active, Sane, Locking, Analysing
  <2>3. Becomes(x, j)
    BY <2>1
  <2> HIDE DEF j
  <2> QED BY <1>c, <2>2, <2>3
<1>8. ASSUME Audit(x) PROVE Calm(x)
  <2>1. CASE Goto(x, "idle")
    BY <1>a, <2>1, GotoCalm DEF Ended
  <2> DEFINE j == [job[x] EXCEPT !.pc = "sweep", !.audited = TRUE]
  <2>2. CASE Becomes(x, j)
    <3>1. j \in JobState
      BY <1>a, Zenon DEF JobState, Locking
    <3>2. j.pc = "sweep" /\ j.seen = job[x].seen /\ j.open = job[x].open /\ j.cause = job[x].cause
          /\ j.audited
      BY <1>a DEF JobState
    <3>3. job[x].pc = "audit"
      BY <1>8, Zenon DEF Audit, At
    <3> HIDE DEF j
    <3>4. Sane(j) /\ ~j.open /\ (Active(j) => Active(job[x]))
      BY <1>a, <3>2, <3>3 DEF Sane, Active, Locking, Analysing
    <3> QED BY <1>c, <2>2, <3>1, <3>4
  <2> QED BY <1>8, <2>1, <2>2, Zenon DEF Audit
<1>9. ASSUME Sweep(x) \/ Block(x) \/ Notice(x) PROVE Calm(x)
  <2>1. /\ job[x].pc \in {"sweep", "block", "notice"} /\ ~job[x].open
        /\ \/ Goto(x, "idle") \/ Goto(x, "block") \/ Goto(x, "notice")
           \/ Goto(x, "sample") /\ job[x].cause = "score"
    BY <1>9, <1>a DEF Sweep, Block, Notice, At, Sane
  <2>2. job[x].cause # "breach" => job[x].audited
    BY <1>a, <2>1 DEF Sane
  <2>3. job[x].cause = "score" => Active(job[x])
    BY <2>1 DEF Active, Locking
  <2> QED BY <1>a, <2>1, <2>2, <2>3, GotoCalm DEF Ended, Locking, Analysing
<1>10. ASSUME Crash(x) PROVE Calm(x)
  BY <1>10, <1>a, GotoCalm DEF Crash, Ended
<1> QED BY <1>d, <1>1, <1>2, <1>3, <1>4, <1>5, <1>6, <1>7, <1>8, <1>9, <1>10, Zenon DEF Lock

LEMMA TakeMoves == ASSUME Safe, NEW h \in Beats, Take(h) \/ CheckDecision(h) PROVE Move(h)
<1>a. TypeOK /\ Sane(job[h]) /\ job[h] \in JobState /\ h \in Slots
  BY Zenon DEF Safe, TypeOK, Slots
<1>1. CASE Take(h)
  <2>1. Goto(h, "depth") /\ ~job[h].open
    BY <1>1, <1>a DEF Take, At, Sane
  <2> QED BY <1>a, <2>1, GotoMoves, Zenon DEF Goto, Move, Analysing
<1>2. CASE CheckDecision(h)
  <2>1. CASE Goto(h, "idle")
    BY <1>a, <2>1, GotoCalm, Zenon DEF Ended, Move, Calm
  <2> DEFINE j == [job[h] EXCEPT !.pc = "read", !.open = TRUE]
  <2>2. CASE Becomes(h, j)
    <3>1. j \in JobState
      BY <1>a, Zenon DEF JobState, Analysing
    <3>2. j.pc = "read" /\ j.seen = job[h].seen
      BY <1>a DEF JobState
    <3> HIDE DEF j
    <3>3. Sane(j)
      BY <1>a, <3>2 DEF Sane
    <3> QED BY <2>2, <3>1, <3>3, Zenon DEF Move
  <2> QED BY <1>2, <2>1, <2>2, Zenon DEF CheckDecision
<1> QED BY <1>1, <1>2

-----------------------------------------------------------------------------
(* Type correctness, and what a slot says by itself                        *)

LEMMA MoveType ==
    ASSUME TypeOK, NEW x \in Slots, NEW j \in JobState, Becomes(x, j)
    PROVE  job' \in [Slots -> JobState] /\ job'[x] = j /\ \A y \in Slots \ {x} : job'[y] = job[y]
BY DEF TypeOK, Becomes

LEMMA CalmMoves == \A x : Calm(x) => Move(x)
BY Zenon DEF Calm, Move

\* Every step but those of the environment moves one slot.
LEMMA SlotMoves ==
    ASSUME Safe, [Next]_vars
    PROVE  (\E x \in Slots : Move(x)) \/ UNCHANGED job
<1>1. ASSUME NEW x \in Slots, Calm(x) \/ Move(x) PROVE \E y \in Slots : Move(y)
  BY <1>1, CalmMoves, Zenon
<1>2. ASSUME NEW h \in Beats, Arrive(h) \/ Handler(h) \/ Worker(h)
      PROVE  \E y \in Slots : Move(y)
  <2>1. h \in Slots
    BY DEF Slots
  <2> QED BY <1>1, <1>2, <2>1, SlotCalm, TakeMoves, Zenon DEF Worker
<1>3. ASSUME NEW x \in Reports, Report(x) PROVE \E y \in Slots : Move(y)
  <2>1. x \in Slots
    BY DEF Slots
  <2> QED BY <1>1, <1>3, <2>1, SlotCalm, Zenon
<1>4. ASSUME NEW x \in Slots, Lock(x) \/ Crash(x) PROVE \E y \in Slots : Move(y)
  BY <1>1, <1>4, SlotCalm, Zenon
<1> QED BY <1>2, <1>3, <1>4, Zenon DEF Next, OtherSample, Tick, vars

LEMMA PushType ==
    ASSUME slow \in Seq(BOOLEAN), NEW over \in BOOLEAN, Push(over)
    PROVE  slow' \in Seq(BOOLEAN)
<1> DEFINE s == <<over>> \o slow
           n == IF Len(slow) < Kept THEN Len(slow) + 1 ELSE Kept
<1>1. <<over>> \in Seq(BOOLEAN) /\ Len(<<over>>) = 1
  OBVIOUS
<1>2. s \in Seq(BOOLEAN) /\ Len(s) = Len(slow) + 1
  BY <1>1, ConcatProperties
<1>3. n \in Int /\ n <= Len(s) /\ Len(slow) \in Nat
  BY <1>2, EnforcementAssumption
<1>4. slow' = SubSeq(s, 1, n)
  BY DEF Push
<1> HIDE DEF s, n
<1>5. \A i \in 1 .. n : s[i] \in BOOLEAN
  BY <1>2, <1>3
<1> QED BY <1>3, <1>4, <1>5, SubSeqProperties

LEMMA WriteType ==
    ASSUME Safe, NEW h \in Beats, WriteBaseline(h)
    PROVE  base' \in Baseline /\ base'.of = base'.count
<1>1. h \in Slots
  BY DEF Slots
<1>2. job[h].seen \in Baseline /\ job[h].seen.of = job[h].seen.count
  BY <1>1, Fields, Zenon DEF Safe, TypeOK, Sane
<1>3. base' = [of |-> Capped(job[h].seen.of), count |-> Capped(job[h].seen.count)]
  BY Zenon DEF WriteBaseline
<1>4. \A n \in 0 .. MaxCount : Capped(n) \in 0 .. MaxCount
  BY EnforcementAssumption DEF Capped
<1> QED BY <1>2, <1>3, <1>4 DEF Baseline

LEMMA KeysType ==
    ASSUME Safe, [Next]_vars
    PROVE  /\ blocked' \in 0 .. BlockTTL /\ decision' \in 0 .. DecisionTTL /\ passes' \in Nat
           /\ base' \in Baseline /\ base'.of = base'.count
<1>a. /\ blocked \in 0 .. BlockTTL /\ decision \in 0 .. DecisionTTL /\ passes \in Nat
      /\ base \in Baseline /\ base.of = base.count
  BY Zenon DEF Safe, TypeOK
<1>1. ASSUME NEW h \in Beats, Decide(h)
      PROVE  decision' = DecisionTTL /\ passes' \in Nat /\ UNCHANGED <<blocked, base>>
  BY <1>1, <1>a DEF Decide
<1>2. ASSUME NEW x \in Slots, Block(x)
      PROVE  blocked' = BlockTTL /\ UNCHANGED <<decision, passes, base>>
  BY <1>2, Zenon DEF Block
<1>3. ASSUME NEW h \in Beats, WriteBaseline(h)
      PROVE  /\ UNCHANGED <<blocked, decision, passes>>
             /\ base' \in Baseline /\ base'.of = base'.count
  BY <1>3, WriteType, Zenon DEF WriteBaseline
<1>4. CASE Tick
  <2>1. blocked' \in 0 .. BlockTTL /\ decision' \in 0 .. DecisionTTL
    BY <1>4, <1>a, EnforcementAssumption DEF Tick
  <2>2. passes' \in Nat /\ UNCHANGED base
    BY <1>4, <1>a, 0 \in Nat, Zenon DEF Tick
  <2> QED BY <1>a, <2>1, <2>2, Zenon
<1>5. CASE UNCHANGED <<blocked, decision, base, passes>>
  BY <1>5, <1>a, Zenon
<1>6. DecisionTTL \in 0 .. DecisionTTL /\ BlockTTL \in 0 .. BlockTTL
  BY EnforcementAssumption
<1>7. ASSUME NEW h \in Beats, Arrive(h) \/ Handler(h) \/ Worker(h)
      PROVE  \/ Decide(h) \/ WriteBaseline(h)
             \/ UNCHANGED <<blocked, decision, base, passes>>
  BY <1>7, Zenon DEF Arrive, Handler, Ingest, Enqueue, Worker, Take, CheckDepth, CheckRuntime,
     CheckDecision, Score, Sample
<1>8. ASSUME NEW x \in Slots, Report(x) \/ Lock(x) \/ Crash(x)
      PROVE  Block(x) \/ UNCHANGED <<blocked, decision, base, passes>>
  BY <1>8, Zenon DEF Report, Lock, Audit, Sweep, Notice, Crash
<1>9. \/ \E h \in Beats : Decide(h) \/ WriteBaseline(h)
      \/ (\E x \in Slots : Block(x)) \/ Tick \/ UNCHANGED <<blocked, decision, base, passes>>
  BY <1>7, <1>8, Zenon DEF Next, Slots, OtherSample, vars
<1> QED BY <1>1, <1>2, <1>3, <1>4, <1>5, <1>6, <1>9, <1>a, Zenon

LEMMA ListsType ==
    ASSUME Safe, [Next]_vars
    PROVE  queue' \in Seq(Beats) /\ slow' \in Seq(BOOLEAN)
<1>a. queue \in Seq(Beats) /\ slow \in Seq(BOOLEAN)
  BY Zenon DEF Safe, TypeOK
<1>1. ASSUME NEW h \in Beats, Enqueue(h) \/ Take(h)
      PROVE  queue' \in Seq(Beats) /\ UNCHANGED slow
  <2>1. CASE Enqueue(h)
    BY <1>a, <2>1, AppendProperties DEF Enqueue
  <2>2. CASE Take(h)
    BY <1>a, <2>2, HeadTailProperties DEF Take
  <2> QED BY <1>1, <2>1, <2>2
<1>2. ASSUME NEW over \in BOOLEAN, Push(over)
      PROVE  slow' \in Seq(BOOLEAN)
  BY <1>2, <1>a, PushType
<1>3. ASSUME NEW h \in Beats, Sample(h) PROVE slow' \in Seq(BOOLEAN) /\ UNCHANGED queue
  BY <1>2, <1>3, Zenon DEF Sample
<1>4. ASSUME NEW over \in BOOLEAN, OtherSample(over)
      PROVE  slow' \in Seq(BOOLEAN) /\ UNCHANGED queue
  BY <1>2, <1>4, Zenon DEF OtherSample
<1>5. ASSUME NEW h \in Beats, Arrive(h) \/ Handler(h) \/ Worker(h)
      PROVE  Enqueue(h) \/ Take(h) \/ Sample(h) \/ UNCHANGED <<queue, slow>>
  BY <1>5, Zenon DEF Arrive, Handler, Ingest, Worker, CheckDepth, CheckRuntime, CheckDecision,
     Score, WriteBaseline, Decide
<1>6. ASSUME NEW x \in Slots, Report(x) \/ Lock(x) \/ Crash(x) PROVE UNCHANGED <<queue, slow>>
  BY <1>6, Zenon DEF Report, Lock, Audit, Sweep, Block, Notice, Crash
<1>7. \/ \E h \in Beats : Enqueue(h) \/ Take(h) \/ Sample(h)
      \/ (\E over \in BOOLEAN : OtherSample(over)) \/ UNCHANGED <<queue, slow>>
  BY <1>5, <1>6, Zenon DEF Next, Slots, Tick, vars
<1> QED BY <1>1, <1>3, <1>4, <1>7, <1>a, Zenon

LEMMA SafeInit == Init => Safe
<1> SUFFICES ASSUME Init PROVE Safe
  OBVIOUS
<1>1. job \in [Slots -> JobState] /\ \A x \in Slots : Sane(job[x])
  BY NewType, Zenon DEF Init
<1>2. /\ queue \in Seq(Beats) /\ slow \in Seq(BOOLEAN) /\ passes \in Nat
      /\ blocked \in 0 .. BlockTTL /\ decision \in 0 .. DecisionTTL
      /\ base \in Baseline /\ base.of = base.count
  BY EnforcementAssumption DEF Init, Baseline
<1> QED BY <1>1, <1>2, Zenon DEF Safe, TypeOK

LEMMA SafeNext == Safe /\ [Next]_vars => Safe'
<1> SUFFICES ASSUME Safe, [Next]_vars PROVE Safe'
  OBVIOUS
<1>1. job' \in [Slots -> JobState] /\ \A x \in Slots : Sane(job'[x])
  <2>1. CASE UNCHANGED job
    BY <2>1, Zenon DEF Safe, TypeOK
  <2>2. ASSUME NEW x \in Slots, Move(x)
        PROVE  job' \in [Slots -> JobState] /\ \A y \in Slots : Sane(job'[y])
    <3>1. PICK j \in JobState : Sane(j) /\ Becomes(x, j)
      BY <2>2, Zenon DEF Move
    <3>2. job' \in [Slots -> JobState] /\ job'[x] = j /\ \A y \in Slots \ {x} : job'[y] = job[y]
      BY <3>1, MoveType, Zenon DEF Safe
    <3> QED BY <3>1, <3>2, Zenon DEF Safe
  <2> QED BY <2>1, <2>2, SlotMoves, Zenon
<1> QED BY <1>1, KeysType, ListsType, Zenon DEF Safe, TypeOK

\* Heartbeats, reports, the queue, the keys and the samples are well typed.
THEOREM TypeCorrect == Spec => []TypeOK
<1>1. Safe => TypeOK
  BY Zenon DEF Safe
<1> QED BY <1>1, SafeInit, SafeNext, PTL DEF Spec

\* No lock by a score or a report takes effect without its audit row.
THEOREM LocksAreAudited == Spec => []LockedIsAudited
<1>1. Safe => LockedIsAudited
  BY Zenon DEF Safe, Sane, LockedIsAudited
<1> QED BY <1>1, SafeInit, SafeNext, PTL DEF Spec

\* Whatever the workers overwrite, the baseline is of as many scores as it counts.
THEOREM BaselinesMatch == Spec => []BaselineMatches
<1>1. Safe => BaselineMatches
  BY Zenon DEF Safe, BaselineMatches
<1> QED BY <1>1, SafeInit, SafeNext, PTL DEF Spec

-----------------------------------------------------------------------------
(* The runtime breaker                                                     *)

Opened == {h \in Beats : job[h].open}

\* Who passed the breaker is still at work or was counted: no more than workers.
Budget == /\ Cardinality(Busy) <= Workers
          /\ passes + Cardinality(Opened) <= Workers
          /\ decision = 0 => passes = 0

LEMMA Finite ==
    ASSUME NEW S, NEW T, S \subseteq Beats, T \subseteq S
    PROVE  Cardinality(S) \in Nat /\ Cardinality(T) \in Nat /\ Cardinality(T) <= Cardinality(S)
<1>1. IsFiniteSet(S) /\ IsFiniteSet(T)
  BY FS_Subset, EnforcementAssumption
<1> QED BY <1>1, FS_Subset, FS_CardinalityType

LEMMA OpenedAreBusy == Safe => Opened \subseteq Busy /\ Busy \subseteq Beats
BY DEF Safe, Sane, Opened, Busy, Active, Slots, Analysing

\* A calm step adds nobody.
LEMMA CalmShrinks ==
    ASSUME TypeOK, NEW x \in Slots, Calm(x)
    PROVE  Busy' \subseteq Busy /\ Opened' \subseteq Opened
<1>1. PICK j \in JobState :
         Becomes(x, j) /\ (Active(j) => Active(job[x])) /\ (j.open => job[x].open)
  BY Zenon DEF Calm
<1>2. job'[x] = j /\ \A y \in Slots \ {x} : job'[y] = job[y]
  BY <1>1, MoveType, Zenon
<1>3. ASSUME NEW h \in Beats
      PROVE  (Active(job'[h]) => Active(job[h])) /\ (job'[h].open => job[h].open)
  <2>1. CASE h = x BY <1>1, <1>2, <2>1, Zenon
  <2>2. CASE h # x BY <1>2, <2>2, Zenon DEF Slots
  <2> QED BY <2>1, <2>2
<1>4. ASSUME NEW h \in Busy' PROVE h \in Busy
  BY <1>3, <1>4, Zenon DEF Busy, Active
<1>5. ASSUME NEW h \in Opened' PROVE h \in Opened
  BY <1>3, <1>5, Zenon DEF Opened
<1> QED BY <1>4, <1>5, Zenon

LEMMA BudgetInit == Init => Budget
<1> SUFFICES ASSUME Init PROVE Budget
  OBVIOUS
<1>1. Busy = {} /\ Opened = {}
  <2>1. ASSUME NEW h \in Beats PROVE ~Active(job[h]) /\ ~job[h].open
    <3>1. job[h] = New
      BY Zenon DEF Init, Slots
    <3> QED BY <3>1, NewType DEF Active, Analysing, Locking
  <2> QED BY <2>1 DEF Busy, Opened
<1> QED BY <1>1, FS_EmptySet, EnforcementAssumption DEF Init, Budget

\* Nobody is added, and nothing is counted unless it leaves `open`.
LEMMA Shrinking ==
    ASSUME Safe, Budget, Busy' \subseteq Busy, Opened' \subseteq Opened, passes' \in Nat,
           passes' <= passes, decision' = 0 => passes' = 0
    PROVE  Budget'
<1>1. Opened \subseteq Beats /\ Busy \subseteq Beats
  BY OpenedAreBusy, Zenon
<1>2. /\ Cardinality(Busy') <= Cardinality(Busy) /\ Cardinality(Opened') <= Cardinality(Opened)
      /\ Cardinality(Busy) \in Nat /\ Cardinality(Busy') \in Nat
      /\ Cardinality(Opened) \in Nat /\ Cardinality(Opened') \in Nat
  BY <1>1, Finite
<1>3. passes \in Nat
  BY Zenon DEF Safe, TypeOK
<1> QED BY <1>2, <1>3, EnforcementAssumption DEF Budget

LEMMA BudgetNext == Safe /\ Budget /\ [Next]_vars => Budget'
<1> SUFFICES ASSUME Safe, Budget, [Next]_vars PROVE Budget'
  OBVIOUS
<1>a. TypeOK /\ Safe' /\ passes \in Nat /\ passes' \in Nat
  BY SafeNext, Zenon DEF Safe, TypeOK
<1>b. Opened \subseteq Busy /\ Busy \subseteq Beats /\ Opened' \subseteq Busy' /\ Busy' \subseteq Beats
  <2>1. (Opened \subseteq Busy /\ Busy \subseteq Beats)'
    BY <1>a, OpenedAreBusy, PTL
  <2> QED BY <2>1, OpenedAreBusy
<1>1. ASSUME NEW x \in Slots, Calm(x), UNCHANGED <<decision, passes>> PROVE Budget'
  <2>1. Busy' \subseteq Busy /\ Opened' \subseteq Opened
    BY <1>1, <1>a, CalmShrinks
  <2> QED BY <1>1, <1>a, <2>1, Shrinking DEF Budget
<1>2. CASE UNCHANGED <<job, decision, passes>>
  BY <1>2, Zenon DEF Budget, Busy, Opened, Active
<1>3. CASE Tick
  <2>1. Busy' = Busy /\ Opened' = Opened
    BY <1>3, Zenon DEF Tick, Busy, Opened, Active
  <2>2. passes' <= passes /\ (decision' = 0 => passes' = 0)
    BY <1>3, <1>a DEF Tick
  <2> QED BY <1>a, <2>1, <2>2, Shrinking
<1>4. ASSUME NEW h \in Beats, Take(h) PROVE Budget'
  <2>1. h \in Slots /\ job[h] \in JobState /\ ~job[h].open
    BY <1>4, <1>a DEF Safe, TypeOK, Slots, Take, At, Sane
  <2>2. Becomes(h, Moved(job[h], "depth")) /\ Moved(job[h], "depth") \in JobState
        /\ ~Moved(job[h], "depth").open
    BY <1>4, <2>1, <1>a, GotoMoves, Zenon DEF Take, Goto, Safe, Analysing
  <2>3. \A y \in Slots \ {h} : job'[y] = job[y]
    BY <1>a, <2>1, <2>2, MoveType, Zenon
  <2>4. ~job'[h].open
    BY <1>a, <2>1, <2>2, MoveType, Zenon
  <2>5. Busy' \subseteq Busy \cup {h} /\ Opened' \subseteq Opened
    BY <2>3, <2>4 DEF Busy, Opened, Active, Slots
  <2>6. IsFiniteSet(Busy) /\ IsFiniteSet(Busy \cup {h})
        /\ Cardinality(Busy \cup {h}) <= Cardinality(Busy) + 1
        /\ Cardinality(Busy) \in Nat
    BY <1>b, FS_Subset, FS_AddElement, FS_CardinalityType, EnforcementAssumption
  <2>7. Cardinality(Busy') <= Cardinality(Busy \cup {h}) /\ Cardinality(Busy') \in Nat
        /\ Cardinality(Busy \cup {h}) \in Nat
    BY <1>b, <2>5, Finite
  <2>8. Cardinality(Busy) < Workers /\ UNCHANGED <<decision, passes>>
    BY <1>4, Zenon DEF Take
  <2>9. Cardinality(Opened') <= Cardinality(Opened) /\ Cardinality(Opened) \in Nat
        /\ Cardinality(Opened') \in Nat
    BY <1>b, <2>5, Finite
  <2> QED BY <1>a, <2>6, <2>7, <2>8, <2>9, EnforcementAssumption DEF Budget
<1>5. ASSUME NEW h \in Beats, CheckDecision(h) PROVE Budget'
  <2>0. h \in Slots /\ Active(job[h]) /\ UNCHANGED <<decision, passes>>
    BY <1>5 DEF Slots, CheckDecision, At, Active, Analysing
  <2>1. CASE Goto(h, "idle")
    BY <1>1, <1>a, <2>0, <2>1, GotoCalm DEF Safe, Ended
  <2>2. CASE ~(decision > 0)
    <3>1. decision = 0 /\ passes = 0
      BY <1>a, <2>2 DEF TypeOK, Budget
    <3>2. \A y \in Slots \ {h} : job'[y] = job[y]
      BY <1>5, <1>a DEF CheckDecision, Goto, Becomes, TypeOK
    <3>3. Busy' \subseteq Busy
      BY <2>0, <3>2 DEF Busy, Active, Slots
    <3>4. /\ Cardinality(Busy') <= Cardinality(Busy) /\ Cardinality(Opened') <= Cardinality(Busy')
          /\ Cardinality(Busy) \in Nat /\ Cardinality(Busy') \in Nat /\ Cardinality(Opened') \in Nat
      BY <1>b, <3>3, Finite
    <3> QED BY <2>0, <3>1, <3>4, EnforcementAssumption DEF Budget
  <2> QED BY <1>5, <2>1, <2>2, Zenon DEF CheckDecision
<1>6. ASSUME NEW h \in Beats, Decide(h) PROVE Budget'
  <2>0. h \in Slots /\ Calm(h)
    BY <1>6, SlotCalm DEF Slots
  <2>1. Busy' \subseteq Busy /\ Opened' \subseteq Opened
    BY <1>a, <2>0, CalmShrinks
  <2>2. decision' # 0 /\ passes' = passes + (IF job[h].open THEN 1 ELSE 0)
    BY <1>6, EnforcementAssumption DEF Decide
  <2>3. CASE ~job[h].open
    BY <1>a, <2>1, <2>2, <2>3, Shrinking
  <2>4. CASE job[h].open
    <3>1. ~job'[h].open
      <4>1. PICK j \in {Started("audit", "score"), Started("sample", "none")} : Becomes(h, j)
        BY <1>6, Zenon DEF Decide
      <4>2. j \in JobState /\ ~j.open
        BY <4>1, StartedType DEF Locking, Analysing
      <4> QED BY <1>a, <2>0, <4>1, <4>2, MoveType, Zenon
    <3>2. h \in Opened /\ Opened' \subseteq Opened \ {h}
      BY <2>1, <2>4, <3>1 DEF Opened
    <3>3. IsFiniteSet(Opened) /\ Cardinality(Opened \ {h}) = Cardinality(Opened) - 1
      BY <1>b, <3>2, FS_Subset, FS_RemoveElement, EnforcementAssumption
    <3>4. /\ Cardinality(Opened') <= Cardinality(Opened \ {h})
          /\ Cardinality(Opened') \in Nat /\ Cardinality(Opened) \in Nat
      BY <1>b, <3>2, Finite
    <3>5. Cardinality(Busy') <= Cardinality(Busy) /\ Cardinality(Busy') \in Nat
          /\ Cardinality(Busy) \in Nat
      BY <1>b, <2>1, Finite
    <3> QED BY <1>a, <2>2, <2>4, <3>3, <3>4, <3>5, EnforcementAssumption DEF Budget
  <2> QED BY <2>3, <2>4
<1>7. ASSUME NEW h \in Beats, Arrive(h) \/ Handler(h) \/ Worker(h) PROVE Budget'
  <2>1. \/ Take(h) \/ CheckDecision(h) \/ Decide(h)
        \/ /\ UNCHANGED <<decision, passes>>
           /\ Arrive(h) \/ Handler(h) \/ CheckDepth(h) \/ CheckRuntime(h)
                 \/ Score(h) \/ WriteBaseline(h) \/ Sample(h)
    BY <1>7, Zenon DEF Arrive, Handler, Ingest, Enqueue, Worker, CheckDepth, CheckRuntime, Score,
       WriteBaseline, Sample
  <2>2. h \in Slots
    BY DEF Slots
  <2> QED BY <1>1, <1>4, <1>5, <1>6, <2>1, <2>2, SlotCalm, Zenon
<1>8. ASSUME NEW x \in Slots, Report(x) \/ Lock(x) \/ Crash(x) PROVE Budget'
  <2>1. UNCHANGED <<decision, passes>>
    BY <1>8, Zenon DEF Report, Lock, Audit, Sweep, Block, Notice, Crash
  <2> QED BY <1>1, <1>8, <2>1, SlotCalm, Zenon
<1>9. (\E over \in BOOLEAN : OtherSample(over)) \/ UNCHANGED vars => UNCHANGED <<job, decision, passes>>
  BY Zenon DEF OtherSample, vars
<1> QED BY <1>2, <1>3, <1>7, <1>8, <1>9, Zenon DEF Next, Slots

\* While the workers are slow, at most one analysis a worker in one life of the decision.
THEOREM BreakerHolds == Spec => []BreakerSheds
<1>1. Safe /\ Budget => BreakerSheds
  <2> SUFFICES ASSUME Safe, Budget PROVE BreakerSheds
    OBVIOUS
  <2>1. Cardinality(Opened) \in Nat /\ passes \in Nat
    BY OpenedAreBusy, Finite DEF Safe, TypeOK
  <2> QED BY <2>1, EnforcementAssumption DEF Budget, BreakerSheds
<1>2. Init => Safe /\ Budget
  BY SafeInit, BudgetInit
<1>3. Safe /\ Budget /\ [Next]_vars => (Safe /\ Budget)'
  BY SafeNext, BudgetNext
<1> QED BY <1>1, <1>2, <1>3, PTL DEF Spec

-----------------------------------------------------------------------------
(* The queue                                                               *)

\* What waits in the list is what was enqueued and not yet taken, each once: the
\* list holds no heartbeat that is elsewhere, and forgets none.
QueueHolds ==
    /\ \A i \in 1 .. Len(queue) : At(queue[i], "queued")
    /\ \A i, k \in 1 .. Len(queue) : queue[i] = queue[k] => i = k
    /\ \A h \in Beats : At(h, "queued") => \E i \in 1 .. Len(queue) : queue[i] = h

\* A step of slot x that neither begins nor ends in the queue.
Elsewhere(x) == /\ job[x].pc # "queued"
                /\ \E j \in JobState : j.pc # "queued" /\ Becomes(x, j)

LEMMA SlotElsewhere ==
    ASSUME Safe, NEW x \in Slots,
           \/ x \in Beats /\ (Arrive(x) \/ Ingest(x) \/ CheckDepth(x) \/ CheckRuntime(x)
                                \/ CheckDecision(x) \/ Score(x) \/ WriteBaseline(x) \/ Decide(x)
                                \/ Sample(x))
           \/ Report(x) \/ Lock(x) \/ Crash(x)
    PROVE  Elsewhere(x)
<1>a. job[x] \in JobState /\ base \in Baseline
  BY Zenon DEF Safe, TypeOK
<1>b. ASSUME NEW pc \in (Ended \cup Handling \cup Locking \cup Analysing) \ {"queued"}, Goto(x, pc)
      PROVE  \E j \in JobState : j.pc # "queued" /\ Becomes(x, j)
  <2>1. Moved(job[x], pc) \in JobState /\ Moved(job[x], pc).pc = pc
    <3>1. CASE pc \in Ended
      <4>1. [New EXCEPT !.pc = pc] \in JobState
        BY <3>1, NewType, Zenon DEF JobState
      <4> QED BY <3>1, <4>1 DEF Moved, New
    <3>2. CASE pc \notin Ended
      <4>1. [job[x] EXCEPT !.pc = pc] \in JobState
        BY <1>a, Zenon DEF JobState
      <4> QED BY <1>a, <3>2, <4>1 DEF Moved, JobState
    <3> QED BY <3>1, <3>2
  <2> QED BY <1>b, <2>1, Zenon DEF Goto
<1>c. ASSUME NEW pc \in {"idle", "insert", "sweep", "audit", "sample"},
             NEW cause \in {"none", "breach", "score", "report"}
      PROVE  Started(pc, cause) \in JobState /\ Started(pc, cause).pc = pc
  <2>1. pc \in Ended \cup Handling \cup Locking \cup Analysing
    BY DEF Ended, Handling, Locking, Analysing
  <2>2. Started(pc, cause) \in JobState
    BY <2>1, NewType, Zenon DEF Started, JobState
  <2> QED BY <2>2 DEF Started, New
<1>1. ASSUME x \in Beats, Arrive(x) PROVE Elsewhere(x)
  <2>1. PICK j \in {New, Started("sweep", "breach"), Started("insert", "none")} : Becomes(x, j)
    <3>1. PICK breach \in BOOLEAN :
             Becomes(x, IF blocked > 0 THEN New
                        ELSE IF breach THEN Started("sweep", "breach") ELSE Started("insert", "none"))
      BY <1>1, Zenon DEF Arrive
    <3>2. CASE blocked > 0 BY <3>1, <3>2
    <3>3. CASE ~(blocked > 0) /\ breach BY <3>1, <3>3
    <3>4. CASE ~(blocked > 0) /\ ~breach BY <3>1, <3>4
    <3> QED BY <3>2, <3>3, <3>4
  <2>2. j \in JobState /\ j.pc # "queued"
    BY <1>c, <2>1, NewType
  <2>3. job[x].pc # "queued"
    BY <1>1 DEF Arrive, Ended
  <2> QED BY <2>1, <2>2, <2>3, Zenon DEF Elsewhere
<1>2. ASSUME x \in Beats, Ingest(x) \/ CheckDepth(x) \/ CheckRuntime(x) \/ Sample(x)
      PROVE  Elsewhere(x)
  <2>1. job[x].pc # "queued"
    BY <1>2 DEF Ingest, CheckDepth, CheckRuntime, Sample, At
  <2>2. PICK pc \in {"push", "acked", "idle", "runtime", "decision", "read"} : Goto(x, pc)
    BY <1>2, Zenon DEF Ingest, CheckDepth, CheckRuntime, Sample
  <2> QED BY <1>b, <2>1, <2>2 DEF Elsewhere, Ended, Handling, Analysing
<1>3. ASSUME x \in Beats, CheckDecision(x) PROVE Elsewhere(x)
  <2>1. job[x].pc # "queued"
    BY <1>3 DEF CheckDecision, At
  <2>2. CASE Goto(x, "idle")
    BY <1>b, <2>1, <2>2 DEF Elsewhere, Ended
  <2> DEFINE j == [job[x] EXCEPT !.pc = "read", !.open = TRUE]
  <2>3. CASE Becomes(x, j)
    <3>1. j \in JobState
      BY <1>a, Zenon DEF JobState, Analysing
    <3>2. j.pc # "queued"
      BY <1>a DEF JobState
    <3> QED BY <2>1, <2>3, <3>1, <3>2, Zenon DEF Elsewhere
  <2> QED BY <1>3, <2>2, <2>3, Zenon DEF CheckDecision
<1>4. ASSUME x \in Beats, Score(x) PROVE Elsewhere(x)
  <2> DEFINE j == [job[x] EXCEPT !.pc = "write", !.seen = base]
  <2>1. j \in JobState
    BY <1>a, Zenon DEF JobState, Analysing
  <2>2. j.pc # "queued" /\ job[x].pc # "queued"
    BY <1>4, <1>a DEF JobState, Score, At
  <2>3. Becomes(x, j)
    BY <1>4, Zenon DEF Score
  <2> QED BY <2>1, <2>2, <2>3, Zenon DEF Elsewhere
<1>5. ASSUME x \in Beats, WriteBaseline(x) PROVE Elsewhere(x)
  <2> DEFINE j == [job[x] EXCEPT !.pc = "decide", !.seen = New.seen]
  <2>1. j \in JobState
    BY <1>a, NewType, Zenon DEF JobState, Analysing
  <2>2. j.pc # "queued" /\ job[x].pc # "queued"
    BY <1>5, <1>a DEF JobState, WriteBaseline, At
  <2>3. Becomes(x, j)
    BY <1>5, Zenon DEF WriteBaseline
  <2> QED BY <2>1, <2>2, <2>3, Zenon DEF Elsewhere
<1>6. ASSUME x \in Beats, Decide(x) PROVE Elsewhere(x)
  <2>1. PICK j \in {Started("audit", "score"), Started("sample", "none")} : Becomes(x, j)
    BY <1>6, Zenon DEF Decide
  <2>2. j \in JobState /\ j.pc # "queued"
    BY <1>c, <2>1
  <2>3. job[x].pc # "queued"
    BY <1>6 DEF Decide, At
  <2> QED BY <2>1, <2>2, <2>3, Zenon DEF Elsewhere
<1>7. ASSUME Report(x) PROVE Elsewhere(x)
  <2>1. PICK cause \in {"none", "report"} : Becomes(x, Started("audit", cause))
    BY <1>7, Zenon DEF Report
  <2>2. Started("audit", cause) \in JobState /\ Started("audit", cause).pc # "queued"
    BY <1>c
  <2>3. job[x].pc # "queued"
    BY <1>7 DEF Report, Ended
  <2> QED BY <2>1, <2>2, <2>3, Zenon DEF Elsewhere
<1>8. ASSUME Audit(x) PROVE Elsewhere(x)
  <2>1. job[x].pc # "queued"
    BY <1>8 DEF Audit, At
  <2>2. CASE Goto(x, "idle")
    BY <1>b, <2>1, <2>2 DEF Elsewhere, Ended
  <2> DEFINE j == [job[x] EXCEPT !.pc = "sweep", !.audited = TRUE]
  <2>3. CASE Becomes(x, j)
    <3>1. j \in JobState
      BY <1>a, Zenon DEF JobState, Locking
    <3>2. j.pc # "queued"
      BY <1>a DEF JobState
    <3> QED BY <2>1, <2>3, <3>1, <3>2, Zenon DEF Elsewhere
  <2> QED BY <1>8, <2>2, <2>3, Zenon DEF Audit
<1>9. ASSUME Sweep(x) \/ Block(x) \/ Notice(x) \/ Crash(x) PROVE Elsewhere(x)
  <2>1. job[x].pc # "queued"
    BY <1>9 DEF Sweep, Block, Notice, Crash, At, Handling, Locking, Analysing
  <2>2. PICK pc \in {"idle", "block", "notice", "sample", "lost"} : Goto(x, pc)
    BY <1>9, Zenon DEF Sweep, Block, Notice, Crash
  <2> QED BY <1>b, <2>1, <2>2 DEF Elsewhere, Ended, Locking, Analysing
<1> QED BY <1>1, <1>2, <1>3, <1>4, <1>5, <1>6, <1>7, <1>8, <1>9, Zenon DEF Lock

LEMMA ElsewhereKeeps ==
    ASSUME Safe, QueueHolds, NEW x \in Slots, Elsewhere(x), UNCHANGED queue
    PROVE  QueueHolds'
<1>1. PICK j \in JobState : j.pc # "queued" /\ Becomes(x, j)
  BY Zenon DEF Elsewhere
<1>2. \A y \in Slots : job'[y].pc = "queued" <=> job[y].pc = "queued"
  <2>1. job'[x] = j /\ \A y \in Slots \ {x} : job'[y] = job[y]
    BY <1>1, MoveType, Zenon DEF Safe
  <2> QED BY <1>1, <2>1, Zenon DEF Elsewhere
<1>3. \A i \in 1 .. Len(queue) : queue[i] \in Slots
  BY DEF Safe, TypeOK, Slots
<1> QED BY <1>2, <1>3, Zenon DEF QueueHolds, At, Slots

LEMMA EnqueueKeeps ==
    ASSUME Safe, QueueHolds, NEW h \in Beats, Enqueue(h)
    PROVE  QueueHolds'
<1>1. h \in Slots /\ job[h] \in JobState /\ queue \in Seq(Beats) /\ job \in [Slots -> JobState]
  BY Zenon DEF Safe, TypeOK, Slots
<1>2. job' = [job EXCEPT ![h] = [job[h] EXCEPT !.pc = "queued"]]
  BY DEF Enqueue, Goto, Becomes, Moved, Ended
<1>3. job'[h].pc = "queued" /\ job[h].pc = "acked" /\ \A y \in Slots \ {h} : job'[y] = job[y]
  BY <1>1, <1>2 DEF JobState, Enqueue, At
<1> DEFINE n == Len(queue)
<1>4. n \in Nat /\ Len(queue') = n + 1 /\ queue'[n + 1] = h
      /\ \A i \in 1 .. n : queue'[i] = queue[i] /\ queue[i] \in Slots /\ queue[i] # h
  <2>1. queue' = Append(queue, h)
    BY DEF Enqueue
  <2>2. \A i \in 1 .. n : queue[i] \in Slots /\ queue[i] # h
    BY <1>1, <1>3 DEF QueueHolds, At, Slots
  <2> QED BY <1>1, <2>1, <2>2, AppendProperties
<1> HIDE DEF n
<1>5. \A i \in 1 .. n + 1 : i = n + 1 \/ i \in 1 .. n
  BY <1>4
<1>6. \A i \in 1 .. n : i \in 1 .. n + 1
  BY <1>4
<1>7. n + 1 \in 1 .. n + 1
  BY <1>4
<1>8. \A i \in 1 .. n + 1 : job'[queue'[i]].pc = "queued"
  <2> TAKE i \in 1 .. n + 1
  <2>1. CASE i = n + 1
    BY <1>3, <1>4, <2>1
  <2>2. CASE i \in 1 .. n
    <3>1. job'[queue[i]] = job[queue[i]] /\ queue'[i] = queue[i]
      BY <1>3, <1>4, <2>2, Zenon
    <3>2. job[queue[i]].pc = "queued"
      BY <2>2, Zenon DEF QueueHolds, At, n
    <3> QED BY <3>1, <3>2
  <2> QED BY <1>5, <2>1, <2>2, Zenon
<1>9. \A i, k \in 1 .. n + 1 : queue'[i] = queue'[k] => i = k
  <2>1. \A i, k \in 1 .. n : queue[i] = queue[k] => i = k
    BY Zenon DEF QueueHolds, n
  <2> QED BY <1>4, <1>5, <2>1, Zenon
<1>10. ASSUME NEW b \in Beats, job'[b].pc = "queued"
       PROVE  \E i \in 1 .. n + 1 : queue'[i] = b
  <2>1. CASE b = h
    BY <1>4, <1>7, <2>1, Zenon
  <2>2. CASE b # h
    <3>1. job[b].pc = "queued"
      BY <1>3, <1>10, <2>2, Zenon DEF Slots
    <3>2. PICK i \in 1 .. n : queue[i] = b
      BY <3>1, Zenon DEF QueueHolds, At, n
    <3> QED BY <1>4, <1>6, <3>2, Zenon
  <2> QED BY <2>1, <2>2
<1> QED BY <1>4, <1>8, <1>9, <1>10, Zenon DEF QueueHolds, At

LEMMA TakeKeeps ==
    ASSUME Safe, QueueHolds, NEW h \in Beats, Take(h)
    PROVE  QueueHolds'
<1>1. h \in Slots /\ job[h] \in JobState /\ queue \in Seq(Beats) /\ job \in [Slots -> JobState]
  BY Zenon DEF Safe, TypeOK, Slots
<1>2. job' = [job EXCEPT ![h] = [job[h] EXCEPT !.pc = "depth"]]
  BY DEF Take, Goto, Becomes, Moved, Ended
<1>3. job'[h].pc = "depth" /\ \A y \in Slots \ {h} : job'[y] = job[y]
  BY <1>1, <1>2 DEF JobState
<1> DEFINE n == Len(queue)
<1>4. n \in Nat \ {0} /\ queue[1] = h /\ Len(queue') = n - 1
      /\ \A i \in 1 .. n - 1 : queue'[i] = queue[i + 1]
  BY <1>1, HeadTailProperties DEF Take
<1>5. \A i \in 1 .. n : queue[i] \in Slots
  BY <1>1 DEF Slots
<1> HIDE DEF n
<1>6. \A i \in 1 .. n - 1 : i + 1 \in 1 .. n /\ i + 1 # 1
  BY <1>4
<1>7. 1 \in 1 .. n
  BY <1>4
<1>a. \A i, k \in 1 .. n : queue[i] = queue[k] => i = k
  BY Zenon DEF QueueHolds, n
<1>8. \A i \in 1 .. n - 1 : job'[queue'[i]].pc = "queued"
  <2> TAKE i \in 1 .. n - 1
  <2>1. queue[i + 1] \in Slots \ {h} /\ queue'[i] = queue[i + 1]
    BY <1>4, <1>5, <1>6, <1>7, <1>a, Zenon
  <2>2. job[queue[i + 1]].pc = "queued"
    BY <1>6, Zenon DEF QueueHolds, At, n
  <2> QED BY <1>3, <2>1, <2>2
<1>9. \A i, k \in 1 .. n - 1 : queue'[i] = queue'[k] => i = k
  <2> TAKE i, k \in 1 .. n - 1
  <2> HAVE queue'[i] = queue'[k]
  <2>1. queue[i + 1] = queue[k + 1]
    BY <1>4, Zenon
  <2>2. i + 1 = k + 1
    BY <1>6, <1>a, <2>1, Zenon
  <2> QED BY <1>4, <2>2
<1>10. ASSUME NEW b \in Beats, job'[b].pc = "queued"
       PROVE  \E i \in 1 .. n - 1 : queue'[i] = b
  <2>1. b # h /\ job[b].pc = "queued"
    BY <1>3, <1>10 DEF Slots
  <2>2. PICK k \in 1 .. n : queue[k] = b
    BY <2>1, Zenon DEF QueueHolds, At, n
  <2>3. k - 1 \in 1 .. n - 1 /\ (k - 1) + 1 = k
    BY <1>4, <2>1, <2>2
  <2> QED BY <1>4, <2>2, <2>3
<1> QED BY <1>4, <1>8, <1>9, <1>10, Zenon DEF QueueHolds, At

LEMMA QueueNext == Safe /\ QueueHolds /\ [Next]_vars => QueueHolds'
<1> SUFFICES ASSUME Safe, QueueHolds, [Next]_vars PROVE QueueHolds'
  OBVIOUS
<1>1. CASE UNCHANGED <<job, queue>>
  BY <1>1, Zenon DEF QueueHolds, At
<1>2. ASSUME NEW h \in Beats, Arrive(h) \/ Handler(h) \/ Worker(h) PROVE QueueHolds'
  <2>1. h \in Slots
    BY DEF Slots
  <2>2. \/ Enqueue(h) \/ Take(h)
        \/ /\ UNCHANGED queue
           /\ \/ Arrive(h) \/ Ingest(h) \/ CheckDepth(h) \/ CheckRuntime(h) \/ CheckDecision(h)
              \/ Score(h) \/ WriteBaseline(h) \/ Decide(h) \/ Sample(h)
    BY <1>2, Zenon DEF Arrive, Handler, Ingest, Worker, CheckDepth, CheckRuntime, CheckDecision,
       Score, WriteBaseline, Decide, Sample
  <2> QED BY <2>1, <2>2, SlotElsewhere, ElsewhereKeeps, EnqueueKeeps, TakeKeeps, Zenon
<1>3. ASSUME NEW x \in Slots, Report(x) \/ Lock(x) \/ Crash(x) PROVE QueueHolds'
  <2>1. UNCHANGED queue
    BY <1>3, Zenon DEF Report, Lock, Audit, Sweep, Block, Notice, Crash
  <2> QED BY <1>3, <2>1, SlotElsewhere, ElsewhereKeeps, Zenon
<1>4. (\E over \in BOOLEAN : OtherSample(over)) \/ Tick \/ UNCHANGED vars => UNCHANGED <<job, queue>>
  BY Zenon DEF OtherSample, Tick, vars
<1> QED BY <1>1, <1>2, <1>3, <1>4, Zenon DEF Next, Slots

\* However handlers, workers and deaths overlap, the list holds every heartbeat that
\* was enqueued and not taken, once, and nothing else: no job runs twice, and none
\* is missed by the workers (what AckedIsAnalysed needs beside fairness).
THEOREM QueueForgetsNone == Spec => []QueueHolds
<1>1. Init => QueueHolds
  BY NewType DEF Init, QueueHolds, At, Slots
<1> QED BY <1>1, SafeInit, SafeNext, QueueNext, PTL DEF Spec
=============================================================================
