-------------------------------- MODULE Trust --------------------------------
(***************************************************************************)
(* What a heartbeat is worth: compute_trust_score_stateful of              *)
(* app/services/trust.py, and the baseline and the adaptive threshold of   *)
(* app/workers/celery_app.py, for the analyses of one device, one after    *)
(* the other (Enforcement has them overlap).  Integers stand for floats: an*)
(* average is kept as a scaled sum, a root as the squares below it.        *)
(***************************************************************************)
EXTENDS Integers, SequencesExt

CONSTANTS
    Payloads,        \* what a heartbeat may carry
    MaxHistory,      \* payloads kept (100)
    Warmup,          \* scores before the threshold adapts (10)
    TouchLoss(_, _), \* int(50 * entropy) of k touches among n payloads
    MaxCount         \* bound: scores a baseline counts

\* Magnitudes are sums of absolute values; motion is int(100 * motion_delta).
ASSUME TrustAssumption ==
    /\ Payloads \subseteq [accel : Nat, gyro : Nat, touch : BOOLEAN, motion : Int]
    /\ MaxHistory \in Nat \ {0} /\ Warmup \in Nat /\ MaxCount \in Nat
    /\ \A n \in 1 .. MaxHistory + 1 :
          /\ \A k \in 0 .. n : TouchLoss(n, k) \in 0 .. 50
          /\ TouchLoss(n, 0) = 0 /\ TouchLoss(n, n) = 0

VARIABLES
    hist,     \* sig:{device}, newest first
    base,     \* baseline:{device}: count, sum and sum of squares for mean and m2
    last,     \* the last score, and whether it locked the device
    scores,   \* history: the scores in the baseline
    steady    \* history: every heartbeat so far carried the same

vars == <<hist, base, last, scores, steady>>

Score == 0 .. 100

TypeOK ==
    /\ hist \in Seq(Payloads) /\ Len(hist) <= MaxHistory
    /\ base.count \in Nat /\ base.sum \in Nat /\ base.sq \in Nat
    /\ last \in [score : Score, locked : BOOLEAN]
    /\ scores \in Seq(Score)
    /\ steady \in BOOLEAN

NoBaseline == [count |-> 0, sum |-> 0, sq |-> 0]

Init ==
    /\ hist = <<>>
    /\ base = NoBaseline
    /\ last = [score |-> 100, locked |-> FALSE]
    /\ scores = <<>>
    /\ steady = TRUE

-----------------------------------------------------------------------------
(* compute_trust_score_stateful                                            *)

Sum(s) == FoldLeft(LAMBDA acc, v : acc + v, 0, s)
Squares(s) == FoldLeft(LAMBDA acc, v : acc + v * v, 0, s)

\* _ema with alpha = 1/5: of n values, 5^(n-1) times the average, and that factor.
Ema(s) ==
    FoldLeft(LAMBDA e, v : [sum |-> e.scale * v + 4 * e.sum, scale |-> 5 * e.scale],
             [sum |-> Head(s), scale |-> 1], Tail(s))

\* n * n times the variance of n values.
Variance(s) == Len(s) * Squares(s) - Sum(s) * Sum(s)

\* min(100, int(factor * |v - ema| / std)), std read as 1 when it is 0: how many k
\* in 1 .. 100 there are with k * std <= factor * |v - ema|.
Deviation(s, factor) ==
    LET n == Len(s)
        e == Ema(s)
        gap == e.scale * Last(s) - e.sum
        off == factor * (IF gap < 0 THEN -gap ELSE gap)
        square == (n * n * off * off) \div (e.scale * e.scale * Variance(s))
    IN  IF Variance(s) = 0 THEN Cardinality({k \in 1 .. 100 : k * e.scale <= off})
        ELSE Cardinality({k \in 1 .. 100 : k * k <= square})

\* Mutant: a series that does not vary has no z-score.
PenaltyFlat(s) == IF Variance(s) = 0 THEN 100 ELSE Deviation(s, 20)

Penalty(s) == Deviation(s, 20)

\* Mutant: no upper bound.
ClampBelow(v) == IF v < 0 THEN 0 ELSE v

Clamp(v) == IF v < 0 THEN 0 ELSE IF v > 100 THEN 100 ELSE v

\* The current payload comes after a history that is newest first.
ScoreOf(history, current) ==
    LET series == Append(history, current)
        n == Len(series)
        accel == 100 - Penalty([i \in 1 .. n |-> series[i].accel])
        gyro == 100 - Penalty([i \in 1 .. n |-> series[i].gyro])
        touch == 100 - TouchLoss(n, Cardinality({i \in 1 .. n : series[i].touch}))
    IN  (40 * accel + 30 * gyro + 15 * touch + 15 * Clamp(current.motion)) \div 100

-----------------------------------------------------------------------------
(* The baseline and the threshold                                          *)

\* Mutant: one standard deviation below the mean.
BelowOne(score, b) ==
    LET gap == b.sum - b.count * score
    IN  IF b.count < Warmup THEN score < 50
        ELSE score < 30 \/ (gap > 0 /\ gap * gap > b.count * b.sq - b.sum * b.sum)

\* score < 50 at first, then score < max(30, mean - 2 * std).
Below(score, b) ==
    LET gap == b.sum - b.count * score
    IN  IF b.count < Warmup THEN score < 50
        ELSE score < 30 \/ (gap > 0 /\ gap * gap > 4 * (b.count * b.sq - b.sum * b.sum))

\* A heartbeat: its payload is pushed, then analysed.
Beat(p) ==
    LET pushed == <<p>> \o hist
        history == IF Len(pushed) > MaxHistory THEN Front(pushed) ELSE pushed
        score == ScoreOf(history, p)
        counted == [count |-> base.count + 1, sum |-> base.sum + score, sq |-> base.sq + score * score]
    IN  /\ base.count < MaxCount
        /\ hist' = history
        /\ base' = counted
        /\ last' = [score |-> score, locked |-> Below(score, counted)]
        /\ scores' = Append(scores, score)
        /\ steady' = (steady /\ (hist = <<>> \/ p = Head(hist)))

\* The baseline expires, a week after the last analysis; the history does not.
Expire ==
    /\ base # NoBaseline
    /\ base' = NoBaseline
    /\ scores' = <<>>
    /\ UNCHANGED <<hist, last, steady>>

Next == (\E p \in Payloads : Beat(p)) \/ Expire

Spec == Init /\ [][Next]_vars

-----------------------------------------------------------------------------
(* The gRPC entrance scores a signal it does not keep.                     *)
Verdict(p) == IF ScoreOf(hist, p) >= 50 THEN "safe" ELSE "block"

-----------------------------------------------------------------------------
(* Properties                                                              *)

\* A device that reports the same again and again is never locked, neither while
\* the threshold is 50 nor when it is the mean, and gRPC calls it safe.
SteadyDevice ==
    steady => /\ ~last.locked
              /\ hist # <<>> => Verdict(Head(hist)) = "safe"

\* Once the threshold adapts, a score of 30 and more that locks is among the lowest
\* fifth of those in the baseline, itself included.
LockIsRare ==
    (last.locked /\ last.score >= 30 /\ base.count >= Warmup /\ base.count > 0) =>
        5 * Cardinality({i \in DOMAIN scores : scores[i] <= last.score}) <= Len(scores)
=============================================================================
