--------------------------------- MODULE ZScore ---------------------------------
(***************************************************************************)
(* engines/z_score.py: the volumetric flood detector.  Once per interval   *)
(* the packet rate is scored against a rolling baseline of earlier rates,  *)
(* and only then, unless it is a flood candidate, admitted to it.          *)
(*                                                                         *)
(* A score is compared with the threshold exactly, in integers: with n     *)
(* samples of sum S and sum of squares Q,                                  *)
(*     (x - mean) / std = (n*x - S) / sqrt(n*Q - S*S).                     *)
(* The session-wide Welford figures only feed the summary and are left out.*)
(***************************************************************************)
EXTENDS Integers, Sequences

CONSTANTS
    Window,         (* window_size of the rolling history                  *)
    Threshold,      (* z above this is a statistical anomaly               *)
    MinWarmup,      (* MIN_WARMUP: samples needed before anything is one   *)
    MinPps,         (* min_pps: rate below which it is no candidate        *)
    Required,       (* required_consecutive candidates make a threat       *)
    GuardBaseline,  (* guard_baseline: keep candidates out of the baseline *)
    Baselines,      (* histories a restored brain may hold                 *)
    MaxRate,        (* bound on the packets of an interval                 *)
    MaxSuppressed   (* bound on the counter of suppressed candidates       *)

ASSUME ZScoreAssumption ==
    /\ Window \in Nat \ {0}
    /\ Threshold \in Nat
    /\ MinWarmup \in Nat
    /\ MinPps \in Nat
    /\ Required \in Nat \ {0}
    /\ GuardBaseline \in BOOLEAN
    /\ Baselines \subseteq Seq(0..MaxRate)
    /\ MaxRate \in Nat \ {0}
    /\ MaxSuppressed \in Nat

VARIABLES
    history,        (* the rolling baseline, oldest first                  *)
    anomaly_streak, (* consecutive candidates                              *)
    suppressed,     (* candidates kept out of the baseline                 *)
    verdict,        (* what analyse answered last                          *)
    seen,           (* history: the rates of the last Required intervals   *)
    announced       (* history: the running episode had its new_threat     *)

zVars == <<history, anomaly_streak, suppressed, verdict, seen, announced>>

NoVerdict == [pps |-> 0, candidate |-> FALSE, threat |-> FALSE, new |-> FALSE]

(* deque(..., maxlen = size) *)
Latest(seq, size) == SubSeq(seq, 1 + (IF Len(seq) > size THEN Len(seq) - size ELSE 0), Len(seq))

ZTypeOK ==
    /\ history \in Seq(0..MaxRate) /\ Len(history) <= Window
    /\ anomaly_streak \in Nat
    /\ suppressed \in 0..MaxSuppressed
    /\ verdict \in [pps : 0..MaxRate, candidate : BOOLEAN, threat : BOOLEAN, new : BOOLEAN]
    /\ seen \in Seq(0..MaxRate) /\ Len(seen) <= Required
    /\ announced \in BOOLEAN

ZInit ==
    /\ \E brain \in Baselines : history = Latest(brain, Window)
    /\ anomaly_streak = 0
    /\ suppressed = 0
    /\ verdict = NoVerdict
    /\ seen = <<>>
    /\ announced = FALSE

--------------------------------------------------------------------------------
Total(samples) ==
    LET upTo[i \in 0..Len(samples)] == IF i = 0 THEN 0 ELSE upTo[i - 1] + samples[i]
    IN upTo[Len(samples)]

Squares(samples) == Total([i \in 1..Len(samples) |-> samples[i] * samples[i]])

(* n * n times the population variance *)
Spread(samples) == Len(samples) * Squares(samples) - Total(samples) * Total(samples)

(* How far n * x lies above the sum, n times its distance from the mean. *)
Excess(samples, x) == Len(samples) * x - Total(samples)

StatisticalAnomaly(x) ==
    /\ Len(history) >= MinWarmup
    /\ Spread(history) > 0
    /\ Excess(history, x) > 0
    /\ Excess(history, x) * Excess(history, x) > Threshold * Threshold * Spread(history)

VolumeCandidate(x) == StatisticalAnomaly(x) /\ x >= MinPps

(* Mutants: an off-by-one in the event; an event for every interval.  *)
NewThreat_Late(x) == VolumeCandidate(x) /\ anomaly_streak + 1 = Required + 1
NewThreat_Always(x) == VolumeCandidate(x) /\ anomaly_streak + 1 >= Required

NewThreat(x) == VolumeCandidate(x) /\ anomaly_streak + 1 = Required

(* Mutants: the guard has no effect; the history is a list without a bound. *)
Admitted_Everything(x) == Latest(Append(history, x), Window)
Admitted_Untrimmed(x) == IF VolumeCandidate(x) /\ GuardBaseline THEN history ELSE Append(history, x)

Admitted(x) ==
    IF VolumeCandidate(x) /\ GuardBaseline
    THEN history
    ELSE Latest(Append(history, x), Window)

(* Mutant: a quiet interval does not end the streak. *)
Streak_NeverReset(x) == IF VolumeCandidate(x) THEN anomaly_streak + 1 ELSE anomaly_streak

Streak(x) == IF VolumeCandidate(x) THEN anomaly_streak + 1 ELSE 0

Analyse(x) ==
    /\ suppressed < MaxSuppressed
    /\ anomaly_streak' = Streak(x)
    /\ history' = Admitted(x)
    /\ suppressed' = suppressed + IF VolumeCandidate(x) /\ GuardBaseline THEN 1 ELSE 0
    /\ verdict' = [pps       |-> x,
                   candidate |-> VolumeCandidate(x),
                   threat    |-> VolumeCandidate(x) /\ Streak(x) >= Required,
                   new       |-> NewThreat(x)]
    /\ seen' = Latest(Append(seen, x), Required)
    /\ announced' = (VolumeCandidate(x) /\ (announced \/ NewThreat(x)))

(* A new process restores the history its predecessor exported; the streak  *)
(* and the counter start afresh.                                            *)
Restore ==
    /\ history' = Latest(history, Window)
    /\ anomaly_streak' = 0
    /\ suppressed' = 0
    /\ seen' = <<>>
    /\ announced' = FALSE
    /\ UNCHANGED verdict

--------------------------------------------------------------------------------
(* A flood is not absorbed by the baseline: once a rate is a candidate,     *)
(* every rate at least as high is one in the next interval too, also after  *)
(* a restart that restored the baseline ("the z-score decays to zero and    *)
(* the alert silently stops while the attack is still running").            *)
FloodNotAbsorbed ==
    [][verdict.candidate /\ verdict'.pps >= verdict.pps => verdict'.candidate]_zVars

(* An isolated spike is no attack: when a threat is reported each of the    *)
(* last Required intervals carried at least MinPps.                         *)
ThreatSustained ==
    verdict.threat /\ seen # <<>> =>
        Len(seen) = Required /\ \A i \in 1..Len(seen) : seen[i] >= MinPps

(* The threat status is shown exactly while an episode whose event has been *)
(* raised goes on: not without the event, and not without an end.           *)
ThreatAnnounced == seen # <<>> => (verdict.threat <=> announced)
================================================================================
