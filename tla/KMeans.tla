--------------------------------- MODULE KMeans ---------------------------------
(***************************************************************************)
(* engines/kmeans.py along one feature: a point is a number and a distance  *)
(* the difference of two.  A quotient is rounded down; the instances take   *)
(* the points hundreds apart, so that a rounding decides nothing.  The     *)
(* running mean and deviation of the distances are kept exactly, as their  *)
(* count, sum and sum of squares.                                          *)
(***************************************************************************)
EXTENDS Integers, Sequences, SequencesExt, FiniteSets, FiniteSetsExt

CONSTANTS
    Clusters,       (* k                                                    *)
    Iterations,     (* iters of train                                       *)
    LearningRate,   (* alpha is one in LearningRate                         *)
    RadiusMultiplier,
    MinSamples      (* min_samples                                          *)

ASSUME KMeansAssumption ==
    {Clusters, Iterations, LearningRate, RadiusMultiplier, MinSamples} \subseteq Nat \ {0}

Distance(a, b) == IF a < b THEN b - a ELSE a - b

(* The first of the centroids that are nearest                              *)
Nearest(centroids, p) ==
    CHOOSE c \in 1..Len(centroids) :
        \A d \in 1..Len(centroids) :
            \/ Distance(p, centroids[c]) < Distance(p, centroids[d])
            \/ Distance(p, centroids[c]) = Distance(p, centroids[d]) /\ c <= d

Nearness(centroids, p) == Distance(p, centroids[Nearest(centroids, p)])

Total(seq) == FoldLeft(+, 0, seq)

Group(points, centroids, c) == SelectSeq(points, LAMBDA p : Nearest(centroids, p) = c)

Placement(points) ==
    LET step == Len(points) \div Clusters IN [c \in 1..Clusters |-> points[(c - 1) * step + 1]]

(* One pass of Lloyd's algorithm; a centroid without points stays.          *)
Moved(points, centroids) ==
    [c \in 1..Len(centroids) |->
        LET group == Group(points, centroids, c)
        IN IF group = <<>> THEN centroids[c] ELSE Total(group) \div Len(group)]

Converged(points) ==
    LET after[i \in 0..Iterations] == IF i = 0 THEN Placement(points) ELSE Moved(points, after[i - 1])
    IN after[Iterations]

Inertia(points, centroids) ==
    Total([i \in 1..Len(points) |-> Nearness(centroids, points[i]) * Nearness(centroids, points[i])])

train_kmeans(points) ==
    LET centroids == Converged(points)
        distances == [i \in 1..Len(points) |-> Nearness(centroids, points[i])]
    IN [centroids |-> centroids,
        count     |-> Len(points),
        sum       |-> Total(distances),
        squares   |-> Total([i \in 1..Len(points) |-> distances[i] * distances[i]]),
        members   |-> [c \in 1..Clusters |-> Len(Group(points, centroids, c))]]

(* distance > mean + multiplier * deviation, both sides times the count; a  *)
(* multiple of the mean when the distances have not varied.                 *)
Novel(engine, p) ==
    LET distance == Nearness(engine.centroids, p)
        n == engine.count
        beyond == n * distance - engine.sum
        spread == n * engine.squares - engine.sum * engine.sum
    IN /\ n >= MinSamples
       /\ IF spread > 0
          THEN beyond > 0 /\ beyond * beyond > RadiusMultiplier * RadiusMultiplier * spread
          ELSE engine.sum > 0 /\ n * distance > engine.sum * RadiusMultiplier

Learned(engine, p) ==
    LET c == Nearest(engine.centroids, p)
        distance == Nearness(engine.centroids, p)
    IN [centroids |-> [engine.centroids EXCEPT ![c] = @ + (p - @) \div LearningRate],
        count     |-> engine.count + 1,
        sum       |-> engine.sum + distance,
        squares   |-> engine.squares + distance * distance,
        members   |-> [engine.members EXCEPT ![c] = @ + 1]]

(* Mutant: every observation is folded into the model.                      *)
analyse_kmeans_Always(engine, p) == Learned(engine, p)

(* What analyse leaves of the engine: a novel point teaches it nothing.     *)
analyse_kmeans(engine, p) == IF Novel(engine, p) THEN engine ELSE Learned(engine, p)

(* Mutant: a brain as it was saved before distances were tracked.           *)
export_kmeans_NoDistances(engine) == [centroids |-> engine.centroids]

export_kmeans(engine) == engine

import_kmeans(data) ==
    IF "count" \in DOMAIN data THEN data
    ELSE [centroids |-> data.centroids, count |-> 0, sum |-> 0, squares |-> 0,
          members |-> [c \in 1..Len(data.centroids) |-> 0]]
================================================================================
