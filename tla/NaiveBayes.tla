------------------------------- MODULE NaiveBayes -------------------------------
(***************************************************************************)
(* engines/naive_bayes.py.  A payload is the set of words it contains, a   *)
(* probability a fraction <<numerator, denominator>>: the sums of           *)
(* logarithms are products here, and the rounding of a likelihood to six    *)
(* decimals is left out.                                                   *)
(***************************************************************************)
EXTENDS Integers, Sequences, FiniteSets, FiniteSetsExt

CONSTANTS
    Words,          (* the words of the payloads, in the order of the       *)
                    (* strings                                              *)
    SeedWords,      (* those DEFAULT_LIKELIHOODS has                        *)
    WEAK_SIGNALS,
    TopN,           (* top_n of discover_vocabulary                         *)
    Confidence      (* confidence_threshold, in percent                     *)

ASSUME NaiveBayesAssumption ==
    /\ SeedWords \cup WEAK_SIGNALS \subseteq {Words[i] : i \in 1..Len(Words)}
    /\ TopN \in Nat /\ Confidence \in 1..99

IsMalicious(row) == row.label \in {"Malicious", "Attack"}

(* Rows of the one kind and of the other that contain a word                *)
In(rows, word, malicious) ==
    Cardinality({i \in 1..Len(rows) : word \in rows[i].words /\ IsMalicious(rows[i]) = malicious})

RowsOf(rows, malicious) == Cardinality({i \in 1..Len(rows) : IsMalicious(rows[i]) = malicious})

Candidates(rows) ==
    {w \in 1..Len(Words) : In(rows, Words[w], TRUE) + In(rows, Words[w], FALSE) >= 2}

(* |log((m + 1) / (s + 1))|, compared without the logarithm                 *)
Score(rows, w) ==
    LET m == In(rows, Words[w], TRUE) + 1
        s == In(rows, Words[w], FALSE) + 1
    IN IF m > s THEN <<m, s>> ELSE <<s, m>>

Outranks(rows, v, w) ==
    LET a == Score(rows, v)
        b == Score(rows, w)
    IN a[1] * b[2] > b[1] * a[2] \/ (a[1] * b[2] = b[1] * a[2] /\ v > w)

discover_vocabulary(rows) ==
    {Words[w] : w \in {v \in Candidates(rows) :
        Cardinality({u \in Candidates(rows) : Outranks(rows, u, v)}) < TopN}}

(* Mutant: the smoothing is left out of the numerator.                      *)
Smoothed_Not(count, total) == <<count, total + 2>>

Smoothed(count, total) == <<count + 1, total + 2>>

Trainable(rows) == RowsOf(rows, TRUE) > 0 /\ RowsOf(rows, FALSE) > 0

train_payload(rows) ==
    LET vocabulary == SeedWords \cup discover_vocabulary(rows)
    IN [malicious |-> RowsOf(rows, TRUE), safe |-> RowsOf(rows, FALSE),
        likelihoods |-> [w \in vocabulary |->
            [malicious |-> Smoothed(In(rows, w, TRUE), RowsOf(rows, TRUE)),
             safe      |-> Smoothed(In(rows, w, FALSE), RowsOf(rows, FALSE))]]]

(* A logarithm is taken of every prior and every likelihood that is met.    *)
Scorable(engine) ==
    /\ engine.malicious > 0 /\ engine.safe > 0
    /\ \A w \in DOMAIN engine.likelihoods :
          engine.likelihoods[w].malicious[1] > 0 /\ engine.likelihoods[w].safe[1] > 0

(* The weight of the one class, up to a factor common to both               *)
Weight(engine, words, class, other) ==
    LET found == words \cap DOMAIN engine.likelihoods
        term(w) == engine.likelihoods[w][class][1] * engine.likelihoods[w][other][2]
    IN engine[class] * FoldSet(LAMBDA w, product : term(w) * product, 1, found)

classify_payload(engine, words) ==
    LET malicious == Weight(engine, words, "malicious", "safe")
        safe == Weight(engine, words, "safe", "malicious")
        strong == (words \cap DOMAIN engine.likelihoods) \ WEAK_SIGNALS
    IN IF 100 * malicious >= Confidence * (malicious + safe) /\ strong # {} THEN "Malicious" ELSE "Safe"
================================================================================
