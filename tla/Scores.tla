--------------------------------- MODULE Scores ---------------------------------
(***************************************************************************)
(* The figures of evaluation/evaluate.py.  A figure is a fraction          *)
(* <<numerator, denominator>>; the four decimals it is printed with are    *)
(* left out, and MCC is given by its numerator and the square of its        *)
(* denominator.                                                            *)
(***************************************************************************)
EXTENDS Integers, Sequences, FiniteSets

(* Mutant: a missed positive is counted as a false alarm.                   *)
confusion_Swapped(y_true, y_pred, positive) ==
    LET Cell(isTrue, isPredicted) ==
          Cardinality({i \in 1..Len(y_true) : /\ (y_true[i] = positive) = isTrue
                                              /\ (y_pred[i] = positive) = isPredicted})
    IN [tp |-> Cell(TRUE, TRUE), fp |-> Cell(TRUE, FALSE), fn |-> Cell(FALSE, TRUE), tn |-> Cell(FALSE, FALSE)]

confusion(y_true, y_pred, positive) ==
    LET Cell(isTrue, isPredicted) ==
          Cardinality({i \in 1..Len(y_true) : /\ (y_true[i] = positive) = isTrue
                                              /\ (y_pred[i] = positive) = isPredicted})
    IN [tp |-> Cell(TRUE, TRUE), fp |-> Cell(FALSE, TRUE), fn |-> Cell(TRUE, FALSE), tn |-> Cell(FALSE, FALSE)]

Ratio(numerator, denominator) == IF denominator = 0 THEN <<0, 1>> ELSE <<numerator, denominator>>

Exceeds(a, b) == a[1] * b[2] > b[1] * a[2]

Equals(a, b) == a[1] * b[2] = b[1] * a[2]

precision(cm) == Ratio(cm.tp, cm.tp + cm.fp)
recall(cm) == Ratio(cm.tp, cm.tp + cm.fn)
specificity(cm) == Ratio(cm.tn, cm.tn + cm.fp)

(* 2 pr rc / (pr + rc) *)
f1(cm) ==
    LET pr == precision(cm)
        rc == recall(cm)
    IN Ratio(2 * pr[1] * rc[1], pr[1] * rc[2] + rc[1] * pr[2])

balanced_accuracy(cm) ==
    LET rc == recall(cm)
        sp == specificity(cm)
    IN <<rc[1] * sp[2] + sp[1] * rc[2], 2 * rc[2] * sp[2]>>

mcc(cm) ==
    LET square == (cm.tp + cm.fp) * (cm.tp + cm.fn) * (cm.tn + cm.fp) * (cm.tn + cm.fn)
    IN [num |-> IF square = 0 THEN 0 ELSE cm.tp * cm.tn - cm.fp * cm.fn, square |-> square]

(* 2 p / (p + 1) for the prevalence p = positives / total *)
no_skill_f1(cm) ==
    LET positives == cm.tp + cm.fn
        total == positives + cm.fp + cm.tn
    IN Ratio(2 * positives, positives + total)

scores(cm) ==
    [precision |-> precision(cm), recall |-> recall(cm), specificity |-> specificity(cm),
     f1 |-> f1(cm), balanced_accuracy |-> balanced_accuracy(cm), mcc |-> mcc(cm),
     no_skill_f1 |-> no_skill_f1(cm)]
================================================================================
