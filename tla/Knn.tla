----------------------------------- MODULE Knn -----------------------------------
(***************************************************************************)
(* engines/knn.py: what becomes of training rows, and which verdicts the    *)
(* engine can give.  A row is [ports, pkts, label, legible]; `legible` is   *)
(* FALSE when a number of it cannot be read.  Distances are abstracted: an  *)
(* observation that is among the training rows takes the label it has      *)
(* there, for the weight of an exact match outdoes all others; any other    *)
(* takes a label that occurs.                                              *)
(***************************************************************************)
EXTENDS Rows, SequencesExt, FiniteSets

CONSTANTS
    MIN_SCAN_PORTS,
    MIN_SCAN_RATIO  (* of ports to packets, in percent                      *)

ASSUME KnnAssumption == {MIN_SCAN_PORTS, MIN_SCAN_RATIO} \subseteq Nat \ {0}

is_plausible_scan(ports, pkts) ==
    pkts > 0 /\ MIN_SCAN_PORTS <= ports /\ ports <= pkts /\ 100 * ports >= MIN_SCAN_RATIO * pkts

Usable(row) == row.legible /\ row.ports >= 0 /\ row.pkts > 0 /\ row.ports <= row.pkts

Repaired(row) ==
    [row EXCEPT !.label = IF @ \in {"Scan", "scan"} /\ is_plausible_scan(row.ports, row.pkts)
                          THEN "Scan" ELSE "Normal"]

sanitise_training_data(samples) ==
    LET usable == Kept(samples, Usable)
    IN [i \in 1..Len(usable) |-> Repaired(usable[i])]

LabelsOf(rows) == {rows[i].label : i \in 1..Len(rows)}

(* items[::step][:per] *)
Thinned(items, per) ==
    LET step == IF Len(items) < per THEN 1 ELSE Len(items) \div per
        every == [i \in 1..((Len(items) + step - 1) \div step) |-> items[(i - 1) * step + 1]]
    IN SubSeq(every, 1, IF Len(every) < per THEN Len(every) ELSE per)

(* Mutant: the first max_samples rows, whatever their labels.               *)
DownSampled_First(rows, max_samples) ==
    SubSeq(rows, 1, IF Len(rows) < max_samples THEN Len(rows) ELSE max_samples)

DownSampled(rows, max_samples) ==
    IF Len(rows) <= max_samples THEN rows
    ELSE LET labels == SetToSeq(LabelsOf(rows))
             share == max_samples \div Len(labels)
             per == IF share = 0 THEN 1 ELSE share
             bucket(l) == Kept(rows, LAMBDA row : row.label = l)
         IN FlattenSeq([l \in 1..Len(labels) |-> Thinned(bucket(labels[l]), per)])

train_knn(samples, max_samples) == DownSampled(sanitise_training_data(samples), max_samples)

(* import_brain: a brain without one usable row leaves the seeds in place.  *)
import_knn(data, seeds) ==
    LET cleaned == sanitise_training_data(data)
    IN IF cleaned = <<>> THEN seeds ELSE cleaned

classify_knn(training_data, row) ==
    LET same == {i \in 1..Len(training_data) :
                   training_data[i].ports = row.ports /\ training_data[i].pkts = row.pkts}
        exact == {training_data[i].label : i \in same}
    IN CASE ~is_plausible_scan(row.ports, row.pkts) -> {"Normal"}
         [] is_plausible_scan(row.ports, row.pkts) /\ Cardinality(exact) = 1 -> exact
         [] OTHER -> LabelsOf(training_data) \cup (IF training_data = <<>> THEN {"Normal"} ELSE {})
================================================================================
