-------------------------------- MODULE Datasets --------------------------------
(***************************************************************************)
(* From a labelled file to the rows an engine is trained on: the labels of *)
(* training/loader.py and the split of scripts/prepare_dataset_stages.py.  *)
(* A row is a record with a field `label`; the order that split_dataset    *)
(* takes from a digest of the row is a parameter.                          *)
(***************************************************************************)
EXTENDS Rows, SequencesExt, FiniteSets

CONSTANT Lower      (* a label in lower case                                *)

ASSUME DatasetsAssumption == {"Normal", "Scan", "Malicious", "Attack"} \subseteq DOMAIN Lower

NORMAL == {"normal", "benign", "0", "background", "safe"}
SCAN == {"scan", "portscan", "port_scan", "recon", "reconnaissance"}
MALICIOUS == {"malicious", "sqli", "xss", "lfi", "rce", "payload"}
ATTACK == {"ddos", "dos", "flood", "synflood", "udpflood", "attack", "1", "anomaly"}

normalise_label(raw) ==
    CASE Lower[raw] \in NORMAL    -> "Normal"
      [] Lower[raw] \in SCAN      -> "Scan"
      [] Lower[raw] \in MALICIOUS -> "Malicious"
      [] Lower[raw] \in ATTACK    -> "Attack"
      [] OTHER             -> raw

Splits == {"train", "validation", "test"}

AtLeastOne(n) == IF n < 1 THEN 1 ELSE n

(* Mutant: the test rows begin one too early.                               *)
allocate_group_Overlaps(rows) ==
    LET size == Len(rows)
        train == IF size <= 2 THEN 1 ELSE AtLeastOne((7 * size) \div 10)
    IN [train      |-> SubSeq(rows, 1, train),
        validation |-> IF size <= 2 THEN <<>> ELSE SubSeq(rows, train + 1, train + 1),
        test       |-> SubSeq(rows, train + 1, size)]

(* How many of `size` rows with one label go to each split.                 *)
Allocated(size) ==
    LET train == AtLeastOne((7 * size) \div 10)
        validation == AtLeastOne((size - train) \div 2)
        test == size - train - validation
    IN CASE size <= 1 -> [train |-> size, validation |-> 0, test |-> 0]
         [] size = 2  -> [train |-> 1, validation |-> 0, test |-> 1]
         [] size > 2 /\ test = 0 -> [train |-> train - 1, validation |-> validation, test |-> 1]
         [] size > 2 /\ test # 0 -> [train |-> train, validation |-> validation, test |-> test]

allocate_group(rows) ==
    LET n == Allocated(Len(rows))
    IN [train      |-> SubSeq(rows, 1, n.train),
        validation |-> SubSeq(rows, n.train + 1, n.train + n.validation),
        test       |-> SubSeq(rows, n.train + n.validation + 1, Len(rows))]

(* `ranked` holds every distinct row once; the labels are taken in turn.    *)
split_dataset(ranked) ==
    LET labels == SetToSeq({ranked[i].label : i \in 1..Len(ranked)})
        group(l) == Kept(ranked, LAMBDA row : row.label = l)
    IN [s \in Splits |-> FlattenSeq([l \in 1..Len(labels) |-> allocate_group(group(labels[l]))[s]])]

(* loader.load_*_csv: labels are brought to one spelling; load_cic_iot2023  *)
(* moreover keeps usable rows only and knows scans and everything else.     *)
Normalised(rows) == [i \in 1..Len(rows) |-> [rows[i] EXCEPT !.label = normalise_label(@)]]

load_cic_iot2023(rows) ==
    LET usable == Kept(rows, LAMBDA row : row.legible /\ row.pkts >= 0 /\ row.ports >= 0 /\ row.ports <= row.pkts)
    IN [i \in 1..Len(usable) |->
          [usable[i] EXCEPT !.label = IF normalise_label(@) = "Scan" THEN "Scan" ELSE "Normal"]]
================================================================================
