--------------------------------- MODULE Offline ---------------------------------
(***************************************************************************)
(* From a labelled dataset to the figures of an engine: the split of        *)
(* scripts/prepare_dataset_stages.py, training/train.py, the brain file,    *)
(* and evaluation/evaluate.py, which classifies row after row.  One         *)
(* behaviour follows one dataset through the programs; any of them may be   *)
(* skipped, and an engine may be evaluated with its seeds only.             *)
(***************************************************************************)
EXTENDS Datasets, Scores, Knn, NaiveBayes, KMeans, Bloom

CONSTANTS
    Sources,        (* datasets: [engine, via, rows]; via is "csv", "json"  *)
                    (* or "cic"                                             *)
    SeedRows,       (* KNNMonitor's seeds                                   *)
    SeedPayload,    (* PayloadMonitor's seeds                               *)
    SeedCentroids,  (* KMeansMonitor's seeds                                *)
    FilterSize,     (* size of the Bloom filter                             *)
    MaxKnnSamples   (* --max-knn-samples                                    *)

(* What a row of a dataset for the engine looks like                        *)
RowsFor(engine) ==
    CASE engine = "knn" -> [ports : Int, pkts : Int, label : DOMAIN Lower, legible : BOOLEAN]
      [] engine = "payload" -> [words : SUBSET {Words[i] : i \in 1..Len(Words)}, label : DOMAIN Lower]
      [] engine = "kmeans" -> [pps : Int, label : DOMAIN Lower, legible : BOOLEAN]
      [] engine = "bloom" -> [ip : Addresses, label : DOMAIN Lower]

ASSUME OfflineAssumption ==
    /\ \A s \in Sources :
          /\ s.engine \in {"knn", "payload", "kmeans", "bloom"}
          /\ s.via \in {"csv", "json"} \/ (s.via = "cic" /\ s.engine = "knn")
          /\ s.rows \in Seq(RowsFor(s.engine))
    /\ FilterSize \in Nat \ {0} /\ MaxKnnSamples \in Nat

VARIABLES
    source,         (* the dataset                                          *)
    splits,         (* split -> its rows, once there are splits             *)
    stage,          (* how far the dataset has come                         *)
    trained,        (* the engine that was trained                          *)
    lesson,         (* history: the rows it was trained on                  *)
    deployed,       (* the engine that is evaluated                         *)
    examined,       (* the rows it is evaluated on                          *)
    y_true,         (* their truths so far                                  *)
    y_pred          (* and the verdicts                                     *)

evaluationVars == <<deployed, examined, y_true, y_pred>>
offlineVars == <<source, splits, stage, trained, lesson, evaluationVars>>

OfflineInit ==
    /\ source \in Sources
    /\ splits = <<>>
    /\ stage = "source"
    /\ trained = <<>> /\ lesson = <<>> /\ deployed = <<>> /\ examined = <<>>
    /\ y_true = <<>> /\ y_pred = <<>>

--------------------------------------------------------------------------------
(* Duplicates go first; the digests give the rest some order.               *)
SplitDataset ==
    /\ stage = "source" /\ source.via # "json"
    /\ \E ranked \in SetToSeqs(ToSet(source.rows)) : splits' = split_dataset(ranked)
    /\ stage' = "split"
    /\ UNCHANGED <<source, trained, lesson, evaluationVars>>

(* The file a program is given: the whole dataset or one of its splits      *)
Files ==
    {source.rows} \cup (IF splits = <<>> THEN {} ELSE {splits[s] : s \in Splits})

Points(rows) == [i \in 1..Len(rows) |-> rows[i].pps]

IsNormal(row) == row.label = "Normal"

(* What the loader makes of a file, or that it raises DatasetError          *)
Loadable(file) ==
    /\ file # <<>>
    /\ source.engine \in {"knn", "kmeans"} /\ source.via = "csv" => \A i \in 1..Len(file) : file[i].legible
    /\ source.via = "cic" => load_cic_iot2023(file) # <<>>

Loaded(file) ==
    CASE source.via = "json" -> file
      [] source.via = "csv" -> Normalised(file)
      [] source.via = "cic" -> load_cic_iot2023(file)

NormalPoints(rows) == Points(IF source.via = "json" THEN rows ELSE Kept(rows, IsNormal))

Benign == {"normal", "safe", "benign", "0"}

Indicators(rows) == Kept(rows, LAMBDA row : Lower[row.label] \notin Benign)

(* A repeated address counts again.                                         *)
FilterOf(rows) ==
    [AddAll(Empty(FilterSize), {rows[i].ip : i \in 1..Len(rows)}) EXCEPT !.items = Len(rows)]

Learnable(rows) ==
    CASE source.engine = "payload" -> Trainable(rows)
      [] source.engine = "kmeans" -> Len(NormalPoints(rows)) >= Clusters
      [] OTHER -> TRUE

Trained(rows) ==
    CASE source.engine = "knn" -> train_knn(rows, MaxKnnSamples)
      [] source.engine = "payload" -> train_payload(rows)
      [] source.engine = "kmeans" -> train_kmeans(NormalPoints(rows))
      [] source.engine = "bloom" -> FilterOf(Indicators(rows))

(* main of train.py; an error ends it before a brain is written.            *)
Train(file) ==
    /\ stage \in {"source", "split"}
    /\ IF Loadable(file) /\ Learnable(Loaded(file))
       THEN trained' = Trained(Loaded(file)) /\ lesson' = Loaded(file) /\ stage' = "trained"
       ELSE UNCHANGED <<trained, lesson>> /\ stage' = "refused"
    /\ UNCHANGED <<source, splits, evaluationVars>>

Seeded ==
    CASE source.engine = "knn" -> SeedRows
      [] source.engine = "payload" -> SeedPayload
      [] source.engine = "kmeans" -> import_kmeans([centroids |-> SeedCentroids])
      [] source.engine = "bloom" -> Empty(FilterSize)

(* export_brain, the file, import_brain                                     *)
ThroughBrain(engine) ==
    CASE source.engine = "knn" -> import_knn(engine, SeedRows)
      [] source.engine = "payload" -> engine
      [] source.engine = "kmeans" -> import_kmeans(export_kmeans(engine))
      [] source.engine = "bloom" -> ImportBrain(ExportBrain(engine))

Deploy ==
    /\ stage = "trained"
    /\ deployed' = ThroughBrain(trained)
    /\ stage' = "deployed"
    /\ UNCHANGED <<source, splits, trained, lesson, examined, y_true, y_pred>>

DeploySeeds ==
    /\ stage \in {"source", "split"}
    /\ deployed' = Seeded
    /\ stage' = "seeded"
    /\ UNCHANGED <<source, splits, trained, lesson, examined, y_true, y_pred>>

--------------------------------------------------------------------------------
Positive ==
    CASE source.engine = "knn" -> "Scan"
      [] source.engine = "payload" -> "Malicious"
      [] source.engine = "kmeans" -> "Anomaly"
      [] source.engine = "bloom" -> "Blacklisted"

(* load_kmeans_csv and load_bloom_csv of evaluate.py leave labels as spelt. *)
TruthOf(row) ==
    CASE source.engine = "knn" -> normalise_label(row.label)
      [] source.engine = "payload" -> IF normalise_label(row.label) \in {"Malicious", "Attack"} THEN "Malicious" ELSE "Safe"
      [] source.engine = "kmeans" ->
            IF row.label \in {"Anomaly", "Attack", "Malicious", "DDoS", "Scan"} THEN "Anomaly" ELSE "Normal"

Verdicts(engine, row) ==
    CASE source.engine = "knn" -> classify_knn(engine, row)
      [] source.engine = "payload" -> {classify_payload(engine, row.words)}
      [] source.engine = "kmeans" -> {IF Novel(engine, row.pps) THEN "Anomaly" ELSE "Normal"}

OpenDataset(file) ==
    /\ stage \in {"deployed", "seeded"}
    /\ source.engine # "bloom"
    /\ file # <<>> /\ \A i \in 1..Len(file) : source.engine \in {"knn", "kmeans"} => file[i].legible
    /\ examined' = file
    /\ stage' = "evaluating"
    /\ UNCHANGED <<source, splits, trained, lesson, deployed, y_true, y_pred>>

(* One turn of the loop of evaluate_knn, _payload or _kmeans; only K-Means  *)
(* goes on learning.                                                        *)
EvaluateRow ==
    /\ stage = "evaluating"
    /\ Len(y_pred) < Len(examined)
    /\ LET row == examined[Len(y_pred) + 1] IN
          /\ y_true' = Append(y_true, TruthOf(row))
          /\ \E verdict \in Verdicts(deployed, row) : y_pred' = Append(y_pred, verdict)
          /\ deployed' = IF source.engine = "kmeans" THEN analyse_kmeans(deployed, row.pps) ELSE deployed
    /\ UNCHANGED <<source, splits, stage, trained, lesson, examined>>

Report ==
    /\ stage = "evaluating"
    /\ Len(y_pred) = Len(examined)
    /\ stage' = "reported"
    /\ UNCHANGED <<source, splits, trained, lesson, evaluationVars>>

(* evaluate_bloom fills a filter of its own with the first half of the      *)
(* indicators and looks these and the other addresses up.                   *)
EvaluateBloom(file) ==
    /\ stage = "seeded"
    /\ source.engine = "bloom" /\ file # <<>>
    /\ LET listed == Kept(file, LAMBDA row : row.label \in {"Malicious", "Attack", "Blacklisted"})
           others == Kept(file, LAMBDA row : \A i \in 1..Len(listed) : listed[i].ip # row.ip)
           loaded == SubSeq(listed, 1, IF Len(listed) <= 1 THEN Len(listed) ELSE Len(listed) \div 2)
           filter == FilterOf(loaded)
           asked == loaded \o others
       IN /\ deployed' = filter
          /\ examined' = asked
          /\ y_true' = [i \in 1..Len(asked) |-> IF i <= Len(loaded) THEN "Blacklisted" ELSE "Unknown"]
          /\ y_pred' = [i \in 1..Len(asked) |-> IF Check(filter, asked[i].ip) THEN "Blacklisted" ELSE "Unknown"]
    /\ stage' = "reported"
    /\ UNCHANGED <<source, splits, trained, lesson>>

OfflineNext ==
    \/ SplitDataset
    \/ \E file \in Files : Train(file) \/ OpenDataset(file) \/ EvaluateBloom(file)
    \/ Deploy \/ DeploySeeds
    \/ EvaluateRow
    \/ Report

OfflineSpec == OfflineInit /\ [][OfflineNext]_offlineVars

--------------------------------------------------------------------------------
(* "leakage-resistant": every distinct row goes to exactly one split, and   *)
(* to one place in it, a label with two rows is tested, and one with three  *)
(* is in every split.                                                       *)
SplitSound ==
    splits # <<>> =>
        LET Rows(s) == ToSet(splits[s])
            Labelled(rows, l) == {row \in rows : row.label = l}
        IN /\ UNION {Rows(s) : s \in Splits} = ToSet(source.rows)
           /\ \A s \in Splits : Len(splits[s]) = Cardinality(Rows(s))
           /\ \A s, t \in Splits : s # t => Rows(s) \cap Rows(t) = {}
           /\ \A l \in LabelsOf(source.rows) :
                 LET size == Cardinality(Labelled(ToSet(source.rows), l)) IN
                    /\ Labelled(Rows("train"), l) # {}
                    /\ size >= 2 => Labelled(Rows("test"), l) # {}
                    /\ size >= 3 => Labelled(Rows("validation"), l) # {}

(* Thinning a training set never loses a class ("so one dominant label      *)
(* cannot crowd out the minority class") nor exceeds the limit, and no row  *)
(* the engine holds says "Scan" of traffic that cannot be one.              *)
KnnRowsSound ==
    source.engine = "knn" =>
        /\ Len(trained) <= MaxKnnSamples
        /\ LabelsOf(trained) = LabelsOf(sanitise_training_data(lesson))
        /\ \A i \in 1..Len(trained) :
              trained[i].label = "Scan" => is_plausible_scan(trained[i].ports, trained[i].pkts)

(* The engine that goes live or is evaluated is the one that was trained:   *)
(* nothing it decides by is lost on the way through the brain, a repaired   *)
(* training set needs no second repair, and a payload engine can take the   *)
(* logarithm of everything it was given.                                    *)
EngineSurvivesBrain ==
    stage = "deployed" =>
        /\ source.engine = "knn" => deployed = IF trained = <<>> THEN SeedRows ELSE trained
        /\ source.engine # "knn" => deployed = trained
        /\ source.engine = "payload" => Scorable(deployed)

(* A second of traffic the clustering engine has called novel stays novel   *)
(* however often it is repeated: "a sustained attack cannot drag a centroid *)
(* onto itself and then declare the traffic normal".                        *)
FloodStaysNovel ==
    source.engine = "kmeans" =>
        \A i, j \in 1..Len(y_pred) :
            /\ i < j /\ y_pred[i] = "Anomaly"
            /\ \A n \in i..j : examined[n].pps = examined[i].pps
            => y_pred[j] = "Anomaly"

(* The figures tell skill from its absence: a detector that always answers  *)
(* the same has an MCC of zero and at most the no-skill F1, which is what   *)
(* always answering "positive" scores; one whose F1 beats that line has a   *)
(* positive MCC; MCC stays within -1 and 1; and a reputation filter never   *)
(* misses an indicator it was loaded with.                                  *)
ScoresHonest ==
    stage = "reported" =>
        LET cm == confusion(y_true, y_pred, Positive)
            figures == scores(cm)
            alarms == {i \in 1..Len(y_pred) : y_pred[i] = Positive}
            line == figures.no_skill_f1
        IN /\ alarms \in {{}, 1..Len(y_pred)} => figures.mcc.num = 0 /\ ~Exceeds(figures.f1, line)
           /\ alarms = 1..Len(y_pred) => Equals(figures.f1, line)
           /\ Exceeds(figures.f1, line) => figures.mcc.num > 0
           /\ figures.mcc.num * figures.mcc.num <= figures.mcc.square
           /\ source.engine = "bloom" => cm.fn = 0
================================================================================
