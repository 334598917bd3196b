------------------------------- MODULE MCSessions -------------------------------
(* Four addresses that share positions of small filters; the sensor's filter *)
(* needs two bytes, the trainer's fits one.  Three ways to start a sensor,   *)
(* with and without a feed, one of which sets every layer of the settings.   *)
EXTENDS Sessions

MCAddresses == {"seed", "old", "listed", "clean"}
MCDigest == [a \in MCAddresses |->
    CASE a = "seed" -> <<3, 8>> [] a = "old" -> <<9, 14>>
      [] a = "listed" -> <<1, 11>> [] a = "clean" -> <<4, 6>>]
MCSeeds == {"seed"}
MCFeed == [p \in {"feed.txt", "empty.txt"} |-> IF p = "feed.txt" THEN {"listed"} ELSE {}]
MCTrainingSets ==
    { [keys |-> {"knn", "bloom"}, indicators |-> {"old"}],
      [keys |-> {"bloom"}, indicators |-> {}],
      [keys |-> {"kmeans"}, indicators |-> {}] }

MCSettings == {"block_enabled", "zscore_threshold", "blacklist_file"}
MCDefault == [k \in MCSettings |->
    CASE k = "block_enabled" -> <<"bool", "False">> [] k = "zscore_threshold" -> <<"number", "3.0">>
      [] k = "blacklist_file" -> <<"none", "None">>]
MCNumerals == {"3.0", "4", "5"}
MCTrueWords == {"1", "true", "yes", "on"}
MCFalseTexts == {"False", "None", "0", "0.0"}

MCSetups ==
    { [file |-> <<>>, environ |-> <<>>, args |-> <<>>],
      [file |-> [k \in {"block_enabled", "zscore_threshold"} |->
                    IF k = "block_enabled" THEN <<"bool", "True">> ELSE <<"number", "4">>],
       environ |-> [k \in MCSettings |->
                    CASE k = "block_enabled" -> "off" [] k = "zscore_threshold" -> "high"
                      [] k = "blacklist_file" -> "feed.txt"],
       args |-> <<>>],
      [file |-> <<>>,
       environ |-> [k \in {"block_enabled", "zscore_threshold"} |->
                    IF k = "block_enabled" THEN "1" ELSE "4"],
       args |-> [k \in {"blacklist_file", "zscore_threshold"} |->
                    IF k = "zscore_threshold" THEN <<"number", "5">> ELSE <<"str", "empty.txt">>]] }
================================================================================
