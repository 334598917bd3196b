--------------------------- MODULE MCAlertDispatcher ---------------------------
(* A small instance of AlertDispatcher: one hostile source that draws alerts *)
(* of two kinds, one more whose alerts also come unattributed, and loopback. *)
EXTENDS AlertDispatcher

MCSources == {"a", "lo"}
MCWhitelist == {"lo"}
MCFoundChain == <<"a">>
MCKinds == {"sqli", "payload", "blacklist", "anomaly"}
MCMessages == {"sqlmsg", "blackmsg", "driftmsg"}
MCclassify_kind == [m \in MCMessages |->
    CASE m = "sqlmsg" -> "sqli" [] m = "blackmsg" -> "blacklist" [] m = "driftmsg" -> "anomaly"]
MCparent_kind == [k \in MCKinds |-> IF k = "sqli" THEN "payload" ELSE k]
MCBlockOn == {"payload", "blacklist"}

MCCalls ==
    { [msg |-> "sqlmsg",   kind |-> NoKind,      src |-> "a",      status |-> FALSE],
      [msg |-> "blackmsg", kind |-> "blacklist", src |-> "a",      status |-> TRUE],
      [msg |-> "blackmsg", kind |-> "blacklist", src |-> "lo",     status |-> TRUE],
      [msg |-> "driftmsg", kind |-> "anomaly",   src |-> NoSource, status |-> FALSE],
      [msg |-> "driftmsg", kind |-> "anomaly",   src |-> "a",      status |-> FALSE] }

MCAttached == {"csv", "ui"}
================================================================================
