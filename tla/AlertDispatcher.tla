---------------------------- MODULE AlertDispatcher ----------------------------
(***************************************************************************)
(* sensor_node/dispatcher.py: the single exit point of every alert.        *)
(*                                                                         *)
(* One call of dispatch is several steps, because it calls out to iptables *)
(* (a child process), a file, a socket and a queue, and the clock and the  *)
(* other threads move on meanwhile:                                        *)
(*                                                                         *)
(*   idle -> respond -> report -> csv -> siem -> ui -> idle                *)
(*                                                                         *)
(* or idle -> idle when the alert repeats one published a moment ago.  The *)
(* firewall side is ActiveDefense; mitre.py's classification is a constant.*)
(***************************************************************************)
EXTENDS ActiveDefense

CONSTANTS
    Kinds,          (* detection kinds                                     *)
    Messages,       (* alert texts                                         *)
    NoSource,       (* src_ip = None                                       *)
    NoKind,         (* the caller leaves the kind to be inferred           *)
    NoAnswer,       (* nothing dispatched yet                              *)
    classify_kind,  (* [Messages -> Kinds], mitre.classify_kind            *)
    parent_kind,    (* [Kinds -> Kinds], mitre.parent_kind                 *)
    Calls,          (* the dispatch calls the engines make                 *)
    Attached,       (* the sinks the dispatcher was constructed with       *)
    BlockEnabled,   (* config.block_enabled                                *)
    BlockOn,        (* config.block_on                                     *)
    DedupSeconds,   (* config.alert_dedup_seconds, in clock ticks          *)
    Second,         (* clock ticks in one second                           *)
    PruneLimit,     (* table size above which old entries go: 2048         *)
    MaxTime,        (* bound on the clock                                  *)
    MaxAlerts       (* bound on the alerts published                       *)

SinkNames == {"report", "csv", "siem", "ui"}

Keys == Kinds \X (Sources \cup {NoSource}) \X Messages

ASSUME DispatcherAssumption ==
    /\ NoSource \notin Sources
    /\ NoKind \notin Kinds
    /\ classify_kind \in [Messages -> Kinds]
    /\ parent_kind \in [Kinds -> Kinds]
    /\ Calls \subseteq [msg : Messages, kind : Kinds \cup {NoKind},
                        src : Sources \cup {NoSource}, status : BOOLEAN]
    /\ Attached \subseteq SinkNames
    /\ BlockEnabled \in BOOLEAN
    /\ BlockOn \subseteq Kinds
    /\ DedupSeconds \in Nat
    /\ Second \in Nat \ {0}
    /\ PruneLimit \in Nat
    /\ MaxTime \in Nat
    /\ MaxAlerts \in Nat

VARIABLES
    now,            (* time.monotonic()                                    *)
    recent_alerts, (* dict: key -> when it was last published             *)
    total,          (* alerts published                                    *)
    by_kind,        (* ... of each kind                                    *)
    blocked,        (* the sources this dispatcher had dropped             *)
    meta,           (* answer to the latest call: its key, suppressed?     *)
    phase,          (* where the call in progress is                       *)
    current,        (* its arguments                                       *)
    label,          (* the status label appended to its message            *)
    sinks,          (* what each sink received: publication number, label  *)
    log             (* history: every publication, its key and its time    *)

tableVars == <<recent_alerts, total, by_kind, log>>
vars == <<now, tableVars, blocked, meta, phase, current, label, sinks, defenseVars>>

--------------------------------------------------------------------------------
(* Mutant: the kind is never inferred from the text. *)
KindOf_NotInferred(call) == call.kind

KindOf(call) == IF call.kind # NoKind THEN call.kind ELSE classify_kind[call.msg]

DedupKey(call) == <<KindOf(call), call.src, call.msg>>

Labels == {"none", "Blocked", "Flagged"}

Entries == [no : 1..MaxAlerts, label : Labels]

EmptyDict == [k \in {} |-> 0]

(* A Python dict with keys in K and values in V. *)
IsDict(d, K, V) ==
    /\ d = [k \in DOMAIN d |-> d[k]]
    /\ DOMAIN d \subseteq K
    /\ \A k \in DOMAIN d : d[k] \in V

TypeOK ==
    /\ DefenseTypeOK
    /\ now \in 0..MaxTime
    /\ IsDict(recent_alerts, Keys, Nat)
    /\ total \in 0..MaxAlerts
    /\ by_kind \in [Kinds -> Nat]
    /\ blocked \subseteq Sources
    /\ meta \in [key : Keys, suppressed : BOOLEAN] \cup {NoAnswer}
    /\ phase \in {"idle", "respond"} \cup SinkNames
    /\ phase # "idle" => current \in Calls
    /\ label \in Labels
    /\ sinks \in [SinkNames -> Seq(Entries)]
    /\ log \in Seq([key : Keys, at : Nat])

Init ==
    /\ DefenseInit
    /\ now = 0
    /\ recent_alerts = EmptyDict
    /\ total = 0
    /\ by_kind = [k \in Kinds |-> 0]
    /\ blocked = {}
    /\ meta = NoAnswer
    /\ phase = "idle"
    /\ current = NoAnswer
    /\ label = "none"
    /\ sinks = [s \in SinkNames |-> <<>>]
    /\ log = <<>>

--------------------------------------------------------------------------------
(* The clock runs while a call is in progress as well. *)
Tick ==
    /\ now < MaxTime
    /\ now' = now + 1
    /\ UNCHANGED <<tableVars, blocked, meta, phase, current, label, sinks, defenseVars>>

IsDuplicate(key) ==
    /\ DedupSeconds > 0
    /\ key \in DOMAIN recent_alerts
    /\ now - recent_alerts[key] < DedupSeconds

(* Mutant: every repeat renews the window. *)
DispatchDuplicate_Renews(call) ==
    /\ phase = "idle"
    /\ IsDuplicate(DedupKey(call))
    /\ recent_alerts' = [recent_alerts EXCEPT ![DedupKey(call)] = now]
    /\ meta' = [key |-> DedupKey(call), suppressed |-> TRUE]
    /\ UNCHANGED <<now, total, by_kind, log, blocked, phase, current, label, sinks, defenseVars>>

(* A repeat is answered at once; the remembered time is not refreshed. *)
DispatchDuplicate(call) ==
    /\ phase = "idle"
    /\ IsDuplicate(DedupKey(call))
    /\ meta' = [key |-> DedupKey(call), suppressed |-> TRUE]
    /\ UNCHANGED <<now, tableVars, blocked, phase, current, label, sinks, defenseVars>>

Cutoff == now - (IF DedupSeconds > Second THEN DedupSeconds ELSE Second)

Updated(key) ==
    [k \in DOMAIN recent_alerts \cup {key} |->
        IF k = key THEN now ELSE recent_alerts[k]]

Pruned(table) ==
    [k \in {k \in DOMAIN table : table[k] >= Cutoff} |-> table[k]]

(* Mutants: a full table is started afresh; the table is never pruned. *)
Remember_Fresh(key) ==
    IF Cardinality(DOMAIN Updated(key)) > PruneLimit
    THEN [k \in {key} |-> now]
    ELSE Updated(key)

Remember_Everything(key) == Updated(key)

Remember(key) ==
    IF Cardinality(DOMAIN Updated(key)) > PruneLimit
    THEN Pruned(Updated(key))
    ELSE Updated(key)

(* Any other alert is remembered and counted before anything is published. *)
DispatchNew(call) ==
    /\ phase = "idle"
    /\ ~IsDuplicate(DedupKey(call))
    /\ total < MaxAlerts
    /\ recent_alerts' = Remember(DedupKey(call))
    /\ total' = total + 1
    /\ by_kind' = [by_kind EXCEPT ![KindOf(call)] = @ + 1]
    /\ log' = Append(log, [key |-> DedupKey(call), at |-> now])
    /\ meta' = [key |-> DedupKey(call), suppressed |-> FALSE]
    /\ current' = call
    /\ phase' = "respond"
    /\ UNCHANGED <<now, blocked, label, sinks, defenseVars>>

(* Mutant: the block_on policy is not consulted. *)
BlockWanted_AnyKind(src, kind) ==
    /\ src # NoSource
    /\ BlockEnabled
    /\ src \notin ConfigWhitelist
    /\ src \notin blocked

KindAllowed(kind) == kind \in BlockOn \/ parent_kind[kind] \in BlockOn

BlockWanted(src, kind) ==
    /\ src # NoSource
    /\ BlockEnabled
    /\ KindAllowed(kind)
    /\ src \notin ConfigWhitelist
    /\ src \notin blocked

(* Mutant: the label says what was wanted, not what the firewall did. *)
StatusLabel_Wanted(isBlocked) == IF current.status THEN "Blocked" ELSE "none"

StatusLabel(isBlocked) ==
    IF ~current.status THEN "none" ELSE IF isBlocked THEN "Blocked" ELSE "Flagged"

(* Mutant: the source is remembered as blocked whatever block_ip answers. *)
maybe_blockRefuses_Remembers ==
    /\ phase = "respond"
    /\ \/ /\ ~BlockWanted(current.src, KindOf(current))
          /\ UNCHANGED <<blocked, defenseVars>>
       \/ /\ BlockWanted(current.src, KindOf(current))
          /\ BlockDeclined(current.src) \/ BlockFailed(current.src)
          /\ blocked' = blocked \cup {current.src}
    /\ label' = StatusLabel(FALSE)
    /\ phase' = "report"
    /\ UNCHANGED <<now, tableVars, meta, current, sinks>>

(* maybe_block finds no reason to act, or block_ip does not insert a rule. *)
maybe_blockRefuses ==
    /\ phase = "respond"
    /\ \/ ~BlockWanted(current.src, KindOf(current)) /\ UNCHANGED defenseVars
       \/ /\ BlockWanted(current.src, KindOf(current))
          /\ BlockDeclined(current.src) \/ BlockFailed(current.src)
    /\ label' = StatusLabel(FALSE)
    /\ phase' = "report"
    /\ UNCHANGED <<now, tableVars, blocked, meta, current, sinks>>

maybe_blockBlocks ==
    /\ phase = "respond"
    /\ BlockWanted(current.src, KindOf(current))
    /\ BlockInserted(current.src)
    /\ blocked' = blocked \cup {current.src}
    /\ label' = StatusLabel(TRUE)
    /\ phase' = "report"
    /\ UNCHANGED <<now, tableVars, meta, current, sinks>>

After(s) ==
    CASE s = "report" -> "csv" [] s = "csv" -> "siem" [] s = "siem" -> "ui" [] s = "ui" -> "idle"

(* Mutant: an error of one sink keeps the alert from the sinks after it. *)
SinkSkipped_Aborts(s) ==
    /\ phase = s
    /\ s \notin Attached \/ s # "ui"
    /\ phase' = IF s \in Attached THEN "idle" ELSE After(s)
    /\ UNCHANGED <<now, tableVars, blocked, meta, current, label, sinks, defenseVars>>

(* A sink that is not attached is passed over, and so is one that raises:   *)
(* add_alert, log_alert and send_log are guarded, put on the UI queue       *)
(* cannot fail.                                                             *)
SinkSkipped(s) ==
    /\ phase = s
    /\ s \notin Attached \/ s # "ui"
    /\ phase' = After(s)
    /\ UNCHANGED <<now, tableVars, blocked, meta, current, label, sinks, defenseVars>>

SinkWritten(s) ==
    /\ phase = s
    /\ s \in Attached
    /\ sinks' = [sinks EXCEPT ![s] = Append(@, [no |-> total, label |-> label])]
    /\ phase' = After(s)
    /\ UNCHANGED <<now, tableVars, blocked, meta, current, label, defenseVars>>

Next ==
    \/ Tick
    \/ \E call \in Calls : DispatchDuplicate(call) \/ DispatchNew(call)
    \/ maybe_blockRefuses
    \/ maybe_blockBlocks
    \/ \E s \in SinkNames : SinkSkipped(s) \/ SinkWritten(s)

Spec == Init /\ [][Next]_vars

--------------------------------------------------------------------------------
(* No two publications of one kind, source and message fall within          *)
(* DedupSeconds of each other, however often the table was pruned between   *)
(* them ("No repeated identical payload alert inside five seconds").        *)
NoRepeatInWindow ==
    \A i, j \in 1..Len(log) :
        i < j /\ log[i].key = log[j].key => log[j].at - log[i].at >= DedupSeconds

(* The bounded, pruned table decides every call as the full log would: an   *)
(* alert is never suppressed without a recent publication that stands for   *)
(* it, and never published while there is one.                              *)
AbstractLog == INSTANCE AlertLog WITH answer <- meta
ImplementsAlertLog == AbstractLog!Spec

(* Every rule inserted by this process is owed to a published alert that    *)
(* names that source and is of a kind the policy allows; blocking is        *)
(* enabled, and the source is on neither whitelist (NFR-3).                 *)
Justified(ip) ==
    /\ BlockEnabled
    /\ ip \notin Whitelist \cup ConfigWhitelist
    /\ \E i \in 1..Len(log) : log[i].key[2] = ip /\ KindAllowed(log[i].key[1])

DropJustified == \A ip \in ToSet(OwnRules) : Justified(ip)

(* "Blocked" is shown only after the firewall confirms that a rule was      *)
(* inserted, and for one publication per rule: the source has a rule, and   *)
(* no other publication about that source claims the same insertion.        *)
BlockedLabelTruthful ==
    \A s, t \in SinkNames :
        \A i \in 1..Len(sinks[s]), j \in 1..Len(sinks[t]) :
            sinks[s][i].label = "Blocked" =>
                /\ log[sinks[s][i].no].key[2] \in ToSet(OwnRules)
                /\ sinks[t][j].label = "Blocked"
                     /\ log[sinks[t][j].no].key[2] = log[sinks[s][i].no].key[2]
                   => sinks[t][j].no = sinks[s][i].no

(* The session summary never lists a source as blocked that has no rule, so *)
(* an insertion that failed is tried again at the source's next alert.      *)
SummaryTruthful == blocked = ToSet(OwnRules)

(* Every alert reaches every sink in publication order and with one label,  *)
(* a sink that raised loses only its own copy, and the UI queue, which      *)
(* cannot raise, has them all once the call has returned.                   *)
SinksAgree ==
    /\ \A s, t \in SinkNames :
          \A i \in 1..Len(sinks[s]), j \in 1..Len(sinks[t]) :
             /\ s = t /\ i < j => sinks[s][i].no < sinks[s][j].no
             /\ sinks[s][i].no = sinks[t][j].no => sinks[s][i].label = sinks[t][j].label
    /\ phase = "idle" /\ "ui" \in Attached => Len(sinks["ui"]) = total

(* The table exceeds PruneLimit only by entries that can still suppress:    *)
(* at the latest publication each was younger than the window (one second   *)
(* at least).                                                               *)
TableBounded ==
    Cardinality(DOMAIN recent_alerts) > PruneLimit =>
        \A k \in DOMAIN recent_alerts :
            log[Len(log)].at - recent_alerts[k]
                <= IF DedupSeconds > Second THEN DedupSeconds ELSE Second

(* What a block leaves behind agrees wherever it is told: in the chain, in  *)
(* the set of blocked sources and in the labels the sinks were given.       *)
BlocksConsistent == TypeOK /\ BlockedLabelTruthful /\ SummaryTruthful
================================================================================
