-------------------------------- MODULE Sessions --------------------------------
(***************************************************************************)
(* What outlives a process: the brain files.  A sensor loads one when it   *)
(* starts and saves one when it shuts down (sensor_node/sensor.py), the    *)
(* trainer writes others (training/train.py), and any of them can die in   *)
(* the middle of a file.  A file is named after the local time, which is   *)
(* moved back once a year and by whoever sets the clock.                   *)
(***************************************************************************)
EXTENDS Bloom, Config, SequencesExt

CONSTANTS
    ConfigSize,    (* bloom_size                                           *)
    TrainedSize,   (* the size train_bloom gives its filter                *)
    Seeds,         (* the two addresses of _seed_blacklist                 *)
    Feed,          (* path -> the indicators in it, {} for a missing file  *)
    TrainingSets,  (* what a training run is given: [keys, indicators]     *)
    Families,      (* 0: <brain_file>_<stamp>, 1: <brain_file>_stage_1_<stamp> *)
    Setups,        (* how a sensor is started: [file, environ, args]       *)
    NotRunning,
    MaxTime,       (* bound on the clock                                   *)
    MaxFiles,      (* bound on the brain files written                     *)
    MaxLessons     (* bound on what an engine learns from traffic          *)

Adaptive == {"kmeans", "z_score"}

Engines == {"knn", "kmeans", "payload", "z_score"}

Names == Families \X (0..MaxTime)

ASSUME SessionsAssumption ==
    /\ ConfigSize \in Nat \ {0} /\ TrainedSize \in Nat \ {0}
    /\ Seeds \subseteq Addresses /\ Seeds # {}
    /\ \A path \in DOMAIN Feed : Feed[path] \subseteq Addresses
    /\ TrainingSets \subseteq [keys : SUBSET (Engines \cup {"bloom"}), indicators : SUBSET Addresses]
    /\ Families \subseteq {0, 1} /\ 0 \in Families
    /\ MaxTime \in Nat /\ MaxFiles \in Nat /\ MaxLessons \in Nat

VARIABLES
    clock,      (* the local time a file is stamped with                   *)
    disk,       (* brain files: name -> [state, parts, members]            *)
    phase,      (* the sensor: "down", "up" or "saving"                    *)
    setup,      (* how it was started, which settles its configuration     *)
    memory,     (* its engines: the training they stem from, their lessons *)
    filter,     (* its Bloom filter                                        *)
    saving,     (* the file it has open, by its place in opened, or 0      *)
    training,   (* the file the trainer has open, likewise                 *)
    members,    (* history: the indicators the filter was given            *)
    opened,     (* history: the files begun, in order                      *)
    saved       (* history: the last completed save: [no, memory, filter]  *)

sensorVars == <<setup, memory, filter, members>>
vars == <<clock, disk, phase, saving, training, opened, saved, sensorVars>>

BuiltIn == [by |-> 0, lessons |-> 0]

Untaught == [e \in Engines |-> BuiltIn]

(* A file from which nothing can be loaded: just opened, or overwritten.    *)
Unreadable(state) == [state |-> state, parts |-> <<>>, members |-> {}]

TypeOK ==
    /\ clock \in 0..MaxTime
    /\ DOMAIN disk \subseteq Names /\ ToSet(opened) = DOMAIN disk
    /\ phase \in {"down", "up", "saving"}
    /\ setup \in Setups \cup {NotRunning}
    /\ memory \in [Engines -> [by : 0..MaxFiles, lessons : 0..MaxLessons]]
    /\ filter.size \in {ConfigSize, TrainedSize}
    /\ filter.ones \subseteq 0..(filter.size - 1)
    /\ {saving, training, saved.no} \subseteq 0..Len(opened)
    /\ phase = "saving" <=> saving # 0

Init ==
    /\ clock = 0
    /\ disk = <<>>
    /\ phase = "down"
    /\ setup = NotRunning
    /\ memory = Untaught
    /\ filter = Empty(ConfigSize)
    /\ saving = 0 /\ training = 0
    /\ members = {}
    /\ opened = <<>>
    /\ saved = [no |-> 0, memory |-> memory, filter |-> filter]

--------------------------------------------------------------------------------
(* Digits sort before letters, so every plain name precedes a staged one. *)
Precedes(n, m) == n[1] < m[1] \/ (n[1] = m[1] /\ n[2] < m[2])

(* Mutant: the first file in name order. *)
Latest_First == CHOOSE n \in DOMAIN disk : \A m \in DOMAIN disk \ {n} : Precedes(n, m)

(* sorted(files)[-1] *)
Latest == CHOOSE n \in DOMAIN disk : \A m \in DOMAIN disk \ {n} : Precedes(m, n)

(* import_brain_state: json.load raises on a torn file, and the engines     *)
(* keep what their constructors gave them; so do those a file leaves out.   *)
Imported == IF disk = <<>> THEN Unreadable("empty") ELSE disk[Latest]

ImportedFilter ==
    IF "bloom" \in DOMAIN Imported.parts
    THEN ImportBrain(Imported.parts["bloom"])
    ELSE Empty(ConfigSize)

(* Mutant: the seeds are for a sensor that found no brain. *)
Armed_FileTrusted(found, known, feed, indicators) ==
    IF feed THEN [filter |-> AddAll(Reset(found), indicators), members |-> indicators]
    ELSE IF disk = <<>> THEN [filter |-> AddAll(found, Seeds), members |-> Seeds]
    ELSE [filter |-> found, members |-> known]

(* A configured feed replaces what the brain held, and the two seeds stand  *)
(* in for a feed without indicators; with neither, an empty filter is seeded. *)
Armed(found, known, feed, indicators) ==
    IF feed
    THEN LET given == IF indicators # {} THEN indicators ELSE Seeds
         IN  [filter |-> AddAll(Reset(found), given), members |-> given]
    ELSE IF found.items <= 0
    THEN [filter |-> AddAll(found, Seeds), members |-> known \cup Seeds]
    ELSE [filter |-> found, members |-> known]

config(s) == Resolve(s.file, s.environ, s.args)

HasFeed(s) == Truth(config(s).blacklist_file)

FeedOf(s) ==
    LET path == config(s).blacklist_file[2]
    IN  IF path \in DOMAIN Feed THEN Feed[path] ELSE {}

Boot(s) ==
    /\ phase = "down"
    /\ phase' = "up"
    /\ setup' = s
    /\ memory' = [e \in Engines |->
          IF e \in DOMAIN Imported.parts THEN Imported.parts[e] ELSE BuiltIn]
    /\ LET armed == Armed(ImportedFilter, Imported.members, HasFeed(s), FeedOf(s))
       IN  filter' = armed.filter /\ members' = armed.members
    /\ UNCHANGED <<clock, disk, saving, training, opened, saved>>

(* One second of traffic taught an adaptive engine something, up to the     *)
(* moment its state is dumped.                                              *)
Learn(e) ==
    /\ phase # "down"
    /\ memory[e].lessons < MaxLessons
    /\ memory' = [memory EXCEPT ![e].lessons = @ + 1]
    /\ UNCHANGED <<clock, disk, phase, setup, filter, members, saving, training, opened, saved>>

(* open(name, "w") truncates a file of that name, should there be one. *)
Opened(name) ==
    /\ Len(opened) < MaxFiles
    /\ disk' = [n \in DOMAIN disk \cup {name} |-> IF n = name THEN Unreadable("empty") ELSE disk[n]]
    /\ opened' = Append(opened, name)

(* Whoever has the file open fills it; two processes that have one name     *)
(* open at once leave a mixture of both.                                    *)
Filled(no, parts, known) ==
    [disk EXCEPT ![opened[no]] =
        IF @.state = "empty" /\ \A later \in no + 1..Len(opened) : opened[later] # opened[no]
        THEN [state |-> "whole", parts |-> parts, members |-> known]
        ELSE Unreadable("mixed")]

(* What export_brain_state puts together. *)
Brain == [k \in Engines \cup {"bloom"} |-> IF k = "bloom" THEN ExportBrain(filter) ELSE memory[k]]

SaveBegin ==
    /\ phase = "up"
    /\ Opened(<<0, clock>>)
    /\ phase' = "saving"
    /\ saving' = Len(opened')
    /\ UNCHANGED <<clock, training, saved, sensorVars>>

ProcessEnds ==
    /\ setup' = NotRunning
    /\ memory' = Untaught
    /\ filter' = Empty(ConfigSize)
    /\ members' = {}

SaveEnd ==
    /\ phase = "saving"
    /\ disk' = Filled(saving, Brain, members)
    /\ phase' = "down"
    /\ saving' = 0
    /\ saved' = [no |-> saving, memory |-> memory, filter |-> filter]
    /\ ProcessEnds
    /\ UNCHANGED <<clock, training, opened>>

(* A full disk, or the end of the process at any moment. *)
Crash ==
    /\ phase # "down"
    /\ phase' = "down"
    /\ saving' = 0
    /\ ProcessEnds
    /\ UNCHANGED <<clock, disk, training, opened, saved>>

TrainBegin(family) ==
    /\ training = 0
    /\ Opened(<<family, clock>>)
    /\ training' = Len(opened')
    /\ UNCHANGED <<clock, phase, saving, saved, sensorVars>>

(* The trainer's brain holds the engines it was given data for, no others. *)
TrainEnd(t) ==
    /\ training # 0
    /\ disk' = Filled(training,
          [k \in t.keys |->
              IF k = "bloom" THEN ExportBrain(AddAll(Empty(TrainedSize), t.indicators))
              ELSE [by |-> training, lessons |-> 0]],
          IF "bloom" \in t.keys THEN t.indicators ELSE {})
    /\ training' = 0
    /\ UNCHANGED <<clock, phase, saving, opened, saved, sensorVars>>

TrainCrash ==
    /\ training # 0
    /\ training' = 0
    /\ UNCHANGED <<clock, disk, phase, saving, opened, saved, sensorVars>>

ClockMoves ==
    /\ clock' \in {clock - 1, clock + 1} \cap 0..MaxTime
    /\ UNCHANGED <<disk, phase, saving, training, opened, saved, sensorVars>>

Next ==
    \/ \E s \in Setups : Boot(s)
    \/ \E e \in Adaptive : Learn(e)
    \/ SaveBegin
    \/ SaveEnd
    \/ Crash
    \/ \E family \in Families : TrainBegin(family)
    \/ \E t \in TrainingSets : TrainEnd(t)
    \/ TrainCrash
    \/ ClockMoves

Spec == Init /\ [][Next]_vars

--------------------------------------------------------------------------------
(* The sensor's last save was the last brain begun, the clock was never     *)
(* behind an earlier stamp, and every brain has the sensor's own base name. *)
SavedLast ==
    /\ saved.no # 0
    /\ saved.no = Len(opened)
    /\ disk[opened[saved.no]].state = "whole"
    /\ \A i, j \in 1..Len(opened) :
          /\ opened[i][1] = 0
          /\ i < j => opened[i][2] <= opened[j][2]

(* A restarted sensor knows what it knew when it was shut down: each engine *)
(* its own lessons, the filter bit for bit (unless a feed replaces it),     *)
(* whatever was torn, killed or trained before that shutdown, if nothing    *)
(* wrote a brain since and the names sort as the files were written.        *)
RestoresLastShutdown ==
    [][phase = "down" /\ phase' = "up" /\ SavedLast =>
          /\ memory' = saved.memory
          /\ ~HasFeed(setup') => filter' = saved.filter]_vars

(* "auto-load the newest saved brain on boot".                              *)
NewestLoaded ==
    [][phase = "down" /\ phase' = "up" /\ opened # <<>> =>
          Imported = disk[opened[Len(opened)]]]_vars

(* "False positives are possible, false negatives never", for every address *)
(* a feed, the seeds, a training set or an earlier session put in, across   *)
(* packing, sizes and restarts.                                             *)
NoFalseNegative == phase # "down" => \A a \in members : Check(filter, a)

(* "An explicitly configured feed is authoritative for this run": no bit of *)
(* an older brain is left beside it.                                        *)
FeedAuthoritative ==
    phase # "down" /\ HasFeed(setup) /\ FeedOf(setup) # {} =>
        filter.ones = UNION {Hashes(filter, a) : a \in FeedOf(setup)}

(* A sensor never runs with a reputation filter that knows nobody, however  *)
(* empty the brain or the feed it was given.                                *)
NeverUnarmed == phase # "down" => members # {} /\ filter.ones # {}

(* "Settings resolve in this order, later wins", and with it NFR-3: each    *)
(* setting is the one of the last source that gives it a value of its       *)
(* default's type, so nothing is blocked unless that source asks for it.    *)
Preferred(s, k) ==
    IF k \in Given(s.args) THEN s.args[k]
    ELSE LET base == IF k \in Given(s.file) THEN s.file[k] ELSE Default[k]
         IN  IF k \notin Given(s.environ) THEN base
             ELSE IF Type(Default[k]) = "number" /\ s.environ[k] \notin Numerals THEN base
             ELSE Coerced(Default[k], s.environ[k])

LaterWins == phase # "down" => \A k \in Settings : config(setup)[k] = Preferred(setup, k)

(* The filter in force has every indicator it should and, under a feed, no  *)
(* bit it should not (bloom.py:33-175, sensor.py:394-413).                  *)
FilterExact == TypeOK /\ NoFalseNegative /\ FeedAuthoritative
================================================================================
