------------------------------ MODULE Brains_proofs ------------------------------
(***************************************************************************)
(* What a sensor starts with, for every set of settings, addresses, feeds, *)
(* training sets and ways to start it: the filter it is armed with and     *)
(* what it takes over from its predecessor, whoever else wrote brain files *)
(* and died over them, and which source each setting comes from.  Then     *)
(* what becomes of a labelled dataset, for every dataset and every         *)
(* parameter of the engines: its split, the engine trained on it, that     *)
(* engine's brain, and the figures it is given.                            *)
(***************************************************************************)
EXTENDS Sessions, Offline, SequenceTheorems, FiniteSetTheorems, WellFoundedInduction, TLAPS

(* The JSON file gives a setting a value of its default's type.  The file   *)
(* is not coerced: were a flag a string in it, the environment would be     *)
(* coerced to a string too.                                                 *)
TypedFiles ==
    \A s \in Setups : \A k \in Settings \cap Given(s.file) : Type(s.file[k]) = Type(Default[k])

(* One setting, seen through the three layers above the defaults.           *)
LEMMA Layers ==
    ASSUME TypedFiles, NEW s \in Setups, NEW k \in Settings
    PROVE  config(s)[k] = Preferred(s, k)
<1> DEFINE below == Updated(Default, s.file)
           middle == LoadEnv(below, s.environ)
<1>1. below[k] = IF k \in Given(s.file) THEN s.file[k] ELSE Default[k]
  BY DEF Updated
<1>2. Type(below[k]) = Type(Default[k])
  BY <1>1 DEF TypedFiles
<1>3. middle[k] = IF k \in Given(s.environ) THEN Coerced(below[k], s.environ[k]) ELSE below[k]
  BY DEF LoadEnv
<1>4. config(s)[k] = IF k \in Given(s.args) THEN s.args[k] ELSE middle[k]
  BY DEF config, Resolve, Updated
<1> HIDE DEF below, middle
<1>5. Coerced(below[k], s.environ[k]) =
          IF Type(Default[k]) = "number" /\ s.environ[k] \notin Numerals THEN below[k]
          ELSE Coerced(Default[k], s.environ[k])
  BY <1>2 DEF Coerced
<1> QED
  BY <1>1, <1>3, <1>4, <1>5 DEF Preferred

StartedAs == phase # "down" => setup \in Setups

LEMMA StartedStep == StartedAs /\ [Next]_vars => StartedAs'
BY DEF StartedAs, Next, Boot, Learn, SaveBegin, SaveEnd, Crash, TrainBegin, TrainEnd, TrainCrash,
   ClockMoves, ProcessEnds, Opened, sensorVars, vars

(* "Settings resolve in this order, later wins", up to nothing being        *)
(* blocked unasked (utils/config.py:120-232, main.py:120-149).              *)
THEOREM Precedence ==
    ASSUME TypedFiles
    PROVE  Spec => []LaterWins
<1>1. Init => StartedAs
  BY DEF Init, StartedAs
<1>2. StartedAs => LaterWins
  BY Layers DEF StartedAs, LaterWins
<1>3. QED
  BY <1>1, <1>2, StartedStep, PTL DEF Spec

--------------------------------------------------------------------------------
(* Eight bits are what a byte made of them is read back as.                 *)
LEMMA EightBits ==
    ASSUME NEW b0 \in {0, 1}, NEW b1 \in {0, 1}, NEW b2 \in {0, 1}, NEW b3 \in {0, 1},
           NEW b4 \in {0, 1}, NEW b5 \in {0, 1}, NEW b6 \in {0, 1}, NEW b7 \in {0, 1},
           NEW v \in Nat,
           v = 128 * b0 + 64 * b1 + 32 * b2 + 16 * b3 + 8 * b4 + 4 * b5 + 2 * b6 + b7
    PROVE  /\ (v \div 128) % 2 = b0 /\ (v \div 64) % 2 = b1 /\ (v \div 32) % 2 = b2
           /\ (v \div 16) % 2 = b3 /\ (v \div 8) % 2 = b4 /\ (v \div 4) % 2 = b5
           /\ (v \div 2) % 2 = b6 /\ (v \div 1) % 2 = b7
OBVIOUS

LEMMA ByteRead ==
    ASSUME NEW f, NEW b \in Nat, NEW o \in 0..7
    PROVE  Byte(f, b) \in Nat /\ (Byte(f, b) \div PlaceValue[o + 1]) % 2 = Bit(f, 8 * b + o)
<1>1. \A n : Bit(f, n) \in {0, 1}
  BY DEF Bit
<1>2. /\ Bit(f, 8 * b) \in {0, 1} /\ Bit(f, 8 * b + 1) \in {0, 1} /\ Bit(f, 8 * b + 2) \in {0, 1}
      /\ Bit(f, 8 * b + 3) \in {0, 1} /\ Bit(f, 8 * b + 4) \in {0, 1} /\ Bit(f, 8 * b + 5) \in {0, 1}
      /\ Bit(f, 8 * b + 6) \in {0, 1} /\ Bit(f, 8 * b + 7) \in {0, 1}
  BY <1>1
<1>3. Byte(f, b) \in Nat
  BY <1>2 DEF Byte
<1>4. /\ (Byte(f, b) \div 128) % 2 = Bit(f, 8 * b) /\ (Byte(f, b) \div 64) % 2 = Bit(f, 8 * b + 1)
      /\ (Byte(f, b) \div 32) % 2 = Bit(f, 8 * b + 2) /\ (Byte(f, b) \div 16) % 2 = Bit(f, 8 * b + 3)
      /\ (Byte(f, b) \div 8) % 2 = Bit(f, 8 * b + 4) /\ (Byte(f, b) \div 4) % 2 = Bit(f, 8 * b + 5)
      /\ (Byte(f, b) \div 2) % 2 = Bit(f, 8 * b + 6) /\ (Byte(f, b) \div 1) % 2 = Bit(f, 8 * b + 7)
  <2> DEFINE b0 == Bit(f, 8 * b)
             b1 == Bit(f, 8 * b + 1)
             b2 == Bit(f, 8 * b + 2)
             b3 == Bit(f, 8 * b + 3)
             b4 == Bit(f, 8 * b + 4)
             b5 == Bit(f, 8 * b + 5)
             b6 == Bit(f, 8 * b + 6)
             b7 == Bit(f, 8 * b + 7)
             v == Byte(f, b)
  <2>1. v = 128 * b0 + 64 * b1 + 32 * b2 + 16 * b3 + 8 * b4 + 4 * b5 + 2 * b6 + b7
    BY DEF Byte
  <2>2. /\ v \in Nat /\ b0 \in {0, 1} /\ b1 \in {0, 1} /\ b2 \in {0, 1} /\ b3 \in {0, 1}
        /\ b4 \in {0, 1} /\ b5 \in {0, 1} /\ b6 \in {0, 1} /\ b7 \in {0, 1}
    BY <1>2, <1>3
  <2> HIDE DEF b0, b1, b2, b3, b4, b5, b6, b7, v
  <2>3. /\ (v \div 128) % 2 = b0 /\ (v \div 64) % 2 = b1 /\ (v \div 32) % 2 = b2
        /\ (v \div 16) % 2 = b3 /\ (v \div 8) % 2 = b4 /\ (v \div 4) % 2 = b5
        /\ (v \div 2) % 2 = b6 /\ (v \div 1) % 2 = b7
    BY <2>1, <2>2, EightBits
  <2> QED
    BY <2>3 DEF b0, b1, b2, b3, b4, b5, b6, b7, v
<1>5. /\ PlaceValue[1] = 128 /\ PlaceValue[2] = 64 /\ PlaceValue[3] = 32 /\ PlaceValue[4] = 16
      /\ PlaceValue[5] = 8 /\ PlaceValue[6] = 4 /\ PlaceValue[7] = 2 /\ PlaceValue[8] = 1
  BY DEF PlaceValue
<1>6. o \in {0, 1, 2, 3, 4, 5, 6, 7}
  OBVIOUS
<1> HIDE DEF Bit
<1>7. 8 * b + 0 = 8 * b
  OBVIOUS
<1> QED
  BY <1>3, <1>4, <1>5, <1>6, <1>7

(* A filter of one of the two sizes that holds the bits of the indicators   *)
(* it was given, those only, and has counted them.                          *)
Knows(f, known) ==
    /\ f \in [size : {ConfigSize, TrainedSize}, ones : SUBSET Nat, items : Nat]
    /\ f.ones = UNION {Hashes(f, a) : a \in known}
    /\ known \subseteq Addresses
    /\ f.items = 0 <=> known = {}

LEMMA HashesWithin ==
    ASSUME NEW f, NEW a \in Addresses, f.size \in Nat \ {0}
    PROVE  Hashes(f, a) \subseteq 0..(f.size - 1) /\ Hashes(f, a) # {}
<1>1. \A i \in 1..HashCount : Digest[a][i] \in Nat
  BY BloomAssumption
<1>2. \A i \in 1..HashCount : Digest[a][i] % f.size \in 0..(f.size - 1)
  BY <1>1
<1>3. 1 \in 1..HashCount
  BY BloomAssumption
<1> QED
  BY <1>2, <1>3 DEF Hashes

LEMMA KnowsWithin ==
    ASSUME NEW f, NEW known, Knows(f, known)
    PROVE  /\ f.size \in Nat \ {0} /\ f.size \in {ConfigSize, TrainedSize} /\ f.items \in Nat
           /\ f.ones \subseteq 0..(f.size - 1)
           /\ known # {} => f.ones # {} /\ f.items > 0
<1>1. f.size \in Nat \ {0} /\ f.size \in {ConfigSize, TrainedSize} /\ f.items \in Nat
  BY SessionsAssumption DEF Knows
<1>2. \A a \in known : Hashes(f, a) \subseteq 0..(f.size - 1) /\ Hashes(f, a) # {}
  BY <1>1, HashesWithin DEF Knows
<1>3. f.ones = UNION {Hashes(f, a) : a \in known} /\ (f.items = 0 <=> known = {})
  BY DEF Knows
<1> QED
  BY <1>1, <1>2, <1>3

LEMMA KnowsNobody ==
    ASSUME NEW size \in {ConfigSize, TrainedSize}
    PROVE  Knows(Empty(size), {})
BY DEF Knows, Empty, Hashes

LEMMA KnowsMore ==
    ASSUME NEW f, NEW known, Knows(f, known), NEW more \in SUBSET Addresses
    PROVE  Knows(AddAll(f, more), known \cup more)
<1> DEFINE g == AddAll(f, more)
<1>1. IsFiniteSet(more) /\ Cardinality(more) \in Nat /\ (Cardinality(more) = 0 <=> more = {})
  BY BloomAssumption, FS_Subset, FS_CardinalityType, FS_EmptySet
<1>2. /\ f \in [size : {ConfigSize, TrainedSize}, ones : SUBSET Nat, items : Nat]
      /\ f.ones = UNION {Hashes(f, a) : a \in known}
      /\ known \subseteq Addresses /\ (f.items = 0 <=> known = {})
  BY DEF Knows
<1>3. /\ g.size = f.size /\ g.items = f.items + Cardinality(more)
      /\ g.ones = f.ones \cup UNION {Hashes(f, a) : a \in more}
      /\ g = [size |-> g.size, ones |-> g.ones, items |-> g.items]
  <2> DEFINE bits == UNION {Hashes(f, a) : a \in more}
  <2>1. g = [f EXCEPT !.ones = @ \cup bits, !.items = @ + Cardinality(more)]
    BY Zenon DEF AddAll
  <2> HIDE DEF bits, g
  <2>2. /\ g.size = f.size /\ g.items = f.items + Cardinality(more) /\ g.ones = f.ones \cup bits
        /\ g = [size |-> g.size, ones |-> g.ones, items |-> g.items]
    BY <1>2, <2>1
  <2> QED
    BY <2>2 DEF bits
<1> HIDE DEF g
<1>4. \A a : Hashes(g, a) = Hashes(f, a)
  BY <1>3 DEF Hashes
<1>5. g.ones = UNION {Hashes(g, a) : a \in known \cup more}
  BY <1>2, <1>3, <1>4
<1>6. g.items \in Nat /\ (g.items = 0 <=> known \cup more = {})
  BY <1>1, <1>2, <1>3
<1>7. g.ones \subseteq Nat
  <2>1. f.size \in Nat \ {0}
    BY <1>2, SessionsAssumption
  <2>2. \A a \in more : Hashes(f, a) \subseteq 0..(f.size - 1)
    BY <2>1, HashesWithin
  <2> QED
    BY <1>2, <1>3, <2>1, <2>2
<1>8. g \in [size : {ConfigSize, TrainedSize}, ones : SUBSET Nat, items : Nat]
  BY <1>2, <1>3, <1>6, <1>7
<1> QED
  BY <1>2, <1>5, <1>6, <1>8 DEF Knows, g

(* What a filter is packed into is unpacked to the same filter, bit for     *)
(* bit, whatever its size leaves of the last byte.                          *)
LEMMA FilterPacked ==
    ASSUME NEW f, f.size \in Nat \ {0}, f.ones \subseteq 0..(f.size - 1),
           f = [size |-> f.size, ones |-> f.ones, items |-> f.items]
    PROVE  ImportBrain(ExportBrain(f)) = f
<1> DEFINE k == (f.size + 7) \div 8
           bytes == [b \in 1..k |-> Byte(f, b - 1)]
           brain == ExportBrain(f)
           g == ImportBrain(brain)
<1>1. /\ f.size \in Nat \ {0} /\ f.ones \subseteq 0..(f.size - 1)
      /\ f = [size |-> f.size, ones |-> f.ones, items |-> f.items]
  OBVIOUS
<1>2. k \in Nat /\ 8 * k >= f.size
  BY <1>1
<1> HIDE DEF k
<1>3. Len(bytes) = k /\ \A b \in 1..k : bytes[b] = Byte(f, b - 1)
  <2>1. \A b \in 1..k : Byte(f, b - 1) \in Nat
    BY <1>2, ByteRead
  <2>2. bytes \in Seq(Nat)
    BY <1>2, <2>1
  <2>3. DOMAIN bytes = 1..k
    OBVIOUS
  <2> QED
    BY <1>2, <2>2, <2>3
<1>4. brain.size = f.size /\ brain.items = f.items /\ brain.bytes = bytes
  BY DEF ExportBrain, k
<1> HIDE DEF bytes, brain
<1>5. g = [size |-> f.size, items |-> f.items, ones |-> Unpacked(bytes) \cap 0..(f.size - 1)]
  BY <1>4 DEF ImportBrain
<1>6. ASSUME NEW n \in 0..(f.size - 1) PROVE n \in Unpacked(bytes) <=> n \in f.ones
  <2>1. n \in Nat /\ n = 8 * (n \div 8) + (n % 8) /\ n % 8 \in 0..7 /\ n \div 8 \in Nat
    BY <1>1
  <2>2. n \div 8 + 1 \in 1..k /\ n \in 0..(8 * k - 1)
    <3> DEFINE q == n \div 8
               o == n % 8
    <3>1. n < f.size /\ f.size \in Nat
      BY <1>1
    <3>2. n \in Nat /\ n = 8 * q + o /\ o \in 0..7 /\ q \in Nat
      BY <2>1
    <3> HIDE DEF q, o
    <3>3. 8 * q < 8 * k /\ n < 8 * k
      BY <1>2, <3>1, <3>2
    <3>4. q + 1 \in 1..k /\ n \in 0..(8 * k - 1)
      BY <1>2, <3>2, <3>3
    <3> QED
      BY <3>4 DEF q
  <2>3. bytes[n \div 8 + 1] = Byte(f, n \div 8)
    BY <1>3, <2>1, <2>2
  <2>4. (bytes[n \div 8 + 1] \div PlaceValue[(n % 8) + 1]) % 2 = Bit(f, n)
    <3> DEFINE q == n \div 8
               o == n % 8
    <3>1. n = 8 * q + o /\ o \in 0..7 /\ q \in Nat
      BY <2>1
    <3> HIDE DEF q, o
    <3>2. (Byte(f, q) \div PlaceValue[o + 1]) % 2 = Bit(f, 8 * q + o)
      BY <3>1, ByteRead
    <3>3. (Byte(f, q) \div PlaceValue[o + 1]) % 2 = Bit(f, n)
      BY <3>1, <3>2
    <3> QED
      BY <2>3, <3>3 DEF q, o
  <2>5. n \in Unpacked(bytes) <=> (bytes[n \div 8 + 1] \div PlaceValue[(n % 8) + 1]) % 2 = 1
    BY <1>3, <2>2 DEF Unpacked
  <2> QED
    BY <2>4, <2>5 DEF Bit
<1>7. Unpacked(bytes) \cap 0..(f.size - 1) = f.ones
  BY <1>1, <1>6
<1> QED
  BY <1>1, <1>5, <1>7 DEF g, brain

LEMMA PackedUnpacked ==
    ASSUME NEW f, NEW known, Knows(f, known)
    PROVE  ImportBrain(ExportBrain(f)) = f
<1>1. /\ f.size \in Nat \ {0} /\ f.ones \subseteq 0..(f.size - 1)
      /\ f = [size |-> f.size, ones |-> f.ones, items |-> f.items]
  BY KnowsWithin DEF Knows
<1> QED
  BY <1>1, FilterPacked

--------------------------------------------------------------------------------
LEMMA Greatest ==
    ASSUME NEW bound \in Nat, NEW S \in SUBSET (0..bound), S # {}
    PROVE  \E x \in S : \A y \in S : y <= x
<1> DEFINE T == {bound - x : x \in S}
<1>1. T \subseteq Nat /\ T # {}
  <2>1. \A x \in S : bound - x \in Nat
    OBVIOUS
  <2> QED
    BY <2>1
<1>2. PICK t \in T : \A u \in T : ~(<<u, t>> \in OpToRel(<, Nat))
  BY <1>1, NatLessThanWellFounded, WFMin
<1>3. PICK x \in S : t = bound - x
  BY <1>2
<1>4. ASSUME NEW y \in S PROVE y <= x
  <2>1. bound - y \in T /\ bound - y \in Nat /\ t \in Nat
    BY <1>1, <1>2
  <2>2. <<bound - y, t>> \in Nat \X Nat /\ ~(<<bound - y, t>> \in OpToRel(<, Nat))
    BY <1>2, <2>1
  <2>3. ~(bound - y < t)
    BY <2>2 DEF OpToRel
  <2> QED
    BY <1>3, <2>1, <2>3
<1> QED
  BY <1>4

(* Of the files there are, one comes last in the order of their names.      *)
LEMMA LatestThere ==
    ASSUME DOMAIN disk \subseteq Names, DOMAIN disk # {}
    PROVE  Latest \in DOMAIN disk
<1> DEFINE Stamps(f) == {t \in 0..MaxTime : <<f, t>> \in DOMAIN disk}
<1>1. /\ MaxTime \in Nat /\ Families \subseteq {0, 1}
      /\ \A n \in DOMAIN disk : n = <<n[1], n[2]>> /\ n[1] \in {0, 1} /\ n[2] \in 0..MaxTime
  <2>1. MaxTime \in Nat /\ Families \subseteq {0, 1}
    BY SessionsAssumption
  <2>2. \A n \in Names : n = <<n[1], n[2]>> /\ n[1] \in Families /\ n[2] \in 0..MaxTime
    BY DEF Names
  <2> QED
    BY <2>1, <2>2
<1>2. ASSUME NEW f \in {0, 1}, Stamps(f) # {}, f = 0 => Stamps(1) = {}
      PROVE  \E n \in DOMAIN disk : \A m \in DOMAIN disk \ {n} : Precedes(m, n)
  <2>1. PICK t \in Stamps(f) : \A u \in Stamps(f) : u <= t
    BY <1>1, <1>2, Greatest
  <2>2. <<f, t>> \in DOMAIN disk
    OBVIOUS
  <2>3. ASSUME NEW m \in DOMAIN disk \ {<<f, t>>} PROVE Precedes(m, <<f, t>>)
    <3>1. m = <<m[1], m[2]>> /\ m[1] \in {0, 1} /\ m[2] \in 0..MaxTime /\ t \in 0..MaxTime
      BY <1>1
    <3>2. CASE m[1] = f
      <4>1. m[2] \in Stamps(f) /\ m[2] # t
        BY <3>1, <3>2
      <4>2. m[2] < t
        BY <2>1, <3>1, <4>1
      <4> QED
        BY <3>2, <4>2 DEF Precedes
    <3>3. CASE m[1] # f
      <4>1. m[2] \in Stamps(m[1])
        BY <3>1
      <4>2. m[1] = 0 /\ f = 1
        BY <1>2, <3>1, <3>3, <4>1
      <4> QED
        BY <4>2 DEF Precedes
    <3> QED
      BY <3>2, <3>3
  <2> QED
    BY <2>2, <2>3
<1>3. \E f \in {0, 1} : Stamps(f) # {} /\ (f = 0 => Stamps(1) = {})
  <2>1. PICK n \in DOMAIN disk : TRUE
    OBVIOUS
  <2>2. n[1] \in {0, 1} /\ n[2] \in Stamps(n[1])
    BY <1>1
  <2>3. CASE Stamps(1) # {}
    BY <2>3
  <2>4. CASE Stamps(1) = {}
    BY <2>2, <2>4
  <2> QED
    BY <2>3, <2>4
<1>4. \E n \in DOMAIN disk : \A m \in DOMAIN disk \ {n} : Precedes(m, n)
  BY <1>2, <1>3
<1> QED
  BY <1>4, Zenon DEF Latest

(* A brain file, whoever wrote it and however it ended: what it holds of an *)
(* engine is typed, and a filter in it knows the indicators it is said to.  *)
Sound(file) ==
    /\ DOMAIN file.parts \subseteq Engines \cup {"bloom"}
    /\ \A e \in Engines \cap DOMAIN file.parts : file.parts[e] \in [by : 0..MaxFiles, lessons : 0..MaxLessons]
    /\ IF "bloom" \in DOMAIN file.parts
       THEN \E f : Knows(f, file.members) /\ file.parts["bloom"] = ExportBrain(f)
       ELSE file.members = {}

LEMMA UnreadableSound == ASSUME NEW state PROVE Sound(Unreadable(state))
BY DEF Sound, Unreadable

LEMMA NothingThere ==
    ASSUME disk = [n \in DOMAIN disk |-> disk[n]], DOMAIN disk = {}
    PROVE  disk = <<>>
<1>1. disk = [n \in 1..0 |-> disk[n]]
  OBVIOUS
<1>2. disk \in Seq({}) /\ Len(disk) = 0
  BY <1>1
<1> QED
  BY <1>2, EmptySeq

(* What is loaded at start is sound, whichever file is the latest.          *)
LEMMA ImportedSound ==
    ASSUME DOMAIN disk \subseteq Names, disk = [n \in DOMAIN disk |-> disk[n]],
           \A n \in DOMAIN disk : Sound(disk[n])
    PROVE  /\ Sound(Imported)
           /\ Knows(ImportedFilter, Imported.members)
<1>1. Sound(Imported)
  <2>1. CASE disk = <<>>
    BY <2>1, UnreadableSound DEF Imported
  <2>2. CASE disk # <<>>
    <3>1. DOMAIN disk # {}
      BY <2>2, NothingThere
    <3> QED
      BY <2>2, <3>1, LatestThere DEF Imported
  <2> QED
    BY <2>1, <2>2
<1>2. Knows(ImportedFilter, Imported.members)
  <2>1. CASE "bloom" \in DOMAIN Imported.parts
    <3>1. PICK f : Knows(f, Imported.members) /\ Imported.parts["bloom"] = ExportBrain(f)
      BY <1>1, <2>1 DEF Sound
    <3>2. ImportedFilter = f
      BY <2>1, <3>1, PackedUnpacked DEF ImportedFilter
    <3> QED
      BY <3>1, <3>2
  <2>2. CASE "bloom" \notin DOMAIN Imported.parts
    <3>1. Imported.members = {} /\ ImportedFilter = Empty(ConfigSize)
      BY <1>1, <2>2 DEF Sound, ImportedFilter
    <3> QED
      BY <3>1, KnowsNobody
  <2> QED
    BY <2>1, <2>2
<1> QED
  BY <1>1, <1>2

(* A sensor is armed with somebody to look out for, with the feed alone if  *)
(* it has one, and otherwise with what it found, if that is anybody.        *)
LEMMA ArmedKnows ==
    ASSUME NEW found, NEW known, Knows(found, known), NEW feed \in BOOLEAN, NEW indicators \in SUBSET Addresses
    PROVE  LET armed == Armed(found, known, feed, indicators)
           IN  /\ Knows(armed.filter, armed.members) /\ armed.members # {}
               /\ feed /\ indicators # {} => armed.members = indicators
               /\ ~feed /\ known # {} => armed.filter = found
<1> DEFINE armed == Armed(found, known, feed, indicators)
<1>1. Seeds \in SUBSET Addresses /\ Seeds # {}
  BY SessionsAssumption
<1>2. CASE feed
  <2> DEFINE given == IF indicators # {} THEN indicators ELSE Seeds
  <2>1. armed.filter = AddAll(Reset(found), given) /\ armed.members = given
    BY <1>2 DEF Armed
  <2>2. Knows(Reset(found), {})
    BY KnowsWithin, KnowsNobody DEF Reset
  <2>3. given \in SUBSET Addresses /\ given # {} /\ (indicators # {} => given = indicators)
    BY <1>1
  <2> HIDE DEF given, armed
  <2>4. Knows(AddAll(Reset(found), given), {} \cup given)
    BY <2>2, <2>3, KnowsMore
  <2>5. {} \cup given = given
    OBVIOUS
  <2>6. Knows(armed.filter, armed.members) /\ armed.members # {}
    BY <2>1, <2>3, <2>4, <2>5
  <2> QED
    BY <1>2, <2>1, <2>3, <2>6 DEF armed
<1>3. CASE ~feed /\ found.items <= 0
  <2>1. armed.filter = AddAll(found, Seeds) /\ armed.members = known \cup Seeds
    BY <1>3 DEF Armed
  <2>2. known = {}
    BY <1>3, KnowsWithin
  <2> HIDE DEF armed
  <2>3. Knows(armed.filter, armed.members) /\ armed.members # {}
    BY <1>1, <2>1, KnowsMore
  <2> QED
    BY <1>3, <2>2, <2>3 DEF armed
<1>4. CASE ~feed /\ ~(found.items <= 0)
  <2>1. armed.filter = found /\ armed.members = known
    BY <1>4 DEF Armed
  <2>2. known # {}
    BY <1>4, KnowsWithin DEF Knows
  <2> QED
    BY <1>4, <2>1, <2>2
<1> QED
  BY <1>2, <1>3, <1>4

--------------------------------------------------------------------------------
(* Every file is sound, the filter in memory knows the indicators it was    *)
(* given, and a running sensor was given somebody: its feed, if that names  *)
(* anyone.                                                                  *)
DiskInv ==
    /\ disk = [n \in DOMAIN disk |-> disk[n]] /\ DOMAIN disk \subseteq Names
    /\ opened \in Seq(Names) /\ Len(opened) <= MaxFiles
    /\ DOMAIN disk = {opened[i] : i \in 1..Len(opened)}
    /\ \A n \in DOMAIN disk : Sound(disk[n])
    /\ saving \in 0..Len(opened) /\ training \in 0..Len(opened) /\ saved.no \in 0..Len(opened)

SensorInv ==
    /\ clock \in 0..MaxTime /\ phase \in {"down", "up", "saving"}
    /\ setup \in Setups \cup {NotRunning}
    /\ memory \in [Engines -> [by : 0..MaxFiles, lessons : 0..MaxLessons]]
    /\ phase = "saving" <=> saving # 0
    /\ Knows(filter, members)
    /\ phase # "down" =>
          /\ setup \in Setups /\ members # {}
          /\ HasFeed(setup) /\ FeedOf(setup) # {} => members = FeedOf(setup)

LEMMA InvType == DiskInv /\ SensorInv => TypeOK
<1> SUFFICES ASSUME DiskInv, SensorInv PROVE TypeOK
  OBVIOUS
<1>1. ToSet(opened) = DOMAIN disk
  <2>1. DOMAIN opened = 1..Len(opened)
    BY DEF DiskInv
  <2> QED
    BY <2>1 DEF DiskInv, ToSet
<1>2. filter.size \in {ConfigSize, TrainedSize} /\ filter.ones \subseteq 0..(filter.size - 1)
  BY KnowsWithin DEF SensorInv
<1> QED
  BY <1>1, <1>2 DEF DiskInv, SensorInv, TypeOK

LEMMA FeedTyped == ASSUME NEW s PROVE FeedOf(s) \in SUBSET Addresses
BY SessionsAssumption DEF FeedOf

LEMMA SessionsStart == Init => DiskInv /\ SensorInv
<1> SUFFICES ASSUME Init PROVE DiskInv /\ SensorInv
  OBVIOUS
<1>1. MaxTime \in Nat /\ MaxFiles \in Nat /\ MaxLessons \in Nat
  BY SessionsAssumption
<1>2. disk = [n \in DOMAIN disk |-> disk[n]] /\ DOMAIN disk = {}
  BY DEF Init
<1>3. opened \in Seq(Names) /\ Len(opened) = 0
  BY EmptySeq DEF Init
<1>4. DiskInv
  BY <1>1, <1>2, <1>3 DEF Init, DiskInv
<1>5. memory \in [Engines -> [by : 0..MaxFiles, lessons : 0..MaxLessons]]
  BY <1>1 DEF Init, Untaught, BuiltIn
<1>6. Knows(filter, members)
  BY KnowsNobody DEF Init
<1> QED
  BY <1>1, <1>4, <1>5, <1>6 DEF Init, SensorInv

LEMMA OpenedStep ==
    ASSUME DiskInv, NEW family \in Families, clock \in 0..MaxTime, Opened(<<family, clock>>)
    PROVE  /\ disk' = [n \in DOMAIN disk' |-> disk'[n]] /\ DOMAIN disk' \subseteq Names
           /\ opened' \in Seq(Names) /\ Len(opened') = Len(opened) + 1 /\ Len(opened') <= MaxFiles
           /\ DOMAIN disk' = {opened'[i] : i \in 1..Len(opened')}
           /\ \A n \in DOMAIN disk' : Sound(disk'[n])
           /\ opened'[Len(opened')] = <<family, clock>>
           /\ disk'[<<family, clock>>] = Unreadable("empty")
           /\ \A i \in 1..Len(opened) : opened'[i] = opened[i]
           /\ \A n \in DOMAIN disk \ {<<family, clock>>} : n \in DOMAIN disk' /\ disk'[n] = disk[n]
<1> DEFINE name == <<family, clock>>
<1>1. name \in Names
  BY DEF Names
<1>2. /\ opened' = Append(opened, name) /\ Len(opened) < MaxFiles /\ MaxFiles \in Nat
      /\ opened \in Seq(Names) /\ Len(opened) \in Nat
  BY SessionsAssumption DEF Opened, DiskInv
<1>3. disk' = [n \in DOMAIN disk \cup {name} |-> IF n = name THEN Unreadable("empty") ELSE disk[n]]
  BY DEF Opened
<1> HIDE DEF name
<1>4. /\ opened' \in Seq(Names) /\ Len(opened') = Len(opened) + 1 /\ Len(opened') <= MaxFiles
      /\ opened'[Len(opened) + 1] = name /\ \A i \in 1..Len(opened) : opened'[i] = opened[i]
  BY <1>1, <1>2
<1>5. {opened'[i] : i \in 1..Len(opened')} = {opened[i] : i \in 1..Len(opened)} \cup {name}
  <2>1. 1..Len(opened') = 1..Len(opened) \cup {Len(opened) + 1}
    BY <1>2, <1>4
  <2> QED
    BY <1>4, <2>1
<1>6. /\ DOMAIN disk' = DOMAIN disk \cup {name} /\ disk'[name] = Unreadable("empty")
      /\ \A n \in DOMAIN disk \ {name} : disk'[n] = disk[n]
      /\ disk' = [n \in DOMAIN disk' |-> disk'[n]]
  BY <1>3
<1>7. \A n \in DOMAIN disk' : Sound(disk'[n])
  BY <1>6, UnreadableSound DEF DiskInv
<1> QED
  BY <1>1, <1>4, <1>5, <1>6, <1>7 DEF DiskInv, name

LEMMA FilledStep ==
    ASSUME DiskInv, NEW no \in 1..Len(opened), NEW parts, NEW known,
           Sound([state |-> "whole", parts |-> parts, members |-> known]),
           disk' = Filled(no, parts, known)
    PROVE  /\ disk' = [n \in DOMAIN disk' |-> disk'[n]] /\ DOMAIN disk' = DOMAIN disk
           /\ \A n \in DOMAIN disk' : Sound(disk'[n])
           /\ \A n \in DOMAIN disk : n # opened[no] => disk'[n] = disk[n]
           /\ disk'[opened[no]] \in {Unreadable("mixed"), [state |-> "whole", parts |-> parts, members |-> known]}
           /\ (\E later \in no + 1..Len(opened) : opened[later] = opened[no]) => disk'[opened[no]] = Unreadable("mixed")
           /\ opened[no] \in DOMAIN disk
<1> DEFINE n0 == opened[no]
           whole == [state |-> "whole", parts |-> parts, members |-> known]
           new == IF /\ disk[n0].state = "empty"
                     /\ \A later \in no + 1..Len(opened) : opened[later] # n0
                  THEN whole ELSE Unreadable("mixed")
<1>1. n0 \in DOMAIN disk /\ disk = [n \in DOMAIN disk |-> disk[n]]
  BY DEF DiskInv
<1>2. disk' = [disk EXCEPT ![n0] = new]
  BY DEF Filled
<1>3. /\ new \in {Unreadable("mixed"), whole}
      /\ (\E later \in no + 1..Len(opened) : opened[later] = n0) => new = Unreadable("mixed")
  OBVIOUS
<1>4. Sound(new)
  BY <1>3, UnreadableSound
<1> HIDE DEF n0, new, whole
<1>5. /\ DOMAIN disk' = DOMAIN disk /\ disk'[n0] = new /\ \A n \in DOMAIN disk : n # n0 => disk'[n] = disk[n]
      /\ disk' = [n \in DOMAIN disk' |-> disk'[n]]
  BY <1>1, <1>2
<1>6. \A n \in DOMAIN disk' : Sound(disk'[n])
  BY <1>4, <1>5 DEF DiskInv
<1> QED
  BY <1>1, <1>3, <1>5, <1>6 DEF n0, whole

(* What a training run makes of an indicator list and of engines is sound.  *)
LEMMA LessonSound ==
    ASSUME DiskInv, training # 0, NEW t \in TrainingSets
    PROVE  Sound([state   |-> "whole",
                  parts   |-> [k \in t.keys |->
                                 IF k = "bloom" THEN ExportBrain(AddAll(Empty(TrainedSize), t.indicators))
                                 ELSE [by |-> training, lessons |-> 0]],
                  members |-> IF "bloom" \in t.keys THEN t.indicators ELSE {}])
<1> DEFINE parts == [k \in t.keys |->
              IF k = "bloom" THEN ExportBrain(AddAll(Empty(TrainedSize), t.indicators))
              ELSE [by |-> training, lessons |-> 0]]
           known == IF "bloom" \in t.keys THEN t.indicators ELSE {}
<1>1. training \in 0..MaxFiles /\ 0 \in 0..MaxLessons
  BY SessionsAssumption DEF DiskInv
<1>2. t.keys \subseteq Engines \cup {"bloom"} /\ t.indicators \in SUBSET Addresses
  BY SessionsAssumption
<1>3. Knows(AddAll(Empty(TrainedSize), t.indicators), t.indicators)
  <2>1. Knows(AddAll(Empty(TrainedSize), t.indicators), {} \cup t.indicators)
    BY <1>2, KnowsNobody, KnowsMore
  <2>2. {} \cup t.indicators = t.indicators
    OBVIOUS
  <2> QED
    BY <2>1, <2>2
<1>4. DOMAIN parts \subseteq Engines \cup {"bloom"}
  BY <1>2
<1>5. \A e \in Engines \cap DOMAIN parts : parts[e] \in [by : 0..MaxFiles, lessons : 0..MaxLessons]
  BY <1>1 DEF Engines
<1>6. IF "bloom" \in DOMAIN parts
      THEN \E f : Knows(f, known) /\ parts["bloom"] = ExportBrain(f) ELSE known = {}
  BY <1>3
<1> QED
  BY <1>4, <1>5, <1>6 DEF Sound

LEMMA SessionsStep == DiskInv /\ SensorInv /\ [Next]_vars => DiskInv' /\ SensorInv'
<1> SUFFICES ASSUME DiskInv, SensorInv, [Next]_vars PROVE DiskInv' /\ SensorInv'
  OBVIOUS
<1> USE DEF sensorVars
<1>1. /\ clock \in 0..MaxTime /\ phase \in {"down", "up", "saving"} /\ setup \in Setups \cup {NotRunning}
      /\ memory \in [Engines -> [by : 0..MaxFiles, lessons : 0..MaxLessons]]
      /\ MaxFiles \in Nat /\ MaxLessons \in Nat /\ Len(opened) \in Nat /\ Len(opened) <= MaxFiles
      /\ saving \in 0..Len(opened) /\ training \in 0..Len(opened) /\ saved.no \in 0..Len(opened)
      /\ phase = "saving" <=> saving # 0
  BY SessionsAssumption DEF DiskInv, SensorInv
<1>2. ASSUME ProcessEnds, phase' = "down", saving' = 0, clock' \in 0..MaxTime PROVE SensorInv'
  <2>1. memory' \in [Engines -> [by : 0..MaxFiles, lessons : 0..MaxLessons]]
    BY <1>1, <1>2 DEF ProcessEnds, Untaught, BuiltIn
  <2>2. Knows(filter', members')
    BY <1>2, KnowsNobody DEF ProcessEnds
  <2> QED
    BY <1>2, <2>1, <2>2 DEF SensorInv, ProcessEnds
<1>3. UNCHANGED <<disk, opened>> /\ saving' \in {0, saving} /\ training' \in {0, training} /\ saved' = saved
         => DiskInv'
  BY <1>1 DEF DiskInv
<1>4. UNCHANGED <<phase, saving, sensorVars>> /\ clock' \in 0..MaxTime => SensorInv'
  BY DEF SensorInv
<1>5. ASSUME NEW s \in Setups, Boot(s) PROVE DiskInv' /\ SensorInv'
  <2>1. /\ phase = "down" /\ phase' = "up" /\ setup' = s /\ UNCHANGED <<clock, disk, saving, training, opened, saved>>
        /\ memory' = [e \in Engines |-> IF e \in DOMAIN Imported.parts THEN Imported.parts[e] ELSE BuiltIn]
        /\ filter' = Armed(ImportedFilter, Imported.members, HasFeed(s), FeedOf(s)).filter
        /\ members' = Armed(ImportedFilter, Imported.members, HasFeed(s), FeedOf(s)).members
    BY <1>5 DEF Boot
  <2>2. Sound(Imported) /\ Knows(ImportedFilter, Imported.members)
    BY ImportedSound DEF DiskInv
  <2>3. memory' \in [Engines -> [by : 0..MaxFiles, lessons : 0..MaxLessons]]
    <3>1. BuiltIn \in [by : 0..MaxFiles, lessons : 0..MaxLessons]
      BY <1>1 DEF BuiltIn
    <3> QED
      BY <2>1, <2>2, <3>1 DEF Sound
  <2>4. HasFeed(s) \in BOOLEAN /\ FeedOf(s) \in SUBSET Addresses
    BY FeedTyped DEF HasFeed, Truth
  <2>5. /\ Knows(filter', members') /\ members' # {}
        /\ HasFeed(s) /\ FeedOf(s) # {} => members' = FeedOf(s)
    BY <2>1, <2>2, <2>4, ArmedKnows
  <2>6. DiskInv'
    BY <1>3, <2>1
  <2> QED
    BY <1>1, <2>1, <2>3, <2>5, <2>6 DEF SensorInv
<1>6. ASSUME NEW e \in Adaptive, Learn(e) PROVE DiskInv' /\ SensorInv'
  <2>1. /\ memory' = [memory EXCEPT ![e].lessons = @ + 1] /\ memory[e].lessons < MaxLessons
        /\ UNCHANGED <<clock, disk, phase, setup, filter, members, saving, training, opened, saved>>
    BY <1>6 DEF Learn
  <2>2. e \in Engines
    BY DEF Adaptive, Engines
  <2>3. memory' \in [Engines -> [by : 0..MaxFiles, lessons : 0..MaxLessons]]
    BY <1>1, <2>1, <2>2
  <2>4. DiskInv'
    BY <1>3, <2>1
  <2> QED
    BY <2>1, <2>3, <2>4 DEF SensorInv
<1>7. ASSUME NEW family \in Families, Opened(<<family, clock>>),
             saving' \in {saving, Len(opened')}, training' \in {training, Len(opened')}, saved' = saved
      PROVE  DiskInv'
  <2>1. saving' \in 0..Len(opened') /\ training' \in 0..Len(opened') /\ saved'.no \in 0..Len(opened')
    <3>1. Len(opened') = Len(opened) + 1
      BY <1>1, <1>7, OpenedStep
    <3>2. saving' \in 0..Len(opened')
      BY <1>1, <1>7, <3>1
    <3>3. training' \in 0..Len(opened')
      BY <1>1, <1>7, <3>1
    <3>4. saved'.no \in 0..Len(opened')
      BY <1>1, <1>7, <3>1
    <3> QED
      BY <3>2, <3>3, <3>4
  <2> QED
    BY <1>1, <1>7, <2>1, OpenedStep DEF DiskInv
<1>8. CASE SaveBegin
  <2>1. /\ phase = "up" /\ phase' = "saving" /\ saving' = Len(opened') /\ Opened(<<0, clock>>)
        /\ UNCHANGED <<clock, training, saved, sensorVars>>
    BY <1>8 DEF SaveBegin
  <2>2. 0 \in Families /\ saving' # 0
    <3>1. 0 \in Families
      BY SessionsAssumption
    <3>2. Len(opened') = Len(opened) + 1
      BY <1>1, <2>1, <3>1, OpenedStep
    <3> QED
      BY <1>1, <2>1, <3>1, <3>2
  <2>3. DiskInv'
    BY <1>7, <2>1, <2>2
  <2> QED
    BY <1>1, <2>1, <2>2, <2>3 DEF SensorInv
<1>9. CASE SaveEnd
  <2>1. /\ phase = "saving" /\ disk' = Filled(saving, Brain, members) /\ phase' = "down" /\ saving' = 0
        /\ saved' = [no |-> saving, memory |-> memory, filter |-> filter] /\ ProcessEnds
        /\ UNCHANGED <<clock, training, opened>>
    BY <1>9 DEF SaveEnd
  <2>2. saving \in 1..Len(opened)
    BY <1>1, <2>1
  <2>3. Sound([state |-> "whole", parts |-> Brain, members |-> members])
    BY <1>1 DEF Sound, Brain, SensorInv, Engines
  <2>4. /\ disk' = [n \in DOMAIN disk' |-> disk'[n]] /\ DOMAIN disk' = DOMAIN disk
        /\ \A n \in DOMAIN disk' : Sound(disk'[n])
    BY <2>1, <2>2, <2>3, FilledStep
  <2>5. DiskInv'
    BY <1>1, <2>1, <2>2, <2>4 DEF DiskInv
  <2> QED
    BY <1>1, <1>2, <2>1, <2>5
<1>10. CASE Crash
  BY <1>1, <1>2, <1>3, <1>10 DEF Crash
<1>11. ASSUME NEW family \in Families, TrainBegin(family) PROVE DiskInv' /\ SensorInv'
  <2>1. /\ training' = Len(opened') /\ Opened(<<family, clock>>)
        /\ UNCHANGED <<clock, phase, saving, saved, sensorVars>>
    BY <1>11 DEF TrainBegin
  <2> QED
    BY <1>1, <1>4, <1>7, <2>1
<1>12. ASSUME NEW t \in TrainingSets, TrainEnd(t) PROVE DiskInv' /\ SensorInv'
  <2> DEFINE parts == [k \in t.keys |->
                IF k = "bloom" THEN ExportBrain(AddAll(Empty(TrainedSize), t.indicators))
                ELSE [by |-> training, lessons |-> 0]]
             known == IF "bloom" \in t.keys THEN t.indicators ELSE {}
  <2>1. /\ training # 0 /\ disk' = Filled(training, parts, known) /\ training' = 0
        /\ UNCHANGED <<clock, phase, saving, opened, saved, sensorVars>>
    BY <1>12 DEF TrainEnd
  <2>2. training \in 1..Len(opened)
    BY <1>1, <2>1
  <2>3. Sound([state |-> "whole", parts |-> parts, members |-> known])
    BY <2>1, LessonSound
  <2> HIDE DEF parts, known
  <2>4. /\ disk' = [n \in DOMAIN disk' |-> disk'[n]] /\ DOMAIN disk' = DOMAIN disk
        /\ \A n \in DOMAIN disk' : Sound(disk'[n])
    BY <2>1, <2>2, <2>3, FilledStep
  <2>5. DiskInv'
    BY <1>1, <2>1, <2>4 DEF DiskInv
  <2> QED
    BY <1>1, <1>4, <2>1, <2>5
<1>13. CASE TrainCrash
  BY <1>1, <1>3, <1>4, <1>13 DEF TrainCrash
<1>14. CASE ClockMoves
  BY <1>1, <1>3, <1>4, <1>14 DEF ClockMoves
<1>15. CASE UNCHANGED vars
  BY <1>1, <1>3, <1>4, <1>15 DEF vars
<1> QED
  BY <1>5, <1>6, <1>8, <1>9, <1>10, <1>11, <1>12, <1>13, <1>14, <1>15 DEF Next

(* "False positives are possible, false negatives never", across packing,   *)
(* sizes and restarts, and a feed leaves no bit of an older brain beside    *)
(* it (bloom.py:33-175, sensor.py:394-413).                                 *)
THEOREM ArmedExactly == Spec => []FilterExact
<1>1. DiskInv /\ SensorInv => FilterExact
  <2> SUFFICES ASSUME DiskInv, SensorInv PROVE FilterExact
    OBVIOUS
  <2>1. TypeOK
    BY InvType
  <2>2. filter.ones = UNION {Hashes(filter, a) : a \in members}
    BY DEF SensorInv, Knows
  <2>3. NoFalseNegative
    BY <2>2 DEF NoFalseNegative, Check
  <2>4. FeedAuthoritative
    BY <2>2 DEF FeedAuthoritative, SensorInv
  <2> QED
    BY <2>1, <2>3, <2>4 DEF FilterExact
<1>2. QED
  BY <1>1, SessionsStart, SessionsStep, PTL DEF Spec

(* Whatever brain or feed it was given, a running sensor looks out for      *)
(* somebody (sensor.py:394-413).                                            *)
THEOREM NeverEmptyHanded == Spec => []NeverUnarmed
<1>1. DiskInv /\ SensorInv => NeverUnarmed
  BY KnowsWithin DEF SensorInv, NeverUnarmed
<1>2. QED
  BY <1>1, SessionsStart, SessionsStep, PTL DEF Spec

--------------------------------------------------------------------------------
(* Every open file has one writer; the file of the last completed save, if  *)
(* it is whole and its name was not used again, holds what was saved.       *)
SavedInv ==
    /\ saving # 0 => saving # training
    /\ saved.no # 0 => saved.no # saving /\ saved.no # training
    /\ saved.no # 0 /\ disk[opened[saved.no]].state = "whole"
          /\ (\A later \in saved.no + 1..Len(opened) : opened[later] # opened[saved.no]) =>
          LET file == disk[opened[saved.no]]
          IN  /\ DOMAIN file.parts = Engines \cup {"bloom"}
              /\ saved.memory = [e \in Engines |-> file.parts[e]]
              /\ file.parts["bloom"] = ExportBrain(saved.filter)
              /\ Knows(saved.filter, file.members) /\ file.members # {}

LEMMA SavedStart == Init => SavedInv
BY DEF Init, SavedInv

LEMMA SavedKept ==
    ASSUME SavedInv, UNCHANGED <<disk, opened, saved>>, saving' \in {0, saving}, training' \in {0, training}
    PROVE  SavedInv'
BY DEF SavedInv

(* A file begun now is nobody's yet, and takes the name of the saved one    *)
(* or leaves that alone.                                                    *)
LEMMA SavedOpened ==
    ASSUME DiskInv, SavedInv, NEW family \in Families, clock \in 0..MaxTime, Opened(<<family, clock>>),
           saved' = saved,
           \/ saving' = Len(opened') /\ training' = training
           \/ training' = Len(opened') /\ saving' = saving
    PROVE  SavedInv'
<1>1. /\ saving \in 0..Len(opened) /\ training \in 0..Len(opened) /\ saved.no \in 0..Len(opened)
      /\ Len(opened) \in Nat
  BY DEF DiskInv
<1>2. /\ Len(opened') = Len(opened) + 1 /\ opened'[Len(opened')] = <<family, clock>>
      /\ \A i \in 1..Len(opened) : opened'[i] = opened[i] /\ opened[i] \in DOMAIN disk
      /\ \A n \in DOMAIN disk \ {<<family, clock>>} : disk'[n] = disk[n]
  <2>1. \A i \in 1..Len(opened) : opened[i] \in DOMAIN disk
    BY DEF DiskInv
  <2> QED
    BY <2>1, OpenedStep
<1>3. /\ saving' # 0 => saving' # training'
      /\ saved'.no # 0 => saved'.no # saving' /\ saved'.no # training'
  BY <1>1, <1>2 DEF SavedInv
<1>4. ASSUME saved.no # 0, \A later \in saved.no + 1..Len(opened') : opened'[later] # opened'[saved.no]
      PROVE  /\ opened'[saved.no] = opened[saved.no] /\ disk'[opened[saved.no]] = disk[opened[saved.no]]
             /\ \A later \in saved.no + 1..Len(opened) : opened[later] # opened[saved.no]
  <2>1. saved.no \in 1..Len(opened) /\ Len(opened') \in saved.no + 1..Len(opened')
    BY <1>1, <1>2, <1>4
  <2>2. opened[saved.no] # <<family, clock>>
    BY <1>2, <1>4, <2>1
  <2>3. \A later \in saved.no + 1..Len(opened) : later \in saved.no + 1..Len(opened') /\ later \in 1..Len(opened)
    BY <1>1, <1>2, <2>1
  <2> QED
    BY <1>2, <1>4, <2>1, <2>2, <2>3
<1> QED
  BY <1>3, <1>4 DEF SavedInv

(* Whoever else fills a file of that name leaves a mixture, or is its later *)
(* writer.                                                                  *)
LEMMA SavedFilled ==
    ASSUME DiskInv, SavedInv, NEW parts, NEW known,
           Sound([state |-> "whole", parts |-> parts, members |-> known]),
           training # 0, disk' = Filled(training, parts, known), training' = 0,
           UNCHANGED <<opened, saved, saving>>
    PROVE  SavedInv'
<1>1. training \in 1..Len(opened) /\ Len(opened) \in Nat /\ saved.no \in 0..Len(opened)
  BY DEF DiskInv
<1>2. /\ \A n \in DOMAIN disk : n # opened[training] => disk'[n] = disk[n]
      /\ (\E later \in training + 1..Len(opened) : opened[later] = opened[training])
            => disk'[opened[training]] = Unreadable("mixed")
      /\ \A i \in 1..Len(opened) : opened[i] \in DOMAIN disk
  <2>1. \A i \in 1..Len(opened) : opened[i] \in DOMAIN disk
    BY DEF DiskInv
  <2> QED
    BY <1>1, <2>1, FilledStep
<1>3. ASSUME saved.no # 0, \A later \in saved.no + 1..Len(opened) : opened[later] # opened[saved.no],
             disk'[opened[saved.no]].state = "whole"
      PROVE  disk'[opened[saved.no]] = disk[opened[saved.no]]
  <2>1. saved.no \in 1..Len(opened) /\ saved.no # training
    BY <1>1, <1>3 DEF SavedInv
  <2>2. CASE opened[saved.no] # opened[training]
    BY <1>2, <2>1, <2>2
  <2>3. CASE opened[saved.no] = opened[training]
    <3>1. training < saved.no
      BY <1>1, <1>3, <2>1, <2>3
    <3>2. saved.no \in training + 1..Len(opened)
      BY <1>1, <2>1, <3>1
    <3>3. disk'[opened[saved.no]] = Unreadable("mixed")
      BY <1>2, <2>3, <3>2
    <3> QED
      BY <1>3, <3>3 DEF Unreadable
  <2> QED
    BY <2>2, <2>3
<1> QED
  BY <1>3 DEF SavedInv

LEMMA SavedStep == DiskInv /\ SensorInv /\ SavedInv /\ [Next]_vars => SavedInv'
<1> SUFFICES ASSUME DiskInv, SensorInv, SavedInv, [Next]_vars PROVE SavedInv'
  OBVIOUS
<1> USE DEF sensorVars
<1>1. clock \in 0..MaxTime /\ 0 \in Families
  BY SessionsAssumption DEF SensorInv
<1>2. CASE SaveBegin
  <2>1. Opened(<<0, clock>>) /\ saving' = Len(opened') /\ UNCHANGED <<training, saved>>
    BY <1>2 DEF SaveBegin
  <2> QED
    BY <1>1, <2>1, SavedOpened
<1>3. ASSUME NEW family \in Families, TrainBegin(family) PROVE SavedInv'
  <2>1. Opened(<<family, clock>>) /\ training' = Len(opened') /\ UNCHANGED <<saving, saved>>
    BY <1>3 DEF TrainBegin
  <2> QED
    BY <1>1, <2>1, SavedOpened
<1>4. CASE SaveEnd
  <2>1. /\ phase = "saving" /\ disk' = Filled(saving, Brain, members) /\ saving' = 0
        /\ saved' = [no |-> saving, memory |-> memory, filter |-> filter]
        /\ UNCHANGED <<training, opened>>
    BY <1>4 DEF SaveEnd
  <2>2. /\ saving \in 1..Len(opened) /\ Len(opened) \in Nat /\ members # {} /\ Knows(filter, members)
        /\ memory = [e \in Engines |-> memory[e]]
    BY <2>1 DEF SensorInv, DiskInv
  <2>3. Sound([state |-> "whole", parts |-> Brain, members |-> members])
    BY <2>2 DEF Sound, Brain, SensorInv, Engines
  <2>4. disk'[opened[saving]] \in {Unreadable("mixed"), [state |-> "whole", parts |-> Brain, members |-> members]}
    BY <2>1, <2>2, <2>3, FilledStep
  <2>5. /\ DOMAIN Brain = Engines \cup {"bloom"} /\ Brain["bloom"] = ExportBrain(filter)
        /\ memory = [e \in Engines |-> Brain[e]]
    BY <2>2 DEF Brain, Engines
  <2>6. saved'.no = saving /\ saved'.memory = memory /\ saved'.filter = filter /\ opened' = opened
    BY <2>1
  <2>7. disk'[opened[saving]].state = "whole" =>
          disk'[opened[saving]].parts = Brain /\ disk'[opened[saving]].members = members
    BY <2>4 DEF Unreadable
  <2>8. saving # training /\ saving # 0
    BY <2>2 DEF SavedInv
  <2> QED
    BY <2>1, <2>2, <2>5, <2>6, <2>7, <2>8 DEF SavedInv
<1>5. ASSUME NEW t \in TrainingSets, TrainEnd(t) PROVE SavedInv'
  <2> DEFINE parts == [k \in t.keys |->
                IF k = "bloom" THEN ExportBrain(AddAll(Empty(TrainedSize), t.indicators))
                ELSE [by |-> training, lessons |-> 0]]
             known == IF "bloom" \in t.keys THEN t.indicators ELSE {}
  <2>1. /\ training # 0 /\ disk' = Filled(training, parts, known) /\ training' = 0
        /\ UNCHANGED <<saving, opened, saved>>
    BY <1>5 DEF TrainEnd
  <2>2. Sound([state |-> "whole", parts |-> parts, members |-> known])
    BY LessonSound, <2>1 DEF DiskInv
  <2> HIDE DEF parts, known
  <2> QED
    BY <2>1, <2>2, SavedFilled
<1>6. CASE \/ \E s \in Setups : Boot(s)
           \/ \E e \in Adaptive : Learn(e)
           \/ Crash \/ TrainCrash \/ ClockMoves \/ UNCHANGED vars
  BY <1>6, SavedKept DEF Boot, Learn, Crash, TrainCrash, ClockMoves, vars
<1> QED
  BY <1>2, <1>3, <1>4, <1>5, <1>6 DEF Next

(* If nothing wrote a brain since and the names sort as the files were      *)
(* written, the file loaded is the last one opened.                         *)
LEMMA LoadedLast == ASSUME DiskInv, SavedLast PROVE Imported = disk[opened[saved.no]]
<1> DEFINE n0 == opened[Len(opened)]
<1>1. /\ saved.no = Len(opened) /\ Len(opened) \in Nat /\ Len(opened) # 0
      /\ opened \in Seq(Names) /\ DOMAIN disk = {opened[i] : i \in 1..Len(opened)}
      /\ \A i, j \in 1..Len(opened) : opened[i][1] = 0 /\ (i < j => opened[i][2] <= opened[j][2])
  BY DEF DiskInv, SavedLast
<1>2. n0 \in DOMAIN disk
  BY <1>1
<1>3. \A n \in DOMAIN disk : n = <<n[1], n[2]>> /\ n[2] \in Nat
  <2>1. \A n \in Names : n = <<n[1], n[2]>> /\ n[2] \in 0..MaxTime
    BY DEF Names
  <2>2. MaxTime \in Nat
    BY SessionsAssumption
  <2> QED
    BY <2>1, <2>2 DEF DiskInv
<1>4. ASSUME NEW m \in DOMAIN disk \ {n0} PROVE Precedes(m, n0) /\ ~Precedes(n0, m)
  <2>1. PICK i \in 1..Len(opened) : m = opened[i]
    BY <1>1
  <2>2. i < Len(opened) /\ m[1] = 0 /\ n0[1] = 0 /\ m[2] <= n0[2]
    BY <1>1, <2>1
  <2>3. m[2] # n0[2]
    BY <1>2, <1>3, <2>2
  <2>4. m[2] < n0[2] /\ ~(n0[2] < m[2])
    BY <1>2, <1>3, <2>2, <2>3
  <2> QED
    BY <2>2, <2>4 DEF Precedes
<1>5. Latest = n0
  <2>1. \A n \in DOMAIN disk : (\A m \in DOMAIN disk \ {n} : Precedes(m, n)) <=> n = n0
    BY <1>2, <1>4
  <2> QED
    BY <1>2, <2>1 DEF Latest
<1>6. disk # <<>>
  BY <1>2
<1> QED
  BY <1>1, <1>5, <1>6 DEF Imported

(* A restarted sensor knows what it knew when it was shut down, whatever    *)
(* was torn, killed or trained before that shutdown (sensor.py:380-434).    *)
THEOREM NothingForgotten == Spec => RestoresLastShutdown
<1> DEFINE Restored == phase = "down" /\ phase' = "up" /\ SavedLast =>
                          /\ memory' = saved.memory
                          /\ ~HasFeed(setup') => filter' = saved.filter
<1>1. DiskInv /\ SensorInv /\ SavedInv /\ [Next]_vars => [Restored]_vars
  <2> SUFFICES ASSUME DiskInv, SensorInv, SavedInv, [Next]_vars, phase = "down", phase' = "up", SavedLast
               PROVE  memory' = saved.memory /\ (~HasFeed(setup') => filter' = saved.filter)
    OBVIOUS
  <2>1. PICK s \in Setups : Boot(s)
    BY DEF Next, Learn, SaveBegin, SaveEnd, Crash, TrainBegin, TrainEnd, TrainCrash, ClockMoves, vars
  <2>2. /\ setup' = s
        /\ memory' = [e \in Engines |-> IF e \in DOMAIN Imported.parts THEN Imported.parts[e] ELSE BuiltIn]
        /\ filter' = Armed(ImportedFilter, Imported.members, HasFeed(s), FeedOf(s)).filter
    BY <2>1 DEF Boot
  <2>3. /\ DOMAIN Imported.parts = Engines \cup {"bloom"}
        /\ saved.memory = [e \in Engines |-> Imported.parts[e]]
        /\ Imported.parts["bloom"] = ExportBrain(saved.filter)
        /\ Knows(saved.filter, Imported.members) /\ Imported.members # {}
    <3>1. saved.no # 0 /\ saved.no = Len(opened) /\ disk[opened[saved.no]].state = "whole" /\ Len(opened) \in Nat
      BY DEF SavedLast, DiskInv
    <3>2. \A later \in saved.no + 1..Len(opened) : opened[later] # opened[saved.no]
      BY <3>1
    <3> QED
      BY <3>1, <3>2, LoadedLast DEF SavedInv
  <2>4. memory' = saved.memory
    BY <2>2, <2>3
  <2>5. ImportedFilter = saved.filter
    BY <2>3, PackedUnpacked DEF ImportedFilter
  <2>6. HasFeed(s) \in BOOLEAN /\ FeedOf(s) \in SUBSET Addresses
    BY FeedTyped DEF HasFeed, Truth
  <2>7. ~HasFeed(s) => filter' = saved.filter
    BY <2>2, <2>3, <2>5, <2>6, ArmedKnows
  <2> QED
    BY <2>2, <2>4, <2>7
<1>2. Spec => [](DiskInv /\ SensorInv /\ SavedInv)
  BY SessionsStart, SessionsStep, SavedStart, SavedStep, PTL DEF Spec
<1>3. QED
  BY <1>1, <1>2, PTL DEF Spec, RestoresLastShutdown

--------------------------------------------------------------------------------
(* A least element stands in for induction.                                 *)
LEMMA Least ==
    ASSUME NEW S \in SUBSET Nat, S # {}
    PROVE  \E x \in S : \A y \in S : x <= y
<1>1. PICK x \in S : \A y \in S : ~(<<y, x>> \in OpToRel(<, Nat))
  BY NatLessThanWellFounded, WFMin
<1>2. ASSUME NEW y \in S PROVE x <= y
  <2>1. <<y, x>> \in Nat \X Nat /\ ~(<<y, x>> \in OpToRel(<, Nat))
    BY <1>1
  <2> QED
    BY <2>1 DEF OpToRel
<1> QED
  BY <1>2

(* n rounds of a loop that starts from base                                 *)
Rounds(n, base, step, f) ==
    f[0] = base /\ \A i \in 1..n : f[i] = step[<<i, f[i - 1]>>]

LEMMA LoopRuns ==
    ASSUME NEW S, NEW n \in Nat, NEW base \in S, NEW step \in [(1..n) \X S -> S]
    PROVE  \E f \in [0..n -> S] : Rounds(n, base, step, f)
<1> DEFINE Has(m) == \E f \in [0..m -> S] : Rounds(m, base, step, f)
           Without == {m \in 0..n : ~Has(m)}
<1>1. SUFFICES ASSUME Without # {} PROVE FALSE
  OBVIOUS
<1>2. PICK m \in Without : \A k \in Without : m <= k
  <2>1. Without \in SUBSET Nat
    OBVIOUS
  <2> HIDE DEF Without
  <2> QED
    BY <1>1, <2>1, Least
<1>3. m \in 0..n /\ ~Has(m) /\ m \in Nat
  BY <1>2
<1>4. m # 0
  <2> DEFINE f == [i \in 0..0 |-> base]
  <2>1. f \in [0..0 -> S] /\ f[0] = base
    OBVIOUS
  <2>2. Rounds(0, base, step, f)
    BY <2>1 DEF Rounds
  <2>3. Has(0)
    BY <2>1, <2>2
  <2> QED
    BY <1>3, <2>3
<1>5. Has(m - 1)
  <2>1. m - 1 \in 0..n /\ ~(m <= m - 1)
    BY <1>3, <1>4
  <2> QED
    BY <1>2, <2>1
<1>6. PICK f \in [0..(m - 1) -> S] : Rounds(m - 1, base, step, f)
  BY <1>5
<1> DEFINE last == step[<<m, f[m - 1]>>]
           g == [i \in 0..m |-> IF i = m THEN last ELSE f[i]]
<1>7. last \in S
  <2>1. <<m, f[m - 1]>> \in (1..n) \X S
    BY <1>3, <1>4
  <2> QED
    BY <2>1
<1>8. g \in [0..m -> S] /\ g[m] = last /\ \A i \in 0..(m - 1) : g[i] = f[i]
  <2>1. \A i \in 0..m : i = m \/ i \in 0..(m - 1)
    BY <1>3
  <2> HIDE DEF last
  <2> QED
    BY <1>3, <1>7, <2>1
<1> HIDE DEF g
<1>9. Rounds(m, base, step, g)
  <2>1. g[0] = base
    BY <1>3, <1>4, <1>6, <1>8 DEF Rounds
  <2>2. ASSUME NEW i \in 1..m PROVE g[i] = step[<<i, g[i - 1]>>]
    <3>1. i - 1 \in 0..(m - 1) /\ g[i - 1] = f[i - 1]
      BY <1>3, <1>8
    <3>2. CASE i = m
      BY <1>8, <3>1, <3>2
    <3>3. CASE i # m
      <4>1. i \in 1..(m - 1) /\ i \in 0..(m - 1)
        BY <1>3, <3>3
      <4> QED
        BY <1>6, <1>8, <3>1, <4>1 DEF Rounds
    <3> QED
      BY <3>2, <3>3
  <2> QED
    BY <2>1, <2>2 DEF Rounds
<1>10. Has(m)
  BY <1>8, <1>9
<1> QED
  BY <1>3, <1>10

--------------------------------------------------------------------------------
(* s lists the rows at the positions of `at` up to n, each once; p tells    *)
(* where each comes from.                                                   *)
Picks(s, rows, at, n, p) ==
    /\ p \in [1..Len(s) -> at \cap (1..n)]
    /\ \A j \in 1..Len(s) : s[j] = rows[p[j]]
    /\ \A j, k \in 1..Len(s) : p[j] = p[k] => j = k
    /\ \A i \in at \cap (1..n) : \E j \in 1..Len(s) : p[j] = i

Walk(rows, at, f) ==
    f = [i \in 0..Len(rows) |->
            IF i = 0 THEN <<>> ELSE IF i \in at THEN Append(f[i - 1], rows[i]) ELSE f[i - 1]]

LEMMA WalkExists ==
    ASSUME NEW S, NEW rows \in Seq(S), NEW at
    PROVE  \E f : Walk(rows, at, f)
<1> DEFINE n == Len(rows)
           step == [a \in (1..n) \X Seq(S) |-> IF a[1] \in at THEN Append(a[2], rows[a[1]]) ELSE a[2]]
<1>1. n \in Nat /\ <<>> \in Seq(S) /\ \A i \in 1..n : rows[i] \in S
  BY EmptySeq
<1>2. step \in [(1..n) \X Seq(S) -> Seq(S)]
  <2>1. ASSUME NEW a \in (1..n) \X Seq(S)
        PROVE  (IF a[1] \in at THEN Append(a[2], rows[a[1]]) ELSE a[2]) \in Seq(S)
    <3>1. a[1] \in 1..n /\ a[2] \in Seq(S) /\ rows[a[1]] \in S
      BY <1>1
    <3> QED
      BY <3>1, AppendProperties
  <2> QED
    BY <2>1
<1>3. \A i \in 1..n, s \in Seq(S) : step[<<i, s>>] = IF i \in at THEN Append(s, rows[i]) ELSE s
  OBVIOUS
<1> HIDE DEF step
<1>4. PICK f \in [0..n -> Seq(S)] : Rounds(n, <<>>, step, f)
  BY <1>1, <1>2, LoopRuns
<1>5. ASSUME NEW i \in 0..n
      PROVE  f[i] = IF i = 0 THEN <<>> ELSE IF i \in at THEN Append(f[i - 1], rows[i]) ELSE f[i - 1]
  <2>1. CASE i = 0
    BY <1>4, <2>1 DEF Rounds
  <2>2. CASE i # 0
    <3>1. i \in 1..n /\ i - 1 \in 0..n /\ f[i - 1] \in Seq(S)
      BY <1>1, <2>2
    <3> QED
      BY <1>3, <1>4, <2>2, <3>1 DEF Rounds
  <2> QED
    BY <2>1, <2>2
<1>6. f = [i \in 0..n |-> f[i]]
  BY <1>4
<1>7. Walk(rows, at, f)
  BY <1>5, <1>6, Zenon DEF Walk
<1> QED
  BY <1>7

LEMMA RowsPicked ==
    ASSUME NEW S, NEW rows \in Seq(S), NEW at
    PROVE  /\ RowsAt(rows, at) \in Seq(S)
           /\ \E p : Picks(RowsAt(rows, at), rows, at, Len(rows), p)
           /\ 1..Len(rows) \subseteq at => RowsAt(rows, at) = rows
<1> DEFINE n == Len(rows)
           upTo == CHOOSE f : Walk(rows, at, f)
           Same(i) == 1..i \subseteq at => Len(upTo[i]) = i /\ \A j \in 1..i : upTo[i][j] = rows[j]
           Good(i) == upTo[i] \in Seq(S) /\ (\E p : Picks(upTo[i], rows, at, i, p)) /\ Same(i)
           Bad == {i \in 0..n : ~Good(i)}
<1>1. n \in Nat /\ \A i \in 1..n : rows[i] \in S
  OBVIOUS
<1>2. Walk(rows, at, upTo)
  BY WalkExists, Zenon
<1>3. RowsAt(rows, at) = upTo[n]
  BY Zenon DEF RowsAt, Walk
<1> HIDE DEF upTo
<1>4. \A i \in 0..n : upTo[i] = IF i = 0 THEN <<>> ELSE IF i \in at THEN Append(upTo[i - 1], rows[i]) ELSE upTo[i - 1]
  BY <1>2 DEF Walk
<1>5. Good(0)
  <2>1. upTo[0] = <<>> /\ <<>> \in Seq(S) /\ Len(<<>>) = 0
    BY <1>1, <1>4, EmptySeq
  <2>2. Picks(<<>>, rows, at, 0, <<>>)
    <3>1. 1..0 = {} /\ <<>> \in [1..0 -> at \cap (1..0)]
      BY <2>1
    <3> QED
      BY <2>1, <3>1 DEF Picks
  <2> QED
    BY <2>1, <2>2
<1>6. ASSUME NEW i \in 1..n, Good(i - 1) PROVE Good(i)
  <2> DEFINE s == upTo[i - 1]
             t == upTo[i]
  <2>1. i \in Nat /\ i - 1 \in 0..n /\ i \in 0..n /\ rows[i] \in S /\ i # 0
    BY <1>1
  <2>2. PICK p : Picks(s, rows, at, i - 1, p)
    BY <1>6
  <2>3. s \in Seq(S) /\ Same(i - 1) /\ Len(s) \in Nat
    BY <1>6
  <2>4. t = IF i \in at THEN Append(s, rows[i]) ELSE s
    BY <1>4, <2>1
  <2> HIDE DEF s, t
  <2>5. CASE i \notin at
    <3>1. t = s /\ ~(1..i \subseteq at)
      BY <2>1, <2>4, <2>5
    <3>2. at \cap (1..i) = at \cap (1..(i - 1))
      BY <2>1, <2>5
    <3>3. Picks(t, rows, at, i, p)
      BY <2>2, <3>1, <3>2 DEF Picks
    <3> QED
      BY <2>3, <3>1, <3>3 DEF t
  <2>6. CASE i \in at
    <3> DEFINE q == [j \in 1..(Len(s) + 1) |-> IF j = Len(s) + 1 THEN i ELSE p[j]]
    <3>1. /\ t \in Seq(S) /\ Len(t) = Len(s) + 1 /\ t[Len(s) + 1] = rows[i]
          /\ \A j \in 1..Len(s) : t[j] = s[j]
      BY <2>1, <2>3, <2>4, <2>6, AppendProperties
    <3>2. at \cap (1..i) = (at \cap (1..(i - 1))) \cup {i}
      BY <2>1, <2>6
    <3>3. q[Len(s) + 1] = i /\ \A j \in 1..Len(s) : q[j] = p[j] /\ p[j] \in at \cap (1..(i - 1)) /\ q[j] # i
      <4>1. \A j \in 1..Len(s) : p[j] \in at \cap (1..(i - 1)) /\ j # Len(s) + 1 /\ j \in 1..(Len(s) + 1)
        BY <2>2, <2>3 DEF Picks
      <4> QED
        BY <2>1, <2>3, <4>1
    <3>4. \A j \in 1..Len(t) : j \in 1..Len(s) \/ j = Len(s) + 1
      BY <2>3, <3>1
    <3>5. q \in [1..Len(t) -> at \cap (1..i)]
      <4>1. DOMAIN q = 1..Len(t) /\ q = [j \in 1..Len(t) |-> q[j]]
        BY <3>1
      <4> HIDE DEF q
      <4>2. \A j \in 1..Len(t) : q[j] \in at \cap (1..i)
        BY <3>2, <3>3, <3>4
      <4> QED
        BY <4>1, <4>2
    <3> HIDE DEF q
    <3>6. \A j \in 1..Len(t) : t[j] = rows[q[j]]
      BY <2>2, <3>1, <3>3, <3>4 DEF Picks
    <3>7. \A j, k \in 1..Len(t) : q[j] = q[k] => j = k
      BY <2>2, <3>3, <3>4 DEF Picks
    <3>8. \A k \in at \cap (1..i) : \E j \in 1..Len(t) : q[j] = k
      <4>1. Len(s) + 1 \in 1..Len(t) /\ 1..Len(s) \subseteq 1..Len(t)
        BY <2>3, <3>1
      <4> QED
        BY <2>2, <3>2, <3>3, <4>1 DEF Picks
    <3>9. Picks(t, rows, at, i, q)
      BY <3>5, <3>6, <3>7, <3>8 DEF Picks
    <3>10. ASSUME 1..i \subseteq at PROVE Len(t) = i /\ \A j \in 1..i : t[j] = rows[j]
      <4>1. 1..(i - 1) \subseteq at
        BY <2>1, <3>10
      <4>2. Len(s) = i - 1 /\ \A j \in 1..(i - 1) : s[j] = rows[j]
        BY <2>3, <4>1 DEF s
      <4>3. \A j \in 1..i : j \in 1..(i - 1) \/ j = i
        BY <2>1
      <4> QED
        BY <2>1, <3>1, <4>2, <4>3
    <3> QED
      BY <3>1, <3>9, <3>10 DEF t
  <2> QED
    BY <2>5, <2>6
<1> HIDE DEF Good
<1>7. Good(n)
  <2>1. SUFFICES ASSUME Bad # {} PROVE FALSE
    BY <1>1
  <2>2. PICK i \in Bad : \A k \in Bad : i <= k
    <3>1. Bad \in SUBSET Nat
      OBVIOUS
    <3> HIDE DEF Bad
    <3> QED
      BY <2>1, <3>1, Least
  <2>3. i \in 0..n /\ ~Good(i) /\ i # 0
    BY <1>5, <2>2
  <2>4. i \in 1..n /\ i - 1 \in 0..n /\ ~(i <= i - 1)
    BY <1>1, <2>3
  <2>5. Good(i - 1)
    BY <2>2, <2>4
  <2> QED
    BY <1>6, <2>3, <2>4, <2>5
<1>8. upTo[n] \in Seq(S) /\ (\E p : Picks(upTo[n], rows, at, n, p)) /\ Same(n)
  BY <1>7 DEF Good
<1>9. 1..n \subseteq at => upTo[n] = rows
  BY <1>1, <1>8, SeqEqual
<1> QED
  BY <1>3, <1>8, <1>9

--------------------------------------------------------------------------------
(* s holds every element of the first n lists, each once; q tells which     *)
(* list an element comes from, and which place in it.                       *)
Spread(s, seqs, n, q) ==
    /\ q \in [1..Len(s) -> (1..n) \X Nat]
    /\ \A k \in 1..Len(s) : q[k][2] \in 1..Len(seqs[q[k][1]]) /\ s[k] = seqs[q[k][1]][q[k][2]]
    /\ \A k, l \in 1..Len(s) : q[k] = q[l] => k = l
    /\ \A i \in 1..n : \A j \in 1..Len(seqs[i]) : \E k \in 1..Len(s) : q[k] = <<i, j>>

Joining(seqs, f) == f = [i \in 1..Len(seqs) |-> IF i = 1 THEN seqs[i] ELSE f[i - 1] \o seqs[i]]

LEMMA JoiningExists ==
    ASSUME NEW S, NEW seqs \in Seq(Seq(S))
    PROVE  \E f : Joining(seqs, f)
<1> DEFINE n == Len(seqs)
           step == [a \in (1..n) \X Seq(S) |-> a[2] \o seqs[a[1]]]
<1>1. n \in Nat /\ <<>> \in Seq(S) /\ \A i \in 1..n : seqs[i] \in Seq(S)
  BY EmptySeq
<1>2. step \in [(1..n) \X Seq(S) -> Seq(S)]
  <2>1. ASSUME NEW a \in (1..n) \X Seq(S) PROVE a[2] \o seqs[a[1]] \in Seq(S)
    <3>1. a[1] \in 1..n /\ a[2] \in Seq(S) /\ seqs[a[1]] \in Seq(S)
      BY <1>1
    <3> QED
      BY <3>1, ConcatProperties
  <2> QED
    BY <2>1
<1>3. \A i \in 1..n, s \in Seq(S) : step[<<i, s>>] = s \o seqs[i]
  OBVIOUS
<1> HIDE DEF step
<1>4. PICK f \in [0..n -> Seq(S)] : Rounds(n, <<>>, step, f)
  BY <1>1, <1>2, LoopRuns
<1> DEFINE g == [i \in 1..n |-> f[i]]
<1>5. \A i \in 1..n : g[i] = f[i]
  OBVIOUS
<1>6. g = [i \in 1..n |-> g[i]]
  OBVIOUS
<1> HIDE DEF g
<1>7. ASSUME NEW i \in 1..n PROVE g[i] = IF i = 1 THEN seqs[i] ELSE g[i - 1] \o seqs[i]
  <2>1. i - 1 \in 0..n /\ f[i - 1] \in Seq(S) /\ f[i] = f[i - 1] \o seqs[i]
    <3>1. i - 1 \in 0..n
      BY <1>1
    <3>2. f[i - 1] \in Seq(S) /\ f[i] = step[<<i, f[i - 1]>>]
      BY <1>4, <3>1 DEF Rounds
    <3> QED
      BY <1>3, <3>1, <3>2
  <2>2. CASE i = 1
    <3>1. f[i - 1] = <<>>
      BY <1>4, <2>2 DEF Rounds
    <3>2. <<>> \o seqs[i] = seqs[i]
      BY <1>1, ConcatEmptySeq
    <3>3. g[i] = seqs[i]
      BY <1>5, <2>1, <3>1, <3>2
    <3> QED
      BY <2>2, <3>3
  <2>3. CASE i # 1
    <3>1. i - 1 \in 1..n
      BY <1>1, <2>3
    <3> QED
      BY <1>5, <2>1, <2>3, <3>1
  <2> QED
    BY <2>2, <2>3
<1>8. Joining(seqs, g)
  BY <1>6, <1>7, Zenon DEF Joining
<1> QED
  BY <1>8

LEMMA Joined ==
    ASSUME NEW S, NEW seqs \in Seq(Seq(S))
    PROVE  /\ FlattenSeq(seqs) \in Seq(S)
           /\ \E q : Spread(FlattenSeq(seqs), seqs, Len(seqs), q)
<1> DEFINE n == Len(seqs)
           f == CHOOSE g : Joining(seqs, g)
           Good(i) == f[i] \in Seq(S) /\ \E q : Spread(f[i], seqs, i, q)
           Bad == {i \in 1..n : ~Good(i)}
<1>1. n \in Nat /\ \A i \in 1..n : seqs[i] \in Seq(S) /\ Len(seqs[i]) \in Nat
  OBVIOUS
<1>2. CASE n = 0
  <2>1. FlattenSeq(seqs) = seqs /\ seqs \in Seq(S) /\ Len(seqs) = 0 /\ 1..0 = {}
    BY <1>2, EmptySeq DEF FlattenSeq
  <2>2. Spread(seqs, seqs, 0, <<>>)
    <3>1. <<>> \in [1..0 -> (1..0) \X Nat]
      OBVIOUS
    <3> QED
      BY <2>1, <3>1 DEF Spread
  <2> QED
    BY <1>2, <2>1, <2>2
<1>3. CASE n # 0
  <2>1. Joining(seqs, f)
    BY JoiningExists, Zenon
  <2>2. FlattenSeq(seqs) = f[n]
    BY <1>3, Zenon DEF FlattenSeq, Joining
  <2> HIDE DEF f
  <2>3. \A i \in 1..n : f[i] = IF i = 1 THEN seqs[i] ELSE f[i - 1] \o seqs[i]
    BY <2>1 DEF Joining
  <2>4. Good(1)
    <3> DEFINE s == seqs[1]
               q == [k \in 1..Len(s) |-> <<1, k>>]
    <3>1. 1 \in 1..n /\ f[1] = s /\ s \in Seq(S) /\ Len(s) \in Nat
      BY <1>1, <1>3, <2>3
    <3> HIDE DEF s
    <3>2. \A k \in 1..Len(s) : q[k] = <<1, k>> /\ q[k][1] = 1 /\ q[k][2] = k /\ q[k] \in (1..1) \X Nat
      BY <3>1
    <3>3. q \in [1..Len(s) -> (1..1) \X Nat]
      BY <3>1
    <3> HIDE DEF q
    <3>4. \A i \in 1..1 : i = 1
      OBVIOUS
    <3>5. \A k \in 1..Len(s) : q[k][2] \in 1..Len(seqs[q[k][1]]) /\ s[k] = seqs[q[k][1]][q[k][2]]
      BY <3>2 DEF s
    <3>6. \A k, l \in 1..Len(s) : q[k] = q[l] => k = l
      BY <3>2
    <3>7. \A i \in 1..1 : \A j \in 1..Len(seqs[i]) : \E k \in 1..Len(s) : q[k] = <<i, j>>
      <4> SUFFICES ASSUME NEW i \in 1..1, NEW j \in 1..Len(seqs[i])
                   PROVE  \E k \in 1..Len(s) : q[k] = <<i, j>>
        OBVIOUS
      <4>1. i = 1
        BY <3>4
      <4>2. j \in 1..Len(s)
        BY <4>1 DEF s
      <4>3. q[j] = <<i, j>>
        BY <3>2, <4>1, <4>2
      <4> QED
        BY <4>2, <4>3
    <3>8. Spread(s, seqs, 1, q)
      BY <3>3, <3>5, <3>6, <3>7 DEF Spread
    <3> QED
      BY <3>1, <3>8
  <2>5. ASSUME NEW i \in 2..n, Good(i - 1) PROVE Good(i)
    <3> DEFINE s == f[i - 1]
               e == seqs[i]
               t == f[i]
               q(p) == [k \in 1..(Len(s) + Len(e)) |-> IF k <= Len(s) THEN p[k] ELSE <<i, k - Len(s)>>]
    <3>1. i \in Nat /\ i \in 1..n /\ i - 1 \in 1..n /\ i # 1 /\ e \in Seq(S) /\ Len(e) \in Nat
      BY <1>1
    <3>2. PICK p : Spread(s, seqs, i - 1, p)
      BY <2>5
    <3>3. s \in Seq(S) /\ Len(s) \in Nat
      BY <2>5
    <3>4. t = s \o e
      BY <2>3, <3>1
    <3> HIDE DEF s, e, t
    <3>5. /\ t \in Seq(S) /\ Len(t) = Len(s) + Len(e)
          /\ \A k \in 1..Len(t) : t[k] = IF k <= Len(s) THEN s[k] ELSE e[k - Len(s)]
      BY <3>1, <3>3, <3>4, ConcatProperties
    <3>6. \A k \in 1..Len(t) : k \in 1..Len(s) \/ (k - Len(s) \in 1..Len(e) /\ ~(k <= Len(s)))
      BY <3>1, <3>3, <3>5
    <3> DEFINE r == q(p)
    <3>7. \A k \in 1..Len(s) : k \in 1..Len(t) /\ r[k] = p[k] /\ t[k] = s[k]
      BY <3>1, <3>3, <3>5
    <3>8. \A k \in 1..Len(t) : ~(k <= Len(s)) => r[k] = <<i, k - Len(s)>> /\ t[k] = e[k - Len(s)]
      BY <3>1, <3>3, <3>5
    <3>9. r = [k \in 1..Len(t) |-> r[k]]
      BY <3>5
    <3> HIDE DEF r
    <3>10. \A k \in 1..Len(s) : /\ p[k] \in (1..(i - 1)) \X Nat /\ p[k] \in (1..i) \X Nat /\ p[k][1] # i
                                /\ p[k][2] \in 1..Len(seqs[p[k][1]]) /\ s[k] = seqs[p[k][1]][p[k][2]]
      <4>1. 1..(i - 1) \subseteq 1..i /\ \A x \in 1..(i - 1) : x # i
        BY <3>1
      <4> QED
        BY <3>2, <4>1 DEF Spread
    <3>11. \A k \in 1..Len(t) : ~(k <= Len(s)) => /\ r[k] \in (1..i) \X Nat /\ r[k][1] = i /\ r[k][2] = k - Len(s)
                                                 /\ r[k][2] \in 1..Len(e)
      <4> SUFFICES ASSUME NEW k \in 1..Len(t), ~(k <= Len(s))
                   PROVE  r[k] \in (1..i) \X Nat /\ r[k][1] = i /\ r[k][2] = k - Len(s) /\ r[k][2] \in 1..Len(e)
        OBVIOUS
      <4> DEFINE j == k - Len(s)
      <4>1. i \in 1..i /\ r[k] = <<i, j>>
        BY <3>1, <3>8
      <4>2. j \in 1..Len(e) /\ j \in Nat
        BY <3>1, <3>6
      <4> HIDE DEF j
      <4>3. r[k] \in (1..i) \X Nat /\ r[k][1] = i /\ r[k][2] = j
        BY <4>1, <4>2
      <4> QED
        BY <4>2, <4>3 DEF j
    <3>12. r \in [1..Len(t) -> (1..i) \X Nat]
      <4>1. ASSUME NEW k \in 1..Len(t) PROVE r[k] \in (1..i) \X Nat
        <5>1. CASE k \in 1..Len(s)
          <6>1. r[k] = p[k] /\ p[k] \in (1..i) \X Nat
            BY <3>7, <3>10, <5>1
          <6> QED
            BY <6>1
        <5>2. CASE ~(k <= Len(s))
          BY <3>11, <5>2
        <5> QED
          BY <3>6, <5>1, <5>2
      <4> QED
        BY <3>9, <4>1
    <3>13. \A k \in 1..Len(t) : r[k][2] \in 1..Len(seqs[r[k][1]]) /\ t[k] = seqs[r[k][1]][r[k][2]]
      <4> SUFFICES ASSUME NEW k \in 1..Len(t)
                   PROVE  r[k][2] \in 1..Len(seqs[r[k][1]]) /\ t[k] = seqs[r[k][1]][r[k][2]]
        OBVIOUS
      <4>1. CASE k \in 1..Len(s)
        <5>1. r[k] = p[k] /\ t[k] = s[k]
          BY <3>7, <4>1
        <5>2. p[k][2] \in 1..Len(seqs[p[k][1]]) /\ s[k] = seqs[p[k][1]][p[k][2]]
          BY <3>10, <4>1
        <5> QED
          BY <5>1, <5>2
      <4>2. CASE ~(k <= Len(s))
        <5>1. t[k] = e[k - Len(s)]
          BY <3>8, <4>2
        <5>2. r[k][1] = i /\ r[k][2] = k - Len(s) /\ r[k][2] \in 1..Len(e)
          BY <3>11, <4>2
        <5> QED
          BY <5>1, <5>2 DEF e
      <4> QED
        BY <3>6, <4>1, <4>2
    <3>14. ASSUME NEW k \in 1..Len(t), NEW l \in 1..Len(t), r[k] = r[l] PROVE k = l
      <4>1. CASE k \in 1..Len(s) /\ l \in 1..Len(s)
        BY <3>2, <3>7, <3>14, <4>1 DEF Spread
      <4>2. CASE ~(k <= Len(s)) /\ ~(l <= Len(s))
        <5>1. r[k][2] = k - Len(s) /\ r[l][2] = l - Len(s)
          BY <3>11, <4>2
        <5>2. k - Len(s) = l - Len(s)
          BY <3>14, <5>1
        <5>3. k \in Int /\ l \in Int
          BY <3>5
        <5> QED
          BY <3>3, <5>2, <5>3
      <4>3. CASE k \in 1..Len(s) /\ ~(l <= Len(s))
        <5>1. r[k][1] # i
          BY <3>7, <3>10, <4>3
        <5>2. r[l][1] = i
          BY <3>11, <4>3
        <5> QED
          BY <3>14, <5>1, <5>2
      <4>4. CASE l \in 1..Len(s) /\ ~(k <= Len(s))
        <5>1. r[l][1] # i
          BY <3>7, <3>10, <4>4
        <5>2. r[k][1] = i
          BY <3>11, <4>4
        <5> QED
          BY <3>14, <5>1, <5>2
      <4> QED
        BY <3>6, <4>1, <4>2, <4>3, <4>4
    <3>15. ASSUME NEW c \in 1..i, NEW j \in 1..Len(seqs[c]) PROVE \E k \in 1..Len(t) : r[k] = <<c, j>>
      <4>1. CASE c = i
        <5>1. /\ Len(s) + j \in 1..Len(t) /\ ~(Len(s) + j <= Len(s)) /\ (Len(s) + j) - Len(s) = j
          BY <3>1, <3>3, <3>5, <3>15, <4>1 DEF e
        <5> QED
          BY <3>8, <4>1, <5>1
      <4>2. CASE c # i
        <5>1. c \in 1..(i - 1)
          BY <3>1, <4>2
        <5>2. PICK k \in 1..Len(s) : p[k] = <<c, j>>
          BY <3>2, <5>1 DEF Spread
        <5> QED
          BY <3>7, <5>2
      <4> QED
        BY <4>1, <4>2
    <3>16. Spread(t, seqs, i, r)
      <4>1. \A k \in 1..Len(t), l \in 1..Len(t) : r[k] = r[l] => k = l
        BY <3>14
      <4>2. \A c \in 1..i : \A j \in 1..Len(seqs[c]) : \E k \in 1..Len(t) : r[k] = <<c, j>>
        BY <3>15
      <4> HIDE DEF e, t
      <4> QED
        BY ONLY <3>12, <3>13, <4>1, <4>2 DEF Spread
    <3> QED
      BY <3>5, <3>16 DEF t
  <2> HIDE DEF Good
  <2>6. Good(n)
    <3>1. SUFFICES ASSUME Bad # {} PROVE FALSE
      <4>1. n \in 1..n
        BY <1>1, <1>3
      <4>2. ~Good(n) => n \in Bad
        BY <4>1
      <4> HIDE DEF Bad
      <4> QED
        BY <4>2
    <3>2. PICK i \in Bad : \A k \in Bad : i <= k
      <4>1. Bad \in SUBSET Nat
        OBVIOUS
      <4> HIDE DEF Bad
      <4> QED
        BY <3>1, <4>1, Least
    <3>3. i \in 1..n /\ ~Good(i) /\ i # 1
      BY <2>4, <3>2
    <3>4. i \in 2..n /\ i - 1 \in 1..n /\ ~(i <= i - 1)
      BY <1>1, <3>3
    <3>5. Good(i - 1)
      BY <3>2, <3>4
    <3> QED
      BY <2>5, <3>3, <3>4, <3>5
  <2> QED
    BY <2>2, <2>6 DEF Good
<1> QED
  BY <1>2, <1>3

--------------------------------------------------------------------------------
IsEnumeration(f, S) ==
    /\ f \in Seq(S) /\ Len(f) = Cardinality(S)
    /\ \A i, j \in 1..Len(f) : f[i] = f[j] => i = j
    /\ \A x \in S : \E i \in 1..Len(f) : f[i] = x

LEMMA InjectionEnumerates ==
    ASSUME NEW S, IsFiniteSet(S), NEW f \in [1..Cardinality(S) -> S],
           \A i, j \in 1..Cardinality(S) : f[i] = f[j] => i = j
    PROVE  IsEnumeration(f, S)
<1> DEFINE n == Cardinality(S)
<1>1. n \in Nat
  BY FS_CardinalityType
<1>2. IsFiniteSet(1..n) /\ Cardinality(1..n) = n
  BY <1>1, FS_Interval
<1>3. f \in Injection(1..n, S)
  BY DEF Injection, IsInjective
<1>4. f \in Surjection(1..n, S)
  BY <1>2, <1>3, FS_Injection
<1>5. f \in Seq(S) /\ Len(f) = n
  BY <1>1
<1>6. \A x \in S : \E i \in 1..n : f[i] = x
  BY <1>4 DEF Surjection
<1> QED
  BY <1>5, <1>6 DEF IsEnumeration

LEMMA SetListed ==
    ASSUME NEW S, IsFiniteSet(S)
    PROVE  IsEnumeration(SetToSeq(S), S)
<1> DEFINE n == Cardinality(S)
<1>1. n \in Nat /\ ExistsBijection(1..n, S)
  BY FS_CardinalityType
<1>2. PICK b \in [1..n -> S] : \A i, j \in 1..n : b[i] = b[j] => i = j
  BY <1>1 DEF ExistsBijection, Bijection, Injection, IsInjective
<1>3. b \in [1..n -> S] /\ IsInjective(b)
  BY <1>2 DEF IsInjective
<1>4. SetToSeq(S) \in [1..n -> S] /\ IsInjective(SetToSeq(S))
  BY <1>3, Zenon DEF SetToSeq
<1>5. \A i, j \in 1..n : SetToSeq(S)[i] = SetToSeq(S)[j] => i = j
  BY <1>4 DEF IsInjective
<1> QED
  BY <1>4, <1>5, InjectionEnumerates

(* The set of what a list holds is finite, and as large as the list if it   *)
(* repeats nothing.                                                         *)
LEMMA ImageFinite ==
    ASSUME NEW n \in Nat, NEW f, f = [i \in 1..n |-> f[i]]
    PROVE  /\ IsFiniteSet({f[i] : i \in 1..n}) /\ Cardinality({f[i] : i \in 1..n}) \in Nat
           /\ Cardinality({f[i] : i \in 1..n}) <= n
<1> DEFINE T == {f[i] : i \in 1..n}
<1>1. IsFiniteSet(1..n) /\ Cardinality(1..n) = n
  BY FS_Interval
<1>2. f \in [1..n -> T] /\ \A x \in T : \E i \in 1..n : f[i] = x
  OBVIOUS
<1>3. f \in Surjection(1..n, T)
  BY <1>2 DEF Surjection
<1>4. IsFiniteSet(T) /\ Cardinality(T) <= n
  BY <1>1, <1>3, FS_Surjection
<1> QED
  BY <1>4, FS_CardinalityType

LEMMA ImageCounted ==
    ASSUME NEW n \in Nat, NEW f, NEW T, T = {f[i] : i \in 1..n}, f \in Injection(1..n, T)
    PROVE  Cardinality(T) = n
<1>1. IsFiniteSet(1..n) /\ Cardinality(1..n) = n
  BY FS_Interval
<1>2. f \in [1..n -> T] /\ \A x \in T : \E i \in 1..n : f[i] = x
  BY DEF Injection
<1>3. f \in Surjection(1..n, T)
  BY <1>2 DEF Surjection
<1> QED
  BY <1>1, <1>3, FS_Surjection

LEMMA AllocatedFits ==
    ASSUME NEW size \in Nat
    PROVE  /\ Allocated(size) \in [train : Nat, validation : Nat, test : Nat]
           /\ Allocated(size).train + Allocated(size).validation + Allocated(size).test = size
           /\ size >= 1 => Allocated(size).train >= 1
           /\ size >= 2 => Allocated(size).test >= 1
           /\ size >= 3 => Allocated(size).validation >= 1
<1> DEFINE seven == (7 * size) \div 10
           train == AtLeastOne(seven)
           half == (size - train) \div 2
           validation == AtLeastOne(half)
           test == size - train - validation
<1>1. CASE size <= 1
  BY <1>1 DEF Allocated
<1>2. CASE size = 2
  BY <1>2 DEF Allocated
<1>3. CASE size > 2
  <2>1. seven \in Nat /\ 10 * seven <= 7 * size
    BY <1>3
  <2>2. train \in Nat /\ train >= 1 /\ train < size
    BY <1>3, <2>1 DEF AtLeastOne
  <2>3. half \in Nat /\ 2 * half <= size - train
    <3> HIDE DEF train
    <3> QED
      BY <2>2
  <2>4. Allocated(size) = IF test = 0 THEN [train |-> train - 1, validation |-> validation, test |-> 1]
                          ELSE [train |-> train, validation |-> validation, test |-> test]
    BY <1>3 DEF Allocated
  <2> HIDE DEF seven, train, half
  <2>5. validation \in Nat /\ validation >= 1 /\ test \in Nat /\ (test = 0 => train >= 2)
    BY <1>3, <2>2, <2>3 DEF AtLeastOne
  <2> HIDE DEF validation
  <2>6. CASE test = 0
    BY <2>2, <2>4, <2>5, <2>6
  <2>7. CASE test # 0
    <3>1. test \in Nat /\ test >= 1 /\ train + validation + test = size
      BY <2>2, <2>5, <2>7
    <3> HIDE DEF test
    <3> QED
      BY <2>2, <2>4, <2>5, <2>7, <3>1
  <2> QED
    BY <2>6, <2>7
<1> QED
  BY <1>1, <1>2, <1>3

(* A group is cut into three runs of neighbours.                            *)
LEMMA GroupCut ==
    ASSUME NEW S, NEW rows \in Seq(S)
    PROVE  LET part == allocate_group(rows) IN
           /\ \A s \in Splits : part[s] \in Seq(S)
           /\ \A s \in Splits : \A j \in 1..Len(part[s]) : \E k \in 1..Len(rows) : part[s][j] = rows[k]
           /\ \A k \in 1..Len(rows) : \E s \in Splits : \E j \in 1..Len(part[s]) : part[s][j] = rows[k]
           /\ (\A i, k \in 1..Len(rows) : rows[i] = rows[k] => i = k) =>
                 \A s, t \in Splits : \A j \in 1..Len(part[s]), k \in 1..Len(part[t]) :
                    part[s][j] = part[t][k] => s = t /\ j = k
           /\ Len(rows) >= 1 => Len(part["train"]) >= 1
           /\ Len(rows) >= 2 => Len(part["test"]) >= 1
           /\ Len(rows) >= 3 => Len(part["validation"]) >= 1
<1> DEFINE part == allocate_group(rows)
           size == Len(rows)
           n == Allocated(size)
           a == n.train
           b == n.validation
           c == n.test
           from(s) == IF s = "train" THEN 0 ELSE IF s = "validation" THEN a ELSE a + b
           many(s) == IF s = "train" THEN a ELSE IF s = "validation" THEN b ELSE c
<1>1. /\ size \in Nat /\ a \in Nat /\ b \in Nat /\ c \in Nat /\ a + b + c = size
      /\ size >= 1 => a >= 1
      /\ size >= 2 => c >= 1
      /\ size >= 3 => b >= 1
      /\ \A i \in 1..size : rows[i] \in S
  <2>1. size \in Nat /\ \A i \in 1..size : rows[i] \in S
    OBVIOUS
  <2> HIDE DEF size
  <2> QED
    BY <2>1, AllocatedFits
<1>2. /\ part["train"] = SubSeq(rows, 1, a) /\ part["validation"] = SubSeq(rows, a + 1, a + b)
      /\ part["test"] = SubSeq(rows, a + b + 1, size)
  BY DEF allocate_group
<1> HIDE DEF part, size, a, b, c
<1>3. /\ part["train"] \in Seq(S) /\ Len(part["train"]) = a
      /\ \A j \in 1..a : part["train"][j] = rows[j]
  <2>1. \A i \in 1..a : rows[i] \in S
    BY <1>1
  <2>2. SubSeq(rows, 1, a) \in Seq(S) /\ Len(SubSeq(rows, 1, a)) = a
    BY <1>1, <2>1, SubSeqProperties
  <2>3. \A j \in 1..a - 1 + 1 : SubSeq(rows, 1, a)[j] = rows[1 + j - 1]
    BY <1>1, <2>1, SubSeqProperties
  <2> QED
    BY <1>1, <1>2, <2>2, <2>3
<1>4. /\ part["validation"] \in Seq(S) /\ Len(part["validation"]) = b
      /\ \A j \in 1..b : part["validation"][j] = rows[a + j]
  <2>1. \A i \in a + 1..a + b : rows[i] \in S
    BY <1>1
  <2>2. SubSeq(rows, a + 1, a + b) \in Seq(S) /\ Len(SubSeq(rows, a + 1, a + b)) = b
    BY <1>1, <2>1, SubSeqProperties
  <2>3. \A j \in 1..(a + b) - (a + 1) + 1 : SubSeq(rows, a + 1, a + b)[j] = rows[(a + 1) + j - 1]
    BY <1>1, <2>1, SubSeqProperties
  <2> QED
    BY <1>1, <1>2, <2>2, <2>3
<1>5. /\ part["test"] \in Seq(S) /\ Len(part["test"]) = c
      /\ \A j \in 1..c : part["test"][j] = rows[a + b + j]
  <2>1. \A i \in a + b + 1..size : rows[i] \in S
    BY <1>1
  <2> DEFINE first == a + b + 1
             last == SubSeq(rows, first, size)
  <2>2. first \in Int /\ size \in Int /\ size - first + 1 = c /\ first <= size + 1
        /\ \A j \in 1..c : first + j - 1 = a + b + j
    BY <1>1
  <2>3. \A i \in first..size : rows[i] \in S
    BY <2>1
  <2> HIDE DEF first
  <2>4. last \in Seq(S) /\ Len(last) = c
    BY <1>1, <2>2, <2>3, SubSeqProperties
  <2>5. \A j \in 1..size - first + 1 : last[j] = rows[first + j - 1]
    BY <1>1, <2>2, <2>3, SubSeqProperties
  <2>6. part["test"] = last
    BY <1>2 DEF first
  <2>7. \A j \in 1..c : last[j] = rows[a + b + j]
    BY <2>2, <2>5
  <2> HIDE DEF last
  <2> QED
    BY <2>4, <2>6, <2>7
<1>6. ASSUME NEW s \in Splits
      PROVE  /\ part[s] \in Seq(S) /\ Len(part[s]) = many(s)
             /\ \A j \in 1..many(s) : part[s][j] = rows[from(s) + j] /\ from(s) + j \in 1..size
  <2>1. CASE s = "train"
    BY <1>1, <1>3, <2>1
  <2>2. CASE s = "validation"
    BY <1>1, <1>4, <2>2
  <2>3. CASE s = "test"
    BY <1>1, <1>5, <2>3
  <2> QED
    BY <2>1, <2>2, <2>3 DEF Splits
<1>7. ASSUME NEW k \in 1..size PROVE \E s \in Splits : \E j \in 1..many(s) : from(s) + j = k
  <2>1. CASE k <= a
    <3>1. k \in 1..many("train") /\ from("train") + k = k
      BY <1>1, <2>1
    <3> QED
      BY <3>1 DEF Splits
  <2>2. CASE a < k /\ k <= a + b
    <3>1. k - a \in 1..many("validation") /\ from("validation") + (k - a) = k
      BY <1>1, <2>2
    <3> QED
      BY <3>1 DEF Splits
  <2>3. CASE a + b < k
    <3>1. k - (a + b) \in 1..many("test") /\ from("test") + (k - (a + b)) = k
      BY <1>1, <2>3
    <3> QED
      BY <3>1 DEF Splits
  <2> QED
    BY <1>1, <2>1, <2>2, <2>3
<1>8. ASSUME NEW s \in Splits, NEW t \in Splits, NEW j \in 1..many(s), NEW k \in 1..many(t), from(s) + j = from(t) + k
      PROVE  s = t /\ j = k
  BY <1>1, <1>8 DEF Splits
<1> HIDE DEF from, many
<1>9. \A s \in Splits : \A j \in 1..Len(part[s]) : \E k \in 1..size : part[s][j] = rows[k]
  BY <1>6
<1>10. \A k \in 1..size : \E s \in Splits : \E j \in 1..Len(part[s]) : part[s][j] = rows[k]
  BY <1>6, <1>7
<1>11. ASSUME \A i, k \in 1..size : rows[i] = rows[k] => i = k,
              NEW s \in Splits, NEW t \in Splits, NEW j \in 1..Len(part[s]), NEW k \in 1..Len(part[t]),
              part[s][j] = part[t][k]
       PROVE  s = t /\ j = k
  <2>1. j \in 1..many(s) /\ k \in 1..many(t)
    BY <1>6
  <2>2. /\ part[s][j] = rows[from(s) + j] /\ from(s) + j \in 1..size
        /\ part[t][k] = rows[from(t) + k] /\ from(t) + k \in 1..size
    BY <1>6, <2>1
  <2>3. from(s) + j = from(t) + k
    BY <1>11, <2>2
  <2> QED
    BY <1>8, <2>1, <2>3
<1>12. \A s \in Splits : part[s] \in Seq(S)
  BY <1>6
<1> QED
  BY <1>1, <1>3, <1>4, <1>5, <1>9, <1>10, <1>11, <1>12 DEF part, size

--------------------------------------------------------------------------------
(* The rows of one label, each once                                         *)
LabelRows(ranked, l) == Kept(ranked, LAMBDA row : row.label = l)

LEMMA GroupHolds ==
    ASSUME NEW S, NEW ranked \in Seq(S), \A i, k \in 1..Len(ranked) : ranked[i] = ranked[k] => i = k, NEW l
    PROVE  /\ LabelRows(ranked, l) \in Seq(S)
           /\ \A k \in 1..Len(LabelRows(ranked, l)) :
                 /\ LabelRows(ranked, l)[k].label = l
                 /\ \E i \in 1..Len(ranked) : LabelRows(ranked, l)[k] = ranked[i]
           /\ \A i \in 1..Len(ranked) : ranked[i].label = l =>
                 \E k \in 1..Len(LabelRows(ranked, l)) : LabelRows(ranked, l)[k] = ranked[i]
           /\ \A j, k \in 1..Len(LabelRows(ranked, l)) :
                 LabelRows(ranked, l)[j] = LabelRows(ranked, l)[k] => j = k
<1> DEFINE n == Len(ranked)
           at == {i \in 1..n : ranked[i].label = l}
           g == LabelRows(ranked, l)
<1>1. g = RowsAt(ranked, at)
  BY DEF LabelRows, Kept
<1>2. at \cap (1..n) = at /\ \A i \in at : i \in 1..n /\ ranked[i].label = l
  OBVIOUS
<1>3. \A i \in 1..n : ranked[i].label = l => i \in at
  OBVIOUS
<1> HIDE DEF at, g
<1>4. g \in Seq(S)
  BY <1>1, RowsPicked
<1>5. PICK p : Picks(g, ranked, at, n, p)
  BY <1>1, RowsPicked
<1>6. \A k \in 1..Len(g) : p[k] \in at /\ p[k] \in 1..n /\ g[k] = ranked[p[k]] /\ ranked[p[k]].label = l
  BY <1>2, <1>5 DEF Picks
<1>7. \A i \in 1..n : ranked[i].label = l => \E k \in 1..Len(g) : g[k] = ranked[i]
  BY <1>2, <1>3, <1>5, <1>6 DEF Picks
<1>8. ASSUME NEW j \in 1..Len(g), NEW k \in 1..Len(g), g[j] = g[k] PROVE j = k
  <2>1. p[j] = p[k]
    BY <1>6, <1>8
  <2> QED
    BY <1>5, <2>1 DEF Picks
<1> QED
  BY <1>4, <1>6, <1>7, <1>8 DEF g

(* Every row of a ranking is in one split and at one place in it; a label   *)
(* is where its number of rows allows.                                      *)
LEMMA SplitHolds ==
    ASSUME NEW S, NEW ranked \in Seq(S), \A i, k \in 1..Len(ranked) : ranked[i] = ranked[k] => i = k
    PROVE  LET parts == split_dataset(ranked) IN
           /\ \A s \in Splits : parts[s] \in Seq(S)
           /\ \A s \in Splits : \A k \in 1..Len(parts[s]) : \E i \in 1..Len(ranked) : parts[s][k] = ranked[i]
           /\ \A i \in 1..Len(ranked) : \E s \in Splits : \E k \in 1..Len(parts[s]) : parts[s][k] = ranked[i]
           /\ \A s, t \in Splits : \A j \in 1..Len(parts[s]), k \in 1..Len(parts[t]) :
                 parts[s][j] = parts[t][k] => s = t /\ j = k
           /\ \A i \in 1..Len(ranked) :
                 LET l == ranked[i].label IN
                    /\ \E k \in 1..Len(parts["train"]) : parts["train"][k].label = l
                    /\ Len(LabelRows(ranked, l)) >= 2 => \E k \in 1..Len(parts["test"]) : parts["test"][k].label = l
                    /\ Len(LabelRows(ranked, l)) >= 3 =>
                          \E k \in 1..Len(parts["validation"]) : parts["validation"][k].label = l
<1> DEFINE n == Len(ranked)
           L == {ranked[i].label : i \in 1..n}
           labels == SetToSeq(L)
           m == Len(labels)
           group(c) == LabelRows(ranked, labels[c])
           cut(c) == allocate_group(group(c))
           pieces(s) == [c \in 1..m |-> cut(c)[s]]
           parts == split_dataset(ranked)
<1>1. n \in Nat /\ \A i \in 1..n : ranked[i] \in S
  OBVIOUS
<1>2. IsEnumeration(labels, L)
  <2> DEFINE f == [i \in 1..n |-> ranked[i].label]
  <2>1. f = [i \in 1..n |-> f[i]] /\ {f[i] : i \in 1..n} = L
    OBVIOUS
  <2> HIDE DEF f, L, n
  <2>2. IsFiniteSet(L)
    <3>1. IsFiniteSet({f[i] : i \in 1..n})
      BY <1>1, <2>1, ImageFinite
    <3> QED
      BY <2>1, <3>1
  <2> QED
    BY <2>2, SetListed
<1> HIDE DEF labels
<1>3. m \in Nat /\ \A c \in 1..m : labels[c] \in L
  <2> HIDE DEF L
  <2> QED
    BY <1>2 DEF IsEnumeration
<1>4. \A c, d \in 1..m : labels[c] = labels[d] => c = d
  BY <1>2 DEF IsEnumeration
<1>5. \A i \in 1..n : \E c \in 1..m : labels[c] = ranked[i].label
  BY <1>2 DEF IsEnumeration
<1>6. \A s \in Splits : parts[s] = FlattenSeq(pieces(s))
  BY DEF split_dataset, LabelRows, labels
<1> HIDE DEF parts, m, L
<1>7. ASSUME NEW c \in 1..m
      PROVE  /\ group(c) \in Seq(S) /\ \A k \in 1..Len(group(c)) : group(c)[k].label = labels[c]
             /\ \A k \in 1..Len(group(c)) : \E i \in 1..n : group(c)[k] = ranked[i]
             /\ \A i \in 1..n : ranked[i].label = labels[c] => \E k \in 1..Len(group(c)) : group(c)[k] = ranked[i]
             /\ \A j, k \in 1..Len(group(c)) : group(c)[j] = group(c)[k] => j = k
  BY GroupHolds
<1>8. \A i \in 1..n : \A c \in 1..m : labels[c] = ranked[i].label => group(c) = LabelRows(ranked, ranked[i].label)
  OBVIOUS
<1> HIDE DEF group
<1>9. ASSUME NEW c \in 1..m
      PROVE  /\ \A s \in Splits : cut(c)[s] \in Seq(S)
             /\ \A s \in Splits : \A j \in 1..Len(cut(c)[s]) : \E k \in 1..Len(group(c)) : cut(c)[s][j] = group(c)[k]
             /\ \A k \in 1..Len(group(c)) : \E s \in Splits : \E j \in 1..Len(cut(c)[s]) : cut(c)[s][j] = group(c)[k]
             /\ \A s, t \in Splits : \A j \in 1..Len(cut(c)[s]), k \in 1..Len(cut(c)[t]) :
                   cut(c)[s][j] = cut(c)[t][k] => s = t /\ j = k
             /\ Len(group(c)) >= 1 => Len(cut(c)["train"]) >= 1
             /\ Len(group(c)) >= 2 => Len(cut(c)["test"]) >= 1
             /\ Len(group(c)) >= 3 => Len(cut(c)["validation"]) >= 1
  <2> DEFINE rows == group(c)
  <2>1. rows \in Seq(S) /\ \A i, k \in 1..Len(rows) : rows[i] = rows[k] => i = k
    BY <1>7
  <2> HIDE DEF rows
  <2> QED
    BY <2>1, GroupCut DEF rows
<1> HIDE DEF cut
<1>10. ASSUME NEW s \in Splits
       PROVE  /\ pieces(s) \in Seq(Seq(S)) /\ Len(pieces(s)) = m
              /\ \A c \in 1..m : pieces(s)[c] = cut(c)[s]
  BY <1>3, <1>9
<1> DEFINE Traced(s, q) ==
             /\ \A k \in 1..Len(parts[s]) :
                   /\ q[k][1] \in 1..m /\ q[k][2] \in 1..Len(cut(q[k][1])[s])
                   /\ parts[s][k] = cut(q[k][1])[s][q[k][2]]
             /\ \A k, l \in 1..Len(parts[s]) : q[k][1] = q[l][1] /\ q[k][2] = q[l][2] => k = l
             /\ \A c \in 1..m : \A j \in 1..Len(cut(c)[s]) :
                   \E k \in 1..Len(parts[s]) : q[k][1] = c /\ q[k][2] = j
<1>11. ASSUME NEW s \in Splits
       PROVE  parts[s] \in Seq(S) /\ \E q : Traced(s, q)
  <2> DEFINE ps == pieces(s)
             F == parts[s]
  <2>1. ps \in Seq(Seq(S)) /\ Len(ps) = m /\ (\A c \in 1..m : ps[c] = cut(c)[s]) /\ F = FlattenSeq(ps)
    BY <1>6, <1>10
  <2> HIDE DEF ps, F
  <2>2. F \in Seq(S)
    BY <2>1, Joined
  <2>3. PICK q : Spread(F, ps, m, q)
    BY <2>1, Joined
  <2>4. \A k \in 1..Len(F) : q[k] \in (1..m) \X Nat /\ q[k] = <<q[k][1], q[k][2]>> /\ q[k][1] \in 1..m
    <3>1. \A k \in 1..Len(F) : q[k] \in (1..m) \X Nat
      BY <2>3 DEF Spread
    <3>2. \A z \in (1..m) \X Nat : z = <<z[1], z[2]>> /\ z[1] \in 1..m
      OBVIOUS
    <3> QED
      BY <3>1, <3>2
  <2>5. \A k \in 1..Len(F) : q[k][2] \in 1..Len(cut(q[k][1])[s]) /\ F[k] = cut(q[k][1])[s][q[k][2]]
    <3>1. \A k \in 1..Len(F) : q[k][2] \in 1..Len(ps[q[k][1]]) /\ F[k] = ps[q[k][1]][q[k][2]]
      BY <2>3 DEF Spread
    <3>2. \A k \in 1..Len(F) : ps[q[k][1]] = cut(q[k][1])[s]
      BY <2>1, <2>4
    <3> HIDE DEF cut
    <3> QED
      BY <3>1, <3>2
  <2>6. \A k, l \in 1..Len(F) : q[k][1] = q[l][1] /\ q[k][2] = q[l][2] => k = l
    <3> SUFFICES ASSUME NEW k \in 1..Len(F), NEW l \in 1..Len(F), q[k][1] = q[l][1], q[k][2] = q[l][2]
                 PROVE  k = l
      OBVIOUS
    <3>1. q[k] = <<q[k][1], q[k][2]>> /\ q[l] = <<q[l][1], q[l][2]>>
      BY <2>4
    <3>2. q[k] = q[l]
      BY <3>1
    <3>3. \A x, y \in 1..Len(F) : q[x] = q[y] => x = y
      BY <2>3 DEF Spread
    <3> QED
      BY <3>2, <3>3
  <2>7. ASSUME NEW c \in 1..m, NEW j \in 1..Len(cut(c)[s]) PROVE \E k \in 1..Len(F) : q[k][1] = c /\ q[k][2] = j
    <3>1. PICK k \in 1..Len(F) : q[k] = <<c, j>>
      BY <2>1, <2>3 DEF Spread
    <3>2. q[k][1] = c /\ q[k][2] = j
      BY <3>1
    <3> QED
      BY <3>2
  <2>8. Traced(s, q)
    BY <2>4, <2>5, <2>6, <2>7 DEF F
  <2> HIDE DEF Traced
  <2> QED
    BY <2>2, <2>8 DEF F
<1> HIDE DEF Traced
<1>12. ASSUME NEW s \in Splits, NEW c \in 1..m, NEW j \in 1..Len(cut(c)[s])
       PROVE  /\ \E k \in 1..Len(parts[s]) : parts[s][k] = cut(c)[s][j]
              /\ cut(c)[s][j].label = labels[c]
              /\ \E i \in 1..n : cut(c)[s][j] = ranked[i]
  <2>1. PICK q : Traced(s, q)
    BY <1>11
  <2>2. PICK k \in 1..Len(parts[s]) : q[k][1] = c /\ q[k][2] = j
    BY <2>1 DEF Traced
  <2>4. parts[s][k] = cut(c)[s][j]
    BY <2>1, <2>2 DEF Traced
  <2>5. PICK g \in 1..Len(group(c)) : cut(c)[s][j] = group(c)[g]
    BY <1>9
  <2> QED
    BY <1>7, <2>4, <2>5
<1>13. ASSUME NEW s \in Splits, NEW k \in 1..Len(parts[s])
       PROVE  \E c \in 1..m : \E j \in 1..Len(cut(c)[s]) : parts[s][k] = cut(c)[s][j]
  <2>1. PICK q : Traced(s, q)
    BY <1>11
  <2> DEFINE c == q[k][1]
             j == q[k][2]
  <2>2. c \in 1..m /\ j \in 1..Len(cut(c)[s]) /\ parts[s][k] = cut(c)[s][j]
    BY <2>1 DEF Traced
  <2> HIDE DEF c, j
  <2> QED
    BY <2>2
<1>14. ASSUME NEW s \in Splits, NEW k \in 1..Len(parts[s]) PROVE \E i \in 1..n : parts[s][k] = ranked[i]
  <2>1. PICK c \in 1..m : \E j \in 1..Len(cut(c)[s]) : parts[s][k] = cut(c)[s][j]
    BY <1>13
  <2> QED
    BY <1>12, <2>1
<1>15. ASSUME NEW i \in 1..n PROVE \E s \in Splits : \E k \in 1..Len(parts[s]) : parts[s][k] = ranked[i]
  <2>1. PICK c \in 1..m : labels[c] = ranked[i].label
    BY <1>5
  <2>2. PICK g \in 1..Len(group(c)) : group(c)[g] = ranked[i]
    BY <1>7, <2>1
  <2>3. PICK s \in Splits : \E j \in 1..Len(cut(c)[s]) : cut(c)[s][j] = group(c)[g]
    BY <1>9
  <2>4. PICK j \in 1..Len(cut(c)[s]) : cut(c)[s][j] = ranked[i]
    BY <2>2, <2>3
  <2>5. \E k \in 1..Len(parts[s]) : parts[s][k] = cut(c)[s][j]
    BY <1>12
  <2> QED
    BY <2>4, <2>5
<1>16. ASSUME NEW s \in Splits, NEW t \in Splits, NEW j \in 1..Len(parts[s]), NEW k \in 1..Len(parts[t]),
              parts[s][j] = parts[t][k]
       PROVE  s = t /\ j = k
  <2>1. PICK q : Traced(s, q)
    BY <1>11
  <2>2. PICK r : Traced(t, r) /\ (s = t => r = q)
    <3>1. CASE s = t
      BY <2>1, <3>1
    <3>2. CASE s # t
      BY <1>11, <3>2
    <3> QED
      BY <3>1, <3>2
  <2> DEFINE c == q[j][1]
             d == r[k][1]
             x == q[j][2]
             y == r[k][2]
  <2>3. /\ c \in 1..m /\ x \in 1..Len(cut(c)[s]) /\ parts[s][j] = cut(c)[s][x]
        /\ d \in 1..m /\ y \in 1..Len(cut(d)[t]) /\ parts[t][k] = cut(d)[t][y]
    BY <2>1, <2>2 DEF Traced
  <2> HIDE DEF c, d, x, y
  <2>4. labels[c] = labels[d]
    <3>1. cut(c)[s][x].label = labels[c]
      BY <1>12, <2>3
    <3>2. cut(d)[t][y].label = labels[d]
      BY <1>12, <2>3
    <3> QED
      BY <1>16, <2>3, <3>1, <3>2
  <2>5. c = d
    BY <1>4, <2>3, <2>4
  <2>6. s = t /\ x = y
    <3>1. x \in 1..Len(cut(c)[s]) /\ y \in 1..Len(cut(c)[t]) /\ cut(c)[s][x] = cut(c)[t][y]
      BY <1>16, <2>3, <2>5
    <3> QED
      BY <1>9, <2>3, <3>1
  <2>7. s = t /\ q[j][1] = q[k][1] /\ q[j][2] = q[k][2] /\ k \in 1..Len(parts[s])
    BY <2>2, <2>5, <2>6 DEF c, d, x, y
  <2> QED
    BY <2>1, <2>7 DEF Traced
<1>17. ASSUME NEW i \in 1..n
       PROVE  LET l == ranked[i].label IN
                /\ \E k \in 1..Len(parts["train"]) : parts["train"][k].label = l
                /\ Len(LabelRows(ranked, l)) >= 2 => \E k \in 1..Len(parts["test"]) : parts["test"][k].label = l
                /\ Len(LabelRows(ranked, l)) >= 3 => \E k \in 1..Len(parts["validation"]) : parts["validation"][k].label = l
  <2>1. PICK c \in 1..m : labels[c] = ranked[i].label
    BY <1>5
  <2>2. PICK g \in 1..Len(group(c)) : group(c)[g] = ranked[i]
    BY <1>7, <2>1
  <2>3. Len(group(c)) \in Nat /\ Len(group(c)) >= 1
    BY <1>7
  <2>4. group(c) = LabelRows(ranked, ranked[i].label)
    BY <1>8, <2>1
  <2>5. ASSUME NEW s \in Splits, Len(cut(c)[s]) >= 1
        PROVE  \E k \in 1..Len(parts[s]) : parts[s][k].label = ranked[i].label
    <3>1. 1 \in 1..Len(cut(c)[s])
      BY <1>9, <2>5
    <3>2. PICK k \in 1..Len(parts[s]) : parts[s][k] = cut(c)[s][1]
      BY <1>12, <3>1
    <3>3. cut(c)[s][1].label = labels[c]
      BY <1>12, <3>1
    <3> QED
      BY <2>1, <3>2, <3>3
  <2>6. "train" \in Splits /\ "validation" \in Splits /\ "test" \in Splits
    BY DEF Splits
  <2> QED
    BY <1>9, <2>3, <2>4, <2>5, <2>6
<1>18. \A s \in Splits : parts[s] \in Seq(S)
  BY <1>11
<1> HIDE DEF n
<1> QED
  BY <1>14, <1>15, <1>16, <1>17, <1>18 DEF parts, n

LEMMA SequenceSet ==
    ASSUME NEW S, NEW f \in Seq(S)
    PROVE  /\ ToSet(f) = {f[i] : i \in 1..Len(f)} /\ ToSet(f) \subseteq S /\ IsFiniteSet(ToSet(f))
           /\ (\A i, j \in 1..Len(f) : f[i] = f[j] => i = j) => Cardinality(ToSet(f)) = Len(f)
<1>1. /\ Len(f) \in Nat /\ f = [i \in 1..Len(f) |-> f[i]] /\ DOMAIN f = 1..Len(f)
      /\ \A i \in 1..Len(f) : f[i] \in S
  OBVIOUS
<1>2. ToSet(f) = {f[i] : i \in 1..Len(f)}
  BY <1>1 DEF ToSet
<1>3. ToSet(f) \subseteq S
  BY <1>1, <1>2
<1> DEFINE n == Len(f)
<1>4. n \in Nat /\ f = [i \in 1..n |-> f[i]] /\ ToSet(f) = {f[i] : i \in 1..n}
  BY <1>1, <1>2
<1> HIDE DEF n
<1>5. IsFiniteSet({f[i] : i \in 1..n})
  BY <1>4, ImageFinite
<1>6. ASSUME \A i, j \in 1..n : f[i] = f[j] => i = j PROVE Cardinality({f[i] : i \in 1..n}) = n
  <2> DEFINE T == {f[i] : i \in 1..n}
  <2>1. f \in [1..n -> T]
    BY <1>4
  <2>2. f \in Injection(1..n, T)
    BY <1>6, <2>1 DEF Injection, IsInjective
  <2> QED
    BY <1>4, <2>2, ImageCounted
<1> QED
  BY <1>2, <1>3, <1>4, <1>5, <1>6 DEF n

(* The splits are those of some ranking of the rows.                        *)
SplitSomehow ==
    splits # <<>> => \E ranked \in SetToSeqs(ToSet(source.rows)) : splits = split_dataset(ranked)

LEMMA SplitWell ==
    ASSUME NEW R, source.rows \in Seq(R), NEW ranked \in SetToSeqs(ToSet(source.rows)), splits = split_dataset(ranked)
    PROVE  SplitSound /\ \A s \in Splits : splits[s] \in Seq(R)
<1> DEFINE S == ToSet(source.rows)
           n == Len(ranked)
           Rows(s) == ToSet(splits[s])
           Labelled(rows, l) == {row \in rows : row.label = l}
<1>1. IsFiniteSet(S) /\ S \subseteq R /\ S = {source.rows[i] : i \in 1..Len(source.rows)}
  BY SequenceSet
<1>2. ranked \in [1..Cardinality(S) -> S] /\ \A i, j \in 1..Cardinality(S) : ranked[i] = ranked[j] => i = j
  BY DEF SetToSeqs
<1> HIDE DEF S
<1>3. /\ ranked \in Seq(S) /\ (\A i, k \in 1..n : ranked[i] = ranked[k] => i = k)
      /\ \A x \in S : \E i \in 1..n : ranked[i] = x
  <2>1. IsEnumeration(ranked, S)
    BY <1>1, <1>2, InjectionEnumerates
  <2> QED
    BY <2>1 DEF IsEnumeration
<1> DEFINE Whole(parts) ==
             \A i \in 1..n : \E s \in Splits : \E k \in 1..Len(parts[s]) : parts[s][k] = ranked[i]
           Apart(parts) ==
             \A s, t \in Splits : \A j \in 1..Len(parts[s]), k \in 1..Len(parts[t]) :
                parts[s][j] = parts[t][k] => s = t /\ j = k
           Tested(parts) ==
             \A i \in 1..n :
                LET l == ranked[i].label IN
                   /\ \E k \in 1..Len(parts["train"]) : parts["train"][k].label = l
                   /\ Len(LabelRows(ranked, l)) >= 2 => \E k \in 1..Len(parts["test"]) : parts["test"][k].label = l
                   /\ Len(LabelRows(ranked, l)) >= 3 =>
                         \E k \in 1..Len(parts["validation"]) : parts["validation"][k].label = l
<1>4. (\A s \in Splits : splits[s] \in Seq(S)) /\ Whole(splits) /\ Apart(splits) /\ Tested(splits)
  <2> DEFINE parts == split_dataset(ranked)
  <2>1. \A s \in Splits : parts[s] \in Seq(S)
    BY <1>3, SplitHolds
  <2>2. Whole(parts)
    BY <1>3, SplitHolds
  <2>3. Apart(parts)
    BY <1>3, SplitHolds
  <2>4. Tested(parts)
    BY <1>3, SplitHolds
  <2> HIDE DEF Whole, Apart, Tested
  <2> QED
    BY <2>1, <2>2, <2>3, <2>4
<1> HIDE DEF Tested, Apart
<1> HIDE DEF n
<1>5. ASSUME NEW s \in Splits
      PROVE  Rows(s) = {splits[s][k] : k \in 1..Len(splits[s])} /\ Rows(s) \subseteq S /\ Len(splits[s]) = Cardinality(Rows(s))
  <2> DEFINE f == splits[s]
  <2>1. f \in Seq(S) /\ \A i, j \in 1..Len(f) : f[i] = f[j] => i = j
    BY <1>4 DEF Apart
  <2> HIDE DEF f
  <2>2. ToSet(f) = {f[k] : k \in 1..Len(f)} /\ ToSet(f) \subseteq S /\ Cardinality(ToSet(f)) = Len(f)
    BY <2>1, SequenceSet
  <2> QED
    BY <2>2 DEF f
<1>6. ASSUME NEW s \in Splits, NEW x \in Rows(s) PROVE \E k \in 1..Len(splits[s]) : splits[s][k] = x
  <2>1. x \in {splits[s][k] : k \in 1..Len(splits[s])}
    BY <1>5
  <2> QED
    BY <2>1
<1>7. UNION {Rows(s) : s \in Splits} = S
  <2>1. ASSUME NEW x \in S PROVE \E s \in Splits : x \in Rows(s)
    <3>1. PICK i \in 1..n : ranked[i] = x
      BY <1>3
    <3>2. PICK s \in Splits : \E k \in 1..Len(splits[s]) : splits[s][k] = x
      BY <1>4, <3>1
    <3> QED
      BY <1>5, <3>2
  <2> HIDE DEF Rows
  <2> QED
    BY <1>5, <2>1
<1>8. ASSUME NEW s \in Splits, NEW t \in Splits, s # t PROVE Rows(s) \cap Rows(t) = {}
  <2> SUFFICES ASSUME NEW x \in Rows(s), x \in Rows(t) PROVE FALSE
    OBVIOUS
  <2>1. PICK j \in 1..Len(splits[s]) : splits[s][j] = x
    BY <1>6
  <2>2. PICK k \in 1..Len(splits[t]) : splits[t][k] = x
    BY <1>6
  <2> QED
    BY <1>4, <1>8, <2>1, <2>2 DEF Apart
<1>9. ASSUME NEW s \in Splits, NEW l, \E k \in 1..Len(splits[s]) : splits[s][k].label = l
      PROVE  Labelled(Rows(s), l) # {}
  <2>1. PICK k \in 1..Len(splits[s]) : splits[s][k].label = l
    BY <1>9
  <2>2. splits[s][k] \in Rows(s)
    BY <1>5
  <2> HIDE DEF Rows
  <2> QED
    BY <2>1, <2>2
<1>10. ASSUME NEW l PROVE Cardinality(Labelled(S, l)) = Len(LabelRows(ranked, l))
  <2> DEFINE g == LabelRows(ranked, l)
             T == Labelled(S, l)
  <2>1. /\ g \in Seq(S) /\ (\A k \in 1..Len(g) : g[k].label = l)
        /\ (\A i \in 1..n : ranked[i].label = l => \E k \in 1..Len(g) : g[k] = ranked[i])
        /\ \A j, k \in 1..Len(g) : g[j] = g[k] => j = k
    <3>1. ranked \in Seq(S) /\ \A i, k \in 1..Len(ranked) : ranked[i] = ranked[k] => i = k
      BY <1>3 DEF n
    <3> HIDE DEF S
    <3>2. /\ g \in Seq(S) /\ (\A k \in 1..Len(g) : g[k].label = l)
          /\ (\A i \in 1..Len(ranked) : ranked[i].label = l => \E k \in 1..Len(g) : g[k] = ranked[i])
          /\ \A j, k \in 1..Len(g) : g[j] = g[k] => j = k
      BY <3>1, GroupHolds
    <3> HIDE DEF g
    <3> QED
      BY <3>2 DEF n
  <2> HIDE DEF g
  <2>2. ToSet(g) = {g[k] : k \in 1..Len(g)} /\ Cardinality(ToSet(g)) = Len(g) /\ ToSet(g) \subseteq S
    BY <2>1, SequenceSet
  <2>3. ToSet(g) \subseteq T
    BY <2>1, <2>2
  <2>4. ASSUME NEW x \in T PROVE x \in ToSet(g)
    <3>1. PICK i \in 1..n : ranked[i] = x
      BY <1>3
    <3>2. \E k \in 1..Len(g) : g[k] = x
      BY <2>1, <3>1
    <3> QED
      BY <2>2, <3>2
  <2>5. ToSet(g) = T
    BY <2>3, <2>4
  <2> QED
    BY <2>2, <2>5 DEF g
<1>11. ASSUME NEW l \in LabelsOf(source.rows)
       PROVE  /\ Labelled(Rows("train"), l) # {}
              /\ Cardinality(Labelled(S, l)) >= 2 => Labelled(Rows("test"), l) # {}
              /\ Cardinality(Labelled(S, l)) >= 3 => Labelled(Rows("validation"), l) # {}
  <2>1. PICK j \in 1..Len(source.rows) : source.rows[j].label = l
    BY DEF LabelsOf
  <2>2. PICK i \in 1..n : ranked[i] = source.rows[j]
    BY <1>1, <1>3
  <2>3. /\ \E k \in 1..Len(splits["train"]) : splits["train"][k].label = l
        /\ Len(LabelRows(ranked, l)) >= 2 => \E k \in 1..Len(splits["test"]) : splits["test"][k].label = l
        /\ Len(LabelRows(ranked, l)) >= 3 => \E k \in 1..Len(splits["validation"]) : splits["validation"][k].label = l
    <3>1. LET d == ranked[i].label IN
             /\ \E k \in 1..Len(splits["train"]) : splits["train"][k].label = d
             /\ Len(LabelRows(ranked, d)) >= 2 => \E k \in 1..Len(splits["test"]) : splits["test"][k].label = d
             /\ Len(LabelRows(ranked, d)) >= 3 =>
                   \E k \in 1..Len(splits["validation"]) : splits["validation"][k].label = d
      BY <1>4 DEF Tested
    <3>2. ranked[i].label = l
      BY <2>1, <2>2
    <3> QED
      BY <3>1, <3>2
  <2>4. "train" \in Splits /\ "validation" \in Splits /\ "test" \in Splits
    BY DEF Splits
  <2> HIDE DEF Rows, Labelled
  <2> QED
    BY <1>9, <1>10, <2>3, <2>4
<1>12. \A s \in Splits : splits[s] \in Seq(R)
  BY <1>1, <1>4, SeqMonotonic
<1>13. SplitSound
  BY <1>5, <1>7, <1>8, <1>11 DEF SplitSound, S
<1> QED
  BY <1>12, <1>13

LEMMA SplitStep == SplitSomehow /\ [OfflineNext]_offlineVars => SplitSomehow'
BY DEF SplitSomehow, OfflineNext, SplitDataset, Train, OpenDataset, EvaluateBloom, Deploy, DeploySeeds, EvaluateRow,
   Report, offlineVars

LEMMA SourceStep == source \in Sources /\ [OfflineNext]_offlineVars => (source \in Sources)'
BY DEF OfflineNext, SplitDataset, Train, OpenDataset, EvaluateBloom, Deploy, DeploySeeds, EvaluateRow, Report, offlineVars

(* "leakage-resistant": whatever the rows, the labels and the ranking, no   *)
(* row is lost or in two splits, and every label is tested that can be      *)
(* (prepare_dataset_stages.py:44-138).                                      *)
THEOREM NoLeakage == OfflineSpec => []SplitSound
<1>1. OfflineInit => SplitSomehow /\ source \in Sources
  BY DEF OfflineInit, SplitSomehow
<1>2. SplitSomehow /\ source \in Sources => SplitSound
  <2> SUFFICES ASSUME SplitSomehow, source \in Sources, splits # <<>> PROVE SplitSound
    BY DEF SplitSound
  <2>1. PICK ranked \in SetToSeqs(ToSet(source.rows)) : splits = split_dataset(ranked)
    BY DEF SplitSomehow
  <2>2. source.rows \in Seq(RowsFor(source.engine))
    BY OfflineAssumption
  <2> QED
    BY <2>1, <2>2, SplitWell
<1> QED
  BY <1>1, <1>2, SplitStep, SourceStep, PTL DEF OfflineSpec

--------------------------------------------------------------------------------
(* The verdicts and truths written down so far                              *)
WrittenDown ==
    /\ source \in Sources
    /\ y_true \in Seq(ToSet(y_true)) /\ y_pred \in Seq(ToSet(y_pred)) /\ Len(y_true) = Len(y_pred)
    /\ stage \notin {"evaluating", "reported"} => y_pred = <<>>

(* What the clustering engine has called novel since the traffic last       *)
(* changed is novel to it still.                                            *)
StillNovel ==
    source.engine = "kmeans" =>
        \A i \in 1..Len(y_pred) :
            /\ y_pred[i] = "Anomaly"
            /\ \A n \in i..Len(y_pred) : examined[n].pps = examined[i].pps
            => Novel(deployed, examined[i].pps)

LEMMA OneMore ==
    ASSUME NEW s, s \in Seq(ToSet(s)), NEW e
    PROVE  /\ Append(s, e) \in Seq(ToSet(Append(s, e))) /\ Len(Append(s, e)) = Len(s) + 1
           /\ Append(s, e)[Len(s) + 1] = e /\ \A i \in 1..Len(s) : Append(s, e)[i] = s[i]
<1> DEFINE t == Append(s, e)
           T == ToSet(s) \cup {e}
<1>1. s \in Seq(T) /\ e \in T
  BY SeqMonotonic
<1>2. /\ t \in Seq(T) /\ Len(t) = Len(s) + 1 /\ t[Len(s) + 1] = e
      /\ \A i \in 1..Len(s) : t[i] = s[i]
  BY <1>1, AppendProperties
<1> HIDE DEF t, T
<1>3. DOMAIN t = 1..Len(t) /\ Len(t) \in Nat /\ t = [i \in 1..Len(t) |-> t[i]]
  BY <1>2
<1>4. \A i \in 1..Len(t) : t[i] \in ToSet(t)
  BY <1>3 DEF ToSet
<1>5. t \in Seq(ToSet(t))
  BY <1>3, <1>4
<1> QED
  BY <1>2, <1>5 DEF t

LEMMA Tabulated ==
    ASSUME NEW n \in Nat, NEW f, f = [i \in 1..n |-> f[i]]
    PROVE  f \in Seq(ToSet(f)) /\ Len(f) = n
<1>1. DOMAIN f = 1..n
  OBVIOUS
<1>2. \A i \in 1..n : f[i] \in ToSet(f)
  BY <1>1 DEF ToSet
<1>3. f \in [1..n -> ToSet(f)]
  BY <1>2
<1> QED
  BY <1>3

LEMMA FilesTyped ==
    ASSUME source \in Sources, SplitSomehow, NEW file \in Files
    PROVE  file \in Seq(RowsFor(source.engine))
<1>1. source.rows \in Seq(RowsFor(source.engine))
  BY OfflineAssumption
<1>2. CASE file = source.rows
  BY <1>1, <1>2
<1>3. CASE splits # <<>> /\ \E s \in Splits : file = splits[s]
  <2>1. PICK ranked \in SetToSeqs(ToSet(source.rows)) : splits = split_dataset(ranked)
    BY <1>3 DEF SplitSomehow
  <2>2. \A s \in Splits : splits[s] \in Seq(RowsFor(source.engine))
    BY <1>1, <2>1, SplitWell
  <2> QED
    BY <1>3, <2>2
<1> QED
  BY <1>2, <1>3 DEF Files

(* What evaluate_bloom loads and what it looks up                           *)
Listed(file) == Kept(file, LAMBDA row : row.label \in {"Malicious", "Attack", "Blacklisted"})

HalfOf(listed) == SubSeq(listed, 1, IF Len(listed) <= 1 THEN Len(listed) ELSE Len(listed) \div 2)

Others(file) == Kept(file, LAMBDA row : \A i \in 1..Len(Listed(file)) : Listed(file)[i].ip # row.ip)

LEMMA LookedUp ==
    ASSUME NEW S, NEW file \in Seq(S)
    PROVE  LET loaded == HalfOf(Listed(file))
               asked == loaded \o Others(file)
           IN /\ loaded \in Seq(S) /\ asked \in Seq(S) /\ Len(loaded) <= Len(asked)
              /\ \A i \in 1..Len(loaded) : asked[i] = loaded[i]
<1> DEFINE listed == Listed(file)
           half == IF Len(listed) <= 1 THEN Len(listed) ELSE Len(listed) \div 2
           loaded == HalfOf(listed)
           others == Others(file)
<1>1. listed \in Seq(S) /\ others \in Seq(S)
  BY RowsPicked DEF Kept, Listed, Others
<1>2. loaded = SubSeq(listed, 1, half)
  BY DEF HalfOf
<1> HIDE DEF listed, others
<1>3. Len(listed) \in Nat /\ half \in Nat /\ half <= Len(listed) /\ \A i \in 1..Len(listed) : listed[i] \in S
  BY <1>1
<1> HIDE DEF half
<1>4. SubSeq(listed, 1, half) \in Seq(S)
  <2>1. \A i \in 1..half : listed[i] \in S
    BY <1>3
  <2> QED
    BY <1>3, <2>1, SubSeqProperties
<1>5. loaded \in Seq(S)
  BY <1>2, <1>4
<1> HIDE DEF loaded
<1>6. /\ loaded \o others \in Seq(S) /\ Len(loaded \o others) = Len(loaded) + Len(others)
      /\ \A i \in 1..Len(loaded) + Len(others) : (loaded \o others)[i] = IF i <= Len(loaded) THEN loaded[i] ELSE others[i - Len(loaded)]
      /\ Len(loaded) \in Nat /\ Len(others) \in Nat
  BY <1>1, <1>5, ConcatProperties
<1> QED
  BY <1>5, <1>6 DEF loaded, listed, others

LEMMA BloomSteps ==
    ASSUME source \in Sources, SplitSomehow, NEW file \in Files, EvaluateBloom(file)
    PROVE  LET loaded == HalfOf(Listed(file))
               asked == loaded \o Others(file)
           IN /\ Len(asked) \in Nat /\ source.engine = "bloom" /\ source' = source /\ stage' = "reported"
              /\ y_true' \in Seq(ToSet(y_true')) /\ Len(y_true') = Len(asked)
              /\ y_pred' \in Seq(ToSet(y_pred')) /\ Len(y_pred') = Len(asked)
              /\ \A i \in 1..Len(asked) :
                    /\ y_true'[i] = "Blacklisted" => i <= Len(loaded)
                    /\ Check(FilterOf(loaded), asked[i].ip) => y_pred'[i] = "Blacklisted"
<1> DEFINE loaded == HalfOf(Listed(file))
           asked == loaded \o Others(file)
<1>1. /\ y_true' = [i \in 1..Len(asked) |-> IF i <= Len(loaded) THEN "Blacklisted" ELSE "Unknown"]
      /\ y_pred' = [i \in 1..Len(asked) |-> IF Check(FilterOf(loaded), asked[i].ip) THEN "Blacklisted" ELSE "Unknown"]
      /\ source.engine = "bloom" /\ source' = source /\ stage' = "reported"
  BY DEF EvaluateBloom, HalfOf, Listed, Others
<1>2. Len(asked) \in Nat
  BY FilesTyped, LookedUp
<1> HIDE DEF loaded, asked
<1>3. y_true' = [i \in 1..Len(asked) |-> y_true'[i]] /\ y_pred' = [i \in 1..Len(asked) |-> y_pred'[i]]
  BY <1>1
<1>4. y_true' \in Seq(ToSet(y_true')) /\ Len(y_true') = Len(asked)
  BY <1>2, <1>3, Tabulated
<1>5. y_pred' \in Seq(ToSet(y_pred')) /\ Len(y_pred') = Len(asked)
  BY <1>2, <1>3, Tabulated
<1>6. \A i \in 1..Len(asked) :
         /\ y_true'[i] = "Blacklisted" => i <= Len(loaded)
         /\ Check(FilterOf(loaded), asked[i].ip) => y_pred'[i] = "Blacklisted"
  BY <1>1
<1> QED
  BY <1>1, <1>2, <1>4, <1>5, <1>6 DEF loaded, asked

LEMMA EvaluationStart == OfflineInit => WrittenDown /\ SplitSomehow /\ FloodStaysNovel /\ StillNovel
<1>1. ASSUME OfflineInit
      PROVE  source \in Sources /\ y_true = <<>> /\ y_pred = <<>> /\ splits = <<>>
  BY <1>1 DEF OfflineInit
<1>2. <<>> \in Seq(ToSet(<<>>)) /\ Len(<<>>) = 0
  BY EmptySeq
<1> QED
  BY <1>1, <1>2 DEF WrittenDown, SplitSomehow, FloodStaysNovel, StillNovel

LEMMA WrittenStep == WrittenDown /\ SplitSomehow /\ [OfflineNext]_offlineVars => WrittenDown'
<1> SUFFICES ASSUME WrittenDown, SplitSomehow, [OfflineNext]_offlineVars PROVE WrittenDown'
  OBVIOUS
<1>1. source \in Sources /\ source' \in Sources
  BY SourceStep DEF WrittenDown
<1>2. CASE EvaluateRow
  <2>1. /\ stage = "evaluating" /\ stage' = stage /\ y_true' = Append(y_true, TruthOf(examined[Len(y_pred) + 1]))
        /\ \E verdict : y_pred' = Append(y_pred, verdict)
    BY <1>2 DEF EvaluateRow
  <2>2. PICK verdict : y_pred' = Append(y_pred, verdict)
    BY <2>1
  <2>3. y_true' \in Seq(ToSet(y_true')) /\ Len(y_true') = Len(y_true) + 1
    BY <2>1, OneMore DEF WrittenDown
  <2>4. y_pred' \in Seq(ToSet(y_pred')) /\ Len(y_pred') = Len(y_pred) + 1
    BY <2>2, OneMore DEF WrittenDown
  <2> QED
    BY <1>1, <2>1, <2>3, <2>4 DEF WrittenDown
<1>3. CASE \E file \in Files : EvaluateBloom(file)
  <2>1. PICK file \in Files : EvaluateBloom(file)
    BY <1>3
  <2> QED
    BY <1>1, <2>1, BloomSteps DEF WrittenDown
<1>4. CASE \/ SplitDataset \/ Deploy \/ DeploySeeds \/ Report \/ UNCHANGED offlineVars
           \/ \E file \in Files : Train(file) \/ OpenDataset(file)
  <2>1. UNCHANGED <<y_true, y_pred>> /\ (stage' \in {"evaluating", "reported"} \/ stage' = stage \/ stage \notin {"evaluating", "reported"})
    BY <1>4 DEF SplitDataset, Deploy, DeploySeeds, Report, Train, OpenDataset, offlineVars, evaluationVars
  <2> QED
    BY <1>1, <2>1 DEF WrittenDown
<1> QED
  BY <1>2, <1>3, <1>4 DEF OfflineNext

LEMMA NovelStep ==
    WrittenDown /\ FloodStaysNovel /\ StillNovel /\ [OfflineNext]_offlineVars => (FloodStaysNovel /\ StillNovel)'
<1> SUFFICES ASSUME WrittenDown, FloodStaysNovel, StillNovel, [OfflineNext]_offlineVars, source'.engine = "kmeans"
             PROVE  (FloodStaysNovel /\ StillNovel)'
  BY DEF FloodStaysNovel, StillNovel
<1>1. source' = source
  BY DEF OfflineNext, SplitDataset, Train, OpenDataset, EvaluateBloom, Deploy, DeploySeeds, EvaluateRow, Report, offlineVars
<1>2. Len(y_pred) \in Nat
  BY DEF WrittenDown
<1>3. CASE EvaluateRow
  <2> DEFINE n == Len(y_pred)
             row == examined[n + 1]
  <2>1. PICK verdict \in Verdicts(deployed, row) : y_pred' = Append(y_pred, verdict)
    BY <1>3 DEF EvaluateRow
  <2>2. deployed' = analyse_kmeans(deployed, row.pps) /\ examined' = examined
    BY <1>1, <1>3 DEF EvaluateRow
  <2>3. verdict = IF Novel(deployed, row.pps) THEN "Anomaly" ELSE "Normal"
    BY <1>1, <2>1 DEF Verdicts
  <2>4. Novel(deployed, row.pps) => deployed' = deployed
    BY <2>2 DEF analyse_kmeans
  <2>5. Len(y_pred') = n + 1 /\ y_pred'[n + 1] = verdict /\ \A i \in 1..n : y_pred'[i] = y_pred[i]
    BY <2>1, OneMore DEF WrittenDown
  <2>6. ASSUME NEW i \in 1..n, y_pred[i] = "Anomaly", \A k \in i..n : examined[k].pps = examined[i].pps
        PROVE  Novel(deployed, examined[i].pps)
    BY <1>1, <2>6 DEF StillNovel
  <2>7. \A i, j \in 1..n : i < j /\ y_pred[i] = "Anomaly" /\ (\A k \in i..j : examined[k].pps = examined[i].pps)
                              => y_pred[j] = "Anomaly"
    BY <1>1 DEF FloodStaysNovel
  <2> HIDE DEF n
  <2>8. n \in Nat /\ (\A i \in 1..n + 1 : i \in 1..n \/ i = n + 1) /\ n + 1 \in 1..n + 1
    BY <1>2 DEF n
  <2>9. ASSUME NEW i \in 1..n, y_pred[i] = "Anomaly", \A k \in i..n + 1 : examined[k].pps = examined[i].pps
        PROVE  Novel(deployed, row.pps) /\ row.pps = examined[i].pps
    <3>1. n + 1 \in i..n + 1 /\ \A k \in i..n : k \in i..n + 1
      BY <2>8
    <3> QED
      BY <2>6, <2>9, <3>1
  <2> HIDE DEF row
  <2>10. ASSUME NEW i \in 1..n + 1, NEW j \in 1..n + 1, i < j, y_pred'[i] = "Anomaly",
                \A k \in i..j : examined[k].pps = examined[i].pps
         PROVE  y_pred'[j] = "Anomaly"
    <3>1. i \in 1..n /\ y_pred[i] = "Anomaly"
      BY <2>5, <2>8, <2>10
    <3>2. CASE j \in 1..n
      BY <2>5, <2>7, <2>10, <3>1, <3>2
    <3>3. CASE j = n + 1
      BY <2>3, <2>5, <2>9, <2>10, <3>1, <3>3
    <3> QED
      BY <2>8, <3>2, <3>3
  <2>11. ASSUME NEW i \in 1..n + 1, y_pred'[i] = "Anomaly", \A k \in i..n + 1 : examined[k].pps = examined[i].pps
         PROVE  Novel(deployed', examined[i].pps)
    <3>1. CASE i \in 1..n
      BY <2>4, <2>5, <2>9, <2>11, <3>1
    <3>2. CASE i = n + 1
      BY <2>3, <2>4, <2>5, <2>11, <3>2 DEF row
    <3> QED
      BY <2>8, <3>1, <3>2
  <2> QED
    BY <1>1, <2>2, <2>5, <2>10, <2>11 DEF FloodStaysNovel, StillNovel
<1>4. CASE Report \/ UNCHANGED offlineVars
  BY <1>4 DEF Report, offlineVars, evaluationVars, FloodStaysNovel, StillNovel
<1>5. CASE SplitDataset \/ Deploy \/ DeploySeeds \/ \E file \in Files : Train(file) \/ OpenDataset(file)
  <2>1. y_pred' = y_pred /\ stage \notin {"evaluating", "reported"}
    BY <1>5 DEF SplitDataset, Deploy, DeploySeeds, Train, OpenDataset, evaluationVars
  <2>2. Len(y_pred') = 0 /\ 1..0 = {}
    BY <2>1, EmptySeq DEF WrittenDown
  <2> QED
    BY <2>2 DEF FloodStaysNovel, StillNovel
<1>6. CASE \E file \in Files : EvaluateBloom(file)
  BY <1>1, <1>6 DEF EvaluateBloom
<1> QED
  BY <1>3, <1>4, <1>5, <1>6 DEF OfflineNext

(* "a sustained attack cannot drag a centroid onto itself and then declare  *)
(* the traffic normal", whatever the engine has learned, its parameters and *)
(* the rows (kmeans.py:83-132).                                             *)
THEOREM FloodNeverAbsorbed == OfflineSpec => []FloodStaysNovel
<1> QED
  BY EvaluationStart, WrittenStep, SplitStep, NovelStep, PTL DEF OfflineSpec

--------------------------------------------------------------------------------
(* The four cells of a confusion matrix                                     *)
Cells(cm) == cm.tp \in Nat /\ cm.fp \in Nat /\ cm.fn \in Nat /\ cm.tn \in Nat

LEMMA ConfusionCounts ==
    ASSUME NEW y_t, NEW y_p, NEW positive, Len(y_t) \in Nat
    PROVE  LET cm == confusion(y_t, y_p, positive) IN
           /\ Cells(cm)
           /\ (\A i \in 1..Len(y_t) : y_p[i] # positive) => cm.tp = 0 /\ cm.fp = 0
           /\ (\A i \in 1..Len(y_t) : y_p[i] = positive) => cm.fn = 0 /\ cm.tn = 0
           /\ (\A i \in 1..Len(y_t) : y_t[i] = positive => y_p[i] = positive) => cm.fn = 0
<1> DEFINE n == Len(y_t)
           Cell(isTrue, isPredicted) == {i \in 1..n : /\ (y_t[i] = positive) = isTrue
                                                      /\ (y_p[i] = positive) = isPredicted}
           cm == confusion(y_t, y_p, positive)
<1>1. ASSUME NEW x, NEW y PROVE Cardinality(Cell(x, y)) \in Nat
  <2>1. IsFiniteSet(1..n) /\ Cell(x, y) \subseteq 1..n
    BY FS_Interval
  <2> QED
    BY <2>1, FS_Subset, FS_CardinalityType
<1>2. /\ cm.tp = Cardinality(Cell(TRUE, TRUE)) /\ cm.fp = Cardinality(Cell(FALSE, TRUE))
      /\ cm.fn = Cardinality(Cell(TRUE, FALSE)) /\ cm.tn = Cardinality(Cell(FALSE, FALSE))
  BY DEF confusion
<1>3. (\A i \in 1..n : y_p[i] # positive) => Cell(TRUE, TRUE) = {} /\ Cell(FALSE, TRUE) = {}
  OBVIOUS
<1>4. (\A i \in 1..n : y_p[i] = positive) => Cell(TRUE, FALSE) = {} /\ Cell(FALSE, FALSE) = {}
  OBVIOUS
<1>5. (\A i \in 1..n : y_t[i] = positive => y_p[i] = positive) => Cell(TRUE, FALSE) = {}
  OBVIOUS
<1> HIDE DEF cm, Cell
<1>6. Cells(cm)
  BY <1>1, <1>2 DEF Cells
<1> QED
  BY <1>2, <1>3, <1>4, <1>5, <1>6, FS_EmptySet DEF cm

LEMMA Product ==
    ASSUME NEW a \in Nat, NEW b \in Nat
    PROVE  a * b \in Nat /\ (a > 0 /\ b > 0 <=> a * b > 0) /\ (a * b = 0 <=> a = 0 \/ b = 0)
OBVIOUS

LEMMA F1Of ==
    ASSUME NEW cm, Cells(cm)
    PROVE  /\ cm.tp = 0 => f1(cm) = <<0, 1>>
           /\ cm.tp > 0 => f1(cm) = <<2 * cm.tp * cm.tp, cm.tp * (cm.tp + cm.fn) + cm.tp * (cm.tp + cm.fp)>>
<1> DEFINE a == cm.tp
           b == cm.fp
           c == cm.fn
           pr == precision(cm)
           rc == recall(cm)
<1>1. a \in Nat /\ b \in Nat /\ c \in Nat
  BY DEF Cells
<1>2. pr = Ratio(a, a + b) /\ rc = Ratio(a, a + c) /\ f1(cm) = Ratio(2 * pr[1] * rc[1], pr[1] * rc[2] + rc[1] * pr[2])
  BY DEF precision, recall, f1
<1> HIDE DEF a, b, c, pr, rc
<1>3. CASE a = 0
  <2>1. pr[1] = 0 /\ rc[1] = 0 /\ pr[2] \in Nat /\ rc[2] \in Nat
    BY <1>1, <1>2, <1>3 DEF Ratio
  <2>2. pr[1] * rc[2] + rc[1] * pr[2] = 0
    BY <2>1
  <2> QED
    BY <1>2, <1>3, <2>2 DEF Ratio, a
<1>4. CASE a > 0
  <2>1. pr = <<a, a + b>> /\ rc = <<a, a + c>>
    BY <1>1, <1>2, <1>4 DEF Ratio
  <2>2. a * (a + c) \in Nat /\ a * (a + c) > 0 /\ a * (a + b) \in Nat
    BY <1>1, <1>4, Product
  <2>3. a * (a + c) + a * (a + b) # 0
    BY <2>2
  <2>4. f1(cm) = <<2 * a * a, a * (a + c) + a * (a + b)>>
    BY <1>2, <2>1, <2>3 DEF Ratio
  <2> QED
    BY <1>1, <1>4, <2>4 DEF a, b, c
<1> QED
  BY <1>1, <1>3, <1>4 DEF a

LEMMA LineOf ==
    ASSUME NEW cm, Cells(cm)
    PROVE  LET p == cm.tp + cm.fn
               all == p + (p + cm.fp + cm.tn)
           IN no_skill_f1(cm) = IF all = 0 THEN <<0, 1>> ELSE <<2 * p, all>>
BY DEF Cells, no_skill_f1, Ratio

(* F1 beats the line only if tp tn outweighs every way to be wrong.         *)
LEMMA Beats ==
    ASSUME NEW a \in Nat, NEW b \in Nat, NEW c \in Nat, NEW d \in Nat, a > 0,
           (2 * a * a) * ((a + c) + ((a + c) + b + d)) > (2 * (a + c)) * (a * (a + c) + a * (a + b))
    PROVE  a * d > b * c
<1>1. (2 * a * a) * ((a + c) + ((a + c) + b + d)) = (2 * a) * (a * (2 * a + 2 * c + b + d))
  OBVIOUS
<1>2. (2 * (a + c)) * (a * (a + c) + a * (a + b)) = (2 * a) * ((a + c) * (2 * a + b + c))
  OBVIOUS
<1> DEFINE x == a * (2 * a + 2 * c + b + d)
           y == (a + c) * (2 * a + b + c)
<1>3. x \in Int /\ y \in Int /\ (2 * a) * x > (2 * a) * y
  BY <1>1, <1>2
<1>4. x > y
  <2> HIDE DEF x, y
  <2> QED
    BY <1>3
<1>5. a * d > a * c + b * c + c * c
  BY <1>4
<1>6. a * c \in Nat /\ b * c \in Nat /\ c * c \in Nat /\ a * d \in Nat
  BY Product
<1> QED
  BY <1>5, <1>6

LEMMA SquareBounds ==
    ASSUME NEW a \in Nat, NEW b \in Nat, NEW c \in Nat, NEW d \in Nat
    PROVE  (a * d - b * c) * (a * d - b * c) <= (a + b) * (a + c) * (d + b) * (d + c)
<1> DEFINE x == a * d
           y == b * c
           P == (a + b) * (d + c)
           Q == (a + c) * (d + b)
<1>1. x \in Nat /\ y \in Nat /\ a * c \in Nat /\ b * d \in Nat /\ a * b \in Nat /\ c * d \in Nat
  BY Product
<1>2. P = x + y + (a * c + b * d) /\ Q = x + y + (a * b + c * d)
  OBVIOUS
<1>3. (a + b) * (a + c) * (d + b) * (d + c) = P * Q
  OBVIOUS
<1> HIDE DEF x, y, P, Q
<1>4. P \in Nat /\ Q \in Nat /\ P >= x + y /\ Q >= x + y
  BY <1>1, <1>2
<1>5. P * Q >= (x + y) * (x + y)
  BY <1>1, <1>4
<1>6. (x + y) * (x + y) = (x - y) * (x - y) + 4 * (x * y) /\ x * y \in Nat
  BY <1>1, Product
<1>7. (x - y) * (x - y) \in Int /\ P * Q \in Int
  BY <1>1, <1>4
<1>8. (x - y) * (x - y) <= P * Q
  BY <1>5, <1>6, <1>7
<1> QED
  BY <1>3, <1>8 DEF x, y

(* What the figures of any confusion matrix have in common                  *)
LEMMA FiguresHonest ==
    ASSUME NEW cm, Cells(cm)
    PROVE  LET figures == scores(cm)
               line == figures.no_skill_f1
           IN /\ (cm.tp = 0 /\ cm.fp = 0) \/ (cm.fn = 0 /\ cm.tn = 0) =>
                    figures.mcc.num = 0 /\ ~Exceeds(figures.f1, line)
              /\ cm.fn = 0 /\ cm.tn = 0 => Equals(figures.f1, line)
              /\ Exceeds(figures.f1, line) => figures.mcc.num > 0
              /\ figures.mcc.num * figures.mcc.num <= figures.mcc.square
<1> DEFINE a == cm.tp
           b == cm.fp
           c == cm.fn
           d == cm.tn
           F == f1(cm)
           line == no_skill_f1(cm)
           all == (a + c) + ((a + c) + b + d)
           square == (a + b) * (a + c) * (d + b) * (d + c)
           num == mcc(cm).num
<1>1. a \in Nat /\ b \in Nat /\ c \in Nat /\ d \in Nat
  BY DEF Cells
<1>2. /\ a = 0 => F = <<0, 1>>
      /\ a > 0 => F = <<2 * a * a, a * (a + c) + a * (a + b)>>
  BY F1Of
<1>3. line = IF all = 0 THEN <<0, 1>> ELSE <<2 * (a + c), all>>
  BY LineOf
<1>4. num = (IF square = 0 THEN 0 ELSE a * d - b * c) /\ mcc(cm).square = square
  BY DEF mcc
<1>5. scores(cm).f1 = F /\ scores(cm).no_skill_f1 = line /\ scores(cm).mcc = mcc(cm)
  BY DEF scores
<1> HIDE DEF a, b, c, d, F, line, num
<1>6. line[1] >= 0 /\ line[1] \in Int /\ line[2] \in Int
  BY <1>1, <1>3
<1>7. square = 0 <=> a + b = 0 \/ a + c = 0 \/ d + b = 0 \/ d + c = 0
  <2>1. (a + b) * (a + c) = 0 <=> a + b = 0 \/ a + c = 0
    BY <1>1, Product
  <2>2. (a + b) * (a + c) * (d + b) = 0 <=> (a + b) * (a + c) = 0 \/ d + b = 0
    BY <1>1, Product
  <2>3. square = 0 <=> (a + b) * (a + c) * (d + b) = 0 \/ d + c = 0
    <3>1. (a + b) * (a + c) * (d + b) \in Nat
      BY <1>1, Product
    <3> QED
      BY <1>1, <3>1, Product
  <2> QED
    BY <2>1, <2>2, <2>3
<1> HIDE DEF square
<1>8. ASSUME Exceeds(F, line) PROVE a > 0 /\ a * d > b * c
  <2>1. F[1] * line[2] > line[1] * F[2]
    BY <1>8 DEF Exceeds
  <2>2. a > 0
    <3>1. SUFFICES ASSUME a = 0 PROVE FALSE
      BY <1>1
    <3>2. F[1] = 0 /\ F[2] = 1
      BY <1>2, <3>1
    <3> QED
      BY <1>6, <2>1, <3>2
  <2>3. all # 0
    BY <1>1, <2>2
  <2>4. F[1] = 2 * a * a /\ F[2] = a * (a + c) + a * (a + b) /\ line[1] = 2 * (a + c) /\ line[2] = all
    BY <1>2, <1>3, <2>2, <2>3
  <2>5. (2 * a * a) * ((a + c) + ((a + c) + b + d)) > (2 * (a + c)) * (a * (a + c) + a * (a + b))
    BY <2>1, <2>4
  <2> QED
    BY <1>1, <2>2, <2>5, Beats
<1>9. ASSUME Exceeds(F, line) PROVE num > 0
  <2>1. a * d \in Nat /\ b * c \in Nat /\ a * d > 0
    BY <1>1, <1>8, <1>9, Product
  <2>2. a > 0 /\ d > 0
    BY <1>1, <2>1, Product
  <2>3. square # 0
    BY <1>1, <1>7, <2>2
  <2> QED
    BY <1>4, <1>8, <1>9, <2>1, <2>3
<1>10. ASSUME c = 0, d = 0 PROVE Equals(F, line)
  <2>1. CASE a = 0
    <3>1. F[1] = 0 /\ F[2] = 1 /\ line[1] = 0
      BY <1>1, <1>2, <1>3, <1>10, <2>1
    <3> QED
      BY <1>6, <3>1 DEF Equals
  <2>2. CASE a > 0
    <3>1. F[1] = 2 * a * a /\ F[2] = a * a + a * (a + b) /\ line[1] = 2 * a /\ line[2] = a + (a + b)
      BY <1>1, <1>2, <1>3, <1>10, <2>2
    <3>2. (2 * a * a) * (a + (a + b)) = (2 * a) * (a * a + a * (a + b))
      BY <1>1
    <3> QED
      BY <3>1, <3>2 DEF Equals
  <2> QED
    BY <1>1, <2>1, <2>2
<1>11. num * num <= square
  <2>1. CASE square = 0
    BY <1>4, <2>1
  <2>2. CASE square # 0
    BY <1>1, <1>4, <2>2, SquareBounds DEF square
  <2> QED
    BY <2>1, <2>2
<1>12. ASSUME (a = 0 /\ b = 0) \/ (c = 0 /\ d = 0) PROVE num = 0 /\ ~Exceeds(F, line)
  <2>1. square = 0
    BY <1>1, <1>7, <1>12
  <2> QED
    BY <1>4, <1>9, <2>1
<1> QED
  BY <1>4, <1>5, <1>9, <1>10, <1>11, <1>12 DEF a, b, c, d, num

LEMMA FilterIs ==
    ASSUME NEW rows
    PROVE  FilterOf(rows) =
              [size |-> FilterSize, ones |-> UNION {Hashes(Empty(FilterSize), a) : a \in {rows[k].ip : k \in 1..Len(rows)}},
               items |-> Len(rows)]
<1> DEFINE made == FilterOf(rows)
           empty == Empty(FilterSize)
           ips == {rows[k].ip : k \in 1..Len(rows)}
           bits == UNION {Hashes(empty, a) : a \in ips}
           added == AddAll(empty, ips)
<1>1. empty = [size |-> FilterSize, ones |-> {}, items |-> 0]
  BY DEF Empty
<1>2. made = [added EXCEPT !.items = Len(rows)]
  BY Zenon DEF FilterOf
<1>3. added = [empty EXCEPT !.ones = @ \cup bits, !.items = @ + Cardinality(ips)]
  BY Zenon DEF AddAll
<1> HIDE DEF made, added, bits, ips, empty
<1>4. /\ added.size = FilterSize /\ added.ones = {} \cup bits
      /\ added = [size |-> added.size, ones |-> added.ones, items |-> added.items]
  BY <1>1, <1>3
<1>5. made = [size |-> FilterSize, ones |-> bits, items |-> Len(rows)]
  BY <1>2, <1>4
<1> QED
  BY <1>5, Zenon DEF made, bits, empty, ips

LEMMA FilterHolds ==
    ASSUME NEW rows, NEW i \in 1..Len(rows)
    PROVE  Check(FilterOf(rows), rows[i].ip)
<1> DEFINE made == FilterOf(rows)
           empty == Empty(FilterSize)
           ips == {rows[k].ip : k \in 1..Len(rows)}
<1>1. made.size = FilterSize /\ made.ones = UNION {Hashes(empty, a) : a \in ips}
  <2> HIDE DEF ips, empty
  <2> QED
    BY FilterIs DEF ips, empty
<1>2. Hashes(made, rows[i].ip) = Hashes(empty, rows[i].ip)
  BY <1>1 DEF Hashes, Empty
<1> HIDE DEF made, empty
<1>3. Hashes(empty, rows[i].ip) \subseteq UNION {Hashes(empty, a) : a \in ips}
  BY Zenon
<1> HIDE DEF ips
<1> QED
  BY <1>1, <1>2, <1>3 DEF Check, made

(* evaluate_bloom ends with its report, and answers for what it loaded.     *)
BloomAnswers ==
    source.engine = "bloom" =>
        /\ stage # "evaluating"
        /\ stage = "reported" => \A i \in 1..Len(y_true) : y_true[i] = "Blacklisted" => y_pred[i] = "Blacklisted"

LEMMA BloomStep == WrittenDown /\ SplitSomehow /\ BloomAnswers /\ [OfflineNext]_offlineVars => BloomAnswers'
<1> SUFFICES ASSUME WrittenDown, SplitSomehow, BloomAnswers, [OfflineNext]_offlineVars PROVE BloomAnswers'
  OBVIOUS
<1>1. CASE \E file \in Files : EvaluateBloom(file)
  <2>1. PICK file \in Files : EvaluateBloom(file)
    BY <1>1
  <2> DEFINE loaded == HalfOf(Listed(file))
             asked == loaded \o Others(file)
  <2>2. /\ Len(asked) \in Nat /\ source.engine = "bloom" /\ source' = source /\ stage' = "reported"
        /\ Len(y_true') = Len(asked)
        /\ \A i \in 1..Len(asked) :
              /\ y_true'[i] = "Blacklisted" => i <= Len(loaded)
              /\ Check(FilterOf(loaded), asked[i].ip) => y_pred'[i] = "Blacklisted"
    BY <2>1, BloomSteps DEF WrittenDown
  <2>3. Len(loaded) \in Nat /\ \A i \in 1..Len(loaded) : asked[i] = loaded[i]
    <3>1. file \in Seq(RowsFor(source.engine))
      BY FilesTyped DEF WrittenDown
    <3> QED
      BY <3>1, LookedUp
  <2> HIDE DEF loaded, asked
  <2>4. \A i \in 1..Len(loaded) : Check(FilterOf(loaded), asked[i].ip)
    BY <2>3, FilterHolds
  <2>5. \A i \in 1..Len(asked) : i <= Len(loaded) => i \in 1..Len(loaded)
    BY <2>2, <2>3
  <2> QED
    BY <2>2, <2>4, <2>5 DEF BloomAnswers
<1>2. CASE \/ SplitDataset \/ Deploy \/ DeploySeeds \/ EvaluateRow \/ Report \/ UNCHANGED offlineVars
           \/ \E file \in Files : Train(file) \/ OpenDataset(file)
  <2>1. source' = source /\ (source.engine = "bloom" => stage # "evaluating")
    BY <1>2 DEF BloomAnswers, SplitDataset, Deploy, DeploySeeds, EvaluateRow, Report, Train, OpenDataset, offlineVars
  <2>2. source.engine = "bloom" => /\ stage' # "evaluating"
                                   /\ stage' = "reported" => stage = "reported" /\ UNCHANGED <<y_true, y_pred>>
    BY <1>2, <2>1 DEF SplitDataset, Deploy, DeploySeeds, EvaluateRow, Report, Train, OpenDataset, offlineVars,
       evaluationVars
  <2> QED
    BY <2>1, <2>2 DEF BloomAnswers
<1> QED
  BY <1>1, <1>2 DEF OfflineNext

(* No figure flatters a detector that always answers the same, none that    *)
(* beats the no-skill line does so without an MCC above zero, and a filter  *)
(* misses nothing it was loaded with, for every run of truths and verdicts  *)
(* (evaluate.py:31-119, 341-406).                                           *)
THEOREM FiguresTellSkill == OfflineSpec => []ScoresHonest
<1>1. OfflineInit => BloomAnswers
  BY DEF OfflineInit, BloomAnswers
<1>2. WrittenDown /\ BloomAnswers => ScoresHonest
  <2> SUFFICES ASSUME WrittenDown, BloomAnswers, stage = "reported" PROVE ScoresHonest
    BY DEF ScoresHonest
  <2> DEFINE n == Len(y_pred)
             cm == confusion(y_true, y_pred, Positive)
             figures == scores(cm)
             line == figures.no_skill_f1
             alarms == {i \in 1..n : y_pred[i] = Positive}
  <2>1. n \in Nat /\ Len(y_true) = n
    BY DEF WrittenDown
  <2>2. /\ Cells(cm)
        /\ (\A i \in 1..n : y_pred[i] # Positive) => cm.tp = 0 /\ cm.fp = 0
        /\ (\A i \in 1..n : y_pred[i] = Positive) => cm.fn = 0 /\ cm.tn = 0
        /\ (\A i \in 1..n : y_true[i] = Positive => y_pred[i] = Positive) => cm.fn = 0
    BY <2>1, ConfusionCounts
  <2>3. source.engine = "bloom" => cm.fn = 0
    <3>1. source.engine = "bloom" => Positive = "Blacklisted"
      BY DEF Positive
    <3> QED
      BY <2>1, <2>2, <3>1 DEF BloomAnswers
  <2>4. alarms = {} => \A i \in 1..n : y_pred[i] # Positive
    OBVIOUS
  <2>5. alarms = 1..n => \A i \in 1..n : y_pred[i] = Positive
    OBVIOUS
  <2>6. ScoresHonest <=>
           /\ alarms \in {{}, 1..n} => figures.mcc.num = 0 /\ ~Exceeds(figures.f1, line)
           /\ alarms = 1..n => Equals(figures.f1, line)
           /\ Exceeds(figures.f1, line) => figures.mcc.num > 0
           /\ figures.mcc.num * figures.mcc.num <= figures.mcc.square
           /\ source.engine = "bloom" => cm.fn = 0
    BY DEF ScoresHonest
  <2> HIDE DEF alarms, cm
  <2>7. /\ (cm.tp = 0 /\ cm.fp = 0) \/ (cm.fn = 0 /\ cm.tn = 0) =>
              figures.mcc.num = 0 /\ ~Exceeds(figures.f1, line)
        /\ cm.fn = 0 /\ cm.tn = 0 => Equals(figures.f1, line)
        /\ Exceeds(figures.f1, line) => figures.mcc.num > 0
        /\ figures.mcc.num * figures.mcc.num <= figures.mcc.square
    BY <2>2, FiguresHonest
  <2> HIDE DEF figures
  <2> QED
    BY <2>2, <2>3, <2>4, <2>5, <2>6, <2>7
<1> QED
  BY <1>1, <1>2, EvaluationStart, WrittenStep, SplitStep, BloomStep, PTL DEF OfflineSpec

--------------------------------------------------------------------------------
(* A training row of the KNN engine that needs no more repair: what it says *)
(* is possible, and "Scan" only of traffic that may be one.                 *)
SoundRows ==
    {r \in RowsFor("knn") : /\ Usable(r) /\ Repaired(r) = r /\ r.label \in {"Scan", "Normal"}
                            /\ r.label = "Scan" => is_plausible_scan(r.ports, r.pkts)}

LEMMA RepairedSound ==
    ASSUME NEW r \in RowsFor("knn"), Usable(r)
    PROVE  Repaired(r) \in SoundRows
<1> DEFINE l == IF r.label \in {"Scan", "scan"} /\ is_plausible_scan(r.ports, r.pkts) THEN "Scan" ELSE "Normal"
           e == Repaired(r)
           again == IF l \in {"Scan", "scan"} /\ is_plausible_scan(r.ports, r.pkts) THEN "Scan" ELSE "Normal"
<1>1. r \in [ports : Int, pkts : Int, label : DOMAIN Lower, legible : BOOLEAN]
  BY DEF RowsFor
<1>2. e = [r EXCEPT !.label = l]
  BY Zenon DEF Repaired
<1>3. l \in {"Scan", "Normal"} /\ again = l /\ (l = "Scan" => is_plausible_scan(r.ports, r.pkts))
  OBVIOUS
<1> HIDE DEF l, e
<1>4. e = [ports |-> r.ports, pkts |-> r.pkts, label |-> l, legible |-> r.legible]
  BY <1>1, <1>2
<1>5. e.ports = r.ports /\ e.pkts = r.pkts /\ e.legible = r.legible /\ e.label = l
  BY <1>4
<1>6. e \in RowsFor("knn")
  <2>1. "Scan" \in DOMAIN Lower /\ "Normal" \in DOMAIN Lower
    BY DatasetsAssumption
  <2>2. e \in [ports : Int, pkts : Int, label : DOMAIN Lower, legible : BOOLEAN]
    BY <1>1, <1>3, <1>4, <2>1
  <2> QED
    BY <2>2 DEF RowsFor
<1>7. Repaired(e) = [e EXCEPT !.label = again]
  BY <1>5 DEF Repaired
<1>8. [e EXCEPT !.label = l] = e
  BY <1>4
<1>9. Usable(e)
  BY <1>5 DEF Usable
<1> HIDE DEF again
<1>10. Repaired(e) = e
  BY <1>3, <1>7, <1>8
<1>11. e.label \in {"Scan", "Normal"} /\ (e.label = "Scan" => is_plausible_scan(e.ports, e.pkts))
  BY <1>3, <1>5
<1> QED
  BY <1>6, <1>9, <1>10, <1>11 DEF SoundRows, e

LEMMA Sanitised ==
    ASSUME NEW rows \in Seq(RowsFor("knn"))
    PROVE  sanitise_training_data(rows) \in Seq(SoundRows)
<1> DEFINE at == {i \in 1..Len(rows) : Usable(rows[i])}
           usable == Kept(rows, Usable)
<1>1. usable = RowsAt(rows, at)
  BY DEF Kept
<1>2. at \cap (1..Len(rows)) = at /\ \A i \in at : rows[i] \in RowsFor("knn") /\ Usable(rows[i])
  OBVIOUS
<1> HIDE DEF at, usable
<1>3. usable \in Seq(RowsFor("knn"))
  BY <1>1, RowsPicked
<1>4. PICK p : Picks(usable, rows, at, Len(rows), p)
  BY <1>1, RowsPicked
<1>5. Len(usable) \in Nat /\ \A i \in 1..Len(usable) : usable[i] \in RowsFor("knn") /\ Usable(usable[i])
  BY <1>2, <1>3, <1>4 DEF Picks
<1>6. \A i \in 1..Len(usable) : Repaired(usable[i]) \in SoundRows
  BY <1>5, RepairedSound
<1>7. sanitise_training_data(rows) = [i \in 1..Len(usable) |-> Repaired(usable[i])]
  BY DEF sanitise_training_data, usable
<1> QED
  BY <1>5, <1>6, <1>7

(* A second repair changes nothing.                                         *)
LEMMA SanitisedTwice ==
    ASSUME NEW rows \in Seq(SoundRows)
    PROVE  sanitise_training_data(rows) = rows
<1> DEFINE at == {i \in 1..Len(rows) : Usable(rows[i])}
<1>1. Len(rows) \in Nat /\ rows = [i \in 1..Len(rows) |-> rows[i]]
  OBVIOUS
<1>2. \A i \in 1..Len(rows) : Usable(rows[i]) /\ Repaired(rows[i]) = rows[i]
  BY DEF SoundRows
<1>3. 1..Len(rows) \subseteq at
  BY <1>2
<1>4. Kept(rows, Usable) = rows
  <2> HIDE DEF at
  <2>1. RowsAt(rows, at) = rows
    BY <1>3, RowsPicked
  <2> QED
    BY <2>1 DEF Kept, at
<1>5. sanitise_training_data(rows) = [i \in 1..Len(rows) |-> Repaired(rows[i])]
  BY <1>4 DEF sanitise_training_data
<1> QED
  BY <1>1, <1>2, <1>5

--------------------------------------------------------------------------------
LEMMA Divided ==
    ASSUME NEW x \in Nat, NEW s \in Nat \ {0}
    PROVE  x \div s \in Nat /\ s * (x \div s) <= x /\ x < s * (x \div s) + s
OBVIOUS

(* Every step-th row up to the share, the first one always.                 *)
LEMMA ThinnedHolds ==
    ASSUME NEW S, NEW items \in Seq(S), NEW per \in Nat \ {0}
    PROVE  LET t == Thinned(items, per) IN
           /\ t \in Seq(S) /\ Len(t) <= per
           /\ \A j \in 1..Len(t) : \E i \in 1..Len(items) : t[j] = items[i]
           /\ Len(items) >= 1 => Len(t) >= 1
<1> DEFINE n == Len(items)
           step == IF n < per THEN 1 ELSE n \div per
           many == (n + step - 1) \div step
           every == [i \in 1..many |-> items[(i - 1) * step + 1]]
           upTo == IF Len(every) < per THEN Len(every) ELSE per
           t == Thinned(items, per)
<1>1. n \in Nat /\ \A i \in 1..n : items[i] \in S
  OBVIOUS
<1>2. t = SubSeq(every, 1, upTo)
  BY DEF Thinned
<1> HIDE DEF t, n
<1>3. step \in Nat \ {0}
  <2>1. CASE n < per
    BY <2>1
  <2>2. CASE ~(n < per)
    <3> DEFINE q == n \div per
    <3>1. q \in Nat /\ n < per * q + per
      BY <1>1, Divided
    <3> HIDE DEF q
    <3>2. q # 0
      BY <1>1, <2>2, <3>1
    <3> QED
      BY <2>2, <3>1, <3>2 DEF q
  <2> QED
    BY <2>1, <2>2
<1> HIDE DEF step
<1>4. n + step - 1 \in Nat
  BY <1>1, <1>3
<1>5. many \in Nat /\ step * many <= n + step - 1 /\ n + step - 1 < step * many + step
  BY <1>3, <1>4, Divided
<1> HIDE DEF many
<1>6. n >= 1 => many >= 1
  BY <1>1, <1>3, <1>5
<1>7. ASSUME NEW i \in 1..many PROVE (i - 1) * step + 1 \in 1..n
  <2>1. (many - i) * step \in Nat /\ (i - 1) * step \in Nat
    BY <1>3, <1>5
  <2>2. step * many = (i - 1) * step + step + (many - i) * step
    BY <1>3, <1>5
  <2> QED
    BY <1>1, <1>3, <1>5, <2>1, <2>2
<1>8. every \in Seq(S) /\ Len(every) = many
  BY <1>1, <1>5, <1>7
<1>9. \A i \in 1..many : \E k \in 1..n : every[i] = items[k]
  BY <1>7
<1> HIDE DEF every
<1>10. upTo \in Nat /\ upTo <= many /\ upTo <= per /\ (many >= 1 => upTo >= 1)
  BY <1>5, <1>8
<1> HIDE DEF upTo
<1>11. \A i \in 1..upTo : every[i] \in S /\ i \in 1..many
  BY <1>8, <1>10
<1>12. t \in Seq(S) /\ Len(t) = upTo /\ \A j \in 1..upTo - 1 + 1 : t[j] = every[1 + j - 1]
  BY <1>2, <1>10, <1>11, SubSeqProperties
<1>13. \A j \in 1..Len(t) : t[j] = every[j] /\ j \in 1..many
  BY <1>10, <1>11, <1>12
<1>14. \A j \in 1..Len(t) : \E k \in 1..n : t[j] = items[k]
  BY <1>9, <1>13
<1> QED
  BY <1>6, <1>10, <1>12, <1>14 DEF t, n

(* No label is lost, and no more rows are kept than were asked for if that  *)
(* leaves one for either label.                                             *)
LEMMA DownSampledHolds ==
    ASSUME NEW rows \in Seq(SoundRows), NEW most \in Nat
    PROVE  LET kept == DownSampled(rows, most) IN
           /\ kept \in Seq(SoundRows)
           /\ LabelsOf(kept) = LabelsOf(rows)
           /\ most >= 2 => Len(kept) <= most
<1> DEFINE kept == DownSampled(rows, most)
           L == LabelsOf(rows)
           labels == SetToSeq(L)
           m == Len(labels)
           share == most \div m
           per == IF share = 0 THEN 1 ELSE share
           bucket(c) == LabelRows(rows, labels[c])
           part(c) == Thinned(bucket(c), per)
           parts == [c \in 1..m |-> part(c)]
<1>1. Len(rows) \in Nat /\ \A i \in 1..Len(rows) : rows[i] \in SoundRows /\ rows[i].label \in {"Scan", "Normal"}
  BY DEF SoundRows
<1>2. CASE Len(rows) <= most
  BY <1>2 DEF DownSampled
<1>3. CASE ~(Len(rows) <= most)
  <2>1. kept = FlattenSeq(parts)
    BY <1>3 DEF DownSampled, LabelRows
  <2>2. IsEnumeration(labels, L) /\ L \subseteq {"Scan", "Normal"} /\ L # {}
    <3>1. L \subseteq {"Scan", "Normal"}
      BY <1>1 DEF LabelsOf
    <3>2. IsFiniteSet(L)
      <4>1. IsFiniteSet({"Scan", "Normal"})
        <5>1. IsFiniteSet({"Scan"}) /\ {"Scan", "Normal"} = {"Scan"} \cup {"Normal"}
          BY FS_Singleton
        <5> QED
          BY <5>1, FS_AddElement
      <4> QED
        BY <3>1, <4>1, FS_Subset
    <3>3. L # {}
      <4>1. 1 \in 1..Len(rows)
        BY <1>1, <1>3
      <4> QED
        BY <4>1 DEF LabelsOf
    <3> HIDE DEF L
    <3> QED
      BY <3>1, <3>2, <3>3, SetListed
  <2> HIDE DEF kept, labels
  <2>3. m \in Nat /\ (\A c \in 1..m : labels[c] \in L) /\ \A l \in L : \E c \in 1..m : labels[c] = l
    <3> HIDE DEF L
    <3> QED
      BY <2>2 DEF IsEnumeration
  <2>4. m \in {1, 2}
    <3>1. \A c, d \in 1..m : labels[c] = labels[d] => c = d
      BY <2>2 DEF IsEnumeration
    <3> HIDE DEF L, m
    <3>2. m # 0
      <4>1. PICK l \in L : TRUE
        BY <2>2
      <4>2. PICK c \in 1..m : labels[c] = l
        BY <2>3
      <4> QED
        BY <2>3, <4>2
    <3>3. ~(m >= 3)
      <4>1. SUFFICES ASSUME m >= 3 PROVE FALSE
        OBVIOUS
      <4>2. 1 \in 1..m /\ 2 \in 1..m /\ 3 \in 1..m
        BY <2>3, <4>1
      <4>3. \A c \in 1..m : labels[c] = "Scan" \/ labels[c] = "Normal"
        BY <2>2, <2>3
      <4>4. labels[1] # labels[2] /\ labels[1] # labels[3] /\ labels[2] # labels[3]
        BY <3>1, <4>2
      <4> QED
        BY <4>2, <4>3, <4>4
    <3> QED
      BY <2>3, <3>2, <3>3
  <2> HIDE DEF m
  <2>5. per \in Nat \ {0} /\ (most >= 2 => m * per <= most)
    BY <2>4
  <2> HIDE DEF per
  <2>6. ASSUME NEW c \in 1..m
        PROVE  /\ bucket(c) \in Seq(SoundRows) /\ Len(bucket(c)) >= 1
               /\ \A k \in 1..Len(bucket(c)) : bucket(c)[k].label = labels[c]
    <3> DEFINE l == labels[c]
               at == {i \in 1..Len(rows) : rows[i].label = l}
               b == bucket(c)
    <3>1. b = RowsAt(rows, at)
      BY DEF LabelRows, Kept
    <3>2. at \cap (1..Len(rows)) = at /\ \A i \in at : rows[i].label = l
      OBVIOUS
    <3>3. \E i \in 1..Len(rows) : i \in at
      <4>1. l \in L
        BY <2>3
      <4> QED
        BY <4>1 DEF LabelsOf
    <3> HIDE DEF at, b, l
    <3>4. b \in Seq(SoundRows)
      BY <3>1, RowsPicked
    <3>5. PICK p : Picks(b, rows, at, Len(rows), p)
      BY <3>1, RowsPicked
    <3>6. \A k \in 1..Len(b) : b[k].label = l
      BY <3>2, <3>5 DEF Picks
    <3>7. PICK i \in at \cap (1..Len(rows)) : TRUE
      BY <3>3
    <3>8. \E k \in 1..Len(b) : p[k] = i
      BY <3>5 DEF Picks
    <3>9. Len(b) >= 1
      BY <3>4, <3>8
    <3> QED
      BY <3>4, <3>6, <3>9 DEF b, l
  <2> HIDE DEF bucket
  <2>7. ASSUME NEW c \in 1..m
        PROVE  /\ part(c) \in Seq(SoundRows) /\ Len(part(c)) <= per /\ Len(part(c)) >= 1
               /\ \A j \in 1..Len(part(c)) : part(c)[j].label = labels[c]
    <3> DEFINE b == bucket(c)
    <3>1. b \in Seq(SoundRows) /\ Len(b) >= 1 /\ \A k \in 1..Len(b) : b[k].label = labels[c]
      BY <2>6
    <3> HIDE DEF b
    <3>2. LET t == Thinned(b, per) IN
             /\ t \in Seq(SoundRows) /\ Len(t) <= per
             /\ \A j \in 1..Len(t) : \E i \in 1..Len(b) : t[j] = b[i]
             /\ Len(b) >= 1 => Len(t) >= 1
      BY <2>5, <3>1, ThinnedHolds
    <3>3. part(c) = Thinned(b, per)
      BY DEF b
    <3> HIDE DEF part
    <3> QED
      BY <3>1, <3>2, <3>3
  <2> HIDE DEF part
  <2>8. parts \in Seq(Seq(SoundRows)) /\ Len(parts) = m /\ \A c \in 1..m : parts[c] = part(c)
    BY <2>3, <2>7
  <2> HIDE DEF parts
  <2>9. kept \in Seq(SoundRows)
    BY <2>1, <2>8, Joined
  <2>10. PICK q : Spread(kept, parts, m, q)
    BY <2>1, <2>8, Joined
  <2>11. \A k \in 1..Len(kept) : q[k] = <<q[k][1], q[k][2]>> /\ q[k][1] \in 1..m /\ q[k][2] \in 1..Len(part(q[k][1]))
    <3>1. \A k \in 1..Len(kept) : q[k] \in (1..m) \X Nat
      BY <2>10 DEF Spread
    <3>2. \A z \in (1..m) \X Nat : z = <<z[1], z[2]>> /\ z[1] \in 1..m
      OBVIOUS
    <3> QED
      BY <2>8, <2>10, <3>1, <3>2 DEF Spread
  <2>12. ASSUME NEW k \in 1..Len(kept) PROVE kept[k].label \in L
    <3>1. kept[k] = part(q[k][1])[q[k][2]]
      BY <2>8, <2>10, <2>11 DEF Spread
    <3> DEFINE c == q[k][1]
    <3>2. c \in 1..m /\ q[k][2] \in 1..Len(part(c)) /\ kept[k] = part(c)[q[k][2]]
      BY <2>11, <3>1
    <3> HIDE DEF c, L
    <3>3. kept[k].label = labels[c]
      BY <2>7, <3>2
    <3> QED
      BY <2>3, <3>2, <3>3
  <2>13. ASSUME NEW l \in L PROVE \E k \in 1..Len(kept) : kept[k].label = l
    <3>1. PICK c \in 1..m : labels[c] = l
      BY <2>3
    <3>2. 1 \in 1..Len(part(c))
      BY <2>7
    <3>3. PICK k \in 1..Len(kept) : q[k] = <<c, 1>>
      BY <2>8, <2>10, <3>2 DEF Spread
    <3>4. q[k][1] = c /\ q[k][2] = 1
      BY <3>3
    <3>5. kept[k] = part(c)[1]
      BY <2>8, <2>10, <3>4 DEF Spread
    <3> QED
      BY <2>7, <3>1, <3>2, <3>5
  <2>14. LabelsOf(kept) = L
    <3> HIDE DEF L
    <3> QED
      BY <2>12, <2>13 DEF LabelsOf
  <2>15. Len(kept) <= m * per
    <3> DEFINE n == Len(kept)
               P == (1..m) \X (1..per)
    <3>1. n \in Nat /\ m \in Nat /\ per \in Nat
      BY <2>3, <2>5, <2>9
    <3>2. \A k \in 1..n : q[k] \in P
      <4>1. \A k \in 1..n : q[k][2] \in 1..per
        BY <2>5, <2>7, <2>11
      <4>2. \A k \in 1..n : <<q[k][1], q[k][2]>> \in P
        BY <2>11, <4>1
      <4> QED
        BY <2>11, <4>2
    <3> HIDE DEF n, P
    <3>3. q \in Injection(1..n, P)
      <4>1. q = [k \in 1..n |-> q[k]] /\ \A k, l \in 1..n : q[k] = q[l] => k = l
        BY <2>10 DEF Spread, n
      <4>2. q \in [1..n -> P]
        <5>1. [k \in 1..n |-> q[k]] \in [1..n -> P]
          BY ONLY <3>2
        <5> QED
          BY ONLY <4>1, <5>1
      <4> QED
        BY ONLY <4>1, <4>2 DEF Injection, IsInjective
    <3>4. IsFiniteSet(1..n) /\ Cardinality(1..n) = n
      BY <3>1, FS_Interval
    <3>5. IsFiniteSet(P) /\ Cardinality(P) = m * per
      <4>1. IsFiniteSet(1..m) /\ Cardinality(1..m) = m /\ IsFiniteSet(1..per) /\ Cardinality(1..per) = per
        BY <3>1, FS_Interval
      <4>2. /\ IsFiniteSet((1..m) \X (1..per))
            /\ Cardinality((1..m) \X (1..per)) = Cardinality(1..m) * Cardinality(1..per)
        BY <4>1, FS_Product
      <4> QED
        BY <4>1, <4>2 DEF P
    <3>6. n <= m * per
      <4>1. Cardinality(1..n) <= Cardinality(P)
        BY <3>3, <3>5, FS_Injection
      <4> QED
        BY <3>4, <3>5, <4>1
    <3> QED
      BY <3>6 DEF n
  <2>16. most >= 2 => Len(kept) <= most
    <3>1. m * per \in Nat /\ Len(kept) \in Nat
      BY <2>3, <2>5, <2>9, Product
    <3> QED
      BY <2>5, <2>15, <3>1
  <2> QED
    BY <2>9, <2>14, <2>16 DEF kept
<1> QED
  BY <1>2, <1>3

--------------------------------------------------------------------------------
LEMMA Spelled ==
    ASSUME NEW raw \in DOMAIN Lower
    PROVE  normalise_label(raw) \in DOMAIN Lower
BY DatasetsAssumption DEF normalise_label

LEMMA Relabelled ==
    ASSUME NEW engine \in {"knn", "payload", "kmeans", "bloom"}, NEW row \in RowsFor(engine), NEW l \in DOMAIN Lower
    PROVE  /\ row.label \in DOMAIN Lower
           /\ [row EXCEPT !.label = l] \in RowsFor(engine)
<1>1. CASE engine = "knn"
  <2>1. RowsFor(engine) = [ports : Int, pkts : Int, label : DOMAIN Lower, legible : BOOLEAN]
    BY <1>1 DEF RowsFor
  <2> QED
    BY <2>1
<1>2. CASE engine = "payload"
  <2> DEFINE W == SUBSET {Words[i] : i \in 1..Len(Words)}
  <2>1. RowsFor(engine) = [words : W, label : DOMAIN Lower]
    BY <1>2 DEF RowsFor
  <2> HIDE DEF W
  <2> QED
    BY <2>1
<1>3. CASE engine = "kmeans"
  <2>1. RowsFor(engine) = [pps : Int, label : DOMAIN Lower, legible : BOOLEAN]
    BY <1>3 DEF RowsFor
  <2> QED
    BY <2>1
<1>4. CASE engine = "bloom"
  <2>1. RowsFor(engine) = [ip : Addresses, label : DOMAIN Lower]
    BY <1>4 DEF RowsFor
  <2> QED
    BY <2>1
<1> QED
  BY <1>1, <1>2, <1>3, <1>4

(* A loader hands on rows of the kind it read.                              *)
LEMMA LoadedTyped ==
    ASSUME source \in Sources, NEW file \in Seq(RowsFor(source.engine))
    PROVE  Loaded(file) \in Seq(RowsFor(source.engine))
<1> DEFINE R == RowsFor(source.engine)
<1>1. source.engine \in {"knn", "payload", "kmeans", "bloom"} /\ source.via \in {"csv", "json", "cic"}
  BY OfflineAssumption
<1>2. \A r \in R : normalise_label(r.label) \in DOMAIN Lower
  <2>1. ASSUME NEW r \in R PROVE r.label \in DOMAIN Lower
    <3>1. \E l : l \in DOMAIN Lower
      BY DatasetsAssumption
    <3> QED
      BY <1>1, <3>1, Relabelled
  <2> QED
    BY <2>1, Spelled
<1>3. ASSUME NEW r \in R, NEW l \in DOMAIN Lower PROVE [r EXCEPT !.label = l] \in R
  BY <1>1, Relabelled
<1> HIDE DEF R
<1>4. CASE source.via = "json"
  BY <1>4 DEF Loaded, R
<1>5. CASE source.via = "csv"
  <2> DEFINE new(i) == [file[i] EXCEPT !.label = normalise_label(@)]
  <2>1. Loaded(file) = [i \in 1..Len(file) |-> new(i)]
    BY <1>5 DEF Loaded, Normalised
  <2>2. ASSUME NEW i \in 1..Len(file) PROVE new(i) \in R
    <3>1. file[i] \in R
      BY DEF R
    <3>2. new(i) = [file[i] EXCEPT !.label = normalise_label(file[i].label)]
      OBVIOUS
    <3> QED
      BY <1>2, <1>3, <3>1, <3>2
  <2> HIDE DEF new
  <2> QED
    BY <2>1, <2>2 DEF R
<1>6. CASE source.via = "cic"
  <2> DEFINE usable == Kept(file, LAMBDA row : row.legible /\ row.pkts >= 0 /\ row.ports >= 0 /\ row.ports <= row.pkts)
             new(i) == [usable[i] EXCEPT !.label = IF normalise_label(@) = "Scan" THEN "Scan" ELSE "Normal"]
  <2>1. Loaded(file) = [i \in 1..Len(usable) |-> new(i)]
    BY <1>6 DEF Loaded, load_cic_iot2023
  <2>2. usable \in Seq(R)
    BY RowsPicked DEF Kept, R
  <2> HIDE DEF usable
  <2>3. ASSUME NEW i \in 1..Len(usable) PROVE new(i) \in R
    <3> DEFINE l == IF normalise_label(usable[i].label) = "Scan" THEN "Scan" ELSE "Normal"
    <3>1. usable[i] \in R /\ l \in DOMAIN Lower
      BY <2>2, DatasetsAssumption
    <3>2. new(i) = [usable[i] EXCEPT !.label = l]
      OBVIOUS
    <3> HIDE DEF l, new
    <3> QED
      BY <1>3, <3>1, <3>2
  <2> HIDE DEF new
  <2> QED
    BY <2>1, <2>2, <2>3 DEF R
<1> QED
  BY <1>1, <1>4, <1>5, <1>6

(* The engine in hand is what training makes of the lesson, if any was     *)
(* given, and what is deployed came from it through the brain file.         *)
Taught ==
    \/ trained = <<>> /\ lesson = <<>> /\ stage \notin {"trained", "deployed"}
    \/ /\ lesson \in Seq(RowsFor(source.engine)) /\ Learnable(lesson) /\ trained = Trained(lesson)
       /\ stage = "deployed" => deployed = ThroughBrain(trained)

LEMMA TaughtStep == source \in Sources /\ SplitSomehow /\ Taught /\ [OfflineNext]_offlineVars => Taught'
<1> SUFFICES ASSUME source \in Sources, SplitSomehow, Taught, [OfflineNext]_offlineVars PROVE Taught'
  OBVIOUS
<1>1. source' = source
  BY DEF OfflineNext, SplitDataset, Train, OpenDataset, EvaluateBloom, Deploy, DeploySeeds, EvaluateRow, Report, offlineVars
<1>2. ASSUME NEW rows, lesson' = rows PROVE Learnable(lesson)' <=> Learnable(rows)
  BY <1>1, <1>2 DEF Learnable, NormalPoints
<1>3. ASSUME NEW rows, lesson' = rows PROVE Trained(lesson)' = Trained(rows)
  BY <1>1, <1>3 DEF Trained, NormalPoints
<1>4. ASSUME trained' = trained PROVE ThroughBrain(trained)' = ThroughBrain(trained)
  BY <1>1, <1>4 DEF ThroughBrain
<1>5. CASE \E file \in Files : Train(file)
  <2>1. PICK file \in Files : Train(file)
    BY <1>5
  <2>2. CASE Loadable(file) /\ Learnable(Loaded(file))
    <3>1. trained' = Trained(Loaded(file)) /\ lesson' = Loaded(file) /\ stage' = "trained"
      BY <2>1, <2>2 DEF Train
    <3>2. Loaded(file) \in Seq(RowsFor(source.engine))
      BY FilesTyped, LoadedTyped
    <3> QED
      BY <1>1, <1>2, <1>3, <2>2, <3>1, <3>2 DEF Taught
  <2>3. CASE ~(Loadable(file) /\ Learnable(Loaded(file)))
    <3>1. UNCHANGED <<trained, lesson>> /\ stage' \notin {"trained", "deployed"}
      BY <2>1, <2>3 DEF Train
    <3> QED
      BY <1>1, <1>2, <1>3, <3>1 DEF Taught
  <2> QED
    BY <2>2, <2>3
<1>6. CASE Deploy
  <2>1. stage' = "deployed" /\ deployed' = ThroughBrain(trained) /\ trained' = trained /\ lesson' = lesson
    BY <1>6 DEF Deploy
  <2>2. stage = "trained"
    BY <1>6 DEF Deploy
  <2> QED
    BY <1>1, <1>2, <1>3, <1>4, <2>1, <2>2 DEF Taught
<1>7. CASE \/ SplitDataset \/ DeploySeeds \/ EvaluateRow \/ Report
           \/ \E file \in Files : OpenDataset(file) \/ EvaluateBloom(file)
  <2>1. UNCHANGED <<trained, lesson>> /\ stage' \notin {"trained", "deployed"}
    BY <1>7 DEF SplitDataset, DeploySeeds, EvaluateRow, Report, OpenDataset, EvaluateBloom
  <2> QED
    BY <1>1, <1>2, <1>3, <2>1 DEF Taught
<1>8. CASE UNCHANGED offlineVars
  <2>1. UNCHANGED <<trained, lesson, stage, deployed>>
    BY <1>8 DEF offlineVars, evaluationVars
  <2> QED
    BY <1>1, <1>2, <1>3, <1>4, <2>1 DEF Taught
<1> QED
  BY <1>5, <1>6, <1>7, <1>8 DEF OfflineNext

LEMMA TaughtStart == OfflineInit => Taught /\ source \in Sources /\ SplitSomehow
BY DEF OfflineInit, Taught, SplitSomehow

(* "so one dominant label cannot crowd out the minority class": whatever    *)
(* the rows, thinning keeps every label, and within the limit where that    *)
(* leaves room for the two there are; with a limit of one the code keeps a  *)
(* row of either (knn.py:197-224).                                          *)
THEOREM EveryLabelKept == ASSUME MaxKnnSamples >= 2 PROVE OfflineSpec => []KnnRowsSound
<1>1. source \in Sources /\ Taught => KnnRowsSound
  <2> SUFFICES ASSUME source \in Sources, Taught, source.engine = "knn" PROVE KnnRowsSound
    BY DEF KnnRowsSound
  <2> DEFINE clean == sanitise_training_data(lesson)
  <2>1. MaxKnnSamples \in Nat
    BY OfflineAssumption
  <2>2. <<>> \in Seq(SoundRows) /\ Len(<<>>) = 0
    BY EmptySeq
  <2>3. clean \in Seq(SoundRows) /\ trained = DownSampled(clean, MaxKnnSamples)
    <3>1. CASE trained = <<>> /\ lesson = <<>>
      <4>1. clean = <<>>
        BY <2>2, <3>1, SanitisedTwice
      <4>2. DownSampled(<<>>, MaxKnnSamples) = <<>>
        BY <2>1, <2>2 DEF DownSampled
      <4> HIDE DEF clean
      <4> QED
        BY <2>2, <3>1, <4>1, <4>2
    <3>2. CASE lesson \in Seq(RowsFor(source.engine)) /\ trained = Trained(lesson)
      <4>1. trained = train_knn(lesson, MaxKnnSamples)
        BY <3>2 DEF Trained
      <4> QED
        BY <3>2, <4>1, Sanitised DEF train_knn
    <3> QED
      BY <3>1, <3>2 DEF Taught
  <2> HIDE DEF clean
  <2>4. trained \in Seq(SoundRows) /\ LabelsOf(trained) = LabelsOf(clean) /\ Len(trained) <= MaxKnnSamples
    BY <2>1, <2>3, DownSampledHolds
  <2>5. \A i \in 1..Len(trained) :
           trained[i].label = "Scan" => is_plausible_scan(trained[i].ports, trained[i].pkts)
    BY <2>4 DEF SoundRows
  <2> QED
    BY <2>4, <2>5 DEF KnnRowsSound, clean
<1> QED
  BY <1>1, TaughtStart, SourceStep, SplitStep, TaughtStep, PTL DEF OfflineSpec

(* A payload engine may take the logarithm of all it was given.             *)
LEMMA PayloadScorable ==
    ASSUME NEW S, NEW rows \in Seq(S), Trainable(rows)
    PROVE  Scorable(train_payload(rows))
<1> DEFINE engine == train_payload(rows)
           vocabulary == SeedWords \cup discover_vocabulary(rows)
           line(w) == [malicious |-> Smoothed(In(rows, w, TRUE), RowsOf(rows, TRUE)),
                       safe |-> Smoothed(In(rows, w, FALSE), RowsOf(rows, FALSE))]
<1>1. \A w, malicious : In(rows, w, malicious) \in Nat
  <2> SUFFICES ASSUME NEW w, NEW malicious PROVE In(rows, w, malicious) \in Nat
    OBVIOUS
  <2> DEFINE at == {i \in 1..Len(rows) : w \in rows[i].words /\ IsMalicious(rows[i]) = malicious}
  <2>1. IsFiniteSet(1..Len(rows)) /\ at \subseteq 1..Len(rows)
    BY FS_Interval
  <2> QED
    BY <2>1, FS_Subset, FS_CardinalityType DEF In
<1>2. engine = [malicious |-> RowsOf(rows, TRUE), safe |-> RowsOf(rows, FALSE),
                likelihoods |-> [w \in vocabulary |-> line(w)]]
  BY Zenon DEF train_payload
<1>3. \A w : line(w).malicious[1] > 0 /\ line(w).safe[1] > 0
  <2> SUFFICES ASSUME NEW w PROVE line(w).malicious[1] > 0 /\ line(w).safe[1] > 0
    OBVIOUS
  <2>1. In(rows, w, TRUE) \in Nat /\ In(rows, w, FALSE) \in Nat
    BY <1>1
  <2>2. line(w).malicious[1] = In(rows, w, TRUE) + 1 /\ line(w).safe[1] = In(rows, w, FALSE) + 1
    BY DEF Smoothed
  <2>3. \A n \in Nat : n + 1 > 0
    OBVIOUS
  <2> QED
    BY <2>1, <2>2, <2>3, Zenon
<1> HIDE DEF engine, vocabulary, line
<1>4. /\ engine.malicious = RowsOf(rows, TRUE) /\ engine.safe = RowsOf(rows, FALSE)
      /\ engine.likelihoods = [w \in vocabulary |-> line(w)]
  BY <1>2
<1>5. DOMAIN engine.likelihoods = vocabulary /\ \A w \in vocabulary : engine.likelihoods[w] = line(w)
  BY <1>4
<1> QED
  BY <1>3, <1>4, <1>5 DEF Scorable, Trainable, engine

LEMMA FilterSurvives ==
    ASSUME NEW rows \in Seq(RowsFor("bloom"))
    PROVE  ImportBrain(ExportBrain(FilterOf(rows))) = FilterOf(rows)
<1> DEFINE f == FilterOf(rows)
           empty == Empty(FilterSize)
           ips == {rows[k].ip : k \in 1..Len(rows)}
           bits == UNION {Hashes(empty, a) : a \in ips}
<1>1. f = [size |-> FilterSize, ones |-> bits, items |-> Len(rows)]
  BY FilterIs, Zenon
<1>2. \A a \in ips : a \in Addresses
  <2>1. \A r \in RowsFor("bloom") : r.ip \in Addresses
    BY DEF RowsFor
  <2>2. \A k \in 1..Len(rows) : rows[k] \in RowsFor("bloom")
    OBVIOUS
  <2>3. \A k \in 1..Len(rows) : rows[k].ip \in Addresses
    BY <2>1, <2>2
  <2> QED
    BY <2>3
<1>3. empty.size = FilterSize /\ FilterSize \in Nat \ {0}
  BY OfflineAssumption DEF Empty
<1> HIDE DEF f, empty, ips
<1>4. \A a \in ips : Hashes(empty, a) \subseteq 0..(FilterSize - 1)
  BY <1>2, <1>3, HashesWithin
<1>5. bits \subseteq 0..(FilterSize - 1)
  BY <1>4
<1> HIDE DEF bits
<1>6. f.size \in Nat \ {0} /\ f.ones \subseteq 0..(f.size - 1) /\ f = [size |-> f.size, ones |-> f.ones, items |-> f.items]
  BY <1>1, <1>3, <1>5
<1> QED
  BY <1>6, FilterPacked DEF f

(* What was trained is what goes live: no engine loses a decision on the    *)
(* way through its brain file, and no brain needs a second repair           *)
(* (knn.py:226-252, naive_bayes.py:232-302, kmeans.py:196-243,              *)
(* bloom.py:130-166).                                                       *)
THEOREM BrainsKeepEngines == OfflineSpec => []EngineSurvivesBrain
<1>1. source \in Sources /\ Taught => EngineSurvivesBrain
  <2> SUFFICES ASSUME source \in Sources, Taught, stage = "deployed" PROVE EngineSurvivesBrain
    BY DEF EngineSurvivesBrain
  <2>1. /\ lesson \in Seq(RowsFor(source.engine)) /\ Learnable(lesson) /\ trained = Trained(lesson)
        /\ deployed = ThroughBrain(trained)
    BY DEF Taught
  <2>2. source.engine \in {"knn", "payload", "kmeans", "bloom"} /\ MaxKnnSamples \in Nat
    BY OfflineAssumption
  <2>3. CASE source.engine = "knn"
    <3> DEFINE clean == sanitise_training_data(lesson)
    <3>1. clean \in Seq(SoundRows) /\ trained = DownSampled(clean, MaxKnnSamples)
      BY <2>1, <2>3, Sanitised DEF Trained, train_knn
    <3> HIDE DEF clean
    <3>2. trained \in Seq(SoundRows)
      BY <2>2, <3>1, DownSampledHolds
    <3>3. sanitise_training_data(trained) = trained
      BY <3>2, SanitisedTwice
    <3>4. deployed = IF trained = <<>> THEN SeedRows ELSE trained
      BY <2>1, <2>3, <3>3 DEF ThroughBrain, import_knn
    <3> QED
      BY <2>3, <3>4 DEF EngineSurvivesBrain
  <2>4. CASE source.engine = "payload"
    <3>1. deployed = trained /\ trained = train_payload(lesson) /\ Trainable(lesson)
      BY <2>1, <2>4 DEF ThroughBrain, Trained, Learnable
    <3>2. Scorable(deployed)
      BY <2>1, <3>1, PayloadScorable
    <3> QED
      BY <2>4, <3>1, <3>2 DEF EngineSurvivesBrain
  <2>5. CASE source.engine = "kmeans"
    <3> DEFINE points == NormalPoints(lesson)
    <3>1. deployed = import_kmeans(export_kmeans(trained)) /\ trained = train_kmeans(points)
      BY <2>1, <2>5 DEF ThroughBrain, Trained
    <3>2. "count" \in DOMAIN train_kmeans(points)
      BY DEF train_kmeans
    <3>3. deployed = trained
      BY <3>1, <3>2 DEF import_kmeans, export_kmeans
    <3> QED
      BY <2>5, <3>3 DEF EngineSurvivesBrain
  <2>6. CASE source.engine = "bloom"
    <3>1. deployed = ImportBrain(ExportBrain(trained)) /\ trained = FilterOf(Indicators(lesson))
      BY <2>1, <2>6 DEF ThroughBrain, Trained
    <3>2. Indicators(lesson) \in Seq(RowsFor("bloom"))
      BY <2>1, <2>6, RowsPicked DEF Indicators, Kept
    <3>3. deployed = trained
      BY <3>1, <3>2, FilterSurvives
    <3> QED
      BY <2>6, <3>3 DEF EngineSurvivesBrain
  <2> QED
    BY <2>2, <2>3, <2>4, <2>5, <2>6
<1> QED
  BY <1>1, TaughtStart, SourceStep, SplitStep, TaughtStep, PTL DEF OfflineSpec
================================================================================
