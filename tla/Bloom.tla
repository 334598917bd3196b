--------------------------------- MODULE Bloom ---------------------------------
(***************************************************************************)
(* engines/bloom.py as operators on a filter.  The bit array is the set of *)
(* positions that hold a one; the digests (crc32, md5, the rolling hash,   *)
(* the salted sha1 values) are constants, reduced modulo the size here.    *)
(***************************************************************************)
EXTENDS Integers, Sequences, FiniteSets

CONSTANTS
    Addresses,   (* indicators and looked-up sources                       *)
    Digest,      (* [Addresses -> sequence of natural numbers]             *)
    HashCount    (* bloom_hashes                                           *)

ASSUME BloomAssumption ==
    /\ IsFiniteSet(Addresses)
    /\ HashCount \in Nat \ {0}
    /\ \A a \in Addresses : Digest[a] \in Seq(Nat) /\ Len(Digest[a]) >= HashCount

Empty(size) == [size |-> size, ones |-> {}, items |-> 0]

Hashes(filter, item) == {Digest[item][i] % filter.size : i \in 1..HashCount}

Check(filter, item) == Hashes(filter, item) \subseteq filter.ones

(* Every usable line of a feed, or every sample not labelled benign, added  *)
(* one after the other.                                                     *)
AddAll(filter, items) ==
    [filter EXCEPT !.ones = @ \cup UNION {Hashes(filter, a) : a \in items},
                   !.items = @ + Cardinality(items)]

(* Mutant: reset clears the counter but keeps the array. *)
Reset_KeepsBits(filter) == [filter EXCEPT !.items = 0]

(* The array is cleared at the size the filter has by now. *)
Reset(filter) == Empty(filter.size)

(* Eight positions to a byte, the first in the highest bit, and the last    *)
(* byte filled up with zeros.                                               *)
PlaceValue == <<128, 64, 32, 16, 8, 4, 2, 1>>

Bit(filter, n) == IF n \in filter.ones THEN 1 ELSE 0

Byte(filter, b) ==
    128 * Bit(filter, 8 * b) + 64 * Bit(filter, 8 * b + 1) + 32 * Bit(filter, 8 * b + 2)
    + 16 * Bit(filter, 8 * b + 3) + 8 * Bit(filter, 8 * b + 4) + 4 * Bit(filter, 8 * b + 5)
    + 2 * Bit(filter, 8 * b + 6) + Bit(filter, 8 * b + 7)

ExportBrain(filter) ==
    [size |-> filter.size, items |-> filter.items,
     bytes |-> [b \in 1..((filter.size + 7) \div 8) |-> Byte(filter, b - 1)]]

Unpacked(bytes) ==
    {n \in 0..(8 * Len(bytes) - 1) : (bytes[n \div 8 + 1] \div PlaceValue[(n % 8) + 1]) % 2 = 1}

(* Mutant: a byte is read from its lowest bit. *)
ImportBrain_LowFirst(brain) ==
    [size |-> brain.size, items |-> brain.items,
     ones |-> {n \in 0..(brain.size - 1) : (brain.bytes[n \div 8 + 1] \div PlaceValue[8 - (n % 8)]) % 2 = 1}]

(* The size comes from the brain, whatever the configuration says. *)
ImportBrain(brain) ==
    [size |-> brain.size, items |-> brain.items,
     ones |-> Unpacked(brain.bytes) \cap 0..(brain.size - 1)]
================================================================================
