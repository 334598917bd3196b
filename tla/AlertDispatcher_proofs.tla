------------------------- MODULE AlertDispatcher_proofs -------------------------
(***************************************************************************)
(* Proofs about the firewall (ActiveDefense) and the alert dispatcher that *)
(* drives it, for every chain an operator built, every set of sources,     *)
(* messages, kinds and calls, every policy and every bound.                *)
(*                                                                         *)
(*   1. the firewall: the chain and the class's books                      *)
(*   2. the table of recent alerts decides as the log of all would         *)
(*   3. a source is dropped only for a reason                              *)
(*   4. the sinks, the size of the table, and the labels                   *)
(***************************************************************************)
EXTENDS AlertDispatcher, SequenceTheorems, FunctionTheorems, FiniteSetTheorems, TLAPS

--------------------------------------------------------------------------------
(* 1. The firewall, for any number of calls, failures and processes.        *)

(* How many rules this process added, and how many MANTIS ever added.       *)
Own == Len(chain) - Len(found)
Added == Len(chain) - Len(FoundChain)

(* The chain is the process's own rules, each address once, on top of what  *)
(* it found, which is what earlier processes left on top of the operator's. *)
ChainInv ==
    /\ DefenseTypeOK
    /\ Own >= 0 /\ Len(found) >= Len(FoundChain)
    /\ \A i \in 1..Len(found) : chain[Own + i] = found[i]
    /\ IF DryRun THEN Own = 0 ELSE {chain[i] : i \in 1..Own} = blocked_ips
    /\ \A i, j \in 1..Own : chain[i] = chain[j] => i = j
    /\ NeverBlockOurselves

LEMMA ChainStart == DefenseInit => ChainInv
<1> SUFFICES ASSUME DefenseInit PROVE ChainInv
  OBVIOUS
<1>1. Len(FoundChain) \in Nat
  BY DefenseAssumption
<1>2. Own = 0 /\ Added = 0
  BY <1>1 DEF DefenseInit, Own, Added
<1> QED
  BY <1>1, <1>2, DefenseAssumption DEF DefenseInit, ChainInv, DefenseTypeOK, NeverBlockOurselves, Own

(* A new rule at the head moves all others down by one place.               *)
LEMMA Inserting ==
    ASSUME ChainInv, NEW ip \in Sources, BlockInserted(ip), ~DryRun
    PROVE  ChainInv'
<1>1. /\ chain \in Seq(Sources) /\ found \in Seq(Sources) /\ found' = found
      /\ Len(chain) \in Nat /\ Len(found) \in Nat /\ Len(FoundChain) \in Nat
      /\ blocked_ips' = blocked_ips \cup {ip} /\ flushing' = flushing /\ failures' = failures
      /\ ip \notin blocked_ips /\ ip \notin Whitelist
  BY DefenseAssumption DEF BlockInserted, BlockPermitted, ChainInv, DefenseTypeOK
<1>2. /\ chain' \in Seq(Sources) /\ Len(chain') = Len(chain) + 1
      /\ chain'[1] = ip
      /\ \A i \in 2..Len(chain') : chain'[i] = chain[i - 1]
  BY <1>1 DEF BlockInserted
<1>3. Own \in Nat /\ Own' = Own + 1 /\ Own + Len(found) = Len(chain)
  BY <1>1, <1>2 DEF Own, ChainInv
<1>4. \A i \in 1..Len(found') : chain'[Own' + i] = found'[i]
  BY <1>1, <1>2, <1>3 DEF ChainInv
<1>5. \A i \in 1..Own' : IF i = 1 THEN chain'[i] = ip ELSE i - 1 \in 1..Own /\ chain'[i] = chain[i - 1]
  BY <1>1, <1>2, <1>3
<1>6. \A i \in 1..Own : chain[i] \in blocked_ips
  BY DEF ChainInv
<1>7. \A b \in blocked_ips : \E i \in 1..Own : i + 1 \in 1..Own' /\ chain[i] = b /\ chain'[i + 1] = b
  <2> TAKE b \in blocked_ips
  <2>1. PICK i \in 1..Own : chain[i] = b
    BY DEF ChainInv
  <2>2. i + 1 \in 2..Len(chain') /\ i + 1 \in 1..Own' /\ (i + 1) - 1 = i
    BY <1>1, <1>2, <1>3
  <2>3. chain'[i + 1] = b
    BY <1>2, <2>1, <2>2
  <2> QED
    BY <2>1, <2>2, <2>3
<1>8. {chain'[i] : i \in 1..Own'} = blocked_ips'
  <2>1. 1 \in 1..Own'
    BY <1>3
  <2>2. \A i \in 1..Own' : chain'[i] \in blocked_ips'
    BY <1>1, <1>5, <1>6
  <2>3. \A b \in blocked_ips' : \E i \in 1..Own' : chain'[i] = b
    BY <1>1, <1>2, <1>7, <2>1
  <2> QED
    BY <2>2, <2>3
<1>9. \A i, j \in 1..Own' : chain'[i] = chain'[j] => i = j
  <2> SUFFICES ASSUME NEW i \in 1..Own', NEW j \in 1..Own', chain'[i] = chain'[j] PROVE i = j
    OBVIOUS
  <2>1. CASE i = 1 \/ j = 1
    BY <1>1, <1>5, <1>6, <2>1
  <2>2. CASE i # 1 /\ j # 1
    <3>1. i - 1 \in 1..Own /\ j - 1 \in 1..Own /\ chain[i - 1] = chain[j - 1]
      BY <1>5, <2>2
    <3>2. i - 1 = j - 1
      BY <3>1 DEF ChainInv
    <3> QED
      BY <1>3, <3>2
  <2> QED
    BY <2>1, <2>2
<1>10. NeverBlockOurselves'
  <2> SUFFICES ASSUME NEW i \in 1..(Len(chain') - Len(FoundChain)) PROVE chain'[i] \notin Whitelist
    BY DEF NeverBlockOurselves, Whitelist
  <2>1. CASE i = 1
    BY <1>1, <1>2, <2>1
  <2>2. CASE i # 1
    <3>1. i \in 2..Len(chain') /\ i - 1 \in 1..(Len(chain) - Len(FoundChain))
      BY <1>1, <1>2, <2>2
    <3> QED
      BY <1>2, <3>1 DEF ChainInv, NeverBlockOurselves
  <2> QED
    BY <2>1, <2>2
<1>11. DefenseTypeOK'
  BY <1>1, <1>2 DEF ChainInv, DefenseTypeOK
<1>12. Own' >= 0 /\ Len(found') >= Len(FoundChain)
  BY <1>1, <1>3 DEF ChainInv
<1> QED
  BY <1>4, <1>8, <1>9, <1>10, <1>11, <1>12 DEF ChainInv

(* iptables -D takes the first match, which for an address on the books is  *)
(* the process's own rule.                                                  *)
LEMMA FirstMatch ==
    ASSUME ChainInv, NEW ip \in blocked_ips, ~DryRun
    PROVE  \E k \in 1..Own :
              /\ chain[k] = ip
              /\ LET next == Deleted(chain, ip)
                 IN  /\ next \in Seq(Sources) /\ Len(next) = Len(chain) - 1
                     /\ \A i \in 1..Len(next) : next[i] = IF i < k THEN chain[i] ELSE chain[i + 1]
<1>1. /\ chain \in Seq(Sources) /\ found \in Seq(Sources)
      /\ Len(chain) \in Nat /\ Len(found) \in Nat /\ Own \in Nat /\ Own <= Len(chain)
  BY DEF ChainInv, DefenseTypeOK, Own
<1> DEFINE I == {i \in 1..Len(chain) : chain[i] = ip}
<1>2. PICK o \in 1..Own : chain[o] = ip
  BY DEF ChainInv
<1>3. \A i \in I : i <= Own => i = o
  BY <1>1, <1>2 DEF ChainInv
<1>4. o \in I /\ \A i \in I : o <= i
  BY <1>1, <1>2, <1>3
<1>5. Min(I) = o
  <2>1. Min(I) \in I /\ \A i \in I : Min(I) <= i
    BY <1>4 DEF Min
  <2> QED
    BY <1>1, <1>4, <2>1
<1>6. Deleted(chain, ip) = SubSeq(chain, 1, o - 1) \o SubSeq(chain, o + 1, Len(chain))
  BY <1>4, <1>5 DEF Deleted, RemoveFirst, RemoveAt, SelectInSeq
<1>7. o \in 1..Len(chain)
  BY <1>1
<1> DEFINE a == SubSeq(chain, 1, o - 1)
           b == SubSeq(chain, o + 1, Len(chain))
<1>8. a \in Seq(Sources) /\ Len(a) = o - 1 /\ \A i \in 1..o - 1 : a[i] = chain[i]
  BY <1>1, <1>7
<1>9. b \in Seq(Sources) /\ Len(b) = Len(chain) - o /\ \A i \in 1..Len(chain) - o : b[i] = chain[o + i]
  BY <1>1, <1>7
<1> HIDE DEF a, b
<1>10. /\ a \o b \in Seq(Sources) /\ Len(a \o b) = Len(chain) - 1
       /\ \A i \in 1..Len(chain) - 1 : (a \o b)[i] = IF i < o THEN a[i] ELSE b[i - (o - 1)]
  <2>1. Len(a) + Len(b) = Len(chain) - 1 /\ \A i \in 1..Len(chain) - 1 : i < o <=> i <= Len(a)
    BY <1>1, <1>7, <1>8, <1>9
  <2>2. /\ a \o b \in Seq(Sources) /\ Len(a \o b) = Len(a) + Len(b)
        /\ \A i \in 1..Len(a) + Len(b) : (a \o b)[i] = IF i <= Len(a) THEN a[i] ELSE b[i - Len(a)]
    BY <1>8, <1>9, ConcatProperties
  <2> QED
    BY <1>8, <2>1, <2>2
<1>11. \A i \in 1..Len(chain) - 1 : (a \o b)[i] = IF i < o THEN chain[i] ELSE chain[i + 1]
  BY <1>1, <1>7, <1>8, <1>9, <1>10
<1> QED
  BY <1>2, <1>6, <1>10, <1>11 DEF a, b

LEMMA Removing ==
    ASSUME ChainInv, NEW ip \in Sources, UnblockIp(ip), flushing' \subseteq flushing \ {ip}, ~DryRun
    PROVE  ChainInv'
<1>1. /\ chain \in Seq(Sources) /\ found \in Seq(Sources) /\ found' = found
      /\ Len(chain) \in Nat /\ Len(found) \in Nat /\ Len(FoundChain) \in Nat
      /\ ip \in blocked_ips /\ blocked_ips' = blocked_ips \ {ip} /\ failures' = failures
      /\ chain' = Deleted(chain, ip)
  BY DefenseAssumption DEF UnblockIp, ChainInv, DefenseTypeOK
<1>2. PICK k \in 1..Own :
        /\ chain[k] = ip
        /\ chain' \in Seq(Sources) /\ Len(chain') = Len(chain) - 1
        /\ \A i \in 1..Len(chain') : chain'[i] = IF i < k THEN chain[i] ELSE chain[i + 1]
  BY <1>1, FirstMatch
<1>3. Own \in Nat /\ Own' = Own - 1 /\ Own' \in Nat /\ Own + Len(found) = Len(chain)
  BY <1>1, <1>2 DEF Own, ChainInv
<1> DEFINE Old(i) == IF i < k THEN i ELSE i + 1
<1>4. \A i \in 1..Own' : Old(i) \in 1..Own /\ Old(i) # k /\ chain'[i] = chain[Old(i)]
  <2> SUFFICES ASSUME NEW i \in 1..Own' PROVE Old(i) \in 1..Own /\ Old(i) # k /\ chain'[i] = chain[Old(i)]
    OBVIOUS
  <2>1. i \in 1..Len(chain') /\ i \in Nat /\ k \in Nat /\ i <= Own - 1
    BY <1>1, <1>2, <1>3
  <2>2. Old(i) \in 1..Own /\ Old(i) # k
    BY <1>3, <2>1
  <2> QED
    BY <1>2, <2>1, <2>2
<1>5. \A i, j \in 1..Own : chain[i] = chain[j] => i = j
  BY DEF ChainInv
<1>6. \A i \in 1..Len(found') : chain'[Own' + i] = found'[i]
  <2> TAKE i \in 1..Len(found')
  <2>1. Own' + i \in 1..Len(chain') /\ ~(Own' + i < k) /\ (Own' + i) + 1 = Own + i
    BY <1>1, <1>2, <1>3
  <2>2. chain'[Own' + i] = chain[Own + i]
    BY <1>2, <2>1
  <2> QED
    BY <1>1, <2>2 DEF ChainInv
<1>7. {chain'[i] : i \in 1..Own'} = blocked_ips'
  <2>1. ASSUME NEW i \in 1..Own' PROVE chain'[i] \in blocked_ips'
    <3>1. Old(i) \in 1..Own /\ Old(i) # k /\ chain'[i] = chain[Old(i)]
      BY <1>4
    <3>2. chain[Old(i)] \in blocked_ips /\ chain[Old(i)] # chain[k]
      BY <1>2, <1>5, <3>1 DEF ChainInv
    <3> QED
      BY <1>1, <1>2, <3>1, <3>2
  <2>2. ASSUME NEW b \in blocked_ips' PROVE \E i \in 1..Own' : chain'[i] = b
    <3>1. PICK i \in 1..Own : chain[i] = b
      BY <1>1, <2>2 DEF ChainInv
    <3>2. i # k
      BY <1>1, <1>2, <2>2, <3>1
    <3>3. CASE i < k
      BY <1>2, <1>3, <1>4, <3>1, <3>3, SMTT(30)
    <3>4. CASE i > k
      <4>1. i - 1 \in 1..Own' /\ Old(i - 1) = i
        BY <1>2, <1>3, <3>4
      <4> QED
        BY <1>4, <3>1, <4>1
    <3> QED
      BY <3>2, <3>3, <3>4
  <2> QED
    BY <2>1, <2>2
<1>8. \A i, j \in 1..Own' : chain'[i] = chain'[j] => i = j
  <2> SUFFICES ASSUME NEW i \in 1..Own', NEW j \in 1..Own', chain'[i] = chain'[j] PROVE i = j
    OBVIOUS
  <2>1. Old(i) = Old(j)
    BY <1>4, <1>5
  <2> QED
    BY <1>2, <1>3, <2>1
<1>9. NeverBlockOurselves'
  <2> SUFFICES ASSUME NEW i \in 1..(Len(chain') - Len(FoundChain)) PROVE chain'[i] \notin Whitelist
    BY DEF NeverBlockOurselves, Whitelist
  <2>1. /\ i \in 1..Len(chain') /\ i \in 1..(Len(chain) - Len(FoundChain))
        /\ i + 1 \in 1..(Len(chain) - Len(FoundChain))
    BY <1>1, <1>2
  <2> QED
    BY <1>2, <2>1 DEF ChainInv, NeverBlockOurselves
<1>10. DefenseTypeOK'
  BY <1>1, <1>2 DEF ChainInv, DefenseTypeOK
<1>11. Own' >= 0 /\ Len(found') >= Len(FoundChain)
  BY <1>1, <1>3 DEF ChainInv
<1> QED
  BY <1>6, <1>7, <1>8, <1>9, <1>10, <1>11 DEF ChainInv

LEMMA ChainStep == ChainInv /\ [DefenseNext]_defenseVars => ChainInv'
<1> SUFFICES ASSUME ChainInv, [DefenseNext]_defenseVars PROVE ChainInv'
  OBVIOUS
<1>1. /\ chain \in Seq(Sources) /\ found \in Seq(Sources)
      /\ Len(chain) \in Nat /\ Len(found) \in Nat /\ Len(FoundChain) \in Nat
  BY DefenseAssumption DEF ChainInv, DefenseTypeOK
(* Nothing but the books of a dry run, the failures and the flush changes.  *)
<1>2. ASSUME chain' = chain, found' = found, DryRun \/ blocked_ips' = blocked_ips, DefenseTypeOK'
      PROVE  ChainInv'
  <2>1. Own' = Own /\ Own >= 0 /\ Len(found') >= Len(FoundChain)
    BY <1>2 DEF ChainInv, Own
  <2>2. \A i \in 1..Len(found') : chain'[Own' + i] = found'[i]
    BY <1>2, <2>1 DEF ChainInv
  <2>3. IF DryRun THEN Own' = 0 ELSE {chain'[i] : i \in 1..Own'} = blocked_ips'
    BY <1>2, <2>1 DEF ChainInv
  <2>4. \A i, j \in 1..Own' : chain'[i] = chain'[j] => i = j
    BY <1>2, <2>1 DEF ChainInv
  <2>5. NeverBlockOurselves'
    BY <1>2 DEF ChainInv, NeverBlockOurselves, Whitelist
  <2> QED
    BY <1>2, <2>1, <2>2, <2>3, <2>4, <2>5 DEF ChainInv
<1>3. ASSUME NEW ip \in Sources, BlockIp(ip) PROVE ChainInv'
  <2>1. CASE BlockDeclined(ip)
    BY <1>2, <2>1 DEF BlockDeclined, defenseVars, ChainInv, DefenseTypeOK
  <2>2. CASE BlockInserted(ip) /\ ~DryRun
    BY <2>2, Inserting
  <2>3. CASE BlockInserted(ip) /\ DryRun
    BY <1>2, <2>3 DEF BlockInserted, ChainInv, DefenseTypeOK
  <2>4. CASE BlockFailed(ip)
    BY <1>2, <2>4, DefenseAssumption DEF BlockFailed, ChainInv, DefenseTypeOK
  <2> QED
    BY <1>3, <2>1, <2>2, <2>3, <2>4 DEF BlockIp
<1>4. ASSUME NEW ip \in Sources, UnblockIp(ip), flushing' \subseteq flushing \ {ip} PROVE ChainInv'
  <2>1. CASE DryRun
    BY <1>2, <1>4, <2>1 DEF UnblockIp, Deleted, ChainInv, DefenseTypeOK
  <2>2. CASE ~DryRun
    BY <1>4, <2>2, Removing
  <2> QED
    BY <2>1, <2>2
<1>5. ASSUME NEW ip \in Sources, UnblockIgnored(ip), flushing' \subseteq flushing PROVE ChainInv'
  BY <1>2, <1>5 DEF UnblockIgnored, ChainInv, DefenseTypeOK
<1>6. CASE FlushBegins
  BY <1>2, <1>6 DEF FlushBegins, ChainInv, DefenseTypeOK
<1>7. CASE NewProcess
  <2>1. Own' = 0 /\ Own >= 0 /\ Len(found) >= Len(FoundChain)
    BY <1>1, <1>7 DEF NewProcess, Own, ChainInv
  <2>2. DefenseTypeOK'
    BY <1>7, DefenseAssumption DEF NewProcess, ChainInv, DefenseTypeOK
  <2>3. Len(found') >= Len(FoundChain)
    BY <1>1, <1>7, <2>1 DEF NewProcess, Own
  <2>4. NeverBlockOurselves'
    BY <1>7 DEF NewProcess, ChainInv, NeverBlockOurselves, Whitelist
  <2>5. \A i \in 1..Len(found') : chain'[Own' + i] = found'[i]
    BY <1>1, <1>7, <2>1 DEF NewProcess
  <2> QED
    BY <1>7, <2>1, <2>2, <2>3, <2>4, <2>5 DEF NewProcess, ChainInv
<1>8. CASE UNCHANGED defenseVars
  BY <1>2, <1>8 DEF defenseVars, ChainInv, DefenseTypeOK
<1> QED
  BY <1>3, <1>4, <1>5, <1>6, <1>7, <1>8 DEF DefenseNext, FlushNext, ChainInv, DefenseTypeOK

LEMMA ChainInvariant == DefenseSpec => []ChainInv
BY ChainStart, ChainStep, PTL DEF DefenseSpec

(* A rule that was in the chain before the process started is never removed *)
(* or moved, whatever is unblocked and whenever a flush is cut short        *)
(* (active_defense.py:63-94).                                               *)
THEOREM OperatorsRulesStay == DefenseSpec => []FoundRulesUntouched
<1>1. ChainInv => FoundRulesUntouched
  <2> SUFFICES ASSUME ChainInv PROVE FoundRulesUntouched
    OBVIOUS
  <2>1. /\ chain \in Seq(Sources) /\ found \in Seq(Sources)
        /\ Len(chain) \in Nat /\ Len(found) \in Nat /\ Len(found) <= Len(chain)
    BY DEF ChainInv, DefenseTypeOK, Own
  <2> DEFINE s == Reverse(found)
             t == Reverse(chain)
  <2>2. /\ s \in Seq(Sources) /\ Len(s) = Len(found) /\ t \in Seq(Sources) /\ Len(t) = Len(chain)
        /\ \A i \in 1..Len(s) : s[i] = found[(Len(found) - i) + 1]
        /\ \A i \in 1..Len(t) : t[i] = chain[(Len(chain) - i) + 1]
    BY <2>1 DEF Reverse
  <2>3. \A i \in 1..Len(s) : s[i] = t[i]
    <3> TAKE i \in 1..Len(s)
    <3>1. (Len(found) - i) + 1 \in 1..Len(found) /\ Own + ((Len(found) - i) + 1) = (Len(chain) - i) + 1
      BY <2>1, <2>2 DEF Own
    <3>2. chain[Own + ((Len(found) - i) + 1)] = found[(Len(found) - i) + 1]
      BY <3>1 DEF ChainInv
    <3>3. i \in 1..Len(t)
      BY <2>1, <2>2
    <3>4. s[i] = found[(Len(found) - i) + 1] /\ t[i] = chain[(Len(chain) - i) + 1]
      BY <2>2, <3>3
    <3> QED
      BY <3>1, <3>2, <3>4
  <2> HIDE DEF s, t
  <2>4. SubSeq(s, 1, Len(s)) = SubSeq(t, 1, Len(s))
    BY <2>1, <2>2, <2>3
  <2> QED
    BY <2>1, <2>2, <2>4 DEF FoundRulesUntouched, IsSuffix, IsPrefix, s, t
<1>2. QED
  BY <1>1, ChainInvariant, PTL

(* The books hold exactly the addresses with a rule of this process, one    *)
(* rule each, through failing commands and repeated blocking                *)
(* (active_defense.py:28-79).                                               *)
THEOREM BooksAreTrue == DefenseSpec => []BooksMatchChain
<1>1. ChainInv => BooksMatchChain
  <2> SUFFICES ASSUME ChainInv PROVE BooksMatchChain
    OBVIOUS
  <2>1. chain \in Seq(Sources) /\ Own \in Nat /\ Own <= Len(chain) /\ Len(chain) \in Nat
    BY DEF ChainInv, DefenseTypeOK, Own
  <2>2. OwnRules \in Seq(Sources) /\ Len(OwnRules) = Own /\ \A i \in 1..Own : OwnRules[i] = chain[i]
    BY <2>1 DEF OwnRules, Own
  <2>3. ToSet(OwnRules) = {chain[i] : i \in 1..Own} /\ DOMAIN OwnRules = 1..Own
    BY <2>2 DEF ToSet
  <2>4. ToSet(OwnRules) = IF DryRun THEN {} ELSE blocked_ips
    BY <2>1, <2>3 DEF ChainInv
  <2>5. Own = Cardinality(ToSet(OwnRules))
    <3>1. OwnRules \in Bijection(1..Own, ToSet(OwnRules))
      <4>1. OwnRules \in [1..Own -> ToSet(OwnRules)]
        BY <2>1, <2>2 DEF ToSet
      <4>2. \A i, j \in 1..Own : OwnRules[i] = OwnRules[j] => i = j
        BY <2>2 DEF ChainInv
      <4>3. \A x \in ToSet(OwnRules) : \E i \in 1..Own : OwnRules[i] = x
        BY <2>2, <2>3
      <4> QED
        BY <4>1, <4>2, <4>3 DEF Bijection, Injection, Surjection, IsInjective
    <3>2. ExistsBijection(1..Own, ToSet(OwnRules))
      BY <3>1 DEF ExistsBijection
    <3>3. IsFiniteSet(1..Own) /\ Cardinality(1..Own) = Own
      BY <2>1, FS_Interval
    <3> QED
      BY <3>2, <3>3, FS_Bijection
  <2> QED
    BY <2>2, <2>4, <2>5 DEF BooksMatchChain
<1>2. QED
  BY <1>1, ChainInvariant, PTL

(* "never block ourselves, whatever an engine decides"                      *)
(* (active_defense.py:20-35).                                               *)
THEOREM WhitelistSpared == DefenseSpec => []NeverBlockOurselves
<1>1. ChainInv => NeverBlockOurselves
  BY DEF ChainInv
<1>2. QED
  BY <1>1, ChainInvariant, PTL

--------------------------------------------------------------------------------
(* 2. The table of recent alerts.                                           *)

(* The number of publications is the length of the log, and a call in       *)
(* progress is the one published last.                                      *)
CallInProgress ==
    /\ Len(log) = total
    /\ phase # "idle" => total > 0 /\ log[total].key = DedupKey(current)

(* Each entry of the table is the time of some publication of its key ...   *)
EntriesLogged ==
    \A k \in DOMAIN recent_alerts :
        \E i \in 1..Len(log) : log[i].key = k /\ log[i].at = recent_alerts[k]

LogIsPast == \A i \in 1..Len(log) : log[i].at <= now

(* ... and a publication that can still suppress is in the table, or a      *)
(* later one of its key is.                                                 *)
FreshRemembered ==
    \A i \in 1..Len(log) :
        now - log[i].at < DedupSeconds =>
            /\ log[i].key \in DOMAIN recent_alerts
            /\ log[i].at <= recent_alerts[log[i].key]

TableMatchesLog == EntriesLogged /\ LogIsPast /\ FreshRemembered

TypeInv == TypeOK /\ CallInProgress

LEMMA DedupKeyType ==
    ASSUME NEW call \in Calls
    PROVE  /\ KindOf(call) \in Kinds
           /\ call.src \in Sources \cup {NoSource}
           /\ DedupKey(call) \in Keys
  BY DispatcherAssumption DEF KindOf, DedupKey, Keys

(* A block attempt leaves the firewall side well typed. *)
LEMMA DefenseTyping ==
    ASSUME DefenseTypeOK, NEW ip \in Sources, BlockIp(ip)
    PROVE  DefenseTypeOK'
<1>1. CASE BlockDeclined(ip)
  BY <1>1 DEF DefenseTypeOK, BlockDeclined, defenseVars
<1>2. CASE BlockInserted(ip)
  <2>1. <<ip>> \in Seq(Sources)
    OBVIOUS
  <2>2. chain' \in Seq(Sources)
    BY <1>2, <2>1 DEF DefenseTypeOK, BlockInserted
  <2>3. QED
    BY <1>2, <2>2 DEF DefenseTypeOK, BlockInserted
<1>3. CASE BlockFailed(ip)
  BY <1>3, DefenseAssumption DEF DefenseTypeOK, BlockFailed
<1>4. QED
  BY <1>1, <1>2, <1>3 DEF BlockIp

(* The table is still a dictionary of clock values after an alert was       *)
(* remembered, and it holds no time the old table or the clock did not.     *)
LEMMA RememberType ==
    ASSUME TypeOK, NEW key \in Keys
    PROVE  /\ IsDict(Remember(key), Keys, Nat)
           /\ \A k \in DOMAIN Remember(key) :
                 IF k = key THEN Remember(key)[k] = now
                 ELSE k \in DOMAIN recent_alerts /\ Remember(key)[k] = recent_alerts[k]
<1>1. /\ DOMAIN Updated(key) = DOMAIN recent_alerts \cup {key}
      /\ \A k \in DOMAIN Updated(key) :
            Updated(key)[k] = IF k = key THEN now ELSE recent_alerts[k]
  BY DEF Updated
<1>2. IsDict(Updated(key), Keys, Nat)
  <2>1. /\ DOMAIN recent_alerts \subseteq Keys
        /\ \A k \in DOMAIN recent_alerts : recent_alerts[k] \in Nat
        /\ now \in Nat
    BY DispatcherAssumption DEF TypeOK, IsDict
  <2>2. Updated(key) = [k \in DOMAIN Updated(key) |-> Updated(key)[k]]
    BY DEF Updated
  <2>3. QED
    BY <1>1, <2>1, <2>2 DEF IsDict
<1>3. CASE Remember(key) = Updated(key)
  BY <1>1, <1>2, <1>3
<1>4. CASE Remember(key) = Pruned(Updated(key))
  <2>1. /\ DOMAIN Remember(key) \subseteq DOMAIN Updated(key)
        /\ \A k \in DOMAIN Remember(key) : Remember(key)[k] = Updated(key)[k]
        /\ Remember(key) = [k \in DOMAIN Remember(key) |-> Remember(key)[k]]
    BY <1>4 DEF Pruned
  <2>2. QED
    BY <1>1, <1>2, <2>1 DEF IsDict
<1>5. QED
  BY <1>3, <1>4 DEF Remember

(* What pruning removes is too old to suppress anything. *)
LEMMA RememberKeepsFresh ==
    ASSUME TypeOK, NEW key \in Keys
    PROVE  /\ key \in DOMAIN Remember(key)
           /\ \A k \in DOMAIN recent_alerts :
                 now - recent_alerts[k] < DedupSeconds => k \in DOMAIN Remember(key)
<1>1. /\ DOMAIN Updated(key) = DOMAIN recent_alerts \cup {key}
      /\ \A k \in DOMAIN Updated(key) :
            Updated(key)[k] = IF k = key THEN now ELSE recent_alerts[k]
  BY DEF Updated
<1>2. /\ now \in Nat /\ DedupSeconds \in Nat /\ Cutoff \in Int /\ Cutoff <= now
      /\ Cutoff <= now - DedupSeconds
  BY DispatcherAssumption DEF TypeOK, Cutoff
<1>3. \A k \in DOMAIN recent_alerts : recent_alerts[k] \in Nat
  BY DEF TypeOK, IsDict
<1>4. CASE Remember(key) = Updated(key)
  BY <1>1, <1>4
<1>5. CASE Remember(key) = Pruned(Updated(key))
  <2>1. DOMAIN Remember(key) = {k \in DOMAIN Updated(key) : Updated(key)[k] >= Cutoff}
    BY <1>5 DEF Pruned
  <2>2. QED
    BY <1>1, <1>2, <1>3, <2>1
<1>6. QED
  BY <1>4, <1>5 DEF Remember

LEMMA InitTyping == Init => TypeInv
<1>1. ASSUME Init PROVE DefenseTypeOK
  BY <1>1, DefenseAssumption DEF Init, DefenseInit, DefenseTypeOK
<1>2. ASSUME Init PROVE IsDict(recent_alerts, Keys, Nat)
  BY <1>2 DEF Init, IsDict, EmptyDict
<1>3. ASSUME Init PROVE sinks \in [SinkNames -> Seq(Entries)]
  BY <1>3 DEF Init
<1>4. ASSUME Init PROVE log \in Seq([key : Keys, at : Nat]) /\ Len(log) = 0
  BY <1>4 DEF Init
<1>5. ASSUME Init
      PROVE  /\ by_kind \in [Kinds -> Nat] /\ label \in Labels /\ blocked \subseteq Sources
             /\ now \in 0..MaxTime /\ total \in 0..MaxAlerts
  BY <1>5, DispatcherAssumption DEF Init, Labels
<1>6. QED
  BY <1>1, <1>2, <1>3, <1>4, <1>5 DEF Init, TypeInv, TypeOK, CallInProgress

(* The steps that publish nothing keep the types. *)
LEMMA QuietTyping ==
    ASSUME TypeInv, Tick \/ (\E call \in Calls : DispatchDuplicate(call)) \/ UNCHANGED vars
    PROVE  TypeInv'
<1> USE DEF TypeInv, TypeOK, CallInProgress, DefenseTypeOK, tableVars, defenseVars
<1>1. CASE Tick
  <2>1. now' \in 0..MaxTime
    BY <1>1, DispatcherAssumption DEF Tick
  <2>2. QED
    BY <1>1, <2>1 DEF Tick, DedupKey, KindOf, IsDict
<1>2. ASSUME NEW call \in Calls, DispatchDuplicate(call) PROVE TypeInv'
  <2>1. meta' \in [key : Keys, suppressed : BOOLEAN]
    BY <1>2, DedupKeyType DEF DispatchDuplicate
  <2>2. QED
    BY <1>2, <2>1 DEF DispatchDuplicate, DedupKey, KindOf, IsDict
<1>3. CASE UNCHANGED vars
  BY <1>3 DEF vars, DedupKey, KindOf, IsDict
<1>4. QED
  BY <1>1, <1>2, <1>3

(* So does the step that accepts an alert. *)
LEMMA DispatchNewTyping ==
    ASSUME TypeInv, NEW call \in Calls, DispatchNew(call)
    PROVE  TypeInv'
<1> USE DEF TypeInv
<1>1. DedupKey(call) \in Keys /\ KindOf(call) \in Kinds
  BY DedupKeyType
<1>2. IsDict(recent_alerts', Keys, Nat)
  BY <1>1, RememberType DEF DispatchNew
<1>3. /\ log' = Append(log, [key |-> DedupKey(call), at |-> now])
      /\ log \in Seq([key : Keys, at : Nat])
      /\ now \in Nat
  BY DispatcherAssumption DEF DispatchNew, TypeOK
<1>4. /\ log' \in Seq([key : Keys, at : Nat])
      /\ Len(log') = Len(log) + 1
      /\ log'[Len(log) + 1].key = DedupKey(call)
  BY <1>1, <1>3
<1>5. /\ total' = total + 1 /\ total' \in 0..MaxAlerts /\ total' > 0 /\ Len(log) = total
  BY DispatcherAssumption DEF DispatchNew, TypeOK, CallInProgress
<1>6. by_kind' \in [Kinds -> Nat]
  BY <1>1 DEF DispatchNew, TypeOK
<1>7. meta' \in [key : Keys, suppressed : BOOLEAN]
  BY <1>1 DEF DispatchNew
<1>8. DefenseTypeOK'
  BY DEF DispatchNew, TypeOK, DefenseTypeOK, defenseVars
<1>9. DedupKey(current)' = DedupKey(call)
  BY DEF DispatchNew, DedupKey, KindOf
<1>10. TypeOK'
  BY <1>2, <1>4, <1>5, <1>6, <1>7, <1>8 DEF DispatchNew, TypeOK
<1>11. CallInProgress'
  BY <1>4, <1>5, <1>9 DEF CallInProgress
<1>12. QED
  BY <1>10, <1>11

(* ... the response ... *)
LEMMA RespondTyping ==
    ASSUME TypeInv, maybe_blockRefuses \/ maybe_blockBlocks
    PROVE  TypeInv'
<1> USE DEF TypeInv
<1>1. phase = "respond" /\ phase' = "report" /\ current' = current
  BY DEF maybe_blockRefuses, maybe_blockBlocks
<1>2. current \in Calls
  BY <1>1 DEF TypeOK
<1>3. label' \in Labels
  BY DEF maybe_blockRefuses, maybe_blockBlocks, StatusLabel, Labels
<1>4. BlockWanted(current.src, KindOf(current)) => current.src \in Sources
  BY <1>2, DedupKeyType DEF BlockWanted
<1>5. DefenseTypeOK' /\ blocked' \subseteq Sources
  <2>1. CASE maybe_blockBlocks
    BY <1>4, <2>1, DefenseTyping DEF maybe_blockBlocks, BlockIp, TypeOK
  <2>2. CASE maybe_blockRefuses /\ UNCHANGED defenseVars
    BY <2>2 DEF maybe_blockRefuses, defenseVars, TypeOK, DefenseTypeOK
  <2>3. CASE maybe_blockRefuses /\ BlockWanted(current.src, KindOf(current))
                                /\ BlockIp(current.src)
    BY <1>4, <2>3, DefenseTyping DEF maybe_blockRefuses, TypeOK
  <2>4. QED
    BY <2>1, <2>2, <2>3 DEF maybe_blockRefuses, BlockIp
<1>6. TypeOK'
  BY <1>1, <1>2, <1>3, <1>5
  DEF maybe_blockRefuses, maybe_blockBlocks, tableVars, TypeOK, SinkNames, IsDict
<1>7. CallInProgress'
  BY <1>1 DEF maybe_blockRefuses, maybe_blockBlocks, tableVars, CallInProgress,
              DedupKey, KindOf
<1>8. QED
  BY <1>6, <1>7

(* ... and the delivery to the sinks. *)
LEMMA SinkTyping ==
    ASSUME TypeInv, NEW s \in SinkNames, SinkSkipped(s) \/ SinkWritten(s)
    PROVE  TypeInv'
<1> USE DEF TypeInv
<1>1. /\ phase = s /\ phase' = After(s)
      /\ current' = current /\ log' = log /\ total' = total
      /\ recent_alerts' = recent_alerts
  BY DEF SinkSkipped, SinkWritten, tableVars
<1>2. phase' \in {"idle"} \cup SinkNames /\ phase # "idle"
  BY <1>1 DEF After, SinkNames
<1>3. total \in 1..MaxAlerts /\ label \in Labels
  BY <1>2, DispatcherAssumption DEF CallInProgress, TypeOK
<1>4. sinks' \in [SinkNames -> Seq(Entries)]
  <2>1. CASE SinkSkipped(s)
    BY <2>1 DEF SinkSkipped, TypeOK
  <2>2. CASE SinkWritten(s)
    <3>1. [no |-> total, label |-> label] \in Entries
      BY <1>3 DEF Entries
    <3>2. sinks[s] \in Seq(Entries)
      BY DEF TypeOK
    <3>3. Append(sinks[s], [no |-> total, label |-> label]) \in Seq(Entries)
      BY <3>1, <3>2
    <3>4. QED
      BY <2>2, <3>3 DEF SinkWritten, TypeOK
  <2>3. QED
    BY <2>1, <2>2
<1>5. TypeOK'
  BY <1>1, <1>2, <1>4
  DEF SinkSkipped, SinkWritten, tableVars, defenseVars, TypeOK, DefenseTypeOK, IsDict
<1>6. CallInProgress'
  BY <1>1, <1>2 DEF CallInProgress, DedupKey, KindOf
<1>7. QED
  BY <1>5, <1>6

(* Every reachable state of the dispatcher is well typed, and a call in     *)
(* progress is the one published last (dispatcher.py:62-124).               *)
THEOREM Typing == Spec => []TypeInv
<1>1. Init => TypeInv
  BY InitTyping
<1>2. TypeInv /\ [Next]_vars => TypeInv'
  BY QuietTyping, DispatchNewTyping, RespondTyping, SinkTyping DEF Next
<1>3. QED
  BY <1>1, <1>2, PTL DEF Spec

LogInv == TypeInv /\ TableMatchesLog

LEMMA ClockValues ==
    ASSUME TypeInv
    PROVE  /\ now \in Nat /\ DedupSeconds \in Nat
           /\ log \in Seq([key : Keys, at : Nat])
           /\ \A i \in 1..Len(log) : log[i].key \in Keys /\ log[i].at \in Nat
           /\ \A k \in DOMAIN recent_alerts : recent_alerts[k] \in Nat
<1>1. log \in Seq([key : Keys, at : Nat])
  BY DEF TypeInv, TypeOK
<1>2. \A i \in 1..Len(log) : log[i] \in [key : Keys, at : Nat]
  BY <1>1, ElementOfSeq
<1>3. \A i \in 1..Len(log) : log[i].key \in Keys /\ log[i].at \in Nat
  BY <1>2
<1>4. now \in Nat /\ DedupSeconds \in Nat
  BY DispatcherAssumption DEF TypeInv, TypeOK
<1>5. \A k \in DOMAIN recent_alerts : recent_alerts[k] \in Nat
  BY DEF TypeInv, TypeOK, IsDict
<1>6. QED
  BY <1>1, <1>3, <1>4, <1>5

(* The pruned table and the full log give the same answer for every key.    *)
LEMMA TableDecidesAsLog ==
    ASSUME LogInv, NEW key \in Keys
    PROVE  IsDuplicate(key) <=> AbstractLog!Repeats(key)
<1>1. /\ now \in Nat /\ DedupSeconds \in Nat
      /\ \A i \in 1..Len(log) : log[i].at \in Nat
      /\ \A k \in DOMAIN recent_alerts : recent_alerts[k] \in Nat
  BY ClockValues DEF LogInv
<1>2. ASSUME IsDuplicate(key) PROVE AbstractLog!Repeats(key)
  <2>1. PICK i \in 1..Len(log) : log[i].key = key /\ log[i].at = recent_alerts[key]
    BY <1>2 DEF IsDuplicate, LogInv, TableMatchesLog, EntriesLogged
  <2>2. QED
    BY <1>2, <2>1 DEF IsDuplicate, AbstractLog!Repeats
<1>3. ASSUME AbstractLog!Repeats(key) PROVE IsDuplicate(key)
  <2>1. PICK i \in 1..Len(log) : log[i].key = key /\ now - log[i].at < DedupSeconds
    BY <1>3 DEF AbstractLog!Repeats
  <2>2. /\ key \in DOMAIN recent_alerts
        /\ log[i].at <= recent_alerts[key]
    BY <2>1 DEF LogInv, TableMatchesLog, EntriesLogged, LogIsPast, FreshRemembered
  <2>3. log[i].at <= now
    BY DEF LogInv, TableMatchesLog, EntriesLogged, LogIsPast, FreshRemembered
  <2>4. QED
    BY <1>1, <2>1, <2>2, <2>3 DEF IsDuplicate
<1>4. QED
  BY <1>2, <1>3

(* Accepting an alert keeps the table in step with the log: the new entry   *)
(* stands for the new publication, and only stale entries were pruned.      *)
LEMMA DispatchNewTable ==
    ASSUME LogInv, NEW call \in Calls, DispatchNew(call)
    PROVE  TableMatchesLog'
<1> DEFINE key == DedupKey(call)
<1>1. key \in Keys
  BY DedupKeyType
<1>2. /\ log' = Append(log, [key |-> key, at |-> now])
      /\ recent_alerts' = Remember(key) /\ now' = now
  BY DEF DispatchNew
<1>3. /\ log \in Seq([key : Keys, at : Nat]) /\ now \in Nat /\ DedupSeconds \in Nat
      /\ \A i \in 1..Len(log) : log[i].at \in Nat
      /\ \A k \in DOMAIN recent_alerts : recent_alerts[k] \in Nat
  BY ClockValues DEF LogInv
<1>4. /\ Len(log') = Len(log) + 1
      /\ \A i \in 1..Len(log) : log'[i] = log[i]
      /\ log'[Len(log) + 1] = [key |-> key, at |-> now]
  BY <1>1, <1>2, <1>3
<1>5. \A k \in DOMAIN Remember(key) :
         IF k = key THEN Remember(key)[k] = now
         ELSE k \in DOMAIN recent_alerts /\ Remember(key)[k] = recent_alerts[k]
  BY <1>1, RememberType DEF LogInv, TypeInv
<1>6. /\ key \in DOMAIN Remember(key)
      /\ \A k \in DOMAIN recent_alerts :
            now - recent_alerts[k] < DedupSeconds => k \in DOMAIN Remember(key)
  BY <1>1, RememberKeepsFresh DEF LogInv, TypeInv
<1>7. ASSUME NEW k \in DOMAIN Remember(key)
      PROVE  \E i \in 1..Len(log') : log'[i].key = k /\ log'[i].at = Remember(key)[k]
  <2>1. CASE k = key
    <3>1. log'[Len(log) + 1].key = k /\ log'[Len(log) + 1].at = Remember(key)[k]
      BY <1>4, <1>5, <1>7, <2>1
    <3>2. QED
      BY <1>3, <1>4, <3>1
  <2>2. CASE k # key
    <3>1. PICK i \in 1..Len(log) : log[i].key = k /\ log[i].at = recent_alerts[k]
      BY <1>5, <1>7, <2>2 DEF LogInv, TableMatchesLog, EntriesLogged, LogIsPast, FreshRemembered
    <3>2. QED
      BY <1>3, <1>4, <1>5, <1>7, <2>2, <3>1
  <2>3. QED
    BY <2>1, <2>2
<1>8. ASSUME NEW i \in 1..Len(log') PROVE log'[i].at <= now
  <2>1. CASE i = Len(log) + 1
    BY <1>3, <1>4, <2>1
  <2>2. CASE i \in 1..Len(log)
    BY <1>4, <2>2 DEF LogInv, TableMatchesLog, LogIsPast
  <2>3. QED
    BY <1>4, <1>8, <2>1, <2>2
<1>9. ASSUME NEW i \in 1..Len(log'), now - log'[i].at < DedupSeconds
      PROVE  /\ log'[i].key \in DOMAIN Remember(key)
             /\ log'[i].at <= Remember(key)[log'[i].key]
  <2>1. CASE i = Len(log) + 1
    BY <1>3, <1>4, <1>5, <1>6, <2>1
  <2>2. CASE i \in 1..Len(log)
    <3>1. log'[i] = log[i] /\ log[i].at \in Nat /\ log[i].at <= now
      BY <1>3, <1>4, <2>2 DEF LogInv, TableMatchesLog, EntriesLogged, LogIsPast, FreshRemembered
    <3>2. /\ log[i].key \in DOMAIN recent_alerts
          /\ log[i].at <= recent_alerts[log[i].key]
      BY <1>9, <2>2, <3>1 DEF LogInv, TableMatchesLog, EntriesLogged, LogIsPast, FreshRemembered
    <3>3. log[i].key \in DOMAIN Remember(key)
      BY <1>3, <1>6, <1>9, <3>1, <3>2, SMTT(30)
    <3>4. QED
      BY <1>3, <1>5, <3>1, <3>2, <3>3
  <2>3. QED
    BY <1>3, <1>4, <2>1, <2>2
<1>10. QED
  BY <1>2, <1>7, <1>8, <1>9 DEF TableMatchesLog, EntriesLogged, LogIsPast, FreshRemembered

LEMMA TableStep == LogInv /\ [Next]_vars => LogInv'
<1> SUFFICES ASSUME LogInv, [Next]_vars PROVE LogInv'
  OBVIOUS
<1>1. TypeInv'
  BY QuietTyping, DispatchNewTyping, RespondTyping, SinkTyping DEF Next, LogInv
<1>2. ASSUME NEW call \in Calls, DispatchNew(call) PROVE TableMatchesLog'
  BY <1>2, DispatchNewTable
<1>3. CASE Tick
  <2>1. now \in Nat /\ now' = now + 1 /\ log' = log /\ recent_alerts' = recent_alerts
    BY <1>3, DispatcherAssumption DEF Tick, tableVars, LogInv, TypeInv, TypeOK
  <2>2. DedupSeconds \in Nat /\ \A i \in 1..Len(log) : log[i].at \in Nat
    BY ClockValues DEF LogInv
  <2>3. EntriesLogged'
    BY <2>1 DEF LogInv, TableMatchesLog, EntriesLogged
  <2>4. LogIsPast'
    BY <2>1, <2>2 DEF LogInv, TableMatchesLog, LogIsPast
  <2>5. FreshRemembered'
    BY <2>1, <2>2 DEF LogInv, TableMatchesLog, FreshRemembered
  <2>6. QED
    BY <1>1, <2>3, <2>4, <2>5 DEF LogInv, TableMatchesLog
<1>4. CASE UNCHANGED <<now, tableVars>>
  <2>1. log' = log /\ recent_alerts' = recent_alerts /\ now' = now
    BY <1>4 DEF tableVars
  <2>2. EntriesLogged'
    BY <2>1 DEF LogInv, TableMatchesLog, EntriesLogged
  <2>3. LogIsPast'
    BY <2>1 DEF LogInv, TableMatchesLog, LogIsPast
  <2>4. FreshRemembered'
    BY <2>1 DEF LogInv, TableMatchesLog, FreshRemembered
  <2>5. QED
    BY <1>1, <2>2, <2>3, <2>4 DEF LogInv, TableMatchesLog
<1>5. QED
  BY <1>1, <1>2, <1>3, <1>4
  DEF LogInv, Next, vars, DispatchDuplicate, maybe_blockRefuses, maybe_blockBlocks,
      SinkSkipped, SinkWritten

LEMMA TableInvariant == Spec => []LogInv
<1>1. Init => LogInv
  <2>1. Init => Len(log) = 0 /\ DOMAIN recent_alerts = {}
    BY DEF Init, EmptyDict
  <2>2. QED
    BY <2>1, InitTyping DEF LogInv, TableMatchesLog, EntriesLogged, LogIsPast, FreshRemembered
<1>2. QED
  BY <1>1, TableStep, PTL DEF Spec

(* An alert accepted now is a full window away from any earlier one of its  *)
(* key.                                                                     *)
LEMMA NoRepeatStep == LogInv /\ NoRepeatInWindow /\ [Next]_vars => NoRepeatInWindow'
<1> SUFFICES ASSUME LogInv, NoRepeatInWindow, [Next]_vars PROVE NoRepeatInWindow'
  OBVIOUS
<1>1. ASSUME NEW call \in Calls, DispatchNew(call) PROVE NoRepeatInWindow'
  <2> DEFINE key == DedupKey(call)
  <2>1. key \in Keys
    BY DedupKeyType
  <2>2. /\ log \in Seq([key : Keys, at : Nat]) /\ now \in Nat /\ DedupSeconds \in Nat
        /\ \A i \in 1..Len(log) : log[i].at \in Nat
    BY ClockValues DEF LogInv
  <2>3. /\ Len(log') = Len(log) + 1
        /\ \A i \in 1..Len(log) : log'[i] = log[i]
        /\ log'[Len(log) + 1] = [key |-> key, at |-> now]
    BY <1>1, <2>1, <2>2 DEF DispatchNew
  <2>4. ~AbstractLog!Repeats(key)
    BY <1>1, <2>1, TableDecidesAsLog DEF DispatchNew
  <2>5. \A i \in 1..Len(log) : log[i].key = key => now - log[i].at >= DedupSeconds
    BY <2>2, <2>4 DEF AbstractLog!Repeats
  <2>6. ASSUME NEW i \in 1..Len(log'), NEW j \in 1..Len(log'),
               i < j, log'[i].key = log'[j].key
        PROVE  log'[j].at - log'[i].at >= DedupSeconds
    <3>1. CASE j = Len(log) + 1
      BY <2>2, <2>3, <2>5, <2>6, <3>1
    <3>2. CASE j \in 1..Len(log)
      <4>1. i \in 1..Len(log) /\ log'[i] = log[i] /\ log'[j] = log[j]
        BY <2>2, <2>3, <2>6, <3>2
      <4>2. QED
        BY <2>6, <3>2, <4>1 DEF NoRepeatInWindow
    <3>3. QED
      BY <2>2, <2>3, <3>1, <3>2
  <2>7. QED
    BY <2>6 DEF NoRepeatInWindow
<1>2. CASE log' = log
  BY <1>2 DEF NoRepeatInWindow
<1>3. QED
  BY <1>1, <1>2
  DEF Next, vars, tableVars, Tick, DispatchDuplicate, maybe_blockRefuses,
      maybe_blockBlocks, SinkSkipped, SinkWritten

(* Deduplication holds for every window, every table limit and every        *)
(* interleaving of the clock (dispatcher.py:72-84).                         *)
THEOREM Deduplication == Spec => []NoRepeatInWindow
<1>1. Init => NoRepeatInWindow
  <2>1. Init => Len(log) = 0
    BY DEF Init
  <2>2. QED
    BY <2>1 DEF NoRepeatInWindow
<1>2. QED
  BY <1>1, TableInvariant, NoRepeatStep, PTL DEF Spec

(* The dispatcher's bounded table implements the unbounded alert log: every *)
(* answer dispatch gives, published or suppressed, is the one the full      *)
(* history calls for (dispatcher.py:72-87).                                 *)
THEOREM Refinement == Spec => ImplementsAlertLog
<1>1. Init => AbstractLog!Init
  BY DEF Init, AbstractLog!Init
<1>2. LogInv /\ [Next]_vars => [AbstractLog!Next]_AbstractLog!logVars
  <2> SUFFICES ASSUME LogInv, [Next]_vars
               PROVE  [AbstractLog!Next]_AbstractLog!logVars
    OBVIOUS
  <2>1. CASE Tick
    BY <2>1 DEF Tick, tableVars, AbstractLog!Next, AbstractLog!Tick
  <2>2. ASSUME NEW call \in Calls, DispatchDuplicate(call) PROVE AbstractLog!Next
    <3>1. AbstractLog!Suppress(DedupKey(call))
      BY <2>2, DedupKeyType, TableDecidesAsLog
      DEF DispatchDuplicate, tableVars, AbstractLog!Suppress, AbstractLog!Answer
    <3>2. QED
      BY <3>1, DedupKeyType DEF AbstractLog!Next
  <2>3. ASSUME NEW call \in Calls, DispatchNew(call) PROVE AbstractLog!Next
    <3>1. AbstractLog!Publish(DedupKey(call))
      BY <2>3, DedupKeyType, TableDecidesAsLog
      DEF DispatchNew, AbstractLog!Publish, AbstractLog!Answer
    <3>2. QED
      BY <3>1, DedupKeyType DEF AbstractLog!Next
  <2>4. CASE UNCHANGED <<now, log, meta>>
    BY <2>4 DEF AbstractLog!logVars
  <2>5. QED
    BY <2>1, <2>2, <2>3, <2>4
    DEF Next, vars, tableVars, maybe_blockRefuses, maybe_blockBlocks, SinkSkipped,
        SinkWritten
<1>3. QED
  BY <1>1, <1>2, TableInvariant, PTL DEF Spec, ImplementsAlertLog, AbstractLog!Spec

--------------------------------------------------------------------------------
(* 3. A source is dropped only for a reason.                                *)

(* The rules of this process are at the head of the chain.                  *)
ChainGrew == Len(chain) >= Len(found)

DropInv == TypeInv /\ ChainGrew /\ DropJustified

LEMMA OwnRulesGrow ==
    ASSUME DefenseTypeOK, ChainGrew, NEW ip \in Sources, BlockInserted(ip)
    PROVE  ChainGrew' /\ ToSet(OwnRules)' \subseteq ToSet(OwnRules) \cup {ip}
<1>1. /\ chain \in Seq(Sources) /\ found \in Seq(Sources)
      /\ Len(found) \in Nat /\ Len(chain) \in Nat
  BY DEF DefenseTypeOK
<1>2. CASE DryRun
  BY <1>2 DEF BlockInserted, ChainGrew, OwnRules, ToSet
<1>3. CASE ~DryRun
  <2>1. /\ chain' = <<ip>> \o chain
        /\ found' = found
        /\ Len(chain') = Len(chain) + 1
        /\ chain'[1] = ip
        /\ \A i \in 2..Len(chain') : chain'[i] = chain[i - 1]
    BY <1>1, <1>3 DEF BlockInserted
  <2>2. ASSUME NEW x \in ToSet(OwnRules)' PROVE x \in ToSet(OwnRules) \cup {ip}
    <3> DEFINE n == Len(chain) - Len(found)
    <3>1. n \in Nat /\ n <= Len(chain) /\ Len(chain') - Len(found) = n + 1
      BY <1>1, <2>1 DEF ChainGrew
    <3>2. /\ DOMAIN OwnRules = 1..n
          /\ \A i \in 1..n : OwnRules[i] = chain[i]
      BY <1>1, <3>1 DEF OwnRules
    <3>3. chain' \in Seq(Sources)
      BY <1>1, <2>1
    <3>4. /\ DOMAIN OwnRules' = 1..(n + 1)
          /\ \A i \in 1..(n + 1) : OwnRules'[i] = chain'[i]
      BY <2>1, <3>1, <3>3 DEF OwnRules
    <3>5. PICK i \in 1..(n + 1) : x = chain'[i]
      BY <2>2, <3>4 DEF ToSet
    <3>6. CASE i = 1
      BY <2>1, <3>5, <3>6
    <3>7. CASE i \in 2..(n + 1)
      <4>1. i - 1 \in 1..n /\ x = chain[i - 1]
        BY <2>1, <3>1, <3>5, <3>7
      <4>2. QED
        BY <3>2, <4>1 DEF ToSet
    <3>8. QED
      BY <3>1, <3>6, <3>7
  <2>3. QED
    BY <1>1, <2>1, <2>2 DEF ChainGrew
<1>4. QED
  BY <1>2, <1>3 DEF BlockInserted

(* Publications are never forgotten, so a justification stays one.          *)
LEMMA JustifiedStays ==
    ASSUME TypeInv, [Next]_vars, NEW ip, Justified(ip)
    PROVE  Justified(ip)'
<1>1. CASE log' = log
  BY <1>1 DEF Justified
<1>2. ASSUME NEW call \in Calls, DispatchNew(call) PROVE Justified(ip)'
  <2>1. /\ log \in Seq([key : Keys, at : Nat])
        /\ log' = Append(log, [key |-> DedupKey(call), at |-> now])
    BY <1>2, ClockValues DEF DispatchNew
  <2>2. /\ Len(log') = Len(log) + 1
        /\ \A i \in 1..Len(log) : i \in 1..Len(log') /\ log'[i] = log[i]
    BY <2>1
  <2>3. QED
    BY <2>2 DEF Justified
<1>3. QED
  BY <1>1, <1>2
  DEF Next, vars, tableVars, Tick, DispatchDuplicate, maybe_blockRefuses,
      maybe_blockBlocks, SinkSkipped, SinkWritten

LEMMA DropStep == DropInv /\ [Next]_vars => DropInv'
<1> SUFFICES ASSUME DropInv, [Next]_vars PROVE DropInv'
  OBVIOUS
<1>1. TypeInv'
  BY QuietTyping, DispatchNewTyping, RespondTyping, SinkTyping DEF Next, DropInv
<1>2. ASSUME NEW ip, Justified(ip) PROVE Justified(ip)'
  BY <1>2, JustifiedStays DEF DropInv
<1>3. CASE maybe_blockBlocks
  <2> DEFINE src == current.src
  <2>1. /\ phase = "respond" /\ BlockWanted(src, KindOf(current)) /\ BlockInserted(src)
        /\ current \in Calls /\ log' = log
    BY <1>3 DEF maybe_blockBlocks, tableVars, DropInv, TypeInv, TypeOK
  <2>2. src \in Sources
    BY <2>1, DedupKeyType DEF BlockWanted
  <2>3. total \in 1..Len(log) /\ log[total].key = DedupKey(current)
    BY <2>1, DispatcherAssumption DEF DropInv, TypeInv, TypeOK, CallInProgress
  <2>4. Justified(src)
    <3>1. log[total].key[2] = src /\ log[total].key[1] = KindOf(current)
      BY <2>3 DEF DedupKey
    <3>2. src \notin Whitelist \cup ConfigWhitelist
      BY <2>1 DEF BlockWanted, BlockInserted, BlockPermitted
    <3>3. QED
      BY <2>1, <2>3, <3>1, <3>2 DEF BlockWanted, Justified
  <2>5. ChainGrew' /\ ToSet(OwnRules)' \subseteq ToSet(OwnRules) \cup {src}
    BY <2>1, <2>2, OwnRulesGrow DEF DropInv, TypeInv, TypeOK
  <2>6. DropJustified'
    BY <1>2, <2>4, <2>5 DEF DropJustified, DropInv
  <2>7. QED
    BY <1>1, <2>5, <2>6 DEF DropInv
<1>4. CASE chain' = chain /\ found' = found
  <2>1. ChainGrew' /\ ToSet(OwnRules)' = ToSet(OwnRules)
    BY <1>4 DEF DropInv, ChainGrew, OwnRules, ToSet
  <2>2. DropJustified'
    BY <1>2, <2>1 DEF DropJustified, DropInv
  <2>3. QED
    BY <1>1, <2>1, <2>2 DEF DropInv
<1>5. QED
  BY <1>3, <1>4
  DEF Next, vars, defenseVars, Tick, DispatchDuplicate, DispatchNew,
      maybe_blockRefuses, BlockDeclined, BlockFailed, SinkSkipped, SinkWritten

(* No call, source or policy setting lets MANTIS insert a DROP rule that    *)
(* NFR-3 does not allow: blocking off, kind not listed, whitelisted address *)
(* (dispatcher.py:127-156, active_defense.py:31-61).                        *)
THEOREM BlockingPolicy == Spec => []DropJustified
<1>1. Init => DropInv
  <2>1. Init => Len(chain) = Len(found) /\ Len(found) \in Nat
    BY DefenseAssumption DEF Init, DefenseInit
  <2>2. Init => ToSet(OwnRules) = {}
    BY <2>1, DefenseAssumption DEF Init, DefenseInit, OwnRules, ToSet
  <2>3. QED
    BY <2>1, <2>2, InitTyping DEF DropInv, ChainGrew, DropJustified
<1>2. QED
  BY <1>1, DropStep, PTL DEF Spec, DropInv

--------------------------------------------------------------------------------
(* 4. What the dispatcher tells its four sinks, how long its table gets,   *)
(* and whether the labels tell what the firewall did.                      *)

(* What a sink was told, and what any of them was.                          *)
Told(s) == {sinks[s][i] : i \in 1..Len(sinks[s])}

Sent == UNION {Told(s) : s \in SinkNames}

(* The sinks the call in progress has still to visit.                       *)
Waiting ==
    CASE phase \in {"respond", "report"} -> SinkNames
      [] phase = "csv" -> {"csv", "siem", "ui"}
      [] phase = "siem" -> {"siem", "ui"}
      [] phase = "ui" -> {"ui"}
      [] OTHER -> {}

InOrder ==
    \A s \in SinkNames : \A i, j \in 1..Len(sinks[s]) : i < j => sinks[s][i].no < sinks[s][j].no

(* A sink still to be visited knows only of earlier publications.           *)
WaitingBehind == \A s \in Waiting : \A e \in Told(s) : e.no < total

(* The entries of one publication agree, with one another and with the      *)
(* label that the sinks to come will be given.                              *)
LabelsAgree ==
    /\ \A e, f \in Sent : e.no = f.no => e.label = f.label
    /\ phase \in SinkNames => \A e \in Sent : e.no = total => e.label = label

UiComplete ==
    "ui" \in Attached => Len(sinks["ui"]) = IF phase = "idle" THEN total ELSE total - 1

(* No sink knows of a publication that was not counted.                      *)
NothingAhead == \A e \in Sent : e.no <= total

DeliveryInv ==
    TypeInv /\ InOrder /\ NothingAhead /\ WaitingBehind /\ LabelsAgree /\ UiComplete

LEMMA EntryTypes ==
    ASSUME TypeInv
    PROVE  /\ total \in Nat
           /\ \A s \in SinkNames : sinks[s] \in Seq(Entries) /\ Len(sinks[s]) \in Nat
           /\ \A s \in SinkNames : \A i \in 1..Len(sinks[s]) : sinks[s][i] \in Entries
           /\ \A e \in Sent : e \in Entries /\ e.no \in Nat /\ e.label \in Labels
<1>1. total \in Nat /\ MaxAlerts \in Nat
  BY DispatcherAssumption DEF TypeInv, TypeOK
<1>2. \A s \in SinkNames : sinks[s] \in Seq(Entries)
  BY DEF TypeInv, TypeOK
<1>3. \A s \in SinkNames : \A i \in 1..Len(sinks[s]) : sinks[s][i] \in Entries
  BY <1>2, ElementOfSeq
<1>4. \A e \in Sent : e \in Entries
  BY <1>3 DEF Sent, Told
<1>5. \A e \in Entries : e.no \in Nat /\ e.label \in Labels
  BY <1>1 DEF Entries
<1>6. QED
  BY <1>1, <1>2, <1>3, <1>4, <1>5

(* A sink that is written to is told one thing more, at its end.            *)
LEMMA WrittenTold ==
    ASSUME TypeInv, NEW s \in SinkNames, SinkWritten(s)
    PROVE  LET entry == [no |-> total, label |-> label] IN
           /\ Len(sinks'[s]) = Len(sinks[s]) + 1
           /\ sinks'[s][Len(sinks[s]) + 1] = entry
           /\ \A i \in 1..Len(sinks[s]) : sinks'[s][i] = sinks[s][i]
           /\ \A t \in SinkNames \ {s} : sinks'[t] = sinks[t]
           /\ \A t \in SinkNames : Told(t)' = Told(t) \cup IF t = s THEN {entry} ELSE {}
           /\ Sent' = Sent \cup {entry}
<1> DEFINE entry == [no |-> total, label |-> label]
<1>1. sinks[s] \in Seq(Entries) /\ sinks \in [SinkNames -> Seq(Entries)]
  BY DEF TypeInv, TypeOK
<1>2. phase = s
  BY DEF SinkWritten
<1>3. entry \in Entries
  <2>1. phase # "idle"
    BY <1>2 DEF SinkNames
  <2>2. total \in 1..MaxAlerts /\ label \in Labels
    BY <2>1, DispatcherAssumption DEF TypeInv, TypeOK, CallInProgress
  <2>3. QED
    BY <2>2 DEF Entries
<1>4. sinks' = [sinks EXCEPT ![s] = Append(sinks[s], entry)]
  BY DEF SinkWritten
<1>5. /\ sinks'[s] = Append(sinks[s], entry)
      /\ \A t \in SinkNames \ {s} : sinks'[t] = sinks[t]
  BY <1>1, <1>4
<1>6. /\ Len(sinks'[s]) = Len(sinks[s]) + 1
      /\ sinks'[s][Len(sinks[s]) + 1] = entry
      /\ \A i \in 1..Len(sinks[s]) : sinks'[s][i] = sinks[s][i]
  BY <1>1, <1>3, <1>5
<1>7. Told(s)' = Told(s) \cup {entry}
  <2>1. Len(sinks[s]) \in Nat
    BY <1>1
  <2>2. 1..Len(sinks'[s]) = 1..Len(sinks[s]) \cup {Len(sinks[s]) + 1}
    BY <1>6, <2>1
  <2>3. QED
    BY <1>6, <2>2 DEF Told
<1>8. \A t \in SinkNames : Told(t)' = Told(t) \cup IF t = s THEN {entry} ELSE {}
  <2>1. ASSUME NEW t \in SinkNames, t # s PROVE Told(t)' = Told(t)
    BY <1>5, <2>1 DEF Told
  <2>2. QED
    BY <1>7, <2>1
<1>9. Sent' = Sent \cup {entry}
  BY <1>8 DEF Sent
<1>10. QED
  BY <1>5, <1>6, <1>8, <1>9

(* Each sink visited leaves the rest waiting.                               *)
LEMMA WaitingShrinks ==
    ASSUME NEW s \in SinkNames, phase = s, phase' = After(s)
    PROVE  /\ Waiting' = Waiting \ {s} /\ s \in Waiting /\ phase # "idle"
           /\ phase' = "idle" <=> s = "ui"
           /\ Waiting \subseteq SinkNames
  BY DEF Waiting, After, SinkNames

LEMMA WrittenDelivery ==
    ASSUME DeliveryInv, NEW s \in SinkNames, SinkWritten(s)
    PROVE  InOrder' /\ NothingAhead' /\ WaitingBehind' /\ LabelsAgree' /\ UiComplete'
<1> DEFINE entry == [no |-> total, label |-> label]
<1>1. TypeInv
  BY DEF DeliveryInv
<1>2. /\ phase = s /\ phase' = After(s) /\ total' = total /\ label' = label
  BY DEF SinkWritten, tableVars
<1>3. /\ Waiting' = Waiting \ {s} /\ s \in Waiting /\ phase # "idle"
      /\ phase' = "idle" <=> s = "ui"
      /\ Waiting \subseteq SinkNames
  BY <1>2, WaitingShrinks
<1>4. /\ Len(sinks'[s]) = Len(sinks[s]) + 1
      /\ sinks'[s][Len(sinks[s]) + 1] = entry
      /\ \A i \in 1..Len(sinks[s]) : sinks'[s][i] = sinks[s][i]
      /\ \A t \in SinkNames \ {s} : sinks'[t] = sinks[t]
      /\ \A t \in SinkNames : Told(t)' = Told(t) \cup IF t = s THEN {entry} ELSE {}
      /\ Sent' = Sent \cup {entry}
  BY <1>1, WrittenTold
<1>5. /\ total \in Nat /\ Len(sinks[s]) \in Nat
      /\ \A t \in SinkNames : \A i \in 1..Len(sinks[t]) : sinks[t][i].no \in Nat
  BY <1>1, EntryTypes DEF Sent, Told
<1>6. InOrder'
  <2>1. ASSUME NEW t \in SinkNames, NEW i \in 1..Len(sinks'[t]), NEW j \in 1..Len(sinks'[t]), i < j
        PROVE  sinks'[t][i].no < sinks'[t][j].no
    <3>1. CASE t # s
      BY <1>4, <2>1, <3>1 DEF DeliveryInv, InOrder
    <3>2. CASE t = s /\ j \in 1..Len(sinks[s])
      <4>1. i \in 1..Len(sinks[s])
        BY <1>5, <2>1, <3>2
      <4>2. QED
        BY <1>4, <2>1, <3>2, <4>1 DEF DeliveryInv, InOrder
    <3>3. CASE t = s /\ j = Len(sinks[s]) + 1
      <4>1. i \in 1..Len(sinks[s])
        BY <1>5, <2>1, <3>3
      <4>2. sinks[s][i].no < total
        BY <1>3, <4>1 DEF DeliveryInv, WaitingBehind, Told
      <4>3. QED
        BY <1>4, <3>3, <4>1, <4>2
    <3>4. QED
      BY <1>4, <1>5, <2>1, <3>1, <3>2, <3>3
  <2>2. QED
    BY <2>1 DEF InOrder
<1>7. WaitingBehind'
  BY <1>2, <1>3, <1>4 DEF DeliveryInv, WaitingBehind
<1>8. LabelsAgree'
  BY <1>2, <1>4 DEF DeliveryInv, LabelsAgree
<1>9. UiComplete'
  <2>1. CASE s = "ui"
    BY <1>2, <1>3, <1>4, <1>5, <2>1 DEF DeliveryInv, UiComplete
  <2>2. CASE s # "ui"
    <3>1. "ui" \in SinkNames
      BY DEF SinkNames
    <3>2. QED
      BY <1>2, <1>3, <1>4, <2>2, <3>1 DEF DeliveryInv, UiComplete
  <2>3. QED
    BY <2>1, <2>2
<1>10. NothingAhead'
  BY <1>2, <1>4, <1>5 DEF DeliveryInv, NothingAhead
<1>11. QED
  BY <1>6, <1>7, <1>8, <1>9, <1>10

LEMMA SkippedDelivery ==
    ASSUME DeliveryInv, NEW s \in SinkNames, SinkSkipped(s)
    PROVE  InOrder' /\ NothingAhead' /\ WaitingBehind' /\ LabelsAgree' /\ UiComplete'
<1>1. /\ phase = s /\ phase' = After(s) /\ total' = total /\ label' = label /\ sinks' = sinks
      /\ s \notin Attached \/ s # "ui"
  BY DEF SinkSkipped, tableVars
<1>2. /\ Waiting' = Waiting \ {s} /\ s \in Waiting /\ phase # "idle"
      /\ phase' = "idle" <=> s = "ui"
      /\ Waiting \subseteq SinkNames
  BY <1>1, WaitingShrinks
<1>3. Sent' = Sent /\ \A t \in SinkNames : Told(t)' = Told(t)
  BY <1>1 DEF Sent, Told
<1>4. InOrder' /\ NothingAhead' /\ WaitingBehind' /\ LabelsAgree'
  BY <1>1, <1>2, <1>3 DEF DeliveryInv, InOrder, NothingAhead, WaitingBehind, LabelsAgree
<1>5. UiComplete'
  BY <1>1, <1>2 DEF DeliveryInv, UiComplete
<1>6. QED
  BY <1>4, <1>5

(* A new publication has a number no sink has seen, and no sink has its     *)
(* label until the response has settled it.                                 *)
LEMMA NewDelivery ==
    ASSUME DeliveryInv, NEW call \in Calls, DispatchNew(call)
    PROVE  InOrder' /\ NothingAhead' /\ WaitingBehind' /\ LabelsAgree' /\ UiComplete'
<1>1. /\ phase = "idle" /\ phase' = "respond" /\ total' = total + 1 /\ sinks' = sinks
      /\ total \in Nat
  BY EntryTypes DEF DispatchNew, DeliveryInv
<1>2. Sent' = Sent /\ \A t \in SinkNames : Told(t)' = Told(t)
  BY <1>1 DEF Sent, Told
<1>3. Waiting' = SinkNames
  BY <1>1 DEF Waiting
<1>4. \A e \in Sent : e.no \in Nat /\ e.no <= total
  BY EntryTypes DEF DeliveryInv, NothingAhead
<1>5. WaitingBehind'
  BY <1>1, <1>2, <1>3, <1>4 DEF WaitingBehind, Sent
<1>6. InOrder' /\ LabelsAgree'
  BY <1>1, <1>2 DEF DeliveryInv, InOrder, LabelsAgree, SinkNames
<1>7. UiComplete'
  BY <1>1 DEF DeliveryInv, UiComplete
<1>8. NothingAhead'
  BY <1>1, <1>2, <1>4 DEF NothingAhead
<1>9. QED
  BY <1>5, <1>6, <1>7, <1>8


(* The response settles the label before any sink knows of the publication. *)
LEMMA RespondDelivery ==
    ASSUME DeliveryInv, maybe_blockRefuses \/ maybe_blockBlocks
    PROVE  InOrder' /\ NothingAhead' /\ WaitingBehind' /\ LabelsAgree' /\ UiComplete'
<1>1. phase = "respond" /\ phase' = "report" /\ total' = total /\ sinks' = sinks
  BY DEF maybe_blockRefuses, maybe_blockBlocks, tableVars
<1>2. Sent' = Sent /\ \A t \in SinkNames : Told(t)' = Told(t)
  BY <1>1 DEF Sent, Told
<1>3. Waiting' = SinkNames /\ Waiting = SinkNames
  BY <1>1 DEF Waiting
<1>4. \A e \in Sent : e.no < total /\ e.no \in Nat /\ total \in Nat
  BY <1>3, EntryTypes DEF DeliveryInv, WaitingBehind, Sent
<1>5. LabelsAgree'
  BY <1>1, <1>2, <1>4 DEF DeliveryInv, LabelsAgree
<1>6. InOrder' /\ NothingAhead' /\ WaitingBehind' /\ UiComplete'
  BY <1>1, <1>2, <1>3 DEF DeliveryInv, InOrder, NothingAhead, WaitingBehind, UiComplete
<1>7. QED
  BY <1>5, <1>6

LEMMA DeliveryStep == DeliveryInv /\ [Next]_vars => DeliveryInv'
<1> SUFFICES ASSUME DeliveryInv, [Next]_vars PROVE DeliveryInv'
  OBVIOUS
<1>1. TypeInv'
  BY QuietTyping, DispatchNewTyping, RespondTyping, SinkTyping DEF Next, DeliveryInv
<1>2. CASE UNCHANGED <<phase, total, sinks, label>>
  BY <1>1, <1>2
  DEF DeliveryInv, InOrder, NothingAhead, WaitingBehind, LabelsAgree, UiComplete, Sent, Told, Waiting
<1>3. QED
  BY <1>1, <1>2, NewDelivery, RespondDelivery, SkippedDelivery, WrittenDelivery
  DEF DeliveryInv, Next, vars, tableVars, Tick, DispatchDuplicate

(* Every sink is told of the alerts in the order of their publication and   *)
(* with the label the others are told, and the UI queue misses none once a  *)
(* call has returned, whichever sinks fail and whenever                     *)
(* (dispatcher.py:98-124).                                                  *)
THEOREM Fanout == Spec => []SinksAgree
<1>1. Init => DeliveryInv
  <2>1. Init => /\ \A s \in SinkNames : Len(sinks[s]) = 0
                /\ total = 0 /\ phase = "idle"
    BY DEF Init
  <2>2. Init => Sent = {} /\ Waiting = {}
    BY <2>1 DEF Sent, Told, Waiting
  <2>3. QED
    BY <2>1, <2>2, InitTyping
    DEF DeliveryInv, InOrder, NothingAhead, WaitingBehind, LabelsAgree, UiComplete, SinkNames
<1>2. DeliveryInv => SinksAgree
  <2> SUFFICES ASSUME DeliveryInv PROVE SinksAgree
    OBVIOUS
  <2>1. ASSUME NEW s \in SinkNames, NEW t \in SinkNames,
               NEW i \in 1..Len(sinks[s]), NEW j \in 1..Len(sinks[t])
        PROVE  /\ s = t /\ i < j => sinks[s][i].no < sinks[s][j].no
               /\ sinks[s][i].no = sinks[t][j].no => sinks[s][i].label = sinks[t][j].label
    <3>1. s = t /\ i < j => sinks[s][i].no < sinks[s][j].no
      BY DEF DeliveryInv, InOrder
    <3>2. sinks[s][i] \in Sent /\ sinks[t][j] \in Sent
      BY DEF Sent, Told
    <3>3. QED
      BY <3>1, <3>2 DEF DeliveryInv, LabelsAgree
  <2>2. phase = "idle" /\ "ui" \in Attached => Len(sinks["ui"]) = total
    BY DEF DeliveryInv, UiComplete
  <2>3. QED
    BY <2>1, <2>2 DEF SinksAgree
<1>3. QED
  BY <1>1, <1>2, DeliveryStep, PTL DEF Spec

(* The latest publication is the one of now when the table is pruned.       *)
LEMMA TableStays == LogInv /\ TableBounded /\ [Next]_vars => TableBounded'
<1> SUFFICES ASSUME LogInv, TableBounded, [Next]_vars PROVE TableBounded'
  OBVIOUS
<1>1. ASSUME NEW call \in Calls, DispatchNew(call) PROVE TableBounded'
  <2> DEFINE key == DedupKey(call)
             span == IF DedupSeconds > Second THEN DedupSeconds ELSE Second
  <2>1. key \in Keys
    BY DedupKeyType
  <2>2. /\ log' = Append(log, [key |-> key, at |-> now])
        /\ recent_alerts' = Remember(key)
    BY <1>1 DEF DispatchNew
  <2>3. /\ log \in Seq([key : Keys, at : Nat]) /\ now \in Nat
        /\ DedupSeconds \in Nat /\ Second \in Nat
    BY ClockValues, DispatcherAssumption DEF LogInv
  <2>4. log'[Len(log')].at = now
    BY <2>1, <2>2, <2>3
  <2>5. CASE Remember(key) = Pruned(Updated(key))
    <3>1. ASSUME NEW k \in DOMAIN Remember(key) PROVE now - Remember(key)[k] <= span
      <4>1. Remember(key)[k] >= Cutoff
        BY <2>5, <3>1 DEF Pruned
      <4>2. Remember(key)[k] \in Nat
        BY <2>1, <3>1, RememberType DEF LogInv, TypeInv, IsDict
      <4>3. QED
        BY <2>3, <4>1, <4>2 DEF Cutoff
    <3>2. QED
      BY <2>2, <2>4, <3>1 DEF TableBounded
  <2>6. CASE Remember(key) = Updated(key) /\ ~(Cardinality(DOMAIN Updated(key)) > PruneLimit)
    BY <2>2, <2>6 DEF TableBounded
  <2>7. QED
    BY <2>5, <2>6 DEF Remember
<1>2. CASE UNCHANGED tableVars
  BY <1>2 DEF tableVars, TableBounded
<1>3. QED
  BY <1>1, <1>2
  DEF Next, vars, Tick, DispatchDuplicate, maybe_blockRefuses, maybe_blockBlocks,
      SinkSkipped, SinkWritten

(* The table never holds more than PruneLimit entries unless each was       *)
(* younger than the window at the latest publication (dispatcher.py:78-84). *)
THEOREM TableSize == Spec => []TableBounded
<1>1. Init => TableBounded
  <2>1. Init => DOMAIN recent_alerts = {}
    BY DEF Init, EmptyDict
  <2>2. QED
    BY <2>1 DEF TableBounded
<1>2. QED
  BY <1>1, TableInvariant, TableStays, PTL DEF Spec

SourceOf(e) == log[e.no].key[2]

(* A source some sink was told is blocked is on the dispatcher's books, and *)
(* one publication only told so ...                                         *)
LabelsTrue ==
    /\ \A e \in Sent : e.label = "Blocked" => SourceOf(e) \in blocked
    /\ \A e, f \in Sent :
          e.label = "Blocked" /\ f.label = "Blocked" /\ SourceOf(e) = SourceOf(f) => e.no = f.no

(* ... and so it is with the label of the call in progress.                 *)
LabelTrue ==
    phase \in SinkNames /\ label = "Blocked" =>
        /\ current.src \in blocked
        /\ \A e \in Sent : e.label = "Blocked" /\ SourceOf(e) = current.src => e.no = total

BlockInv ==
    DeliveryInv /\ ChainGrew /\ SummaryTruthful /\ LabelsTrue /\ LabelTrue

(* A rule that was inserted joins the rules of this process, and none goes. *)
LEMMA OwnRulesGain ==
    ASSUME ~DryRun, DefenseTypeOK, ChainGrew, NEW ip \in Sources, BlockInserted(ip)
    PROVE  ChainGrew' /\ ToSet(OwnRules)' = ToSet(OwnRules) \cup {ip}
<1>1. ChainGrew' /\ ToSet(OwnRules)' \subseteq ToSet(OwnRules) \cup {ip}
  BY OwnRulesGrow
<1>2. /\ chain \in Seq(Sources) /\ found \in Seq(Sources)
      /\ Len(found) \in Nat /\ Len(chain) \in Nat
  BY DEF DefenseTypeOK
<1>3. chain' = <<ip>> \o chain /\ found' = found
  BY DEF BlockInserted
<1>4. /\ chain' \in Seq(Sources)
      /\ Len(chain') = Len(chain) + 1
      /\ chain'[1] = ip
      /\ \A i \in 1..Len(chain) : chain'[i + 1] = chain[i]
  BY <1>2, <1>3
<1> DEFINE n == Len(chain) - Len(found)
<1>5. n \in Nat /\ n <= Len(chain) /\ Len(chain') - Len(found) = n + 1
  BY <1>2, <1>4 DEF ChainGrew
<1>6. DOMAIN OwnRules = 1..n /\ \A i \in 1..n : OwnRules[i] = chain[i]
  BY <1>2, <1>5 DEF OwnRules
<1>7. DOMAIN OwnRules' = 1..(n + 1) /\ \A i \in 1..(n + 1) : OwnRules'[i] = chain'[i]
  BY <1>3, <1>4, <1>5 DEF OwnRules
<1>8. ip \in ToSet(OwnRules)'
  <2>1. 1 \in 1..(n + 1) /\ OwnRules'[1] = ip
    BY <1>4, <1>5, <1>7
  <2>2. QED
    BY <1>7, <2>1 DEF ToSet
<1>9. ASSUME NEW x \in ToSet(OwnRules) PROVE x \in ToSet(OwnRules)'
  <2>1. PICK i \in 1..n : x = chain[i]
    BY <1>6, <1>9 DEF ToSet
  <2>2. i + 1 \in 1..(n + 1) /\ OwnRules'[i + 1] = x
    BY <1>4, <1>5, <1>7, <2>1
  <2>3. QED
    BY <1>7, <2>2 DEF ToSet
<1>10. QED
  BY <1>1, <1>8, <1>9

(* What a sink was told refers to publications the log has.                 *)
LEMMA SentPublished ==
    ASSUME DeliveryInv
    PROVE  \A e \in Sent : e.no \in 1..Len(log)
<1>1. \A e \in Sent : e.no \in 1..MaxAlerts
  BY EntryTypes DEF DeliveryInv, Entries
<1>2. Len(log) = total /\ total \in Nat /\ MaxAlerts \in Nat
  BY DispatcherAssumption, EntryTypes DEF DeliveryInv, TypeInv, CallInProgress
<1>3. QED
  BY <1>1, <1>2 DEF DeliveryInv, NothingAhead

LEMMA NewBlocks ==
    ASSUME BlockInv, NEW call \in Calls, DispatchNew(call)
    PROVE  LabelsTrue' /\ LabelTrue'
<1>1. /\ phase' = "respond" /\ blocked' = blocked /\ sinks' = sinks
      /\ log' = Append(log, [key |-> DedupKey(call), at |-> now])
  BY DEF DispatchNew
<1>2. Sent' = Sent
  BY <1>1 DEF Sent, Told
<1>3. log \in Seq([key : Keys, at : Nat])
  BY ClockValues DEF BlockInv, DeliveryInv
<1>4. \A e \in Sent : log'[e.no] = log[e.no]
  BY <1>1, <1>3, SentPublished DEF BlockInv
<1>5. \A e \in Sent : SourceOf(e)' = SourceOf(e)
  BY <1>2, <1>4 DEF SourceOf
<1>6. LabelsTrue'
  BY <1>1, <1>2, <1>5 DEF LabelsTrue, BlockInv
<1>7. LabelTrue'
  BY <1>1 DEF LabelTrue, SinkNames
<1>8. QED
  BY <1>6, <1>7

LEMMA RespondBlocks ==
    ASSUME ~DryRun, BlockInv, maybe_blockRefuses \/ maybe_blockBlocks
    PROVE  ChainGrew' /\ SummaryTruthful' /\ LabelsTrue' /\ LabelTrue'
<1>1. phase = "respond" /\ sinks' = sinks /\ log' = log /\ current' = current
  BY DEF maybe_blockRefuses, maybe_blockBlocks, tableVars
<1>2. Sent' = Sent /\ \A e \in Sent : SourceOf(e)' = SourceOf(e)
  BY <1>1 DEF Sent, Told, SourceOf
<1>3. CASE maybe_blockRefuses
  <2>1. chain' = chain /\ found' = found /\ blocked' = blocked /\ label' # "Blocked"
    BY <1>3 DEF maybe_blockRefuses, defenseVars, BlockDeclined, BlockFailed, StatusLabel
  <2>2. ChainGrew' /\ SummaryTruthful'
    BY <2>1 DEF BlockInv, ChainGrew, SummaryTruthful, OwnRules, ToSet
  <2>3. QED
    BY <1>2, <2>1, <2>2 DEF BlockInv, LabelsTrue, LabelTrue
<1>4. CASE maybe_blockBlocks
  <2>1. /\ BlockWanted(current.src, KindOf(current)) /\ BlockInserted(current.src)
        /\ blocked' = blocked \cup {current.src} /\ current \in Calls
    BY <1>1, <1>4 DEF maybe_blockBlocks, BlockInv, DeliveryInv, TypeInv, TypeOK
  <2>2. current.src \in Sources /\ current.src \notin blocked
    BY <2>1, DedupKeyType DEF BlockWanted
  <2>3. ChainGrew' /\ ToSet(OwnRules)' = ToSet(OwnRules) \cup {current.src}
    BY <2>1, <2>2, OwnRulesGain DEF BlockInv, DeliveryInv, TypeInv, TypeOK
  <2>4. SummaryTruthful'
    BY <2>1, <2>3 DEF BlockInv, SummaryTruthful
  <2>5. \A e \in Sent : e.label = "Blocked" => SourceOf(e) # current.src
    BY <2>2 DEF BlockInv, LabelsTrue
  <2>6. LabelsTrue' /\ LabelTrue'
    BY <1>1, <1>2, <2>1, <2>5 DEF BlockInv, LabelsTrue, LabelTrue
  <2>7. QED
    BY <2>3, <2>4, <2>6
<1>5. QED
  BY <1>3, <1>4

LEMMA SinkBlocks ==
    ASSUME BlockInv, NEW s \in SinkNames, SinkSkipped(s) \/ SinkWritten(s)
    PROVE  LabelsTrue' /\ LabelTrue'
<1> DEFINE entry == [no |-> total, label |-> label]
<1>1. /\ phase = s /\ log' = log /\ blocked' = blocked /\ total' = total /\ label' = label
      /\ current' = current
  BY DEF SinkSkipped, SinkWritten, tableVars
<1>2. Sent' = Sent \/ Sent' = Sent \cup {entry}
  <2>1. CASE SinkSkipped(s)
    BY <2>1 DEF SinkSkipped, Sent, Told
  <2>2. CASE SinkWritten(s)
    BY <2>2, WrittenTold DEF BlockInv, DeliveryInv
  <2>3. QED
    BY <2>1, <2>2
<1>3. SourceOf(entry) = current.src
  <2>1. log[total].key = DedupKey(current)
    BY <1>1 DEF BlockInv, DeliveryInv, TypeInv, CallInProgress, SinkNames
  <2>2. QED
    BY <2>1 DEF SourceOf, DedupKey
<1>4. \A e : SourceOf(e)' = SourceOf(e)
  BY <1>1 DEF SourceOf
<1>5. label = "Blocked" =>
         /\ current.src \in blocked
         /\ \A e \in Sent : e.label = "Blocked" /\ SourceOf(e) = current.src => e.no = total
  BY <1>1 DEF BlockInv, LabelTrue
<1>6. LabelsTrue'
  BY <1>1, <1>2, <1>3, <1>4, <1>5 DEF BlockInv, LabelsTrue
<1>7. LabelTrue'
  BY <1>1, <1>2, <1>3, <1>4, <1>5 DEF LabelTrue
<1>8. QED
  BY <1>6, <1>7

LEMMA BlockStep ==
    ASSUME ~DryRun
    PROVE  BlockInv /\ [Next]_vars => BlockInv'
<1> SUFFICES ASSUME BlockInv, [Next]_vars PROVE BlockInv'
  OBVIOUS
<1>1. DeliveryInv'
  BY DeliveryStep DEF BlockInv
<1>3. CASE UNCHANGED <<chain, found, blocked, log, sinks, phase, label, total, current>>
  <2>1. ChainGrew' /\ SummaryTruthful'
    BY <1>3 DEF BlockInv, ChainGrew, SummaryTruthful, OwnRules, ToSet
  <2>2. LabelsTrue' /\ LabelTrue'
    BY <1>3 DEF BlockInv, LabelsTrue, LabelTrue, Sent, Told, SourceOf
  <2>3. QED
    BY <1>1, <2>1, <2>2 DEF BlockInv
<1>4. CASE maybe_blockRefuses \/ maybe_blockBlocks
  BY <1>1, <1>4, RespondBlocks DEF BlockInv
<1>5. ASSUME NEW call \in Calls, DispatchNew(call) PROVE BlockInv'
  <2>1. ChainGrew' /\ SummaryTruthful'
    BY <1>5 DEF DispatchNew, defenseVars, BlockInv, ChainGrew, SummaryTruthful, OwnRules, ToSet
  <2>2. QED
    BY <1>1, <1>5, <2>1, NewBlocks DEF BlockInv
<1>6. ASSUME NEW s \in SinkNames, SinkSkipped(s) \/ SinkWritten(s) PROVE BlockInv'
  <2>1. ChainGrew' /\ SummaryTruthful'
    BY <1>6 DEF SinkSkipped, SinkWritten, defenseVars, BlockInv, ChainGrew, SummaryTruthful, OwnRules, ToSet
  <2>2. QED
    BY <1>1, <1>6, <2>1, SinkBlocks DEF BlockInv
<1>7. QED
  BY <1>3, <1>4, <1>5, <1>6 DEF Next, vars, tableVars, defenseVars, Tick, DispatchDuplicate

(* Where the class really runs iptables (the sensor constructs no dry run), *)
(* the chain, the dispatcher's set of blocked sources and the labels of all *)
(* sinks agree, whatever insertion fails (dispatcher.py:89-156).            *)
THEOREM TruthfulLabels ==
    ASSUME ~DryRun
    PROVE  Spec => []BlocksConsistent
<1>1. Init => BlockInv
  <2>1. Init => /\ \A s \in SinkNames : Len(sinks[s]) = 0
                /\ total = 0 /\ phase = "idle" /\ blocked = {}
                /\ Len(chain) = Len(found) /\ Len(found) \in Nat
    BY DefenseAssumption DEF Init, DefenseInit
  <2>2. Init => Sent = {} /\ Waiting = {}
    BY <2>1 DEF Sent, Told, Waiting
  <2>3. Init => DeliveryInv
    BY <2>1, <2>2, InitTyping
    DEF DeliveryInv, InOrder, NothingAhead, WaitingBehind, LabelsAgree, UiComplete, SinkNames
  <2>4. Init => ToSet(OwnRules) = {}
    BY <2>1, DefenseAssumption DEF Init, DefenseInit, OwnRules, ToSet
  <2>5. Init => ChainGrew /\ SummaryTruthful
    BY <2>1, <2>4 DEF ChainGrew, SummaryTruthful
  <2>6. Init => LabelsTrue /\ LabelTrue
    BY <2>1, <2>2 DEF LabelsTrue, LabelTrue, SinkNames
  <2>7. QED
    BY <2>3, <2>5, <2>6 DEF BlockInv
<1>2. BlockInv => BlocksConsistent
  <2> SUFFICES ASSUME BlockInv PROVE BlocksConsistent
    OBVIOUS
  <2>1. ASSUME NEW s \in SinkNames, NEW t \in SinkNames,
               NEW i \in 1..Len(sinks[s]), NEW j \in 1..Len(sinks[t]),
               sinks[s][i].label = "Blocked"
        PROVE  /\ log[sinks[s][i].no].key[2] \in ToSet(OwnRules)
               /\ sinks[t][j].label = "Blocked"
                    /\ log[sinks[t][j].no].key[2] = log[sinks[s][i].no].key[2]
                  => sinks[t][j].no = sinks[s][i].no
    <3>1. sinks[s][i] \in Sent /\ sinks[t][j] \in Sent
      BY DEF Sent, Told
    <3>2. SourceOf(sinks[s][i]) \in ToSet(OwnRules)
      BY <2>1, <3>1 DEF BlockInv, LabelsTrue, SummaryTruthful
    <3>3. QED
      BY <2>1, <3>1, <3>2 DEF BlockInv, LabelsTrue, SourceOf
  <2>2. BlockedLabelTruthful
    BY <2>1 DEF BlockedLabelTruthful
  <2>3. QED
    BY <2>2 DEF BlocksConsistent, BlockInv, DeliveryInv, TypeInv
<1>3. QED
  BY <1>1, <1>2, BlockStep, PTL DEF Spec

================================================================================
