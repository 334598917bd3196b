----------------------------- MODULE ActiveDefense -----------------------------
(***************************************************************************)
(* utils/active_defense.py: the class that inserts iptables DROP rules.    *)
(*                                                                         *)
(* The INPUT chain itself belongs to the kernel; it is the environment of  *)
(* the class and is modelled by the two commands the class runs:           *)
(*     iptables -I INPUT 1 -s ip -j DROP    a new rule at the head         *)
(*     iptables -D INPUT -s ip -j DROP      the first matching rule goes   *)
(* Either command may fail, and then it leaves the chain alone.            *)
(***************************************************************************)
EXTENDS Integers, Sequences, FiniteSets, SequencesExt

CONSTANTS
    Sources,           (* the addresses alerts name                        *)
    ConfigWhitelist,   (* config.block_whitelist, handed to the class      *)
    DefaultWhitelist,  (* the class's own fallback: loopback and 0.0.0.0   *)
    FoundChain,        (* DROP rules in INPUT before MANTIS ever ran       *)
    IsRoot,            (* os.geteuid() = 0, on a platform with iptables    *)
    DryRun,            (* constructed with dry_run = True                  *)
    MaxFailures,       (* bound on the failure counter                     *)
    MaxRules           (* bound: no process starts on a longer chain       *)

ASSUME DefenseAssumption ==
    /\ ConfigWhitelist \subseteq Sources
    /\ DefaultWhitelist \subseteq Sources
    /\ FoundChain \in Seq(Sources)
    /\ IsRoot \in BOOLEAN
    /\ DryRun \in BOOLEAN
    /\ MaxFailures \in Nat
    /\ MaxRules \in Nat

VARIABLES
    chain,        (* sources of the DROP rules in INPUT, head first        *)
    found,        (* history: the chain when this process started          *)
    blocked_ips,  (* the addresses the class believes it has dropped       *)
    flushing,     (* those a flush under way has still to unblock          *)
    failures      (* iptables insertions that raised                       *)

defenseVars == <<chain, found, blocked_ips, flushing, failures>>

(* An empty configured whitelist falls back to the built-in one. *)
Whitelist == IF ConfigWhitelist # {} THEN ConfigWhitelist ELSE DefaultWhitelist

DefenseTypeOK ==
    /\ chain \in Seq(Sources)
    /\ found \in Seq(Sources)
    /\ blocked_ips \subseteq Sources
    /\ flushing \subseteq blocked_ips
    /\ failures \in 0..MaxFailures

DefenseInit ==
    /\ chain = FoundChain
    /\ found = FoundChain
    /\ blocked_ips = {}
    /\ flushing = {}
    /\ failures = 0

--------------------------------------------------------------------------------
(* block_ip has three outcomes.  It declines without running a command ... *)
BlockDeclined(ip) ==
    /\ \/ ip \in Whitelist \cup blocked_ips
       \/ ~IsRoot
    /\ UNCHANGED defenseVars

(* Mutant: the whitelist is forgotten. *)
BlockPermitted_NoWhitelist(ip) == ip \notin blocked_ips /\ IsRoot

BlockPermitted(ip) == ip \notin Whitelist \cup blocked_ips /\ IsRoot

(* ... or records the address, having inserted a rule unless it is a dry run *)
BlockInserted(ip) ==
    /\ BlockPermitted(ip)
    /\ chain' = IF DryRun THEN chain ELSE <<ip>> \o chain
    /\ blocked_ips' = blocked_ips \cup {ip}
    /\ UNCHANGED <<found, flushing, failures>>

(* Mutant: the address goes on the books before the command is known to work. *)
BlockFailed_Recorded(ip) ==
    /\ BlockPermitted(ip)
    /\ ~DryRun
    /\ failures < MaxFailures
    /\ failures' = failures + 1
    /\ blocked_ips' = blocked_ips \cup {ip}
    /\ UNCHANGED <<chain, found, flushing>>

(* ... or sees the command fail and counts the failure. *)
BlockFailed(ip) ==
    /\ BlockPermitted(ip)
    /\ ~DryRun
    /\ failures < MaxFailures
    /\ failures' = failures + 1
    /\ UNCHANGED <<chain, found, blocked_ips, flushing>>

BlockIp(ip) == BlockDeclined(ip) \/ BlockInserted(ip) \/ BlockFailed(ip)

(* The rules left once the command of unblock_ip ran.                       *)
Deleted(rules, ip) == IF DryRun THEN rules ELSE RemoveFirst(rules, ip)

(* Mutant: any address may be unblocked. *)
UnblockIp_Anyone(ip) ==
    /\ chain' = Deleted(chain, ip)
    /\ blocked_ips' = blocked_ips \ {ip}
    /\ UNCHANGED <<found, failures>>

(* unblock_ip removes a rule of an address on the books ...                 *)
UnblockIp(ip) ==
    /\ ip \in blocked_ips
    /\ chain' = Deleted(chain, ip)
    /\ blocked_ips' = blocked_ips \ {ip}
    /\ UNCHANGED <<found, failures>>

(* ... and does nothing for any other, or when the command fails.           *)
UnblockIgnored(ip) ==
    /\ ip \notin blocked_ips \/ ~DryRun
    /\ UNCHANGED <<chain, found, blocked_ips, failures>>

(* flush copies the set of recorded addresses and calls unblock_ip on one   *)
(* after the other, in no particular order; any of the calls may fail.      *)
FlushBegins == flushing' = blocked_ips /\ UNCHANGED <<chain, found, blocked_ips, failures>>

FlushNext(ip) ==
    /\ ip \in flushing
    /\ UnblockIp(ip) \/ UnblockIgnored(ip)
    /\ flushing' = flushing \ {ip}

(* The process ends, in the middle of a flush or without one (the sensor    *)
(* calls none), and the next one starts: the kernel keeps the chain, the    *)
(* books start empty.                                                       *)
NewProcess ==
    /\ Len(chain) <= MaxRules
    /\ found' = chain
    /\ blocked_ips' = {}
    /\ flushing' = {}
    /\ failures' = 0
    /\ UNCHANGED chain

(* One thread calls the class: nothing else happens during a flush.         *)
DefenseNext ==
    \/ /\ flushing = {}
       /\ \/ \E ip \in Sources :
                \/ BlockIp(ip)
                \/ (UnblockIp(ip) \/ UnblockIgnored(ip)) /\ UNCHANGED flushing
          \/ FlushBegins
    \/ \E ip \in Sources : FlushNext(ip)
    \/ NewProcess

DefenseSpec == DefenseInit /\ [][DefenseNext]_defenseVars

--------------------------------------------------------------------------------
(* The rules a process found, an operator's or an earlier process's, keep    *)
(* their place and their order at the end of the chain, whatever was blocked *)
(* and unblocked: unblock_ip deletes by match, and must never hit a rule it  *)
(* did not add, not even when the source was blocked a second time.          *)
FoundRulesUntouched == IsSuffix(found, chain)

(* The addresses the class has on its books are exactly those with a rule of *)
(* its own at the head of the chain, one rule each (none in a dry run).      *)
OwnRules == SubSeq(chain, 1, Len(chain) - Len(found))

BooksMatchChain ==
    /\ ToSet(OwnRules) = IF DryRun THEN {} ELSE blocked_ips
    /\ Len(OwnRules) = Cardinality(ToSet(OwnRules))

(* "never block ourselves, whatever an engine decides": no sequence of calls *)
(* of any number of processes puts a whitelisted address into a new rule.    *)
NeverBlockOurselves ==
    \A i \in 1..(Len(chain) - Len(FoundChain)) : chain[i] \notin Whitelist
================================================================================
