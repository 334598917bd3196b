-------------------------------- MODULE AlertLog --------------------------------
(***************************************************************************)
(* What the alert dispatcher promises about repeats, with no table and no  *)
(* pruning: the log of everything published is kept for ever, and an alert *)
(* is suppressed exactly when its key was published less than              *)
(* DedupSeconds ago.                                                       *)
(***************************************************************************)
EXTENDS Integers, Sequences

CONSTANTS
    Keys,           (* <<kind, source, message>> of an alert               *)
    DedupSeconds,   (* a natural number; 0 turns suppression off           *)
    NoAnswer

VARIABLES
    now,      (* the monotonic clock                                       *)
    log,      (* every published alert: its key and when it was accepted   *)
    answer    (* the key dispatched last and whether it was suppressed     *)

logVars == <<now, log, answer>>

Answer(key, suppressed) == [key |-> key, suppressed |-> suppressed]

Init == now = 0 /\ log = <<>> /\ answer = NoAnswer

Repeats(key) ==
    \E i \in 1..Len(log) : log[i].key = key /\ now - log[i].at < DedupSeconds

Publish(key) ==
    /\ ~Repeats(key)
    /\ log' = Append(log, [key |-> key, at |-> now])
    /\ answer' = Answer(key, FALSE)
    /\ UNCHANGED now

Suppress(key) ==
    /\ Repeats(key)
    /\ answer' = Answer(key, TRUE)
    /\ UNCHANGED <<now, log>>

Tick == now' = now + 1 /\ UNCHANGED <<log, answer>>

Next == Tick \/ \E key \in Keys : Publish(key) \/ Suppress(key)

Spec == Init /\ [][Next]_logVars
================================================================================
