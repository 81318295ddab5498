--------------------------- MODULE AlertLifecycle ---------------------------
(***************************************************************************)
(* What an SOS alert promises: somebody waits, is attended to, the alert   *)
(* is ended, and that is final.  An employee waits with one alert at most, *)
(* and levels of escalation are added only before the end.                 *)
(***************************************************************************)
EXTENDS Naturals

CONSTANTS Alerts, Owner   \* Owner[a]: the employee who raises alert a

VARIABLES life, level
vars == <<life, level>>

Init == life = [a \in Alerts |-> "none"] /\ level = [a \in Alerts |-> 0]

Raise(a) ==
    /\ life[a] = "none"
    /\ \A b \in Alerts : Owner[b] = Owner[a] => life[b] # "waiting"
    /\ life' = [life EXCEPT ![a] = "waiting"]
    /\ UNCHANGED level

Attend(a) ==
    /\ life[a] = "waiting"
    /\ life' = [life EXCEPT ![a] = "attended"]
    /\ UNCHANGED level

End(a) ==
    /\ life[a] \in {"waiting", "attended"}
    /\ life' = [life EXCEPT ![a] = "ended"]
    /\ UNCHANGED level

Escalate(a) ==
    /\ life[a] \in {"waiting", "attended"}
    /\ level' = [level EXCEPT ![a] = @ + 1]
    /\ UNCHANGED life

\* The office erases the alert and all that belongs to it.
Erase(a) ==
    /\ life[a] # "none"
    /\ life' = [life EXCEPT ![a] = "erased"]
    /\ level' = [level EXCEPT ![a] = 0]

Next == \E a \in Alerts : Raise(a) \/ Attend(a) \/ End(a) \/ Escalate(a) \/ Erase(a)

Spec == Init /\ [][Next]_vars
=============================================================================
