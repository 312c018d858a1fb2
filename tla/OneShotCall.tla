---------------------------- MODULE OneShotCall ----------------------------
(***************************************************************************)
(* What the application wants of a call it hands to somebody else, who may *)
(* die at any time and whose answer may come late or never: it is          *)
(* attempted at most once, its outcome is decided once, and an accepted    *)
(* outcome is the outcome of an attempt.  Nothing is said of who decides   *)
(* that a call is dropped, nor when: an attempt may well go on, or even    *)
(* begin, after the caller has given up.                                   *)
(***************************************************************************)
EXTENDS Naturals

CONSTANT Calls

VARIABLES
    attempts,  \* how often the call was attempted
    outcome    \* "open", "accepted" or "dropped"

Init ==
    /\ attempts = [c \in Calls |-> 0]
    /\ outcome = [c \in Calls |-> "open"]

\* whoever runs the calls takes this one up, for the first and only time
Attempt(c) ==
    /\ attempts[c] = 0
    /\ attempts' = [attempts EXCEPT ![c] = 1]
    /\ UNCHANGED outcome

\* the caller takes the answer of the attempt
Accept(c) ==
    /\ outcome[c] = "open" /\ attempts[c] = 1
    /\ outcome' = [outcome EXCEPT ![c] = "accepted"]
    /\ UNCHANGED attempts

\* the caller, or whoever follows it, gives up
Drop(c) ==
    /\ outcome[c] = "open"
    /\ outcome' = [outcome EXCEPT ![c] = "dropped"]
    /\ UNCHANGED attempts

Next == \E c \in Calls : Attempt(c) \/ Accept(c) \/ Drop(c)

Spec == Init /\ [][Next]_<<attempts, outcome>>
=============================================================================
