--------------------------------- MODULE Issuer ---------------------------------
(***************************************************************************)
(* What an issuer of certificates promises to the calls it serves: each is  *)
(* decided at most once, a call that is not authenticated is refused, and a *)
(* certificate names its caller.  Name is the name an issuer writes for each *)
(* caller; it need not tell two of them apart.  Fallback are the names it    *)
(* may use for an authenticated caller whose name it could not find out.    *)
(***************************************************************************)
CONSTANTS Calls, Callers, Name, Fallback, None

VARIABLES
    caller,     \* the authenticated caller behind a call, or None
    outcome     \* "idle", "pending", "refused", or the name certified

vars == <<caller, outcome>>

Init ==
    /\ caller = [c \in Calls |-> None]
    /\ outcome = [c \in Calls |-> "idle"]

\* A new call takes the place of one that is decided.
Ask(c) ==
    /\ outcome[c] # "pending"
    /\ \E a \in Callers \cup {None} : caller' = [caller EXCEPT ![c] = a]
    /\ outcome' = [outcome EXCEPT ![c] = "pending"]

Refuse(c) ==
    /\ outcome[c] = "pending"
    /\ outcome' = [outcome EXCEPT ![c] = "refused"]
    /\ UNCHANGED caller

Certify(c) ==
    /\ outcome[c] = "pending"
    /\ caller[c] # None
    /\ \E n \in {Name[caller[c]]} \cup Fallback : outcome' = [outcome EXCEPT ![c] = n]
    /\ UNCHANGED caller

Next == \E c \in Calls : Ask(c) \/ Refuse(c) \/ Certify(c)

Spec == Init /\ [][Next]_vars

=============================================================================
