-------------------------- MODULE EmergencyPromise --------------------------
(***************************************************************************)
(* What emergency access promises the two accounts of a relation: nobody   *)
(* is made a contact without accepting; a vault is opened only after the   *)
(* contact has asked, and then only because the owner approved or because  *)
(* the waiting period went by without a refusal.                           *)
(***************************************************************************)
EXTENDS Naturals

CONSTANTS
    Relations,   \* the relations that can ever exist
    Waits,       \* the waiting periods an owner may choose
    MaxLag,      \* how long a call may take to be carried out
    MaxTime      \* the time at which the story ends

VARIABLES
    now,
    stage,    \* per relation: how far it has come
    wait,     \* per relation: the waiting period
    due,      \* per relation: when the present demand is granted by itself
    approved, \* per relation: the owner has said yes
    opened    \* the relations whose vault was handed to the contact

vars == <<now, stage, wait, due, approved, opened>>

Stages == {"none", "invited", "trusted", "asked", "open", "over"}

TypeOK ==
    /\ now \in Nat
    /\ stage \in [Relations -> Stages]
    /\ wait \in [Relations -> Waits \cup {0}]
    /\ due \in [Relations -> Nat]
    /\ approved \in [Relations -> BOOLEAN]
    /\ opened \subseteq Relations

Init ==
    /\ now = 0
    /\ stage = [r \in Relations |-> "none"]
    /\ wait = [r \in Relations |-> 0]
    /\ due = [r \in Relations |-> 0]
    /\ approved = [r \in Relations |-> FALSE]
    /\ opened = {}

Move(r, from, to) == stage[r] = from /\ stage' = [stage EXCEPT ![r] = to]

Invite(r) ==
    /\ Move(r, "none", "invited")
    /\ \E w \in Waits : wait' = [wait EXCEPT ![r] = w]
    /\ UNCHANGED <<now, due, approved, opened>>

Accept(r) == Move(r, "invited", "trusted") /\ UNCHANGED <<now, wait, due, approved, opened>>

\* The waiting period runs from the moment the call was received.
Ask(r) ==
    /\ Move(r, "trusted", "asked")
    /\ \E t \in 0..now :
         /\ now <= t + MaxLag
         /\ due' = [due EXCEPT ![r] = t + wait[r]]
    /\ UNCHANGED <<now, wait, approved, opened>>

Approve(r) ==
    /\ Move(r, "asked", "open")
    /\ approved' = [approved EXCEPT ![r] = TRUE]
    /\ UNCHANGED <<now, wait, due, opened>>

Refuse(r) ==
    /\ Move(r, "asked", "trusted")
    /\ due' = [due EXCEPT ![r] = 0]
    /\ UNCHANGED <<now, wait, approved, opened>>

\* Without the owner's yes, not before the waiting period is over.
Elapse(r) ==
    /\ due[r] <= now
    /\ Move(r, "asked", "open")
    /\ UNCHANGED <<now, wait, due, approved, opened>>

Open(r) ==
    /\ stage[r] = "open"
    /\ opened' = opened \cup {r}
    /\ UNCHANGED <<now, stage, wait, due, approved>>

\* The owner or the contact ends the relation, whatever it has come to.
End(r) ==
    /\ stage[r] \notin {"none", "over"}
    /\ stage' = [stage EXCEPT ![r] = "over"]
    /\ wait' = [wait EXCEPT ![r] = 0]
    /\ due' = [due EXCEPT ![r] = 0]
    /\ approved' = [approved EXCEPT ![r] = FALSE]
    /\ UNCHANGED <<now, opened>>

Tick ==
    /\ now < MaxTime
    /\ now' = now + 1
    /\ UNCHANGED <<stage, wait, due, approved, opened>>

Next ==
    \/ Tick
    \/ \E r \in Relations :
         \/ Invite(r) \/ Accept(r) \/ Ask(r) \/ Approve(r) \/ Refuse(r)
         \/ Elapse(r) \/ Open(r) \/ End(r)

Spec == Init /\ [][Next]_vars

=============================================================================
