----------------------------- MODULE Emergency -----------------------------
(***************************************************************************)
(* Emergency access: an owner names a contact, who may later ask for the   *)
(* owner's vault and gets it when the owner approves, or by itself once a  *)
(* waiting period has gone by without a refusal.                           *)
(*                                                                         *)
(* Every handler is one guarded SQL statement, except three.  add_contact  *)
(* is a transaction.  request_access reads the clock, and its UPDATE runs  *)
(* later (Demand, CommitDemand).  get_emergency_vault grants what is due,  *)
(* reads the sealed key, and then reads the entries, one statement each.   *)
(* No task runs in the background: a waiting period that has elapsed takes *)
(* effect at the contact's next call, and not before.                      *)
(*                                                                         *)
(* Time is counted in ticks, Resolution of them to the second: the demand  *)
(* is stamped to the tick, SQLite's CURRENT_TIMESTAMP counts seconds.      *)
(***************************************************************************)
EXTENDS Naturals, FiniteSets

CONSTANTS
    Users,
    Relations,     \* identifiers of relations, never reused (UUIDs)
    Waits,         \* the waiting periods an owner may choose, in ticks
    Resolution,    \* ticks in a second
    MaxContacts,   \* MAX_EMERGENCY_CONTACTS_PER_OWNER
    Consulted,     \* the statuses in which the contact's client offers the vault
    MaxLag,        \* bound: ticks a call may wait for the database
    MaxTime,       \* bound: the clock stops here
    NoUser

ASSUME TimeAssumption ==
    /\ Resolution \in Nat \ {0}
    /\ MaxLag \in Nat /\ MaxTime \in Nat
    /\ Waits \subseteq Nat
    /\ NoUser \notin Users

ASSUME CapAssumption == MaxContacts \in Nat

VARIABLES
    now,
    contacts,   \* table emergency_contacts
    demands,    \* per relation: request_access calls past their clock reading
    view,       \* per relation: how far a get_emergency_vault call has come
    opened      \* the relations whose sealed key such a call has read

vars == <<now, contacts, demands, view, opened>>

Statuses == {"pending", "active", "access_requested", "access_granted"}

Contact == [status : Statuses \cup {"unused", "deleted"},
            owner : Users \cup {NoUser}, contact : Users \cup {NoUser},
            waiting : Nat, requested : Nat, available : Nat, sealed : BOOLEAN,
            approved : BOOLEAN]   \* history: the owner said yes

NoContact(status) ==
    [status |-> status, owner |-> NoUser, contact |-> NoUser, waiting |-> 0,
     requested |-> 0, available |-> 0, sealed |-> FALSE, approved |-> FALSE]

TypeOK ==
    /\ now \in Nat
    /\ contacts \in [Relations -> Contact]
    /\ demands \in [Relations -> SUBSET Nat]
    /\ view \in [Relations -> {"none", "called", "promoted", "reading"}]
    /\ opened \in SUBSET Relations

Init ==
    /\ now = 0
    /\ contacts = [r \in Relations |-> NoContact("unused")]
    /\ demands = [r \in Relations |-> {}]
    /\ view = [r \in Relations |-> "none"]
    /\ opened = {}

Live == {r \in Relations : contacts[r].status \in Statuses}
ContactsOf(u) == {r \in Live : contacts[r].owner = u}

Is(r, status) == contacts[r].status = status
Become(r, status) == contacts' = [contacts EXCEPT ![r].status = status]

(***************************************************************************)
(* The relation                                                            *)
(***************************************************************************)

\* Variant: the pair is not looked up.
AddContactTwice(r) ==
    /\ Is(r, "unused")
    /\ \E o, c \in Users, w \in Waits :
         /\ o # c
         /\ Cardinality(ContactsOf(o)) < MaxContacts
         /\ contacts' = [contacts EXCEPT ![r] =
                           [NoContact("pending") EXCEPT !.owner = o, !.contact = c,
                                                        !.waiting = w]]
    /\ UNCHANGED <<now, demands, view, opened>>

\* add_contact: one transaction looks for the pair, counts, and inserts.
AddContact(r) ==
    /\ Is(r, "unused")
    /\ \E o, c \in Users, w \in Waits :
         /\ o # c
         /\ \A x \in ContactsOf(o) : contacts[x].contact # c
         /\ Cardinality(ContactsOf(o)) < MaxContacts
         /\ contacts' = [contacts EXCEPT ![r] =
                           [NoContact("pending") EXCEPT !.owner = o, !.contact = c,
                                                        !.waiting = w]]
    /\ UNCHANGED <<now, demands, view, opened>>

AcceptContact(r) ==
    /\ Is(r, "pending")
    /\ Become(r, "active")
    /\ UNCHANGED <<now, demands, view, opened>>

DeleteRow(r) == contacts' = [contacts EXCEPT ![r] = NoContact("deleted")]

DeclineContact(r) ==
    /\ Is(r, "pending")
    /\ DeleteRow(r)
    /\ UNCHANGED <<now, demands, view, opened>>

\* revoke_contact, by either side and in any status.
RevokeContact(r) ==
    /\ r \in Live
    /\ DeleteRow(r)
    /\ UNCHANGED <<now, demands, view, opened>>

\* seed_contact, in any status; the clients offer it once accepted.
SeedContact(r) ==
    /\ r \in Live /\ ~Is(r, "pending")
    /\ contacts' = [contacts EXCEPT ![r].sealed = TRUE]
    /\ UNCHANGED <<now, demands, view, opened>>

(***************************************************************************)
(* The demand                                                              *)
(***************************************************************************)

\* request_access up to its UPDATE: the relation is read, in whatever status, and the
\* demand stamped.  MaxTime leaves every demand the time to fall due.
Demand(r) ==
    /\ r \in Live
    /\ now + contacts[r].waiting <= MaxTime - (MaxTime % Resolution)
    /\ demands' = [demands EXCEPT ![r] = @ \cup {now}]
    /\ UNCHANGED <<now, contacts, view, opened>>

\* Variant: a key is not asked for.
CommitDemandUnsealed(r, t) ==
    /\ t \in demands[r]
    /\ demands' = [demands EXCEPT ![r] = @ \ {t}]
    /\ contacts' = IF Is(r, "active")
                     THEN [contacts EXCEPT ![r].status = "access_requested",
                             ![r].requested = t, ![r].available = t + contacts[r].waiting]
                     ELSE contacts
    /\ UNCHANGED <<now, view, opened>>

\* The UPDATE of request_access; no row is touched in another status.
CommitDemand(r, t) ==
    /\ t \in demands[r]
    /\ demands' = [demands EXCEPT ![r] = @ \ {t}]
    /\ contacts' = IF Is(r, "active") /\ contacts[r].sealed
                     THEN [contacts EXCEPT ![r].status = "access_requested",
                             ![r].requested = t, ![r].available = t + contacts[r].waiting]
                     ELSE contacts
    /\ UNCHANGED <<now, view, opened>>

\* The database stays locked for too long, or the server stops.
LoseDemand(r, t) ==
    /\ t \in demands[r]
    /\ demands' = [demands EXCEPT ![r] = @ \ {t}]
    /\ UNCHANGED <<now, contacts, view, opened>>

ApproveAccess(r) ==
    /\ Is(r, "access_requested")
    /\ contacts' = [contacts EXCEPT ![r].status = "access_granted", ![r].approved = TRUE]
    /\ UNCHANGED <<now, demands, view, opened>>

\* Variant: the refusal has a status of its own.
RejectAccessForGood(r) ==
    /\ Is(r, "access_requested")
    /\ contacts' = [contacts EXCEPT ![r].status = "rejected", ![r].requested = 0,
                                    ![r].available = 0]
    /\ UNCHANGED <<now, demands, view, opened>>

\* reject_access: back to an accepted relation.
RejectAccess(r) ==
    /\ Is(r, "access_requested")
    /\ contacts' = [contacts EXCEPT ![r].status = "active", ![r].requested = 0,
                                    ![r].available = 0]
    /\ UNCHANGED <<now, demands, view, opened>>

(***************************************************************************)
(* The vault                                                               *)
(***************************************************************************)

\* The contact calls get_emergency_vault, where its client offers it.
CallVault(r) ==
    /\ contacts[r].status \in Consulted
    /\ view[r] = "none"
    /\ view' = [view EXCEPT ![r] = "called"]
    /\ UNCHANGED <<now, contacts, demands, opened>>

CurrentTimestamp == now - (now % Resolution)

\* Variant: CURRENT_TIMESTAMP is rounded up.
MaybeAutoGrantEarly(r) ==
    /\ view[r] = "called"
    /\ view' = [view EXCEPT ![r] = "promoted"]
    /\ IF Is(r, "access_requested")
             /\ contacts[r].available < CurrentTimestamp + Resolution
         THEN Become(r, "access_granted")
         ELSE UNCHANGED contacts
    /\ UNCHANGED <<now, demands, opened>>

\* Variant: the deadline is stored in another format, and compares as later
\* than every moment of its day.
MaybeAutoGrantNextDay(r) ==
    /\ view[r] = "called"
    /\ view' = [view EXCEPT ![r] = "promoted"]
    /\ IF Is(r, "access_requested") /\ contacts[r].available + MaxTime <= CurrentTimestamp
         THEN Become(r, "access_granted")
         ELSE UNCHANGED contacts
    /\ UNCHANGED <<now, demands, opened>>

\* maybe_auto_grant
MaybeAutoGrant(r) ==
    /\ view[r] = "called"
    /\ view' = [view EXCEPT ![r] = "promoted"]
    /\ IF Is(r, "access_requested") /\ contacts[r].available <= CurrentTimestamp
         THEN Become(r, "access_granted")
         ELSE UNCHANGED contacts
    /\ UNCHANGED <<now, demands, opened>>

\* get_granted_vault_key: the status is part of the query.
GetGrantedVaultKey(r) ==
    /\ view[r] = "promoted"
    /\ IF Is(r, "access_granted") /\ contacts[r].sealed
         THEN /\ view' = [view EXCEPT ![r] = "reading"]
              /\ opened' = opened \cup {r}
         ELSE /\ view' = [view EXCEPT ![r] = "none"]
              /\ UNCHANGED opened
    /\ UNCHANGED <<now, contacts, demands>>

\* get_all on the owner's vault, and the answer: not looked at again.
ReadEntries(r) ==
    /\ view[r] = "reading"
    /\ view' = [view EXCEPT ![r] = "none"]
    /\ UNCHANGED <<now, contacts, demands, opened>>

\* The contact goes away, or the server stops, in the middle of the call.
DropCall(r) ==
    /\ view[r] # "none"
    /\ view' = [view EXCEPT ![r] = "none"]
    /\ UNCHANGED <<now, contacts, demands, opened>>

\* A call still waiting for the database is carried out or lost in time.
Tick ==
    /\ now < MaxTime
    /\ \A r \in Relations : \A t \in demands[r] : now < t + MaxLag
    /\ now' = now + 1
    /\ UNCHANGED <<contacts, demands, view, opened>>

OwnerStep(r) ==
    \/ AddContact(r) \/ SeedContact(r) \/ ApproveAccess(r) \/ RejectAccess(r)
    \/ RevokeContact(r)

ContactStep(r) ==
    \/ AcceptContact(r) \/ DeclineContact(r)
    \/ Demand(r) \/ \E t \in demands[r] : CommitDemand(r, t) \/ LoseDemand(r, t)
    \/ CallVault(r) \/ MaybeAutoGrant(r) \/ GetGrantedVaultKey(r) \/ ReadEntries(r)
    \/ DropCall(r)

Next == Tick \/ \E r \in Relations : OwnerStep(r) \/ ContactStep(r)

\* Time passes; a call in progress goes on; the contact of a demand comes
\* back, as long as its client offers the vault, and is not cut off for ever.
Fairness ==
    /\ WF_vars(Tick)
    /\ \A r \in Relations :
         /\ \A t \in 0..MaxTime : WF_vars(CommitDemand(r, t))
         /\ WF_vars(CallVault(r))
         /\ SF_vars(MaybeAutoGrant(r))
         /\ WF_vars(GetGrantedVaultKey(r))
         /\ WF_vars(ReadEntries(r))

Spec == Init /\ [][Next]_vars

FairSpec == Spec /\ Fairness

-----------------------------------------------------------------------------
(***************************************************************************)
(* Properties                                                              *)
(***************************************************************************)

\* A pair of accounts has at most one relation, and an owner no more of them
\* than the cap, whatever is accepted, revoked and named again (add_contact).
OnePerPair ==
    /\ \A r, s \in Live :
         contacts[r].owner = contacts[s].owner /\ contacts[r].contact = contacts[s].contact
           => r = s
    /\ \A u \in Users : Cardinality(ContactsOf(u)) <= MaxContacts

\* A demand that stands, or was granted, can lead to the vault: a key has
\* been sealed for the contact.  A demand falls due its waiting period after
\* the call that made it, even when it waited and the relation was refused
\* or revoked in between.
DemandInv ==
    \A r \in Live : contacts[r].status \in {"access_requested", "access_granted"} =>
      /\ contacts[r].sealed
      /\ contacts[r].available = contacts[r].requested + contacts[r].waiting
      /\ contacts[r].requested <= now

StageOf(status) ==
    CASE status = "unused" -> "none"
      [] status = "pending" -> "invited"
      [] status = "active" -> "trusted"
      [] status = "access_requested" -> "asked"
      [] status = "access_granted" -> "open"
      [] status = "deleted" -> "over"

Promise == INSTANCE EmergencyPromise WITH
    stage <- [r \in Relations |-> StageOf(contacts[r].status)],
    wait <- [r \in Relations |-> contacts[r].waiting],
    due <- [r \in Relations |-> contacts[r].available],
    approved <- [r \in Relations |-> contacts[r].approved]

\* The handlers keep the promise of EmergencyPromise: no vault is opened but
\* after an accepted invitation, a demand, and an approval or a waiting
\* period without refusal, however the calls of the two sides interleave.
KeepsPromise == Promise!Spec

\* A demand does not stay open for ever: it is approved, refused, or granted
\* by itself, or the relation is ended.
DemandAnswered ==
    \A r \in Relations : contacts[r].status = "access_requested"
                           ~> contacts[r].status # "access_requested"

=============================================================================
