-------------------------- MODULE EmergencyProofs --------------------------
(***************************************************************************)
(* Emergency access keeps its promise, for any accounts, relations,        *)
(* waiting periods, resolution of the clock and delay of the database.     *)
(*                                                                         *)
(* The refinement needs to know of the detailed state that a demand in     *)
(* flight is never older than MaxLag, that a relation not yet made is      *)
(* blank, and that CURRENT_TIMESTAMP is never ahead of the clock.          *)
(***************************************************************************)
EXTENDS Emergency, FiniteSetTheorems, TLAPS

\* A demand on its way was stamped at most MaxLag ago.
FreshInv == \A r \in Relations : \A t \in demands[r] : t <= now /\ now <= t + MaxLag

\* A relation that was never made is a blank row; one made has a waiting
\* period its owner chose.
BlankInv ==
    \A r \in Relations :
      /\ contacts[r].status = "unused" => contacts[r] = NoContact("unused")
      /\ r \in Live => contacts[r].waiting \in Waits

IInv == TypeOK /\ FreshInv /\ BlankInv /\ DemandInv

\* SQLite's clock is behind the clock, by less than a second.
LEMMA TimestampBehind ==
    ASSUME TypeOK PROVE CurrentTimestamp \in Nat /\ CurrentTimestamp <= now
  BY TimeAssumption DEF CurrentTimestamp, TypeOK

LEMMA NoContactType ==
    ASSUME NEW s \in Statuses \cup {"unused", "deleted"}
    PROVE /\ NoContact(s) \in Contact
          /\ NoContact(s).status = s /\ NoContact(s).waiting = 0
          /\ NoContact(s).available = 0 /\ NoContact(s).requested = 0
          /\ NoContact(s).approved = FALSE
  BY DEF NoContact, Contact, Statuses

\* The first state is a good one.
LEMMA InitInv == Init => IInv
  BY NoContactType DEF Init, IInv, TypeOK, FreshInv, BlankInv, DemandInv, Live, Statuses

-----------------------------------------------------------------------------
(***************************************************************************)
(* The invariant                                                           *)
(***************************************************************************)

\* What a row has to be like for the invariant to survive its being stored.
GoodRow(row) ==
    /\ row \in Contact /\ row.status # "unused"
    /\ row.status \in Statuses => row.waiting \in Waits
    /\ row.status \in {"access_requested", "access_granted"} =>
         /\ row.sealed
         /\ row.available = row.requested + row.waiting
         /\ row.requested <= now

\* The rows in place are good ones, those never made apart.
LEMMA RowsGood ==
    ASSUME IInv, NEW r \in Relations, contacts[r].status # "unused"
    PROVE  GoodRow(contacts[r])
  BY DEF IInv, TypeOK, BlankInv, DemandInv, GoodRow, Live, Statuses

\* Storing a good row, with the clock where it is, keeps the invariant of the
\* table.
LEMMA RowStep ==
    ASSUME IInv, NEW r \in Relations, NEW row, GoodRow(row),
           contacts' = [contacts EXCEPT ![r] = row], now' = now
    PROVE  contacts' \in [Relations -> Contact] /\ BlankInv' /\ DemandInv'
<1> USE DEF IInv, TypeOK, GoodRow
<1>1. contacts' \in [Relations -> Contact]
    OBVIOUS
<1>2. ASSUME NEW x \in Relations
      PROVE  /\ contacts'[x].status = "unused" => contacts'[x] = NoContact("unused")
             /\ contacts'[x].status \in Statuses => contacts'[x].waiting \in Waits
             /\ contacts'[x].status \in {"access_requested", "access_granted"} =>
                  /\ contacts'[x].sealed
                  /\ contacts'[x].available = contacts'[x].requested + contacts'[x].waiting
                  /\ contacts'[x].requested <= now'
  <2>1. CASE x = r
    BY <2>1
  <2>2. CASE x # r
    <3>1. contacts'[x] = contacts[x]
      BY <2>2
    <3> QED
      BY <3>1 DEF BlankInv, DemandInv, Live, Statuses
  <2> QED
    BY <2>1, <2>2
<1> QED
    BY <1>1, <1>2 DEF BlankInv, DemandInv, Live

\* An action on the table alone.
LEMMA TableStep ==
    ASSUME IInv, NEW r \in Relations, NEW row, GoodRow(row),
           contacts' = [contacts EXCEPT ![r] = row], UNCHANGED <<now, demands, view, opened>>
    PROVE  IInv'
  BY RowStep DEF IInv, TypeOK, FreshInv

LEMMA TickStep == ASSUME IInv, Tick PROVE IInv'
<1> USE DEF IInv, TypeOK
<1>1. TypeOK' /\ BlankInv'
    BY DEF Tick, BlankInv, Live
<1>2. FreshInv'
    BY TimeAssumption DEF Tick, FreshInv
<1>3. DemandInv'
  <2>1. ASSUME NEW r \in Relations PROVE contacts[r].requested \in Nat
    BY DEF Contact
  <2> QED
    BY <2>1 DEF Tick, DemandInv, Live
<1> QED
    BY <1>1, <1>2, <1>3

LEMMA OwnerKeeps == ASSUME IInv, NEW r \in Relations, OwnerStep(r) PROVE IInv'
<1> USE DEF IInv, TypeOK
<1>1. CASE AddContact(r)
  <2>1. PICK o \in Users, c \in Users, w \in Waits :
          contacts' = [contacts EXCEPT ![r] =
                         [NoContact("pending") EXCEPT !.owner = o, !.contact = c,
                                                      !.waiting = w]]
    BY <1>1 DEF AddContact
  <2>2. PICK row : row = [NoContact("pending") EXCEPT !.owner = o, !.contact = c,
                                                      !.waiting = w]
    OBVIOUS
  <2>3. row \in Contact /\ row.status = "pending" /\ row.waiting = w
    BY <2>2, TimeAssumption DEF NoContact, Contact, Statuses
  <2>4. GoodRow(row)
    BY <2>3 DEF GoodRow
  <2> QED
    BY <1>1, <2>1, <2>2, <2>4, TableStep DEF AddContact
<1>2. CASE SeedContact(r)
  <2> DEFINE row == [contacts[r] EXCEPT !.sealed = TRUE]
  <2>1. GoodRow(row)
    BY <1>2, RowsGood DEF SeedContact, GoodRow, Contact, Live, Statuses
  <2> QED
    BY <1>2, <2>1, TableStep DEF SeedContact
<1>3. CASE ApproveAccess(r)
  <2> DEFINE row == [contacts[r] EXCEPT !.status = "access_granted", !.approved = TRUE]
  <2>1. GoodRow(row)
    BY <1>3, RowsGood, ZenonT(30) DEF ApproveAccess, Is, GoodRow, Contact, Statuses
  <2> QED
    BY <1>3, <2>1, TableStep DEF ApproveAccess
<1>4. CASE RejectAccess(r)
  <2> DEFINE row == [contacts[r] EXCEPT !.status = "active", !.requested = 0, !.available = 0]
  <2>1. GoodRow(row)
    BY <1>4, RowsGood, ZenonT(30) DEF RejectAccess, Is, GoodRow, Contact, Statuses
  <2> QED
    BY <1>4, <2>1, TableStep DEF RejectAccess
<1>5. CASE RevokeContact(r)
  <2>1. GoodRow(NoContact("deleted"))
    BY NoContactType DEF GoodRow, Statuses
  <2> QED
    BY <1>5, <2>1, TableStep DEF RevokeContact, DeleteRow
<1> QED
    BY <1>1, <1>2, <1>3, <1>4, <1>5 DEF OwnerStep

\* The stamp of a demand reaches the row that the UPDATE touches.
LEMMA CommitDemandKeeps ==
    ASSUME IInv, NEW r \in Relations, NEW t \in demands[r], CommitDemand(r, t)
    PROVE  IInv'
<1> USE DEF IInv, TypeOK
<1>0. t \in Nat /\ t <= now /\ now' = now
    BY DEF FreshInv, CommitDemand
<1>1. demands' \in [Relations -> SUBSET Nat] /\ FreshInv'
    BY DEF CommitDemand, FreshInv
<1>2. view' = view /\ opened' = opened
    BY DEF CommitDemand
<1>3. CASE Is(r, "active") /\ contacts[r].sealed
  <2> DEFINE row == [contacts[r] EXCEPT !.status = "access_requested", !.requested = t,
                                        !.available = t + contacts[r].waiting]
  <2>1. GoodRow(row)
    <3>1. contacts[r] \in Contact /\ contacts[r].waiting \in Waits /\ contacts[r].sealed
      BY <1>3, RowsGood DEF Is, GoodRow, Contact, Statuses
    <3>2. t + contacts[r].waiting \in Nat /\ contacts[r].waiting \in Nat
      BY <1>0, <3>1 DEF Contact
    <3>3. row \in Contact /\ row.status = "access_requested" /\ row.sealed
          /\ row.waiting = contacts[r].waiting
          /\ row.requested = t /\ row.available = t + contacts[r].waiting
      BY <1>0, <3>1, <3>2 DEF Contact, Statuses
    <3> HIDE DEF row
    <3> QED
      BY <1>0, <3>1, <3>3 DEF GoodRow
  <2>2. contacts' = [contacts EXCEPT ![r] = row]
    BY <1>3 DEF CommitDemand
  <2> HIDE DEF row
  <2> QED
    BY <1>0, <1>1, <1>2, <2>1, <2>2, RowStep
<1>4. CASE ~(Is(r, "active") /\ contacts[r].sealed)
  <2>1. contacts' = contacts
    BY <1>4 DEF CommitDemand
  <2> QED
    BY <1>0, <1>1, <1>2, <2>1 DEF BlankInv, DemandInv, Live
<1> QED
    BY <1>3, <1>4

LEMMA ContactKeeps == ASSUME IInv, NEW r \in Relations, ContactStep(r) PROVE IInv'
<1> USE DEF IInv, TypeOK
<1>1. CASE AcceptContact(r)
  <2> DEFINE row == [contacts[r] EXCEPT !.status = "active"]
  <2>1. GoodRow(row)
    BY <1>1, RowsGood DEF AcceptContact, Is, GoodRow, Contact, Statuses
  <2> QED
    BY <1>1, <2>1, TableStep DEF AcceptContact, Become
<1>2. CASE DeclineContact(r)
  <2>1. GoodRow(NoContact("deleted"))
    BY NoContactType DEF GoodRow, Statuses
  <2> QED
    BY <1>2, <2>1, TableStep DEF DeclineContact, DeleteRow
<1>3. CASE Demand(r)
  <2>1. FreshInv' /\ demands' \in [Relations -> SUBSET Nat]
    BY <1>3, TimeAssumption DEF Demand, FreshInv
  <2> QED
    BY <1>3, <2>1 DEF Demand, BlankInv, DemandInv, Live
<1>4. ASSUME NEW t \in demands[r], CommitDemand(r, t) PROVE IInv'
    BY <1>4, CommitDemandKeeps
<1>5. ASSUME NEW t \in demands[r], LoseDemand(r, t) PROVE IInv'
  <2>1. FreshInv' /\ demands' \in [Relations -> SUBSET Nat]
    BY <1>5 DEF LoseDemand, FreshInv
  <2> QED
    BY <1>5, <2>1 DEF LoseDemand, BlankInv, DemandInv, Live
<1>6. CASE MaybeAutoGrant(r)
  <2>0. now' = now /\ FreshInv' /\ demands' = demands /\ opened' = opened
        /\ view' \in [Relations -> {"none", "called", "promoted", "reading"}]
    BY <1>6 DEF MaybeAutoGrant, FreshInv
  <2>1. CASE Is(r, "access_requested") /\ contacts[r].available <= CurrentTimestamp
    <3> DEFINE row == [contacts[r] EXCEPT !.status = "access_granted"]
    <3>1. GoodRow(row)
      BY <2>1, RowsGood DEF Is, GoodRow, Contact, Statuses
    <3>2. contacts' = [contacts EXCEPT ![r] = row]
      BY <1>6, <2>1 DEF MaybeAutoGrant, Become
    <3> HIDE DEF row
    <3> QED
      BY <2>0, <3>1, <3>2, RowStep
  <2>2. CASE ~(Is(r, "access_requested") /\ contacts[r].available <= CurrentTimestamp)
    <3>1. contacts' = contacts
      BY <1>6, <2>2 DEF MaybeAutoGrant
    <3> QED
      BY <2>0, <3>1 DEF BlankInv, DemandInv, Live
  <2> QED
    BY <2>1, <2>2
<1>7. CASE CallVault(r) \/ GetGrantedVaultKey(r) \/ ReadEntries(r) \/ DropCall(r)
  <2>1. UNCHANGED <<now, contacts, demands>>
    BY <1>7 DEF CallVault, GetGrantedVaultKey, ReadEntries, DropCall
  <2>2. view' \in [Relations -> {"none", "called", "promoted", "reading"}]
        /\ opened' \in SUBSET Relations
    BY <1>7 DEF CallVault, GetGrantedVaultKey, ReadEntries, DropCall
  <2> QED
    BY <2>1, <2>2 DEF FreshInv, BlankInv, DemandInv, Live
<1> QED
    BY <1>1, <1>2, <1>3, <1>4, <1>5, <1>6, <1>7 DEF ContactStep

LEMMA Inductive == IInv /\ [Next]_vars => IInv'
<1> SUFFICES ASSUME IInv, [Next]_vars PROVE IInv'
    OBVIOUS
<1>1. CASE Next
    BY <1>1, TickStep, OwnerKeeps, ContactKeeps DEF Next
<1>2. CASE UNCHANGED vars
    BY <1>2 DEF vars, IInv, TypeOK, FreshInv, BlankInv, DemandInv, Live
<1> QED
    BY <1>1, <1>2

LEMMA Invariance == Spec => []IInv
  BY InitInv, Inductive, PTL DEF Spec

\* Every reachable state has the types of the table and of the handlers.
THEOREM EmergencyTypes == Spec => []TypeOK
<1>1. IInv => TypeOK
    BY DEF IInv
<1> QED
    BY Invariance, <1>1, PTL

\* A demand that stands or was granted has a sealed key behind it and its own
\* deadline, whatever else happened to the relation meanwhile.
THEOREM DemandsFound == Spec => []DemandInv
<1>1. IInv => DemandInv
    BY DEF IInv
<1> QED
    BY Invariance, <1>1, PTL

-----------------------------------------------------------------------------
(***************************************************************************)
(* One relation to a pair, and no more than the cap                        *)
(***************************************************************************)

PairInv ==
    \A r, s \in Live :
      contacts[r].owner = contacts[s].owner /\ contacts[r].contact = contacts[s].contact
        => r = s

\* Counting is about finite sets: an owner's relations are one.
CapInv ==
    \A u \in Users : IsFiniteSet(ContactsOf(u)) /\ Cardinality(ContactsOf(u)) <= MaxContacts

\* The step makes no relation, and leaves the two accounts of those it keeps.
SamePairs ==
    \A x \in Live' : /\ x \in Live
                     /\ contacts'[x].owner = contacts[x].owner
                     /\ contacts'[x].contact = contacts[x].contact

LEMMA SamePairsKeep ==
    ASSUME PairInv, CapInv, SamePairs PROVE PairInv' /\ CapInv'
<1>1. PairInv'
    BY DEF PairInv, SamePairs
<1>2. ASSUME NEW u \in Users
      PROVE  IsFiniteSet(ContactsOf(u)') /\ Cardinality(ContactsOf(u)') <= MaxContacts
  <2>1. ContactsOf(u)' \subseteq ContactsOf(u)
    BY DEF ContactsOf, SamePairs
  <2>2. IsFiniteSet(ContactsOf(u)) /\ Cardinality(ContactsOf(u)) <= MaxContacts
    BY DEF CapInv
  <2>3. IsFiniteSet(ContactsOf(u)') /\ Cardinality(ContactsOf(u)') <= Cardinality(ContactsOf(u))
    BY <2>1, <2>2, FS_Subset
  <2>4. Cardinality(ContactsOf(u)) \in Nat /\ Cardinality(ContactsOf(u)') \in Nat
    BY <2>2, <2>3, FS_CardinalityType
  <2> QED
    BY <2>2, <2>3, <2>4, CapAssumption
<1> QED
    BY <1>1, <1>2 DEF CapInv

\* A row keeps its accounts when it is moved to another status or deleted.
LEMMA RowKeepsPair ==
    ASSUME IInv, NEW r \in Relations, NEW row, contacts' = [contacts EXCEPT ![r] = row],
           row.status \in Statuses =>
             /\ contacts[r].status \in Statuses
             /\ row.owner = contacts[r].owner /\ row.contact = contacts[r].contact
    PROVE  SamePairs
  BY DEF SamePairs, Live, IInv, TypeOK

LEMMA AddKeepsPairs ==
    ASSUME IInv, PairInv, CapInv, NEW r \in Relations, AddContact(r)
    PROVE  PairInv' /\ CapInv'
<1>1. PICK o \in Users, c \in Users, w \in Waits :
          /\ \A x \in ContactsOf(o) : contacts[x].contact # c
          /\ Cardinality(ContactsOf(o)) < MaxContacts
          /\ contacts' = [contacts EXCEPT ![r] =
                            [NoContact("pending") EXCEPT !.owner = o, !.contact = c,
                                                         !.waiting = w]]
    BY DEF AddContact
<1>2. PICK row : row = [NoContact("pending") EXCEPT !.owner = o, !.contact = c,
                                                    !.waiting = w]
    OBVIOUS
<1>3. row.status = "pending" /\ row.owner = o /\ row.contact = c
    BY <1>2 DEF NoContact
<1>4. contacts' = [contacts EXCEPT ![r] = row]
    BY <1>1, <1>2
<1>5. r \notin Live
    BY DEF AddContact, Is, Live, Statuses
<1>6. /\ contacts'[r] = row /\ \A x \in Relations \ {r} : contacts'[x] = contacts[x]
      /\ Live' = Live \cup {r}
    BY <1>3, <1>4 DEF IInv, TypeOK, Live, Statuses
<1>7. PairInv'
    BY <1>1, <1>3, <1>4, <1>5, <1>6 DEF PairInv, ContactsOf, Live
<1>8. ASSUME NEW u \in Users
      PROVE  IsFiniteSet(ContactsOf(u)') /\ Cardinality(ContactsOf(u)') <= MaxContacts
  <2>1. IsFiniteSet(ContactsOf(u)) /\ Cardinality(ContactsOf(u)) <= MaxContacts
    BY DEF CapInv
  <2>2. CASE u = o
    <3>1. ContactsOf(u)' = ContactsOf(u) \cup {r} /\ r \notin ContactsOf(u)
      BY <1>1, <1>3, <1>4, <1>5, <1>6, <2>2 DEF ContactsOf, Live
    <3>2. /\ IsFiniteSet(ContactsOf(u)')
          /\ Cardinality(ContactsOf(u)') = Cardinality(ContactsOf(u)) + 1
      BY <2>1, <3>1, FS_AddElement
    <3>3. Cardinality(ContactsOf(u)) \in Nat
      BY <2>1, FS_CardinalityType
    <3> QED
      BY <1>1, <1>3, <1>4, <2>2, <3>2, <3>3, CapAssumption
  <2>3. CASE u # o
    <3>1. ContactsOf(u)' = ContactsOf(u)
      BY <1>1, <1>3, <1>4, <1>5, <1>6, <2>3 DEF ContactsOf, Live
    <3> QED
      BY <2>1, <3>1
  <2> QED
    BY <2>2, <2>3
<1> QED
    BY <1>7, <1>8 DEF CapInv

\* Every other step leaves the pairs as they are.
LEMMA OtherStepsSamePairs ==
    ASSUME IInv, [Next]_vars, \A r \in Relations : ~AddContact(r)
    PROVE  SamePairs
<1> USE DEF IInv, TypeOK, Is
<1>1. CASE contacts' = contacts
    BY <1>1 DEF SamePairs, Live
<1>2. ASSUME NEW r \in Relations, DeleteRow(r) PROVE SamePairs
    BY <1>2, RowKeepsPair, NoContactType DEF DeleteRow, Statuses
<1>3. ASSUME NEW r \in Relations, OwnerStep(r) PROVE SamePairs
  <2>1. CASE SeedContact(r)
    BY <2>1, RowKeepsPair DEF SeedContact, Live, Contact
  <2>2. CASE ApproveAccess(r)
    <3>1. PICK row : row = [contacts[r] EXCEPT !.status = "access_granted", !.approved = TRUE]
      OBVIOUS
    <3>2. /\ contacts' = [contacts EXCEPT ![r] = row] /\ contacts[r].status \in Statuses
          /\ row.owner = contacts[r].owner /\ row.contact = contacts[r].contact
      BY <2>2, <3>1 DEF ApproveAccess, Statuses, Contact
    <3> QED
      BY <3>2, RowKeepsPair
  <2>3. CASE RejectAccess(r)
    <3>1. PICK row : row = [contacts[r] EXCEPT !.status = "active", !.requested = 0,
                                               !.available = 0]
      OBVIOUS
    <3>2. /\ contacts' = [contacts EXCEPT ![r] = row] /\ contacts[r].status \in Statuses
          /\ row.owner = contacts[r].owner /\ row.contact = contacts[r].contact
      BY <2>3, <3>1 DEF RejectAccess, Statuses, Contact
    <3> QED
      BY <3>2, RowKeepsPair
  <2> QED
    BY <1>2, <1>3, <2>1, <2>2, <2>3 DEF OwnerStep, RevokeContact
<1>4. ASSUME NEW r \in Relations, NEW t \in demands[r], CommitDemand(r, t) PROVE SamePairs
  <2>1. CASE Is(r, "active") /\ contacts[r].sealed
    <3>1. PICK row : row = [contacts[r] EXCEPT !.status = "access_requested", !.requested = t,
                                               !.available = t + contacts[r].waiting]
      OBVIOUS
    <3>2. /\ contacts' = [contacts EXCEPT ![r] = row] /\ contacts[r].status \in Statuses
          /\ row.owner = contacts[r].owner /\ row.contact = contacts[r].contact
      BY <1>4, <2>1, <3>1 DEF CommitDemand, Statuses, Contact
    <3> QED
      BY <3>2, RowKeepsPair
  <2>2. CASE ~(Is(r, "active") /\ contacts[r].sealed)
    BY <1>1, <1>4, <2>2 DEF CommitDemand
  <2> QED
    BY <2>1, <2>2
<1>5. ASSUME NEW r \in Relations, MaybeAutoGrant(r) PROVE SamePairs
  <2>1. CASE Is(r, "access_requested") /\ contacts[r].available <= CurrentTimestamp
    BY <1>5, <2>1, RowKeepsPair DEF MaybeAutoGrant, Become, Statuses, Contact
  <2>2. CASE ~(Is(r, "access_requested") /\ contacts[r].available <= CurrentTimestamp)
    BY <1>1, <1>5, <2>2 DEF MaybeAutoGrant
  <2> QED
    BY <2>1, <2>2
<1>6. ASSUME NEW r \in Relations, ContactStep(r) PROVE SamePairs
  <2>1. CASE AcceptContact(r)
    BY <2>1, RowKeepsPair DEF AcceptContact, Become, Statuses, Contact
  <2>2. CASE DeclineContact(r)
    BY <1>2, <2>2 DEF DeclineContact
  <2>3. CASE Demand(r) \/ CallVault(r) \/ GetGrantedVaultKey(r) \/ ReadEntries(r) \/ DropCall(r)
             \/ \E t \in demands[r] : LoseDemand(r, t)
    BY <1>1, <2>3 DEF Demand, CallVault, GetGrantedVaultKey, ReadEntries, DropCall, LoseDemand
  <2> QED
    BY <1>4, <1>5, <1>6, <2>1, <2>2, <2>3 DEF ContactStep
<1> QED
    BY <1>1, <1>3, <1>6 DEF Next, Tick, vars

\* However relations are made, refused, revoked and made again, a pair has
\* one and an owner never more than the cap.
THEOREM PairsAndCap == Spec => []OnePerPair
<1>1. Init => PairInv /\ CapInv
  <2> SUFFICES ASSUME Init PROVE PairInv /\ CapInv
    OBVIOUS
  <2>1. Live = {} /\ \A u \in Users : ContactsOf(u) = {}
    BY NoContactType DEF Init, Live, ContactsOf, Statuses
  <2> QED
    BY <2>1, FS_EmptySet, CapAssumption DEF PairInv, CapInv
<1>2. IInv /\ PairInv /\ CapInv /\ [Next]_vars => PairInv' /\ CapInv'
    BY AddKeepsPairs, OtherStepsSamePairs, SamePairsKeep
<1>3. PairInv /\ CapInv => OnePerPair
    BY DEF PairInv, CapInv, OnePerPair
<1> QED
    BY Invariance, <1>1, <1>2, <1>3, PTL DEF Spec

-----------------------------------------------------------------------------
(***************************************************************************)
(* The refinement                                                          *)
(***************************************************************************)

Stage == [r \in Relations |-> StageOf(contacts[r].status)]
Wait == [r \in Relations |-> contacts[r].waiting]
Due == [r \in Relations |-> contacts[r].available]
Approved == [r \in Relations |-> contacts[r].approved]

LEMMA StageNames ==
    /\ StageOf("unused") = "none" /\ StageOf("pending") = "invited"
    /\ StageOf("active") = "trusted" /\ StageOf("access_requested") = "asked"
    /\ StageOf("access_granted") = "open" /\ StageOf("deleted") = "over"
  BY DEF StageOf

\* Storing a row changes the table at its own relation only.
LEMMA RowMaps ==
    ASSUME IInv, NEW r \in Relations, NEW row, contacts' = [contacts EXCEPT ![r] = row]
    PROVE  /\ DOMAIN contacts = Relations /\ DOMAIN contacts' = Relations /\ contacts'[r] = row
           /\ \A x \in Relations \ {r} : contacts'[x] = contacts[x]
  BY DEF IInv, TypeOK

LEMMA TableSame == ASSUME contacts' = contacts 
    PROVE Stage' = Stage /\ Wait' = Wait /\ Due' = Due /\ Approved' = Approved
  BY DEF Stage, Wait, Due, Approved

LEMMA InitRefines == Init => Promise!Init
<1> SUFFICES ASSUME Init PROVE Promise!Init
    OBVIOUS
<1>1. \A r \in Relations : /\ contacts[r].status = "unused" /\ contacts[r].waiting = 0
                           /\ contacts[r].available = 0 /\ contacts[r].approved = FALSE
    BY NoContactType DEF Init
<1> QED
    BY <1>1, StageNames DEF Init, Promise!Init

\* A row that is deleted ends its relation.
LEMMA RevokeEnds ==
    ASSUME IInv, NEW r \in Live, DeleteRow(r), UNCHANGED <<now, demands, view, opened>>
    PROVE  Promise!End(r)
<1>0. r \in Relations /\ contacts[r].status \in Statuses
    BY DEF Live
<1>1. Stage[r] \notin {"none", "over"}
    BY <1>0, StageNames DEF Stage, Statuses
<1>2. /\ NoContact("deleted").status = "deleted" /\ NoContact("deleted").waiting = 0
      /\ NoContact("deleted").available = 0 /\ NoContact("deleted").approved = FALSE
    BY NoContactType
<1>3. /\ Stage' = [Stage EXCEPT ![r] = "over"] /\ Wait' = [Wait EXCEPT ![r] = 0]
      /\ Due' = [Due EXCEPT ![r] = 0] /\ Approved' = [Approved EXCEPT ![r] = FALSE]
  <2>1. StageOf(NoContact("deleted").status) = "over"
    BY <1>2, StageNames
  <2> QED
    BY <1>0, <1>2, <2>1, RowMaps DEF DeleteRow, Stage, Wait, Due, Approved
<1> QED
    BY <1>0, <1>1, <1>3 DEF Promise!End, Stage, Wait, Due, Approved

\* A demand that is stored was received at most MaxLag ago.
LEMMA DemandRefines ==
    ASSUME IInv, NEW r \in Relations, NEW t \in demands[r], CommitDemand(r, t)
    PROVE  Promise!Next \/ UNCHANGED Promise!vars
<1>0. Stage[r] = StageOf(contacts[r].status) /\ contacts[r] \in Contact
    BY DEF Stage, IInv, TypeOK
<1>1. now' = now /\ opened' = opened
    BY DEF CommitDemand
<1>2. CASE Is(r, "active") /\ contacts[r].sealed
  <2> DEFINE row == [contacts[r] EXCEPT !.status = "access_requested", !.requested = t,
                                        !.available = t + contacts[r].waiting]
  <2>1. /\ row.status = "access_requested" /\ row.waiting = contacts[r].waiting
        /\ row.available = t + contacts[r].waiting /\ row.approved = contacts[r].approved
    BY <1>0 DEF Contact
  <2>2. contacts' = [contacts EXCEPT ![r] = row]
    BY <1>2 DEF CommitDemand
  <2> HIDE DEF row
  <2>3. t \in 0..now /\ now <= t + MaxLag
    BY DEF IInv, TypeOK, FreshInv
  <2>4. Stage[r] = "trusted" /\ Stage' = [Stage EXCEPT ![r] = "asked"] /\ Wait' = Wait
        /\ Due' = [Due EXCEPT ![r] = t + Wait[r]] /\ Approved' = Approved
    <3>1. StageOf(row.status) = "asked" /\ Wait[r] = contacts[r].waiting
          /\ Stage[r] = "trusted"
      BY <1>0, <1>2, <2>1, StageNames DEF Is, Wait
    <3> QED
      BY <2>1, <2>2, <3>1, RowMaps DEF Stage, Wait, Due, Approved
  <2>5. Promise!Ask(r)
    BY <1>1, <2>3, <2>4 DEF Promise!Ask, Promise!Move, Stage, Wait, Due, Approved
  <2> QED
    BY <2>5 DEF Promise!Next
<1>3. CASE ~(Is(r, "active") /\ contacts[r].sealed)
  <2>1. contacts' = contacts
    BY <1>3 DEF CommitDemand
  <2> QED
    BY <1>1, <2>1, TableSame DEF Promise!vars, Stage, Wait, Due, Approved
<1> QED
    BY <1>2, <1>3

LEMMA OwnerRefines ==
    ASSUME IInv, NEW r \in Relations, OwnerStep(r)
    PROVE  Promise!Next \/ UNCHANGED Promise!vars
<1> USE DEF Is
<1>0. Stage[r] = StageOf(contacts[r].status) /\ contacts[r] \in Contact
    BY DEF Stage, IInv, TypeOK
<1>1. CASE AddContact(r)
  <2>1. PICK o \in Users, c \in Users, w \in Waits :
          contacts' = [contacts EXCEPT ![r] =
                         [NoContact("pending") EXCEPT !.owner = o, !.contact = c,
                                                      !.waiting = w]]
    BY <1>1 DEF AddContact
  <2>2. PICK row : row = [NoContact("pending") EXCEPT !.owner = o, !.contact = c,
                                                      !.waiting = w]
    OBVIOUS
  <2>3. row.status = "pending" /\ row.waiting = w /\ row.available = 0
        /\ row.approved = FALSE
    BY <2>2 DEF NoContact
  <2>4. contacts[r].status = "unused" /\ contacts[r].available = 0
        /\ contacts[r].approved = FALSE
    BY <1>1, NoContactType DEF AddContact, IInv, BlankInv
  <2>5. contacts' = [contacts EXCEPT ![r] = row]
    BY <2>1, <2>2
  <2>6. Stage[r] = "none" /\ Stage' = [Stage EXCEPT ![r] = "invited"]
        /\ Wait' = [Wait EXCEPT ![r] = w] /\ Due' = Due /\ Approved' = Approved
    <3>1. StageOf(row.status) = "invited" /\ StageOf(contacts[r].status) = "none"
      BY <2>3, <2>4, StageNames
    <3> QED
      BY <2>3, <2>4, <2>5, <3>1, RowMaps DEF Stage, Wait, Due, Approved
  <2>7. Promise!Invite(r)
    BY <1>1, <2>6 DEF AddContact, Promise!Invite, Promise!Move, Stage, Wait, Due, Approved
  <2> QED
    BY <2>7 DEF Promise!Next
<1>2. CASE SeedContact(r)
  <2> DEFINE row == [contacts[r] EXCEPT !.sealed = TRUE]
  <2>1. /\ row.status = contacts[r].status /\ row.waiting = contacts[r].waiting
        /\ row.available = contacts[r].available /\ row.approved = contacts[r].approved
    BY <1>0 DEF Contact
  <2>2. contacts' = [contacts EXCEPT ![r] = row]
    BY <1>2 DEF SeedContact
  <2> HIDE DEF row
  <2>3. Stage' = Stage /\ Wait' = Wait /\ Due' = Due /\ Approved' = Approved
    BY <2>1, <2>2, RowMaps DEF Stage, Wait, Due, Approved
  <2> QED
    BY <1>2, <2>3 DEF SeedContact, Promise!vars, Stage, Wait, Due, Approved
<1>3. CASE ApproveAccess(r)
  <2> DEFINE row == [contacts[r] EXCEPT !.status = "access_granted", !.approved = TRUE]
  <2>1. /\ row.status = "access_granted" /\ row.waiting = contacts[r].waiting
        /\ row.available = contacts[r].available /\ row.approved = TRUE
    BY <1>0 DEF Contact
  <2>2. contacts' = [contacts EXCEPT ![r] = row]
    BY <1>3 DEF ApproveAccess
  <2> HIDE DEF row
  <2>3. Stage[r] = "asked" /\ Stage' = [Stage EXCEPT ![r] = "open"] /\ Wait' = Wait
        /\ Due' = Due /\ Approved' = [Approved EXCEPT ![r] = TRUE]
    <3>1. StageOf(row.status) = "open" /\ StageOf(contacts[r].status) = "asked"
      BY <1>3, <2>1, StageNames DEF ApproveAccess
    <3> QED
      BY <2>1, <2>2, <3>1, RowMaps DEF Stage, Wait, Due, Approved
  <2>4. Promise!Approve(r)
    BY <1>3, <2>3
       DEF ApproveAccess, Promise!Approve, Promise!Move, Stage, Wait, Due, Approved
  <2> QED
    BY <2>4 DEF Promise!Next
<1>4. CASE RejectAccess(r)
  <2> DEFINE row == [contacts[r] EXCEPT !.status = "active", !.requested = 0, !.available = 0]
  <2>1. /\ row.status = "active" /\ row.waiting = contacts[r].waiting /\ row.available = 0
        /\ row.approved = contacts[r].approved
    BY <1>0 DEF Contact
  <2>2. contacts' = [contacts EXCEPT ![r] = row]
    BY <1>4 DEF RejectAccess
  <2> HIDE DEF row
  <2>3. Stage[r] = "asked" /\ Stage' = [Stage EXCEPT ![r] = "trusted"] /\ Wait' = Wait
        /\ Due' = [Due EXCEPT ![r] = 0] /\ Approved' = Approved
    <3>1. StageOf(row.status) = "trusted" /\ StageOf(contacts[r].status) = "asked"
      BY <1>4, <2>1, StageNames DEF RejectAccess
    <3> QED
      BY <2>1, <2>2, <3>1, RowMaps, ZenonT(30) DEF Stage, Wait, Due, Approved
  <2>4. Promise!Refuse(r)
    BY <1>4, <2>3 DEF RejectAccess, Promise!Refuse, Promise!Move, Stage, Wait, Due, Approved
  <2> QED
    BY <2>4 DEF Promise!Next
<1>5. CASE RevokeContact(r)
  <2>1. Promise!End(r)
    BY <1>5, RevokeEnds DEF RevokeContact
  <2> QED
    BY <2>1 DEF Promise!Next
<1> QED
    BY <1>1, <1>2, <1>3, <1>4, <1>5 DEF OwnerStep

LEMMA ContactRefines ==
    ASSUME IInv, NEW r \in Relations, ContactStep(r)
    PROVE  Promise!Next \/ UNCHANGED Promise!vars
<1> USE DEF Is
<1>0. Stage[r] = StageOf(contacts[r].status) /\ contacts[r] \in Contact
    BY DEF Stage, IInv, TypeOK
<1>1. CASE AcceptContact(r)
  <2> DEFINE row == [contacts[r] EXCEPT !.status = "active"]
  <2>1. /\ row.status = "active" /\ row.waiting = contacts[r].waiting
        /\ row.available = contacts[r].available /\ row.approved = contacts[r].approved
    BY <1>0 DEF Contact
  <2>2. contacts' = [contacts EXCEPT ![r] = row]
    BY <1>1 DEF AcceptContact, Become
  <2> HIDE DEF row
  <2>3. Promise!Accept(r)
    BY <1>0, <1>1, <2>1, <2>2, RowMaps, StageNames
       DEF AcceptContact, Promise!Accept, Promise!Move, Stage, Wait, Due, Approved
  <2> QED
    BY <2>3 DEF Promise!Next
<1>2. CASE DeclineContact(r)
  <2>1. Promise!End(r)
    BY <1>2, RevokeEnds DEF DeclineContact, Live, Statuses
  <2> QED
    BY <2>1 DEF Promise!Next
<1>3. ASSUME NEW t \in demands[r], CommitDemand(r, t)
      PROVE  Promise!Next \/ UNCHANGED Promise!vars
    BY <1>3, DemandRefines
<1>4. CASE MaybeAutoGrant(r)
  <2>1. CASE Is(r, "access_requested") /\ contacts[r].available <= CurrentTimestamp
    <3> DEFINE row == [contacts[r] EXCEPT !.status = "access_granted"]
    <3>1. /\ row.status = "access_granted" /\ row.waiting = contacts[r].waiting
          /\ row.available = contacts[r].available /\ row.available \in Nat
          /\ row.approved = contacts[r].approved
      BY <1>0 DEF Contact
    <3>2. contacts' = [contacts EXCEPT ![r] = row]
      BY <1>4, <2>1 DEF MaybeAutoGrant, Become
    <3> HIDE DEF row
    <3>3. Due[r] <= now
      BY <2>1, <3>1, TimestampBehind DEF Due, IInv, TypeOK
    <3>4. Promise!Elapse(r)
      BY <1>0, <1>4, <2>1, <3>1, <3>2, <3>3, RowMaps, StageNames
         DEF MaybeAutoGrant, Promise!Elapse, Promise!Move, Stage, Wait, Due, Approved
    <3> QED
      BY <3>4 DEF Promise!Next
  <2>2. CASE ~(Is(r, "access_requested") /\ contacts[r].available <= CurrentTimestamp)
    <3>1. contacts' = contacts
      BY <1>4, <2>2 DEF MaybeAutoGrant
    <3> QED
      BY <1>4, <3>1, TableSame DEF MaybeAutoGrant, Promise!vars, Stage, Wait, Due, Approved
  <2> QED
    BY <2>1, <2>2
<1>5. CASE GetGrantedVaultKey(r)
  <2>1. contacts' = contacts /\ now' = now
    BY <1>5 DEF GetGrantedVaultKey
  <2>2. CASE Is(r, "access_granted") /\ contacts[r].sealed
    <3>1. Promise!Open(r)
      BY <1>0, <1>5, <2>1, <2>2, TableSame, StageNames
         DEF GetGrantedVaultKey, Promise!Open, Stage, Wait, Due, Approved
    <3> QED
      BY <3>1 DEF Promise!Next
  <2>3. CASE ~(Is(r, "access_granted") /\ contacts[r].sealed)
    BY <1>5, <2>1, <2>3, TableSame DEF GetGrantedVaultKey, Promise!vars, Stage, Wait, Due, Approved
  <2> QED
    BY <2>2, <2>3
<1>6. CASE Demand(r) \/ CallVault(r) \/ ReadEntries(r) \/ DropCall(r)
           \/ \E t \in demands[r] : LoseDemand(r, t)
  <2>1. contacts' = contacts /\ now' = now /\ opened' = opened
    BY <1>6 DEF Demand, CallVault, ReadEntries, DropCall, LoseDemand
  <2> QED
    BY <2>1, TableSame DEF Promise!vars, Stage, Wait, Due, Approved
<1> QED
    BY <1>1, <1>2, <1>3, <1>4, <1>5, <1>6 DEF ContactStep

LEMMA StepRefines == IInv /\ [Next]_vars => [Promise!Next]_(Promise!vars)
<1> SUFFICES ASSUME IInv, [Next]_vars PROVE Promise!Next \/ UNCHANGED Promise!vars
    OBVIOUS
<1>1. CASE Tick
  <2>1. Promise!Tick
    BY <1>1, TableSame DEF Tick, Promise!Tick, Stage, Wait, Due, Approved
  <2> QED
    BY <2>1 DEF Promise!Next
<1>2. CASE UNCHANGED vars
    BY <1>2, TableSame DEF vars, Promise!vars, Stage, Wait, Due, Approved
<1> QED
    BY <1>1, <1>2, OwnerRefines, ContactRefines DEF Next

\* The handlers implement the promise: whatever the order of the two sides'
\* calls, the delays of the database and the resolution of its clock, every
\* opening of a vault is one the abstract specification allows.
THEOREM PromiseKept == Spec => KeepsPromise
<1>1. Spec => Promise!Init /\ [][Promise!Next]_(Promise!vars)
    BY InitRefines, StepRefines, Invariance, PTL DEF Spec
<1> QED
    BY <1>1 DEF KeepsPromise, Promise!Spec

=============================================================================
