----------------------------- MODULE SharedVault -----------------------------
(***************************************************************************)
(* Shared vaults: an owner, members the owner invites, entries any member  *)
(* writes.  The server answers requests in several statements and tells    *)
(* the members that something changed; the pages of the desktop load the   *)
(* vault again when told, those of the extension only after an act of      *)
(* their own.                                                              *)
(*                                                                         *)
(* A request is a record: what it asks, the statement the server executes  *)
(* next, and what the page knew when it was sent.  A load is two requests  *)
(* in a row whose answers may come late.  The text of an entry is the      *)
(* version it was written from: enough to tell an edit that overwrites     *)
(* another one.  The keys are those of module Keyring: here every account  *)
(* has its pair and every seal opens.                                      *)
(***************************************************************************)
EXTENDS Naturals, FiniteSets

CONSTANTS
    Users, Desktops, Extensions, UserOf,
    Vaults, EntryIds,      \* identifiers (UUIDs)
    MaxVaults,             \* MAX_SHARED_VAULTS_PER_CREATOR
    MaxMembers,            \* MAX_MEMBERS_PER_SHARED_VAULT
    MaxOps, MaxVersion,    \* bounds: acts of users, versions of an entry
    None

Devices == Desktops \cup Extensions

ASSUME SharedVaultAssumption ==
    /\ UserOf \in [Devices -> Users] /\ None \notin Vaults \cup EntryIds \cup Users /\ None # "gone"
    /\ None \notin [on : EntryIds, expected : Nat]
    /\ MaxVersion \in Nat \ {0} /\ MaxOps \in Nat

VARIABLES
    vaults,    \* table shared_vaults: the creator of each; None, then "gone"
    members,   \* table shared_vault_members
    entries,   \* table shared_vault_entries
    page,      \* device -> what its page holds
    loads,     \* loads under way
    reqs,      \* requests under way
    signal,    \* desktops told of a change they have not loaded yet
    online,    \* desktops with an open socket
    spent,     \* acts of users so far
    missed,    \* history: desktops told of nothing, their socket being closed
    removed,   \* history: pairs <<vault, user>> removed and not invited since
    lost       \* history: edits written over a version they were not made from

tables == <<vaults, members, entries>>
history == <<removed, lost>>
vars == <<tables, page, loads, reqs, signal, online, spent, missed, history>>

NoEntry == [v |-> None, version |-> 0]
NoPage == [at |-> "none", v |-> None, vault |-> FALSE, mine |-> FALSE, list |-> {},
           ents |-> [e \in EntryIds |-> 0], mems |-> {}, err |-> FALSE, form |-> None]

Acts == {"create", "add", "update", "delete", "invite", "remove", "deleteVault"}

Versions == 0..MaxVersion
Forms == [on : EntryIds, expected : 1..MaxVersion]
Pages ==
    [at : {"none", "list", "detail"}, v : Vaults \cup {None}, vault : BOOLEAN, mine : BOOLEAN,
     list : SUBSET Vaults, ents : [EntryIds -> Versions], mems : SUBSET Users, err : BOOLEAN,
     form : Forms \cup {None}]
Requests ==
    [d : Devices, u : Users, do : Acts, v : Vaults \cup {None}, on : EntryIds \cup Users \cup {None},
     at : {"check", "write", "tell", "answer"}, expected : Versions, basis : Versions,
     raced : BOOLEAN, out : BOOLEAN]
Loads ==
    [d : Devices, v : Vaults \cup {None}, at : {"vaults", "found", "detail", "arrived"}, last : BOOLEAN,
     list : SUBSET Vaults, ents : [EntryIds -> Versions], mems : SUBSET Users]

TypeOK ==
    /\ vaults \in [Vaults -> Users \cup {None, "gone"}] /\ members \in [Vaults -> SUBSET Users]
    /\ \A v \in Vaults : vaults[v] \notin Users => members[v] = {}
    /\ entries \in [EntryIds -> [v : Vaults \cup {None}, version : Versions]]
    /\ page \in [Devices -> Pages] /\ \A d \in Devices : page[d].at = "detail" => page[d].v \in Vaults
    /\ reqs \subseteq Requests
    /\ \A r \in reqs : (r.do # "create" \/ r.at # "check" => r.v \in Vaults)
                       /\ (r.do = "invite" => r.on \in Users)
    /\ loads \subseteq Loads /\ \A l \in loads : l.at \in {"detail", "arrived"} => l.v \in Vaults
    /\ signal \subseteq Desktops /\ online \subseteq Desktops /\ missed \subseteq Desktops
    /\ spent \in 0..MaxOps /\ removed \subseteq Vaults \X Users
    /\ lost \subseteq [e : EntryIds \cup Users \cup {None}, raced : BOOLEAN]

Init ==
    /\ vaults = [v \in Vaults |-> None] /\ members = [v \in Vaults |-> {}]
    /\ entries = [e \in EntryIds |-> NoEntry]
    /\ page = [d \in Devices |-> NoPage]
    /\ loads = {} /\ reqs = {} /\ signal = {} /\ online = Desktops /\ spent = 0
    /\ missed = {} /\ removed = {} /\ lost = {}

\* Identifiers never given: a row that goes leaves its version behind.
Free == {e \in EntryIds : entries[e] = NoEntry}
Gone(e) == [entries[e] EXCEPT !.v = None]

Of(u) == {v \in Vaults : u \in members[v]}

\* What the sealed fields of an entry say, once opened: its version.
DecryptSharedEntry(e) == entries[e].version
EntriesOf(v) == [e \in EntryIds |-> IF entries[e].v = v THEN DecryptSharedEntry(e) ELSE 0]

----------------------------------------------------------------------------
(* The server.                                                             *)

Moves(r, at) == reqs' = (reqs \ {r}) \cup {[r EXCEPT !.at = at]}

\* Who is told hears of it through its socket, or not at all.
Tell(U) ==
    LET heard == {d \in Desktops : UserOf[d] \in U} IN
    /\ signal' = signal \cup (heard \cap online)
    /\ missed' = missed \cup (heard \ online)

\* create: the vault and its owner's row in one transaction, under a cap.
Create(r) ==
    /\ r.do = "create" /\ r.at = "check"
    /\ Cardinality({v \in Vaults : vaults[v] = r.u}) < MaxVaults
    /\ \E v \in Vaults :
        /\ vaults[v] = None
        /\ vaults' = [vaults EXCEPT ![v] = r.u]
        /\ members' = [members EXCEPT ![v] = {r.u}]
        /\ reqs' = (reqs \ {r}) \cup {[r EXCEPT !.at = "answer", !.v = v]}
    /\ UNCHANGED <<entries, page, loads, signal, online, spent, missed, history>>

\* invite_member: by the owner, under a cap, not twice; nobody is told.
InviteMember(r) ==
    /\ r.do = "invite" /\ r.at = "check"
    /\ vaults[r.v] = r.u /\ r.on \notin members[r.v] /\ Cardinality(members[r.v]) < MaxMembers
    /\ members' = [members EXCEPT ![r.v] = @ \cup {r.on}]
    /\ removed' = removed \ {<<r.v, r.on>>}
    /\ reqs' = {[q EXCEPT !.out = @ /\ ~ (q.v = r.v /\ q.u = r.on)] : q \in reqs \ {r}}
               \cup {[r EXCEPT !.at = "answer"]}
    /\ UNCHANGED <<vaults, entries, page, loads, signal, online, spent, missed, lost>>

\* leave by a member, remove_member by the owner; never the owner's own row.
RemoveMember(r) ==
    /\ r.do = "remove" /\ r.at = "check"
    /\ r.on \in members[r.v] \ {vaults[r.v]} /\ r.u \in {r.on, vaults[r.v]}
    /\ members' = [members EXCEPT ![r.v] = @ \ {r.on}]
    /\ removed' = removed \cup {<<r.v, r.on>>}
    /\ Moves(r, "tell")
    /\ UNCHANGED <<vaults, entries, page, loads, signal, online, spent, missed, lost>>

\* delete_vault, after the members were told: rows of members and entries go with it.
DeleteVault(r) ==
    /\ r.do = "deleteVault" /\ r.at = "write" /\ vaults[r.v] = r.u
    /\ vaults' = [vaults EXCEPT ![r.v] = "gone"]
    /\ members' = [members EXCEPT ![r.v] = {}]
    /\ entries' = [e \in EntryIds |-> IF entries[e].v = r.v THEN Gone(e) ELSE entries[e]]
    /\ Moves(r, "answer")
    /\ UNCHANGED <<page, loads, signal, online, spent, missed, history>>

\* Variant: whoever asks may write.
CheckVersionOnly(r) ==
    /\ r.do \in {"add", "update", "delete"} /\ r.at = "check"
    /\ r.do = "update" => entries[r.on].v = r.v /\ entries[r.on].version = r.expected
    /\ Moves(r, "write")
    /\ UNCHANGED <<tables, page, loads, signal, online, spent, missed, history>>

\* The reads before a write of an entry: the member's row, the version.
Check(r) ==
    /\ r.do \in {"add", "update", "delete"} /\ r.at = "check"
    /\ r.u \in members[r.v]
    /\ r.do = "update" => entries[r.on].v = r.v /\ entries[r.on].version = r.expected
    /\ Moves(r, "write")
    /\ UNCHANGED <<tables, page, loads, signal, online, spent, missed, history>>

AddEntry(r) ==
    /\ r.do = "add" /\ r.at = "write" /\ vaults[r.v] \in Users
    /\ \E e \in Free :
        entries' = [entries EXCEPT ![e] = [v |-> r.v, version |-> 1]]
    /\ Moves(r, "tell")
    /\ UNCHANGED <<vaults, members, page, loads, signal, online, spent, missed, history>>

\* The write asks for the entry, no longer for its version.
UpdateEntry(r) ==
    /\ r.do = "update" /\ r.at = "write" /\ entries[r.on].v = r.v /\ entries[r.on].version < MaxVersion
    /\ entries' = [entries EXCEPT ![r.on].version = @ + 1]
    /\ reqs' = {IF q.do = "update" /\ q.on = r.on THEN [q EXCEPT !.raced = @ \/ q.at = "write"] ELSE q : q \in reqs \ {r}}
               \cup {[r EXCEPT !.at = "tell"]}
    /\ lost' = IF entries[r.on].version = r.basis THEN lost
               ELSE lost \cup {[e |-> r.on, raced |-> r.raced]}
    /\ UNCHANGED <<vaults, members, page, loads, signal, online, spent, missed, removed>>

\* The entry was deleted since the check: no row is touched, nobody looks how many
\* were, and the members are told all the same.
UpdateNoEntry(r) ==
    /\ r.do = "update" /\ r.at = "write" /\ entries[r.on].v # r.v
    /\ Moves(r, "tell")
    /\ UNCHANGED <<tables, page, loads, signal, online, spent, missed, history>>

DeleteEntry(r) ==
    /\ r.do = "delete" /\ r.at = "write" /\ entries[r.on].v = r.v
    /\ entries' = [entries EXCEPT ![r.on] = Gone(r.on)]
    /\ Moves(r, "tell")
    /\ UNCHANGED <<vaults, members, page, loads, signal, online, spent, missed, history>>

\* broadcast_to_members: who is a member when it looks, and the one removed.
\* A deletion tells first, as nobody would be found after it.
BroadcastToMembers(r) ==
    /\ \/ /\ r.at = "tell"
          /\ Tell(members[r.v] \cup IF r.do = "remove" /\ r.on # r.u THEN {r.on} ELSE {})
          /\ Moves(r, "answer")
       \/ r.do = "deleteVault" /\ r.at = "check" /\ Tell(members[r.v]) /\ Moves(r, "write")
    /\ UNCHANGED <<tables, page, loads, online, spent, history>>

----------------------------------------------------------------------------
(* Loading a page.                                                         *)

NewLoad(d, at) == [d |-> d, v |-> page[d].v, at |-> at, last |-> TRUE, list |-> {}, ents |-> NoPage.ents, mems |-> {}]

\* Variant: every load believes it is the last one asked for.
StartLoadUnnumbered(d, p) ==
    /\ page' = [page EXCEPT ![d] = [p EXCEPT !.err = FALSE]]
    /\ loads' = {l \in loads : l.d # d \/ (l.v = p.v /\ page[d].at = p.at)} \cup {[NewLoad(d, "vaults") EXCEPT !.v = p.v]}
    /\ missed' = missed \ {d}

\* load: another page drops the loads of the former one; on the desktop a
\* load makes the loads before it obsolete.
StartLoad(d, p) ==
    /\ page' = [page EXCEPT ![d] = [p EXCEPT !.err = FALSE]]
    /\ loads' = {IF l.d = d THEN [l EXCEPT !.last = d \in Extensions] ELSE l :
                     l \in {l \in loads : l.d # d \/ (l.v = p.v /\ page[d].at = p.at)}}
                \cup {[NewLoad(d, "vaults") EXCEPT !.v = p.v]}
    /\ missed' = missed \ {d}

\* listMySharedVaults: the vaults of the account, each with its sealed key.
ListMySharedVaults(l) ==
    /\ l.at = "vaults"
    /\ loads' = (loads \ {l}) \cup {[l EXCEPT !.at = "found", !.list = Of(UserOf[l.d])]}
    /\ UNCHANGED <<tables, page, reqs, signal, online, spent, missed, history>>

\* The list is shown; the page of one vault looks for it there and goes on.
GetUnlockedSharedVault(l) ==
    LET p == page[l.d] IN
    /\ l.at = "found"
    /\ IF ~ l.last THEN loads' = loads \ {l} /\ page' = page
       ELSE IF p.at = "list" THEN loads' = loads \ {l} /\ page' = [page EXCEPT ![l.d].list = l.list]
       ELSE IF l.v \in l.list
       THEN /\ loads' = (loads \ {l}) \cup {[l EXCEPT !.at = "detail"]}
            /\ page' = [page EXCEPT ![l.d].vault = TRUE, ![l.d].mine = vaults[l.v] = UserOf[l.d]]
       ELSE /\ loads' = loads \ {l}
            /\ page' = [page EXCEPT ![l.d].vault = FALSE, ![l.d].err = TRUE]
    /\ UNCHANGED <<tables, reqs, signal, online, spent, missed, history>>

\* listEntries, listMembers: for members, both read before either is shown.
ListEntries(l) ==
    /\ l.at = "detail" /\ UserOf[l.d] \in members[l.v]
    /\ loads' = (loads \ {l}) \cup {[l EXCEPT !.at = "arrived", !.ents = EntriesOf(l.v), !.mems = members[l.v]]}
    /\ UNCHANGED <<tables, page, reqs, signal, online, spent, missed, history>>

Shown(l) ==
    /\ l.at = "arrived"
    /\ loads' = loads \ {l}
    /\ page' = IF l.last THEN [page EXCEPT ![l.d].ents = l.ents, ![l.d].mems = l.mems] ELSE page
    /\ UNCHANGED <<tables, reqs, signal, online, spent, missed, history>>

LoadFails(l) ==
    /\ l.at \in {"vaults", "detail"}
    /\ loads' = loads \ {l}
    /\ page' = IF l.last THEN [page EXCEPT ![l.d].err = TRUE] ELSE page
    /\ UNCHANGED <<tables, reqs, signal, online, spent, missed, history>>

\* The event has come and the 400 ms without another one have passed.
Reload(d) ==
    /\ d \in signal
    /\ signal' = signal \ {d}
    /\ IF page[d].at = "none" THEN UNCHANGED <<page, loads, missed>> ELSE StartLoad(d, page[d])
    /\ UNCHANGED <<tables, reqs, online, spent, history>>

\* The socket closes; connect opens another one later, and loads nothing.
\* Events already received stay on their way to the page.
Disconnect(d) ==
    /\ d \in online /\ spent < MaxOps
    /\ online' = online \ {d} /\ spent' = spent + 1
    /\ UNCHANGED <<tables, page, loads, reqs, signal, missed, history>>

Connect(d) ==
    /\ d \in Desktops \ online
    /\ online' = online \cup {d}
    /\ UNCHANGED <<tables, page, loads, reqs, signal, spent, missed, history>>

----------------------------------------------------------------------------
(* The pages.                                                              *)

Ask(d, do, on) ==
    [d |-> d, u |-> UserOf[d], do |-> do, v |-> page[d].v, on |-> on, at |-> "check",
     expected |-> 0, basis |-> 0, raced |-> FALSE, out |-> <<page[d].v, UserOf[d]>> \in removed]

Send(r) ==
    /\ spent < MaxOps /\ spent' = spent + 1
    /\ reqs' = reqs \cup {r}
    /\ UNCHANGED <<tables, loads, signal, online, missed, history>>

Busy(d, do) == \E r \in reqs : r.d = d /\ r.do \in do

\* The user opens one page or the other; bound: with no request under way.
Visit(d, p) ==
    /\ spent < MaxOps /\ spent' = spent + 1
    /\ ~ Busy(d, Acts)
    /\ StartLoad(d, p)
    /\ UNCHANGED <<tables, reqs, signal, online, history>>

HandleCreate(d) ==
    /\ page[d].at = "list" /\ ~ Busy(d, {"create"})
    /\ Send(Ask(d, "create", None))
    /\ page' = [page EXCEPT ![d].err = FALSE]

\* openEditForm: the version is kept as it was when the form opened, whatever
\* the page loads later.
OpenEditForm(d) ==
    \E e \in EntryIds :
        /\ page[d].at = "detail" /\ page[d].ents[e] # 0
        /\ page' = [page EXCEPT ![d].form = [on |-> e, expected |-> page[d].ents[e]]]
        /\ spent < MaxOps /\ spent' = spent + 1
        /\ UNCHANGED <<tables, loads, reqs, signal, online, missed, history>>

\* An edit is sealed from the text its form was opened with.
EncryptSharedEntry(d, f, expected) == [Ask(d, "update", f.on) EXCEPT !.expected = expected, !.basis = f.expected]

\* Variant: an edit expects the version the page shows now.
SaveShownVersion(d) ==
    LET f == page[d].form IN
    /\ page[d].at = "detail" /\ page[d].vault /\ ~ Busy(d, {"add", "update"})
    /\ \/ Send(Ask(d, "add", None))
       \/ f # None /\ Send(EncryptSharedEntry(d, f, page[d].ents[f.on]))
    /\ page' = [page EXCEPT ![d].err = FALSE]

\* A new entry, from a form opened for it, or the edit in the open form.
HandleSaveEntry(d) ==
    LET f == page[d].form IN
    /\ page[d].at = "detail" /\ page[d].vault /\ ~ Busy(d, {"add", "update"})
    /\ \/ Send(Ask(d, "add", None))
       \/ f # None /\ Send(EncryptSharedEntry(d, f, f.expected))
    /\ page' = [page EXCEPT ![d].err = FALSE]

HandleDeleteEntry(d) ==
    \E e \in EntryIds :
        /\ page[d].at = "detail" /\ page[d].ents[e] # 0
        /\ Send(Ask(d, "delete", e)) /\ page' = page

HandleInvite(d) ==
    \E u \in Users \ {UserOf[d]} :
        /\ page[d].at = "detail" /\ page[d].vault /\ page[d].mine /\ ~ Busy(d, {"invite"})
        /\ Send(Ask(d, "invite", u))
        /\ page' = [page EXCEPT ![d].err = FALSE]

\* The owner may remove the others, the others may leave.
HandleRemoveMember(d) ==
    \E u \in page[d].mems :
        /\ page[d].at = "detail"
        /\ IF u = UserOf[d] THEN vaults[page[d].v] # u ELSE page[d].vault /\ page[d].mine
        /\ Send(Ask(d, "remove", u)) /\ page' = page

HandleDeleteVault(d) ==
    /\ page[d].at = "detail" /\ page[d].vault /\ page[d].mine
    /\ Send(Ask(d, "deleteVault", None)) /\ page' = page

\* What the page does with a success: close its form, go elsewhere, load again.
Answered(r) ==
    LET d == r.d
        p == [page[d] EXCEPT !.form = IF r.do \in {"add", "update"} THEN None ELSE @]
    IN /\ r.at = "answer"
       /\ reqs' = reqs \ {r}
       /\ IF page[d].at = "none" THEN UNCHANGED <<page, loads, missed>>
          ELSE StartLoad(d, CASE r.do = "create" -> [NoPage EXCEPT !.at = "detail", !.v = r.v]
                              [] r.do = "deleteVault" \/ (r.do = "remove" /\ r.on = r.u) -> [NoPage EXCEPT !.at = "list"]
                              [] OTHER -> p)
       /\ UNCHANGED <<tables, signal, online, spent, history>>

\* Refused, or lost before the server had it or after it was served.
RequestFails(r) ==
    /\ \/ r.at \in {"check", "answer"}
       \/ r.at = "write" /\ CASE r.do = "add" -> vaults[r.v] \notin Users \/ Free = {}
                                [] r.do = "deleteVault" -> vaults[r.v] # r.u
                                [] OTHER -> r.do = "delete" /\ entries[r.on].v # r.v
    /\ reqs' = reqs \ {r}
    /\ page' = [page EXCEPT ![r.d].err = TRUE]
    /\ UNCHANGED <<tables, loads, signal, online, spent, missed, history>>

EntryRow(d) == OpenEditForm(d) \/ HandleDeleteEntry(d)
MembersSection(d) == HandleInvite(d) \/ HandleRemoveMember(d)

\* The pages and views: what each offers.
SharedVaultDetailPage(d) ==
    d \in Desktops /\ (EntryRow(d) \/ MembersSection(d) \/ HandleSaveEntry(d) \/ HandleDeleteVault(d))

ExtensionEntries(d) == d \in Extensions /\ (EntryRow(d) \/ HandleSaveEntry(d))
ExtensionMembers(d) == d \in Extensions /\ MembersSection(d)
SharedVaultDetailView(d) ==
    \/ ExtensionEntries(d) \/ ExtensionMembers(d)
    \/ d \in Extensions /\ HandleDeleteVault(d)

VaultLink(d) == \E v \in page[d].list : page[d].at = "list" /\ Visit(d, [NoPage EXCEPT !.at = "detail", !.v = v])
SharedVaultsPage(d) ==
    d \in Desktops /\ (HandleCreate(d) \/ VaultLink(d) \/ Visit(d, [NoPage EXCEPT !.at = "list"]))
SharedVaultsListView(d) ==
    d \in Extensions /\ (HandleCreate(d) \/ VaultLink(d) \/ Visit(d, [NoPage EXCEPT !.at = "list"]))

Serve(r) ==
    \/ Create(r) \/ InviteMember(r) \/ RemoveMember(r) \/ DeleteVault(r)
    \/ Check(r) \/ AddEntry(r) \/ UpdateEntry(r) \/ UpdateNoEntry(r) \/ DeleteEntry(r) \/ BroadcastToMembers(r)
    \/ Answered(r) \/ RequestFails(r)

LoadStep(l) == ListMySharedVaults(l) \/ GetUnlockedSharedVault(l) \/ ListEntries(l) \/ Shown(l) \/ LoadFails(l)

Next ==
    \/ \E d \in Devices : SharedVaultDetailPage(d) \/ SharedVaultDetailView(d) \/ SharedVaultsPage(d) \/ SharedVaultsListView(d)
    \/ \E d \in Desktops : Reload(d) \/ Disconnect(d) \/ Connect(d)
    \/ \E r \in reqs : Serve(r)
    \/ \E l \in loads : LoadStep(l)

Spec == Init /\ [][Next]_vars

\* Requests and loads are answered or fail, and timers fire.
Fairness ==
    /\ WF_vars(\E r \in reqs : Serve(r))
    /\ WF_vars(\E l \in loads : LoadStep(l))
    /\ \A d \in Desktops : WF_vars(Reload(d))

----------------------------------------------------------------------------
(* Properties.                                                             *)

\* Who was removed from a vault, and has not been invited again, writes no
\* entry of it, whatever its page still shows, unless the request was on its
\* way before the removal.
RemovedStaysOut ==
    [][\A e \in EntryIds :
         LET v == IF entries[e].v = None THEN entries'[e].v ELSE entries[e].v IN
         entries'[e] # entries[e] => \A r \in reqs :
             r.at = "write" /\ r.do \in {"add", "update", "delete"} /\ r \notin reqs' /\ r.v = v
             => ~ (r.out /\ <<r.v, r.u>> \in removed)]_vars

\* Whatever page or form an edit comes from and whatever was loaded meanwhile,
\* it replaces a version its author has not read only if another edit of the
\* same entry was being served at the same time.
LostOnlyByRace == \A x \in lost : x.raced

\* repository.rs:1549-1553: an edit made from another version is refused.
NoLostUpdate == lost = {}

\* A desktop page of a vault one is a member of, that shows no error and whose
\* socket was open all along, ends up with the entries stored, and with no
\* member that was removed, in whatever order the answers came.
PagesSettle ==
    <>[](\A d \in Desktops :
           LET p == page[d] IN
           p.at = "detail" /\ ~ p.err /\ d \notin missed /\ p.v \in Of(UserOf[d])
           => p.ents = EntriesOf(p.v) /\ p.mems \subseteq members[p.v])

\* pages/SharedVaultsPage.tsx:44-46: the list follows the vaults that appear
\* and disappear while it is open.
ListFollows ==
    <>[](\A d \in Desktops :
           LET p == page[d] IN p.at = "list" /\ ~ p.err /\ d \notin missed => p.list = Of(UserOf[d]))
==============================================================================
