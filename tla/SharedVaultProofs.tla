------------------------- MODULE SharedVaultProofs -------------------------
(***************************************************************************)
(* Proofs about SharedVault: the types, that an edit replaces one its      *)
(* author has not read only when the two were served at the same time, and *)
(* that who was removed writes nothing more.                               *)
(***************************************************************************)
EXTENDS SharedVault, TLAPS

TablesOK ==
    /\ vaults \in [Vaults -> Users \cup {None, "gone"}] /\ members \in [Vaults -> SUBSET Users]
    /\ \A v \in Vaults : vaults[v] \notin Users => members[v] = {}
    /\ entries \in [EntryIds -> [v : Vaults \cup {None}, version : Versions]]
PageOK(p) == p \in Pages /\ (p.at = "detail" => p.v \in Vaults)
PagesOK == page \in [Devices -> Pages] /\ \A d \in Devices : PageOK(page[d])
ReqOK(r) ==
    /\ r \in Requests
    /\ (r.do # "create" \/ r.at # "check" => r.v \in Vaults) /\ (r.do = "invite" => r.on \in Users)
ReqsOK == \A r \in reqs : ReqOK(r)
LoadsOK == loads \subseteq Loads /\ \A l \in loads : l.at \in {"detail", "arrived"} => l.v \in Vaults
SocketsOK == signal \subseteq Desktops /\ online \subseteq Desktops /\ missed \subseteq Desktops /\ spent \in 0..MaxOps
HistoryOK == removed \subseteq Vaults \X Users /\ lost \subseteq [e : EntryIds \cup Users \cup {None}, raced : BOOLEAN]

Types == TablesOK /\ PagesOK /\ ReqsOK /\ LoadsOK /\ SocketsOK /\ HistoryOK

LEMMA Parts == TypeOK <=> Types
BY DEF TypeOK, Types, TablesOK, PageOK, PagesOK, ReqOK, ReqsOK, LoadsOK, SocketsOK, HistoryOK

----------------------------------------------------------------------------
(* Values.                                                                 *)

LEMMA VersionTypes == 0 \in Versions /\ 1 \in Versions /\ Versions \subseteq Nat /\ 1..MaxVersion \subseteq Versions
BY SharedVaultAssumption DEF Versions

LEMMA NoPageOK == PageOK(NoPage) /\ NoPage.ents \in [EntryIds -> Versions]
BY VersionTypes DEF NoPage, Pages, PageOK

LEMMA EntriesOfType ==
    ASSUME TablesOK, NEW v
    PROVE  EntriesOf(v) \in [EntryIds -> Versions]
BY VersionTypes DEF TablesOK, EntriesOf, DecryptSharedEntry

\* A request that goes on to its next statement keeps what it asks.
LEMMA ReqMoves ==
    ASSUME NEW r \in Requests, NEW at \in {"check", "write", "tell", "answer"}
    PROVE  /\ [r EXCEPT !.at = at] \in Requests /\ [r EXCEPT !.at = at].at = at
           /\ [r EXCEPT !.at = at].do = r.do /\ [r EXCEPT !.at = at].v = r.v
           /\ [r EXCEPT !.at = at].on = r.on /\ [r EXCEPT !.at = at].u = r.u
           /\ [r EXCEPT !.at = at].expected = r.expected /\ [r EXCEPT !.at = at].basis = r.basis
           /\ [r EXCEPT !.at = at].raced = r.raced /\ [r EXCEPT !.at = at].out = r.out
BY DEF Requests

LEMMA MovesOK ==
    ASSUME ReqsOK, NEW r \in reqs, NEW at \in {"check", "write", "tell", "answer"}, Moves(r, at),
           r.v \in Vaults
    PROVE  ReqsOK'
<1>1. ReqOK(r)
  BY DEF ReqsOK
<1>2. ReqOK([r EXCEPT !.at = at])
  BY <1>1, ReqMoves DEF ReqOK
<1>3. \A q \in reqs' : ReqOK(q)
  BY <1>2 DEF ReqsOK, Moves
<1> QED
  BY <1>3 DEF ReqsOK

LEMMA AskOK ==
    ASSUME PagesOK, NEW d \in Devices, NEW do \in Acts, NEW on \in EntryIds \cup Users \cup {None},
           do # "create" => page[d].at = "detail", do = "invite" => on \in Users
    PROVE  ReqOK(Ask(d, do, on)) /\ Ask(d, do, on).at = "check" /\ Ask(d, do, on).do = do
<1>1. page[d] \in Pages /\ (do # "create" => page[d].v \in Vaults)
  BY DEF PagesOK, PageOK
<1>2. page[d].v \in Vaults \cup {None} /\ UserOf[d] \in Users
  BY <1>1, SharedVaultAssumption DEF Pages
<1> DEFINE out == <<page[d].v, UserOf[d]>> \in removed
<1>3. out \in BOOLEAN
  OBVIOUS
<1>4. Ask(d, do, on) \in Requests
  <2> HIDE DEF out
  <2>1. [d |-> d, u |-> UserOf[d], do |-> do, v |-> page[d].v, on |-> on, at |-> "check",
         expected |-> 0, basis |-> 0, raced |-> FALSE, out |-> out] \in Requests
    BY <1>2, <1>3, VersionTypes DEF Requests
  <2> QED
    BY <2>1 DEF Ask, out
<1> QED
  BY <1>1, <1>4 DEF ReqOK, Ask

LEMMA FormOK ==
    ASSUME PagesOK, NEW d \in Devices, page[d].form # None
    PROVE  page[d].form \in Forms /\ page[d].form.on \in EntryIds /\ page[d].form.expected \in 1..MaxVersion
BY DEF PagesOK, PageOK, Pages, Forms

LEMMA NewLoadType ==
    ASSUME PagesOK, NEW d \in Devices, NEW p, PageOK(p)
    PROVE  /\ [NewLoad(d, "vaults") EXCEPT !.v = p.v] \in Loads
           /\ [NewLoad(d, "vaults") EXCEPT !.v = p.v].at = "vaults"
<1>1. p.v \in Vaults \cup {None}
  BY DEF PageOK, Pages
<1> QED
  BY <1>1, NoPageOK DEF NewLoad, Loads

LEMMA StartLoadOK ==
    ASSUME PagesOK, LoadsOK, SocketsOK, NEW d \in Devices, NEW p, PageOK(p), StartLoad(d, p)
    PROVE  PagesOK' /\ LoadsOK' /\ missed' \subseteq Desktops
<1>1. PageOK([p EXCEPT !.err = FALSE])
  BY DEF PageOK, Pages
<1>2. PagesOK'
  BY <1>1 DEF PagesOK, PageOK, StartLoad
<1>3. \A l \in Loads : /\ [l EXCEPT !.last = d \in Extensions] \in Loads
                      /\ [l EXCEPT !.last = d \in Extensions].at = l.at
                      /\ [l EXCEPT !.last = d \in Extensions].v = l.v
  <2> TAKE l \in Loads
  <2>1. (d \in Extensions) \in BOOLEAN
    OBVIOUS
  <2>2. \A b \in BOOLEAN : /\ [l EXCEPT !.last = b] \in Loads /\ [l EXCEPT !.last = b].at = l.at
                           /\ [l EXCEPT !.last = b].v = l.v
    BY DEF Loads
  <2> QED
    BY <2>1, <2>2
<1>4. LoadsOK'
  <2>1. ASSUME NEW m \in loads'
        PROVE  m \in Loads /\ (m.at \in {"detail", "arrived"} => m.v \in Vaults)
    <3>1. CASE m = [NewLoad(d, "vaults") EXCEPT !.v = p.v]
      BY <3>1, NewLoadType
    <3>2. CASE \E l \in loads : m = IF l.d = d THEN [l EXCEPT !.last = d \in Extensions] ELSE l
      <4>1. PICK l \in loads : m = IF l.d = d THEN [l EXCEPT !.last = d \in Extensions] ELSE l
        BY <3>2
      <4>2. l \in Loads /\ (l.at \in {"detail", "arrived"} => l.v \in Vaults)
        BY DEF LoadsOK
      <4> QED
        BY <1>3, <4>1, <4>2
    <3> QED
      BY <3>1, <3>2 DEF StartLoad
  <2> QED
    BY <2>1 DEF LoadsOK
<1> QED
  BY <1>2, <1>4 DEF SocketsOK, StartLoad

----------------------------------------------------------------------------
(* One step.                                                               *)

LEMMA TablesInit == Init => Types
<1> SUFFICES ASSUME Init PROVE Types
  OBVIOUS
<1>1. TablesOK
  BY VersionTypes DEF Init, TablesOK, NoEntry
<1>2. PagesOK
  BY NoPageOK DEF Init, PagesOK, PageOK
<1>3. ReqsOK /\ LoadsOK /\ SocketsOK /\ HistoryOK
  BY SharedVaultAssumption DEF Init, ReqsOK, LoadsOK, SocketsOK, HistoryOK
<1> QED
  BY <1>1, <1>2, <1>3 DEF Types

LEMMA GoneType ==
    ASSUME TablesOK, NEW e \in EntryIds
    PROVE  Gone(e) \in [v : Vaults \cup {None}, version : Versions] /\ Gone(e).version = entries[e].version
BY DEF TablesOK, Gone

LEMMA TellOK ==
    ASSUME SocketsOK, NEW U, Tell(U)
    PROVE  signal' \subseteq Desktops /\ missed' \subseteq Desktops
BY DEF SocketsOK, Tell

\* The statements that serve a request.
LEMMA ServeOK ==
    ASSUME Types, NEW r \in reqs, Serve(r)
    PROVE  Types'
<1>0. /\ TablesOK /\ PagesOK /\ ReqsOK /\ LoadsOK /\ SocketsOK /\ HistoryOK
      /\ ReqOK(r) /\ r \in Requests /\ r.d \in Devices /\ r.u \in Users
      /\ r.on \in EntryIds \cup Users \cup {None} /\ r.raced \in BOOLEAN
  BY DEF Types, ReqsOK, ReqOK, Requests
<1>1. CASE Create(r)
  <2>1. PICK v \in Vaults :
            /\ vaults' = [vaults EXCEPT ![v] = r.u] /\ members' = [members EXCEPT ![v] = {r.u}]
            /\ reqs' = (reqs \ {r}) \cup {[r EXCEPT !.at = "answer", !.v = v]}
    BY <1>1 DEF Create
  <2>2. ReqOK([r EXCEPT !.at = "answer", !.v = v])
    BY <1>0 DEF ReqOK, Requests
  <2>3. \A q \in reqs' : ReqOK(q)
    BY <1>0, <2>1, <2>2 DEF ReqsOK
  <2>4. TablesOK'
    BY <1>0, <1>1, <2>1 DEF TablesOK, Create
  <2> QED
    BY <1>0, <1>1, <2>3, <2>4 DEF Types, Create, PagesOK, ReqsOK, LoadsOK, SocketsOK, HistoryOK, history
<1>2. CASE InviteMember(r)
  <2>1. r.v \in Vaults /\ r.do = "invite"
    BY <1>0, <1>2 DEF InviteMember, ReqOK
  <2>2. \A q \in reqs : ReqOK([q EXCEPT !.out = @ /\ ~ (q.v = r.v /\ q.u = r.on)])
    <3> TAKE q \in reqs
    <3> DEFINE b == q.out /\ ~ (q.v = r.v /\ q.u = r.on)
    <3>1. b \in BOOLEAN
      BY <1>0 DEF ReqsOK, ReqOK, Requests
    <3>2. \A c \in BOOLEAN : ReqOK([q EXCEPT !.out = c])
      BY <1>0 DEF ReqsOK, ReqOK, Requests
    <3> QED
      BY <3>1, <3>2
  <2>3. ReqOK([r EXCEPT !.at = "answer"])
    BY <1>0, <2>1, ReqMoves DEF ReqOK
  <2>4. \A q \in reqs' : ReqOK(q)
    BY <1>2, <2>2, <2>3 DEF InviteMember
  <2>5. r.on \in Users /\ r.u \in Users
    BY <1>0, <2>1 DEF ReqOK
  <2>6. TablesOK'
    BY <1>0, <1>2, <2>1, <2>5 DEF InviteMember, TablesOK
  <2> QED
    BY <1>0, <1>2, <2>1, <2>4, <2>6 DEF Types, InviteMember, PagesOK, ReqsOK, LoadsOK, SocketsOK, HistoryOK
<1>3. CASE RemoveMember(r)
  <2>1. r.v \in Vaults /\ r.on \in Users
    BY <1>0, <1>3 DEF RemoveMember, ReqOK, TablesOK
  <2>2. ReqsOK'
    BY <1>0, <1>3, <2>1, MovesOK DEF RemoveMember
  <2>3. TablesOK'
    BY <1>0, <1>3, <2>1 DEF RemoveMember, TablesOK
  <2> QED
    BY <1>0, <1>3, <2>1, <2>2, <2>3 DEF Types, RemoveMember, PagesOK, LoadsOK, SocketsOK, HistoryOK
<1>4. CASE DeleteVault(r)
  <2>1. r.v \in Vaults
    BY <1>0, <1>4 DEF DeleteVault, ReqOK
  <2>2. ReqsOK'
    BY <1>0, <1>4, <2>1, MovesOK DEF DeleteVault
  <2>3. TablesOK'
    BY <1>0, <1>4, <2>1, GoneType DEF DeleteVault, TablesOK
  <2> QED
    BY <1>0, <1>4, <2>2, <2>3 DEF Types, DeleteVault, PagesOK, LoadsOK, SocketsOK, HistoryOK, history
<1>5. CASE Check(r)
  <2>0. r.v \in Vaults
    BY <1>0, <1>5 DEF Check, ReqOK
  <2>1. ReqsOK'
    BY <1>0, <1>5, <2>0, MovesOK DEF Check
  <2> QED
    BY <1>0, <1>5, <2>1 DEF Types, Check, TablesOK, PagesOK, LoadsOK, SocketsOK, HistoryOK, history, tables
<1>6. CASE AddEntry(r)
  <2>0. r.v \in Vaults
    BY <1>0, <1>6 DEF AddEntry, ReqOK
  <2>1. ReqsOK'
    BY <1>0, <1>6, <2>0, MovesOK DEF AddEntry
  <2>3. TablesOK'
    BY <1>0, <1>6, <2>0, VersionTypes DEF AddEntry, TablesOK, Free
  <2> QED
    BY <1>0, <1>6, <2>1, <2>3 DEF Types, AddEntry, PagesOK, LoadsOK, SocketsOK, HistoryOK, history
<1>7. CASE UpdateEntry(r)
  <2>1. \A q \in reqs : ReqOK(IF q.do = "update" /\ q.on = r.on THEN [q EXCEPT !.raced = @ \/ q.at = "write"] ELSE q)
    <3> TAKE q \in reqs
    <3> DEFINE b == q.raced \/ q.at = "write"
    <3>1. b \in BOOLEAN
      BY <1>0 DEF ReqsOK, ReqOK, Requests
    <3>2. \A c \in BOOLEAN : ReqOK([q EXCEPT !.raced = c])
      BY <1>0 DEF ReqsOK, ReqOK, Requests
    <3> QED
      BY <1>0, <3>1, <3>2 DEF ReqsOK
  <2>2. ReqOK([r EXCEPT !.at = "tell"])
    BY <1>0, <1>7, ReqMoves DEF ReqOK, UpdateEntry
  <2>3. \A q \in reqs' : ReqOK(q)
    BY <1>7, <2>1, <2>2 DEF UpdateEntry
  <2>4. TablesOK'
    <3>1. \A e \in EntryIds : entries[e].version < MaxVersion => entries[e].version + 1 \in Versions
      BY <1>0, SharedVaultAssumption DEF TablesOK, Versions
    <3>2. \A e \in EntryIds : entries[e].version < MaxVersion =>
             [entries[e] EXCEPT !.version = @ + 1] \in [v : Vaults \cup {None}, version : Versions]
      BY <1>0, <3>1 DEF TablesOK
    <3>3. entries' = [entries EXCEPT ![r.on].version = @ + 1] /\ entries[r.on].version < MaxVersion
      BY <1>7 DEF UpdateEntry
    <3>4. entries' \in [EntryIds -> [v : Vaults \cup {None}, version : Versions]]
      BY <1>0, <3>2, <3>3 DEF TablesOK
    <3> QED
      BY <1>0, <1>7, <3>4 DEF UpdateEntry, TablesOK
  <2>5. HistoryOK'
    <3>1. [e |-> r.on, raced |-> r.raced] \in [e : EntryIds \cup Users \cup {None}, raced : BOOLEAN]
      BY <1>0
    <3> QED
      BY <1>0, <1>7, <3>1 DEF HistoryOK, UpdateEntry
  <2> QED
    BY <1>0, <1>7, <2>3, <2>4, <2>5 DEF Types, UpdateEntry, PagesOK, ReqsOK, LoadsOK, SocketsOK
<1>7a. CASE UpdateNoEntry(r)
  <2>1. ReqsOK'
    BY <1>0, <1>7a, MovesOK DEF UpdateNoEntry, ReqOK
  <2> QED
    BY <1>0, <1>7a, <2>1 DEF Types, UpdateNoEntry, TablesOK, PagesOK, LoadsOK, SocketsOK, HistoryOK, history, tables
<1>8. CASE DeleteEntry(r)
  <2>0. r.v \in Vaults
    BY <1>0, <1>8 DEF DeleteEntry, ReqOK
  <2>1. ReqsOK'
    BY <1>0, <1>8, <2>0, MovesOK DEF DeleteEntry
  <2>2. TablesOK'
    BY <1>0, <1>8, GoneType DEF DeleteEntry, TablesOK
  <2> QED
    BY <1>0, <1>8, <2>1, <2>2 DEF Types, DeleteEntry, PagesOK, LoadsOK, SocketsOK, HistoryOK, history
<1>9. CASE BroadcastToMembers(r)
  <2>0. r.v \in Vaults
    BY <1>0, <1>9 DEF BroadcastToMembers, ReqOK
  <2>1. ReqsOK'
    BY <1>0, <1>9, <2>0, MovesOK DEF BroadcastToMembers
  <2>2. signal' \subseteq Desktops /\ missed' \subseteq Desktops
    BY <1>0, <1>9, TellOK DEF BroadcastToMembers
  <2> QED
    BY <1>0, <1>9, <2>1, <2>2 DEF Types, BroadcastToMembers, TablesOK, PagesOK, LoadsOK, SocketsOK, HistoryOK, history, tables
<1>10. CASE Answered(r)
  <2>1. \A q \in reqs' : ReqOK(q)
    BY <1>0, <1>10 DEF Answered, ReqsOK
  <2>2. CASE UNCHANGED <<page, loads, missed>>
    BY <1>0, <1>10, <2>1, <2>2 DEF Types, Answered, TablesOK, PagesOK, ReqsOK, LoadsOK, SocketsOK, HistoryOK, history, tables
  <2>3. ASSUME NEW p, PageOK(p), StartLoad(r.d, p) PROVE Types'
    <3>1. PagesOK' /\ LoadsOK' /\ missed' \subseteq Desktops
      BY <1>0, <2>3, StartLoadOK
    <3> QED
      BY <1>0, <1>10, <2>1, <3>1 DEF Types, Answered, TablesOK, ReqsOK, SocketsOK, HistoryOK, history, tables
  <2>4. PageOK([page[r.d] EXCEPT !.form = IF r.do \in {"add", "update"} THEN None ELSE @])
    BY <1>0 DEF PagesOK, PageOK, Pages
  <2>5. r.do = "create" => PageOK([NoPage EXCEPT !.at = "detail", !.v = r.v])
    BY <1>0, <1>10, NoPageOK DEF Answered, ReqOK, PageOK, Pages
  <2>6. PageOK([NoPage EXCEPT !.at = "list"])
    BY NoPageOK DEF PageOK, Pages, NoPage
  <2> QED
    BY <1>10, <2>2, <2>3, <2>4, <2>5, <2>6 DEF Answered
<1>11. CASE RequestFails(r)
  <2>1. \A q \in reqs' : ReqOK(q)
    BY <1>0, <1>11 DEF RequestFails, ReqsOK
  <2>2. PagesOK'
    <3>1. \A d \in Devices : PageOK([page[d] EXCEPT !.err = TRUE])
      BY <1>0 DEF PagesOK, PageOK, Pages
    <3> QED
      BY <1>0, <1>11, <3>1 DEF RequestFails, PagesOK, PageOK
  <2> QED
    BY <1>0, <1>11, <2>1, <2>2 DEF Types, RequestFails, TablesOK, ReqsOK, LoadsOK, SocketsOK, HistoryOK, history, tables
<1> QED
  BY <1>1, <1>2, <1>3, <1>4, <1>5, <1>6, <1>7, <1>7a, <1>8, <1>9, <1>10, <1>11 DEF Serve

LEMMA LoadOK ==
    ASSUME Types, NEW l \in loads, LoadStep(l)
    PROVE  Types'
<1>0. /\ TablesOK /\ PagesOK /\ ReqsOK /\ LoadsOK /\ SocketsOK /\ HistoryOK
      /\ l \in Loads /\ l.d \in Devices /\ l.list \in SUBSET Vaults
      /\ l.ents \in [EntryIds -> Versions] /\ l.mems \in SUBSET Users
  BY DEF Types, LoadsOK, Loads
<1>1. PageOK(page[l.d]) /\ page[l.d] \in Pages
  BY <1>0 DEF PagesOK, PageOK
<1>2. PagesOK' /\ LoadsOK'
  <2>1. CASE ListMySharedVaults(l)
    <3>1. Of(UserOf[l.d]) \in SUBSET Vaults
      BY DEF Of
    <3>2. /\ [l EXCEPT !.at = "found", !.list = Of(UserOf[l.d])] \in Loads
          /\ [l EXCEPT !.at = "found", !.list = Of(UserOf[l.d])].at = "found"
      BY <1>0, <3>1 DEF Loads
    <3> QED
      BY <1>0, <2>1, <3>2 DEF ListMySharedVaults, LoadsOK, PagesOK
  <2>2. CASE GetUnlockedSharedVault(l)
    <3>1. [l EXCEPT !.at = "detail"] \in Loads /\ [l EXCEPT !.at = "detail"].v = l.v
      BY <1>0 DEF Loads
    <3>2. PageOK([page[l.d] EXCEPT !.list = l.list])
      BY <1>0, <1>1 DEF PageOK, Pages
    <3>3. PageOK([page[l.d] EXCEPT !.vault = TRUE, !.mine = vaults[l.v] = UserOf[l.d]])
      <4> DEFINE b == vaults[l.v] = UserOf[l.d]
      <4>1. b \in BOOLEAN
        OBVIOUS
      <4>2. \A c \in BOOLEAN : PageOK([page[l.d] EXCEPT !.vault = TRUE, !.mine = c])
        BY <1>1 DEF PageOK, Pages
      <4> QED
        BY <4>1, <4>2
    <3>4. PageOK([page[l.d] EXCEPT !.vault = FALSE, !.err = TRUE])
      BY <1>1 DEF PageOK, Pages
    <3>5. LoadsOK'
      BY <1>0, <2>2, <3>1 DEF GetUnlockedSharedVault, LoadsOK
    <3>6. \/ page' = page
          \/ page' = [page EXCEPT ![l.d] = [page[l.d] EXCEPT !.list = l.list]]
          \/ page' = [page EXCEPT ![l.d] = [page[l.d] EXCEPT !.vault = TRUE, !.mine = vaults[l.v] = UserOf[l.d]]]
          \/ page' = [page EXCEPT ![l.d] = [page[l.d] EXCEPT !.vault = FALSE, !.err = TRUE]]
      BY <1>0, <2>2 DEF GetUnlockedSharedVault, PagesOK
    <3>7. PagesOK'
      BY <1>0, <3>2, <3>3, <3>4, <3>6 DEF PagesOK, PageOK
    <3> QED
      BY <3>5, <3>7
  <2>3. CASE ListEntries(l)
    <3>1. members[l.v] \in SUBSET Users
      <4>1. l.v \in Vaults
        BY <1>0, <2>3 DEF LoadsOK, ListEntries
      <4> QED
        BY <1>0, <4>1, <2>3 DEF TablesOK, ListEntries
    <3>2. /\ [l EXCEPT !.at = "arrived", !.ents = EntriesOf(l.v), !.mems = members[l.v]] \in Loads
          /\ [l EXCEPT !.at = "arrived", !.ents = EntriesOf(l.v), !.mems = members[l.v]].v = l.v
      BY <1>0, <3>1, EntriesOfType DEF Loads
    <3> QED
      BY <1>0, <2>3, <3>2 DEF ListEntries, LoadsOK, PagesOK
  <2>4. CASE Shown(l)
    <3>1. PageOK([page[l.d] EXCEPT !.ents = l.ents, !.mems = l.mems])
      BY <1>0, <1>1 DEF PageOK, Pages
    <3>2. page' = page \/ page' = [page EXCEPT ![l.d] = [page[l.d] EXCEPT !.ents = l.ents, !.mems = l.mems]]
      BY <1>0, <2>4 DEF Shown, PagesOK
    <3>3. PagesOK'
      BY <1>0, <3>1, <3>2 DEF PagesOK, PageOK
    <3> QED
      BY <1>0, <2>4, <3>3 DEF Shown, LoadsOK
  <2>5. CASE LoadFails(l)
    <3>1. PageOK([page[l.d] EXCEPT !.err = TRUE])
      BY <1>0, <1>1 DEF PageOK, Pages
    <3>2. page' = page \/ page' = [page EXCEPT ![l.d] = [page[l.d] EXCEPT !.err = TRUE]]
      BY <1>0, <2>5 DEF LoadFails, PagesOK
    <3>3. PagesOK'
      BY <1>0, <3>1, <3>2 DEF PagesOK, PageOK
    <3> QED
      BY <1>0, <2>5, <3>3 DEF LoadFails, LoadsOK
  <2> QED
    BY <2>1, <2>2, <2>3, <2>4, <2>5 DEF LoadStep
<1>3. UNCHANGED <<tables, reqs, signal, online, spent, missed, history>>
  BY DEF LoadStep, ListMySharedVaults, GetUnlockedSharedVault, ListEntries, Shown, LoadFails
<1> QED
  BY <1>0, <1>2, <1>3 DEF Types, TablesOK, ReqsOK, SocketsOK, HistoryOK, tables, history

LEMMA SocketOK ==
    ASSUME Types, NEW d \in Desktops, Reload(d) \/ Disconnect(d) \/ Connect(d)
    PROVE  Types'
<1>0. TablesOK /\ PagesOK /\ ReqsOK /\ LoadsOK /\ SocketsOK /\ HistoryOK /\ d \in Devices
  BY DEF Types, Devices
<1>1. CASE Reload(d)
  <2>1. CASE UNCHANGED <<page, loads, missed>>
    BY <1>0, <1>1, <2>1 DEF Types, Reload, TablesOK, PagesOK, ReqsOK, LoadsOK, SocketsOK, HistoryOK, tables, history
  <2>2. CASE StartLoad(d, page[d])
    <3>1. PagesOK' /\ LoadsOK' /\ missed' \subseteq Desktops
      BY <1>0, <2>2, StartLoadOK DEF PagesOK
    <3> QED
      BY <1>0, <1>1, <3>1 DEF Types, Reload, TablesOK, ReqsOK, SocketsOK, HistoryOK, tables, history
  <2> QED
    BY <1>1, <2>1, <2>2 DEF Reload
<1>2. CASE Disconnect(d)
  <2>1. spent' \in 0..MaxOps
    BY <1>0, <1>2, SharedVaultAssumption DEF Disconnect, SocketsOK
  <2> QED
    BY <1>0, <1>2, <2>1 DEF Types, Disconnect, TablesOK, PagesOK, ReqsOK, LoadsOK, SocketsOK, HistoryOK, tables, history
<1>3. CASE Connect(d)
  BY <1>0, <1>3 DEF Types, Connect, TablesOK, PagesOK, ReqsOK, LoadsOK, SocketsOK, HistoryOK, tables, history
<1> QED
  BY <1>1, <1>2, <1>3

\* What a user does: asks something, opens a page, or opens a form.
LEMMA SendOK ==
    ASSUME Types, NEW r, ReqOK(r), Send(r), PagesOK'
    PROVE  Types'
<1>1. spent' \in 0..MaxOps
  BY SharedVaultAssumption DEF Types, SocketsOK, Send
<1>2. \A q \in reqs' : ReqOK(q)
  BY DEF Types, ReqsOK, Send
<1> QED
  BY <1>1, <1>2 DEF Types, Send, TablesOK, ReqsOK, LoadsOK, SocketsOK, HistoryOK, tables, history

LEMMA VisitOK ==
    ASSUME Types, NEW d \in Devices, NEW p, PageOK(p), Visit(d, p)
    PROVE  Types'
<1>1. PagesOK' /\ LoadsOK' /\ missed' \subseteq Desktops
  BY StartLoadOK DEF Types, Visit
<1>2. spent' \in 0..MaxOps
  BY SharedVaultAssumption DEF Types, SocketsOK, Visit
<1> QED
  BY <1>1, <1>2 DEF Types, Visit, TablesOK, ReqsOK, SocketsOK, HistoryOK, tables, history

PageAct(d) ==
    \/ HandleCreate(d) \/ OpenEditForm(d) \/ HandleSaveEntry(d) \/ HandleDeleteEntry(d)
    \/ HandleInvite(d) \/ HandleRemoveMember(d) \/ HandleDeleteVault(d) \/ VaultLink(d)
    \/ Visit(d, [NoPage EXCEPT !.at = "list"])

LEMMA PageActs ==
    ASSUME NEW d \in Devices,
           \/ SharedVaultDetailPage(d) \/ SharedVaultDetailView(d)
           \/ SharedVaultsPage(d) \/ SharedVaultsListView(d)
    PROVE  PageAct(d)
BY DEF PageAct, SharedVaultDetailPage, SharedVaultDetailView, SharedVaultsPage, SharedVaultsListView,
       ExtensionEntries, ExtensionMembers, EntryRow, MembersSection

\* An edit carries the version its form was opened with.
LEMMA EditOK ==
    ASSUME PagesOK, NEW d \in Devices, page[d].at = "detail", page[d].form # None
    PROVE  LET r == EncryptSharedEntry(d, page[d].form, page[d].form.expected) IN
           /\ ReqOK(r) /\ r.do = "update" /\ r.at = "check" /\ r.expected = r.basis
           /\ r.expected \in 1..MaxVersion
<1>1. LET q == Ask(d, "update", page[d].form.on) IN ReqOK(q) /\ q.at = "check" /\ q.do = "update"
  BY AskOK, FormOK DEF Acts
<1>2. page[d].form.expected \in 1..MaxVersion /\ page[d].form.expected \in Versions
  BY FormOK, VersionTypes
<1> QED
  BY <1>1, <1>2 DEF EncryptSharedEntry, ReqOK, Requests

LEMMA PageActOK ==
    ASSUME Types, NEW d \in Devices, PageAct(d)
    PROVE  Types'
<1>0. PagesOK /\ PageOK(page[d]) /\ page[d] \in Pages
  BY DEF Types, PagesOK, PageOK
<1>1. \A q : PageOK(q) => PageOK([q EXCEPT !.err = FALSE])
  BY DEF PageOK, Pages
<1>2. page' = [page EXCEPT ![d].err = FALSE] => PagesOK'
  <2> SUFFICES ASSUME page' = [page EXCEPT ![d].err = FALSE] PROVE PagesOK'
    OBVIOUS
  <2>1. page' = [page EXCEPT ![d] = [page[d] EXCEPT !.err = FALSE]]
    BY <1>0 DEF PagesOK
  <2> QED
    BY <1>0, <1>1, <2>1 DEF PagesOK, PageOK
<1>3. page' = page => PagesOK'
  BY <1>0 DEF PagesOK
<1>4. CASE HandleCreate(d)
  BY <1>0, <1>2, <1>4, AskOK, SendOK DEF HandleCreate, Acts
<1>5. CASE OpenEditForm(d)
  <2>1. PICK e \in EntryIds :
            /\ page[d].at = "detail" /\ page[d].ents[e] # 0
            /\ page' = [page EXCEPT ![d].form = [on |-> e, expected |-> page[d].ents[e]]]
    BY <1>5 DEF OpenEditForm
  <2>2. [on |-> e, expected |-> page[d].ents[e]] \in Forms
    BY <1>0, <2>1, SharedVaultAssumption DEF Pages, Forms, Versions
  <2>3. PageOK([page[d] EXCEPT !.form = [on |-> e, expected |-> page[d].ents[e]]])
    BY <1>0, <2>2 DEF PageOK, Pages
  <2>4. PagesOK'
    BY <1>0, <2>1, <2>3 DEF PagesOK, PageOK
  <2>5. spent' \in 0..MaxOps
    BY <1>5, SharedVaultAssumption DEF Types, SocketsOK, OpenEditForm
  <2> QED
    BY <1>5, <2>4, <2>5 DEF Types, OpenEditForm, TablesOK, ReqsOK, LoadsOK, SocketsOK, HistoryOK, tables, history
<1>6. CASE HandleSaveEntry(d)
  <2>1. PagesOK' /\ page[d].at = "detail"
    BY <1>2, <1>6 DEF HandleSaveEntry
  <2>2. CASE Send(Ask(d, "add", None))
    BY <1>0, <2>1, <2>2, AskOK, SendOK DEF Acts
  <2>3. CASE page[d].form # None /\ Send(EncryptSharedEntry(d, page[d].form, page[d].form.expected))
    BY <1>0, <2>1, <2>3, EditOK, SendOK
  <2> QED
    BY <1>6, <2>2, <2>3 DEF HandleSaveEntry
<1>7. CASE HandleDeleteEntry(d)
  BY <1>0, <1>3, <1>7, AskOK, SendOK DEF HandleDeleteEntry, Acts
<1>8. CASE HandleInvite(d)
  BY <1>0, <1>2, <1>8, AskOK, SendOK DEF HandleInvite, Acts
<1>9. CASE HandleRemoveMember(d)
  <2>1. page[d].mems \in SUBSET Users
    BY <1>0 DEF Pages
  <2> QED
    BY <1>0, <1>3, <1>9, <2>1, AskOK, SendOK DEF HandleRemoveMember, Acts
<1>10. CASE HandleDeleteVault(d)
  BY <1>0, <1>3, <1>10, AskOK, SendOK DEF HandleDeleteVault, Acts
<1>11. CASE VaultLink(d)
  <2>1. PICK v \in page[d].list : Visit(d, [NoPage EXCEPT !.at = "detail", !.v = v])
    BY <1>11 DEF VaultLink
  <2>2. v \in Vaults
    BY <1>0 DEF Pages
  <2>3. PageOK([NoPage EXCEPT !.at = "detail", !.v = v])
    BY <2>2, NoPageOK DEF PageOK, Pages
  <2> QED
    BY <2>1, <2>3, VisitOK
<1>12. CASE Visit(d, [NoPage EXCEPT !.at = "list"])
  <2>1. PageOK([NoPage EXCEPT !.at = "list"])
    BY NoPageOK DEF PageOK, Pages, NoPage
  <2> QED
    BY <1>12, <2>1, VisitOK
<1> QED
  BY <1>4, <1>5, <1>6, <1>7, <1>8, <1>9, <1>10, <1>11, <1>12 DEF PageAct

LEMMA NextCases ==
    ASSUME Next
    PROVE  \/ \E d \in Devices : PageAct(d)
           \/ \E d \in Desktops : Reload(d) \/ Disconnect(d) \/ Connect(d)
           \/ \E r \in reqs : Serve(r)
           \/ \E l \in loads : LoadStep(l)
BY PageActs DEF Next

LEMMA TypesNext ==
    ASSUME Types, [Next]_vars
    PROVE  Types'
<1>1. CASE UNCHANGED vars
  BY <1>1 DEF vars, tables, history, Types, TablesOK, PagesOK, ReqsOK, LoadsOK, SocketsOK, HistoryOK
<1> QED
  BY <1>1, NextCases, PageActOK, SocketOK, ServeOK, LoadOK

\* Every variable keeps its type; in particular a vault that is gone has no member left.
THEOREM TypeCorrect == Spec => []TypeOK
BY Parts, TablesInit, TypesNext, PTL DEF Spec

----------------------------------------------------------------------------
(* Edits.                                                                  *)

\* An edit being written expects the version stored, unless another one was written since
\* the versions were compared: then it knows.
EditOf(r) ==
    r.do = "update" =>
        /\ r.on \in EntryIds /\ r.expected = r.basis /\ r.expected # 0
        /\ r.at = "write" => r.raced \/ entries[r.on].version = r.expected
Edits == \A r \in reqs : EditOf(r)

\* Steps that begin no write of an edit, and keep the versions given.
SameEdit(q) ==
    \E r \in reqs : /\ r.do = q.do /\ q.on = r.on /\ q.expected = r.expected /\ q.basis = r.basis
                    /\ q.raced = r.raced /\ (q.at = "write" => r.at = "write")
NewEdit(q) ==
    q.do = "update" => q.at = "check" /\ q.on \in EntryIds /\ q.expected = q.basis /\ q.expected # 0

LEMMA EditsKept ==
    ASSUME Types, Edits, \A e \in EntryIds : entries[e].version # 0 => entries'[e].version = entries[e].version,
           \A q \in reqs' : q.do = "update" => SameEdit(q) \/ NewEdit(q)
    PROVE  Edits'
<1>1. ASSUME NEW q \in reqs' PROVE EditOf(q)'
  <2>1. CASE q.do = "update" /\ SameEdit(q)
    <3>1. PICK r \in reqs : /\ r.do = q.do /\ q.on = r.on /\ q.expected = r.expected /\ q.basis = r.basis
                           /\ q.raced = r.raced /\ (q.at = "write" => r.at = "write")
      BY <2>1 DEF SameEdit
    <3>2. EditOf(r)
      BY DEF Edits
    <3> QED
      BY <2>1, <3>1, <3>2 DEF EditOf
  <2>2. CASE q.do = "update" /\ NewEdit(q)
    BY <2>2 DEF NewEdit, EditOf
  <2>3. CASE q.do # "update"
    BY <2>3 DEF EditOf
  <2> QED
    BY <2>1, <2>2, <2>3
<1> QED
  BY <1>1 DEF Edits

LEMMA MovesSame ==
    ASSUME Types, NEW r \in reqs, NEW at \in {"check", "write", "tell", "answer"}, Moves(r, at),
           at = "write" => r.do # "update"
    PROVE  \A q \in reqs' : q.do = "update" => SameEdit(q)
<1>1. r \in Requests
  BY DEF Types, ReqsOK, ReqOK
<1>2. ASSUME NEW q \in reqs', q.do = "update" PROVE SameEdit(q)
  <2>1. CASE q \in reqs
    BY <2>1 DEF SameEdit
  <2>2. CASE q = [r EXCEPT !.at = at]
    BY <1>1, <1>2, <2>2, ReqMoves DEF SameEdit
  <2> QED
    BY <2>1, <2>2 DEF Moves
<1> QED
  BY <1>2

LEMMA SameRequests ==
    ASSUME Types, Edits, reqs' \subseteq reqs, entries' = entries
    PROVE  Edits'
BY DEF Edits, EditOf

LEMMA ServeEdits ==
    ASSUME Types, Edits, LostOnlyByRace, NEW r \in reqs, Serve(r)
    PROVE  Edits' /\ LostOnlyByRace'
<1>0. r \in Requests /\ TablesOK /\ EditOf(r) /\ ReqsOK
  BY DEF Types, ReqsOK, ReqOK, Edits
<1>1. CASE Create(r)
  <2>1. \A q \in reqs' : q.do = "update" => SameEdit(q)
    <3>1. PICK v \in Vaults : reqs' = (reqs \ {r}) \cup {[r EXCEPT !.at = "answer", !.v = v]}
      BY <1>1 DEF Create
    <3>2. [r EXCEPT !.at = "answer", !.v = v].do = "create"
      BY <1>0, <1>1 DEF Create, Requests
    <3> QED
      BY <3>1, <3>2 DEF SameEdit
  <2> QED
    BY <1>1, <2>1, EditsKept DEF Create, history, LostOnlyByRace
<1>2. CASE InviteMember(r)
  <2>1. ASSUME NEW q \in reqs', q.do = "update" PROVE SameEdit(q)
    <3>1. CASE \E p \in reqs : q = [p EXCEPT !.out = @ /\ ~ (p.v = r.v /\ p.u = r.on)]
      <4>1. PICK p \in reqs : q = [p EXCEPT !.out = @ /\ ~ (p.v = r.v /\ p.u = r.on)]
        BY <3>1
      <4>2. p \in Requests
        BY <1>0 DEF ReqsOK, ReqOK
      <4>3. /\ q.do = p.do /\ q.on = p.on /\ q.expected = p.expected /\ q.basis = p.basis
            /\ q.raced = p.raced /\ q.at = p.at
        BY <4>1, <4>2 DEF Requests
      <4> QED
        BY <4>3 DEF SameEdit
    <3>2. CASE q = [r EXCEPT !.at = "answer"]
      BY <1>0, <1>2, <2>1, <3>2, ReqMoves DEF InviteMember
    <3> QED
      BY <1>2, <3>1, <3>2 DEF InviteMember
  <2> QED
    BY <1>2, <2>1, EditsKept DEF InviteMember, LostOnlyByRace
<1>3. CASE RemoveMember(r)
  BY <1>3, MovesSame, EditsKept DEF RemoveMember, LostOnlyByRace
<1>4. CASE DeleteVault(r)
  <2>1. \A e \in EntryIds : entries'[e].version = entries[e].version
    BY <1>0, <1>4, GoneType DEF DeleteVault
  <2> QED
    BY <1>4, <2>1, MovesSame, EditsKept DEF DeleteVault, LostOnlyByRace, history
<1>5. CASE Check(r)
  <2>1. ASSUME NEW q \in reqs' PROVE EditOf(q)'
    <3>1. CASE q \in reqs
      BY <1>5, <3>1 DEF Check, tables, Edits, EditOf
    <3>2. CASE q = [r EXCEPT !.at = "write"]
      <4>1. r.do = "update" => entries[r.on].version = r.expected
        BY <1>5 DEF Check
      <4> QED
        BY <1>0, <1>5, <3>2, <4>1, ReqMoves DEF Check, tables, EditOf
    <3> QED
      BY <1>5, <3>1, <3>2 DEF Check, Moves
  <2> QED
    BY <1>5, <2>1 DEF Check, Edits, LostOnlyByRace, history
<1>6. CASE AddEntry(r)
  <2>1. \A e \in EntryIds : entries[e].version # 0 => entries'[e].version = entries[e].version
    BY <1>0, <1>6 DEF AddEntry, Free, NoEntry, TablesOK
  <2> QED
    BY <1>6, <2>1, MovesSame, EditsKept DEF AddEntry, LostOnlyByRace, history
<1>7. CASE UpdateEntry(r)
  <2>0. r.on \in EntryIds /\ r.expected = r.basis /\ (r.raced \/ entries[r.on].version = r.basis)
    BY <1>0, <1>7 DEF UpdateEntry, EditOf
  <2>1. \A e \in EntryIds \ {r.on} : entries'[e] = entries[e]
    BY <1>0, <1>7 DEF UpdateEntry, TablesOK
  <2>2. ASSUME NEW q \in reqs' PROVE EditOf(q)'
    <3>1. CASE \E p \in reqs : q = IF p.do = "update" /\ p.on = r.on THEN [p EXCEPT !.raced = @ \/ p.at = "write"] ELSE p
      <4>1. PICK p \in reqs : q = IF p.do = "update" /\ p.on = r.on THEN [p EXCEPT !.raced = @ \/ p.at = "write"] ELSE p
        BY <3>1
      <4>2. p \in Requests /\ EditOf(p)
        BY <1>0 DEF ReqsOK, ReqOK, Edits
      <4>3. CASE p.do = "update" /\ p.on = r.on
        <5>1. /\ q.on = p.on /\ q.expected = p.expected /\ q.basis = p.basis /\ q.at = p.at
              /\ q.raced = (p.raced \/ p.at = "write")
          BY <4>1, <4>2, <4>3 DEF Requests
        <5> QED
          BY <4>2, <4>3, <5>1 DEF EditOf
      <4>4. CASE ~ (p.do = "update" /\ p.on = r.on)
        BY <2>1, <4>1, <4>2, <4>4 DEF EditOf
      <4> QED
        BY <4>3, <4>4
    <3>2. CASE q = [r EXCEPT !.at = "tell"]
      BY <1>0, <3>2, ReqMoves DEF EditOf
    <3> QED
      BY <1>7, <3>1, <3>2 DEF UpdateEntry
  <2>3. LostOnlyByRace'
    BY <1>7, <2>0 DEF UpdateEntry, LostOnlyByRace
  <2> QED
    BY <2>2, <2>3 DEF Edits
<1>7a. CASE UpdateNoEntry(r)
  BY <1>7a, MovesSame, EditsKept DEF UpdateNoEntry, LostOnlyByRace, history, tables
<1>8. CASE DeleteEntry(r)
  <2>1. \A e \in EntryIds : entries'[e].version = entries[e].version
    BY <1>0, <1>8, GoneType DEF DeleteEntry, TablesOK
  <2> QED
    BY <1>8, <2>1, MovesSame, EditsKept DEF DeleteEntry, LostOnlyByRace, history
<1>9. CASE BroadcastToMembers(r)
  BY <1>9, MovesSame, EditsKept DEF BroadcastToMembers, LostOnlyByRace, history, tables
<1>10. CASE Answered(r) \/ RequestFails(r)
  BY <1>10, SameRequests DEF Answered, RequestFails, LostOnlyByRace, history, tables
<1> QED
  BY <1>1, <1>2, <1>3, <1>4, <1>5, <1>6, <1>7, <1>7a, <1>8, <1>9, <1>10 DEF Serve

LEMMA PageActEdits ==
    ASSUME Types, Edits, LostOnlyByRace, NEW d \in Devices, PageAct(d)
    PROVE  Edits' /\ LostOnlyByRace'
<1>0. PagesOK
  BY DEF Types
<1>1. ASSUME NEW r, Send(r), NewEdit(r) PROVE Edits' /\ LostOnlyByRace'
  <2>1. \A q \in reqs' : q.do = "update" => SameEdit(q) \/ NewEdit(q)
    BY <1>1 DEF Send, SameEdit
  <2> QED
    BY <1>1, <2>1, EditsKept DEF Send, tables, history, LostOnlyByRace
<1>2. ASSUME NEW do \in Acts \ {"update"}, NEW on, Send(Ask(d, do, on)) PROVE Edits' /\ LostOnlyByRace'
  BY <1>1, <1>2 DEF NewEdit, Ask
<1>3. CASE HandleSaveEntry(d)
  <2>1. CASE page[d].form # None /\ Send(EncryptSharedEntry(d, page[d].form, page[d].form.expected))
    <3>1. page[d].form.on \in EntryIds /\ page[d].at = "detail"
      BY <1>0, <1>3, <2>1, FormOK DEF HandleSaveEntry
    <3>2. EncryptSharedEntry(d, page[d].form, page[d].form.expected).on = page[d].form.on
      BY DEF EncryptSharedEntry, Ask
    <3>3. NewEdit(EncryptSharedEntry(d, page[d].form, page[d].form.expected))
      BY <1>0, <2>1, <3>1, <3>2, EditOK DEF NewEdit
    <3> QED
      BY <1>1, <2>1, <3>3
  <2>2. CASE Send(Ask(d, "add", None))
    BY <1>2, <2>2 DEF Acts
  <2> QED
    BY <1>3, <2>1, <2>2 DEF HandleSaveEntry
<1>4. CASE OpenEditForm(d) \/ VaultLink(d) \/ Visit(d, [NoPage EXCEPT !.at = "list"])
  BY <1>4, SameRequests DEF OpenEditForm, VaultLink, Visit, tables, history, LostOnlyByRace
<1>5. CASE \/ HandleCreate(d) \/ HandleDeleteEntry(d) \/ HandleInvite(d) \/ HandleRemoveMember(d)
           \/ HandleDeleteVault(d)
  BY <1>2, <1>5 DEF HandleCreate, HandleDeleteEntry, HandleInvite, HandleRemoveMember, HandleDeleteVault, Acts
<1> QED
  BY <1>3, <1>4, <1>5 DEF PageAct

LEMMA EditsNext ==
    ASSUME Types, Edits, LostOnlyByRace, [Next]_vars
    PROVE  Edits' /\ LostOnlyByRace'
<1>1. CASE UNCHANGED vars
  BY <1>1, SameRequests DEF vars, tables, history, LostOnlyByRace
<1>2. ASSUME NEW d \in Desktops, Reload(d) \/ Disconnect(d) \/ Connect(d) PROVE Edits' /\ LostOnlyByRace'
  BY <1>2, SameRequests DEF Reload, Disconnect, Connect, tables, history, LostOnlyByRace
<1>3. ASSUME NEW l \in loads, LoadStep(l) PROVE Edits' /\ LostOnlyByRace'
  BY <1>3, SameRequests
     DEF LoadStep, ListMySharedVaults, GetUnlockedSharedVault, ListEntries, Shown, LoadFails, tables, history, LostOnlyByRace
<1> QED
  BY <1>1, <1>2, <1>3, NextCases, PageActEdits, ServeEdits

\* An edit replaces a version its author has not read only if another edit of the same
\* entry was served between its comparison and its write (repository.rs, update_entry).
THEOREM LostOnlyByRaceHolds == Spec => []LostOnlyByRace
<1>1. Init => Edits /\ LostOnlyByRace
  BY DEF Init, Edits, LostOnlyByRace
<1> QED
  BY <1>1, TablesInit, TypesNext, EditsNext, PTL DEF Spec

----------------------------------------------------------------------------
(* Removals.                                                               *)

Writes == {"add", "update", "delete"}

\* Who was removed is no member, and the vault was made.
Away == \A v \in Vaults, u \in Users : <<v, u>> \in removed => u \notin members[v] /\ vaults[v] # None

\* A request of a member already removed is known to be one, and is never at its write.
OutOf(r) == r.do \in Writes => /\ r.out => <<r.v, r.u>> \in removed
                               /\ r.at = "write" => ~ r.out
Outs == \A r \in reqs : OutOf(r)

\* Steps that pass a check for nobody, and lift no removal.
SameOut(q) ==
    \E r \in reqs : /\ r.do = q.do /\ q.v = r.v /\ q.u = r.u /\ q.out = r.out
                    /\ (q.at = "write" => r.at = "write")

LEMMA OutsKept ==
    ASSUME Outs, removed \subseteq removed', \A q \in reqs' : q.do \in Writes => SameOut(q)
    PROVE  Outs'
<1>1. ASSUME NEW q \in reqs', q.do \in Writes PROVE OutOf(q)'
  <2>1. PICK r \in reqs : /\ r.do = q.do /\ q.v = r.v /\ q.u = r.u /\ q.out = r.out
                         /\ (q.at = "write" => r.at = "write")
    BY <1>1 DEF SameOut
  <2> QED
    BY <1>1, <2>1 DEF Outs, OutOf
<1> QED
  BY <1>1 DEF Outs, OutOf

LEMMA MovesSameOut ==
    ASSUME Types, NEW r \in reqs, NEW at \in {"check", "write", "tell", "answer"}, Moves(r, at),
           at = "write" => r.do \notin Writes \/ r.at = "write"
    PROVE  \A q \in reqs' : q.do \in Writes => SameOut(q)
<1>1. r \in Requests
  BY DEF Types, ReqsOK, ReqOK
<1>2. ASSUME NEW q \in reqs', q.do \in Writes PROVE SameOut(q)
  <2>1. CASE q \in reqs
    BY <2>1 DEF SameOut
  <2>2. CASE q = [r EXCEPT !.at = at]
    BY <1>1, <1>2, <2>2, ReqMoves DEF SameOut
  <2> QED
    BY <2>1, <2>2 DEF Moves
<1> QED
  BY <1>2

LEMMA FewerRequests ==
    ASSUME Outs, reqs' \subseteq reqs, removed' = removed
    PROVE  Outs'
BY OutsKept DEF SameOut

LEMMA ServeOuts ==
    ASSUME Types, Away, Outs, NEW r \in reqs, Serve(r)
    PROVE  Away' /\ Outs'
<1>0. r \in Requests /\ ReqOK(r) /\ TablesOK /\ ReqsOK /\ OutOf(r)
  BY DEF Types, ReqsOK, ReqOK, Outs
<1>1. CASE Create(r)
  <2>1. PICK v \in Vaults :
            /\ vaults[v] = None /\ vaults' = [vaults EXCEPT ![v] = r.u] /\ members' = [members EXCEPT ![v] = {r.u}]
            /\ reqs' = (reqs \ {r}) \cup {[r EXCEPT !.at = "answer", !.v = v]}
    BY <1>1 DEF Create
  <2>2. [r EXCEPT !.at = "answer", !.v = v].do \notin Writes
    BY <1>0, <1>1 DEF Create, Requests, Writes
  <2>3. \A q \in reqs' : q.do \in Writes => SameOut(q)
    BY <2>1, <2>2 DEF SameOut
  <2>4. Away'
    BY <1>0, <1>1, <2>1 DEF Away, Create, history, TablesOK
  <2> QED
    BY <1>1, <2>3, <2>4, OutsKept DEF Create, history
<1>2. CASE InviteMember(r)
  <2>1. ASSUME NEW q \in reqs', q.do \in Writes PROVE OutOf(q)'
    <3>1. CASE \E p \in reqs : q = [p EXCEPT !.out = @ /\ ~ (p.v = r.v /\ p.u = r.on)]
      <4>1. PICK p \in reqs : q = [p EXCEPT !.out = @ /\ ~ (p.v = r.v /\ p.u = r.on)]
        BY <3>1
      <4>2. p \in Requests /\ OutOf(p)
        BY <1>0 DEF ReqsOK, ReqOK, Outs
      <4>3. /\ q.do = p.do /\ q.v = p.v /\ q.u = p.u /\ q.at = p.at
            /\ q.out = (p.out /\ ~ (p.v = r.v /\ p.u = r.on))
        BY <4>1, <4>2 DEF Requests
      <4>4. removed' = removed \ {<<r.v, r.on>>}
        BY <1>2 DEF InviteMember
      <4> QED
        BY <2>1, <4>2, <4>3, <4>4 DEF OutOf
    <3>2. CASE q = [r EXCEPT !.at = "answer"]
      BY <1>0, <1>2, <2>1, <3>2, ReqMoves DEF InviteMember, Writes
    <3> QED
      BY <1>2, <3>1, <3>2 DEF InviteMember
  <2>2. Away'
    BY <1>0, <1>2 DEF InviteMember, Away, TablesOK
  <2> QED
    BY <2>1, <2>2 DEF Outs, OutOf
<1>3. CASE RemoveMember(r)
  <2>1. r.v \in Vaults /\ r.on \in Users /\ vaults[r.v] # None
    BY <1>0, <1>3, SharedVaultAssumption DEF RemoveMember, ReqOK, TablesOK
  <2>2. Away'
    BY <1>0, <1>3, <2>1 DEF RemoveMember, Away, TablesOK
  <2> QED
    BY <1>3, <2>2, MovesSameOut, OutsKept DEF RemoveMember
<1>4. CASE DeleteVault(r)
  <2>1. Away'
    BY <1>0, <1>4, SharedVaultAssumption DEF DeleteVault, Away, TablesOK, history
  <2> QED
    BY <1>4, <2>1, MovesSameOut, OutsKept DEF DeleteVault, history
<1>5. CASE Check(r)
  <2>1. r.v \in Vaults /\ r.u \in Users /\ ~ r.out
    BY <1>0, <1>5 DEF Check, ReqOK, Requests, Away, OutOf, Writes
  <2>2. ASSUME NEW q \in reqs' PROVE OutOf(q)'
    <3>1. CASE q \in reqs
      BY <1>5, <3>1 DEF Check, history, Outs, OutOf
    <3>2. CASE q = [r EXCEPT !.at = "write"]
      BY <1>0, <1>5, <2>1, <3>2, ReqMoves DEF Check, OutOf
    <3> QED
      BY <1>5, <3>1, <3>2 DEF Check, Moves
  <2> QED
    BY <1>5, <2>2 DEF Check, Outs, Away, tables, history
<1>6. CASE AddEntry(r)
  BY <1>6, MovesSameOut, OutsKept DEF AddEntry, Away, history
<1>7. CASE UpdateEntry(r)
  <2>1. ASSUME NEW q \in reqs' PROVE SameOut(q)
    <3>1. CASE \E p \in reqs : q = IF p.do = "update" /\ p.on = r.on THEN [p EXCEPT !.raced = @ \/ p.at = "write"] ELSE p
      <4>1. PICK p \in reqs : q = IF p.do = "update" /\ p.on = r.on THEN [p EXCEPT !.raced = @ \/ p.at = "write"] ELSE p
        BY <3>1
      <4>2. p \in Requests
        BY <1>0 DEF ReqsOK, ReqOK
      <4>3. q.do = p.do /\ q.v = p.v /\ q.u = p.u /\ q.out = p.out /\ q.at = p.at
        BY <4>1, <4>2 DEF Requests
      <4> QED
        BY <4>3 DEF SameOut
    <3>2. CASE q = [r EXCEPT !.at = "tell"]
      BY <1>0, <3>2, ReqMoves DEF SameOut
    <3> QED
      BY <1>7, <3>1, <3>2 DEF UpdateEntry
  <2> QED
    BY <1>7, <2>1, OutsKept DEF UpdateEntry, Away
<1>7a. CASE UpdateNoEntry(r)
  BY <1>7a, MovesSameOut, OutsKept DEF UpdateNoEntry, Away, history, tables
<1>8. CASE DeleteEntry(r)
  BY <1>8, MovesSameOut, OutsKept DEF DeleteEntry, Away, history
<1>9. CASE BroadcastToMembers(r)
  <2>1. \A q \in reqs' : q.do \in Writes => SameOut(q)
    BY <1>9, MovesSameOut DEF BroadcastToMembers, Writes
  <2> QED
    BY <1>9, <2>1, OutsKept DEF BroadcastToMembers, Away, history, tables
<1>10. CASE Answered(r) \/ RequestFails(r)
  BY <1>10, FewerRequests DEF Answered, RequestFails, Away, history, tables
<1> QED
  BY <1>1, <1>2, <1>3, <1>4, <1>5, <1>6, <1>7, <1>7a, <1>8, <1>9, <1>10 DEF Serve

LEMMA PageActOuts ==
    ASSUME Types, Away, Outs, NEW d \in Devices, PageAct(d)
    PROVE  Away' /\ Outs'
<1>1. ASSUME NEW r, Send(r), r.at = "check", r.out = (<<r.v, r.u>> \in removed) PROVE Away' /\ Outs'
  <2>1. ASSUME NEW q \in reqs' PROVE OutOf(q)'
    BY <1>1 DEF Send, history, Outs, OutOf
  <2> QED
    BY <1>1, <2>1 DEF Send, tables, history, Away, Outs
<1>2. ASSUME NEW do, NEW on, Send(Ask(d, do, on)) PROVE Away' /\ Outs'
  BY <1>1, <1>2 DEF Ask
<1>3. ASSUME NEW f, NEW n, Send(EncryptSharedEntry(d, f, n)) PROVE Away' /\ Outs'
  BY <1>1, <1>3 DEF EncryptSharedEntry, Ask
<1>4. CASE OpenEditForm(d) \/ VaultLink(d) \/ Visit(d, [NoPage EXCEPT !.at = "list"])
  BY <1>4, FewerRequests DEF OpenEditForm, VaultLink, Visit, tables, history, Away
<1>5. CASE \/ HandleCreate(d) \/ HandleDeleteEntry(d) \/ HandleInvite(d) \/ HandleRemoveMember(d)
           \/ HandleDeleteVault(d) \/ HandleSaveEntry(d)
  BY <1>2, <1>3, <1>5
     DEF HandleCreate, HandleDeleteEntry, HandleInvite, HandleRemoveMember, HandleDeleteVault, HandleSaveEntry
<1> QED
  BY <1>4, <1>5 DEF PageAct

LEMMA OutsNext ==
    ASSUME Types, Away, Outs, [Next]_vars
    PROVE  Away' /\ Outs'
<1>1. CASE UNCHANGED vars
  BY <1>1, FewerRequests DEF vars, tables, history, Away
<1>2. ASSUME NEW d \in Desktops, Reload(d) \/ Disconnect(d) \/ Connect(d) PROVE Away' /\ Outs'
  BY <1>2, FewerRequests DEF Reload, Disconnect, Connect, tables, history, Away
<1>3. ASSUME NEW l \in loads, LoadStep(l) PROVE Away' /\ Outs'
  BY <1>3, FewerRequests
     DEF LoadStep, ListMySharedVaults, GetUnlockedSharedVault, ListEntries, Shown, LoadFails, tables, history, Away
<1> QED
  BY <1>1, <1>2, <1>3, NextCases, PageActOuts, ServeOuts

\* A member who was removed, and not invited again, writes no entry of the vault with a
\* request made after the removal, whatever its page still shows.
THEOREM RemovedStaysOutHolds == Spec => RemovedStaysOut
<1> DEFINE Quiet(e) ==
      LET v == IF entries[e].v = None THEN entries'[e].v ELSE entries[e].v IN
      entries'[e] # entries[e] => \A r \in reqs :
          r.at = "write" /\ r.do \in {"add", "update", "delete"} /\ r \notin reqs' /\ r.v = v
          => ~ (r.out /\ <<r.v, r.u>> \in removed)
<1>1. Init => Away /\ Outs
  BY DEF Init, Away, Outs
<1>2. ASSUME Outs, NEW e \in EntryIds PROVE Quiet(e)
  BY <1>2 DEF Outs, OutOf, Writes
<1>3. Outs => [\A e \in EntryIds : Quiet(e)]_vars
  BY <1>2
<1> QED
  BY <1>1, <1>3, TablesInit, TypesNext, OutsNext, PTL DEF Spec, RemovedStaysOut
=============================================================================
