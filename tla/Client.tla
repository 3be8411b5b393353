------------------------------- MODULE Client -------------------------------
(***************************************************************************)
(* The screen of the vault, on the devices of one account: the page of a   *)
(* desktop and the popup of an extension.  What is shown is a copy, read a *)
(* page of PageSize entries at a time, changed on the spot by some acts,   *)
(* read again after others and, on a desktop, when the socket says that    *)
(* something changed.  Acts on a selection send one request per entry, by  *)
(* batches of Limit.                                                       *)
(*                                                                         *)
(* A row holds what an edit writes whole: its folder stands for all the    *)
(* sealed fields, its favourite mark for itself.  The server answers each  *)
(* request in one transaction; answers may come late, or never.            *)
(***************************************************************************)
EXTENDS Naturals, FiniteSets

CONSTANTS
    Desktops, Extensions,
    Ids,               \* identifiers, in the order the rows were inserted
    Folders,
    PageSize, Limit,   \* pageSize of getFullVault, NETWORK_CONCURRENCY
    MaxOps, MaxVersion \* bounds: acts of the user and losses (requests, reads,
                       \* sockets); versions of a row

Devices == Desktops \cup Extensions
NoFolder == ""

ASSUME ClientAssumption ==
    /\ Ids \subseteq Nat \ {0} /\ IsFiniteSet(Ids) /\ NoFolder \in Folders
    /\ PageSize \in Nat \ {0} /\ Limit \in Nat \ {0} /\ MaxOps \in Nat /\ MaxVersion \in Nat \ {0}

VARIABLES
    vault,   \* table vault
    page,    \* device -> what its screen holds
    loads,   \* reads of the vault under way
    reqs,    \* requests under way
    job,     \* device -> the act on a selection under way, or NoJob
    signal,  \* desktops told of a change they have not read yet
    online,  \* desktops with an open socket
    spent,   \* acts and losses so far
    behind,  \* history: desktops that were not told of a change
    lost     \* history: what an edit overwrote without having read it

vars == <<vault, page, loads, reqs, job, signal, online, spent, behind, lost>>

States == {"none", "active", "trash", "gone"}
NoRow == [state |-> "none", version |-> 0, fav |-> FALSE, folder |-> NoFolder]
NoForm == [on |-> 0, version |-> 0, fav |-> FALSE, folder |-> NoFolder]
NoPage == [shown |-> {}, sel |-> {}, trash |-> {}, form |-> NoForm, err |-> FALSE]
NoJob == [kind |-> "none", all |-> {}, todo |-> {}, want |-> FALSE, folder |-> NoFolder,
          failed |-> FALSE, disturbed |-> FALSE, keepsSel |-> FALSE]

Writes == {"add", "update", "delete", "favorite", "restore", "purge"}

Active == {e \in Ids : vault[e].state = "active"}
View(e) == [on |-> e, version |-> vault[e].version, fav |-> vault[e].fav, folder |-> vault[e].folder]

TypeOK ==
    /\ vault \in [Ids -> [state : States, version : 0..MaxVersion, fav : BOOLEAN, folder : Folders]]
    /\ \A e \in Ids : vault[e].state = "none" <=> vault[e].version = 0
    /\ \A d \in Devices :
        /\ \A x \in page[d].shown : x.on \in Ids /\ x.version \in 1..MaxVersion
        /\ page[d].sel \cup page[d].trash \subseteq Ids
        /\ {x.on : x \in job[d].todo} \subseteq job[d].all
    /\ \A r \in reqs : r.do \in Writes /\ r.at \in {"sent", "answered", "refused"}
    /\ \A d \in Devices : Cardinality({r \in reqs : r.d = d /\ r.job}) <= Limit
    /\ signal \cup online \cup behind \subseteq Desktops
    /\ spent \in 0..MaxOps /\ lost \subseteq {"text", "favorite"}

----------------------------------------------------------------------------
(* The server.                                                             *)

Tell ==
    /\ signal' = signal \cup online
    /\ behind' = behind \cup (Desktops \ online)

Moves(r, at) == reqs' = (reqs \ {r}) \cup {[r EXCEPT !.at = at]}

\* An act of another kind reached an entry that a job is working on.
Disturbs(r) ==
    job' = [d \in Devices |->
        IF r.on \in job[d].all /\ ~ (r.job /\ r.d = d) THEN [job[d] EXCEPT !.disturbed = TRUE] ELSE job[d]]

\* The handlers of the server: change the row, tell the desktops, answer.
Commit(r, row) ==
    /\ vault' = [vault EXCEPT ![r.on] = row]
    /\ Tell /\ Moves(r, "answered") /\ Disturbs(r)
    /\ UNCHANGED <<page, loads, online, spent>>

Here(r, do, state) == r.at = "sent" /\ r.do = do /\ vault[r.on].state = state

AddToVault(r) ==
    /\ r.at = "sent" /\ r.do = "add"
    /\ \E e \in Ids :
        /\ vault[e].state = "none" /\ \A f \in Ids : f < e => vault[f].state # "none"
        /\ vault' = [vault EXCEPT ![e] = [state |-> "active", version |-> 1, fav |-> FALSE, folder |-> r.folder]]
    /\ Tell /\ Moves(r, "answered")
    /\ UNCHANGED <<page, loads, job, online, spent, lost>>

\* The whole row is written, its favourite mark with it; the version is asked for.
UpdateVaultEntry(r) ==
    LET row == vault[r.on] IN
    /\ Here(r, "update", "active") /\ row.version = r.expected /\ row.version < MaxVersion
    /\ Commit(r, [state |-> "active", version |-> row.version + 1, fav |-> r.fav, folder |-> r.folder])
    /\ lost' = lost \cup {x \in {"text", "favorite"} : IF x = "text" THEN r.read.version # row.version ELSE r.read.fav # row.fav}

\* Variant: nobody is told.
ToggleFavoriteSilent(r) ==
    /\ Here(r, "favorite", "active")
    /\ vault' = [vault EXCEPT ![r.on].fav = ~ @] /\ Moves(r, "answered") /\ Disturbs(r)
    /\ UNCHANGED <<page, loads, signal, online, spent, behind, lost>>

\* The mark is inverted where it is; the version stays.
ToggleFavorite(r) ==
    /\ Here(r, "favorite", "active")
    /\ Commit(r, [vault[r.on] EXCEPT !.fav = ~ @]) /\ lost' = lost

DeleteVaultEntry(r) ==
    /\ Here(r, "delete", "active")
    /\ Commit(r, [vault[r.on] EXCEPT !.state = "trash"]) /\ lost' = lost

RestoreVaultEntry(r) ==
    /\ Here(r, "restore", "trash")
    /\ Commit(r, [vault[r.on] EXCEPT !.state = "active"]) /\ lost' = lost

PermanentlyDelete(r) ==
    /\ Here(r, "purge", "trash")
    /\ Commit(r, [vault[r.on] EXCEPT !.state = "gone"]) /\ lost' = lost

\* What the server accepts.  A bound: rows and versions run out.
Accepts(r) ==
    CASE r.do = "add" -> \E e \in Ids : vault[e].state = "none"
      [] r.do = "update" -> vault[r.on].state = "active" /\ vault[r.on].version = r.expected /\ r.expected < MaxVersion
      [] r.do \in {"delete", "favorite"} -> vault[r.on].state = "active"
      [] OTHER -> vault[r.on].state = "trash"

Fault == spent < MaxOps /\ spent' = spent + 1

\* Refused, or lost before the server had it or after it was served.
RequestFails(r) ==
    /\ r.at \in {"sent", "answered"}
    /\ IF r.at = "sent" /\ ~ Accepts(r) THEN spent' = spent ELSE Fault
    /\ Moves(r, "refused")
    /\ UNCHANGED <<vault, page, loads, job, signal, online, behind, lost>>

Serve(r) ==
    \/ AddToVault(r) \/ UpdateVaultEntry(r) \/ ToggleFavorite(r) \/ DeleteVaultEntry(r)
    \/ RestoreVaultEntry(r) \/ PermanentlyDelete(r) \/ RequestFails(r)

----------------------------------------------------------------------------
(* Reading the vault.                                                      *)

\* Favourites first, then as inserted: a mark that changes moves the others.
Before(e, f) == IF vault[e].fav = vault[f].fav THEN e < f ELSE vault[e].fav
PageAt(offset) ==
    {e \in Active : LET n == Cardinality({f \in Active : Before(f, e)}) IN n >= offset /\ n < offset + PageSize}

NewLoad(d) == [d |-> d, offset |-> 0, got |-> {}, whole |-> FALSE]

\* loadEntries makes the reads before it obsolete: nothing becomes of their
\* answers.  reload of the extension does not.
LoadEntries(d, p) ==
    /\ page' = [page EXCEPT ![d] = IF d \in Desktops THEN [p EXCEPT !.err = FALSE] ELSE p]
    /\ loads' = {l \in loads : l.d # d \/ d \in Extensions} \cup {NewLoad(d)}

GetFullVault(l) ==
    /\ ~ l.whole
    /\ LET here == PageAt(l.offset) IN
       loads' = (loads \ {l}) \cup {[l EXCEPT !.got = @ \cup {View(e) : e \in here}, !.offset = @ + PageSize,
                                              !.whole = Cardinality(here) < PageSize]}
    /\ UNCHANGED <<vault, page, reqs, job, signal, online, spent, behind, lost>>

Shown(l) ==
    /\ l.whole
    /\ loads' = loads \ {l}
    /\ page' = [page EXCEPT ![l.d].shown = l.got]
    /\ UNCHANGED <<vault, reqs, job, signal, online, spent, behind, lost>>

LoadFails(l) ==
    /\ ~ l.whole /\ Fault
    /\ loads' = loads \ {l} /\ page' = [page EXCEPT ![l.d].err = TRUE]
    /\ UNCHANGED <<vault, reqs, job, signal, online, behind, lost>>

LoadStep(l) == GetFullVault(l) \/ Shown(l) \/ LoadFails(l)

\* Nothing was heard for 400 ms after an event.
SyncReload(d) ==
    /\ d \in signal /\ signal' = signal \ {d}
    /\ LoadEntries(d, page[d]) /\ behind' = behind \ {d}
    /\ UNCHANGED <<vault, reqs, job, online, spent, lost>>

Disconnect(d) ==
    /\ d \in online /\ Fault
    /\ online' = online \ {d}
    /\ UNCHANGED <<vault, page, loads, reqs, job, signal, behind, lost>>

\* connect opens another socket, and reads nothing.
Connect(d) ==
    /\ d \in Desktops \ online
    /\ online' = online \cup {d}
    /\ UNCHANGED <<vault, page, loads, reqs, job, signal, spent, behind, lost>>

----------------------------------------------------------------------------
(* What a device does with an answer.                                      *)

Without(p, e) == [p EXCEPT !.shown = {x \in @ : x.on # e}]
Marked(p, e, fav) == [p EXCEPT !.shown = {IF x.on = e THEN [x EXCEPT !.fav = fav] ELSE x : x \in @}]
NotJob(r) == ~ r.job /\ reqs' = reqs \ {r} /\ UNCHANGED <<vault, job, signal, online, spent, lost>>

\* An add, an edit: the form closes and the vault is read again; a restored
\* entry leaves the trash shown, and the vault is read again.
Reads(r) ==
    /\ NotJob(r) /\ r.at = "answered" /\ r.do \in {"add", "update", "restore"}
    /\ LoadEntries(r.d, IF r.do = "restore" THEN [page[r.d] EXCEPT !.trash = @ \ {r.on}]
                        ELSE [page[r.d] EXCEPT !.form = NoForm])
    /\ behind' = behind \ {r.d}

\* A deletion is shown at once, read again only if an event comes: when the
\* entry was restored before the answer came, none does.
ShowsAtOnce(r) ==
    /\ NotJob(r) /\ r.at = "answered" /\ r.do \in {"delete", "purge", "favorite"}
    /\ LET p == page[r.d] IN page' = [page EXCEPT ![r.d] =
          CASE r.do = "delete" -> [Without(p, r.on) EXCEPT !.form = IF r.d \in Extensions THEN NoForm ELSE @]
            [] r.do = "purge" -> [p EXCEPT !.trash = @ \ {r.on}]
            [] OTHER -> p]
    /\ behind' = IF r.do = "delete" /\ r.on \in Active /\ r.d \in Desktops THEN behind \cup {r.d} ELSE behind
    /\ loads' = loads

\* The mark goes back to what it was when clicked.  A form tells its own
\* errors and stays open.
Refused(r) ==
    /\ NotJob(r) /\ r.at = "refused"
    /\ page' = [page EXCEPT ![r.d] =
          IF r.do \in {"add", "update"} THEN @
          ELSE [IF r.do = "favorite" THEN Marked(@, r.on, r.fav) ELSE @ EXCEPT !.err = TRUE]]
    /\ UNCHANGED <<loads, behind>>

----------------------------------------------------------------------------
(* The acts of the user.                                                   *)

Ask(d, do, on) == [d |-> d, do |-> do, on |-> on, at |-> "sent", expected |-> 0, fav |-> FALSE,
                   folder |-> NoFolder, read |-> NoForm, job |-> FALSE]

Busy(d, do, on) == \E r \in reqs : r.d = d /\ r.do \in do /\ r.on = on
Idle(d) == job[d] = NoJob
Acts == spent < MaxOps /\ spent' = spent + 1
Sends(r) == Acts /\ reqs' = reqs \cup {r} /\ UNCHANGED <<vault, loads, job, signal, online, behind, lost>>
Turns(d, p) == Acts /\ page' = [page EXCEPT ![d] = p] /\ UNCHANGED <<vault, loads, reqs, job, signal, online, behind, lost>>

\* What updateVaultEntry sends: every field as read, but for the one changed.
EncryptEntry(d, x, folder) ==
    [Ask(d, "update", x.on) EXCEPT !.expected = x.version, !.fav = x.fav, !.folder = folder, !.read = x]

\* The form covers the page; the buttons of a row go while entries are ticked.
Uncovered(d) == page[d].form = NoForm
OpenForm(d) == \E x \in page[d].shown : Uncovered(d) /\ Turns(d, [page[d] EXCEPT !.form = x])
CloseForm(d) ==
    /\ ~ Uncovered(d) /\ page' = [page EXCEPT ![d].form = NoForm]
    /\ UNCHANGED <<vault, loads, reqs, job, signal, online, spent, behind, lost>>

HandleAdd(d) ==
    \E f \in Folders :
        /\ Uncovered(d) /\ ~ Busy(d, {"add"}, 0) /\ page' = page
        /\ Sends([Ask(d, "add", 0) EXCEPT !.folder = f])

\* Variant: the version is the one the page shows when the form is sent.
HandleEditShownVersion(d) ==
    LET x == page[d].form IN
    /\ x # NoForm /\ ~ Busy(d, {"update"}, x.on) /\ page' = page
    /\ \E f \in Folders \ {x.folder}, y \in page[d].shown :
        y.on = x.on /\ Sends([EncryptEntry(d, x, f) EXCEPT !.expected = y.version])

HandleEdit(d) ==
    LET x == page[d].form IN
    /\ x # NoForm /\ ~ Busy(d, {"update"}, x.on) /\ page' = page
    /\ \E f \in Folders \ {x.folder} : Sends(EncryptEntry(d, x, f))

HandleDelete(d) ==
    \E x \in page[d].shown :
        /\ d \in Extensions => x.on = page[d].form.on
        /\ ~ Busy(d, {"delete"}, x.on) /\ page' = page /\ Sends(Ask(d, "delete", x.on))

\* The mark changes on the screen first.
HandleToggleFavorite(d) ==
    \E x \in page[d].shown :
        /\ page' = [page EXCEPT ![d] = Marked(@, x.on, ~ x.fav)]
        /\ Sends([Ask(d, "favorite", x.on) EXCEPT !.fav = x.fav])

\* The trash is read once, when opened.
OpenTrash(d) ==
    LET T == {e \in Ids : vault[e].state = "trash"} IN
    /\ T # page[d].trash /\ page' = [page EXCEPT ![d].trash = T]
    /\ UNCHANGED <<vault, loads, reqs, job, signal, online, spent, behind, lost>>
HandleRestore(d) ==
    \E e \in page[d].trash : ~ Busy(d, {"restore", "purge"}, e) /\ page' = page /\ Sends(Ask(d, "restore", e))
HandlePurge(d) ==
    \E e \in page[d].trash : ~ Busy(d, {"restore", "purge"}, e) /\ page' = page /\ Sends(Ask(d, "purge", e))

\* The list: one folder or all of them.
FilteredEntries(p, f) == {x \in p.shown : f \in {"all", x.folder}}

Selects(d, S) == S # page[d].sel /\ Turns(d, [page[d] EXCEPT !.sel = S])

ToggleSelected(d) ==
    \E x \in page[d].shown : Selects(d, (page[d].sel \ {x.on}) \cup ({x.on} \ page[d].sel))

ExitSelection(d) == Selects(d, {})

\* As many ticked as listed means that all of them are.
ToggleSelectAll(d) ==
    \E f \in Folders \cup {"all"} :
        LET listed == {x.on : x \in FilteredEntries(page[d], f)} IN
        Selects(d, IF Cardinality(page[d].sel) = Cardinality(listed) THEN {} ELSE listed)

\* An act on several entries begins, on their rows as they are shown then;
\* whether the page was already behind the vault.
Begins(d, kind, X, want, folder, keepsSel) ==
    /\ Idle(d) /\ X # {} /\ Acts
    /\ job' = [job EXCEPT ![d] = [kind |-> kind, all |-> {x.on : x \in X}, todo |-> X, want |-> want, folder |-> folder,
          failed |-> FALSE, keepsSel |-> keepsSel, disturbed |-> kind # "delete" /\ \E x \in X : x # View(x.on)]]
    /\ page' = [page EXCEPT ![d].err = FALSE]
    /\ UNCHANGED <<vault, loads, reqs, signal, online, behind, lost>>

Ticked(d) == {x \in page[d].shown : x.on \in page[d].sel}

HandleBulkDelete(d) == Begins(d, "delete", {[NoForm EXCEPT !.on = e] : e \in page[d].sel}, FALSE, NoFolder, FALSE)

\* Variant: every ticked entry is inverted.
BulkFavoriteAll(d) == \E want \in BOOLEAN : Begins(d, "favorite", Ticked(d), want, NoFolder, FALSE)

\* The entries that are not already as wanted, as far as the page knows.
HandleBulkSetFavorite(d) ==
    \E want \in BOOLEAN : Begins(d, "favorite", {x \in Ticked(d) : x.fav # want}, want, NoFolder, FALSE)

HandleBulkSetFolder(d) ==
    \E f \in Folders : Begins(d, "update", {x \in Ticked(d) : x.folder # f}, FALSE, f, FALSE)

\* The sections of the list: the rows of each folder, whatever the filter hides.
GroupEntriesByFolder(p) == {[name |-> x.folder, entries |-> {y \in p.shown : y.folder = x.folder}] : x \in p.shown}

HandleRenameFolder(d, section) ==
    \E f \in Folders \ {NoFolder, section.name} : Begins(d, "update", section.entries, FALSE, f, TRUE)

\* reassignFolder, or the plain request; the rows are those the act began with.
ReassignFolder(d, x) ==
    IF job[d].kind = "update" THEN EncryptEntry(d, x, job[d].folder) ELSE Ask(d, job[d].kind, x.on)

JobOf(d) == {r \in reqs : r.d = d /\ r.job}

\* Variant: every request at once.
AllAtOnce(d) ==
    /\ job[d].todo # {}
    /\ job' = [job EXCEPT ![d].todo = {}]
    /\ reqs' = reqs \cup {[ReassignFolder(d, x) EXCEPT !.job = TRUE] : x \in job[d].todo}
    /\ UNCHANGED <<vault, page, loads, signal, online, spent, behind, lost>>

\* allSettledWithLimit: the next batch once the one before is settled.
AllSettledWithLimit(d) ==
    /\ job[d].todo # {} /\ JobOf(d) = {}
    /\ \E B \in SUBSET job[d].todo :
        /\ Cardinality(B) = IF Cardinality(job[d].todo) < Limit THEN Cardinality(job[d].todo) ELSE Limit
        /\ job' = [job EXCEPT ![d].todo = @ \ B]
        /\ reqs' = reqs \cup {[ReassignFolder(d, x) EXCEPT !.job = TRUE] : x \in B}
    /\ UNCHANGED <<vault, page, loads, signal, online, spent, behind, lost>>

Settled(r) ==
    /\ r.job /\ r.at # "sent" /\ reqs' = reqs \ {r}
    /\ job' = [job EXCEPT ![r.d].failed = @ \/ r.at = "refused"]
    /\ UNCHANGED <<vault, page, loads, signal, online, spent, behind, lost>>

\* The end of the act: the message of a failure, the selection left, and a
\* read of the vault, which begins by clearing the message.
JobEnds(d) ==
    /\ ~ Idle(d) /\ job[d].todo = {} /\ JobOf(d) = {}
    /\ job' = [job EXCEPT ![d] = NoJob]
    /\ LoadEntries(d, [page[d] EXCEPT !.err = job[d].failed, !.sel = IF job[d].keepsSel THEN @ ELSE {}])
    /\ behind' = behind \ {d}
    /\ UNCHANGED <<vault, reqs, signal, online, spent, lost>>

----------------------------------------------------------------------------
(* The screens.                                                            *)

\* VaultHistoryModal: a former password put back, as an edit of the row the
\* history was opened on.
VaultHistoryModal(d) == d \in Desktops /\ HandleEdit(d)
TrashModal(d) == d \in Desktops /\ Uncovered(d) /\ (OpenTrash(d) \/ HandleRestore(d) \/ HandlePurge(d))
TrashView(d) == d \in Extensions /\ Uncovered(d) /\ (OpenTrash(d) \/ HandleRestore(d) \/ HandlePurge(d))

\* A click on a row ticks it while entries are being ticked; otherwise the row
\* offers its mark, the form and a menu.  Three layouts, the same acts.
SecondaryActionItems(d) == page[d].sel = {} /\ HandleDelete(d)
EntryRow(d) == ToggleSelected(d) \/ (page[d].sel = {} /\ (HandleToggleFavorite(d) \/ OpenForm(d))) \/ SecondaryActionItems(d)
EntryCompact(d) == ToggleSelected(d) \/ (page[d].sel = {} /\ (HandleToggleFavorite(d) \/ OpenForm(d))) \/ SecondaryActionItems(d)
EntryCard(d) == ToggleSelected(d) \/ (page[d].sel = {} /\ (HandleToggleFavorite(d) \/ OpenForm(d))) \/ SecondaryActionItems(d)
VaultEntryForm(d) == d \in Desktops /\ (HandleAdd(d) \/ HandleEdit(d) \/ CloseForm(d))
FolderSections(d) ==
    \E section \in GroupEntriesByFolder(page[d]) : section.name # NoFolder /\ HandleRenameFolder(d, section)
SelectionBar(d) ==
    /\ d \in Desktops /\ Uncovered(d)
    /\ \/ ToggleSelectAll(d) \/ ExitSelection(d)
       \/ HandleBulkDelete(d) \/ HandleBulkSetFavorite(d) \/ HandleBulkSetFolder(d)
EntryList(d) == d \in Desktops /\ Uncovered(d) /\ (EntryRow(d) \/ EntryCompact(d) \/ EntryCard(d) \/ FolderSections(d))
\* Escape closes what covers the page, then leaves the selection.
HandleKeyDown(d) == d \in Desktops /\ (CloseForm(d) \/ (Uncovered(d) /\ ExitSelection(d)))

ExtEntryRow(d) == HandleToggleFavorite(d) \/ OpenForm(d)
ExtEditEntry(d) == d \in Extensions /\ ~ Uncovered(d) /\ (HandleEdit(d) \/ HandleDelete(d) \/ CloseForm(d))
ExtAddEntry(d) == HandleAdd(d)
ExtEntryList(d) == d \in Extensions /\ Uncovered(d) /\ (ExtEntryRow(d) \/ ExtAddEntry(d))

Vault(d) == VaultEntryForm(d) \/ VaultHistoryModal(d) \/ TrashModal(d) \/ SelectionBar(d) \/ EntryList(d) \/ HandleKeyDown(d)
VaultScreen(d) == ExtEntryList(d) \/ ExtEditEntry(d) \/ TrashView(d)

JobStep(d) == AllSettledWithLimit(d) \/ JobEnds(d)
Answer(r) == Reads(r) \/ ShowsAtOnce(r) \/ Refused(r) \/ Settled(r)

Next ==
    \/ \E d \in Devices : Vault(d) \/ VaultScreen(d) \/ JobStep(d)
    \/ \E d \in Desktops : SyncReload(d) \/ Disconnect(d) \/ Connect(d)
    \/ \E r \in reqs : Serve(r) \/ Answer(r)
    \/ \E l \in loads : LoadStep(l)

Init ==
    /\ vault = [e \in Ids |-> NoRow] /\ page = [d \in Devices |-> NoPage]
    /\ loads = {NewLoad(d) : d \in Devices}
    /\ reqs = {} /\ job = [d \in Devices |-> NoJob] /\ signal = {} /\ online = Desktops
    /\ spent = 0 /\ behind = {} /\ lost = {}

Spec == Init /\ [][Next]_vars

\* Requests and reads are answered or fail, timers fire, a batch follows another.
Fairness ==
    /\ WF_vars(\E r \in reqs : Serve(r) \/ Answer(r))
    /\ WF_vars(\E l \in loads : LoadStep(l))
    /\ \A d \in Devices : WF_vars(JobStep(d))
    /\ \A d \in Desktops : WF_vars(SyncReload(d))

----------------------------------------------------------------------------
(* Properties.                                                             *)

\* An edit, a former password put back, a move to a folder writes over a text
\* only if it was made from it, whatever the page read while the form was open.
TextKept == "text" \notin lost

\* repository.rs:571-576: a favourite changed elsewhere is a change an edit
\* made before it does not undo.
FavoriteKept == "favorite" \notin lost

\* An act on a selection that ends with no failure leaves every entry as it
\* asked, unless another act reached one of them since the page read them.
BulkDone ==
    [][\A d \in Devices : job[d] # NoJob /\ job'[d] = NoJob /\ ~ job[d].failed /\ ~ job[d].disturbed =>
         \A e \in job[d].all :
            CASE job[d].kind = "delete" -> vault[e].state = "trash"
              [] job[d].kind = "favorite" -> vault[e].fav = job[d].want
              [] OTHER -> vault[e].folder = job[d].folder]_vars

\* concurrency.ts:9-13: an act on a selection some of whose requests failed
\* ends by saying so.
FailureTold ==
    [][\A d \in Devices : job[d] # NoJob /\ job'[d] = NoJob /\ job[d].failed => page'[d].err]_vars

\* A desktop whose socket was open all along, and that shows no error, ends up
\* showing the vault, each entry once and none missing, in whatever order the
\* answers came and the pages were read.
ViewSettles ==
    <>[](\A d \in Desktops : ~ page[d].err /\ d \notin behind => page[d].shown = {View(e) : e \in Active})
=============================================================================
