------------------------------- MODULE Console -------------------------------
(***************************************************************************)
(* Administration: the page on which the administrator and the moderators  *)
(* list the accounts and act on them, beside the life of these accounts.   *)
(*                                                                         *)
(* The page shows a copy of the accounts and names them by their address.  *)
(* A handler lets the caller in, checks what it may do to the account of   *)
(* the address, then writes to the account of the address: two statements, *)
(* between which accounts are renamed, promoted, deleted and registered.   *)
(* Only one administrator exists: the account whose address is             *)
(* AdminAddress.                                                           *)
(***************************************************************************)
EXTENDS Accounts

CONSTANT MaxActs   \* bound: acts of a behaviour

ASSUME ConsoleAssumption == MaxActs \in Nat

VARIABLES
    settings,   \* account -> what its administrator set for it
    list,       \* device -> the accounts its page shows
    acts,       \* acts on an account under way
    reads,      \* reads of the list under way
    panel,      \* device -> the panel of addresses of one account
    asks,       \* reads for the panel under way
    health,     \* device -> the panel of the state of the server
    choice_at_login,   \* is the server offered for choice before the sign-in
    seen,       \* device -> the global settings its page shows
    notes,      \* tables bug_reports and feature_suggestions
    desk,       \* device -> the notes its page shows
    told,       \* history: note -> mails sent to its author
    spent       \* acts so far

serverVars == <<panel, asks, health, choice_at_login, seen>>
conVars == <<settings, list, acts, reads, serverVars, notes, desk, told, spent>>
vars == <<accVars, conVars>>

Notes == {"bug", "suggestion"}
Globals == {"registration", "choice"}
NoName == ""
NoSettings == [grants |-> {}, quota |-> "none"]
NoList == [rows |-> {}, loading |-> FALSE, busy |-> NoName]
NoPanel == [who |-> NoName, shown |-> NoName]

Row(i) == [email |-> accounts[i].email, moderator |-> accounts[i].moderator,
           suspended |-> accounts[i].suspended, settings |-> settings[i]]
Rows == {Row(i) : i \in {j \in Ids : Here(j)}}

Acts == {"role", "suspend", "rename", "delete", "revoke", "grant", "quota"}
IsAdmin(i) == accounts[i].email = AdminAddress

ConsoleTypeOK ==
    /\ \A i \in Ids : settings[i].grants \subseteq {"email", "server"} /\ settings[i].quota \in {"none", "low"}
    /\ \A a \in acts : a.op \in Acts /\ a.d \in Devices /\ a.at \in {"sent", "allowed"}
    /\ \A d \in Devices : panel[d].who \in Addresses \cup {NoName} /\ desk[d] \subseteq Notes
                         /\ health[d] \in {"closed", "loading", "open"} /\ seen[d] \in [Globals -> SUBSET BOOLEAN]
    /\ spent \in 0..MaxActs /\ notes \subseteq Notes /\ told \in [Notes -> 0..1]

----------------------------------------------------------------------------
(* The list.                                                               *)

Console(d) == page[d].at = "in" /\ "console" \in offers[d]
AsAdmin(d) == page[d].at = "in" /\ signed[d].email = AdminAddress

NewRead(d, after) == [d |-> d, after |-> after, rows |-> {}, at |-> "sent"]

OpenList(d) ==
    /\ Console(d) /\ list[d] = NoList
    /\ list' = [list EXCEPT ![d].loading = TRUE]
    /\ reads' = reads \cup {NewRead(d, NoName)}
    /\ UNCHANGED <<accVars, settings, acts, serverVars, notes, desk, told, spent>>

\* Only moderators are answered.  A list that fails leaves the former one.
ListUsers(r) ==
    /\ r.at = "sent"
    /\ IF \E i \in Acting(r.d) : accounts[i].moderator
       THEN reads' = (reads \ {r}) \cup {[r EXCEPT !.at = "served", !.rows = Rows]} /\ list' = list
       ELSE reads' = reads \ {r} /\ list' = [list EXCEPT ![r.d].loading = FALSE]
    /\ UNCHANGED <<accVars, settings, acts, serverVars, notes, desk, told, spent>>

\* The reads are not numbered: the last answer is the one that is kept.
Load(r) ==
    /\ r.at = "served"
    /\ reads' = reads \ {r} /\ list' = [list EXCEPT ![r.d].rows = r.rows, ![r.d].loading = FALSE]
    /\ UNCHANGED <<accVars, settings, acts, serverVars, notes, desk, told, spent>>

----------------------------------------------------------------------------
(* Acts on an account, from a row of the list.                             *)

CanAct(d, row) == AsAdmin(d) \/ ~ row.moderator

\* The page sends the opposite of what the row shows, or what was typed.  The
\* buttons of the last row acted on are disabled until an answer, any answer.
Act(d, row, op, arg) ==
    /\ op \in offers[d] /\ spent < MaxActs /\ spent' = spent + 1
    /\ list[d].busy # row.email /\ list' = [list EXCEPT ![d].busy = row.email]
    /\ acts' = acts \cup {[d |-> d, op |-> op, on |-> row.email, arg |-> arg, at |-> "sent", admin |-> FALSE,
                           seen |-> FALSE]}
    /\ UNCHANGED <<accVars, settings, reads, serverVars, notes, desk, told>>

HandleToggleRole(d, row) == AsAdmin(d) /\ Act(d, row, "role", ~ row.moderator)
HandleToggleSuspended(d, row) == CanAct(d, row) /\ Act(d, row, "suspend", ~ row.suspended)
HandleChangeEmail(d, row) ==
    CanAct(d, row) /\ \E a \in Addresses \ {row.email} : Act(d, row, "rename", a)
HandleDelete(d, row) == CanAct(d, row) /\ Act(d, row, "delete", TRUE)
HandleRevokeSessions(d, row) == CanAct(d, row) /\ Act(d, row, "revoke", TRUE)

HandleToggleExtensionEmailChange(d, row) ==
    CanAct(d, row) /\ Act(d, row, "grant", [name |-> "email", on |-> "email" \notin row.settings.grants])
HandleToggleServerChoiceInSettings(d, row) ==
    AsAdmin(d) /\ Act(d, row, "grant", [name |-> "server", on |-> "server" \notin row.settings.grants])

\* Two questions, one request that sets both quotas.
HandleEditQuotas(d, row) ==
    AsAdmin(d) /\ \E q \in {"none", "low"} : Act(d, row, "quota", q)

\* The buttons of a row.  Those that could act on oneself are disabled.
RenderUserActions(d, row) ==
    \/ /\ row.email # signed[d].email
       /\ \/ HandleToggleRole(d, row) \/ HandleToggleSuspended(d, row) \/ HandleChangeEmail(d, row)
          \/ HandleDelete(d, row) \/ HandleRevokeSessions(d, row)
          \/ HandleToggleExtensionEmailChange(d, row) \/ HandleToggleServerChoiceInSettings(d, row)
    \/ HandleEditQuotas(d, row)

UsersSection(d) ==
    Console(d) /\ ~ list[d].loading /\ \E row \in list[d].rows : RenderUserActions(d, row)

----------------------------------------------------------------------------
(* The handlers.                                                           *)

\* Variant: the rank of the target is not looked at.
CheckTargetExists(i, a) == a.on # AdminAddress /\ At(a.on) # {}

\* Nobody acts on the administrator, and only the administrator on a moderator.
CheckCanActOnTarget(i, a) ==
    /\ a.on # AdminAddress
    /\ \E t \in At(a.on) : accounts[t].moderator => IsAdmin(i)

\* What each handler asks of its caller, i.
May(i, a) ==
    /\ a.op \in {"role", "quota"} \/ (a.op = "grant" /\ a.arg.name = "server") => IsAdmin(i)
    /\ a.op \notin {"role", "quota"} => accounts[i].moderator \/ IsAdmin(i)
    /\ a.op \in {"role", "rename", "delete"} => a.on # accounts[i].email
    /\ a.op \notin {"role", "quota"} => CheckCanActOnTarget(i, a)
    /\ a.op = "role" /\ ~ a.arg => a.on # AdminAddress

Authorize(a) ==
    /\ a.at = "sent"
    /\ \/ \E i \in Acting(a.d) :
            /\ May(i, a)
            /\ acts' = (acts \ {a}) \cup {[a EXCEPT !.at = "allowed", !.admin = IsAdmin(i),
                                               !.seen = \E t \in At(a.on) : accounts[t].moderator]}
            /\ list' = list
       \/ /\ \A i \in Acting(a.d) : ~ May(i, a)
          /\ acts' = acts \ {a} /\ list' = [list EXCEPT ![a.d].busy = NoName]
    /\ UNCHANGED <<accVars, settings, reads, serverVars, notes, desk, told, spent>>

\* The answer: the list is read again, except after a revocation.
Reloads(a) ==
    IF a.op # "revoke"
    THEN list' = [list EXCEPT ![a.d].loading = TRUE, ![a.d].busy = NoName] /\ reads' = reads \cup {NewRead(a.d, a.on)}
    ELSE list' = [list EXCEPT ![a.d].busy = NoName] /\ reads' = reads

Writes(a, t, row) ==
    /\ accounts' = [accounts EXCEPT ![t] = row] /\ acts' = acts \ {a} /\ Reloads(a)
    /\ UNCHANGED <<offers, mails, sent, page, job, registration_open, guessed, served, serverVars, notes, desk, told, spent>>

UpdateUserRole(a, t) ==
    a.op = "role" /\ Writes(a, t, [accounts[t] EXCEPT !.moderator = a.arg]) /\ UNCHANGED <<codes, signed, settings, crossed>>

\* A suspension takes the refresh tokens; a reactivation gives nothing back.
UpdateSuspended(a, t) ==
    /\ a.op = "suspend"
    /\ Writes(a, t, [accounts[t] EXCEPT !.suspended = a.arg, !.refresh = IF a.arg THEN {} ELSE @])
    /\ UNCHANGED <<codes, signed, settings, crossed>>

\* The codes of the account, and the hash of its password, stay as they were.
AdminUpdateUserEmail(a, t) ==
    /\ a.op = "rename" /\ At(a.arg) \subseteq {t}
    /\ Writes(a, t, [accounts[t] EXCEPT !.email = a.arg, !.refresh = {}])
    /\ LET held == {job[d].n : d \in {e \in Devices : Doing(e, "verify", "read") /\ job[e].id = t}} IN
       crossed' = [twice |-> crossed.twice \cup held,
                   renamed |-> crossed.renamed \cup held \cup ({codes[t].verify.n} \ {0})]
    /\ UNCHANGED <<codes, signed, settings>>

\* Variant: the codes of the account outlive it.
DeleteUserKeepsCodes(a, t) ==
    /\ a.op = "delete" /\ Writes(a, t, Gone(t))
    /\ settings' = [settings EXCEPT ![t] = NoSettings] /\ UNCHANGED <<codes, signed, crossed>>

DeleteUser(a, t) ==
    /\ a.op = "delete" /\ Writes(a, t, Gone(t))
    /\ codes' = [codes EXCEPT ![t] = [p \in Purposes |-> NoCode]]
    /\ settings' = [settings EXCEPT ![t] = NoSettings] /\ UNCHANGED <<signed, crossed>>

RevokeUserSessions(a, t) ==
    /\ a.op = "revoke" /\ Writes(a, t, [accounts[t] EXCEPT !.refresh = {}])
    /\ signed' = CutAll(t) /\ UNCHANGED <<codes, settings, crossed>>

UpdateExtensionEmailChange(a, t) ==
    /\ a.op = "grant" /\ a.arg.name = "email" /\ Writes(a, t, accounts[t])
    /\ settings' = [settings EXCEPT ![t].grants = IF a.arg.on THEN @ \cup {"email"} ELSE @ \ {"email"}]
    /\ UNCHANGED <<codes, signed, crossed>>

UpdateServerChoiceInSettings(a, t) ==
    /\ a.op = "grant" /\ a.arg.name = "server" /\ Writes(a, t, accounts[t])
    /\ settings' = [settings EXCEPT ![t].grants = IF a.arg.on THEN @ \cup {"server"} ELSE @ \ {"server"}]
    /\ UNCHANGED <<codes, signed, crossed>>

UpdateQuotas(a, t) ==
    /\ a.op = "quota" /\ Writes(a, t, accounts[t])
    /\ settings' = [settings EXCEPT ![t].quota = a.arg] /\ UNCHANGED <<codes, signed, crossed>>

\* No account has the address any more, or the new one is taken.
ActFails(a) ==
    /\ At(a.on) = {} \/ (a.op = "rename" /\ \E t \in At(a.on) : ~ (At(a.arg) \subseteq {t}))
    /\ acts' = acts \ {a} /\ list' = [list EXCEPT ![a.d].busy = NoName]
    /\ UNCHANGED <<accVars, settings, reads, serverVars, notes, desk, told, spent>>

Handle(a) ==
    /\ a.at = "allowed"
    /\ \/ ActFails(a)
       \/ \E t \in At(a.on) :
            \/ UpdateUserRole(a, t) \/ UpdateSuspended(a, t) \/ AdminUpdateUserEmail(a, t)
            \/ DeleteUser(a, t) \/ RevokeUserSessions(a, t) \/ UpdateExtensionEmailChange(a, t)
            \/ UpdateServerChoiceInSettings(a, t) \/ UpdateQuotas(a, t)

----------------------------------------------------------------------------
(* Settings of the whole server.                                           *)

ChangesServer(d) == AsAdmin(d) /\ "server" \in offers[d] /\ spent < MaxActs /\ spent' = spent + 1

\* The page reads them once; what it sends is the opposite of what it has read.
ReadGlobals(d) ==
    /\ AsAdmin(d) /\ "server" \in offers[d] /\ seen[d]["choice"] = {}
    /\ seen' = [seen EXCEPT ![d] = [registration |-> {registration_open}, choice |-> {choice_at_login}]]
    /\ UNCHANGED <<accVars, settings, list, acts, reads, panel, asks, health, choice_at_login, notes, desk, told, spent>>

HandleToggleRegistration(d) ==
    /\ ChangesServer(d) /\ \E i \in Acting(d) : IsAdmin(i)
    /\ \E open \in seen[d]["registration"] :
        registration_open' = ~ open /\ seen' = [seen EXCEPT ![d]["registration"] = {~ open}]
    /\ UNCHANGED <<offers, mails, accounts, codes, sent, page, job, signed, guessed, served, crossed,
                   settings, list, acts, reads, panel, asks, health, choice_at_login, notes, desk, told>>

\* This one is read again after the answer.
ServerChoiceAtLoginSection(d) ==
    /\ ChangesServer(d) /\ \E i \in Acting(d) : IsAdmin(i)
    /\ \E on \in seen[d]["choice"] :
        choice_at_login' = ~ on /\ seen' = [seen EXCEPT ![d]["choice"] = {~ on}]
    /\ UNCHANGED <<accVars, settings, list, acts, reads, panel, asks, health, notes, desk, told>>

\* For every account at once: the buttons look at the rows that are shown.
RenderBulkFlagRow(d, g) ==
    /\ ChangesServer(d) /\ ~ list[d].loading /\ \E i \in Acting(d) : IsAdmin(i)
    /\ \E on \in BOOLEAN :
        /\ \E row \in list[d].rows : (g \in row.settings.grants) # on
        /\ settings' = [i \in Ids |-> IF ~ Here(i) THEN settings[i] ELSE
                [settings[i] EXCEPT !.grants = IF on THEN @ \cup {g} ELSE @ \ {g}]]
    /\ list' = [list EXCEPT ![d].loading = TRUE]
    /\ reads' = reads \cup {NewRead(d, g)}
    /\ UNCHANGED <<accVars, acts, serverVars, notes, desk, told>>

----------------------------------------------------------------------------
(* The panel of addresses, and that of the state of the server.            *)

\* The same button closes the panel, opens it, and turns it to another account.
HandleShowIpHistory(d) ==
    /\ Console(d) /\ "panel" \in offers[d] /\ ~ list[d].loading /\ spent < MaxActs /\ spent' = spent + 1
    /\ \E row \in list[d].rows :
        IF panel[d].who = row.email THEN panel' = [panel EXCEPT ![d] = NoPanel] /\ asks' = asks
        ELSE /\ panel' = [panel EXCEPT ![d] = [who |-> row.email, shown |-> NoName]]
             /\ asks' = asks \cup {[d |-> d, about |-> row.email]}
    /\ UNCHANGED <<accVars, settings, list, acts, reads, health, choice_at_login, seen, notes, desk, told>>

\* Any answer is shown, whoever the panel is for; a refusal closes it.
GetUserIpHistory(q) ==
    /\ asks' = asks \ {q}
    /\ IF At(q.about) # {} /\ \E i \in Acting(q.d) : accounts[i].moderator
       THEN panel' = [panel EXCEPT ![q.d].shown = q.about]
       ELSE panel' = [panel EXCEPT ![q.d].who = NoName]
    /\ UNCHANGED <<accVars, settings, list, acts, reads, health, choice_at_login, seen, notes, desk, told, spent>>

HandleToggleHealth(d) ==
    /\ AsAdmin(d) /\ "panel" \in offers[d] /\ spent < MaxActs /\ spent' = spent + 1
    /\ health' = [health EXCEPT ![d] = IF @ = "closed" THEN "loading" ELSE "closed"]
    /\ UNCHANGED <<accVars, settings, list, acts, reads, panel, asks, choice_at_login, seen, notes, desk, told>>

\* The measures, or an error that closes the panel.
RenderHealthPanel(d) ==
    /\ health[d] = "loading"
    /\ health' = [health EXCEPT ![d] = IF \E i \in Acting(d) : IsAdmin(i) THEN "open" ELSE "closed"]
    /\ UNCHANGED <<accVars, settings, list, acts, reads, panel, asks, choice_at_login, seen, notes, desk, told, spent>>

----------------------------------------------------------------------------
(* Notes to the administrator: reports of bugs, suggestions.               *)

Noted(d, n) ==
    /\ "notes" \in offers[d] /\ n \notin notes /\ told[n] = 0 /\ notes' = notes \cup {n}
    /\ UNCHANGED <<accVars, settings, list, acts, reads, serverVars, desk, told, spent>>

\* Anybody may report a bug.
BugReportModal(d) == Noted(d, "bug")
FeatureSuggestionModal(d) == page[d].at = "in" /\ Acting(d) # {} /\ Noted(d, "suggestion")

OpenDesk(d) ==
    /\ AsAdmin(d) /\ "notes" \in offers[d] /\ \E i \in Acting(d) : IsAdmin(i)
    /\ desk[d] # notes /\ desk' = [desk EXCEPT ![d] = notes]
    /\ UNCHANGED <<accVars, settings, list, acts, reads, serverVars, notes, told, spent>>

\* Deleting a note is how it is marked as done: its author is told, once.
Treat(d, n, failed) ==
    /\ AsAdmin(d) /\ n \in desk[d] /\ \E i \in Acting(d) : IsAdmin(i)
    /\ notes' = notes \ {n}
    /\ IF n \in notes THEN told' = [told EXCEPT ![n] = @ + 1] /\ desk' = [desk EXCEPT ![d] = @ \ {n}]
       ELSE told' = told /\ desk' = failed
    /\ UNCHANGED <<accVars, settings, list, acts, reads, serverVars, spent>>

\* The message of an error takes the place of the list; not so for suggestions.
BugReportsSection(d) == Treat(d, "bug", [desk EXCEPT ![d] = @ \ {"bug"}])
FeatureSuggestionsSection(d) == Treat(d, "suggestion", desk)

----------------------------------------------------------------------------
\* Nothing of the page is open, and the server is as it was left.
InitConsole ==
    /\ settings = [i \in Ids |-> NoSettings] /\ list = [d \in Devices |-> NoList]
    /\ acts = {} /\ reads = {} /\ panel = [d \in Devices |-> NoPanel] /\ asks = {}
    /\ notes = {} /\ desk = [d \in Devices |-> {}] /\ told = [n \in Notes |-> 0]
    /\ health = [d \in Devices |-> "closed"] /\ choice_at_login = TRUE
    /\ seen = [d \in Devices |-> [g \in Globals |-> {}]]

Init == Starts /\ InitConsole /\ spent \in 0..MaxActs

ConsoleStep(d) ==
    \/ OpenList(d) \/ UsersSection(d) \/ HandleToggleRegistration(d)
    \/ \E g \in {"email", "server"} : RenderBulkFlagRow(d, g)
    \/ ReadGlobals(d) \/ ServerChoiceAtLoginSection(d)
    \/ HandleShowIpHistory(d) \/ HandleToggleHealth(d) \/ RenderHealthPanel(d)
    \/ BugReportModal(d) \/ FeatureSuggestionModal(d) \/ OpenDesk(d)
    \/ BugReportsSection(d) \/ FeatureSuggestionsSection(d)

Next ==
    \/ \E d \in Devices : AccountsStep(d) /\ UNCHANGED conVars
    \/ AccountsTasks /\ UNCHANGED conVars
    \/ \E d \in Devices : ConsoleStep(d)
    \/ \E a \in acts : Authorize(a) \/ Handle(a)
    \/ \E r \in reads : ListUsers(r) \/ Load(r)
    \/ \E q \in asks : GetUserIpHistory(q)

Spec == Init /\ [][Next]_vars

----------------------------------------------------------------------------
(* Properties.                                                             *)

TypesOK == TypeOK /\ ConsoleTypeOK

\* An act of the page never reaches the account of the administrator, and reaches
\* a moderator only on behalf of the administrator, or if the account was promoted,
\* or took the address of the target, after the check (admin.rs).
HierarchyHeld ==
    [][\A a \in acts : a.at = "allowed" /\ a \notin acts' =>
        \A t \in At(a.on) :
            accounts'[t] # accounts[t] /\ a.op \notin {"role", "quota"} =>
                ~ IsAdmin(t) /\ (accounts[t].moderator => a.admin \/ ~ a.seen)]_vars

\* Admin.tsx:31: the panel holds the addresses of the account it is opened for.
IpHistoryOfShown == \A d \in Devices : panel[d].shown \in {NoName, panel[d].who}
=============================================================================
