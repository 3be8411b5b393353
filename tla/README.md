# PassManager: a verification project

PassManager is a self-hosted password manager in three parts: a Rust server
(`src/backend`, axum and SQLite), a desktop and Android application
(`src/frontend(app)`, Tauri and React) and a browser extension
(`src/extension`), with the cryptography shared in `src/crypto-core`. The server
never sees a key: clients derive a vault key and an authentication hash from
the e-mail address and the master password, and the server stores ciphertexts.

That split is where the difficulty lies. The server decides *who* may write,
and *when*; only the clients know *under which key* a thing was written. What a
user has at the end depends on the order in which several clients, each with
calls in flight, reach a server that checks a request in one step and executes
it in another. The modules in this directory describe that order.

Contents: [1 inventory](#1-inventory), [2 modules](#2-modules),
[3 runs](#3-runs), [4 proofs](#4-proofs), [5 what was found](#5-what-was-found),
[6 limits](#6-limits), [7 plan](#7-plan).

## 1. Inventory

### 1.1 Components

**Vault storage** (`handlers/vault.rs`, `repository.rs`). State: the tables
`vault` (ciphertext, `version`, `deleted_at`), `password_history`,
`attachments`. Operations: insert, bulk import, update with an expected version
(409 when stale), archive of the password that is replaced (cap of 20 per
entry), attach and delete a file, delete to the trash, restore, purge of one
entry, and a task that purges the trash after 30 days. Hard: every handler is
authenticated by the `AuthUser` extractor and reaches the database later; what
it was authenticated for may have changed. Correct when: nothing is destroyed
that was not asked for, nothing survives its entry, a late request does nothing
it could not do in time.

**Change of master password** (`handlers/auth/account.rs`,
`state/AuthContext.tsx`). The client reads the entries page by page, then the
archived passwords, then the files, encrypts everything again and sends it with
the new hash; the server, in one write transaction, compares the identifiers it
was sent with those it has, replaces all and ends every session. Hard: several
devices, edits during the three reads, a second change of password, requests in
flight. Correct when: whatever is stored opens under the key of whoever can
sign in.

**Recovery** (`handlers/auth/account.rs`). State: a kit (the vault key sealed
under a recovery key), a reset code. Operations: save and delete the kit, ask
for a code, read what has to be encrypted again, complete the recovery, or
confirm a reset that empties the vault; change of e-mail address. Hard: the same
as above, without a session, with a code that can be replaced during the work.

**Sessions and devices** (`handlers/auth/session.rs`, `handlers/devices.rs`,
`middleware.rs`, `state/AuthContext.tsx`, `api/client.ts`). State: trusted
devices, refresh tokens (single use), `password_changed_at` and
`sessions_revoked_at`, and the tokens a client keeps in memory. Operations:
login (with a second factor on a new device), refresh, logout, revoke a device,
end all sessions; the client's overlapping calls. Hard: login is a sequence of
statements and a revocation may fall between two of them; times are whole
seconds; the answer of a refresh may be lost; continuations set tokens they
captured before an `await`. Correct when: what is revoked stays revoked, and a
client shows itself signed in exactly when it is.

**Emergency access** (`handlers/emergency.rs`, `repository.rs`,
`lib/emergencyAccess.ts`). State: `emergency_contacts`, with a status
`pending -> active -> access_requested -> access_granted`. Operations: invite,
accept, decline, seal the vault key for the contact, demand, approve, refuse,
revoke, and the reading of the vault, which grants a demand whose waiting
period is over before it answers. Hard: time is compared as text, with stamps
finer than the clock they are compared with; the owner may refuse between any
two statements; nothing but a call of the contact moves a demand on. Correct
when: no vault opens without an invitation, an acceptance, a demand and then an
approval or a full waiting period, and a demand is answered in the end.

**Key pairs, sharing of entries, blind shares** (`handlers/sharing.rs`,
`blind_share.rs`, `emergency.rs`, `lib/entrySharing.ts`, `lib/blindShare.ts`,
`lib/emergencyAccess.ts`). State: one pair of keys per account (its private
half encrypted under the vault key), copies of entries sealed for another
account, credentials with a number of uses, sealed vault keys of emergency
contacts. Operations: make a pair when none is found, share, list, open, revoke,
use, seal again after an edit or a change of master password, open the vault of
an owner and close it when the page is left. Hard: every flow is a chain of
requests and other devices act in between; a failed read looks like the absence
of a pair; copies are sealed again in the background. Correct when: uses never
exceed what was granted, a sealed copy stays readable and up to date, no foreign
vault key stays in memory behind a page that was left.

**Shared vaults** (`handlers/shared_vault.rs`, `repository.rs`,
`SharedVaultDetailPage.tsx`, the extension's `SharedVaultDetailView.tsx`).
State: vaults, members, entries with a version; what each page shows, the form
that is open on it, the loads and requests under way. Operations: create,
invite, remove or leave, delete, add, update, delete an entry, load, reload on
an event. Hard: the version is compared and the entry written in separate
statements; forms stay open while the page loads behind them; loads overlap;
events are lost while a socket is closed. Correct when: no edit replaces
another unseen, a removed member writes nothing, pages settle on what is stored.

**The screen of the vault** (`pages/Vault.tsx`, `api/client.ts`,
`lib/concurrency.ts`, the extension's `App.tsx`). State: rows shown, rows
ticked, the trash, the form, an act on a selection with its batches. Hard:
optimistic changes that are rolled back, reads of several pages, a favourite
that can only be inverted, acts of which some requests fail. Correct when: an
edit never replaces a text it was not made from, an act on a selection does
what it says, the page ends up showing the vault.

**Accounts** (`handlers/auth/register.rs`, `session.rs`, `account.rs`,
`handlers/devices.rs`, the pages before sign-in). State: accounts, one code per
account and purpose with its attempts and age, trusted devices and their cap.
Operations: register, verify, ask again, sign in on a new device, reset, revoke.
Hard: a code is read, compared and deleted in separate statements; so are the
cap and the device it admits; an account may be renamed, deleted or replaced
while a code is compared. Correct when: a code serves once, the cap holds, an
address is marked as verified only when its mail was read, and is not taken for
ever by somebody who cannot read it.

**Administration** (`handlers/admin.rs`, `pages/Admin.tsx`). Roles, suspension,
renaming, deletion, quotas, settings, chosen from lists that grow stale and
addressed by e-mail. Hard: the rank of the target is read in one statement and
the act executed in another. Correct when: nobody acts on the administrator, and
only the administrator on a moderator.

**The session of the extension** (`lib/session.ts`, `lib/popupWindow.ts`,
`App.tsx` of the extension). State: a session in storage, shared by an anchored
popup and a standalone window, with the time it locks at. Hard: each call reads
the session, calls the server and writes it back; the exchange of tokens is
shared within a window and not between windows. Correct when: a session is
dropped for a reason, a locked one stays locked, no call waits for nothing.

**Real-time synchronisation** (`handlers/sync.rs`). One-use tickets, a cap on
connections with a guard that gives its place back, a broadcast channel that
drops events for a socket that lags, `SESSION_REVOKED`. Clients are modelled with
the events they get or miss; the server's half is not.

**The rest**: maintenance tasks, themes, suggestions and bug reports, quick
unlock and automatic lock, autofill, generators, breach check, import and
export, mail, geolocation, configuration. `PROJECT.json` lists each, with its
status and the reason.

### 1.2 How they interact

- *Calls*: all requests of a signed-in client pass `AuthUser`, so the end of
  the sessions (by a change of password, a recovery, a revocation) acts on all
  components, and only at that one point of each request.
- *Shared state*: the vault key. Entries, archives, files, the kit, the sealed
  keys of emergency contacts and the private half of the sharing key pair are
  all encrypted under it; a change of key must reach each of them.
- *Messages*: events broadcast to the sockets of an account; the client answers
  `SESSION_REVOKED` by signing out and any other by reading its page again.
- *Callbacks*: continuations of the client after `await`, which write state
  captured before it; timers for the refresh.
- *Tasks*: periodic purges on the server.

### 1.3 Hazards

`PROJECT.json` lists the hazards of this code at their lines, with the
properties that would show them going wrong, or with the reason why none does.

## 2. Modules

| module | models | composed from |
|---|---|---|
| `Vault` | storage, change of master password, recovery, change of address | |
| `MCVault` | symmetry for the runs of `Vault` | `Vault` |
| `VaultProofs` | theorems about `Vault` | `Vault`, TLAPS |
| `EmergencyPromise` | what emergency access promises (abstract) | |
| `Emergency` | the handlers of emergency access | implements `EmergencyPromise` |
| `EmergencyProofs` | theorems about `Emergency`, the refinement | `Emergency`, TLAPS |
| `Session` | sign-in, refresh, sign-out, revocations, server and clients | |
| `MCSession` | symmetry for the run of `Session` | `Session` |
| `SessionProofs` | theorems about `Session` | `Session`, TLAPS |
| `Keyring` | key pairs, shares, blind shares, sealed vault keys, through edits and changes of key | |
| `MCKeyring` | two accounts with two devices each, and a state to start from | `Keyring` |
| `KeyringProofs` | theorems about `Keyring` | `Keyring`, TLAPS |
| `SharedVault` | shared vaults: server, events, pages | |
| `MCSharedVault` | an owner and a member, and a state to start from | `SharedVault` |
| `SharedVaultProofs` | theorems about `SharedVault` | `SharedVault`, TLAPS |
| `Client` | the screen of the vault, on a desktop and in the extension | |
| `MCClient` | a state to start from | `Client` |
| `ClientProofs` | theorems about `Client` | `Client`, TLAPS |
| `Accounts` | registration, codes, sign-in on a new device, reset, devices | |
| `Console` | administration, over the accounts of `Accounts` | `Accounts` |
| `MCConsole` | the situations the run starts from | `Console` |
| `ConsoleProofs` | theorems about `Accounts` and `Console` together | `Console`, TLAPS |
| `Popup` | the session of the extension, two windows over one storage | |
| `PopupProofs` | theorems about `Popup` | `Popup`, TLAPS |

Three conventions hold in all of them.

*A database transaction is one step.* SQLite admits one writer and the
transactions in question take the write lock first. What the code does in
separate statements is in separate steps.

*A check and what it guards are separate steps* when the code has an `await`
between them that others can use: `Accept` and `Commit...` in `Vault`,
`SignIn`, `LoginClear` and `LoginStore` in `Session`, `Demand` and
`CommitDemand`, `CallVault`, `MaybeAutoGrant`, `GetGrantedVaultKey` and
`ReadEntries` in `Emergency`; `Check` and the writes in `SharedVault`; the
`...Read` actions and their writes in `Accounts`; `Authorize` and what it allows
in `Console`; `GetActiveSession` and `WriteStored` or `ClearOver` in `Popup`.

*Ghosts only record.* `past` and `late` in `Vault`, `login`, `late`, `revoked`
and `restored` in `Session`, `approved` in `Emergency` and the variables the
other modules comment as *history* appear in no guard. They name what a property
excuses or relates, so that an exception is stated and never silent.

### 2.1 Vault

A key is the pair of an address and a master password (`crypto.rs:72-114`
derives both the hash and the vault key from them); a ciphertext is known by
the key that opens it and, for an entry, a version of its text; the stored hash
is the key whose holder can sign in. So "this can still be read" is an equation
between two pieces of state.

| state | code |
|---|---|
| `email`, `password_hash` | columns of `users` |
| `vault`, `history`, `files`, `kit` | tables `vault`, `password_history`, `attachments`, recovery kit |
| `code`, `recovery`, `reset` | the reset code, and the recovery or the reset that uses it |
| `session` | per device: nothing, password verified, open |
| `pending` | per device: the request accepted by `AuthUser` and not yet executed |
| `rekey` | per device: what a change of password has read, then what it sent |

`LoginVerify` compares the hash and `LoginIssue` gives the session out, with
the second factor in between abstracted. `Accept` is `AuthUser` plus the
client's side of the call (which ciphertext, under the key of its session, with
which expected version, 0 when none is sent); each `Commit...` is the handler's statement or
transaction with all its conditions; `Refuse` is every early return, and also a
server that stops. `StartRekey`, `ExportVault`, `ExportVaultHistory`,
`CollectAttachments`, `SubmitRekey` and `CommitRekey` are the change of master
password; `CommitRekey` has the comparison of `check_reencrypted_ids` as its
guard (`Covers`) and the re-encryption and end of sessions as its effect.
Recovery has the same shape, with four reads and no session.

What a reader of the code could miss, and the model has: `update_password` does
not compare the stored hash again in its transaction, so a change computed from
a former key may commit, and is then caught by the comparison of identifiers
and by the client's own failed decryption, or not at all when there is nothing
to decrypt; the kit is found `WHERE email = ?` with the address the request was
accepted under; a login that had its password verified goes on whatever happens
to the password; a failed recovery check burns the code; `restore` does not
look at the quota.

### 2.2 Emergency and EmergencyPromise

`EmergencyPromise` has, for a relation, a stage
(`none, invited, trusted, asked, open, over`), a waiting period, a due time and
whether the owner approved. Its one action that opens a vault is possible only
in the stage `open`, which is reached from `asked` by an approval or by the
lapse of the waiting period; a refusal leads back to `trusted`.

`Emergency` is the table and the handlers. `demands` is the set of calls of
`request_emergency_access` that have read the clock (`chrono::Utc::now`) and
wait for the database; `view` is how far a call of `get_emergency_vault` has
come; `opened` holds the relations whose sealed key such a call has read. Time `now` is
finer than the clock of SQLite: `CurrentTimestamp` is `now` rounded down to a
multiple of `Resolution`, the whole second, which is what a text comparison of a stamp with a
fraction and `CURRENT_TIMESTAMP` amounts to (`repository.rs:1062`). The mapping
to the promise is at the end of the module: stage by status, and due time,
period and approval by the columns.

### 2.3 Session

A *grant* is what one answer of login or refresh carries: a refresh token and
an access token. It is `checked` when login has found the device trusted and
made the JWT, `cleared` when the old tokens of the device are deleted, `stored`
when the row is inserted, then `rotated` (exchanged) or `ended` (deleted); its
access token is accepted as long as `Accepts` holds, the comparison of whole
seconds in `middleware.rs:127`. Of a grant that is over only what concerns its
access token is kept.

The client has the tokens it shows itself signed in with (`holds`) and the
calls it may have in flight at once: a sign-in, the `GET /me` that ends one
(after which it sets its tokens a *second* time), one refresh (shared by all
requests answered 401), a sign-out. `Quit` closes the program at any point: its
tokens live in memory only. Server answers may be lost (`RefreshFails` after
`ServeRefresh`).

### 2.4 Keyring

The server stores sealed copies and never opens one, so the state is what was
sealed for which pair: `pairs` has the number of the public key of an account
and the vault key its private half is encrypted under, a share the pair it is
for and the version of the entry it says. A handler of a client is a record in
`op` that names the request it makes next. A device has several at work at once,
each in a *lane*: `SharedReceivedPage` starts the handlers of `SharedWithMeSettings`
and of `BlindSharesReceivedSettings` together, both of which begin with
`ensureEmergencyKeys`, and what a page started goes on after the user has left it
for another (`left`), its answers shown nowhere. Requests of no handler
(`reseedEntryShares`, `reseedAllContacts`, a bulk share) are records in `tasks`.
Each action is one request served, or the failure of one (`RequestFails`,
`TaskFails`), and what the client does with the answer before its next request.
So `HasEmergencyKeys` is the read whose failure `ensureEmergencyKeys` takes for
an absence (`emergencyAccess.ts:17-24`), and `EnsureEmergencyKeys` the pair it
then generates and stores. Nothing is shared between two calls of it, so one
desktop whose requests all succeed can store two pairs, and lose what was sealed
for the first in between. `replaced` records each pair that is overwritten with the
reason: the look for it failed, or it was stored after the look (`crossed`);
`LossHasCause` says that there is no third. `held` is the key of a foreign vault in the process
of the desktop (`EmergencyVaultKeyState`); `left` in an opening is the
`cancelled` of `EmergencyVaultPage.tsx`.

### 2.5 SharedVault

A request is a record with the statement the server executes next (`check`,
`write`, `tell`, `answer`) and with what the page knew when it was sent: the
version the form was opened with is both what the client tells the server to
expect and the text the edit was made from (`basis`). A load is two requests;
`last` is `seq === loadSeqRef.current`, which the extension does not have.
`BroadcastToMembers` reaches the sockets of who is a member when it looks; a
deletion tells before it deletes, an invitation never tells. An update of an entry
deleted since the check is answered and told like any other (`UpdateNoEntry`).

### 2.6 Client

A row holds what an edit writes whole, with a version of its own; `folder`
stands for the sealed fields. `loads` are reads page by page with an offset
(`getFullVault`), of which several may be under way; `reqs` single requests;
`job` an act on a selection, with those still to send (`allSettledWithLimit`).
`Tell` is the event to the sockets of the account. What a page changes before it
is answered, and puts back when refused, is in `Marked`, `ShowsAtOnce` and
`Refused`.

### 2.7 Accounts and Console

`Accounts` has one action for each page before sign-in, and for each handler one
for each statement that others can come before. `job` is the request a device waits
for, with what it has read; `mails` are the requests for another verification code,
whose button works beside the form. `Register`, `InsertUser` and `InsertCode` are
the three statements of `register`; `RequestPasswordReset` and `SendResetEmail`,
like the stages of `ResendVerificationEmail`, the reads before a code is issued and
its INSERT.

A code has an age (`new`, while no other may be sent; `ripe`; `late`) and a number
of attempts; whether a typed code is right is the question whether its reader reads
the mail of the address it was sent to (`Reads`), or is a guess that fails.
`Compare` is what a handler finds in the row it has read. What it then does to the
row is a statement of its own, which finds whatever is there by then:
`CountAttempt` charges a wrong guess, `DeleteLocked` deletes a code that is locked,
and both may hit a newer code. So guesses made at once are compared before any of
them is counted, and `attempts` has no bound but the number of devices;
`GuessesCounted` says that this is the only way past the limit. `guessed` is the
history of the comparisons that found a code and a wrong guess.

The races the order of statements leaves open are recorded and not forbidden.
`crossed.twice` holds the codes an answer read while another held them, or whose
account was renamed while one did: `verify_email` deletes the code of the account
that has the address *now*, so after a renaming it deletes nothing and the code
stays. `crossed.renamed` holds the codes whose account was renamed since they were
mailed: the code of an account follows it, and proves an address it was not sent
to. `moved` marks an answer to a second factor that has counted the devices and
was overtaken: by another device, by a lower cap, or by the revocation of its own
device, which the count took for one of the trusted. `UsesOverlap`,
`GuessesCounted`, `CapHolds` and `VerifiedProven` name these exceptions.

`Console` extends it: lists read at some time, acts chosen from a row of them,
`Authorize` (`check_can_act_on_target`) and then the write, by address. The two
share the accounts, so a renaming by the administrator meets a verification, a
second factor or a reset half-way; this is the composition the run checks. Its
initial states (`Starts`) are all the tables a stopped server can have left, with
any pages open and nothing under way; the run takes a few of them (`MCConsole`), the
proofs all.
Its panels, notes and settings of the server are the rest of the page.

### 2.8 Popup

`stored` is the session in the storage of the browser: a pair of tokens and
whether its time to lock is over. A call goes through `GetActiveSession` (it reads)
and `WriteStored` (it writes back what it read, with a new time), or `ClearOver`
when what it read was over; it is sent, and when refused asks for a pair: `flight`
is `refreshInFlight`, one per window, as each window has its own JavaScript. An
attempt begins (`RefreshAccessTokenOnce`), reads the storage again (`ReadStored`),
and only then asks. `crossed` records the crossings past which a session may be
lost: a call that writes back a session that was changed since, a call that clears
one that is open again, a call that outlives the end of a session or the sign-in
after it, two windows that exchange the same token.

## 3. Runs

| run | configuration | expects | properties |
|---|---|---|---|
| `vault_rekey` | `VaultRekey.cfg` | pass | `TypeOK` `KeyInv` `SessionInv` `KeyChangeComplete` |
| `vault_requests` | `VaultRequests.cfg` | pass | `NoOrphans` `HistoryRetention` `ActiveSurvives` |
| `vault_recovery` | `VaultRecovery.cfg` | pass | `KeyChangeComplete` |
| `vault_email` | `VaultEmail.cfg` | violation | `HolderCanSignIn` |
| `emergency` | `Emergency.cfg` | pass | `TypeOK` `OnePerPair` `DemandInv` `KeepsPromise` `DemandAnswered` |
| `emergency_clients` | `EmergencyClients.cfg` | violation | `DemandAnswered` |
| `session` | `Session.cfg` | pass | `TypeOK` `RevokedRefused` `OneTokenPerLogin` `RevocationEnds` `HoldsFresh` |
| `keyring` | `Keyring.cfg` | pass | `TypeOK` `UsesWithinGrant` `LossHasCause` `HeldIsShown` `SealsSettle` |
| `shared_vault` | `SharedVault.cfg` | pass | `LostOnlyByRace` `RemovedStaysOut` `PagesSettle` |
| `client` | `Client.cfg` | pass | `TypeOK` `TextKept` `BulkDone` `ViewSettles` |
| `accounts` | `Accounts.cfg` | pass | `TypesOK` `UsesOverlap` `GuessesCounted` `CapHolds` `VerifiedProven` `HierarchyHeld` `AddressFrees` |
| `popup` | `Popup.cfg` | pass | `WaitsEnd` `DroppedForCause` `StaysLocked` |

Run one with `tlc -config VaultRekey.cfg MCVault`. The modules to give are
`MCVault`, `Emergency`, `MCSession`, `MCKeyring`, `MCSharedVault`, `MCClient`,
`MCConsole` and `Popup`. `PROJECT.json` also names,
for every property of a passing run, a *mutant*: a variant of one definition, a
bug that could be in that code, under which the same run finds the property
violated. The variants stand beside the definitions they vary, each with a
comment that starts with the word Variant; no action uses them.

### 3.1 Bounds, and why they are enough

- `VaultRekey`: two devices, one entry, one file, two passwords, every quota 1,
  versions up to 1, one request in flight; inserts, files, deletions, restores
  and changes of password. Two devices and two passwords are what a race of two
  changes needs, and one entry with one file already has every pairing of an
  item and a step of the change. The item may be read or missed, in the trash
  or active, before and after.
- `VaultRequests`: two devices, two entries, one file, versions up to 3, two
  requests in flight, an archive of one. Two requests that passed `AuthUser` are
  the smallest race of handlers; three versions overflow the archive.
- `VaultRecovery`: one device that goes on working while one recovery or reset
  goes on without a session; two addresses.
- `VaultEmail` needs one device and two addresses.
- `Emergency`: two accounts that may each be the owner, two relations, a
  waiting period of 1, a clock of resolution 2, calls delayed by at most 1
  (`MaxLag`), time up to 3. `EmergencyClients` takes one relation, and periods
  of 0 and 2.
- `Session`: two devices, three tokens, two seconds, calls in progress at one
  client at a time and one socket with an event on the way (`MaxBusy`); the
  clock moves on only from a second in which something was issued or revoked. Three tokens are a sign-in, its rotation and a
  second sign-in; two seconds tell "the same second" from "later".

- `Keyring`: an owner and a recipient, each with a desktop and an extension; a
  desktop has two lanes, an extension one, so that a pair may be made twice on one
  device or on two. One entry, one blind share of two uses, one relation; two acts
  of users, two pairs, two vault keys, two versions. The acts come on top of where
  the run starts: from the empty tables; with the dialogs of the owner open and no
  pair yet (`Fresh`); or with everything sent once (`Warm`) and a handler still at
  work that a page since closed has left behind. An act is a page or a button, and
  each brings several requests, a visit of the received page two handlers.
- `SharedVault`: an account on a desktop and one in the extension, each the
  owner in one of the two states the run starts from; one vault, two entries,
  two acts (a closed socket is one), three versions. Two edits are the smallest
  race, and each act has several requests and loads.
- `Client`: a desktop and an extension of one account, two entries, two folders,
  pages of one entry and batches of one request, so that two entries already
  take two of each; two acts or losses.
- `Accounts`: two people, three devices, three addresses of which one belongs to
  the administrator and one is typed by both, three accounts, two codes, one
  attempt, three acts of the administration. With one attempt, two devices that guess
  at once already pass the limit. Each behaviour starts in one of
  nine situations and is offered the operations of two or three devices
  (`Offer`): together they cover every operation, and in each the ones that can
  meet. Without the situations the product of all pages is out of reach.
- `Popup`: two windows, two calls in all, three pairs of tokens, one fault. Two
  calls may be in one window or one in each; three pairs are a sign-in, a
  renewal and a second sign-in.

The states `MCKeyring`, `MCSharedVault`, `MCClient` and `MCConsole` start from
are a few operations away from the empty tables, and the runs of the first three
start from the empty tables as well.

`Offered` (which requests a run makes), `offers`, `MaxOps`, `MaxActs`, `MaxPairs`,
`MaxKeys`, `MaxIds`, `MaxId`, `MaxCode`, `MaxCalls`, `MaxPair`, `MaxFaults`,
`MaxVersion`, `MaxInFlight`, `MaxBusy`, `MaxLag`,
`MaxTime`, `VersionBound` and the sets of identifiers are bounds of the model.
`MaxEntries`, `MaxPerEntry`, `MaxFiles`, `MaxHistory`, `MaxImport`,
`MaxContacts`, `MaxShares`, `MaxVaults`, `MaxMembers`, `MaxTries`, `PageSize` and
`Limit` are limits of the program, with smaller values. Symmetry is used
in runs that check safety only. `CHECK_DEADLOCK FALSE` stands in the
configurations whose behaviours really end: the clock of `Emergency` stops, and
users of `Keyring`, `SharedVault`, `Client`, `Accounts` and `Popup` have done all
the acts the bounds give them and every request is answered.

### 3.2 Fairness

`Emergency`, `Keyring`, `SharedVault`, `Client` and `Accounts` have liveness
properties.

In `Emergency`, `FairSpec` assumes that time passes;
that a demand waiting for the database is executed, and a call that began goes
on, as long as nothing ends it; that the contact's client calls for the vault
as long as it offers to; and, strongly, that a contact who calls again and
again is not cut off each time before `maybe_auto_grant`. The server gives the
first four (a task of axum runs to its end unless the connection drops); the
last says that connections do not drop for ever. Nothing is assumed of the
owner.

`Consulted` is the set of statuses in which the client offers the vault. The
clients of the repository offer it once access is granted
(`EmergencyAccessSettings.tsx:348`, the extension's `EmergencyAccessView.tsx:224`),
which is the run `emergency_clients`, where the demand is never answered. The
passing run gives the client the status `access_requested` as well: it shows
that the server's half is right, that a contact that does call is given its
answer however the clock rounds.

In `Keyring`, `SharedVault` and `Client`, fairness is weak and is about requests,
loads, batches and timers that have begun: each is answered or fails (a lost
answer is a failure, which the client's `fetch` reports), and a timer fires.
Nothing is assumed of users, nor that a socket opens again; the settling
properties excuse a desktop that missed an event. In `Accounts` only the task
that deletes unverified accounts, and their growing old, are fair: `main.rs`
starts that task with the server and repeats it for ever.
`Popup` has no fairness: what a waiting call needs is stated as an invariant,
that an attempt is under way.

## 4. Proofs

Checked with `tlapm` (SMT and Zenon for the steps, LS4 for the temporal rule).
Everything below holds for every value of the constants that the named
assumptions at the head of the component's module allow (`AccountAssumption`;
`TimeAssumption` and `CapAssumption`; `SessionAssumption`; `KeyringAssumption`;
`SharedVaultAssumption`; `ClientAssumption`; `AccountsAssumption` and
`ConsoleAssumption`; `PopupAssumption`): any sets of
devices, entries, files, tokens, accounts, relations, vaults and calls, any
quotas and caps, any waiting periods and clock resolution. They ask for little: that markers are
not values, that numbers are numbers, that the first key is a key, that what is
counted (devices, identifiers) is finite.

| theorem | property | says |
|---|---|---|
| `VaultProofs!TypeCorrect` | `TypeOK` | types |
| `VaultProofs!SessionsCurrent` | `SessionInv` | no session or accepted request outlives the key, except one that was already past its check |
| `VaultProofs!NothingOrphaned` | `NoOrphans` | archives and files belong to an entry |
| `VaultProofs!CiphertextsOpen` | `KeyInv` | what is stored opens under the present key, but for the two ways named |
| `VaultProofs!KeyChangeIsComplete` | `KeyChangeComplete` | a change of key reaches everything active, and removes the kit |
| `VaultProofs!ActiveEntriesSurvive` | `ActiveSurvives` | only a reset destroys an active entry |
| `VaultProofs!HistoryCapped` | (`HistoryInv`) | the archive of an entry holds former passwords only, and never more than the cap |
| `VaultProofs!HistoryRetained` | `HistoryRetention` | an archived password goes with its entry, or when the cap of newer ones is kept |
| `EmergencyProofs!EmergencyTypes` | `TypeOK` | types |
| `EmergencyProofs!DemandsFound` | `DemandInv` | a demand has a sealed key, and the deadline of its own call |
| `EmergencyProofs!PairsAndCap` | `OnePerPair` | one relation for a pair, and never more than the cap, the real 50 included |
| `EmergencyProofs!PromiseKept` | `KeepsPromise` | `Emergency` implements `EmergencyPromise` |
| `SessionProofs!SessionTypes` | `TypeOK` | types |
| `SessionProofs!RevokedAreRefused` | `RevokedRefused` | seconds do not let an ended access token through |
| `SessionProofs!RotationNeverForks` | `OneTokenPerLogin` | one live refresh token for a sign-in |
| `SessionProofs!RevocationsEnd` | `RevocationEnds` | a revocation ends every session but one it was overtaken by |
| `SessionProofs!TokensHeldAreFresh` | `HoldsFresh` | with no refresh in flight a client holds no exchanged token, but for one set again by the end of a sign-in |
| `KeyringProofs!TypesHold` | `TypeOK` | types |
| `KeyringProofs!HeldKeyIsShown` | `HeldIsShown` | a foreign vault key that still opens something is behind its page, or an opening is about to decrypt with it |
| `KeyringProofs!GrantIsKept` | `UsesWithinGrant` | a blind share hands out what it loses, never more than was granted |
| `KeyringProofs!LossIsCaused` | `LossHasCause` | a sealed copy is lost by a failed look for the pair, or by a handler that looked before the pair was stored and wrote after, on the same device or another |
| `SharedVaultProofs!TypeCorrect` | | types |
| `SharedVaultProofs!LostOnlyByRaceHolds` | `LostOnlyByRace` | edits are lost in the server's window only |
| `SharedVaultProofs!RemovedStaysOutHolds` | `RemovedStaysOut` | who was removed writes nothing with a later request |
| `ClientProofs!TypesHold` | `TypeOK` | types |
| `ClientProofs!EditsKeepText` | `TextKept` | an edit writes over a text only if it was made from it |
| `ClientProofs!SelectionDone` | `BulkDone` | an undisturbed act on a selection does what it says to every entry |
| `ConsoleProofs!TypesHold` | `TypesOK` | types, with no bound on the guesses counted; one account for an address, no code without an account |
| `ConsoleProofs!CodeServesOnce` | `UsesOverlap` | a code is honoured once, but for two answers that held it, or a renaming while one did |
| `ConsoleProofs!GuessesAreCounted` | `GuessesCounted` | wrong guesses pass the limit only together, before any of them is counted, but for a renaming |
| `ConsoleProofs!CapIsHeld` | `CapHolds` | the cap on devices, but for an answer overtaken after it counted |
| `ConsoleProofs!ProvenAddress` | `VerifiedProven` | only a code mailed to the address verifies it, but for a renaming since |
| `ConsoleProofs!HierarchyIsHeld` | `HierarchyHeld` | nobody acts on the administrator, only the administrator on a moderator |
| `PopupProofs!TypeCorrect` | | types |
| `PopupProofs!WaitsEndHolds` | `WaitsEnd` | a waiting call has an attempt to wait for |
| `PopupProofs!StaysLockedHolds` | `StaysLocked` | a locked session comes back only through a sign-in or a call that had read it open |
| `PopupProofs!DroppedForCauseHolds` | `DroppedForCause` | an honoured session is dropped only by a sign-out, a lost answer or a crossing |

**Vault.** `IInv == TypeInv /\ SessionInv /\ NoOrphans /\ KeyInv`. The conjuncts
need each other in one direction: that a ciphertext written by a request opens
needs that the request works under the present key or is marked late
(`SessionInv`), and that a change of key reaches every archived password and
file needs that each belongs to an entry (`NoOrphans`): the comparison of
identifiers is about what exists, so `ReencryptReaches` shows from the guard
`Covers` and the types that nothing in the vault keeps its former key unless it
is in the trash. The preservation lemmas are one for each conjunct, with a step
for each action that can disturb it; `KeyChangeComplete` and `ActiveSurvives` follow
from the invariant and the definition of the commits.

The archive needs its finiteness and that it has one password of a version
(`ArchiveInv`), since `Cardinality` says nothing of an infinite set. `NewestBound` is
the lemma of the pruning (`DELETE ... NOT IN (SELECT ... ORDER BY ... LIMIT 20)`):
the number of newer passwords tells those kept apart, so it is an injection into
`0 .. n - 1`. `HistoryRetained` then says who is dropped: one with a full cap of
newer ones beside it.

**Emergency.** `IInv == TypeOK /\ FreshInv /\ BlankInv /\ DemandInv`: demands on
their way were stamped at most `MaxLag` ago (`FreshInv`), a relation that was
never made is a blank row and one that lives has a period its owner chose
(`BlankInv`). The refinement `StepRefines` maps every
handler to a step of the promise or to a stutter; the one interesting case is
`MaybeAutoGrant`, where the comparison with SQLite's clock implies the
promise's comparison with the true one, since the former is never ahead
(`TimestampBehind`). `PairsAndCap` has an invariant of its own, which carries
the finiteness of an owner's relations along so that they can be counted.

**Session.** The properties are about refresh tokens that are *stored*, but
login stores a token without looking again at what happened since its check.
So the invariant speaks of the *standing* grants, stored or about to be
(`LoginInv`, `StandingInv`), and `TimeInv` orders issue and revocation times
by the clock: `IInv == TypeOK /\ TimeInv /\ LoginInv /\ StandingInv`.

`HoldsFresh` has an invariant of its own, `HolderInv`, about the six places in which
the calls of a client keep a token (`Refs`). Two clients never refer to the same
one, so only a client exchanges its own, and it does so with a refresh in flight
(`CallsInv`); the answer of a refresh is a token nobody has exchanged. The one
second setting of a token is the continuation of a sign-in (`restored`).

**Keyring.** Each flow is a chain of requests, and what one of them may rely on was
learnt by an earlier one. So the types are already most of the work: `OpShape` says
of each handler, at each of its requests, what it knows and how old the key it read
can be. `HeldIsShown` needs it in full (`HeldShape`): a key held by the process is
behind its page, about to be used by an opening that then closes it, or former,
whatever number of openings a device has under way. `LossHasCause` speaks of what is stored,
its invariant also of what is *about* to be (`SealsInv`: handlers and background
tasks at their last request) and of who is about to generate a pair (`MakersInv`):
the read of each failed, or it finds at its write no pair, or one stored since it
looked (`seen`). `Progress` is the one description of a step of a handler all
these steps share.

**SharedVault.** `LostOnlyByRace` speaks of the past, so the invariant `Edits`
speaks of the edits under way: one that is at its write expects the version
stored, or has been told (`raced`) that another was written since. It holds
because the form's version is what the request expects and what the text was
made from (`EditOK`), because rows that go keep their version (`GoneType`), and
because a request passes from comparison to write in one step of its own.
`RemovedStaysOut` follows from two facts: who was removed is no member (`Away`),
and no request at its write was sent by somebody removed (`Outs`).

**Client.** Everything a page, a load, a request or an act holds is a copy of a row.
`CopiesInv` says how it relates to the row: it is not from the future, and with the
version of the row it has its text (`Faithful`). That is what the server's comparison
of versions needs, and `TextKept` follows. Since versions only grow and a text
changes only with its version (`Grown`), a step of the server spoils no copy, however
old. `BulkDone` needs to say of each entry of an act in which stage it is, to come,
asked for, refused or as wanted, and of a favourite, which can only be inverted, that
it is asked for once and is not as wanted until then (`StagesInv`).

**Accounts and Console.** One invariant for both modules, since the acts of one
write the accounts of the other: `AccountInv /\ ConsoleInv`. A handler writes after it
has read, so the invariant says what it may still rely on: the code it holds is in
the slot it was read from, or nowhere (`HoldInv`); the devices it counted are no
more (`CapInv`); the address it was given is the one its code was mailed to
(`ProofInv`); once a code was honoured it is nowhere (`UseInv`). Each has the
exception a history variable names. The steps are grouped by what they do to codes
and requests, with a lemma for each group: nothing (`Calm`), a code issued, a
code compared, a guess counted, a code honoured or deleted. `GuessesCounted` has an
invariant on top (`GuessInv`): the guesses made at a code are those counted in its
row and those on their way there (`Guessing`), so that whoever finds it below the
limit is one of at most as many as the limit and those. `HierarchyHeld` needs that an act let
through names another address than the administrator's, so that whoever has this
address is not the administrator, and came from the administrator if its check saw a
moderator (`AllowedInv`).

**Popup.** `WaitsEnd` needs that an attempt ends for all the calls that share it
in the step that ends it, and that closing a window ends both. `StaysLocked`
needs, beside the types, that what a call is about to write back was read open,
or was given by a sign-in; a call that read a session that was over only clears. `DroppedForCause` has an invariant for the *plain*
behaviours, in which nothing was lost and nothing crossed (`PlainInv`): a call under
way has no pair newer than the one stored, and a newer one that is stored is
accepted (`CallKnows`); one attempt at a time is past its reading of the storage, it
asks with what is stored and what it got is newer than all else (`FlightKnows`); and a call that is about to
drop the session does so only when it is `Hopeless`, when the server honours neither
what is stored nor what is asked with. A step that leaves the plain behaviours owes
nothing but `Given`, that nobody holds a pair the server has not given.

Left to model checking are the liveness properties, `DemandAnswered`, `SealsSettle`,
`PagesSettle`, `ViewSettles` and `AddressFrees`: fairness and ENABLED are beyond the
prover. Every invariant and every action property a passing run checks is a theorem, and
`HistoryInv` is one that no run checks.
No module needs recursion.

## 5. What was found

Two disagreements between the code and its words have a run that expects the
violation, with the line it contradicts quoted in `PROJECT.json`.

1. `vault_email`: changing the address leaves the stored hash, whose salt is the
   former address. The holder derives another hash, and another vault key.
2. `emergency_clients`: the automatic grant happens in a call the clients make
   only once access is granted.

The others met while modelling are stated as definitions in the modules, which
no configuration lists. To see one, put its name in a configuration of the same
module in place of the properties; each gives its counterexample in seconds.

| definition | what the code does |
|---|---|
| `Vault!TrashRecoverable` | an entry in the trash when the key changes can be restored and not decrypted; `KeyInv` names this by `past` |
| `Vault!CollectionCoversFiles` | an entry with a file in the trash makes every change of master password fail: the server asks for a file the client does not collect |
| `Vault!ActiveReadable` | a write accepted before a change of key and executed after it is stored under the former key; `KeyInv` names this by `late` |
| `Session!SignedOutStays` | a continuation in flight (`AuthContext.tsx:274`) signs a signed-out client in again |
| `Session!EventSparesLive` | revoking one device signs out the clients of the others, which `devices.rs:74-83` says reconnect |
| `Keyring!SealedSurvivesRekey` | a change of master password leaves the private half of the pair under the former vault key: whatever was shared with the account opens no more, against `entrySharing.ts:8-12` and `72-73` |
| `Keyring!RevokedStays` | a copy sealed again in the background (`entrySharing.ts:75-83`) restores a share revoked in the meantime |
| `Keyring!LeavingCloses` | a foreign key may outlive its page, but only one that opens nothing any more (`HeldIsShown`) |
| `SharedVault!NoLostUpdate` | two edits from one version are both accepted, the server comparing both before it writes either (`repository.rs:1566`); `LostOnlyByRace` names this by `raced` |
| `SharedVault!ListFollows` | the open list is not told of an invitation, and is told of a deletion before it happens (`shared_vault.rs:79`), against `SharedVaultsPage.tsx:44-46` |
| `Client!FavoriteKept` | an edit writes back the favourite mark its row had: `toggle_favorite` (`repository.rs:559`) does not count as a version |
| `Client!FailureTold` | the message of an act that partly failed is cleared by the reload that follows it (`Vault.tsx:576-581`) |
| `Accounts!RegisteredCanVerify` | when the answer to a registration is lost, no page leads to the code again until the account is purged |
| `Console!IpHistoryOfShown` | the panel of addresses shows the answer for another account when it was turned to a new one (`Admin.tsx:305`) |
| `Popup!KeptWhileHonoured` | a call writes back the session it had read over a renewed one (`session.ts:101`), and the next is refused: the master password is asked for while the server honours the session |

All the properties of the passing runs hold. Where one names an exception (`past`,
`late`, `restored`, `raced`, `crossed`, `spoiled`, `moved`, a cause in
`replaced`), the exception is one of the rows above or a race the code has by its
order of statements, and the property says that there is no other.

## 6. Limits

- The cryptography is perfect and its formats are left out: a ciphertext is
  named by its key. Requests, tokens and codes are not forged or guessed.
- A request that the server drops (a crash, a broken connection) is a refusal
  before its step or a lost answer after it; SQLite's journal makes a
  transaction whole. There is no crash in the middle of one.
- Not in `Vault`: usage counters, `check_sync`, quotas changed by an
  administrator; favourites and the pages of `get_vault` are in `Client`. One
  recovery at a time. An edit made on another device after the export of a change of
  password and before its commit is overwritten by the text that was exported
  (`update_password` compares identifiers, not versions); which text is lost there
  is not told apart, so no property of `Vault` sees it.
- Not in `Session`: codes and the cap on devices, which are in `Accounts`; a
  device that is not trusted can only become so; the lock after failed sign-ins.
- Not in `Emergency`: which key a sealed key opens, which is in `Keyring`. The
  waiting period is one of `Waits`; the server admits 0 to 90 days. A demand with
  a period of 0 is granted from the next tick of SQLite's clock on.
- Not in `Keyring`: the life of an emergency relation, taken as granted; the
  stored copies a recipient might have kept. A button is disabled while what it
  started on this page is at work (`Busy`), which is a little less than the code
  does: `busyId` of a list is one for all its rows. The two halves of the
  extension's received page start one after the other, in either order.
- Not in `SharedVault`: keys, taken to open; the extension's confirmations.
- Not in `Client`: search and sorting (a selection is any set of shown rows), the
  search box that hides rows, duplication (an addition), import and export.
- Not in `Accounts`: rate limits, Tailscale and proxies; addresses are compared
  as they are, already normalised. The second factor and the reset look up the
  identifier of the account in a statement before the code's row: the two are one
  step, as are the look at the trusted devices and the INSERT of the code in a
  sign-in. Two requests for a code may both pass the pause between two mails
  (`ResendVerificationEmail`); no property is about the number of mails. People
  wait for an answer before they leave a page.
- Not in `Popup`: autofill and the content script, the setting of the lock's
  length, the theme. The first screen reads the session and clears it in one step
  (`App`), where a call takes two.

### Not modelled

- *The server's half of synchronisation* (`sync.rs`): tickets, the counter of
  connections and its guard, lag of the broadcast channel, shutdown. Clients are
  modelled with events that arrive or not, which is all the other modules need.
- *Automatic lock and quick unlock of the desktop*: they end a session as a
  sign-out does, and what is in flight then is in `Session`.
- *Themes, generators, TOTP, breach check, formats of import and export, search,
  strength of passwords*: functions of their input or a row of settings; nothing
  in them interleaves.
- *Mail, geolocation, health, configuration, backups*: input and output.

## 7. Plan

In the order of importance.

| module | aims at |
|---|---|
| `Sync` | tickets, the guard of connections, lag, change of address: the counter is the number of sockets |
| `Lock` | automatic lock and quick unlock: no key in memory after a lock, whatever was in flight |
| `SharedVault` | the safety part of `PagesSettle`: a page whose last load has ended, with no event since, shows what was stored at the time of the load |
| `Client` | the same of `ViewSettles`, within a read of one page |

The safety parts of the last two would be theorems, and leave to the runs only that
loads end.
