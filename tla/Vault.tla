------------------------------- MODULE Vault -------------------------------
(***************************************************************************)
(* One account of the password manager: the ciphertexts the server stores  *)
(* for it, the key each is encrypted under, and every operation that       *)
(* writes a ciphertext or changes the key.                                 *)
(*                                                                         *)
(* The server never holds a key.  A client derives the vault key and the   *)
(* authentication hash from the e-mail address and the master password, so *)
(* a key is the pair of the two, and the account's stored password_hash    *)
(* stands for the key whose holder can sign in.  Changing the key takes a  *)
(* collection of all the ciphertexts, their re-encryption on the client    *)
(* and one database transaction; other devices keep working meanwhile.     *)
(*                                                                         *)
(* A request passes the AuthUser check (Accept) and reaches the database   *)
(* later (one Commit action per handler); a transaction is one step.       *)
(***************************************************************************)
EXTENDS Naturals, FiniteSets

CONSTANTS
    Devices,          \* installations of the client
    Entries,          \* identifiers of vault rows, never reused (UUIDs)
    Attachments,      \* identifiers of attached files, never reused
    Emails, Passwords,
    InitialEmail, InitialPassword,
    MaxEntries,       \* entry quota, and the LIMIT of an export
    MaxPerEntry,      \* files per entry
    MaxFiles,         \* files per account
    MaxHistory,       \* archived passwords kept per entry
    MaxImport,        \* bound: entries in one import
    VersionBound,     \* bound: edits of one entry
    MaxInFlight,      \* bound: requests between AuthUser and the database
    Offered,          \* bound: the operations a configuration exercises
    NoKey, NoRequest, NoWork, Unread   \* markers for "none"

Key == Emails \X Passwords

ASSUME AccountAssumption ==
    /\ InitialEmail \in Emails /\ InitialPassword \in Passwords
    /\ NoKey \notin Key
    /\ MaxHistory \in Nat \ {0}

VARIABLES
    email,          \* users.email
    password_hash,  \* users.password_hash: the key whose hash is stored
    code,           \* a reset code is outstanding (tfa_codes)
    kit,            \* users.recovery_sealed_vault_key: the key it seals
    vault,          \* table vault
    history,        \* table vault_password_history
    files,          \* table vault_attachments
    session,        \* per device: sign-in progress, and the key in memory
    pending,        \* per device: a request past AuthUser, not yet executed
    rekey,          \* per device: a change of master password in progress
    recovery,       \* a recovery with the kit in progress
    reset           \* a reset past its code check: the key it will install

stored == <<kit, vault, history, files>>
vars == <<email, password_hash, code, kit, vault, history, files,
          session, pending, rekey, recovery, reset>>

(***************************************************************************)
(* A ciphertext carries the key that opens it.  The ghost field past tells *)
(* why it may be under a key of the past: it was written by a request      *)
(* accepted before a change of key ("late"), or lay in the trash during    *)
(* one ("skipped").  The field text is the version whose text the row has. *)
(***************************************************************************)
Past == {"no", "late", "skipped"}
PastOf(late) == IF late THEN "late" ELSE "no"

Row == [state : {"unused", "active", "trash", "gone"}, key : Key \cup {NoKey},
        past : Past, version : Nat, text : Nat]

BlankRow(state) == [state |-> state, key |-> NoKey, past |-> "no",
                    version |-> 0, text |-> 0]

File == [state : {"unused", "stored", "gone"}, entry : Entries \cup {NoKey},
         key : Key \cup {NoKey}, past : Past]

BlankFile(state) == [state |-> state, entry |-> NoKey, key |-> NoKey,
                     past |-> "no"]

Archived == [entry : Entries, version : Nat, key : Key, past : Past]

Kit == [key : Key \cup {NoKey}, past : Past]
NoKit == [key |-> NoKey, past |-> "no"]

Session == [phase : {"none", "verified", "open"}, key : Key \cup {NoKey},
            late : BOOLEAN]
NoSession == [phase |-> "none", key |-> NoKey, late |-> FALSE]

Call ==
    [op : {"insert"}, count : Nat]
    \cup [op : {"update"}, entry : Entries, expected : Nat, archive : BOOLEAN]
    \cup [op : {"attach", "delete", "restore", "purge"}, entry : Entries]
    \cup [op : {"delete_file"}, file : Attachments]
    \cup [op : {"save_kit", "delete_kit", "update_email"}, email : Emails]

Request == [call : Call, key : Key, late : BOOLEAN]

Copy == [id : Entries, text : Nat]      \* an exported and decrypted entry

Work == [stage : {"collecting", "submitted"}, key : Key, target : Key,
         entries : (SUBSET Copy) \cup {Unread}, withFiles : SUBSET Entries,
         history : (SUBSET [entry : Entries, version : Nat]) \cup {Unread},
         files : (SUBSET Attachments) \cup {Unread}]

TypeOK ==
    /\ email \in Emails
    /\ password_hash \in Key
    /\ code \in BOOLEAN
    /\ kit \in Kit
    /\ vault \in [Entries -> Row]
    /\ history \in SUBSET Archived
    /\ files \in [Attachments -> File]
    /\ session \in [Devices -> Session]
    /\ pending \in [Devices -> Request \cup {NoRequest}]
    /\ rekey \in [Devices -> Work \cup {NoWork}]
    /\ recovery \in Work \cup {NoWork}
    /\ reset \in Key \cup {NoKey}

Init ==
    /\ email = InitialEmail
    /\ password_hash = <<InitialEmail, InitialPassword>>
    /\ code = FALSE
    /\ kit = NoKit
    /\ vault = [e \in Entries |-> BlankRow("unused")]
    /\ history = {}
    /\ files = [f \in Attachments |-> BlankFile("unused")]
    /\ session = [d \in Devices |-> NoSession]
    /\ pending = [d \in Devices |-> NoRequest]
    /\ rekey = [d \in Devices |-> NoWork]
    /\ recovery = NoWork
    /\ reset = NoKey

Active == {e \in Entries : vault[e].state = "active"}
Trash == {e \in Entries : vault[e].state = "trash"}
StoredFiles == {f \in Attachments : files[f].state = "stored"}
FilesOf(e) == {f \in StoredFiles : files[f].entry = e}

(***************************************************************************)
(* Sessions                                                                *)
(***************************************************************************)

\* A collection runs inside the signed-in page; it does not survive the
\* session.  A submitted change does: the server no longer needs the client.
DropCollection(d) ==
    rekey' = [rekey EXCEPT ![d] =
                IF @ # NoWork /\ @.stage = "collecting" THEN NoWork ELSE @]

\* Variant: the key is derived with its two inputs exchanged.
LoginVerifySwapped(d) ==
    /\ session[d].phase = "none"
    /\ password_hash[1] = email
    /\ session' = [session EXCEPT ![d] =
                     [phase |-> "verified", late |-> FALSE,
                      key |-> <<password_hash[2], password_hash[1]>>]]
    /\ UNCHANGED <<email, password_hash, code, stored, pending, rekey, recovery, reset>>

\* login: the account is looked up by the e-mail typed, and the hash derived
\* from that e-mail and the password typed must match the stored one.
LoginVerify(d) ==
    /\ session[d].phase = "none"
    /\ password_hash[1] = email
    /\ session' = [session EXCEPT ![d] =
                     [phase |-> "verified", key |-> password_hash, late |-> FALSE]]
    /\ UNCHANGED <<email, password_hash, code, stored, pending, rekey, recovery, reset>>

\* login, last part: the tokens are issued, without another look at the hash.
LoginIssue(d) ==
    /\ session[d].phase = "verified"
    /\ session' = [session EXCEPT ![d].phase = "open"]
    /\ UNCHANGED <<email, password_hash, code, stored, pending, rekey, recovery, reset>>

\* logout, expiry of the tokens, or a sign-in that fails after the check.
EndSession(d) ==
    /\ session[d].phase # "none"
    /\ session' = [session EXCEPT ![d] = NoSession]
    /\ DropCollection(d)
    /\ UNCHANGED <<email, password_hash, code, stored, pending, recovery, reset>>

(***************************************************************************)
(* Requests                                                                *)
(***************************************************************************)

\* What a signed-in client may ask for.  An edit carries the version read, or, from
\* an old client, none (0); a change of address is accepted only with the account's
\* present hash.
ClientCalls(d) ==
    {[op |-> "insert", count |-> n] : n \in 1..MaxImport}
    \cup {[op |-> "update", entry |-> e, archive |-> a, expected |-> IF old THEN 0 ELSE vault[e].version] :
             e \in Active, a \in BOOLEAN, old \in BOOLEAN}
    \cup {[op |-> o, entry |-> e] : o \in {"attach", "delete"}, e \in Active}
    \cup {[op |-> o, entry |-> e] : o \in {"restore", "purge"}, e \in Trash}
    \cup {[op |-> "delete_file", file |-> f] : f \in StoredFiles}
    \cup {[op |-> o, email |-> email] : o \in {"save_kit", "delete_kit"}}
    \cup {[op |-> "update_email", email |-> m] :
             m \in {n \in Emails \ {email} : session[d].key = password_hash}}

Accept(d) ==
    /\ session[d].phase = "open"
    /\ pending[d] = NoRequest
    /\ Cardinality({x \in Devices : pending[x] # NoRequest}) < MaxInFlight
    /\ \E c \in ClientCalls(d) :
         /\ c.op \in Offered
         /\ pending' = [pending EXCEPT ![d] =
                          [call |-> c, key |-> session[d].key, late |-> session[d].late]]
    /\ UNCHANGED <<email, password_hash, code, stored, session, rekey, recovery, reset>>

Asks(d, op) == pending[d] # NoRequest /\ pending[d].call.op = op

Done(d) == pending' = [pending EXCEPT ![d] = NoRequest]

account == <<email, password_hash, code, session, rekey, recovery, reset>>

\* The server refuses the call, cannot get the database lock, or stops
\* before the transaction commits: nothing is written.
Refuse(d) ==
    /\ pending[d] # NoRequest
    /\ Done(d)
    /\ UNCHANGED <<account, stored>>

\* add_to_vault, import_vault
CommitInsert(d) ==
    /\ Asks(d, "insert")
    /\ LET r == pending[d]
           new == [state |-> "active", key |-> r.key, past |-> PastOf(r.late),
                   version |-> 1, text |-> 1]
       IN \E ids \in SUBSET {e \in Entries : vault[e].state = "unused"} :
            /\ Cardinality(ids) = r.call.count
            /\ Cardinality(Active) + r.call.count <= MaxEntries
            /\ vault' = [e \in Entries |-> IF e \in ids THEN new ELSE vault[e]]
    /\ Done(d)
    /\ UNCHANGED <<account, kit, history, files>>

\* archive_password_history: the row keeps the MaxHistory newest.
Newer(h, rows) == {g \in rows : g.entry = h.entry /\ g.version > h.version}

\* Variant: the cap is applied to the account, not to the entry.
ArchivePerAccount(e) ==
    LET old == [entry |-> e, version |-> vault[e].version, key |-> vault[e].key,
                past |-> vault[e].past]
        rows == history \cup {old}
    IN {h \in rows : Cardinality({g \in rows : g.version > h.version}) < MaxHistory}

Archive(e) ==
    LET old == [entry |-> e, version |-> vault[e].version, key |-> vault[e].key,
                past |-> vault[e].past]
        rows == history \cup {old}
    IN {h \in rows : h.entry = e => Cardinality(Newer(h, rows)) < MaxHistory}

\* update_vault_entry
CommitUpdate(d) ==
    /\ Asks(d, "update")
    /\ LET r == pending[d]
           e == r.call.entry
           next == vault[e].version + 1
       IN /\ vault[e].state = "active"
          /\ r.call.expected \in {0, vault[e].version}
          /\ vault[e].version < VersionBound
          /\ history' = IF r.call.archive THEN Archive(e) ELSE history
          /\ vault' = [vault EXCEPT ![e] =
                         [state |-> "active", key |-> r.key, past |-> PastOf(r.late),
                          version |-> next, text |-> next]]
    /\ Done(d)
    /\ UNCHANGED <<account, kit, files>>

\* Variant: the entry is not looked up.
CommitAttachAnywhere(d) ==
    /\ Asks(d, "attach")
    /\ \E f \in Attachments :
         /\ files[f].state = "unused"
         /\ files' = [files EXCEPT ![f] =
                        [state |-> "stored", entry |-> pending[d].call.entry,
                         key |-> pending[d].key, past |-> PastOf(pending[d].late)]]
    /\ Done(d)
    /\ UNCHANGED <<account, kit, vault, history>>

\* add_vault_attachment
CommitAttach(d) ==
    /\ Asks(d, "attach")
    /\ LET r == pending[d]
           e == r.call.entry
       IN /\ Cardinality(FilesOf(e)) < MaxPerEntry
          /\ Cardinality(StoredFiles) < MaxFiles
          /\ vault[e].state = "active"
          /\ \E f \in Attachments :
               /\ files[f].state = "unused"
               /\ files' = [files EXCEPT ![f] =
                              [state |-> "stored", entry |-> e, key |-> r.key,
                               past |-> PastOf(r.late)]]
    /\ Done(d)
    /\ UNCHANGED <<account, kit, vault, history>>

\* delete_vault_attachment
CommitDeleteFile(d) ==
    /\ Asks(d, "delete_file")
    /\ LET f == pending[d].call.file
       IN /\ files[f].state = "stored"
          /\ files' = [files EXCEPT ![f] = BlankFile("gone")]
    /\ Done(d)
    /\ UNCHANGED <<account, kit, vault, history>>

\* delete_vault_entry: to the trash, with its history and its files.
CommitDelete(d) ==
    /\ Asks(d, "delete")
    /\ LET e == pending[d].call.entry
       IN /\ vault[e].state = "active"
          /\ vault' = [vault EXCEPT ![e].state = "trash"]
    /\ Done(d)
    /\ UNCHANGED <<account, kit, history, files>>

\* restore_vault_entry: the quota is not looked at.
CommitRestore(d) ==
    /\ Asks(d, "restore")
    /\ LET e == pending[d].call.entry
       IN /\ vault[e].state = "trash"
          /\ vault' = [vault EXCEPT ![e].state = "active"]
    /\ Done(d)
    /\ UNCHANGED <<account, kit, history, files>>

\* DELETE FROM vault: the history and the files of the rows go by cascade.
Destroy(gone) ==
    /\ vault' = [e \in Entries |-> IF e \in gone THEN BlankRow("gone") ELSE vault[e]]
    /\ history' = {h \in history : h.entry \notin gone}
    /\ files' = [f \in Attachments |->
                   IF files[f].entry \in gone THEN BlankFile("gone") ELSE files[f]]

\* Variant: an entry is purged wherever it is.
CommitPurgeAny(d) ==
    /\ Asks(d, "purge")
    /\ Destroy({pending[d].call.entry})
    /\ Done(d)
    /\ UNCHANGED <<account, kit>>

\* permanently_delete_vault_entry
CommitPurge(d) ==
    /\ Asks(d, "purge")
    /\ pending[d].call.entry \in Trash
    /\ Destroy({pending[d].call.entry})
    /\ Done(d)
    /\ UNCHANGED <<account, kit>>

\* The maintenance loop: rows in the trash for more than 30 days.
PurgeOldTrash ==
    /\ \E old \in SUBSET Trash : old # {} /\ Destroy(old)
    /\ UNCHANGED <<account, kit, pending>>

\* save_recovery_kit, delete_recovery_kit: the row is found by the address
\* the caller had when it was authenticated.
CommitSaveKit(d) ==
    /\ Asks(d, "save_kit")
    /\ kit' = IF pending[d].call.email = email
                THEN [key |-> pending[d].key, past |-> PastOf(pending[d].late)] ELSE kit
    /\ Done(d)
    /\ UNCHANGED <<account, vault, history, files>>

CommitDeleteKit(d) ==
    /\ Asks(d, "delete_kit")
    /\ kit' = IF pending[d].call.email = email THEN NoKit ELSE kit
    /\ Done(d)
    /\ UNCHANGED <<account, vault, history, files>>

\* update_email: the address changes and the refresh tokens go.  Access
\* tokens name the old address, so no open session survives; a sign-in past
\* its check still gets a refresh token.
CommitEmail(d) ==
    /\ Asks(d, "update_email")
    /\ email' = pending[d].call.email
    /\ session' = [x \in Devices |->
                     IF session[x].phase = "open" THEN NoSession ELSE session[x]]
    /\ rekey' = [x \in Devices |->
                   IF rekey[x] # NoWork /\ rekey[x].stage = "collecting"
                     THEN NoWork ELSE rekey[x]]
    /\ Done(d)
    /\ UNCHANGED <<password_hash, code, stored, recovery, reset>>

(***************************************************************************)
(* Change of the master password: the client exports and decrypts every    *)
(* ciphertext, re-encrypts the copies, and sends them in one request.      *)
(***************************************************************************)

\* changeMasterPassword starts; nothing is read yet.
StartRekey(d) ==
    /\ "update_password" \in Offered
    /\ session[d].phase = "open"
    /\ rekey[d] = NoWork
    /\ \E p \in Passwords :
         /\ p # session[d].key[2]
         /\ rekey' = [rekey EXCEPT ![d] =
                        [stage |-> "collecting", key |-> session[d].key,
                         target |-> <<session[d].key[1], p>>,
                         entries |-> Unread, withFiles |-> {},
                         history |-> Unread, files |-> Unread]]
    /\ UNCHANGED <<email, password_hash, code, stored, session, pending, recovery, reset>>

Collecting(w) == w # NoWork /\ w.stage = "collecting"

\* The exports ask for the present hash.  A copy the key does not open makes
\* the whole change fail on the client (prepare_password_change), so a
\* collection that goes on has decrypted all it read.
Exports(d) == Collecting(rekey[d]) /\ session[d].key = password_hash

Page(ids) == {s \in SUBSET ids : Cardinality(s) =
                 IF Cardinality(ids) > MaxEntries THEN MaxEntries ELSE Cardinality(ids)}

Copies(ids) == {[id |-> e, text |-> vault[e].text] : e \in ids}

ExportVault(d) ==
    /\ Exports(d)
    /\ rekey[d].entries = Unread
    /\ \E ids \in Page(Active) :
         /\ \A e \in ids : vault[e].key = rekey[d].key
         /\ rekey' = [rekey EXCEPT ![d].entries = Copies(ids),
                                   ![d].withFiles = {e \in ids : FilesOf(e) # {}}]
    /\ UNCHANGED <<email, password_hash, code, stored, session, pending, recovery, reset>>

ArchiveIds == {[entry |-> h.entry, version |-> h.version] : h \in history}

ExportVaultHistory(d) ==
    /\ Exports(d)
    /\ rekey[d].history = Unread
    /\ \A h \in history : h.key = rekey[d].key
    /\ rekey' = [rekey EXCEPT ![d].history = ArchiveIds]
    /\ UNCHANGED <<email, password_hash, code, stored, session, pending, recovery, reset>>

\* After both exports: the files of the exported entries that had some then.
CollectAttachments(d) ==
    /\ Collecting(rekey[d])
    /\ rekey[d].entries # Unread /\ rekey[d].history # Unread /\ rekey[d].files = Unread
    /\ LET found == {f \in StoredFiles : files[f].entry \in rekey[d].withFiles}
       IN /\ \A f \in found : files[f].key = rekey[d].key
          /\ rekey' = [rekey EXCEPT ![d].files = found]
    /\ UNCHANGED <<email, password_hash, code, stored, session, pending, recovery, reset>>

\* update_password up to its transaction: the old hash is verified here, and
\* not looked at again.
SubmitRekey(d) ==
    /\ Exports(d)
    /\ rekey[d].files # Unread
    /\ rekey' = [rekey EXCEPT ![d].stage = "submitted"]
    /\ UNCHANGED <<email, password_hash, code, stored, session, pending, recovery, reset>>

AbandonRekey(d) ==
    /\ rekey[d] # NoWork
    /\ rekey' = [rekey EXCEPT ![d] = NoWork]
    /\ UNCHANGED <<email, password_hash, code, stored, session, pending, recovery, reset>>

SentIds(w) == {c.id : c \in w.entries}

\* Variant: the server does not ask for the files.
CoversForgetsFiles(w) == SentIds(w) = Active /\ w.history = ArchiveIds

\* Variant: unknown identifiers are refused, missing ones are not.
CoversMissingAllowed(w) ==
    SentIds(w) \subseteq Active /\ w.history = ArchiveIds /\ w.files = StoredFiles

\* check_reencrypted_ids, on the identifiers read inside the transaction.
Covers(w) ==
    /\ SentIds(w) = Active
    /\ w.history = ArchiveIds
    /\ w.files = StoredFiles

\* reencrypt_many: the rows sent, if active; no version changes.  An entry in
\* the trash is left under its key.
ReencryptEntries(w) ==
    /\ SentIds(w) \subseteq Active
    /\ vault' = [e \in Entries |->
                   IF e \in SentIds(w)
                     THEN [vault[e] EXCEPT !.key = w.target, !.past = "no",
                             !.text = (CHOOSE c \in w.entries : c.id = e).text]
                   ELSE IF e \in Trash /\ vault[e].past = "no"
                     THEN [vault[e] EXCEPT !.past = "skipped"]
                   ELSE vault[e]]

ReencryptHistory(w) ==
    /\ w.history \subseteq ArchiveIds
    /\ history' = {IF [entry |-> h.entry, version |-> h.version] \in w.history
                     THEN [h EXCEPT !.key = w.target, !.past = "no"] ELSE h : h \in history}

ReencryptFiles(w) ==
    /\ w.files \subseteq StoredFiles
    /\ files' = [f \in Attachments |->
                   IF f \in w.files
                     THEN [files[f] EXCEPT !.key = w.target, !.past = "no"] ELSE files[f]]

\* Variant: access tokens issued before the change stay valid.
EndSessionsKeepsTokens ==
    /\ UNCHANGED session
    /\ pending' = [d \in Devices |->
                     IF pending[d] = NoRequest THEN NoRequest
                       ELSE [pending[d] EXCEPT !.late = TRUE]]

\* The refresh tokens go and password_changed_at rejects the access tokens:
\* open sessions end.  What passed its check before goes on, and is late.
EndSessions ==
    /\ session' = [d \in Devices |->
                     IF session[d].phase = "verified"
                       THEN [session[d] EXCEPT !.late = TRUE] ELSE NoSession]
    /\ pending' = [d \in Devices |->
                     IF pending[d] = NoRequest THEN NoRequest
                       ELSE [pending[d] EXCEPT !.late = TRUE]]

\* Submitted changes go on; collections end with their sessions.
SubmittedExcept(ds) ==
    rekey' = [d \in Devices |->
                IF d \in ds \/ Collecting(rekey[d]) THEN NoWork ELSE rekey[d]]

\* The transaction of update_password and of complete_recovery.
Reencrypt(w) ==
    /\ Covers(w)
    /\ password_hash' = w.target
    /\ ReencryptEntries(w)
    /\ ReencryptHistory(w)
    /\ ReencryptFiles(w)
    /\ kit' = NoKit
    /\ EndSessions

CommitRekey(d) ==
    /\ rekey[d] # NoWork /\ rekey[d].stage = "submitted"
    /\ Reencrypt(rekey[d])
    /\ SubmittedExcept({d})
    /\ UNCHANGED <<email, code, recovery, reset>>

(***************************************************************************)
(* Forgotten password: a code sent by e-mail, then either a recovery with  *)
(* the kit, which keeps the vault, or a reset, which empties it.           *)
(***************************************************************************)

\* A recovery still collecting holds a code that is now void: it can only be
\* refused, and is forgotten.
VoidRecovery == recovery' = IF Collecting(recovery) THEN NoWork ELSE recovery

RequestPasswordReset ==
    /\ "forgot_password" \in Offered
    /\ code' = TRUE
    /\ VoidRecovery
    /\ UNCHANGED <<email, password_hash, stored, session, pending, rekey, reset>>

\* The code expires, or is used up by wrong attempts.
DropCode ==
    /\ code
    /\ code' = FALSE
    /\ VoidRecovery
    /\ UNCHANGED <<email, password_hash, stored, session, pending, rekey, reset>>

\* get_recovery_data checks the code without using it and reads the kit,
\* then the entries, the history and the files, with one query each.
GetRecoveryData ==
    /\ code
    /\ recovery = NoWork
    /\ kit.key # NoKey
    /\ \E p \in Passwords :
         recovery' = [stage |-> "collecting", key |-> kit.key, target |-> <<email, p>>,
                      entries |-> Unread, withFiles |-> {},
                      history |-> Unread, files |-> Unread]
    /\ UNCHANGED <<email, password_hash, code, stored, session, pending, rekey, reset>>

RecoveryReadEntries ==
    /\ Collecting(recovery)
    /\ recovery.entries = Unread
    /\ \E ids \in Page(Active) :
         /\ \A e \in ids : vault[e].key = recovery.key
         /\ recovery' = [recovery EXCEPT !.entries = Copies(ids)]
    /\ UNCHANGED <<email, password_hash, code, stored, session, pending, rekey, reset>>

RecoveryReadHistory ==
    /\ Collecting(recovery)
    /\ recovery.entries # Unread /\ recovery.history = Unread
    /\ \A h \in history : h.key = recovery.key
    /\ recovery' = [recovery EXCEPT !.history = ArchiveIds]
    /\ UNCHANGED <<email, password_hash, code, stored, session, pending, rekey, reset>>

RecoveryReadFiles ==
    /\ Collecting(recovery)
    /\ recovery.history # Unread /\ recovery.files = Unread
    /\ \A f \in StoredFiles : files[f].key = recovery.key
    /\ recovery' = [recovery EXCEPT !.files = StoredFiles]
    /\ UNCHANGED <<email, password_hash, code, stored, session, pending, rekey, reset>>

\* complete_recovery up to its transaction: the code is used up here,
\* whatever becomes of the rest.
SubmitRecovery ==
    /\ Collecting(recovery)
    /\ recovery.files # Unread
    /\ code /\ recovery.target[1] = email
    /\ code' = FALSE
    /\ recovery' = [recovery EXCEPT !.stage = "submitted"]
    /\ UNCHANGED <<email, password_hash, stored, session, pending, rekey, reset>>

AbandonRecovery ==
    /\ recovery # NoWork
    /\ recovery' = NoWork
    /\ UNCHANGED <<email, password_hash, code, stored, session, pending, rekey, reset>>

CommitRecovery ==
    /\ recovery # NoWork /\ recovery.stage = "submitted"
    /\ Reencrypt(recovery)
    /\ SubmittedExcept({})
    /\ recovery' = NoWork
    /\ code' = FALSE
    /\ UNCHANGED <<email, reset>>

\* confirm_password_reset: the code is used up, and then one transaction.
SubmitReset ==
    /\ code
    /\ reset = NoKey
    /\ code' = FALSE
    /\ VoidRecovery
    /\ \E p \in Passwords : reset' = <<email, p>>
    /\ UNCHANGED <<email, password_hash, stored, session, pending, rekey>>

AbandonReset ==
    /\ reset # NoKey
    /\ reset' = NoKey
    /\ UNCHANGED <<email, password_hash, code, stored, session, pending, rekey, recovery>>

\* Variant: the kit is kept.
CommitResetKeepsKit ==
    /\ reset # NoKey
    /\ password_hash' = reset
    /\ Destroy(Active \cup Trash)
    /\ EndSessions
    /\ SubmittedExcept({})
    /\ VoidRecovery
    /\ code' = FALSE
    /\ reset' = NoKey
    /\ UNCHANGED <<email, kit>>

CommitReset ==
    /\ reset # NoKey
    /\ password_hash' = reset
    /\ Destroy(Active \cup Trash)
    /\ kit' = NoKit
    /\ EndSessions
    /\ SubmittedExcept({})
    /\ VoidRecovery
    /\ code' = FALSE
    /\ reset' = NoKey
    /\ UNCHANGED email

DeviceStep(d) ==
    \/ LoginVerify(d) \/ LoginIssue(d) \/ EndSession(d)
    \/ Accept(d) \/ Refuse(d)
    \/ CommitInsert(d) \/ CommitUpdate(d) \/ CommitAttach(d) \/ CommitDeleteFile(d)
    \/ CommitDelete(d) \/ CommitRestore(d) \/ CommitPurge(d)
    \/ CommitSaveKit(d) \/ CommitDeleteKit(d) \/ CommitEmail(d)
    \/ StartRekey(d) \/ ExportVault(d) \/ ExportVaultHistory(d) \/ CollectAttachments(d)
    \/ SubmitRekey(d) \/ AbandonRekey(d) \/ CommitRekey(d)

AccountStep ==
    \/ PurgeOldTrash
    \/ RequestPasswordReset \/ DropCode
    \/ GetRecoveryData \/ RecoveryReadEntries \/ RecoveryReadHistory
    \/ RecoveryReadFiles \/ SubmitRecovery \/ AbandonRecovery \/ CommitRecovery
    \/ SubmitReset \/ AbandonReset \/ CommitReset

Next == (\E d \in Devices : DeviceStep(d)) \/ AccountStep

Spec == Init /\ [][Next]_vars

-----------------------------------------------------------------------------
(***************************************************************************)
(* Properties                                                              *)
(***************************************************************************)

Opens(c) == c.past # "no" \/ c.key = password_hash

\* Every ciphertext kept for the account, in the vault, the trash, the
\* history, the files or the kit, is opened by the key whose holder can sign
\* in, except those written by a request accepted before a change of key and
\* those that lay in the trash during one (update_password,
\* complete_recovery and confirm_password_reset against every writer).
KeyInv ==
    /\ \A e \in Active \cup Trash : Opens(vault[e])
    /\ \A h \in history : Opens(h)
    /\ \A f \in StoredFiles : Opens(files[f])
    /\ kit.key # NoKey => Opens(kit)

\* A session, or a request on its way to the database, works under the
\* present key unless it passed its check before the last change of key:
\* no change of key leaves an earlier session alive.
SessionInv ==
    /\ \A d \in Devices : session[d].phase # "none" /\ ~session[d].late
                            => session[d].key = password_hash
    /\ \A d \in Devices : pending[d] # NoRequest /\ ~pending[d].late
                            => pending[d].key = password_hash

\* An archived password or a file always belongs to an entry that exists, in
\* the vault or in the trash, whatever was purged or reset while the request
\* that wrote it was in flight.
NoOrphans ==
    /\ \A h \in history : h.entry \in Active \cup Trash
    /\ \A f \in StoredFiles : files[f].entry \in Active \cup Trash

\* The history of an entry holds only past versions of it, and never more
\* than the cap (archive_password_history).
HistoryInv ==
    /\ \A h \in history : h.version < vault[h.entry].version
    /\ \A e \in Entries : Cardinality({h \in history : h.entry = e}) <= MaxHistory

\* A step that installs another key leaves no active entry, no archived
\* password and no file under any key but the new one, and no kit: the
\* account is never left half re-encrypted.
KeyChangeComplete ==
    [][password_hash' # password_hash =>
         /\ \A e \in Entries : vault'[e].state = "active" => vault'[e].key = password_hash'
         /\ \A h \in history' : h.key = password_hash'
         /\ \A f \in Attachments : files'[f].state = "stored" => files'[f].key = password_hash'
         /\ kit'.key = NoKey]_vars

\* An archived password disappears only with its entry, or once MaxHistory
\* newer ones of the same entry are kept; no key change, edit or deletion of
\* another entry loses one.
HistoryRetention ==
    [][\A h \in history :
         \/ \E g \in history' : g.entry = h.entry /\ g.version = h.version
         \/ vault'[h.entry].state = "gone"
         \/ Cardinality(Newer(h, history')) >= MaxHistory]_vars

\* An entry in the vault is destroyed by a confirmed reset and by nothing
\* else: a purge that was asked for while the entry was in the trash does
\* nothing once the entry has been restored.
ActiveSurvives ==
    [][(\E e \in Active : vault'[e].state = "gone")
         => reset # NoKey /\ password_hash' = reset]_vars

(***************************************************************************)
(* What the documents and comments of the code say, and the code does not  *)
(* keep.                                                                   *)
(***************************************************************************)

\* README.md:169 and GUIDE_UTILISATEUR.md:139: changing the address leaves
\* the vault unaffected.  Its holder, typing the account's address and the
\* password, derives the key of the present address.
HolderCanSignIn == password_hash[1] = email

\* README.md:85 and GUIDE_UTILISATEUR.md:55: an entry in the trash can be
\* recovered for 30 days.
TrashRecoverable ==
    \A e \in Trash : vault[e].past # "late" => vault[e].key = password_hash

\* AuthContext.tsx:429: the change of password collects all the files of all
\* the entries.  What it can collect are the files of the active ones.
Collectable == UNION {FilesOf(e) : e \in Active}
CollectionCoversFiles == Collectable = StoredFiles

\* account.rs:191: never a vault half encrypted under one key and half under
\* another.
ActiveReadable ==
    \A e \in Active : vault[e].past # "skipped" => vault[e].key = password_hash

=============================================================================
