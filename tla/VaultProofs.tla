---------------------------- MODULE VaultProofs ----------------------------
(***************************************************************************)
(* Theorems about Vault, for any number of devices, entries, files,        *)
(* addresses and passwords, and any quotas.                                *)
(*                                                                         *)
(* The inductive invariant has four parts: the types, with what a          *)
(* submitted collection has read (ReadInv), without which the re-encrypted *)
(* texts have no type; the keys of sessions and requests (SessionInv);     *)
(* that nothing outlives its entry (NoOrphans), without which a reset      *)
(* would leave ciphertexts behind; and the keys of the stored ciphertexts  *)
(* (KeyInv), which a request preserves only because of SessionInv.         *)
(***************************************************************************)
EXTENDS Vault, FiniteSetTheorems, TLAPS

\* The files are read last, and a collection is sent only when complete; a
\* recovery reads the history after the entries.
ReadInOrder(w) ==
    w # NoWork =>
      /\ w.files # Unread => w.entries # Unread /\ w.history # Unread
      /\ w.stage = "submitted" => w.files # Unread

ReadInv ==
    /\ \A d \in Devices : ReadInOrder(rekey[d])
    /\ ReadInOrder(recovery)
    /\ recovery # NoWork /\ recovery.history # Unread => recovery.entries # Unread

\* A device that is signed in, or signing in, holds a key, and a row that is
\* not destroyed is under one.
HoldsKey ==
    /\ \A d \in Devices : session[d].phase # "none" => session[d].key \in Key
    /\ \A e \in Entries : vault[e].state \in {"active", "trash"} => vault[e].key \in Key

TypeInv == TypeOK /\ ReadInv /\ HoldsKey

IInv == TypeInv /\ SessionInv /\ NoOrphans /\ KeyInv

LEMMA KeyPair ==
    ASSUME NEW m \in Emails, NEW p \in Passwords
    PROVE  <<m, p>> \in Key
BY DEF Key

LEMMA KeyParts ==
    ASSUME NEW k \in Key
    PROVE  k[1] \in Emails /\ k[2] \in Passwords
BY DEF Key

LEMMA InitInv == Init => IInv
<1> SUFFICES ASSUME Init PROVE IInv
    OBVIOUS
<1> USE DEF Init
<1>1. /\ email \in Emails /\ password_hash \in Key /\ code \in BOOLEAN /\ kit \in Kit
      /\ history \in SUBSET Archived /\ reset \in Key \cup {NoKey}
    BY AccountAssumption, KeyPair DEF Kit, NoKit, Past
<1>2. vault \in [Entries -> Row]
    BY DEF BlankRow, Row, Past
<1>3. files \in [Attachments -> File]
    BY DEF BlankFile, File, Past
<1>4. session \in [Devices -> Session]
    BY DEF NoSession, Session
<1>5. /\ pending \in [Devices -> Request \cup {NoRequest}]
      /\ rekey \in [Devices -> Work \cup {NoWork}]
      /\ recovery \in Work \cup {NoWork}
    OBVIOUS
<1>6. ReadInv /\ HoldsKey /\ SessionInv /\ NoOrphans
    BY DEF NoOrphans, StoredFiles, BlankFile, ReadInv, ReadInOrder, HoldsKey, SessionInv, NoSession, BlankRow
<1>7. KeyInv
    BY DEF KeyInv, Active, Trash, StoredFiles, BlankRow, BlankFile, NoKit
<1> QED
    BY <1>1, <1>2, <1>3, <1>4, <1>5, <1>6, <1>7 DEF IInv, TypeInv, TypeOK

\* The end of all sessions keeps the types of sessions and requests.
LEMMA EndTypes ==
    ASSUME TypeInv, EndSessions
    PROVE  /\ session' \in [Devices -> Session]
           /\ \A d \in Devices : session'[d].phase # "none" => session'[d].key \in Key
           /\ pending' \in [Devices -> Request \cup {NoRequest}]
<1> USE DEF TypeInv, TypeOK, HoldsKey
<1>1. ASSUME NEW d \in Devices
      PROVE  session'[d] \in Session /\ (session'[d].phase # "none" => session'[d].key \in Key)
    BY DEF EndSessions, Session, NoSession
<1>2. ASSUME NEW d \in Devices, pending[d] # NoRequest
      PROVE  [pending[d] EXCEPT !.late = TRUE] \in Request
    BY <1>2 DEF Request
<1>3. pending' \in [Devices -> Request \cup {NoRequest}]
    BY <1>2 DEF EndSessions
<1>4. session' \in [Devices -> Session]
    BY <1>1 DEF EndSessions
<1> QED
    BY <1>1, <1>3, <1>4

\* The types, and the order in which a collection is read, are kept by every
\* step.
LEMMA TypeStep == TypeInv /\ [Next]_vars => TypeInv'
<1> SUFFICES ASSUME TypeInv, [Next]_vars PROVE TypeInv'
    OBVIOUS
<1> USE DEF TypeInv, TypeOK, ReadInv, ReadInOrder, HoldsKey, stored
<1>1. ASSUME NEW d \in Devices, LoginVerify(d) PROVE TypeInv'
    BY <1>1 DEF LoginVerify, Session
<1>2. ASSUME NEW d \in Devices, LoginIssue(d) PROVE TypeInv'
    BY <1>2 DEF LoginIssue, Session
<1>3. ASSUME NEW d \in Devices, EndSession(d) PROVE TypeInv'
    BY <1>3 DEF EndSession, DropCollection, Session, NoSession
<1>4. ASSUME NEW d \in Devices, Accept(d) PROVE TypeInv'
  <2>1. ClientCalls(d) \subseteq Call
    <3> DEFINE
          inserts == [op : {"insert"}, count : Nat]
          updates == [op : {"update"}, entry : Entries, expected : Nat, archive : BOOLEAN]
          onEntry == [op : {"attach", "delete", "restore", "purge"}, entry : Entries]
          onFile == [op : {"delete_file"}, file : Attachments]
          onAccount == [op : {"save_kit", "delete_kit", "update_email"}, email : Emails]
    <3> SUFFICES ASSUME NEW c \in ClientCalls(d) PROVE c \in Call
        OBVIOUS
    <3>1. c \in {[op |-> "insert", count |-> n] : n \in 1..MaxImport} => c \in inserts
        OBVIOUS
    <3>2. c \in {[op |-> "update", entry |-> e, archive |-> a, expected |-> IF old THEN 0 ELSE vault[e].version] :
                    e \in Active, a \in BOOLEAN, old \in BOOLEAN} => c \in updates
        BY DEF Active, Row
    <3>3. c \in {[op |-> o, entry |-> e] : o \in {"attach", "delete"}, e \in Active}
             => c \in onEntry
        BY DEF Active
    <3>4. c \in {[op |-> o, entry |-> e] : o \in {"restore", "purge"}, e \in Trash}
             => c \in onEntry
        BY DEF Trash
    <3>5. c \in {[op |-> "delete_file", file |-> f] : f \in StoredFiles} => c \in onFile
        BY DEF StoredFiles
    <3>6. c \in {[op |-> o, email |-> email] : o \in {"save_kit", "delete_kit"}}
             => c \in onAccount
        OBVIOUS
    <3>7. c \in {[op |-> "update_email", email |-> m] :
                    m \in {n \in Emails \ {email} : session[d].key = password_hash}}
             => c \in onAccount
        OBVIOUS
    <3>8. \/ c \in inserts \/ c \in updates \/ c \in onEntry
          \/ c \in onFile \/ c \in onAccount
        BY <3>1, <3>2, <3>3, <3>4, <3>5, <3>6, <3>7 DEF ClientCalls
    <3> QED
        BY <3>8 DEF Call
  <2>2. session[d] \in Session /\ session[d].key \in Key
    BY <1>4 DEF Accept
  <2>3. PICK c \in Call :
          pending' = [pending EXCEPT ![d] =
                        [call |-> c, key |-> session[d].key, late |-> session[d].late]]
    BY <1>4, <2>1 DEF Accept
  <2>4. [call |-> c, key |-> session[d].key, late |-> session[d].late] \in Request
    BY <2>2, <2>3 DEF Request, Session
  <2> QED
    BY <1>4, <2>3, <2>4 DEF Accept
<1>5. ASSUME NEW d \in Devices, Refuse(d) PROVE TypeInv'
    BY <1>5 DEF Refuse, Done, account
<1>6. ASSUME NEW d \in Devices, CommitInsert(d) PROVE TypeInv'
    BY <1>6 DEF CommitInsert, Asks, Done, account, Request, Row, Past, PastOf
<1>7. ASSUME NEW d \in Devices, CommitUpdate(d) PROVE TypeInv'
  <2> DEFINE e == pending[d].call.entry
  <2>1. pending[d] \in Request /\ e \in Entries
    BY <1>7 DEF CommitUpdate, Asks, Request, Call
  <2>2. /\ vault[e] \in Row /\ vault[e].key \in Key
        /\ vault[e].past \in Past /\ vault[e].version \in Nat
    BY <1>7, <2>1 DEF CommitUpdate, Row
  <2>3. Archive(e) \in SUBSET Archived
    BY <2>1, <2>2, SMTT(30) DEF Archive, Archived
  <2>4. history' \in SUBSET Archived
    BY <1>7, <2>3 DEF CommitUpdate
  <2>5. [state |-> "active", key |-> pending[d].key, past |-> PastOf(pending[d].late),
         version |-> vault[e].version + 1, text |-> vault[e].version + 1] \in Row
    BY <2>1, <2>2 DEF Request, Row, Past, PastOf
  <2>6. vault' \in [Entries -> Row] /\ HoldsKey'
    BY <1>7, <2>1, <2>5 DEF CommitUpdate, account, Request
  <2> QED
    BY <1>7, <2>4, <2>6 DEF CommitUpdate, Done, account
<1>8. ASSUME NEW d \in Devices, CommitAttach(d) PROVE TypeInv'
    BY <1>8 DEF CommitAttach, Asks, Done, account, Request, Call, File, Past, PastOf
<1>9. ASSUME NEW d \in Devices, CommitDeleteFile(d) PROVE TypeInv'
    BY <1>9 DEF CommitDeleteFile, Asks, Done, account, File, BlankFile, Past
<1>10. ASSUME NEW d \in Devices, CommitDelete(d) PROVE TypeInv'
  <2>1. /\ pending[d].call.entry \in Entries
        /\ vault[pending[d].call.entry] \in Row
    BY <1>10 DEF CommitDelete, Asks, Request, Call
  <2>2. vault' \in [Entries -> Row]
    BY <1>10, <2>1 DEF CommitDelete, Row
  <2> QED
    BY <1>10, <2>1, <2>2 DEF CommitDelete, Done, account
<1>11. ASSUME NEW d \in Devices, CommitRestore(d) PROVE TypeInv'
  <2>1. /\ pending[d].call.entry \in Entries
        /\ vault[pending[d].call.entry] \in Row
    BY <1>11 DEF CommitRestore, Asks, Request, Call
  <2>2. vault' \in [Entries -> Row]
    BY <1>11, <2>1 DEF CommitRestore, Row
  <2> QED
    BY <1>11, <2>1, <2>2 DEF CommitRestore, Done, account
<1>12. ASSUME NEW d \in Devices, CommitPurge(d) PROVE TypeInv'
    BY <1>12 DEF CommitPurge, Destroy, Done, account, Row, BlankRow, File, BlankFile, Past
<1>13. ASSUME NEW d \in Devices, CommitSaveKit(d) PROVE TypeInv'
    BY <1>13 DEF CommitSaveKit, Asks, Done, account, Kit, Request, Past, PastOf
<1>14. ASSUME NEW d \in Devices, CommitDeleteKit(d) PROVE TypeInv'
    BY <1>14 DEF CommitDeleteKit, Asks, Done, account, Kit, NoKit, Past
<1>15. ASSUME NEW d \in Devices, CommitEmail(d) PROVE TypeInv'
    BY <1>15 DEF CommitEmail, Asks, Done, Request, Call, Session, NoSession
<1>16. ASSUME NEW d \in Devices, StartRekey(d) PROVE TypeInv'
    BY <1>16, KeyPair, KeyParts DEF StartRekey, Session, Work
<1>17. ASSUME NEW d \in Devices, ExportVault(d) PROVE TypeInv'
  <2>1. PICK ids \in Page(Active) :
          rekey' = [rekey EXCEPT ![d].entries = Copies(ids),
                                 ![d].withFiles = {e \in ids : FilesOf(e) # {}}]
    BY <1>17 DEF ExportVault
  <2>2. ids \subseteq Entries
    BY <2>1 DEF Page, Active
  <2>3. Copies(ids) \in SUBSET Copy
    BY <2>2 DEF Copies, Copy, Row
  <2>4. {e \in ids : FilesOf(e) # {}} \in SUBSET Entries
    BY <2>2
  <2>5. rekey[d] \in Work
    BY <1>17 DEF ExportVault, Exports, Collecting
  <2> QED
    BY <1>17, <2>1, <2>3, <2>4, <2>5, ZenonT(30) DEF ExportVault, Exports, Collecting, Work
<1>18. ASSUME NEW d \in Devices, ExportVaultHistory(d) PROVE TypeInv'
    BY <1>18 DEF ExportVaultHistory, Exports, Collecting, ArchiveIds, Archived, Work
<1>19. ASSUME NEW d \in Devices, CollectAttachments(d) PROVE TypeInv'
    BY <1>19 DEF CollectAttachments, Collecting, StoredFiles, Work
<1>20. ASSUME NEW d \in Devices, SubmitRekey(d) PROVE TypeInv'
    BY <1>20 DEF SubmitRekey, Exports, Collecting, Work
<1>21. ASSUME NEW d \in Devices, AbandonRekey(d) PROVE TypeInv'
    BY <1>21 DEF AbandonRekey
<1>22. ASSUME NEW w \in Work, w.entries # Unread, w.history # Unread, w.files # Unread,
             Reencrypt(w)
       PROVE /\ password_hash' \in Key
             /\ kit' \in Kit
             /\ vault' \in [Entries -> Row]
             /\ history' \in SUBSET Archived
             /\ files' \in [Attachments -> File]
             /\ session' \in [Devices -> Session] /\ HoldsKey'
             /\ pending' \in [Devices -> Request \cup {NoRequest}]
  <2>1. w.target \in Key /\ w.entries \in SUBSET Copy
    BY <1>22 DEF Work
  <2>2. ASSUME NEW e \in SentIds(w)
        PROVE (CHOOSE c \in w.entries : c.id = e).text \in Nat
    BY <2>1 DEF SentIds, Copy
  <2>3. vault' \in [Entries -> Row]
    <3>1. ASSUME NEW e \in Entries
          PROVE  /\ [vault[e] EXCEPT !.past = "skipped"] \in Row
                 /\ \A t \in Nat : [vault[e] EXCEPT !.key = w.target, !.past = "no",
                                                   !.text = t] \in Row
      <4>1. vault[e] \in Row
        OBVIOUS
      <4> QED
        BY <2>1, <4>1 DEF Row, Past
    <3> QED
      BY <1>22, <2>2, <3>1 DEF Reencrypt, ReencryptEntries
  <2>4. history' \in SUBSET Archived
    <3>1. ASSUME NEW h \in Archived
          PROVE  [h EXCEPT !.key = w.target, !.past = "no"] \in Archived
      BY <2>1 DEF Archived, Past
    <3> QED
      BY <1>22, <3>1 DEF Reencrypt, ReencryptHistory
  <2>5. files' \in [Attachments -> File]
    <3>1. ASSUME NEW f \in Attachments
          PROVE  [files[f] EXCEPT !.key = w.target, !.past = "no"] \in File
      <4>1. files[f] \in File
        OBVIOUS
      <4> QED
        BY <2>1, <4>1 DEF File, Past
    <3> QED
      BY <1>22, <3>1 DEF Reencrypt, ReencryptFiles
  <2>6. \A e \in Entries : vault'[e].state \in {"active", "trash"} => vault'[e].key \in Key
    <3> SUFFICES ASSUME NEW e \in Entries, vault'[e].state \in {"active", "trash"}
                 PROVE  vault'[e].key \in Key
        OBVIOUS
    <3>1. CASE e \in SentIds(w)
      <4>1. vault'[e] = [vault[e] EXCEPT !.key = w.target, !.past = "no",
                           !.text = (CHOOSE c \in w.entries : c.id = e).text]
        BY <1>22, <3>1 DEF Reencrypt, ReencryptEntries
      <4>2. vault[e] \in Row
        OBVIOUS
      <4> QED
        BY <2>1, <4>1, <4>2 DEF Row
    <3>2. CASE e \notin SentIds(w)
      BY <1>22, <3>2, ZenonT(30) DEF Reencrypt, ReencryptEntries, Row
    <3> QED
      BY <3>1, <3>2
  <2>7. EndSessions
    BY <1>22 DEF Reencrypt
  <2> QED
    BY <1>22, <2>1, <2>3, <2>4, <2>5, <2>6, <2>7, EndTypes DEF Reencrypt, Kit, NoKit, Past
<1>23. ASSUME NEW d \in Devices, CommitRekey(d) PROVE TypeInv'
  <2>1. /\ rekey[d] \in Work /\ Reencrypt(rekey[d])
        /\ rekey[d].entries # Unread /\ rekey[d].history # Unread /\ rekey[d].files # Unread
    BY <1>23 DEF CommitRekey
  <2> QED
    BY <1>22, <1>23, <2>1 DEF CommitRekey, SubmittedExcept
<1>24. ASSUME PurgeOldTrash PROVE TypeInv'
    BY <1>24 DEF PurgeOldTrash, Destroy, account, Row, BlankRow, File, BlankFile, Past
<1>25. ASSUME RequestPasswordReset PROVE TypeInv'
    BY <1>25 DEF RequestPasswordReset, VoidRecovery
<1>26. ASSUME DropCode PROVE TypeInv'
    BY <1>26 DEF DropCode, VoidRecovery
<1>27. ASSUME GetRecoveryData PROVE TypeInv'
    BY <1>27, KeyPair DEF GetRecoveryData, Kit, Work
<1>28. ASSUME RecoveryReadEntries PROVE TypeInv'
    BY <1>28 DEF RecoveryReadEntries, Collecting, Page, Active, Copies, Copy, Work, Row
<1>29. ASSUME RecoveryReadHistory PROVE TypeInv'
    BY <1>29 DEF RecoveryReadHistory, Collecting, ArchiveIds, Archived, Work
<1>30. ASSUME RecoveryReadFiles PROVE TypeInv'
  <2>1. /\ recovery \in Work /\ recovery.stage = "collecting"
        /\ recovery.entries # Unread /\ recovery.history # Unread
    BY <1>30 DEF RecoveryReadFiles, Collecting
  <2>2. StoredFiles \in SUBSET Attachments
    BY DEF StoredFiles
  <2>3. recovery' = [recovery EXCEPT !.files = StoredFiles]
    BY <1>30 DEF RecoveryReadFiles
  <2>4. recovery' \in Work
    BY <2>1, <2>2, <2>3 DEF Work
  <2>5. /\ recovery'.stage = "collecting"
        /\ recovery'.entries # Unread /\ recovery'.history # Unread
    BY <2>1, <2>3 DEF Work
  <2>6. UNCHANGED <<email, password_hash, code, stored, session, pending, rekey, reset>>
    BY <1>30 DEF RecoveryReadFiles
  <2>7. ReadInv'
    BY <2>5, <2>6
  <2> QED
    BY <2>4, <2>6, <2>7
<1>31. ASSUME SubmitRecovery PROVE TypeInv'
    BY <1>31 DEF SubmitRecovery, Collecting, Work
<1>32. ASSUME AbandonRecovery PROVE TypeInv'
    BY <1>32 DEF AbandonRecovery
<1>33. ASSUME CommitRecovery PROVE TypeInv'
  <2>1. /\ recovery \in Work /\ Reencrypt(recovery)
        /\ recovery.entries # Unread /\ recovery.history # Unread /\ recovery.files # Unread
    BY <1>33 DEF CommitRecovery
  <2> QED
    BY <1>22, <1>33, <2>1 DEF CommitRecovery, SubmittedExcept
<1>34. ASSUME SubmitReset PROVE TypeInv'
    BY <1>34, KeyPair DEF SubmitReset, VoidRecovery
<1>35. ASSUME AbandonReset PROVE TypeInv'
    BY <1>35 DEF AbandonReset
<1>36. ASSUME CommitReset PROVE TypeInv'
  <2>1. /\ vault' \in [Entries -> Row] /\ history' \in SUBSET Archived
        /\ files' \in [Attachments -> File]
        /\ \A e \in Entries : vault'[e].state \in {"active", "trash"} => vault'[e].key \in Key
    BY <1>36 DEF CommitReset, Destroy, Row, BlankRow, File, BlankFile, Past
  <2>2. rekey' \in [Devices -> Work \cup {NoWork}] /\ ReadInv'
    BY <1>36 DEF CommitReset, SubmittedExcept, VoidRecovery
  <2>3. EndSessions
    BY <1>36 DEF CommitReset
  <2> QED
    BY <1>36, <2>1, <2>2, <2>3, EndTypes DEF CommitReset, VoidRecovery, Kit, NoKit, Past
<1>37. CASE UNCHANGED vars
    BY <1>37 DEF vars
<1> QED
    BY <1>1, <1>2, <1>3, <1>4, <1>5, <1>6, <1>7, <1>8, <1>9, <1>10, <1>11, <1>12, <1>13, <1>14,
       <1>15, <1>16, <1>17, <1>18, <1>19, <1>20, <1>21, <1>23, <1>24, <1>25, <1>26, <1>27, <1>28,
       <1>29, <1>30, <1>31, <1>32, <1>33, <1>34, <1>35, <1>36, <1>37
    DEF Next, DeviceStep, AccountStep


\* A change of key makes whatever passed its check before late; every other
\* step derives a key from the present hash, or copies one.
LEMMA SessionStep == TypeInv /\ SessionInv /\ [Next]_vars => SessionInv'
<1> SUFFICES ASSUME TypeInv, SessionInv, [Next]_vars PROVE SessionInv'
    OBVIOUS
<1> USE DEF SessionInv, TypeInv, TypeOK
<1>1. ASSUME NEW d \in Devices, LoginVerify(d) PROVE SessionInv'
    BY <1>1 DEF LoginVerify
<1>2. ASSUME NEW d \in Devices, LoginIssue(d) PROVE SessionInv'
    BY <1>2 DEF LoginIssue, Session
<1>3. ASSUME NEW d \in Devices, EndSession(d) PROVE SessionInv'
    BY <1>3 DEF EndSession, NoSession
<1>4. ASSUME NEW d \in Devices, Accept(d) PROVE SessionInv'
    BY <1>4 DEF Accept
<1>5. ASSUME NEW d \in Devices, Done(d), UNCHANGED <<session, password_hash>>
      PROVE  SessionInv'
    BY <1>5 DEF Done
<1>6. ASSUME NEW d \in Devices,
             \/ Refuse(d) \/ CommitInsert(d) \/ CommitUpdate(d) \/ CommitAttach(d)
             \/ CommitDeleteFile(d) \/ CommitDelete(d) \/ CommitRestore(d) \/ CommitPurge(d)
             \/ CommitSaveKit(d) \/ CommitDeleteKit(d)
      PROVE  SessionInv'
    BY <1>5, <1>6 DEF Refuse, CommitInsert, CommitUpdate, CommitAttach, CommitDeleteFile,
       CommitDelete, CommitRestore, CommitPurge, CommitSaveKit, CommitDeleteKit, account
<1>7. ASSUME NEW d \in Devices, CommitEmail(d) PROVE SessionInv'
    BY <1>7 DEF CommitEmail, Done, NoSession
<1>8. ASSUME UNCHANGED <<session, password_hash, pending>> PROVE SessionInv'
    BY <1>8
<1>9. ASSUME NEW d \in Devices,
             \/ StartRekey(d) \/ ExportVault(d) \/ ExportVaultHistory(d)
             \/ CollectAttachments(d) \/ SubmitRekey(d) \/ AbandonRekey(d)
      PROVE  SessionInv'
    BY <1>8, <1>9 DEF StartRekey, ExportVault, ExportVaultHistory, CollectAttachments,
       SubmitRekey, AbandonRekey
<1>10. ASSUME \/ PurgeOldTrash \/ RequestPasswordReset \/ DropCode
              \/ GetRecoveryData \/ RecoveryReadEntries \/ RecoveryReadHistory
              \/ RecoveryReadFiles \/ SubmitRecovery \/ AbandonRecovery
              \/ SubmitReset \/ AbandonReset
       PROVE  SessionInv'
    BY <1>8, <1>10 DEF PurgeOldTrash, RequestPasswordReset, DropCode, GetRecoveryData,
       RecoveryReadEntries, RecoveryReadHistory, RecoveryReadFiles, SubmitRecovery,
       AbandonRecovery, SubmitReset, AbandonReset, account
<1>11. ASSUME EndSessions PROVE SessionInv'
  <2>1. ASSUME NEW d \in Devices, session'[d].phase # "none" PROVE session'[d].late
    BY <1>11, <2>1 DEF EndSessions, Session, NoSession
  <2>2. ASSUME NEW d \in Devices, pending'[d] # NoRequest PROVE pending'[d].late
    BY <1>11, <2>2 DEF EndSessions, Request
  <2> QED
    BY <2>1, <2>2
<1>12. ASSUME NEW d \in Devices, CommitRekey(d) PROVE SessionInv'
    BY <1>11, <1>12 DEF CommitRekey, Reencrypt
<1>13. ASSUME CommitRecovery \/ CommitReset PROVE SessionInv'
    BY <1>11, <1>13 DEF CommitRecovery, CommitReset, Reencrypt
<1>14. CASE UNCHANGED vars
    BY <1>8, <1>14 DEF vars
<1> QED
    BY <1>1, <1>2, <1>3, <1>4, <1>6, <1>7, <1>9, <1>10, <1>12, <1>13, <1>14
    DEF Next, DeviceStep, AccountStep

\* Every ciphertext in reach of a re-encryption is under the new key after
\* it, because the three collections sent are the three stored.
LEMMA ReencryptReaches ==
    ASSUME TypeInv, NEW w \in Work, Reencrypt(w)
    PROVE  /\ \A e \in Entries : vault'[e].state = "active" => vault'[e].key = w.target
           /\ \A e \in Entries : vault'[e].state = "trash" => vault'[e].past # "no"
           /\ \A h \in history' : h.key = w.target
           /\ \A f \in Attachments : files'[f].state = "stored" => files'[f].key = w.target
           /\ kit'.key = NoKey
<1> USE DEF TypeInv, TypeOK
<1>1. SentIds(w) = Active /\ w.history = ArchiveIds /\ w.files = StoredFiles
    BY DEF Reencrypt, Covers
<1>2. ASSUME NEW e \in Entries
      PROVE  /\ vault'[e].state = "active" => vault'[e].key = w.target
             /\ vault'[e].state = "trash" => vault'[e].past # "no"
  <2>1. vault[e] \in Row
    OBVIOUS
  <2>2. CASE e \in Active
    <3>1. vault'[e] = [vault[e] EXCEPT !.key = w.target, !.past = "no",
                         !.text = (CHOOSE c \in w.entries : c.id = e).text]
      BY <1>1, <2>2 DEF Reencrypt, ReencryptEntries
    <3> QED
      BY <2>1, <2>2, <3>1 DEF Row, Active
  <2>3. CASE e \notin Active /\ e \in Trash /\ vault[e].past = "no"
    <3>1. vault'[e] = [vault[e] EXCEPT !.past = "skipped"]
      BY <1>1, <2>3 DEF Reencrypt, ReencryptEntries
    <3> QED
      BY <2>1, <2>3, <3>1 DEF Row, Active
  <2>4. CASE e \notin Active /\ ~(e \in Trash /\ vault[e].past = "no")
    BY <1>1, <2>4 DEF Reencrypt, ReencryptEntries, Active, Trash
  <2> QED
    BY <2>2, <2>3, <2>4
<1>3. ASSUME NEW g \in history' PROVE g.key = w.target
  <2>1. \A h \in history : [entry |-> h.entry, version |-> h.version] \in w.history
    BY <1>1 DEF ArchiveIds
  <2>2. PICK h \in history : g = [h EXCEPT !.key = w.target, !.past = "no"]
    BY <2>1 DEF Reencrypt, ReencryptHistory
  <2>3. h \in Archived
    OBVIOUS
  <2> QED
    BY <2>2, <2>3 DEF Archived
<1>4. ASSUME NEW f \in Attachments, files'[f].state = "stored"
      PROVE  files'[f].key = w.target
  <2>1. files[f] \in File
    OBVIOUS
  <2>2. CASE f \in StoredFiles
    <3>1. files'[f] = [files[f] EXCEPT !.key = w.target, !.past = "no"]
      BY <1>1, <2>2 DEF Reencrypt, ReencryptFiles
    <3> QED
      BY <2>1, <3>1 DEF File
  <2>3. CASE f \notin StoredFiles
    BY <1>1, <1>4, <2>3 DEF Reencrypt, ReencryptFiles, StoredFiles
  <2> QED
    BY <2>2, <2>3
<1> QED
    BY <1>2, <1>3, <1>4 DEF Reencrypt, NoKit

\* A confirmed reset leaves no ciphertext at all.
LEMMA ResetEmpties ==
    ASSUME TypeInv, NoOrphans, CommitReset
    PROVE  /\ \A e \in Entries : vault'[e].state \notin {"active", "trash"}
           /\ history' = {}
           /\ \A f \in Attachments : files'[f].state # "stored"
           /\ kit'.key = NoKey
<1> USE DEF TypeInv, TypeOK
<1>1. Destroy(Active \cup Trash) /\ kit' = NoKit
    BY DEF CommitReset
<1>2. \A e \in Entries : vault'[e].state \notin {"active", "trash"}
    BY <1>1 DEF Destroy, BlankRow, Active, Trash
<1>3. history' = {}
    BY <1>1 DEF Destroy, NoOrphans
<1>4. \A f \in Attachments : files'[f].state # "stored"
    BY <1>1 DEF Destroy, NoOrphans, BlankFile, StoredFiles
<1> QED
    BY <1>1, <1>2, <1>3, <1>4 DEF NoKit

\* An edit leaves in the history what it held and what it archives.
LEMMA UpdateArchives ==
    ASSUME NEW d \in Devices, CommitUpdate(d), NEW h \in history'
    PROVE  \/ h \in history
           \/ LET e == pending[d].call.entry
              IN  h.entry = e /\ h.key = vault[e].key /\ h.past = vault[e].past
<1> DEFINE e == pending[d].call.entry
           old == [entry |-> e, version |-> vault[e].version, key |-> vault[e].key,
                   past |-> vault[e].past]
<1>1. history' = Archive(e) \/ history' = history
    BY DEF CommitUpdate
<1>2. Archive(e) \subseteq history \cup {old}
    BY DEF Archive
<1> QED
    BY <1>1, <1>2

\* A request reads the state of its entry again in its transaction, so no
\* archived password and no file is added to an entry that is gone.
LEMMA OrphanStep == TypeInv /\ NoOrphans /\ [Next]_vars => NoOrphans'
<1> SUFFICES ASSUME TypeInv, NoOrphans, [Next]_vars PROVE NoOrphans'
    OBVIOUS
<1> USE DEF TypeInv, TypeOK, NoOrphans
<1>1. ASSUME UNCHANGED <<vault, history, files>> PROVE NoOrphans'
    BY <1>1 DEF Active, Trash, StoredFiles
<1>2. ASSUME NEW d \in Devices,
             \/ LoginVerify(d) \/ LoginIssue(d) \/ EndSession(d) \/ Accept(d) \/ Refuse(d)
             \/ CommitSaveKit(d) \/ CommitDeleteKit(d) \/ CommitEmail(d)
             \/ StartRekey(d) \/ ExportVault(d) \/ ExportVaultHistory(d)
             \/ CollectAttachments(d) \/ SubmitRekey(d) \/ AbandonRekey(d)
      PROVE  NoOrphans'
    BY <1>1, <1>2 DEF LoginVerify, LoginIssue, EndSession, Accept, Refuse, CommitSaveKit,
       CommitDeleteKit, CommitEmail, StartRekey, ExportVault, ExportVaultHistory,
       CollectAttachments, SubmitRekey, AbandonRekey, stored
<1>3. ASSUME NEW d \in Devices, CommitInsert(d) PROVE NoOrphans'
    BY <1>3 DEF CommitInsert, Active, Trash, StoredFiles
<1>4. ASSUME NEW d \in Devices, CommitUpdate(d) PROVE NoOrphans'
  <2> DEFINE e == pending[d].call.entry
  <2>1. e \in Entries /\ vault[e].state = "active"
    BY <1>4 DEF CommitUpdate, Asks, Request, Call
  <2>2. \A h \in history' : h \in history \/ h.entry = e
    BY <1>4, UpdateArchives
  <2>3. Active' = Active /\ Trash' = Trash /\ StoredFiles' = StoredFiles
    BY <1>4, <2>1 DEF CommitUpdate, Active, Trash, StoredFiles
  <2> QED
    BY <1>4, <2>1, <2>2, <2>3 DEF CommitUpdate, Active
<1>5. ASSUME NEW d \in Devices, CommitAttach(d) PROVE NoOrphans'
  <2> DEFINE e == pending[d].call.entry
  <2>1. e \in Active
    BY <1>5 DEF CommitAttach, Asks, Request, Call, Active
  <2>2. \A f \in StoredFiles' : (f \in StoredFiles /\ files'[f] = files[f]) \/ files'[f].entry = e
    BY <1>5 DEF CommitAttach, StoredFiles
  <2> QED
    BY <1>5, <2>1, <2>2 DEF CommitAttach, Active, Trash
<1>6. ASSUME NEW d \in Devices, CommitDeleteFile(d) PROVE NoOrphans'
    BY <1>6 DEF CommitDeleteFile, BlankFile, Active, Trash, StoredFiles
<1>7. ASSUME NEW d \in Devices, CommitDelete(d) \/ CommitRestore(d) PROVE NoOrphans'
  <2>1. pending[d].call.entry \in Entries /\ vault[pending[d].call.entry] \in Row
    BY <1>7 DEF CommitDelete, CommitRestore, Asks, Request, Call
  <2>2. (Active \cup Trash) \subseteq (Active \cup Trash)'
    BY <1>7, <2>1 DEF CommitDelete, CommitRestore, Active, Trash, Row
  <2>3. UNCHANGED <<history, files>>
    BY <1>7 DEF CommitDelete, CommitRestore
  <2> QED
    BY <2>2, <2>3 DEF StoredFiles
<1>8. ASSUME NEW gone, Destroy(gone) PROVE NoOrphans'
  <2>1. \A e \in (Active \cup Trash) \ gone : e \in (Active \cup Trash)'
    BY <1>8 DEF Destroy, Active, Trash
  <2>2. \A f \in StoredFiles' : f \in StoredFiles /\ files'[f] = files[f] /\ files[f].entry \notin gone
    BY <1>8 DEF Destroy, StoredFiles, BlankFile
  <2> QED
    BY <1>8, <2>1, <2>2 DEF Destroy
<1>9. ASSUME NEW d \in Devices, CommitPurge(d) PROVE NoOrphans'
    BY <1>8, <1>9 DEF CommitPurge
<1>10. ASSUME PurgeOldTrash \/ CommitReset PROVE NoOrphans'
    BY <1>8, <1>10 DEF PurgeOldTrash, CommitReset
<1>11. ASSUME NEW w \in Work, Reencrypt(w) PROVE NoOrphans'
  <2>1. (Active \cup Trash) \subseteq (Active \cup Trash)'
    <3> SUFFICES ASSUME NEW e \in Active \cup Trash PROVE e \in (Active \cup Trash)'
        OBVIOUS
    <3>1. vault[e] \in Row /\ e \in Entries
      BY DEF Active, Trash
    <3>2. vault'[e].state = vault[e].state
      BY <1>11, <3>1 DEF Reencrypt, ReencryptEntries, Row
    <3> QED
      BY <3>1, <3>2 DEF Active, Trash
  <2>2. \A g \in history' : \E h \in history : g.entry = h.entry
    BY <1>11 DEF Reencrypt, ReencryptHistory, Archived
  <2>3. ASSUME NEW f \in StoredFiles' PROVE f \in StoredFiles /\ files'[f].entry = files[f].entry
    <3>1. f \in Attachments /\ files[f] \in File
      BY DEF StoredFiles
    <3>2. files'[f].state = files[f].state /\ files'[f].entry = files[f].entry
      BY <1>11, <3>1 DEF Reencrypt, ReencryptFiles, File
    <3> QED
      BY <3>1, <3>2 DEF StoredFiles
  <2> QED
    BY <2>1, <2>2, <2>3
<1>12. ASSUME NEW d \in Devices, CommitRekey(d) PROVE NoOrphans'
    BY <1>11, <1>12 DEF CommitRekey
<1>13. ASSUME CommitRecovery PROVE NoOrphans'
    BY <1>11, <1>13 DEF CommitRecovery
<1>14. ASSUME \/ RequestPasswordReset \/ DropCode
              \/ GetRecoveryData \/ RecoveryReadEntries \/ RecoveryReadHistory
              \/ RecoveryReadFiles \/ SubmitRecovery \/ AbandonRecovery
              \/ SubmitReset \/ AbandonReset
       PROVE  NoOrphans'
    BY <1>1, <1>14 DEF RequestPasswordReset, DropCode, GetRecoveryData,
       RecoveryReadEntries, RecoveryReadHistory, RecoveryReadFiles, SubmitRecovery,
       AbandonRecovery, SubmitReset, AbandonReset, stored
<1>15. CASE UNCHANGED vars
    BY <1>1, <1>15 DEF vars, stored
<1> QED
    BY <1>2, <1>3, <1>4, <1>5, <1>6, <1>7, <1>9, <1>10, <1>12, <1>13, <1>14, <1>15
    DEF Next, DeviceStep, AccountStep

\* A ciphertext written by a request is under the key of its session; a
\* change of key re-encrypts or removes all the others.
LEMMA KeyStep ==
    TypeInv /\ SessionInv /\ NoOrphans /\ KeyInv /\ [Next]_vars => KeyInv'
<1> SUFFICES ASSUME TypeInv, SessionInv, NoOrphans, KeyInv, [Next]_vars PROVE KeyInv'
    OBVIOUS
<1> USE DEF TypeInv, TypeOK, KeyInv, Opens
<1>1. ASSUME UNCHANGED <<password_hash, stored>> PROVE KeyInv'
    BY <1>1 DEF stored, Active, Trash, StoredFiles
<1>2. ASSUME NEW d \in Devices,
             \/ LoginVerify(d) \/ LoginIssue(d) \/ EndSession(d) \/ Accept(d) \/ Refuse(d)
             \/ CommitEmail(d) \/ StartRekey(d) \/ ExportVault(d) \/ ExportVaultHistory(d)
             \/ CollectAttachments(d) \/ SubmitRekey(d) \/ AbandonRekey(d)
      PROVE  KeyInv'
    BY <1>1, <1>2 DEF LoginVerify, LoginIssue, EndSession, Accept, Refuse, CommitEmail,
       StartRekey, ExportVault, ExportVaultHistory, CollectAttachments, SubmitRekey,
       AbandonRekey, account
<1>3. ASSUME NEW d \in Devices, pending[d] # NoRequest
      PROVE  PastOf(pending[d].late) # "no" \/ pending[d].key = password_hash
    BY <1>3 DEF SessionInv, PastOf
<1>4. ASSUME NEW d \in Devices, CommitInsert(d) PROVE KeyInv'
  <2>1. pending[d] # NoRequest
    BY <1>4 DEF CommitInsert, Asks
  <2>2. \A e \in (Active \cup Trash)' : Opens(vault'[e])
    BY <1>3, <1>4, <2>1 DEF CommitInsert, Active, Trash
  <2>3. UNCHANGED <<password_hash, kit, history, files>>
    BY <1>4 DEF CommitInsert, account
  <2> QED
    BY <2>2, <2>3 DEF StoredFiles
<1>5. ASSUME NEW d \in Devices, CommitUpdate(d) PROVE KeyInv'
  <2> DEFINE e == pending[d].call.entry
  <2>1. pending[d] # NoRequest /\ e \in Active
    BY <1>5 DEF CommitUpdate, Asks, Request, Call, Active
  <2>2. \A x \in (Active \cup Trash)' : Opens(vault'[x])
    BY <1>3, <1>5, <2>1 DEF CommitUpdate, Active, Trash
  <2>3. UNCHANGED <<password_hash, kit, files>>
    BY <1>5 DEF CommitUpdate, account
  <2>4. \A h \in history' : Opens(h)
    BY <1>5, <2>1, UpdateArchives
  <2> QED
    BY <2>2, <2>3, <2>4 DEF StoredFiles
<1>6. ASSUME NEW d \in Devices, CommitAttach(d) PROVE KeyInv'
  <2>1. pending[d] # NoRequest
    BY <1>6 DEF CommitAttach, Asks
  <2>2. \A f \in StoredFiles' : Opens(files'[f])
    BY <1>3, <1>6, <2>1 DEF CommitAttach, StoredFiles
  <2>3. UNCHANGED <<password_hash, kit, vault, history>>
    BY <1>6 DEF CommitAttach, account
  <2> QED
    BY <2>2, <2>3 DEF Active, Trash
<1>7. ASSUME NEW d \in Devices, CommitSaveKit(d) PROVE KeyInv'
  <2>1. pending[d] # NoRequest
    BY <1>7 DEF CommitSaveKit, Asks
  <2>2. kit'.key # NoKey => kit'.past # "no" \/ kit'.key = password_hash
    BY <1>3, <1>7, <2>1 DEF CommitSaveKit
  <2>3. UNCHANGED <<password_hash, vault, history, files>>
    BY <1>7 DEF CommitSaveKit, account
  <2> QED
    BY <2>2, <2>3 DEF Active, Trash, StoredFiles
<1>8. ASSUME NEW d \in Devices, CommitDeleteKit(d) PROVE KeyInv'
    BY <1>8 DEF CommitDeleteKit, account, NoKit, Active, Trash, StoredFiles
<1>9. ASSUME NEW d \in Devices, CommitDeleteFile(d) PROVE KeyInv'
    BY <1>9 DEF CommitDeleteFile, account, BlankFile, Active, Trash, StoredFiles
<1>10. ASSUME NEW d \in Devices, CommitDelete(d) \/ CommitRestore(d) PROVE KeyInv'
  <2> DEFINE e == pending[d].call.entry
  <2>1. e \in Entries /\ vault[e] \in Row /\ e \in Active \cup Trash
    BY <1>10 DEF CommitDelete, CommitRestore, Asks, Request, Call, Active, Trash
  <2>2. \A x \in (Active \cup Trash)' :
          x \in Active \cup Trash /\ vault'[x].key = vault[x].key /\ vault'[x].past = vault[x].past
    BY <1>10, <2>1 DEF CommitDelete, CommitRestore, Active, Trash, Row
  <2>3. UNCHANGED <<password_hash, kit, history, files>>
    BY <1>10 DEF CommitDelete, CommitRestore, account
  <2> QED
    BY <2>2, <2>3 DEF StoredFiles
<1>11. ASSUME NEW gone, Destroy(gone), UNCHANGED <<password_hash, kit>> PROVE KeyInv'
    BY <1>11 DEF Destroy, BlankRow, BlankFile, Active, Trash, StoredFiles
<1>12. ASSUME NEW d \in Devices, CommitPurge(d) PROVE KeyInv'
    BY <1>11, <1>12 DEF CommitPurge, account
<1>13. ASSUME PurgeOldTrash PROVE KeyInv'
    BY <1>11, <1>13 DEF PurgeOldTrash, account
<1>14. ASSUME NEW w \in Work, Reencrypt(w) PROVE KeyInv'
  <2>1. password_hash' = w.target
    BY <1>14 DEF Reencrypt
  <2> QED
    BY <1>14, <2>1, ReencryptReaches DEF Active, Trash, StoredFiles
<1>15. ASSUME NEW d \in Devices, CommitRekey(d) PROVE KeyInv'
    BY <1>14, <1>15 DEF CommitRekey
<1>16. ASSUME CommitRecovery PROVE KeyInv'
    BY <1>14, <1>16 DEF CommitRecovery
<1>17. ASSUME CommitReset PROVE KeyInv'
    BY <1>17, ResetEmpties DEF Active, Trash, StoredFiles
<1>18. ASSUME \/ RequestPasswordReset \/ DropCode
              \/ GetRecoveryData \/ RecoveryReadEntries \/ RecoveryReadHistory
              \/ RecoveryReadFiles \/ SubmitRecovery \/ AbandonRecovery
              \/ SubmitReset \/ AbandonReset
       PROVE  KeyInv'
    BY <1>1, <1>18 DEF RequestPasswordReset, DropCode, GetRecoveryData,
       RecoveryReadEntries, RecoveryReadHistory, RecoveryReadFiles, SubmitRecovery,
       AbandonRecovery, SubmitReset, AbandonReset
<1>19. CASE UNCHANGED vars
    BY <1>1, <1>19 DEF vars, stored
<1> QED
    BY <1>2, <1>4, <1>5, <1>6, <1>7, <1>8, <1>9, <1>10, <1>12, <1>13, <1>15, <1>16, <1>17,
       <1>18, <1>19
    DEF Next, DeviceStep, AccountStep

\* The password hash is written by three transactions only, and each of them
\* leaves every ciphertext it keeps under the key it installs.
LEMMA KeyChangeStep ==
    ASSUME TypeInv, NoOrphans, [Next]_vars, password_hash' # password_hash
    PROVE  /\ \A e \in Entries : vault'[e].state = "active" => vault'[e].key = password_hash'
           /\ \A h \in history' : h.key = password_hash'
           /\ \A f \in Attachments : files'[f].state = "stored" => files'[f].key = password_hash'
           /\ kit'.key = NoKey
<1> USE DEF TypeInv, TypeOK
<1>1. (\E d \in Devices : CommitRekey(d)) \/ CommitRecovery \/ CommitReset
  <2>1. ASSUME NEW d \in Devices, DeviceStep(d) PROVE CommitRekey(d)
    BY <2>1 DEF DeviceStep, LoginVerify, LoginIssue, EndSession, Accept, Refuse, CommitInsert,
       CommitUpdate, CommitAttach, CommitDeleteFile, CommitDelete, CommitRestore, CommitPurge,
       CommitSaveKit, CommitDeleteKit, CommitEmail, StartRekey, ExportVault,
       ExportVaultHistory, CollectAttachments, SubmitRekey, AbandonRekey, account
  <2>2. ASSUME AccountStep PROVE CommitRecovery \/ CommitReset
    BY <2>2 DEF AccountStep, PurgeOldTrash, RequestPasswordReset, DropCode, GetRecoveryData,
       RecoveryReadEntries, RecoveryReadHistory, RecoveryReadFiles, SubmitRecovery,
       AbandonRecovery, SubmitReset, AbandonReset, account
  <2> QED
    BY <2>1, <2>2 DEF Next, vars
<1>2. CASE CommitReset
    BY <1>2, ResetEmpties
<1>3. ASSUME NEW w \in Work, Reencrypt(w) PROVE password_hash' = w.target
    BY <1>3 DEF Reencrypt
<1>4. CASE (\E d \in Devices : CommitRekey(d)) \/ CommitRecovery
  <2>1. \E w \in Work : Reencrypt(w)
    BY <1>4 DEF CommitRekey, CommitRecovery
  <2> QED
    BY <1>3, <2>1, ReencryptReaches
<1> QED
    BY <1>1, <1>2, <1>4

\* An entry of the vault goes with a confirmed reset only.
LEMMA SurvivalStep ==
    ASSUME TypeInv, [Next]_vars, NEW e \in Active, vault'[e].state = "gone"
    PROVE  reset # NoKey /\ password_hash' = reset
<1> USE DEF TypeInv, TypeOK, Active
<1>1. ASSUME NEW gone, e \notin gone, Destroy(gone) PROVE FALSE
    BY <1>1 DEF Destroy
<1>2. ASSUME NEW d \in Devices, CommitPurge(d) PROVE FALSE
    BY <1>1, <1>2 DEF CommitPurge, Trash
<1>3. ASSUME PurgeOldTrash PROVE FALSE
    BY <1>1, <1>3 DEF PurgeOldTrash, Trash
<1>4. ASSUME NEW w \in Work, Reencrypt(w) PROVE FALSE
  <2>1. vault[e] \in Row
    OBVIOUS
  <2> QED
    BY <1>4, <2>1 DEF Reencrypt, ReencryptEntries, Row
<1>5. ASSUME NEW d \in Devices, CommitInsert(d) \/ CommitUpdate(d) PROVE FALSE
  <2>1. ASSUME CommitInsert(d) PROVE FALSE
    BY <2>1 DEF CommitInsert
  <2>2. ASSUME CommitUpdate(d) PROVE FALSE
    <3>1. pending[d].call.entry \in Entries
      BY <2>2 DEF CommitUpdate, Asks, Request, Call
    <3>2. vault'[e].state \in {"active", vault[e].state}
      BY <2>2, <3>1 DEF CommitUpdate
    <3> QED
      BY <3>2
  <2> QED
    BY <1>5, <2>1, <2>2
<1>6. ASSUME NEW d \in Devices, CommitDelete(d) \/ CommitRestore(d) PROVE FALSE
  <2>1. vault[e] \in Row
    OBVIOUS
  <2> QED
    BY <1>6, <2>1 DEF CommitDelete, CommitRestore, Row
<1>7. ASSUME UNCHANGED vault PROVE FALSE
    BY <1>7
<1>8. ASSUME NEW d \in Devices, DeviceStep(d) PROVE FALSE
  <2>1. CASE CommitPurge(d) \/ CommitRekey(d) \/ CommitInsert(d) \/ CommitUpdate(d)
             \/ CommitDelete(d) \/ CommitRestore(d)
    BY <1>2, <1>4, <1>5, <1>6, <2>1 DEF CommitRekey
  <2>2. CASE ~(CommitPurge(d) \/ CommitRekey(d) \/ CommitInsert(d) \/ CommitUpdate(d)
               \/ CommitDelete(d) \/ CommitRestore(d))
    BY <1>7, <1>8, <2>2 DEF DeviceStep, LoginVerify, LoginIssue, EndSession, Accept, Refuse,
       CommitAttach, CommitDeleteFile, CommitSaveKit, CommitDeleteKit, CommitEmail, StartRekey,
       ExportVault, ExportVaultHistory, CollectAttachments, SubmitRekey, AbandonRekey, stored
  <2> QED
    BY <2>1, <2>2
<1>9. ASSUME AccountStep PROVE CommitReset
  <2>1. ~PurgeOldTrash /\ ~CommitRecovery
    BY <1>3, <1>4 DEF CommitRecovery
  <2> QED
    BY <1>7, <1>9, <2>1 DEF AccountStep, RequestPasswordReset, DropCode, GetRecoveryData,
       RecoveryReadEntries, RecoveryReadHistory, RecoveryReadFiles, SubmitRecovery,
       AbandonRecovery, SubmitReset, AbandonReset, stored
<1>10. CommitReset
    BY <1>7, <1>8, <1>9 DEF Next, vars
<1> QED
    BY <1>10 DEF CommitReset

\* The archive of an entry is finite, holds one password of a version, and
\* what HistoryInv says of it.
OneOfVersion ==
    \A g, h \in history : g.entry = h.entry /\ g.version = h.version => g = h

ArchiveInv == IsFiniteSet(history) /\ OneOfVersion /\ HistoryInv

Of(e, rows) == {h \in rows : h.entry = e}

\* Among archived passwords of different versions, at most n have fewer than
\* n newer ones: the number of newer ones tells them apart.
LEMMA NewestBound ==
    ASSUME NEW rows \in SUBSET Archived, IsFiniteSet(rows), NEW n \in Nat \ {0}, NEW e,
           \A g, h \in rows : g.entry = h.entry /\ g.version = h.version => g = h
    PROVE  Cardinality({h \in Of(e, rows) : Cardinality(Newer(h, rows)) < n}) <= n
<1> DEFINE kept == {h \in Of(e, rows) : Cardinality(Newer(h, rows)) < n}
           rank == [h \in kept |-> Cardinality(Newer(h, rows))]
<1>1. ASSUME NEW h \in rows
      PROVE  IsFiniteSet(Newer(h, rows)) /\ Cardinality(Newer(h, rows)) \in Nat
  <2>1. Newer(h, rows) \in SUBSET rows
    BY DEF Newer
  <2> QED
    BY <2>1, FS_Subset, FS_CardinalityType
<1>2. ASSUME NEW g \in kept, NEW h \in kept, g.version < h.version
      PROVE  rank[g] # rank[h]
  <2>1. Newer(h, rows) \in SUBSET Newer(g, rows) /\ h \in Newer(g, rows) /\ h \notin Newer(h, rows)
    BY <1>2 DEF Newer, Of, Archived
  <2>2. Cardinality(Newer(h, rows)) # Cardinality(Newer(g, rows))
    BY <1>1, <2>1, FS_Subset DEF Of
  <2> QED
    BY <2>2
<1>3. ASSUME NEW g \in kept, NEW h \in kept, g # h
      PROVE  rank[g] # rank[h]
  <2>1. g.version # h.version /\ g.version \in Nat /\ h.version \in Nat
    BY <1>3 DEF Of, Archived
  <2>2. g.version < h.version \/ h.version < g.version
    BY <2>1
  <2> QED
    BY <1>2, <2>2
<1>4. rank \in [kept -> 0 .. n - 1]
    BY <1>1 DEF Of
<1>5. rank \in Injection(kept, 0 .. n - 1)
    BY <1>3, <1>4 DEF Injection, IsInjective
<1>6. IsFiniteSet(0 .. n - 1) /\ Cardinality(0 .. n - 1) = n
    BY FS_Interval
<1> QED
    BY <1>5, <1>6, FS_Injection

\* What an edit archives.
Replaced(e) == [entry |-> e, version |-> vault[e].version, key |-> vault[e].key,
                past |-> vault[e].past]

\* An edit that archives keeps the archive of its entry at the cap.
LEMMA ArchiveCaps ==
    ASSUME TypeInv, ArchiveInv, NEW e \in Entries, vault[e].key \in Key
    PROVE  /\ Cardinality(Of(e, Archive(e))) <= MaxHistory
           /\ \A g, h \in Archive(e) :
                g.entry = h.entry /\ g.version = h.version => g = h
           /\ \A x \in Entries \ {e} : Of(x, Archive(e)) = Of(x, history)
           /\ IsFiniteSet(Archive(e))
<1> DEFINE rows == history \cup {Replaced(e)}
<1> USE DEF TypeInv, TypeOK, ArchiveInv
<1>1. Replaced(e) \in Archived /\ Replaced(e).entry = e /\ Replaced(e).version = vault[e].version
    BY DEF Replaced, Archived, Row
<1>2. rows \in SUBSET Archived /\ IsFiniteSet(rows)
    BY <1>1, FS_AddElement
<1>3. \A h \in history : h.entry = e => h.version # vault[e].version
    BY DEF HistoryInv, Archived, Row
<1>4. \A g, h \in rows : g.entry = h.entry /\ g.version = h.version => g = h
    BY <1>1, <1>3 DEF OneOfVersion
<1>5. Archive(e) = {h \in rows : h.entry = e => Cardinality(Newer(h, rows)) < MaxHistory}
    BY DEF Archive, Replaced
<1>6. Of(e, Archive(e)) = {h \in Of(e, rows) : Cardinality(Newer(h, rows)) < MaxHistory}
    BY <1>5 DEF Of
<1>7. Cardinality(Of(e, Archive(e))) <= MaxHistory
    BY <1>2, <1>4, <1>6, NewestBound, AccountAssumption
<1>8. \A x \in Entries \ {e} : Of(x, Archive(e)) = Of(x, history)
    BY <1>1, <1>5 DEF Of
<1>9. Archive(e) \in SUBSET rows
    BY <1>5
<1> QED
    BY <1>2, <1>4, <1>7, <1>8, <1>9, FS_Subset

\* A smaller archive, or one whose passwords are encrypted again, is within
\* the cap when the former was.
LEMMA FewerArchived ==
    ASSUME ArchiveInv, NEW rows, NEW e \in Entries, rows \in SUBSET history
    PROVE  IsFiniteSet(rows) /\ Cardinality(Of(e, rows)) <= MaxHistory
<1>1. Of(e, rows) \in SUBSET Of(e, history) /\ Of(e, history) \in SUBSET history
    BY DEF Of
<1>2. IsFiniteSet(Of(e, history)) /\ IsFiniteSet(rows)
    BY <1>1, FS_Subset DEF ArchiveInv
<1>3. Cardinality(Of(e, rows)) <= Cardinality(Of(e, history))
    BY <1>1, <1>2, FS_Subset
<1>4. Cardinality(Of(e, history)) <= MaxHistory
    BY DEF ArchiveInv, HistoryInv, Of
<1>5. /\ Cardinality(Of(e, rows)) \in Nat /\ Cardinality(Of(e, history)) \in Nat
      /\ MaxHistory \in Nat
    BY <1>1, <1>2, FS_Subset, FS_CardinalityType, AccountAssumption
<1> QED
    BY <1>2, <1>3, <1>4, <1>5

\* Encrypting the archive again changes keys only.
LEMMA ReencryptArchive ==
    ASSUME TypeInv, ArchiveInv, NEW w \in Work, ReencryptHistory(w)
    PROVE  /\ IsFiniteSet(history')
           /\ OneOfVersion'
           /\ \A e \in Entries : Cardinality(Of(e, history')) <= MaxHistory
           /\ \A g \in history' : \E h \in history : g.entry = h.entry /\ g.version = h.version
           /\ \A h \in history : \E g \in history' : g.entry = h.entry /\ g.version = h.version
<1> DEFINE new == [h \in history |->
                     IF [entry |-> h.entry, version |-> h.version] \in w.history
                       THEN [h EXCEPT !.key = w.target, !.past = "no"] ELSE h]
<1> USE DEF TypeInv, TypeOK, ArchiveInv
<1>1. history' = {new[h] : h \in history}
    BY DEF ReencryptHistory
<1>2. \A h \in history : new[h].entry = h.entry /\ new[h].version = h.version
    BY DEF Archived
<1> HIDE DEF new
<1>3. ASSUME NEW S \in SUBSET history
      PROVE  /\ IsFiniteSet({new[h] : h \in S})
             /\ Cardinality({new[h] : h \in S}) <= Cardinality(S)
  <2> DEFINE onS == [h \in S |-> new[h]]
  <2>1. onS \in Surjection(S, {new[h] : h \in S})
    BY DEF Surjection
  <2>2. IsFiniteSet(S)
    BY FS_Subset
  <2> QED
    BY <2>1, <2>2, FS_Surjection
<1>4. IsFiniteSet(history')
    BY <1>1, <1>3
<1>5. OneOfVersion'
    BY <1>1, <1>2 DEF OneOfVersion
<1>6. ASSUME NEW e \in Entries PROVE Cardinality(Of(e, history')) <= MaxHistory
  <2>1. Of(e, history') = {new[h] : h \in Of(e, history)} /\ Of(e, history) \in SUBSET history
    BY <1>1, <1>2 DEF Of
  <2>2. IsFiniteSet(Of(e, history')) /\ Cardinality(Of(e, history')) <= Cardinality(Of(e, history))
    BY <1>3, <2>1
  <2>3. IsFiniteSet(Of(e, history)) /\ Cardinality(Of(e, history)) <= MaxHistory
    BY FewerArchived, <2>1, FS_Subset
  <2> QED
    BY <2>2, <2>3, FS_CardinalityType, AccountAssumption
<1> QED
    BY <1>1, <1>2, <1>4, <1>5, <1>6

\* A row is inserted under an identifier that was never used, edited under the
\* next version, and keeps its version in every other step.
LEMMA VersionStep ==
    ASSUME IInv, [Next]_vars, NEW e \in Entries, ~ \E d \in Devices : CommitUpdate(d)
    PROVE  \/ vault[e].state = "unused"
           \/ vault'[e].state = "gone"
           \/ vault'[e].version = vault[e].version
<1> USE DEF IInv, TypeInv, TypeOK
<1>1. vault[e] \in Row
    OBVIOUS
<1>2. ASSUME UNCHANGED vault PROVE vault'[e].version = vault[e].version
    BY <1>2
<1>3. ASSUME NEW gone, Destroy(gone)
      PROVE  vault'[e].state = "gone" \/ vault'[e].version = vault[e].version
    BY <1>3 DEF Destroy, BlankRow
<1>4. ASSUME NEW w \in Work, Reencrypt(w) PROVE vault'[e].version = vault[e].version
    BY <1>1, <1>4 DEF Reencrypt, ReencryptEntries, Row
<1>5. ASSUME NEW d \in Devices, CommitInsert(d)
      PROVE  vault[e].state = "unused" \/ vault'[e].version = vault[e].version
    BY <1>5 DEF CommitInsert
<1>6. ASSUME NEW d \in Devices, CommitDelete(d) \/ CommitRestore(d)
      PROVE  vault'[e].version = vault[e].version
    BY <1>1, <1>6 DEF CommitDelete, CommitRestore, Row
<1>7. CASE \E d \in Devices : CommitPurge(d) \/ CommitRekey(d) \/ CommitInsert(d)
                              \/ CommitDelete(d) \/ CommitRestore(d)
    BY <1>3, <1>4, <1>5, <1>6, <1>7 DEF CommitPurge, CommitRekey
<1>8. CASE PurgeOldTrash \/ CommitRecovery \/ CommitReset
    BY <1>3, <1>4, <1>8 DEF PurgeOldTrash, CommitRecovery, CommitReset
<1>9. ASSUME NEW d \in Devices, DeviceStep(d),
             ~ (CommitPurge(d) \/ CommitRekey(d) \/ CommitInsert(d) \/ CommitUpdate(d)
                \/ CommitDelete(d) \/ CommitRestore(d))
      PROVE  UNCHANGED vault
    BY <1>9 DEF DeviceStep, LoginVerify, LoginIssue, EndSession, Accept, Refuse,
       CommitAttach, CommitDeleteFile, CommitSaveKit, CommitDeleteKit, CommitEmail, StartRekey,
       ExportVault, ExportVaultHistory, CollectAttachments, SubmitRekey, AbandonRekey, stored
<1>10. ASSUME AccountStep, ~ (PurgeOldTrash \/ CommitRecovery \/ CommitReset)
       PROVE  UNCHANGED vault
    BY <1>10 DEF AccountStep, RequestPasswordReset, DropCode, GetRecoveryData,
       RecoveryReadEntries, RecoveryReadHistory, RecoveryReadFiles, SubmitRecovery,
       AbandonRecovery, SubmitReset, AbandonReset, stored
<1>11. CASE UNCHANGED vars
    BY <1>2, <1>11 DEF vars
<1> QED
    BY <1>2, <1>7, <1>8, <1>9, <1>10, <1>11 DEF Next

\* The archive is written by edits, by changes of key and by the end of an
\* entry.
LEMMA HistoryWriters ==
    ASSUME IInv, [Next]_vars
    PROVE  \/ \E d \in Devices : CommitUpdate(d)
           \/ \E w \in Work : ReencryptHistory(w) /\ \A e \in Entries : vault'[e].state = vault[e].state
           \/ \E gone : Destroy(gone)
           \/ UNCHANGED history
<1> USE DEF IInv, TypeInv, TypeOK
<1>1. ASSUME NEW w \in Work, Reencrypt(w)
      PROVE  ReencryptHistory(w) /\ \A e \in Entries : vault'[e].state = vault[e].state
  <2>1. ASSUME NEW e \in Entries PROVE vault'[e].state = vault[e].state
    <3>1. vault[e] \in Row
      OBVIOUS
    <3> QED
      BY <1>1, <3>1 DEF Reencrypt, ReencryptEntries, Row
  <2> QED
    BY <1>1, <2>1 DEF Reencrypt
<1>2. ASSUME NEW d \in Devices, DeviceStep(d), ~ (CommitPurge(d) \/ CommitRekey(d) \/ CommitUpdate(d))
      PROVE  UNCHANGED history
    BY <1>2 DEF DeviceStep, LoginVerify, LoginIssue, EndSession, Accept, Refuse, CommitInsert,
       CommitDelete, CommitRestore,
       CommitAttach, CommitDeleteFile, CommitSaveKit, CommitDeleteKit, CommitEmail, StartRekey,
       ExportVault, ExportVaultHistory, CollectAttachments, SubmitRekey, AbandonRekey, stored
<1>3. ASSUME AccountStep, ~ (PurgeOldTrash \/ CommitRecovery \/ CommitReset)
      PROVE  UNCHANGED history
    BY <1>3 DEF AccountStep, RequestPasswordReset, DropCode, GetRecoveryData,
       RecoveryReadEntries, RecoveryReadHistory, RecoveryReadFiles, SubmitRecovery,
       AbandonRecovery, SubmitReset, AbandonReset, stored
<1>4. CASE (\E d \in Devices : CommitPurge(d)) \/ PurgeOldTrash \/ CommitReset
    BY <1>4 DEF CommitPurge, PurgeOldTrash, CommitReset
<1>5. CASE (\E d \in Devices : CommitRekey(d)) \/ CommitRecovery
    BY <1>1, <1>5 DEF CommitRekey, CommitRecovery
<1>6. CASE UNCHANGED vars
    BY <1>6 DEF vars, stored
<1> QED
    BY <1>2, <1>3, <1>4, <1>5, <1>6 DEF Next

LEMMA ArchiveStep == IInv /\ IInv' /\ ArchiveInv /\ [Next]_vars => ArchiveInv'
<1> SUFFICES ASSUME IInv, IInv', ArchiveInv, [Next]_vars PROVE ArchiveInv'
    OBVIOUS
<1> USE DEF IInv, TypeInv, TypeOK
<1>1. history \in SUBSET Archived /\ history' \in SUBSET Archived
    OBVIOUS
<1>2. ASSUME /\ IsFiniteSet(history') /\ OneOfVersion'
             /\ \A e \in Entries : Cardinality(Of(e, history')) <= MaxHistory,
             \A h \in history' : h.version < vault'[h.entry].version
      PROVE  ArchiveInv'
    BY <1>2 DEF ArchiveInv, HistoryInv, Of
<1>3. ASSUME NEW d \in Devices, CommitUpdate(d) PROVE ArchiveInv'
  <2> DEFINE e == pending[d].call.entry
  <2>1. e \in Entries /\ vault[e].key \in Key /\ vault[e] \in Row
    BY <1>3 DEF CommitUpdate, Asks, Request, Call, HoldsKey
  <2>2. vault'[e].version = vault[e].version + 1 /\ \A x \in Entries \ {e} : vault'[x] = vault[x]
    BY <1>3, <2>1 DEF CommitUpdate
  <2>3. CASE history' = history
    <3>1. ASSUME NEW h \in history PROVE h.version < vault'[h.entry].version
      <4>1. h.version < vault[h.entry].version /\ h.entry \in Entries /\ h.version \in Nat
        BY <1>1 DEF ArchiveInv, HistoryInv, Archived
      <4> QED
        BY <2>1, <2>2, <4>1 DEF Row
    <3>2. \A x \in Entries : Cardinality(Of(x, history)) <= MaxHistory
      BY DEF ArchiveInv, HistoryInv, Of
    <3> QED
      BY <1>2, <2>3, <3>1, <3>2 DEF ArchiveInv, OneOfVersion
  <2>4. CASE history' = Archive(e)
    <3>1. ASSUME NEW h \in history' PROVE h.version < vault'[h.entry].version
      <4>1. h \in history \cup {Replaced(e)}
        BY <2>4 DEF Archive, Replaced
      <4>2. CASE h \in history
        <5>1. h.version < vault[h.entry].version /\ h.entry \in Entries /\ h.version \in Nat
          BY <1>1, <4>2 DEF ArchiveInv, HistoryInv, Archived
        <5> QED
          BY <2>1, <2>2, <5>1 DEF Row
      <4>3. CASE h = Replaced(e)
        BY <2>1, <2>2, <4>3 DEF Replaced, Row
      <4> QED
        BY <4>1, <4>2, <4>3
    <3>2. OneOfVersion' /\ IsFiniteSet(history') /\ Cardinality(Of(e, history')) <= MaxHistory
      BY <2>1, <2>4, ArchiveCaps DEF OneOfVersion
    <3>3. ASSUME NEW x \in Entries PROVE Cardinality(Of(x, history')) <= MaxHistory
      <4>1. x # e => Of(x, history') = Of(x, history)
        BY <2>1, <2>4, ArchiveCaps
      <4>2. Cardinality(Of(x, history)) <= MaxHistory
        BY DEF ArchiveInv, HistoryInv, Of
      <4> QED
        BY <3>2, <4>1, <4>2
    <3> QED
      BY <1>2, <3>1, <3>2, <3>3
  <2> QED
    BY <1>3, <2>3, <2>4 DEF CommitUpdate
<1>4. ASSUME ~ \E d \in Devices : CommitUpdate(d), NEW g \in history', NEW h \in history,
             g.entry = h.entry, g.version = h.version
      PROVE  g.version < vault'[g.entry].version
  <2>1. h.version < vault[h.entry].version /\ h.entry \in Entries
    BY <1>1 DEF ArchiveInv, HistoryInv, Archived
  <2>2. vault[h.entry].state # "unused"
    BY DEF NoOrphans, Active, Trash
  <2>3. vault'[h.entry].state # "gone"
    BY <1>4 DEF NoOrphans, Active, Trash
  <2> QED
    BY <1>4, <2>1, <2>2, <2>3, VersionStep
<1>5. ASSUME ~ \E d \in Devices : CommitUpdate(d), history' \in SUBSET history PROVE ArchiveInv'
  <2>1. \A h \in history' : h.version < vault'[h.entry].version
    BY <1>4, <1>5
  <2>2. IsFiniteSet(history') /\ \A e \in Entries : Cardinality(Of(e, history')) <= MaxHistory
    <3> IsFiniteSet(history')
      BY <1>5, FS_Subset DEF ArchiveInv
    <3> QED
      BY <1>5, FewerArchived
  <2> QED
    BY <1>2, <1>5, <2>1, <2>2 DEF ArchiveInv, OneOfVersion
<1>6. ASSUME ~ \E d \in Devices : CommitUpdate(d), NEW w \in Work, ReencryptHistory(w)
      PROVE  ArchiveInv'
  <2>1. \A h \in history' : h.version < vault'[h.entry].version
    BY <1>4, <1>6, ReencryptArchive
  <2> QED
    BY <1>2, <1>6, <2>1, ReencryptArchive
<1> QED
    BY <1>3, <1>5, <1>6, HistoryWriters DEF Destroy

\* One element more or less, in sets within a bound.
LEMMA OneMore ==
    ASSUME NEW S, IsFiniteSet(S), NEW x, NEW n \in Nat, Cardinality(S) <= n,
           NEW T \in SUBSET (S \cup {x})
    PROVE  IsFiniteSet(T) /\ Cardinality(T) <= n + 1
<1> DEFINE SX == S \cup {x}
<1>1. Cardinality(S) \in Nat
    BY FS_CardinalityType
<1>2. IsFiniteSet(SX) /\ (Cardinality(SX) = Cardinality(S) \/ Cardinality(SX) = Cardinality(S) + 1)
    BY FS_AddElement
<1>3. IsFiniteSet(T) /\ Cardinality(T) <= Cardinality(SX)
    BY <1>2, FS_Subset
<1>4. Cardinality(T) \in Nat
    BY <1>3, FS_CardinalityType
<1> HIDE DEF SX
<1> QED
    BY <1>1, <1>2, <1>3, <1>4

LEMMA OneLess ==
    ASSUME NEW S, IsFiniteSet(S), NEW x \in S, NEW n \in Nat, Cardinality(S) <= n + 1,
           NEW T \in SUBSET (S \ {x})
    PROVE  IsFiniteSet(T) /\ Cardinality(T) <= n
<1> DEFINE SX == S \ {x}
<1>1. Cardinality(S) \in Nat
    BY FS_CardinalityType
<1>2. IsFiniteSet(SX) /\ Cardinality(SX) = Cardinality(S) - 1
    BY FS_RemoveElement
<1>3. IsFiniteSet(T) /\ Cardinality(T) <= Cardinality(SX)
    BY <1>2, FS_Subset
<1>4. Cardinality(T) \in Nat
    BY <1>3, FS_CardinalityType
<1> HIDE DEF SX
<1> QED
    BY <1>1, <1>2, <1>3, <1>4

\* An edit drops from the archive what has MaxHistory newer passwords only:
\* each of these has fewer, so all of them are kept.
LEMMA ArchiveDrops ==
    ASSUME TypeInv, ArchiveInv, NEW e \in Entries, vault[e].key \in Key,
           NEW h \in history, h \notin Archive(e)
    PROVE  Cardinality(Newer(h, Archive(e))) >= MaxHistory
<1> DEFINE rows == history \cup {Replaced(e)}
<1> USE DEF TypeInv, TypeOK, ArchiveInv
<1>1. Replaced(e) \in Archived /\ Replaced(e).entry = e
    BY DEF Replaced, Archived, Row
<1>2. rows \in SUBSET Archived /\ IsFiniteSet(rows) /\ MaxHistory \in Nat
    BY <1>1, FS_AddElement, AccountAssumption
<1>3. Archive(e) = {g \in rows : g.entry = e => Cardinality(Newer(g, rows)) < MaxHistory}
    BY DEF Archive, Replaced
<1>4. h.entry = e /\ ~ (Cardinality(Newer(h, rows)) < MaxHistory)
    BY <1>3
<1>5. IsFiniteSet(Of(e, rows)) /\ Cardinality(Of(e, rows)) <= MaxHistory + 1
  <2>1. Of(e, rows) \in SUBSET (Of(e, history) \cup {Replaced(e)})
    BY DEF Of
  <2>2. Of(e, history) \in SUBSET history
    BY DEF Of
  <2>3. IsFiniteSet(Of(e, history)) /\ Cardinality(Of(e, history)) <= MaxHistory
    BY <2>2, FewerArchived, FS_Subset
  <2> QED
    BY <1>2, <2>1, <2>3, OneMore
<1>6. ASSUME NEW g \in Newer(h, rows)
      PROVE  Cardinality(Newer(g, rows)) < MaxHistory
  <2>1. g \in rows /\ g.entry = e /\ g \in Archived /\ h \in Archived /\ g.version > h.version
    BY <1>2, <1>4 DEF Newer
  <2>2. /\ Newer(g, rows) \in SUBSET ((Of(e, rows) \ {h}) \ {g})
        /\ h \in Of(e, rows) /\ g \in Of(e, rows) \ {h}
    BY <1>2, <1>4, <2>1 DEF Newer, Of, Archived
  <2>3. IsFiniteSet(Of(e, rows) \ {h}) /\ Cardinality(Of(e, rows) \ {h}) <= MaxHistory
    BY <1>2, <1>5, <2>2, OneLess
  <2>4. PICK n \in Nat : MaxHistory = n + 1
    BY AccountAssumption
  <2>5. IsFiniteSet(Newer(g, rows)) /\ Cardinality(Newer(g, rows)) <= n
    <3> DEFINE S == Of(e, rows) \ {h}
    <3>1. IsFiniteSet(S) /\ Cardinality(S) <= n + 1 /\ g \in S /\ Newer(g, rows) \in SUBSET (S \ {g})
      BY <2>2, <2>3, <2>4
    <3> HIDE DEF S
    <3> QED
      BY <3>1, OneLess
  <2>6. Cardinality(Newer(g, rows)) \in Nat
    BY <2>5, FS_CardinalityType
  <2> QED
    BY <2>4, <2>5, <2>6
<1>7. Newer(h, Archive(e)) = Newer(h, rows)
    BY <1>3, <1>6 DEF Newer
<1>8. Cardinality(Newer(h, rows)) \in Nat
  <2>1. Newer(h, rows) \in SUBSET rows
    BY DEF Newer
  <2> QED
    BY <1>2, <2>1, FS_Subset, FS_CardinalityType
<1> QED
    BY <1>2, <1>4, <1>7, <1>8

LEMMA RetentionStep ==
    ASSUME IInv, ArchiveInv, [Next]_vars, NEW h \in history
    PROVE  \/ \E g \in history' : g.entry = h.entry /\ g.version = h.version
           \/ vault'[h.entry].state = "gone"
           \/ Cardinality(Newer(h, history')) >= MaxHistory
<1> USE DEF IInv, TypeInv, TypeOK
<1>1. h.entry \in Entries
    BY DEF Archived
<1>2. ASSUME NEW d \in Devices, CommitUpdate(d), h \notin history'
      PROVE  Cardinality(Newer(h, history')) >= MaxHistory
  <2> DEFINE e == pending[d].call.entry
  <2>1. e \in Entries /\ vault[e].key \in Key /\ history' = Archive(e)
    BY <1>2 DEF CommitUpdate, Asks, Request, Call, HoldsKey
  <2> QED
    BY <1>2, <2>1, ArchiveDrops
<1>3. ASSUME NEW w \in Work, ReencryptHistory(w)
      PROVE  \E g \in history' : g.entry = h.entry /\ g.version = h.version
    BY <1>3, ReencryptArchive
<1>4. ASSUME NEW gone, Destroy(gone)
      PROVE  h \in history' \/ vault'[h.entry].state = "gone"
    BY <1>1, <1>4 DEF Destroy, BlankRow
<1> QED
    BY <1>2, <1>3, <1>4, HistoryWriters

LEMMA Invariance == Spec => []IInv
<1>1. IInv /\ [Next]_vars => IInv'
    BY TypeStep, SessionStep, OrphanStep, KeyStep DEF IInv
<1> QED
    BY InitInv, <1>1, PTL DEF Spec

\* Every reachable state has the types of the database columns, sessions and
\* requests.
THEOREM TypeCorrect == Spec => []TypeOK
<1>1. IInv => TypeOK
    BY DEF IInv, TypeInv
<1> QED
    BY Invariance, <1>1, PTL

\* No change of key, from whatever device and in whatever state, leaves a
\* session or a request behind that works under an older key and was not in
\* flight at the change.
THEOREM SessionsCurrent == Spec => []SessionInv
<1>1. IInv => SessionInv
    BY DEF IInv
<1> QED
    BY Invariance, <1>1, PTL

\* Nothing archived or attached outlives the entry it belongs to.
THEOREM NothingOrphaned == Spec => []NoOrphans
<1>1. IInv => NoOrphans
    BY DEF IInv
<1> QED
    BY Invariance, <1>1, PTL

\* Every stored ciphertext opens with the key of the stored hash, the late
\* and the skipped ones excepted.
THEOREM CiphertextsOpen == Spec => []KeyInv
<1>1. IInv => KeyInv
    BY DEF IInv
<1> QED
    BY Invariance, <1>1, PTL

\* A change of key never leaves the account half re-encrypted.
THEOREM KeyChangeIsComplete == Spec => KeyChangeComplete
<1>1. IInv /\ [Next]_vars =>
        [password_hash' # password_hash =>
           /\ \A e \in Entries : vault'[e].state = "active" => vault'[e].key = password_hash'
           /\ \A h \in history' : h.key = password_hash'
           /\ \A f \in Attachments : files'[f].state = "stored" => files'[f].key = password_hash'
           /\ kit'.key = NoKey]_vars
    BY KeyChangeStep DEF IInv
<1> QED
    BY Invariance, <1>1, PTL DEF Spec, KeyChangeComplete

\* An entry of the vault is destroyed by a confirmed reset only.
THEOREM ActiveEntriesSurvive == Spec => ActiveSurvives
<1>1. IInv /\ [Next]_vars =>
        [(\E e \in Active : vault'[e].state = "gone")
           => reset # NoKey /\ password_hash' = reset]_vars
    BY SurvivalStep DEF IInv
<1> QED
    BY Invariance, <1>1, PTL DEF Spec, ActiveSurvives

LEMMA ArchiveInvariance == Spec => []ArchiveInv
<1>1. Init => ArchiveInv
    BY FS_EmptySet, AccountAssumption DEF Init, ArchiveInv, OneOfVersion, HistoryInv
<1> QED
    BY Invariance, <1>1, ArchiveStep, PTL DEF Spec

\* The archive never exceeds its cap and holds past versions only.
THEOREM HistoryCapped == Spec => []HistoryInv
<1>1. ArchiveInv => HistoryInv
    BY DEF ArchiveInv
<1> QED
    BY ArchiveInvariance, <1>1, PTL

\* An archived password goes with its entry, or for MaxHistory newer ones.
THEOREM HistoryRetained == Spec => HistoryRetention
<1>1. IInv /\ ArchiveInv /\ [Next]_vars =>
        [\A h \in history :
           \/ \E g \in history' : g.entry = h.entry /\ g.version = h.version
           \/ vault'[h.entry].state = "gone"
           \/ Cardinality(Newer(h, history')) >= MaxHistory]_vars
    BY RetentionStep
<1> QED
    BY Invariance, ArchiveInvariance, <1>1, PTL DEF Spec, HistoryRetention

=============================================================================
