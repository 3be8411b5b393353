------------------------------ MODULE Keyring ------------------------------
(***************************************************************************)
(* One pair of keys per account, and what other accounts seal for it: a    *)
(* copy of an entry (sharing), credentials with a number of uses (blind    *)
(* sharing), the key of a whole vault (emergency access).                  *)
(*                                                                         *)
(* The server only stores sealed copies; every flow is a chain of requests *)
(* made by a client, and other devices, other accounts and the requests    *)
(* the same device left in the background come in between.  A request is   *)
(* one step: the server serves it in one statement or one transaction.     *)
(* What a handler does is a record: the handler, the request it makes next *)
(* and what it has learnt so far.  A device has several at work at once,   *)
(* each in a lane of its own: the received page starts two, and what a     *)
(* page started goes on when the user leaves it for another.  Requests in  *)
(* the background come on top, any number of them.                         *)
(*                                                                         *)
(* The relations of emergency access are taken here once accepted and      *)
(* granted: their life is module Emergency.                                *)
(***************************************************************************)
EXTENDS Naturals, FiniteSets

CONSTANTS
    Users,
    Desktops, Extensions,  \* devices, by the client they run
    UserOf,                \* device -> its account
    Lanes, DeviceOf,       \* room for a handler at work, and the device it is on
    Entries, OwnerOf,      \* entries and their owners
    Trusted,               \* pairs <<owner, contact>> of emergency access
    Blinds,                \* identifiers of blind shares (UUIDs)
    Uses,                  \* the numbers of uses an owner may choose
    MaxShares,             \* MAX_SHARES_PER_OWNER
    MaxOps,                \* bound: handlers started by users
    MaxPairs, MaxKeys,     \* bounds: pairs generated, vault keys of an account
    MaxIds, MaxVersion,    \* bounds: identifiers of shares, edits of an entry
    None

Devices == Desktops \cup Extensions

ASSUME KeyringAssumption ==
    /\ Desktops \cap Extensions = {}
    /\ OwnerOf \in [Entries -> Users] /\ UserOf \in [Devices -> Users]
    /\ DeviceOf \in [Lanes -> Devices]
    /\ Trusted \subseteq Users \X Users /\ Entries \cap (Users \X Users) = {}
    /\ Uses \subseteq Nat
    /\ MaxOps \in Nat /\ MaxPairs \in Nat /\ MaxIds \in Nat
    /\ MaxKeys \in Nat \ {0} /\ MaxVersion \in Nat \ {0}
    /\ None \notin Trusted \X Nat

VARIABLES
    key,       \* account -> number of its vault key
    pairs,     \* table user_keys: public key (0: none), vault key of its private half
    made,      \* key pairs generated so far
    entries,   \* table vault
    shares,    \* table vault_shares, one row per entry and recipient (id 0: none)
    ids,       \* identifiers of shares given so far
    blinds,    \* table vault_blind_shares
    seeds,     \* sealed_vault_key of each relation
    screen,    \* device -> the page it shows
    op,        \* lane -> the handler at work
    tasks,     \* requests in the background
    held,      \* desktop -> EmergencyVaultKeyState, a relation and a vault key
    spent,     \* handlers started
    given,     \* history: uses handed out, per blind share
    spoiled,   \* history: sealed copies a failure or a crossing may leave behind
    replaced   \* history: public keys overwritten, of which account, and why

rows == <<key, pairs, made, entries, shares, ids, blinds, seeds>>
clients == <<screen, op, tasks, held, spent>>
vars == <<rows, clients, given, spoiled, replaced>>

NoPair == [pub |-> 0, under |-> 0]
NoShare == [id |-> 0, pub |-> 0, says |-> 0]
NoBlind == [st |-> "unused", e |-> None, to |-> None, pub |-> 0, left |-> 0, max |-> 0]
Blank == [page |-> "none", on |-> None, ids |-> {}, blinds |-> {}, shows |-> 0]
Idle == [do |-> "idle"]

User(c) == UserOf[DeviceOf[c]]
LanesOf(d) == {c \in Lanes : DeviceOf[c] = d}

\* left: the page that started it was left.  For the history, how the pair of
\* keys was looked for: the request failed, or the pairs there were at its answer.
Call(do, at, on, to) ==
    [do |-> do, at |-> at, on |-> on, to |-> to, pub |-> 0, says |-> 0,
     uses |-> 0, own |-> None, view |-> None, left |-> FALSE, failed |-> FALSE, seen |-> 0]

Handlers == {"share", "sendBlind", "revoke", "revokeBlind", "listShares", "listBlinds",
             "received", "receivedBlinds", "open", "useBlind", "seed", "emergency", "rekey"}

TypeOK ==
    /\ key \in [Users -> 1..MaxKeys]
    /\ pairs \in [Users -> [pub : 0..MaxPairs, under : 0..MaxKeys]]
    /\ made \in 0..MaxPairs /\ ids \in 0..MaxIds /\ spent \in 0..MaxOps
    /\ entries \in [Entries -> [st : {"active", "trash"}, version : 1..MaxVersion]]
    /\ shares \in [Entries -> [Users -> [id : 0..MaxIds, pub : 0..MaxPairs, says : 0..MaxVersion]]]
    /\ \A b \in Blinds : blinds[b].st \in {"unused", "live", "gone"} /\ blinds[b].left \in 0..blinds[b].max
    /\ seeds \in [Trusted -> [pub : 0..MaxPairs, of : 0..MaxKeys]]
    /\ \A c \in Lanes : op[c] # Idle => op[c].do \in Handlers
    /\ held \in [Desktops -> {None} \cup (Trusted \X (0..MaxKeys))]

Init ==
    /\ key = [u \in Users |-> 1]
    /\ pairs = [u \in Users |-> NoPair] /\ made = 0
    /\ entries = [e \in Entries |-> [st |-> "active", version |-> 1]]
    /\ shares = [e \in Entries |-> [u \in Users |-> NoShare]] /\ ids = 0
    /\ blinds = [b \in Blinds |-> NoBlind]
    /\ seeds = [p \in Trusted |-> [pub |-> 0, of |-> 0]]
    /\ screen = [d \in Devices |-> Blank]
    /\ op = [c \in Lanes |-> Idle]
    /\ tasks = {} /\ held = [d \in Desktops |-> None] /\ spent = 0
    /\ given = [b \in Blinds |-> 0] /\ spoiled = {}
    /\ replaced = {}

----------------------------------------------------------------------------
(* The tables, as the repository's statements see them.                    *)

Mine(u) == {e \in Entries : OwnerOf[e] = u}
Shared(u) == {x \in Mine(u) \X Users : shares[x[1]][x[2]].id # 0}
SharesOf(e) == {shares[e][r].id : r \in Users} \ {0}
SharedWith(u) == {shares[e][u].id : e \in Entries} \ {0}

\* share_entry: one transaction, insert or replace, the cap for a new row.
ShareRow(e, r, pub, says) ==
    /\ entries[e].st = "active"
    /\ IF shares[e][r].id # 0
       THEN ids' = ids /\ shares' = [shares EXCEPT ![e][r].pub = pub, ![e][r].says = says]
       ELSE /\ Cardinality(Shared(OwnerOf[e])) < MaxShares /\ ids < MaxIds
            /\ ids' = ids + 1
            /\ shares' = [shares EXCEPT ![e][r] = [id |-> ids + 1, pub |-> pub, says |-> says]]

\* revoke_share: the owner of the entry or the recipient; an unknown id is 404.
DropShare(u, id) ==
    \E e \in Entries, r \in Users :
        /\ shares[e][r].id = id /\ u \in {OwnerOf[e], r}
        /\ shares' = [shares EXCEPT ![e][r] = NoShare]

\* Variant: the decrement does not ask for a use that is left.
ConsumeUseBlindly(b, u) ==
    /\ blinds[b].st = "live" /\ blinds[b].to = u
    /\ entries[blinds[b].e].st = "active"
    /\ blinds' = [blinds EXCEPT ![b].left = IF @ = 0 THEN 0 ELSE @ - 1]

\* consume_use: the decrement is guarded by its own WHERE clause.
ConsumeUse(b, u) ==
    /\ blinds[b].st = "live" /\ blinds[b].to = u
    /\ blinds[b].left > 0
    /\ entries[blinds[b].e].st = "active"
    /\ blinds' = [blinds EXCEPT ![b].left = @ - 1]

----------------------------------------------------------------------------
(* What every handler is made of.                                          *)

\* The extension waits for the copies it seals again; the desktop does not.
Free(d) ==
    /\ screen[d].page # "emergency" /\ spent < MaxOps
    /\ d \in Extensions => \A t \in tasks : t.d # d

\* The handlers of a device, once their page is left: they go on.
Left(d) ==
    [c \in Lanes |-> IF DeviceOf[c] = d /\ op[c] # Idle THEN [op[c] EXCEPT !.left = TRUE] ELSE op[c]]

\* A button is disabled while what it started on this page is at work.
Busy(d, call) ==
    \E c \in LanesOf(d) : op[c] # Idle /\ ~ op[c].left /\ op[c].do = call.do /\ op[c].on = call.on

\* Any lane with nothing at work will do.
FreeLane(d, taken) == CHOOSE c \in LanesOf(d) \ taken : op[c] = Idle
HasLane(d, taken) == \E c \in LanesOf(d) \ taken : op[c] = Idle

\* A handler started by the page shown.
Act(d, call) ==
    /\ Free(d) /\ HasLane(d, {}) /\ ~ Busy(d, call)
    /\ op' = [op EXCEPT ![FreeLane(d, {})] = call]
    /\ spent' = spent + 1
    /\ screen' = screen

\* Another page, with the handler it starts.
Visit(d, page, on, call) ==
    /\ Free(d) /\ HasLane(d, {})
    /\ op' = [Left(d) EXCEPT ![FreeLane(d, {})] = call]
    /\ spent' = spent + 1
    /\ screen' = [screen EXCEPT ![d] = [Blank EXCEPT !.page = page, !.on = on,
                                        !.shows = IF on \in Entries THEN entries[on].version ELSE 0]]

At(c, do, at) == op[c].do \in do /\ op[c].at = at
GoTo(c, at) == op' = [op EXCEPT ![c].at = at]
Done(c) == op' = [op EXCEPT ![c] = Idle]

\* What an answer shows, unless its page was left.
Shows(c, s) ==
    screen' = IF op[c].left THEN screen ELSE [screen EXCEPT ![DeviceOf[c]] = s]

\* A request is refused or lost: the handler shows the error and ends.
RequestFails(c) ==
    /\ op[c] # Idle /\ op[c].at \notin {"hasKeys", "login", "decrypt"}
    /\ Done(c)
    /\ UNCHANGED <<rows, screen, tasks, held, spent, given, spoiled, replaced>>

\* The handlers that begin with ensureEmergencyKeys, and what they ask next.
Then(do) == CASE do = "received" -> "list" [] do = "receivedBlinds" -> "own" [] do = "open" -> "fetch"

\* Variant: the answer is not looked at.
HasEmergencyKeysNever(c) ==
    LET to == [op EXCEPT ![c].at = "generate", ![c].says = key[User(c)], ![c].seen = made] IN
    /\ op[c] # Idle /\ op[c].at = "hasKeys"
    /\ \/ pairs[User(c)].pub # 0 /\ GoTo(c, Then(op[c].do))
       \/ op' = to
       \/ op' = [to EXCEPT ![c].failed = TRUE]   \* the read failed
    /\ UNCHANGED <<rows, screen, tasks, held, spent, given, spoiled, replaced>>

\* hasEmergencyKeys: an answer means a pair, and any failure means none.  The
\* pair is then generated, its private half under the vault key of the moment.
HasEmergencyKeys(c) ==
    LET to == [op EXCEPT ![c].at = "generate", ![c].says = key[User(c)], ![c].seen = made] IN
    /\ op[c] # Idle /\ op[c].at = "hasKeys"
    /\ \/ pairs[User(c)].pub # 0 /\ GoTo(c, Then(op[c].do))
       \/ pairs[User(c)].pub = 0 /\ op' = to
       \/ op' = [to EXCEPT ![c].failed = TRUE]   \* the read failed
    /\ UNCHANGED <<rows, screen, tasks, held, spent, given, spoiled, replaced>>

\* Why the pair in the table is overwritten by the one handler c generated.
Why(c) == CASE op[c].failed -> "read failed"
            [] ~ op[c].failed /\ pairs[User(c)].pub > op[c].seen -> "crossed"
            [] OTHER -> "seen"

\* ensureEmergencyKeys, its last request: the new pair is put over any other.
EnsureEmergencyKeys(c) ==
    LET u == User(c) IN
    /\ op[c] # Idle /\ op[c].at = "generate" /\ made < MaxPairs
    /\ made' = made + 1
    /\ pairs' = [pairs EXCEPT ![u] = [pub |-> made + 1, under |-> op[c].says]]
    /\ GoTo(c, Then(op[c].do))
    /\ replaced' = IF pairs[u].pub = 0 THEN replaced ELSE replaced \cup {<<u, pairs[u].pub, Why(c)>>}
    /\ UNCHANGED <<key, entries, shares, ids, blinds, seeds, screen, tasks, held, spent, given, spoiled>>

\* GET /emergency/keys/{email}: 404 for an account without a pair.
GetPublicKey(c) ==
    /\ op[c] # Idle /\ op[c].at = "publicKey" /\ pairs[op[c].to].pub # 0
    /\ op' = [op EXCEPT ![c].at = "send", ![c].pub = pairs[op[c].to].pub,
                        ![c].says = IF op[c].do = "seed" THEN key[User(c)] ELSE @]
    /\ UNCHANGED <<rows, screen, tasks, held, spent, given, spoiled, replaced>>

\* GET /emergency/keys: the pair of the caller, private half still encrypted.
GetOwnKeys(c) ==
    LET u == User(c) IN
    /\ op[c] # Idle
    /\ \/ op[c].at = "own" /\ pairs[u].pub # 0
          /\ op' = [op EXCEPT ![c].at = IF op[c].do = "useBlind" THEN "use" ELSE "list", ![c].own = pairs[u]]
       \/ op[c].at = "fetch" /\ op[c].own = None /\ pairs[u].pub # 0
          /\ op' = [op EXCEPT ![c].own = pairs[u]]
    /\ UNCHANGED <<rows, screen, tasks, held, spent, given, spoiled, replaced>>

\* The private half opens with the vault key in memory, and the copy with it.
Opens(c, pub) == op[c].own.under = key[User(c)] /\ op[c].own.pub = pub

----------------------------------------------------------------------------
(* Sharing of an entry, lib/entrySharing.                                  *)

\* shareEntry, its last request; the dialog then reads the list again.
ShareEntry(c) ==
    /\ At(c, {"share"}, "send")
    /\ ShareRow(op[c].on, op[c].to, op[c].pub, op[c].says)
    /\ op' = [op EXCEPT ![c] = [Call("listShares", "list", op[c].on, None) EXCEPT !.left = op[c].left]]
    /\ UNCHANGED <<key, pairs, made, entries, blinds, seeds, screen, tasks, held, spent, given, spoiled, replaced>>

\* loadShares, loadAll: the answer replaces the list on the page.
ListShares(c) ==
    LET seen == IF op[c].do = "received" THEN SharedWith(User(c)) ELSE SharesOf(op[c].on) IN
    /\ At(c, {"listShares", "received"}, "list")
    /\ Shows(c, [screen[DeviceOf[c]] EXCEPT !.ids = seen])
    /\ Done(c)
    /\ UNCHANGED <<rows, tasks, held, spent, given, spoiled, replaced>>

\* revokeShare, and the row taken off the list.
RevokeShare(c) ==
    /\ At(c, {"revoke"}, "send")
    /\ DropShare(User(c), op[c].on[2])
    /\ Shows(c, [screen[DeviceOf[c]] EXCEPT !.ids = @ \ {op[c].on[2]}])
    /\ Done(c)
    /\ UNCHANGED <<key, pairs, made, entries, ids, blinds, seeds, tasks, held, spent, given, spoiled, replaced>>

\* GET /shares/{id}: for the recipient, and only while the entry is active.
GetSharedEntry(c) ==
    /\ At(c, {"open"}, "fetch") /\ op[c].view = None
    /\ \E e \in Entries :
        /\ shares[e][User(c)].id = op[c].on[2] /\ entries[e].st = "active"
        /\ op' = [op EXCEPT ![c].view = shares[e][User(c)]]
    /\ UNCHANGED <<rows, screen, tasks, held, spent, given, spoiled, replaced>>

\* openSharedEntry, once both answers are there: unseal, and show or fail.
OpenSharedEntry(c) ==
    /\ At(c, {"open"}, "fetch") /\ op[c].own # None /\ op[c].view # None
    /\ Shows(c, [screen[DeviceOf[c]] EXCEPT !.shows = IF Opens(c, op[c].view.pub) THEN op[c].view.says ELSE 0])
    /\ Done(c)
    /\ UNCHANGED <<rows, tasks, held, spent, given, spoiled, replaced>>

\* Copies an edit may cross: in the background, on their way from a dialog, or
\* in the dialog another device shows.
Crossing(d, e) ==
    {<<e, r>> : r \in {r \in Users :
        \/ \E t \in tasks : t.on = e /\ t.to \in {None, r}
        \/ \E c \in Lanes : op[c] # Idle /\ op[c].do = "share" /\ op[c].on = e /\ op[c].to = r
        \/ \E x \in Devices \ {d} : screen[x].page = "share" /\ screen[x].on = e}}

\* Variant: the copies are sealed from the entry as it was loaded.
SaveEntrySealsFormer(d, e) ==
    /\ OwnerOf[e] = UserOf[d] /\ Free(d)
    /\ entries[e].st = "active" /\ entries[e].version < MaxVersion
    /\ entries' = [entries EXCEPT ![e].version = @ + 1]
    /\ tasks' = tasks \cup {[d |-> d, by |-> "edit", at |-> "list", on |-> e, to |-> None, pub |-> 0,
                             says |-> entries[e].version]}
    /\ screen' = [screen EXCEPT ![d] = Blank] /\ op' = Left(d)
    /\ spent' = spent + 1
    /\ spoiled' = spoiled \cup Crossing(d, e)
    /\ UNCHANGED <<key, pairs, made, shares, ids, blinds, seeds, held, given, replaced>>

\* An edit: the page saves the entry and leaves reseedEntryShares behind.
\* A device that read another version is refused (409) and changes nothing.
SaveEntry(d, e) ==
    /\ OwnerOf[e] = UserOf[d] /\ Free(d)
    /\ entries[e].st = "active" /\ entries[e].version < MaxVersion
    /\ entries' = [entries EXCEPT ![e].version = @ + 1]
    /\ tasks' = tasks \cup {[d |-> d, by |-> "edit", at |-> "list", on |-> e, to |-> None, pub |-> 0,
                             says |-> entries[e].version + 1]}
    /\ screen' = [screen EXCEPT ![d] = Blank] /\ op' = Left(d)
    /\ spent' = spent + 1
    /\ spoiled' = spoiled \cup Crossing(d, e)
    /\ UNCHANGED <<key, pairs, made, shares, ids, blinds, seeds, held, given, replaced>>

\* To the trash and back: copies of the entry are withheld meanwhile.
TrashEntry(d, e) ==
    /\ OwnerOf[e] = UserOf[d] /\ Free(d)
    /\ entries' = [entries EXCEPT ![e].st = IF @ = "active" THEN "trash" ELSE "active"]
    /\ screen' = [screen EXCEPT ![d] = Blank] /\ op' = Left(d)
    /\ spent' = spent + 1
    /\ UNCHANGED <<key, pairs, made, shares, ids, blinds, seeds, tasks, held, given, spoiled, replaced>>

----------------------------------------------------------------------------
(* The background: copies sealed again, each recipient on its own.         *)

\* What a task renews: the share of an entry, or the sealed key of a contact.
Renews(t) == {<<t.on, r>> : r \in IF t.to = None THEN {r \in Users : shares[t.on][r].id # 0} ELSE {t.to}}

\* Best effort: one refused or lost request drops what hung on it.
TaskFails(t) ==
    /\ t \in tasks
    /\ tasks' = tasks \ {t}
    /\ spoiled' = spoiled \cup Renews(t)
    /\ UNCHANGED <<rows, screen, op, held, spent, given, replaced>>

\* reseedEntryShares: list the recipients, then one shareEntry for each.
ReseedEntryShares(t) ==
    /\ t \in tasks /\ t.at = "list"
    /\ tasks' = (tasks \ {t}) \cup
           {[t EXCEPT !.at = "publicKey", !.to = r] : r \in {r \in Users : shares[t.on][r].id # 0}}
    /\ UNCHANGED <<rows, screen, op, held, spent, given, spoiled, replaced>>

TaskPublicKey(t) ==
    /\ t \in tasks /\ t.at = "publicKey" /\ pairs[t.to].pub # 0
    /\ tasks' = (tasks \ {t}) \cup
           {[t EXCEPT !.at = "send", !.pub = pairs[t.to].pub,
                      !.says = IF t.on \in Trusted THEN key[UserOf[t.d]] ELSE @]}
    /\ UNCHANGED <<rows, screen, op, held, spent, given, spoiled, replaced>>

TaskSendsShare(t) ==
    /\ t \in tasks /\ t.at = "send" /\ t.on \in Entries
    /\ ShareRow(t.on, t.to, t.pub, t.says)
    /\ tasks' = tasks \ {t}
    /\ UNCHANGED <<key, pairs, made, entries, blinds, seeds, screen, op, held, spent, given, spoiled, replaced>>

\* seed: PUT of the sealed key of a vault.
SeedRow(p, pub, of) ==
    seeds' = [seeds EXCEPT ![p] = [pub |-> pub, of |-> of]]

TaskSendsSeed(t) ==
    /\ t \in tasks /\ t.at = "send" /\ t.on \in Trusted
    /\ SeedRow(t.on, t.pub, t.says)
    /\ tasks' = tasks \ {t}
    /\ UNCHANGED <<key, pairs, made, entries, shares, ids, blinds, screen, op, held, spent, given, spoiled, replaced>>

\* BulkShareModal.handleSubmit: every selected entry shared with one account.
BulkShareModal(d) ==
    \E r \in Users \ {UserOf[d]}, S \in SUBSET Mine(UserOf[d]) :
        /\ d \in Desktops /\ Free(d) /\ S # {}
        /\ \A e \in S : entries[e].st = "active"
        /\ tasks' = tasks \cup {[d |-> d, by |-> "bulk", at |-> "publicKey", on |-> e, to |-> r, pub |-> 0,
                                 says |-> entries[e].version] : e \in S}
        /\ screen' = [screen EXCEPT ![d] = Blank] /\ op' = Left(d)
        /\ spent' = spent + 1
        /\ UNCHANGED <<rows, held, given, spoiled, replaced>>

----------------------------------------------------------------------------
(* Blind sharing, lib/blindShare.                                          *)

\* sendBlindShare, its last request: always a new row.
SendBlindShare(c) ==
    /\ At(c, {"sendBlind"}, "send")
    /\ entries[op[c].on].st = "active"
    /\ \E b \in Blinds :
        /\ blinds[b].st = "unused"
        /\ blinds' = [blinds EXCEPT ![b] =
               [st |-> "live", e |-> op[c].on, to |-> op[c].to, pub |-> op[c].pub,
                left |-> op[c].uses, max |-> op[c].uses]]
    /\ op' = [op EXCEPT ![c] = [Call("listBlinds", "list", op[c].on, None) EXCEPT !.left = op[c].left]]
    /\ UNCHANGED <<key, pairs, made, entries, shares, ids, seeds, screen, tasks, held, spent, given, spoiled, replaced>>

\* The owner reads every row of the entry; the recipient those it can unseal.
ListBlindShares(c) ==
    LET seen == IF op[c].do = "listBlinds" THEN {b \in Blinds : blinds[b].e = op[c].on}
                ELSE {b \in Blinds : blinds[b].to = User(c) /\ Opens(c, blinds[b].pub)}
    IN /\ At(c, {"listBlinds", "receivedBlinds"}, "list")
       /\ Shows(c, [screen[DeviceOf[c]] EXCEPT !.blinds =
              {<<b, blinds[b].left>> : b \in {b \in seen : blinds[b].st = "live"}}])
       /\ Done(c)
       /\ UNCHANGED <<rows, tasks, held, spent, given, spoiled, replaced>>

\* unlockForOneTimeUse, useBlindShareAndFill: the use is gone before the
\* credentials are unsealed, whether they open or not.
UnlockForOneTimeUse(c) ==
    LET b == op[c].on
        page == screen[DeviceOf[c]]
    IN /\ At(c, {"useBlind"}, "use")
       /\ ConsumeUse(b, User(c))
       /\ given' = [given EXCEPT ![b] = @ + 1]
       /\ Shows(c, IF Opens(c, blinds[b].pub)
                   THEN [page EXCEPT !.blinds = {x \in @ : x[1] # b} \cup {<<b, blinds[b].left - 1>>}, !.shows = 1]
                   ELSE page)
       /\ Done(c)
       /\ UNCHANGED <<key, pairs, made, entries, shares, ids, seeds, tasks, held, spent, spoiled, replaced>>

\* Variant: a revocation that gives uses back.
RevokeToUnused(c) ==
    LET b == op[c].on IN
    /\ At(c, {"revokeBlind"}, "send")
    /\ blinds[b].st = "live" /\ User(c) \in {OwnerOf[blinds[b].e], blinds[b].to}
    /\ blinds' = [blinds EXCEPT ![b].left = 2 * @ + 1]
    /\ Shows(c, [screen[DeviceOf[c]] EXCEPT !.blinds = {x \in @ : x[1] # b}])
    /\ Done(c)
    /\ UNCHANGED <<key, pairs, made, entries, shares, ids, seeds, tasks, held, spent, given, spoiled, replaced>>

\* revokeBlindShare: by the owner or the recipient.
RevokeBlindShare(c) ==
    LET b == op[c].on IN
    /\ At(c, {"revokeBlind"}, "send")
    /\ blinds[b].st = "live" /\ User(c) \in {OwnerOf[blinds[b].e], blinds[b].to}
    /\ blinds' = [blinds EXCEPT ![b].st = "gone"]
    /\ Shows(c, [screen[DeviceOf[c]] EXCEPT !.blinds = {x \in @ : x[1] # b}])
    /\ Done(c)
    /\ UNCHANGED <<key, pairs, made, entries, shares, ids, seeds, tasks, held, spent, given, spoiled, replaced>>

----------------------------------------------------------------------------
(* Emergency access, lib/emergencyAccess, and the change of master password. *)

\* seedContactKey, its last request.
SeedContactKey(c) ==
    /\ At(c, {"seed"}, "send")
    /\ SeedRow(op[c].on, op[c].pub, op[c].says)
    /\ Done(c)
    /\ UNCHANGED <<key, pairs, made, entries, shares, ids, blinds, screen, tasks, held, spent, given, spoiled, replaced>>

\* GET /emergency/contacts/{id}/vault: the sealed key, and entries under the
\* vault key of the day.
GetEmergencyVault(c) ==
    LET p == op[c].on IN
    /\ At(c, {"emergency"}, "fetch") /\ op[c].view = None
    /\ seeds[p].pub # 0
    /\ op' = [op EXCEPT ![c].view = [pub |-> seeds[p].pub, of |-> seeds[p].of, under |-> key[p[1]]]]
    /\ UNCHANGED <<rows, screen, tasks, held, spent, given, spoiled, replaced>>

\* The desktop unseals the vault key into the state of its Rust process...
UnlockEmergencyVault(c) ==
    /\ DeviceOf[c] \in Desktops /\ At(c, {"emergency"}, "fetch") /\ op[c].own # None /\ op[c].view # None
    /\ IF Opens(c, op[c].view.pub)
       THEN held' = [held EXCEPT ![DeviceOf[c]] = <<op[c].on, op[c].view.of>>] /\ GoTo(c, "decrypt")
       ELSE held' = held /\ Done(c)
    /\ UNCHANGED <<rows, screen, tasks, spent, given, spoiled, replaced>>

\* Whether the key the process holds reads the entries handler c has fetched.
Readable(c) == held[DeviceOf[c]] = <<op[c].on, op[c].view.under>>

\* Variant: an opening that ends after the page was left does not close again.
DecryptWithoutClose(c) ==
    /\ At(c, {"emergency"}, "decrypt")
    /\ held' = held
    /\ IF Readable(c) THEN Shows(c, [screen[DeviceOf[c]] EXCEPT !.shows = op[c].view.under]) ELSE screen' = screen
    /\ Done(c)
    /\ UNCHANGED <<rows, tasks, spent, given, spoiled, replaced>>

\* ... and decrypts with what the state holds.  On success a page left in the
\* meantime closes the state again; on failure nothing does.
DecryptEmergencyFields(c) ==
    /\ At(c, {"emergency"}, "decrypt")
    /\ held' = IF Readable(c) /\ op[c].left THEN [held EXCEPT ![DeviceOf[c]] = None] ELSE held
    /\ IF Readable(c) THEN Shows(c, [screen[DeviceOf[c]] EXCEPT !.shows = op[c].view.under]) ELSE screen' = screen
    /\ Done(c)
    /\ UNCHANGED <<rows, tasks, spent, given, spoiled, replaced>>

\* A relation whose owner granted the account of the device access.
Opening(d, p) ==
    p[2] = UserOf[d] /\ Visit(d, "emergency", p, Call("emergency", "fetch", p, None))

\* Leaving the page cancels what it is opening.
LeavePage(d) ==
    /\ screen[d].page = "emergency"
    /\ screen' = [screen EXCEPT ![d] = Blank] /\ op' = Left(d)
    /\ spent' = spent

\* EmergencyVaultPage: opened for a relation, and left at any moment; the
\* cleanup of its effect cancels the opening and closes the state.
EmergencyVaultPage(d) ==
    /\ d \in Desktops
    /\ \/ (\E p \in Trusted : Opening(d, p)) /\ held' = held
       \/ LeavePage(d) /\ held' = [held EXCEPT ![d] = None]
    /\ UNCHANGED <<rows, tasks, given, spoiled, replaced>>

\* The extension keeps the owner's key in the opening itself.
EmergencyVaultView(d) ==
    /\ d \in Extensions
    /\ (\E p \in Trusted : Opening(d, p)) \/ LeavePage(d)
    /\ UNCHANGED <<rows, tasks, held, given, spoiled, replaced>>

OpenEmergencyVault(c) ==
    /\ DeviceOf[c] \in Extensions /\ At(c, {"emergency"}, "fetch") /\ op[c].own # None /\ op[c].view # None
    /\ IF Opens(c, op[c].view.pub) /\ op[c].view.of = op[c].view.under
       THEN Shows(c, [screen[DeviceOf[c]] EXCEPT !.shows = op[c].view.of]) ELSE screen' = screen
    /\ Done(c)
    /\ UNCHANGED <<rows, tasks, held, spent, given, spoiled, replaced>>

\* Devices signed out: their handlers end, their pages close, and what they
\* were renewing in the background is lost.  ops: the handlers of the others.
SignedOut(D, ops) ==
    /\ op' = [c \in Lanes |-> IF DeviceOf[c] \in D THEN Idle ELSE ops[c]]
    /\ tasks' = {t \in tasks : t.d \notin D}
    /\ screen' = [d \in Devices |-> IF d \in D THEN Blank ELSE screen[d]]
    /\ held' = [d \in Desktops |-> IF d \in D THEN None ELSE held[d]]

\* Sealed vault keys of an account on their way from one of its devices.
Seeding(u) ==
    {<<op[c].on, op[c].to>> : c \in {c \in Lanes : User(c) = u /\ op[c] # Idle /\ op[c].do = "seed"}}

\* changeMasterPassword: the update gives the account another vault key and
\* ends its other sessions; the pair of keys keeps its private half as it was.
ChangeMasterPassword(c) ==
    LET u == User(c)
        other == {x \in Devices : UserOf[x] = u /\ x # DeviceOf[c]}
    IN /\ At(c, {"rekey"}, "update") /\ key[u] < MaxKeys
       /\ key' = [key EXCEPT ![u] = @ + 1]
       /\ SignedOut(other, [op EXCEPT ![c].at = "login"])
       /\ spoiled' = spoiled \cup Seeding(u)
              \cup UNION {Renews(t) : t \in {t \in tasks : t.d \in other \/ t.on \in Trusted}}
       /\ UNCHANGED <<pairs, made, entries, shares, ids, blinds, seeds, spent, given, replaced>>

\* Signed in again, and no second factor asked: reseedAllContacts, best effort.
ReseedAllContacts(c) ==
    /\ At(c, {"rekey"}, "login")
    /\ tasks' = tasks \cup {[d |-> DeviceOf[c], by |-> "rekey", at |-> "publicKey", on |-> p, to |-> p[2],
                             pub |-> 0, says |-> 0] : p \in {p \in Trusted : p[1] = User(c)}}
    /\ Done(c)
    /\ UNCHANGED <<rows, screen, held, spent, given, spoiled, replaced>>

\* The sign-in asks for the second factor, or fails: forceLocalLogout, and the
\* contacts stay as they are.
NotSignedInAgain(c) ==
    LET lost == {t \in tasks : t.d = DeviceOf[c]} IN
    /\ At(c, {"rekey"}, "login")
    /\ SignedOut({DeviceOf[c]}, op)
    /\ spoiled' = spoiled \cup {<<p, p[2]>> : p \in {p \in Trusted : p[1] = User(c)}} \cup UNION {Renews(t) : t \in lost}
    /\ UNCHANGED <<rows, spent, given, replaced>>

----------------------------------------------------------------------------
(* The pages, and what each lets the user start.                           *)

\* What a dialog seals is the entry as it showed it.
Seals(do, d, r) == [Call(do, "publicKey", screen[d].on, r) EXCEPT !.says = screen[d].shows]

\* The dialog of one entry: its shares, a new one, one taken back.
ShareDialog(d) ==
    /\ \/ \E e \in Mine(UserOf[d]) : entries[e].st = "active" /\ Visit(d, "share", e, Call("listShares", "list", e, None))
       \/ \E r \in Users \ {UserOf[d]} :
            screen[d].page = "share" /\ Act(d, Seals("share", d, r))
       \/ \E id \in screen[d].ids : screen[d].page = "share" /\ Act(d, Call("revoke", "send", <<"share", id>>, None))
    /\ UNCHANGED <<rows, tasks, held, given, spoiled, replaced>>

ShareEntryModal(d) == d \in Desktops /\ ShareDialog(d)
ShareEntryView(d) == d \in Extensions /\ ShareDialog(d)

\* The same for blind shares, with a number of uses.
BlindDialog(d) ==
    /\ \/ \E e \in Mine(UserOf[d]) : entries[e].st = "active" /\ Visit(d, "blind", e, Call("listBlinds", "list", e, None))
       \/ \E r \in Users \ {UserOf[d]}, n \in Uses :
            screen[d].page = "blind" /\ Act(d, [Seals("sendBlind", d, r) EXCEPT !.uses = n])
       \/ \E x \in screen[d].blinds : screen[d].page = "blind" /\ Act(d, Call("revokeBlind", "send", x[1], None))
    /\ UNCHANGED <<rows, tasks, held, given, spoiled, replaced>>

BlindShareModal(d) == d \in Desktops /\ BlindDialog(d)
BlindShareView(d) == d \in Extensions /\ BlindDialog(d)

\* What others share with me, on the desktop: one page, and its two halves
\* each load on their own, the pair of keys made on the first visit.
SharedReceivedPage(d) ==
    LET c == FreeLane(d, {}) IN
    /\ d \in Desktops /\ Free(d) /\ HasLane(d, {}) /\ HasLane(d, {c})
    /\ op' = [Left(d) EXCEPT ![c] = Call("received", "hasKeys", None, None),
                            ![FreeLane(d, {c})] = Call("receivedBlinds", "hasKeys", None, None)]
    /\ spent' = spent + 1
    /\ screen' = [screen EXCEPT ![d] = [Blank EXCEPT !.page = "received"]]
    /\ UNCHANGED <<rows, tasks, held, given, spoiled, replaced>>

\* A share the recipient leaves.
SharedWithMeSettings(d) ==
    /\ d \in Desktops /\ screen[d].page = "received"
    /\ \E id \in screen[d].ids : Act(d, Call("revoke", "send", <<"share", id>>, None))
    /\ UNCHANGED <<rows, tasks, held, given, spoiled, replaced>>

SharedEntry(d) ==
    /\ screen[d].page = "received"
    /\ \E id \in screen[d].ids : Visit(d, "shared", None, Call("open", "hasKeys", <<"share", id>>, None))
    /\ UNCHANGED <<rows, tasks, held, given, spoiled, replaced>>

SharedEntryPage(d) == d \in Desktops /\ SharedEntry(d)
SharedEntryView(d) == d \in Extensions /\ SharedEntry(d)

\* A use is offered while the page shows one left.
BlindList(d) ==
    \E x \in screen[d].blinds :
        /\ screen[d].page = "received"
        /\ \/ x[2] > 0 /\ Act(d, Call("useBlind", "own", x[1], None))
           \/ Act(d, Call("revokeBlind", "send", x[1], None))

BlindSharesReceivedSettings(d) ==
    /\ d \in Desktops /\ BlindList(d)
    /\ UNCHANGED <<rows, tasks, held, given, spoiled, replaced>>

\* In the extension one page lists both, and the list of shares asks for no
\* pair of keys.
SharedReceivedView(d) ==
    /\ d \in Extensions
    /\ \/ Visit(d, "received", None, Call("received", "list", None, None))
       \/ screen[d].page = "received" /\ Act(d, Call("receivedBlinds", "hasKeys", None, None))
       \/ \E id \in screen[d].ids : screen[d].page = "received" /\ Act(d, Call("revoke", "send", <<"share", id>>, None))
       \/ BlindList(d)
    /\ UNCHANGED <<rows, tasks, held, given, spoiled, replaced>>

\* The buttons that start the other flows: seal the key, change the password.
SettingsPage(d) ==
    /\ \/ \E p \in Trusted : p[1] = UserOf[d] /\ Visit(d, "none", None, Call("seed", "publicKey", p, p[2]))
       \/ d \in Desktops /\ Visit(d, "none", None, Call("rekey", "update", None, None))
    /\ UNCHANGED <<rows, tasks, held, given, spoiled, replaced>>

Page(d) ==
    \/ ShareEntryModal(d) \/ ShareEntryView(d) \/ BulkShareModal(d)
    \/ BlindShareModal(d) \/ BlindShareView(d)
    \/ SharedReceivedPage(d) \/ SharedWithMeSettings(d) \/ SharedEntryPage(d) \/ SharedEntryView(d)
    \/ BlindSharesReceivedSettings(d) \/ SharedReceivedView(d)
    \/ EmergencyVaultPage(d) \/ EmergencyVaultView(d) \/ SettingsPage(d)
    \/ \E e \in Entries : SaveEntry(d, e) \/ TrashEntry(d, e)

\* The next answer to a handler at work.
Answer(c) ==
    \/ HasEmergencyKeys(c) \/ EnsureEmergencyKeys(c) \/ GetPublicKey(c) \/ GetOwnKeys(c)
    \/ ShareEntry(c) \/ ListShares(c) \/ RevokeShare(c) \/ GetSharedEntry(c) \/ OpenSharedEntry(c)
    \/ SendBlindShare(c) \/ ListBlindShares(c) \/ UnlockForOneTimeUse(c) \/ RevokeBlindShare(c)
    \/ SeedContactKey(c) \/ GetEmergencyVault(c) \/ UnlockEmergencyVault(c) \/ DecryptEmergencyFields(c)
    \/ OpenEmergencyVault(c)
    \/ ChangeMasterPassword(c) \/ ReseedAllContacts(c) \/ NotSignedInAgain(c)
    \/ RequestFails(c)

Task(t) ==
    \/ ReseedEntryShares(t) \/ TaskPublicKey(t) \/ TaskSendsShare(t) \/ TaskSendsSeed(t) \/ TaskFails(t)

Next ==
    \/ \E d \in Devices : Page(d)
    \/ \E c \in Lanes : Answer(c)
    \/ \E t \in tasks : Task(t)

Spec == Init /\ [][Next]_vars

\* A request is answered or fails: no handler and no task waits for ever.
Fairness ==
    /\ \A c \in Lanes : WF_vars(Answer(c))
    /\ WF_vars(\E t \in tasks : Task(t))

FairSpec == Spec /\ Fairness

----------------------------------------------------------------------------
(* Properties.                                                             *)

\* However many devices the recipient uses at once, and whatever is revoked
\* meanwhile, a blind share hands out as many uses as it lost, never more than
\* its owner granted.
UsesWithinGrant ==
    \A b \in Blinds : given[b] <= blinds[b].max /\ given[b] + blinds[b].left = blinds[b].max

\* A sealed copy the recipient can no longer open was sealed for a pair since
\* overwritten, and that for one of two reasons: the request that looked for
\* the pair failed and was taken for its absence, or the pair was stored while
\* another handler, of the same device or not, was between its look and its
\* write.  A handler that looks after a pair was stored, and is answered,
\* never overwrites it.
Unreadable(u, pub) == pub # 0 /\ pub # pairs[u].pub
LossHasCause ==
    LET Explained(u, pub) == Unreadable(u, pub) => \E why \in {"read failed", "crossed"} : <<u, pub, why>> \in replaced
    IN /\ \A e \in Entries, u \in Users : Explained(u, shares[e][u].pub)
       /\ \A b \in Blinds : blinds[b].st = "live" => Explained(blinds[b].to, blinds[b].pub)
       /\ \A p \in Trusted : Explained(p[2], seeds[p].pub)

\* However the user leaves the page of an emergency vault, comes back to it or
\* opens another, and whatever is under way then, a vault key that still opens
\* an owner's vault stays in the process only behind the page, or until an
\* opening that is about to decrypt with it ends.
HeldIsShown ==
    \A d \in Desktops, p \in Trusted :
        held[d] = <<p, key[p[1]]>> =>
            \/ screen[d].page = "emergency"
            \/ \E c \in LanesOf(d) : op[c] # Idle /\ op[c].do = "emergency" /\ op[c].at = "decrypt" /\ op[c].on = p

\* Once all is quiet, each share holds the latest version of its entry, and
\* each contact the current vault key, except where a request failed or an
\* earlier copy was still on its way at the time of the edit.
SealsSettle ==
    <>[](/\ \A e \in Entries, r \in Users :
              shares[e][r].id # 0 /\ <<e, r>> \notin spoiled => shares[e][r].says = entries[e].version
         /\ \A p \in Trusted :
              seeds[p].pub # 0 /\ <<p, p[2]>> \notin spoiled => seeds[p].of = key[p[1]])

\* lib/entrySharing.ts:8-12 and 72-73: what is sealed for an account stays
\* readable for it through a change of master password.
SealedSurvivesRekey ==
    \A e \in Entries, u \in Users :
        shares[e][u].id # 0 /\ shares[e][u].pub = pairs[u].pub => pairs[u].under = key[u]

\* A share taken back comes back by an act of the owner, never by itself.
RevokedStays ==
    [][\A e \in Entries, r \in Users :
         shares[e][r].id = 0 /\ shares'[e][r].id # 0 =>
             \/ \E c \in Lanes : op[c].do = "share" /\ op'[c] # op[c]
             \/ \E t \in tasks \ tasks' : t.by = "bulk"]_vars

\* pages/EmergencyVaultPage.tsx:11-14: leaving the page closes the access,
\* whichever way one leaves.
LeavingCloses ==
    \A d \in Desktops : held[d] # None => screen[d].page = "emergency" \/ \E c \in LanesOf(d) : op[c] # Idle
============================================================================
