------------------------------ MODULE Accounts ------------------------------
(***************************************************************************)
(* Accounts, from the form of registration to the list of trusted devices: *)
(* the pages of a desktop that is not signed in, and the handlers of the   *)
(* server they call.  A registration, a sign-in on a new device and a      *)
(* forgotten password each depend on a code of six digits sent by mail,    *)
(* of which the server keeps one per account and purpose.                  *)
(*                                                                         *)
(* A handler reads the database, computes for a while (Argon2), and writes:*)
(* other handlers run in between.  A mail that is lost is one nobody reads; *)
(* a lost answer is that of a page that was left.  Time is reduced to what *)
(* the code compares: a code is new while no other may be sent (60 s), then*)
(* ripe, then late; an unverified account becomes old.                     *)
(***************************************************************************)
EXTENDS Naturals, Sequences, FiniteSets

CONSTANTS
    Persons, Devices,
    PersonOf,                  \* device -> who uses it
    Addresses, AdminAddress,   \* ADMIN_EMAIL
    Types, Reads,              \* person -> addresses they type; whose mail they read
    MaxId, MaxCode, MaxCap,    \* bounds: accounts, codes, the cap on devices
    MaxTries                   \* MAX_CODE_ATTEMPTS

Ids == 1..MaxId
Purposes == {"verify", "login", "reset"}

ASSUME AccountsAssumption ==
    /\ PersonOf \in [Devices -> Persons] /\ Persons # {} /\ IsFiniteSet(Devices) /\ AdminAddress \in Addresses
    /\ Types \in [Persons -> SUBSET Addresses] /\ Reads \in [Persons -> SUBSET Addresses]
    /\ MaxId \in Nat \ {0} /\ MaxCode \in Nat /\ MaxCap \in Nat \ {0} /\ MaxTries \in Nat \ {0}

VARIABLES
    offers,            \* device -> the operations its user may start in this behaviour
    mails,             \* the requests to send the code of an address again
    accounts,          \* table users, and trusted_devices
    codes,             \* table tfa_codes
    sent,              \* code -> the address it was mailed to
    page,              \* device -> the page it shows, and the address the page was given
    job,               \* device -> the request it waits for
    signed,            \* device -> the account it is signed in to
    registration_open,
    guessed,           \* history: code -> how many wrong guesses were compared with it
    served,            \* history: code -> how many answers it was honoured by
    crossed            \* history: codes that an answer read while another held them, or whose
                       \* account was renamed while one did (twice); and codes whose account
                       \* was renamed since they were mailed (renamed)

accVars == <<offers, mails, accounts, codes, sent, page, job, signed, registration_open, guessed, served, crossed>>

NoAccount == [state |-> "none", email |-> AdminAddress, owner |-> CHOOSE p \in Persons : TRUE,
              keyed |-> AdminAddress, verified |-> FALSE, moderator |-> FALSE, suspended |-> FALSE,
              cap |-> 1, devices |-> {}, refresh |-> {}, old |-> FALSE]
NoCode == [n |-> 0, tries |-> 0, age |-> "new"]
NoJob == [op |-> "none", at |-> "sent", email |-> AdminAddress, id |-> 0, n |-> 0, again |-> FALSE, moved |-> FALSE]
NoSession == [id |-> 0, email |-> AdminAddress, cut |-> FALSE]
Out(at) == [at |-> at, email |-> AdminAddress]

Pages == {"login", "register", "verify-email", "verify-2fa", "forgot-password", "reset-password", "in"}

TypeOK ==
    /\ \A i \in Ids :
        /\ accounts[i].state \in {"none", "here", "gone"} /\ accounts[i].cap \in 1..MaxCap
        /\ accounts[i].devices \cup accounts[i].refresh \subseteq Devices
        /\ \A p \in Purposes : codes[i][p].n \in 0..Len(sent) /\ codes[i][p].tries \in Nat
        /\ accounts[i].state = "here" =>
            \A j \in Ids : accounts[j].state = "here" /\ accounts[j].email = accounts[i].email => j = i
        /\ accounts[i].state # "here" => \A p \in Purposes : codes[i][p] = NoCode
    /\ \A d \in Devices :
        /\ page[d].at \in Pages /\ page[d].email \in Addresses
        /\ job[d].id \in 0..MaxId /\ (page[d].at = "in" <=> signed[d].id # 0)
    /\ Len(sent) <= MaxCode /\ crossed.twice \cup crossed.renamed \subseteq 1..MaxCode

----------------------------------------------------------------------------
(* What the handlers share.                                                *)

\* The account of an address: the column is unique.
At(a) == {i \in Ids : accounts[i].state = "here" /\ accounts[i].email = a}
Here(i) == accounts[i].state = "here"

\* INSERT OR REPLACE, then the mail.
Issue(i, p, a) ==
    /\ Len(sent) < MaxCode
    /\ codes' = [codes EXCEPT ![i][p] = [NoCode EXCEPT !.n = Len(sent) + 1]]
    /\ sent' = Append(sent, a)

IsCodeWithinCooldown(i, p) == codes[i][p].n # 0 /\ codes[i][p].age = "new"

\* What may be typed as a code: one that was read and still counts, or another, 0.
Known(d, p) == {0} \cup {n \in 1..Len(sent) : sent[n] \in Reads[PersonOf[d]] /\ \E i \in Ids : codes[i][p].n = n}

Settle(d) == job' = [job EXCEPT ![d] = NoJob]
GoTo(d, at, a) == page' = [page EXCEPT ![d] = [at |-> at, email |-> a]]

Ask(d, op, a, n) ==
    /\ job[d] = NoJob /\ op \in offers[d]
    /\ job' = [job EXCEPT ![d] = [NoJob EXCEPT !.op = op, !.email = a, !.n = n]]
    /\ UNCHANGED <<offers, mails, accounts, codes, sent, page, signed, registration_open, guessed, served, crossed>>

Doing(d, op, at) == job[d].op = op /\ job[d].at = at

\* The answers that have read the code n and not yet done with it.
Holding(n) == {d \in Devices : job[d].n = n /\ job[d].at = "read"}

\* Variant: one guess too many.
LockedOffByOne(c) == c.tries > MaxTries

Locked(c) == c.tries >= MaxTries

\* A code typed is compared with the row of account i: held, if there is room for
\* what it asks; a wrong guess that will be counted; a code that is locked and will
\* be deleted; or it is refused.
Compare(d, i, p, room) ==
    LET c == codes[i][p]
        late == c.age = "late"
        asked == c.n # 0 /\ ~ (p = "login" /\ late)
        right == asked /\ ~ Locked(c) /\ c.n = job[d].n
    IN
    \/ /\ right /\ ~ late /\ room
       /\ job' = [job EXCEPT ![d].at = "read", ![d].id = i]
       /\ crossed' = IF Holding(c.n) = {} THEN crossed ELSE [crossed EXCEPT !.twice = @ \cup {c.n}]
       /\ guessed' = guessed
    \/ /\ asked /\ Locked(c)
       /\ job' = [job EXCEPT ![d].at = "locked", ![d].id = i, ![d].n = 0]
       /\ UNCHANGED <<guessed, crossed>>
    \/ /\ asked /\ ~ Locked(c) /\ c.n # job[d].n
       /\ job' = [job EXCEPT ![d].at = "wrong", ![d].id = i, ![d].n = c.n]
       /\ guessed' = [guessed EXCEPT ![c.n] = @ + 1] /\ UNCHANGED crossed
    \/ /\ ~ asked \/ (right /\ (late \/ ~ room))
       /\ Settle(d) /\ UNCHANGED <<guessed, crossed>>

PurposeOf(op) == IF op = "tfa" THEN "login" ELSE op

\* The slots the next statement finds: verify_email names the account by its address
\* again, the other handlers by the identifier they have.
Slots(d) == (IF job[d].op = "verify" THEN At(job[d].email) ELSE {job[d].id}) \X {PurposeOf(job[d].op)}

\* Whatever code is in the slot by now is charged with the guess.
CountAttempt(d) ==
    /\ job[d].at = "wrong" /\ Settle(d)
    /\ codes' = [i \in Ids |-> [p \in Purposes |->
            IF <<i, p>> \in Slots(d) /\ codes[i][p].n # 0 THEN [codes[i][p] EXCEPT !.tries = @ + 1] ELSE codes[i][p]]]
    /\ UNCHANGED <<offers, mails, accounts, sent, page, signed, registration_open, guessed, served, crossed>>

\* Whatever code is in the slot by now is deleted.
DeleteLocked(d) ==
    /\ job[d].at = "locked" /\ Settle(d)
    /\ codes' = [i \in Ids |-> [p \in Purposes |-> IF <<i, p>> \in Slots(d) THEN NoCode ELSE codes[i][p]]]
    /\ UNCHANGED <<offers, mails, accounts, sent, page, signed, registration_open, guessed, served, crossed>>

Honoured(n) == served' = [served EXCEPT ![n] = @ + 1]

\* No account answers to the address, or, with its identifier, to the write.
Fails(d) ==
    /\ \/ /\ job[d].op \in {"verify", "login", "tfa", "reset"} /\ job[d].at \in {"sent", "deleted"}
          /\ At(job[d].email) = {}
       \/ job[d].op \in {"login", "tfa"} /\ job[d].at = "read" /\ ~ Here(job[d].id)
       \/ Doing(d, "register", "inserted") /\ At(job[d].email) = {}
       \/ Doing(d, "forgot", "ripe") /\ ~ Here(job[d].id)
    /\ Settle(d)
    /\ UNCHANGED <<offers, mails, accounts, codes, sent, page, signed, registration_open, guessed, served, crossed>>

----------------------------------------------------------------------------
(* Registration and the proof of the address.                              *)

RegisterPage(d) ==
    page[d].at = "register" /\ \E a \in Types[PersonOf[d]] : Ask(d, "register", a, 0)

\* The first administrator is always let in.
Register(d) ==
    /\ Doing(d, "register", "sent")
    /\ job' = [job EXCEPT ![d] = IF registration_open \/ @.email = AdminAddress THEN [@ EXCEPT !.at = "open"] ELSE NoJob]
    /\ UNCHANGED <<offers, mails, accounts, codes, sent, page, signed, registration_open, guessed, served, crossed>>

\* The password is hashed, then the account inserted, unless its address is taken.
InsertUser(d) ==
    LET a == job[d].email IN
    /\ Doing(d, "register", "open")
    /\ \/ At(a) # {} /\ Settle(d) /\ UNCHANGED accounts
       \/ /\ At(a) = {}
          /\ job' = [job EXCEPT ![d].at = "inserted"]
          /\ \E i \in Ids :
              /\ accounts[i].state = "none" /\ \A j \in Ids : j < i => accounts[j].state # "none"
              /\ accounts' = [accounts EXCEPT ![i] = [NoAccount EXCEPT !.state = "here", !.email = a,
                                  !.owner = PersonOf[d], !.keyed = a, !.moderator = (a = AdminAddress)]]
    /\ UNCHANGED <<offers, mails, codes, sent, page, signed, registration_open, guessed, served, crossed>>

\* The code is that of whoever has the address by now.
InsertCode(d) ==
    LET a == job[d].email IN
    /\ Doing(d, "register", "inserted") /\ \E i \in At(a) : Issue(i, "verify", a)
    /\ Settle(d) /\ GoTo(d, "verify-email", a)
    /\ UNCHANGED <<offers, mails, accounts, signed, registration_open, guessed, served, crossed>>

\* The address is the one that was registered from this page: it cannot be typed.
VerifyEmailPage(d) ==
    page[d].at = "verify-email" /\ \E n \in Known(d, "verify") : Ask(d, "verify", page[d].email, n)

VerifyEmailRead(d) ==
    /\ Doing(d, "verify", "sent")
    /\ \E i \in At(job[d].email) : Compare(d, i, "verify", TRUE)
    /\ UNCHANGED <<offers, mails, accounts, codes, sent, page, signed, registration_open, served>>

\* Variant: the account that was read is marked, whatever its address became.
VerifyEmailById(d) ==
    /\ Doing(d, "verify", "read") /\ Settle(d) /\ Honoured(job[d].n)
    /\ accounts' = [accounts EXCEPT ![job[d].id].verified = TRUE]
    /\ codes' = [codes EXCEPT ![job[d].id].verify = NoCode]
    /\ GoTo(d, "login", job[d].email)
    /\ UNCHANGED <<offers, mails, sent, signed, registration_open, guessed, crossed>>

\* Both statements name the account by its address, again.
VerifyEmail(d) ==
    LET now == At(job[d].email) IN
    /\ Doing(d, "verify", "read") /\ Settle(d) /\ Honoured(job[d].n)
    /\ accounts' = [i \in Ids |-> IF i \in now THEN [accounts[i] EXCEPT !.verified = TRUE] ELSE accounts[i]]
    /\ codes' = [i \in Ids |-> IF i \in now THEN [codes[i] EXCEPT !.verify = NoCode] ELSE codes[i]]
    /\ GoTo(d, "login", job[d].email)
    /\ UNCHANGED <<offers, mails, sent, signed, registration_open, guessed, crossed>>

\* A button of the same page, beside the form: one request at a time.
ResendPage(d) ==
    /\ page[d].at = "verify-email" /\ "resend" \in offers[d] /\ \A m \in mails : m.d # d
    /\ mails' = mails \cup {[d |-> d, email |-> page[d].email, at |-> "sent"]}
    /\ UNCHANGED <<offers, accounts, codes, sent, page, job, signed, registration_open, guessed, served, crossed>>

\* Is the account unverified, is its last code old enough: two reads by the address,
\* then the code by the address.  No account, no code.
ResendVerificationEmail(m) ==
    LET now == At(m.email) IN
    /\ UNCHANGED <<offers, accounts, page, job, signed, registration_open, guessed, served, crossed>>
    /\ \/ /\ m.at = "sent" /\ UNCHANGED <<codes, sent>>
          /\ mails' = (mails \ {m}) \cup {[m EXCEPT !.at = "unverified"] : i \in {j \in now : ~ accounts[j].verified}}
       \/ /\ m.at = "unverified" /\ UNCHANGED <<codes, sent>>
          /\ mails' = IF \E i \in now : IsCodeWithinCooldown(i, "verify") THEN mails \ {m}
                      ELSE (mails \ {m}) \cup {[m EXCEPT !.at = "ripe"]}
       \/ /\ m.at = "ripe" /\ mails' = mails \ {m}
          /\ \/ \E i \in now : Issue(i, "verify", m.email)
             \/ now = {} /\ UNCHANGED <<codes, sent>>

----------------------------------------------------------------------------
(* Sign-in, and the code a new device has to give.                         *)

LoginPage(d) ==
    page[d].at = "login" /\ \E a \in Types[PersonOf[d]] : Ask(d, "login", a, 0)

\* The hash is derived from the password and the address that was typed: it is
\* right if the password was last set by this person under this address.  The row
\* read here is the one that says suspended, or unverified.
LoginRead(d) ==
    /\ Doing(d, "login", "sent")
    /\ \E i \in At(job[d].email) :
        job' = [job EXCEPT ![d] =
            IF /\ accounts[i].owner = PersonOf[d] /\ accounts[i].keyed = job[d].email
               /\ ~ accounts[i].suspended /\ accounts[i].verified
            THEN [@ EXCEPT !.at = "read", !.id = i] ELSE NoJob]
    /\ UNCHANGED <<offers, mails, accounts, codes, sent, page, signed, registration_open, guessed, served, crossed>>

\* A device that is not trusted gets a code; right after it gave one, an error.
Login2faRequired(d) ==
    LET i == job[d].id IN
    /\ Doing(d, "login", "read") /\ Here(i) /\ d \notin accounts[i].devices
    /\ Issue(i, "login", job[d].email) /\ Settle(d)
    /\ IF job[d].again THEN page' = page ELSE GoTo(d, "verify-2fa", job[d].email)
    /\ UNCHANGED <<offers, mails, accounts, signed, registration_open, guessed, served, crossed>>

\* establishSession follows the answer at once.
Login(d) ==
    LET i == job[d].id IN
    /\ Doing(d, "login", "read") /\ Here(i) /\ d \in accounts[i].devices
    /\ accounts' = [accounts EXCEPT ![i].refresh = @ \cup {d}]
    /\ signed' = [signed EXCEPT ![d] = [id |-> i, email |-> job[d].email, cut |-> FALSE]]
    /\ Settle(d) /\ GoTo(d, "in", job[d].email)
    /\ UNCHANGED <<offers, mails, codes, sent, registration_open, guessed, served, crossed>>

Verify2faPage(d) ==
    page[d].at = "verify-2fa" /\ \E n \in Known(d, "login") : Ask(d, "tfa", page[d].email, n)

\* Variant: the cap is compared with one device too many.
HasRoomOffByOne(d, i) == d \in accounts[i].devices \/ Cardinality(accounts[i].devices) <= accounts[i].cap

HasRoom(d, i) == d \in accounts[i].devices \/ Cardinality(accounts[i].devices) < accounts[i].cap

\* The code is compared, then the devices are counted.
Verify2faRead(d) ==
    /\ Doing(d, "tfa", "sent")
    /\ \E i \in At(job[d].email) : Compare(d, i, "login", HasRoom(d, i))
    /\ UNCHANGED <<offers, mails, accounts, codes, sent, page, signed, registration_open, served>>

\* The answers, to the devices of D, that have counted the devices of i have counted wrong.
Miscounts(i, D) == [d \in Devices |-> IF d \in D /\ job[d].op = "tfa" /\ job[d].at = "read" /\ job[d].id = i
                                      THEN [job[d] EXCEPT !.moved = TRUE] ELSE job[d]]

\* Variant: the code is left where it was.
Verify2faKeepsCode(d) ==
    LET i == job[d].id IN
    /\ Doing(d, "tfa", "read") /\ Here(i) /\ Honoured(job[d].n)
    /\ accounts' = [accounts EXCEPT ![i].devices = @ \cup {d}]
    /\ job' = [Miscounts(i, Devices) EXCEPT ![d] = [NoJob EXCEPT !.op = "login", !.email = job[d].email, !.again = TRUE]]
    /\ UNCHANGED <<offers, mails, codes, sent, page, signed, registration_open, guessed, crossed>>

\* The transaction; the page then signs in again with the same hash.
Verify2faAndRegisterDevice(d) ==
    LET i == job[d].id IN
    /\ Doing(d, "tfa", "read") /\ Here(i) /\ Honoured(job[d].n)
    /\ accounts' = [accounts EXCEPT ![i].devices = @ \cup {d}]
    /\ codes' = [codes EXCEPT ![i].login = NoCode]
    /\ job' = [Miscounts(i, Devices) EXCEPT ![d] = [NoJob EXCEPT !.op = "login", !.email = job[d].email, !.again = TRUE]]
    /\ UNCHANGED <<offers, mails, sent, page, signed, registration_open, guessed, crossed>>

----------------------------------------------------------------------------
(* A forgotten password.                                                   *)

ForgotPasswordPage(d) ==
    page[d].at = "forgot-password" /\ \E a \in Types[PersonOf[d]] : Ask(d, "forgot", a, 0)

\* The page goes on whether a code was mailed or not.
GoesOn(d) == Settle(d) /\ GoTo(d, "reset-password", job[d].email)

\* The account, then the age of its last code, by the address; the code by the identifier.
RequestPasswordReset(d) ==
    LET a == job[d].email IN
    /\ UNCHANGED <<offers, mails, accounts, codes, sent, signed, registration_open, guessed, served, crossed>>
    /\ \/ /\ Doing(d, "forgot", "sent")
          /\ \/ At(a) = {} /\ GoesOn(d)
             \/ \E i \in At(a) : job' = [job EXCEPT ![d].at = "known", ![d].id = i] /\ page' = page
       \/ /\ Doing(d, "forgot", "known")
          /\ IF \E i \in At(a) : IsCodeWithinCooldown(i, "reset") THEN GoesOn(d)
             ELSE job' = [job EXCEPT ![d].at = "ripe"] /\ page' = page

SendResetEmail(d) ==
    /\ Doing(d, "forgot", "ripe") /\ Here(job[d].id) /\ Issue(job[d].id, "reset", job[d].email) /\ GoesOn(d)
    /\ UNCHANGED <<offers, mails, accounts, signed, registration_open, guessed, served, crossed>>

ResetPasswordPage(d) ==
    page[d].at = "reset-password" /\ \E n \in Known(d, "reset") : Ask(d, "reset", page[d].email, n)

VerifyResetCode(d) ==
    /\ Doing(d, "reset", "sent")
    /\ \E i \in At(job[d].email) : Compare(d, i, "reset", TRUE)
    /\ UNCHANGED <<offers, mails, accounts, codes, sent, page, signed, registration_open, served>>

\* The last statement of verify_reset_code: whatever code is there goes.
ConsumeResetCode(d) ==
    /\ Doing(d, "reset", "read")
    /\ job' = [job EXCEPT ![d].at = "deleted"]
    /\ codes' = [codes EXCEPT ![job[d].id].reset = NoCode]
    /\ UNCHANGED <<offers, mails, accounts, sent, page, signed, registration_open, guessed, served, crossed>>

CutAll(i) == [d \in Devices |-> IF signed[d].id = i THEN [signed[d] EXCEPT !.cut = TRUE] ELSE signed[d]]

\* The account is looked up by its address a second time.
ConfirmPasswordReset(d) ==
    /\ Doing(d, "reset", "deleted") /\ Settle(d) /\ Honoured(job[d].n)
    /\ \E i \in At(job[d].email) :
        /\ accounts' = [accounts EXCEPT ![i].owner = PersonOf[d], ![i].keyed = job[d].email, ![i].refresh = {}]
        /\ codes' = [codes EXCEPT ![i] = [p \in Purposes |-> NoCode]]
        /\ signed' = CutAll(i)
    /\ GoTo(d, "login", job[d].email)
    /\ UNCHANGED <<offers, mails, sent, registration_open, guessed, crossed>>

----------------------------------------------------------------------------
(* Signed in.                                                              *)

\* Requests carry a token that names the account by its address, or a new one
\* got with the refresh token, which names it by its identifier.
Acting(d) == {i \in Ids : /\ Here(i) /\ ~ accounts[i].suspended /\ page[d].at = "in"
                          /\ \/ accounts[i].email = signed[d].email /\ ~ signed[d].cut
                             \/ i = signed[d].id /\ d \in accounts[i].refresh}

RevokeDevice(d) ==
    /\ "devices" \in offers[d]
    /\ \E i \in Acting(d), x \in Devices :
        /\ x \in accounts[i].devices
        /\ accounts' = [accounts EXCEPT ![i].devices = @ \ {x}, ![i].refresh = @ \ {x}]
        /\ job' = Miscounts(i, {x})
    /\ UNCHANGED <<offers, mails, codes, sent, page, signed, registration_open, guessed, served, crossed>>

UpdateDeviceLimit(d) ==
    /\ "devices" \in offers[d]
    /\ \E i \in Acting(d), n \in 1..MaxCap :
        /\ accounts[i].owner = PersonOf[d] /\ n # accounts[i].cap
        /\ accounts' = [accounts EXCEPT ![i].cap = n]
        /\ job' = IF n < accounts[i].cap THEN Miscounts(i, Devices) ELSE job
    /\ UNCHANGED <<offers, mails, codes, sent, page, signed, registration_open, guessed, served, crossed>>

\* The caller leaves; the others find out at their next request.
LogoutAllDevices(d) ==
    /\ "devices" \in offers[d]
    /\ \E i \in Acting(d) :
        /\ accounts' = [accounts EXCEPT ![i].refresh = {}]
        /\ signed' = [CutAll(i) EXCEPT ![d] = NoSession]
    /\ page' = [page EXCEPT ![d] = Out("login")]
    /\ UNCHANGED <<offers, mails, codes, sent, job, registration_open, guessed, served, crossed>>

DeviceList(d) == RevokeDevice(d) \/ UpdateDeviceLimit(d) \/ LogoutAllDevices(d)

SignOut(d) ==
    /\ page[d].at = "in" /\ "out" \in offers[d]
    /\ accounts' = [accounts EXCEPT ![signed[d].id].refresh = @ \ {d}]
    /\ signed' = [signed EXCEPT ![d] = NoSession] /\ page' = [page EXCEPT ![d] = Out("login")]
    /\ UNCHANGED <<offers, mails, codes, sent, job, registration_open, guessed, served, crossed>>

\* The links of the pages, and the routes: away from a page, its address is forgotten.
\* People wait for an answer before they leave.
Routes(d) ==
    /\ page[d].at # "in" /\ job[d] = NoJob
    /\ \E at \in {"login", "register", "forgot-password"} :
        /\ at \in {"login", "register"} => at \in offers[d]
        /\ at = "forgot-password" => "forgot" \in offers[d]
        /\ page' = [page EXCEPT ![d] = Out(at)]
    /\ UNCHANGED <<offers, mails, accounts, codes, sent, job, signed, registration_open, guessed, served, crossed>>

----------------------------------------------------------------------------
(* Time, and the tasks of the server.                                      *)

Ages(i, p) ==
    /\ codes[i][p].n # 0 /\ codes[i][p].age # "late"
    /\ codes' = [codes EXCEPT ![i][p].age = IF @ = "new" THEN "ripe" ELSE "late"]
    /\ UNCHANGED <<offers, mails, accounts, sent, page, job, signed, registration_open, guessed, served, crossed>>

CleanupExpiredTfaCodes ==
    /\ \E i \in Ids, p \in Purposes : codes[i][p].age = "late"
    /\ codes' = [i \in Ids |-> [p \in Purposes |-> IF codes[i][p].age = "late" THEN NoCode ELSE codes[i][p]]]
    /\ UNCHANGED <<offers, mails, accounts, sent, page, job, signed, registration_open, guessed, served, crossed>>

GrowsOld(i) ==
    /\ Here(i) /\ ~ accounts[i].verified /\ ~ accounts[i].old
    /\ accounts' = [accounts EXCEPT ![i].old = TRUE]
    /\ UNCHANGED <<offers, mails, codes, sent, page, job, signed, registration_open, guessed, served, crossed>>

\* A deleted account takes its codes, its devices and its tokens along.
Gone(i) == [NoAccount EXCEPT !.state = "gone"]
Stale == {i \in Ids : Here(i) /\ accounts[i].old /\ ~ accounts[i].verified}

\* Variant: an account still owed a code is spared.
CleanupSparesPending ==
    LET stale == {i \in Stale : codes[i].verify.n = 0} IN
    /\ stale # {}
    /\ accounts' = [i \in Ids |-> IF i \in stale THEN Gone(i) ELSE accounts[i]]
    /\ codes' = [i \in Ids |-> IF i \in stale THEN [p \in Purposes |-> NoCode] ELSE codes[i]]
    /\ UNCHANGED <<offers, mails, sent, page, job, signed, registration_open, guessed, served, crossed>>

CleanupStaleUnverifiedAccounts ==
    /\ Stale # {}
    /\ accounts' = [i \in Ids |-> IF i \in Stale THEN Gone(i) ELSE accounts[i]]
    /\ codes' = [i \in Ids |-> IF i \in Stale THEN [p \in Purposes |-> NoCode] ELSE codes[i]]
    /\ UNCHANGED <<offers, mails, sent, page, job, signed, registration_open, guessed, served, crossed>>

----------------------------------------------------------------------------
\* What a behaviour starts from: accounts with their codes and their devices, some of
\* them signed in, and no request under way.
Operations == {"register", "login", "verify", "resend", "tfa", "forgot", "reset", "devices", "out", "console", "role", "suspend",
               "rename", "delete", "revoke", "grant", "quota", "server", "panel", "notes"}
Account == [state : {"none", "here", "gone"}, email : Addresses, owner : Persons, keyed : Addresses,
            verified : BOOLEAN, moderator : BOOLEAN, suspended : BOOLEAN, cap : 1..MaxCap,
            devices : SUBSET Devices, refresh : SUBSET Devices, old : BOOLEAN]
Code == [n : 0..MaxCode, tries : Nat, age : {"new", "ripe", "late"}]

\* A code is that of one account, for one purpose; the code that verifies an
\* account was mailed to its address.
CodesMatch ==
    /\ \A i \in Ids, p \in Purposes : codes[i][p].n <= Len(sent) /\ (~ Here(i) => codes[i][p] = NoCode)
    /\ \A i, j \in Ids, p, q \in Purposes : codes[i][p].n = codes[j][q].n /\ codes[i][p].n # 0 => i = j /\ p = q
    /\ \A i \in Ids : codes[i].verify.n # 0 => sent[codes[i].verify.n] = accounts[i].email

Starts ==
    /\ offers \in [Devices -> SUBSET Operations]
    /\ accounts \in [Ids -> Account] /\ codes \in [Ids -> [Purposes -> Code]]
    /\ \A i, j \in Ids : Here(i) /\ Here(j) /\ accounts[i].email = accounts[j].email => i = j
    /\ sent \in Seq(Addresses) /\ Len(sent) <= MaxCode /\ CodesMatch
    /\ page \in [Devices -> [at : Pages, email : Addresses]]
    /\ signed \in [Devices -> [id : 0..MaxId, email : Addresses, cut : BOOLEAN]]
    /\ \A d \in Devices : page[d].at = "in" <=> signed[d].id # 0
    /\ job = [d \in Devices |-> NoJob] /\ registration_open \in BOOLEAN
    /\ mails = {} /\ guessed = [n \in 1..MaxCode |-> 0]
    /\ served = [n \in 1..MaxCode |-> 0] /\ crossed = [twice |-> {}, renamed |-> {}]

AccountsStep(d) ==
    \/ RegisterPage(d) \/ Register(d) \/ InsertUser(d) \/ InsertCode(d)
    \/ VerifyEmailPage(d) \/ VerifyEmailRead(d) \/ VerifyEmail(d) \/ ResendPage(d)
    \/ LoginPage(d) \/ LoginRead(d) \/ Login2faRequired(d) \/ Login(d)
    \/ Verify2faPage(d) \/ Verify2faRead(d) \/ Verify2faAndRegisterDevice(d)
    \/ ForgotPasswordPage(d) \/ RequestPasswordReset(d) \/ SendResetEmail(d)
    \/ ResetPasswordPage(d) \/ VerifyResetCode(d) \/ ConsumeResetCode(d) \/ ConfirmPasswordReset(d)
    \/ CountAttempt(d) \/ DeleteLocked(d)
    \/ DeviceList(d) \/ SignOut(d) \/ Routes(d) \/ Fails(d)

AccountsTasks ==
    \/ \E m \in mails : ResendVerificationEmail(m)
    \/ \E i \in Ids, p \in Purposes : Ages(i, p)
    \/ \E i \in Ids : GrowsOld(i)
    \/ CleanupExpiredTfaCodes \/ CleanupStaleUnverifiedAccounts

AccountsFairness ==
    /\ \A i \in Ids : WF_accVars(GrowsOld(i))
    /\ WF_accVars(CleanupStaleUnverifiedAccounts)

----------------------------------------------------------------------------
(* Properties.                                                             *)

\* A code is honoured once, unless two answers held it at the same time: the
\* handlers read it, compute, and delete it in separate statements; or its account
\* changed address while an answer held it, which then deletes nothing.
UsesOverlap == \A n \in 1..MaxCode : served[n] > 1 => n \in crossed.twice

\* The guesses of the code n that are yet to be counted.
Guessing(n) == {d \in Devices : job[d].at = "wrong" /\ job[d].n = n}

\* A code is compared with another wrong guess only while fewer than MAX_CODE_ATTEMPTS
\* of the former ones are counted (auth.rs:22): beyond the limit are at most those that
\* wait to be counted together, or those of an account whose address changed under them.
GuessesCounted ==
    [][\A n \in 1..MaxCode :
        guessed'[n] > guessed[n] => guessed[n] < MaxTries + Cardinality(Guessing(n)) \/ n \in crossed.renamed]_accVars

\* A device is trusted above the cap of the account only if another one was added,
\* the cap lowered, or the device itself revoked, after its devices were counted
\* (session.rs).
CapHolds ==
    [][\A i \in Ids, d \in Devices :
        /\ d \in accounts'[i].devices /\ d \notin accounts[i].devices
        /\ Cardinality(accounts'[i].devices) > accounts[i].cap
        => job[d].moved]_accVars

\* An account is marked as verified only by a code typed for the address it has, and
\* mailed to it, even if it is renamed, deleted or replaced while the code is compared;
\* or mailed to the former address of an account that was renamed.
VerifiedProven ==
    [][\A i \in Ids : Here(i) /\ ~ accounts[i].verified /\ accounts'[i].verified =>
        \E d \in Devices :
            /\ job[d].n # 0 /\ job'[d] = NoJob /\ job[d].email = accounts[i].email
            /\ sent[job[d].n] = accounts[i].email \/ job[d].n \in crossed.renamed]_accVars

\* An address taken by an account nobody verifies is free again in the end
\* (maintenance.rs): the account is verified, or deleted.
AddressFrees == \A i \in Ids : Here(i) ~> ~ Here(i) \/ accounts[i].verified

\* register.rs:183: without a new code an account would be stuck until it is purged.
\* Whoever registered an address they read has a page to ask for one.
RegisteredCanVerify ==
    \A i \in Ids :
        Here(i) /\ ~ accounts[i].verified /\ accounts[i].email \in Reads[accounts[i].owner] =>
            \E d \in Devices : /\ PersonOf[d] = accounts[i].owner
                               /\ \/ page[d] = [at |-> "verify-email", email |-> accounts[i].email]
                                  \/ job[d].op = "register" /\ job[d].email = accounts[i].email
=============================================================================
