------------------------------ MODULE MCConsole ------------------------------
(***************************************************************************)
(* Small instances of the accounts and of their administration.  A         *)
(* behaviour starts from one of a few situations, in which each device is  *)
(* offered some of the operations.                                         *)
(***************************************************************************)
EXTENDS Console

Member(a, who, mod) ==
    [NoAccount EXCEPT !.state = "here", !.email = a, !.owner = who, !.keyed = a, !.verified = TRUE, !.moderator = mod]

Offer(d1, d2, d3) == [d \in Devices |-> IF d = "d1" THEN d1 ELSE IF d = "d2" THEN d2 ELSE d3]

Nothing == [d \in Devices |-> 0]

\* The accounts of the table, the one each device is signed in to, and the page of the
\* others.  An account that is not verified has its code.
Situation(what, rows, in, at) ==
    LET pending == {i \in DOMAIN rows : rows[i].state = "here" /\ ~ rows[i].verified} IN
    /\ offers = what
    /\ accounts = [i \in Ids |-> IF i \in DOMAIN rows THEN
            [rows[i] EXCEPT !.devices = {d \in Devices : in[d] = i}, !.refresh = {d \in Devices : in[d] = i}]
            ELSE NoAccount]
    /\ codes = [i \in Ids |-> [p \in Purposes |->
            IF i \in pending /\ p = "verify" THEN [NoCode EXCEPT !.n = 1] ELSE NoCode]]
    /\ sent = IF pending = {} THEN <<>> ELSE <<accounts[CHOOSE i \in pending : TRUE].email>>
    /\ page = [d \in Devices |-> IF in[d] = 0 THEN at[d] ELSE [at |-> "in", email |-> accounts[in[d]].email]]
    /\ signed = [d \in Devices |-> IF in[d] = 0 THEN NoSession ELSE
            [id |-> in[d], email |-> accounts[in[d]].email, cut |-> FALSE]]
    /\ job = [d \in Devices |-> NoJob] /\ registration_open = TRUE
    /\ mails = {} /\ guessed = [n \in 1..MaxCode |-> 0]
    /\ served = [n \in 1..MaxCode |-> 0] /\ crossed = [twice |-> {}, renamed |-> {}]

SignedOut == [d \in Devices |-> Out("login")]

MCPersonOf == [d \in Devices |-> IF d = "d1" THEN "ann" ELSE "bob"]
MCTypes == [p \in Persons |-> IF p = "ann" THEN {"a", "x"} ELSE {"x"}]
MCReads == [p \in Persons |-> IF p = "ann" THEN {"a"} ELSE {"b", "x"}]

\* Two people register, one of them under an address that is not theirs.  There was an
\* account once.
Joining == Situation(Offer({"register"}, {"register", "verify"}, {}), <<Gone(1)>>, Nothing, SignedOut)

\* A code is asked for again, and typed, on the page that waits for it.
Pending == [Member("x", "bob", FALSE) EXCEPT !.verified = FALSE]
Waits == [SignedOut EXCEPT !["d2"] = [at |-> "verify-email", email |-> "x"]]
Resending == Situation(Offer({}, {"login", "verify", "resend"}, {}), <<Pending>>, Nothing, Waits)

\* One account, with room for one device: two devices sign in.
Signing == Situation(Offer({}, {"login", "tfa", "devices"}, {"login", "tfa"}), <<Member("x", "bob", FALSE)>>, Nothing, SignedOut)

\* A password is forgotten on two devices.
Forgetting == Situation(Offer({}, {"login", "forgot", "reset"}, {"forgot", "reset"}), <<Member("x", "bob", FALSE)>>, Nothing, SignedOut)

Staff == <<Member("a", "ann", TRUE), Member("b", "bob", TRUE), Member("x", "bob", FALSE)>>
StaffIn == [d \in Devices |-> IF d = "d1" THEN 1 ELSE IF d = "d2" THEN 2 ELSE 3]

\* The administrator acts on an account whose address is being verified, and which
\* somebody else may register again.
Renaming ==
    Situation(Offer({"console", "rename", "delete"}, {"verify"}, {"register"}),
              <<Member("a", "ann", TRUE), Pending>>, [Nothing EXCEPT !["d1"] = 1], Waits)

\* The administrator and a moderator act on the account of a third.
Ranking ==
    Situation(Offer({"console", "role"}, {"console", "suspend", "rename", "delete", "revoke", "grant"}, {}), Staff, StaffIn, SignedOut)

Owners == <<Member("a", "ann", TRUE), Member("x", "bob", FALSE)>>
OwnersIn == [d \in Devices |-> IF d = "d3" THEN 2 ELSE 1]

\* The administrator on two desktops: settings, panels, notes.
Setting ==
    Situation(Offer({"console", "server", "grant", "quota"}, {"server"}, {}), Owners, OwnersIn, SignedOut)
Looking ==
    Situation(Offer({"console", "panel"}, {"console"}, {}), Owners, OwnersIn, SignedOut)
Noting ==
    Situation(Offer({"notes"}, {"notes"}, {"notes"}), Owners, OwnersIn, SignedOut)

InitMC ==
    /\ InitConsole
    /\ \/ (Joining \/ Resending \/ Signing \/ Forgetting \/ Ranking \/ Looking \/ Noting) /\ spent = 0
       \/ (Renaming \/ Setting) /\ spent = MaxActs - 1
    /\ Starts
MCSpec == InitMC /\ [][Next]_vars /\ AccountsFairness
=============================================================================
