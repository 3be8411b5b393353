--------------------------- MODULE ConsoleProofs ---------------------------
(***************************************************************************)
(* The accounts and their administration, for any people, devices, bounds. *)
(*                                                                         *)
(* A handler writes after it has read, so what it may still rely on has to *)
(* be said of the request under way: the code it holds is nowhere but in   *)
(* the slot it was read from, the devices it has counted are no more than  *)
(* it counted, the address it was given is the one its code was mailed to. *)
(* Each clause has an exception the history variables name, and no other.  *)
(***************************************************************************)
EXTENDS Console, FiniteSetTheorems, TLAPS

----------------------------------------------------------------------------
(* The inductive invariant.                                                *)

Page == [at : Pages, email : Addresses]
Job == [op : {"none", "register", "verify", "login", "tfa", "forgot", "reset"},
        at : {"sent", "read", "deleted", "wrong", "locked", "open", "inserted", "known", "ripe"},
        email : Addresses, id : 0..MaxId, n : 0..MaxCode, again : BOOLEAN, moved : BOOLEAN]
Token == [id : 0..MaxId, email : Addresses, cut : BOOLEAN]

AccountTypes ==
    /\ offers \in [Devices -> SUBSET Operations]
    /\ accounts \in [Ids -> Account] /\ codes \in [Ids -> [Purposes -> Code]]
    /\ sent \in Seq(Addresses) /\ Len(sent) <= MaxCode
    /\ page \in [Devices -> Page] /\ job \in [Devices -> Job] /\ signed \in [Devices -> Token]
    /\ registration_open \in BOOLEAN /\ served \in [1..MaxCode -> Nat]
    /\ crossed \in [twice : SUBSET (1..MaxCode), renamed : SUBSET (1..MaxCode)]

\* A page that is signed in has an account, and waits for no answer of the others.
PageInv ==
    \A d \in Devices : /\ page[d].at = "in" <=> signed[d].id # 0
                       /\ job[d].op = "none" \/ page[d].at # "in"

\* What a request under way has in hand.
JobInv ==
    \A d \in Devices :
        /\ job[d].n <= Len(sent)
        /\ job[d].n # 0 => job[d].op \in {"verify", "tfa", "reset"}
        /\ job[d].at \in {"read", "deleted", "known", "ripe"} => job[d].id \in Ids
        /\ job[d].at \in {"read", "deleted"} /\ job[d].op # "login" => job[d].n # 0
        /\ job[d].at = "deleted" => job[d].op = "reset"

AddressInv == \A i, j \in Ids : Here(i) /\ Here(j) /\ accounts[i].email = accounts[j].email => i = j

\* A code is that of one account that is there, for one purpose.
CodeInv ==
    /\ \A i \in Ids, p \in Purposes : codes[i][p].n <= Len(sent) /\ (~ Here(i) => codes[i][p] = NoCode)
    /\ \A i, j \in Ids, p, q \in Purposes : codes[i][p].n = codes[j][q].n /\ codes[i][p].n # 0 => i = j /\ p = q

\* A code an answer holds is in the slot it was read from, or in none.
HoldInv ==
    \A d \in Devices : job[d].at = "read" /\ job[d].n # 0 =>
        \A j \in Ids, p \in Purposes : codes[j][p].n = job[d].n => j = job[d].id /\ p = PurposeOf(job[d].op)

\* The code n was honoured, or an answer has deleted it and will honour it.
Deleted(n) == {d \in Devices : job[d].n = n /\ job[d].at = "deleted"}
Spent(n) == served[n] # 0 \/ Deleted(n) # {}

UseInv ==
    /\ \A n \in 1..MaxCode : served[n] # 0 => n <= Len(sent)
    /\ \A n \in (1..MaxCode) \ crossed.twice :
        /\ \A d, e \in Devices : job[d].n = n /\ job[e].n = n /\ job[d].at \in {"read", "deleted"} /\ job[e].at \in {"read", "deleted"} => d = e
        /\ served[n] <= 1 /\ (Deleted(n) # {} => served[n] = 0)
        /\ Spent(n) => /\ \A i \in Ids, p \in Purposes : codes[i][p].n # n
                       /\ Holding(n) = {}
        /\ \A d \in Holding(n) : job[d].op = "verify" /\ codes[job[d].id].verify.n = n
                                    => accounts[job[d].id].email = job[d].email

\* The devices that were counted are still no more, unless the answer was overtaken.
CapInv ==
    \A d \in Devices : Doing(d, "tfa", "read") /\ ~ job[d].moved /\ Here(job[d].id) => HasRoom(d, job[d].id)

ProofInv ==
    /\ \A i \in Ids : codes[i].verify.n # 0 =>
        codes[i].verify.n \in crossed.renamed \/ sent[codes[i].verify.n] = accounts[i].email
    /\ \A d \in Devices : Doing(d, "verify", "read") =>
        job[d].n \in crossed.renamed \/ sent[job[d].n] = job[d].email

AccountInv ==
    AccountTypes /\ PageInv /\ JobInv /\ AddressInv /\ CodeInv /\ HoldInv /\ UseInv /\ CapInv /\ ProofInv

Set == [grants : SUBSET {"email", "server"}, quota : {"none", "low"}]
Line == [email : Addresses, moderator : BOOLEAN, suspended : BOOLEAN, settings : Set]
Name == Addresses \cup {NoName}

\* What each act on an account asks for.
Argument(op) ==
    IF op = "rename" THEN Addresses ELSE IF op = "grant" THEN [name : {"email", "server"}, on : BOOLEAN]
    ELSE IF op = "quota" THEN {"none", "low"} ELSE BOOLEAN

ActInv ==
    \A a \in acts :
        /\ a = [d |-> a.d, op |-> a.op, on |-> a.on, arg |-> a.arg, at |-> a.at, admin |-> a.admin, seen |-> a.seen]
        /\ a.d \in Devices /\ a.op \in Acts /\ a.on \in Addresses /\ a.arg \in Argument(a.op)
        /\ a.at \in {"sent", "allowed"} /\ a.admin \in BOOLEAN /\ a.seen \in BOOLEAN

\* An act that was allowed is not on the administrator, and was asked by the
\* administrator if its target was a moderator.
AllowedInv ==
    \A a \in acts : a.at = "allowed" /\ a.op \notin {"role", "quota"} =>
        a.on # AdminAddress /\ (a.seen => a.admin)

ConsoleTypes ==
    /\ settings \in [Ids -> Set] /\ list \in [Devices -> [rows : SUBSET Line, loading : BOOLEAN, busy : Name]]
    /\ \A r \in reads : r.d \in Devices /\ r.rows \subseteq Line
                        /\ r = [d |-> r.d, after |-> r.after, rows |-> r.rows, at |-> r.at]
    /\ panel \in [Devices -> [who : Name, shown : Name]]
    /\ \A q \in asks : q.d \in Devices /\ q.about \in Addresses
    /\ health \in [Devices -> {"closed", "loading", "open"}] /\ choice_at_login \in BOOLEAN
    /\ seen \in [Devices -> [Globals -> SUBSET BOOLEAN]]
    /\ notes \subseteq Notes /\ desk \in [Devices -> SUBSET Notes] /\ told \in [Notes -> 0..1]
    /\ \A n \in notes : told[n] = 0
    /\ spent \in 0..MaxActs

ConsoleInv == ConsoleTypes /\ ActInv /\ AllowedInv

----------------------------------------------------------------------------
(* What the constants give.                                                *)

LEMMA Bounds ==
    /\ MaxId \in Nat \ {0} /\ MaxCode \in Nat /\ MaxCap \in Nat \ {0} /\ MaxTries \in Nat \ {0}
    /\ Ids = 1..MaxId /\ 0 \notin Ids /\ Ids \subseteq Nat /\ IsFiniteSet(Devices) /\ AdminAddress \in Addresses
PROOF BY SMT, AccountsAssumption DEF AccountsAssumption, Ids

LEMMA Blank ==
    /\ NoAccount \in Account /\ NoAccount.state = "none" /\ NoAccount.devices = {} /\ NoAccount.cap = 1
    /\ NoCode \in Code /\ NoCode.n = 0
    /\ NoJob \in Job /\ NoJob.op = "none" /\ NoJob.at = "sent" /\ NoJob.n = 0 /\ ~ NoJob.moved
    /\ NoSession \in Token /\ NoSession.id = 0
<1>1. (CHOOSE p \in Persons : TRUE) \in Persons
    BY AccountsAssumption DEF AccountsAssumption
<1>2. NoAccount \in Account /\ NoAccount.state = "none" /\ NoAccount.devices = {} /\ NoAccount.cap = 1
    BY SMT, <1>1, Bounds DEF NoAccount, Account
<1>3. NoCode \in Code /\ NoCode.n = 0
    BY SMT, Bounds DEF NoCode, Code
<1>4. NoJob \in Job /\ NoJob.op = "none" /\ NoJob.at = "sent" /\ NoJob.n = 0 /\ ~ NoJob.moved
    BY SMT, Bounds DEF NoJob, Job
<1>5. NoSession \in Token /\ NoSession.id = 0
    BY SMT, Bounds DEF NoSession, Token
<1>6. QED
    BY <1>2, <1>3, <1>4, <1>5

LEMMA GoneIs == \A i \in Ids : Gone(i) \in Account /\ Gone(i).state = "gone"
PROOF BY SMT, Blank DEF Gone, Account

LEMMA CodesOf ==
    ASSUME AccountTypes
    PROVE  /\ Len(sent) \in Nat /\ \A n \in 1..Len(sent) : sent[n] \in Addresses
           /\ \A i \in Ids, p \in Purposes : codes[i][p] \in Code /\ codes[i][p].n \in Nat
           /\ \A d \in Devices : job[d] \in Job /\ job[d].n \in Nat
           /\ \A i \in Ids : accounts[i] \in Account
PROOF BY SMT DEF AccountTypes, Code, Job

----------------------------------------------------------------------------
(* Steps that issue no code and honour none.                               *)

\* What the answer of d has in hand is the same, or it has nothing yet, or no code.
Same(d) == /\ job'[d].op = job[d].op /\ job'[d].at = job[d].at /\ job'[d].email = job[d].email
           /\ job'[d].id = job[d].id /\ job'[d].n = job[d].n
Fresh(d) ==
    \/ /\ job'[d].at \notin {"read", "deleted"} /\ job'[d].n <= Len(sent)
       /\ job'[d].n # 0 => job'[d].op \in {"verify", "tfa", "reset"}
       /\ job'[d].at \in {"known", "ripe"} => job'[d].id \in Ids
    \/ job'[d].op = "login" /\ job'[d].at = "read" /\ job'[d].id \in Ids /\ job'[d].n = 0

\* Codes and accounts only disappear, and addresses stay.
Calm ==
    /\ \A i \in Ids, p \in Purposes : codes'[i][p].n # 0 => codes'[i][p].n = codes[i][p].n
    /\ \A i \in Ids : accounts'[i].state = "here" =>
        accounts[i].state = "here" /\ accounts'[i].email = accounts[i].email
    /\ \A i \in Ids, p \in Purposes : accounts'[i].state # "here" => codes'[i][p] = NoCode
    /\ \A d \in Devices : Same(d) \/ Fresh(d)
    /\ UNCHANGED <<sent, served, crossed>>

LEMMA CalmKeeps ==
    ASSUME AccountInv, AccountTypes', Calm
    PROVE  JobInv' /\ AddressInv' /\ CodeInv' /\ HoldInv' /\ UseInv' /\ ProofInv'
<1> USE DEF AccountInv
<1>0. UNCHANGED <<sent, served, crossed>>
    BY DEF Calm
<1>1. JobInv'
    BY SMT, <1>0, CodesOf, Bounds DEF Calm, Same, Fresh, JobInv
<1>2. AddressInv'
    BY SMT DEF Calm, AddressInv, Here
<1>3. CodeInv'
    BY SMT, <1>0, CodesOf, Bounds, Blank DEF Calm, CodeInv, Here
<1>4. HoldInv'
    BY SMT DEF Calm, Same, Fresh, HoldInv
<1>5. UseInv'
    <2>1. \A n \in 1..MaxCode : Deleted(n)' \subseteq Deleted(n) /\ Holding(n)' \subseteq Holding(n)
        BY SMT DEF Calm, Same, Fresh, Deleted, Holding
    <2>2. (\A n \in 1..MaxCode : served[n] # 0 => n <= Len(sent))'
        BY SMT, <1>0 DEF UseInv
    <2>3. ASSUME NEW n \in 1..MaxCode, n \notin crossed.twice
          PROVE  /\ \A d, e \in Devices :
                      job'[d].n = n /\ job'[e].n = n /\ job'[d].at \in {"read", "deleted"} /\ job'[e].at \in {"read", "deleted"} => d = e
                 /\ served'[n] <= 1 /\ (Deleted(n)' # {} => served'[n] = 0)
                 /\ Spent(n)' => (\A i \in Ids, p \in Purposes : codes'[i][p].n # n) /\ Holding(n)' = {}
                 /\ \A d \in Holding(n)' : job'[d].op = "verify" /\ codes'[job'[d].id].verify.n = n
                                             => accounts'[job'[d].id].email = job'[d].email
        <3>1. \A d, e \in Devices :
                      job'[d].n = n /\ job'[e].n = n /\ job'[d].at \in {"read", "deleted"} /\ job'[e].at \in {"read", "deleted"} => d = e
            BY SMT, <2>3 DEF Calm, Same, Fresh, UseInv
        <3>2. served'[n] <= 1 /\ (Deleted(n)' # {} => served'[n] = 0)
            BY SMT, <2>3, <2>1, <1>0 DEF UseInv
        <3>3. Spent(n)' => Spent(n)
            BY SMT, <2>1, <1>0 DEF Spent
        <3>4. Spent(n) => (\A i \in Ids, p \in Purposes : codes[i][p].n # n) /\ Holding(n) = {}
            BY <2>3 DEF UseInv
        <3>5. Spent(n)' => (\A i \in Ids, p \in Purposes : codes'[i][p].n # n) /\ Holding(n)' = {}
            BY SMT, <3>3, <3>4, <2>1, Bounds DEF Calm
        <3>6. ASSUME NEW d \in Holding(n)', job'[d].op = "verify", codes'[job'[d].id].verify.n = n
              PROVE  accounts'[job'[d].id].email = job'[d].email
            <4>1. d \in Devices /\ d \in Holding(n) /\ Same(d) /\ job[d].id \in Ids /\ n # 0
                BY SMT, <3>6, <2>1, Bounds DEF Calm, Same, Fresh, Holding, JobInv
            <4>2. codes'[job[d].id].verify.n = n /\ "verify" \in Purposes
                BY SMT, <4>1, <3>6 DEF Same, Purposes
            <4>3. codes[job[d].id].verify.n = n
                BY SMT, <4>1, <4>2, <3>6 DEF Calm
            <4>4. accounts'[job[d].id].state = "here"
                BY SMT, <4>1, <4>2, Blank DEF Calm
            <4>5. accounts[job[d].id].email = job[d].email
                <5>1. \A e \in Holding(n) : job[e].op = "verify" /\ codes[job[e].id].verify.n = n
                                                => accounts[job[e].id].email = job[e].email
                    BY <2>3 DEF UseInv
                <5>2. QED
                    BY <5>1, <4>1, <4>3, <3>6 DEF Same
            <4>6. QED
                BY SMT, <4>1, <4>4, <4>5 DEF Calm, Same
        <3>7. QED
            BY <3>1, <3>2, <3>5, <3>6
    <2>4. QED
        BY SMT, <2>2, <2>3, <1>0 DEF UseInv
<1>6. ProofInv'
    <2>1. ASSUME NEW i \in Ids, codes'[i].verify.n # 0
          PROVE  codes'[i].verify.n \in crossed.renamed \/ sent[codes'[i].verify.n] = accounts'[i].email
        <3>1. "verify" \in Purposes
            BY DEF Purposes
        <3>2. codes'[i].verify.n = codes[i].verify.n /\ accounts'[i].state = "here"
            BY SMT, <2>1, <3>1, Blank DEF Calm
        <3>3. accounts'[i].email = accounts[i].email
            BY SMT, <3>2 DEF Calm
        <3>4. QED
            BY SMT, <3>2, <3>3, <2>1 DEF ProofInv
    <2>2. ASSUME NEW d \in Devices, Doing(d, "verify", "read")'
          PROVE  job'[d].n \in crossed.renamed \/ sent[job'[d].n] = job'[d].email
        <3>1. Same(d)
            BY SMT, <2>2 DEF Doing, Calm, Fresh
        <3>2. Doing(d, "verify", "read") /\ job'[d].n = job[d].n /\ job'[d].email = job[d].email
            BY <3>1, <2>2 DEF Doing, Same
        <3>3. QED
            BY <3>2 DEF ProofInv
    <2>3. QED
        BY <2>1, <2>2, <1>0 DEF ProofInv
<1>7. QED
    BY <1>1, <1>2, <1>3, <1>4, <1>5, <1>6

----------------------------------------------------------------------------
(* A code is mailed.                                                       *)

\* The code is new: nothing has it in hand, and it was never honoured.
LEMMA IssueKeeps ==
    ASSUME AccountInv, AccountTypes', NEW i \in Ids, NEW p \in Purposes, NEW a \in Addresses, Issue(i, p, a),
           accounts'[i].state = "here", p = "verify" => accounts'[i].email = a,
           \A j \in Ids : Here(j) => accounts'[j].state = "here" /\ accounts'[j].email = accounts[j].email,
           \A d \in Devices : Same(d) \/ Fresh(d),
           UNCHANGED <<served, crossed>>
    PROVE  JobInv' /\ CodeInv' /\ HoldInv' /\ UseInv' /\ ProofInv'
<1> USE DEF AccountInv
<1> DEFINE new == Len(sent) + 1
<1>0. /\ Len(sent)' = new /\ new \in 1..MaxCode /\ UNCHANGED <<served, crossed>>
      /\ sent'[new] = a /\ \A n \in 1..Len(sent) : sent'[n] = sent[n]
    BY SMT, Bounds DEF Issue, AccountTypes
<1>a. /\ codes'[i][p].n = new
      /\ \A j \in Ids, q \in Purposes : j # i \/ q # p => codes'[j][q] = codes[j][q]
    BY SMT, Blank DEF Issue, AccountTypes, NoCode
<1>b. \A j \in Ids, q \in Purposes : codes[j][q].n <= Len(sent) /\ codes[j][q].n # new
    BY SMT, CodesOf DEF CodeInv
<1>c. \A d \in Devices : job[d].n <= Len(sent) /\ job'[d].n <= Len(sent) /\ job'[d].n # new
    BY SMT, CodesOf DEF JobInv, Same, Fresh
<1> HIDE DEF new
<1>n. new \in Nat /\ Len(sent) \in Nat /\ Len(sent) <= new /\ new # 0
    BY SMT, CodesOf DEF new
<1>1. JobInv'
    <2>1. ASSUME NEW d \in Devices
          PROVE  /\ job'[d].n <= new
                 /\ job'[d].n # 0 => job'[d].op \in {"verify", "tfa", "reset"}
                 /\ job'[d].at \in {"read", "deleted", "known", "ripe"} => job'[d].id \in Ids
                 /\ job'[d].at \in {"read", "deleted"} /\ job'[d].op # "login" => job'[d].n # 0
                 /\ job'[d].at = "deleted" => job'[d].op = "reset"
        <3>1. job'[d].n \in Nat
            BY SMT DEF AccountTypes, Job
        <3>2. QED
            BY SMT, <3>1, <1>c, <1>n DEF Same, Fresh, JobInv
    <2>2. QED
        BY <2>1, <1>0 DEF JobInv
<1>3. CodeInv'
    <2>1. ASSUME NEW j \in Ids, NEW q \in Purposes
          PROVE  codes'[j][q].n <= new /\ (accounts'[j].state # "here" => codes'[j][q] = NoCode)
        <3>1. CASE j = i /\ q = p
            BY SMT, <3>1, <1>a, <1>n
        <3>2. CASE j # i \/ q # p
            <4>1. codes'[j][q] = codes[j][q] /\ codes[j][q].n <= new
                BY SMT, <3>2, <1>a, <1>b, <1>n, CodesOf
            <4>2. accounts'[j].state # "here" => ~ Here(j)
                OBVIOUS
            <4>3. QED
                BY <4>1, <4>2 DEF CodeInv
        <3>3. QED
            BY <3>1, <3>2
    <2>2. ASSUME NEW j \in Ids, NEW k \in Ids, NEW q \in Purposes, NEW r \in Purposes,
                 codes'[j][q].n = codes'[k][r].n, codes'[j][q].n # 0
          PROVE  j = k /\ q = r
        <3>1. CASE (j = i /\ q = p) \/ (k = i /\ r = p)
            BY <3>1, <2>2, <1>a, <1>b
        <3>2. CASE (j # i \/ q # p) /\ (k # i \/ r # p)
            <4>1. codes'[j][q] = codes[j][q] /\ codes'[k][r] = codes[k][r]
                BY <3>2, <1>a
            <4>2. QED
                BY <4>1, <2>2 DEF CodeInv
        <3>3. QED
            BY <3>1, <3>2
    <2>3. QED
        BY <2>1, <2>2, <1>0 DEF CodeInv, Here
<1>d. ASSUME NEW j \in Ids, NEW q \in Purposes, NEW n, n # new, codes'[j][q].n = n
      PROVE  codes[j][q].n = n /\ codes'[j][q] = codes[j][q]
    BY <1>d, <1>a
<1>4. HoldInv'
    <2>1. ASSUME NEW d \in Devices, job'[d].at = "read", job'[d].n # 0, NEW j \in Ids, NEW q \in Purposes,
                 codes'[j][q].n = job'[d].n
          PROVE  j = job'[d].id /\ q = PurposeOf(job'[d].op)
        <3>1. Same(d) /\ codes[j][q].n = job'[d].n
            BY SMT, <2>1, <1>c, <1>d DEF Fresh
        <3>2. job[d].at = "read" /\ job[d].n # 0 /\ codes[j][q].n = job[d].n
            BY <3>1, <2>1 DEF Same
        <3>3. j = job[d].id /\ q = PurposeOf(job[d].op)
            BY <3>2 DEF HoldInv
        <3>4. QED
            BY <3>1, <3>3 DEF Same
    <2>2. QED
        BY <2>1 DEF HoldInv
<1>5. UseInv'
    <2>1. \A n \in 1..MaxCode : Deleted(n)' \subseteq Deleted(n) /\ Holding(n)' \subseteq Holding(n)
        BY SMT DEF Same, Fresh, Deleted, Holding
    <2>2. (\A n \in 1..MaxCode : served[n] # 0 => n <= Len(sent))'
        BY SMT, <1>0, <1>n, CodesOf, Bounds DEF UseInv
    <2>3. ASSUME NEW n \in 1..MaxCode, n \notin crossed.twice
          PROVE  /\ \A d, e \in Devices :
                      job'[d].n = n /\ job'[e].n = n /\ job'[d].at \in {"read", "deleted"} /\ job'[e].at \in {"read", "deleted"} => d = e
                 /\ served'[n] <= 1 /\ (Deleted(n)' # {} => served'[n] = 0)
                 /\ Spent(n)' => (\A j \in Ids, q \in Purposes : codes'[j][q].n # n) /\ Holding(n)' = {}
                 /\ \A d \in Holding(n)' : job'[d].op = "verify" /\ codes'[job'[d].id].verify.n = n
                                             => accounts'[job'[d].id].email = job'[d].email
        <3>1. \A d, e \in Devices :
                      job'[d].n = n /\ job'[e].n = n /\ job'[d].at \in {"read", "deleted"} /\ job'[e].at \in {"read", "deleted"} => d = e
            BY SMT, <2>3 DEF Same, Fresh, UseInv
        <3>2. served'[n] <= 1 /\ (Deleted(n)' # {} => served'[n] = 0)
            BY SMT, <2>3, <2>1, <1>0 DEF UseInv
        <3>3. Spent(n)' => Spent(n)
            BY SMT, <2>1, <1>0 DEF Spent
        <3>4. Spent(n) => (\A j \in Ids, q \in Purposes : codes[j][q].n # n) /\ Holding(n) = {}
            BY <2>3 DEF UseInv
        <3>5. Spent(n) => n # new
            <4>1. served[new] = 0 /\ Deleted(new) = {}
                BY SMT, <1>0, <1>n, <1>c, CodesOf DEF UseInv, Deleted, new
            <4>2. QED
                BY <4>1 DEF Spent
        <3>6. Spent(n)' => (\A j \in Ids, q \in Purposes : codes'[j][q].n # n) /\ Holding(n)' = {}
            BY <3>3, <3>4, <3>5, <2>1, <1>d
        <3>7. ASSUME NEW d \in Holding(n)', job'[d].op = "verify", codes'[job'[d].id].verify.n = n
              PROVE  accounts'[job'[d].id].email = job'[d].email
            <4>1. d \in Devices /\ d \in Holding(n) /\ Same(d) /\ job[d].id \in Ids /\ n # 0 /\ n # new
                BY SMT, <3>7, <2>1, <1>c, Bounds DEF Same, Fresh, Holding, JobInv
            <4>2. codes'[job[d].id].verify.n = n /\ "verify" \in Purposes
                BY SMT, <4>1, <3>7 DEF Same, Purposes
            <4>3. codes[job[d].id].verify.n = n
                BY <4>1, <4>2, <1>d
            <4>4. Here(job[d].id)
                BY SMT, <4>1, <4>2, <4>3, Blank DEF CodeInv
            <4>5. \A e \in Holding(n) : job[e].op = "verify" /\ codes[job[e].id].verify.n = n
                                            => accounts[job[e].id].email = job[e].email
                BY <2>3 DEF UseInv
            <4>6. QED
                BY <4>1, <4>3, <4>4, <4>5, <3>7 DEF Same
        <3>8. QED
            BY <3>1, <3>2, <3>6, <3>7
    <2>4. QED
        BY SMT, <2>2, <2>3, <1>0 DEF UseInv
<1>6. ProofInv'
    <2>1. ASSUME NEW j \in Ids, codes'[j].verify.n # 0
          PROVE  codes'[j].verify.n \in crossed.renamed \/ sent'[codes'[j].verify.n] = accounts'[j].email
        <3>0. "verify" \in Purposes
            BY DEF Purposes
        <3>1. CASE j = i /\ p = "verify"
            BY <3>1, <1>a, <1>0
        <3>2. CASE j # i \/ p # "verify"
            <4>1. codes'[j].verify = codes[j].verify
                BY SMT, <3>2, <3>0, <1>a
            <4>2. Here(j) /\ codes[j].verify.n \in 1..Len(sent)
                BY SMT, <4>1, <3>0, <2>1, Blank, CodesOf DEF CodeInv
            <4>3. QED
                BY <4>1, <4>2, <1>0, <2>1 DEF ProofInv
        <3>3. QED
            BY <3>1, <3>2
    <2>2. ASSUME NEW d \in Devices, Doing(d, "verify", "read")'
          PROVE  job'[d].n \in crossed.renamed \/ sent'[job'[d].n] = job'[d].email
        <3>1. Same(d)
            BY SMT, <2>2 DEF Doing, Fresh
        <3>2. Doing(d, "verify", "read") /\ job'[d].n = job[d].n /\ job'[d].email = job[d].email
            BY <3>1, <2>2 DEF Doing, Same
        <3>3. job[d].n \in 1..Len(sent)
            BY SMT, <3>2, CodesOf DEF Doing, JobInv
        <3>4. QED
            BY <3>2, <3>3, <1>0 DEF ProofInv
    <2>3. QED
        BY <2>1, <2>2, <1>0 DEF ProofInv
<1>7. QED
    BY <1>1, <1>3, <1>4, <1>5, <1>6

----------------------------------------------------------------------------
(* A code is compared.                                                     *)

LEMMA CompareKeeps ==
    ASSUME AccountInv, AccountTypes', NEW d \in Devices, NEW p \in Purposes, NEW i \in At(job[d].email), NEW room,
           job[d].op \in {"verify", "tfa", "reset"}, p = PurposeOf(job[d].op), job[d].at = "sent",
           Compare(d, i, p, room), UNCHANGED <<accounts, codes, sent, served>>
    PROVE  JobInv' /\ AddressInv' /\ CodeInv' /\ HoldInv' /\ UseInv' /\ ProofInv'
<1> USE DEF AccountInv
<1> DEFINE c == codes[i][p]
           locked == [job[d] EXCEPT !.at = "locked", !.id = i, !.n = 0]
           wrong == [job[d] EXCEPT !.at = "wrong", !.id = i, !.n = c.n]
           right == c.n = job[d].n /\ c.n # 0
<1>0. i \in Ids /\ Here(i) /\ accounts[i].email = job[d].email
    BY DEF At, Here
<1>a. \/ /\ right
         /\ job' = [job EXCEPT ![d].at = "read", ![d].id = i] /\ codes' = codes
         /\ crossed' = IF Holding(c.n) = {} THEN crossed ELSE [crossed EXCEPT !.twice = @ \cup {c.n}]
      \/ crossed' = crossed /\ \E r \in {NoJob, locked, wrong} : job' = [job EXCEPT ![d] = r]
    BY DEF Compare, Settle, AccountTypes
<1>1. CASE /\ right
           /\ job' = [job EXCEPT ![d].at = "read", ![d].id = i] /\ codes' = codes
           /\ crossed' = IF Holding(c.n) = {} THEN crossed ELSE [crossed EXCEPT !.twice = @ \cup {c.n}]
    <2>1. /\ job' = [job EXCEPT ![d].at = "read", ![d].id = i] /\ codes' = codes
          /\ crossed' = IF Holding(c.n) = {} THEN crossed ELSE [crossed EXCEPT !.twice = @ \cup {c.n}]
        BY <1>1
    <2>m. PICK m \in Nat : m = job[d].n
        BY CodesOf
    <2>2. /\ job'[d].at = "read" /\ job'[d].id = i /\ job'[d].n = m /\ job'[d].op = job[d].op
          /\ job'[d].email = job[d].email /\ \A e \in Devices : e # d => job'[e] = job[e]
        BY SMT, <2>1, <2>m DEF AccountTypes, Job
    <2>3. /\ crossed'.twice = IF Holding(m) = {} THEN crossed.twice ELSE crossed.twice \cup {m}
          /\ crossed'.renamed = crossed.renamed
        BY SMT, <2>1, <2>m, <1>1 DEF AccountTypes
    <2>4. m # 0 /\ codes[i][p].n = m /\ m \in 1..Len(sent) /\ m \in 1..MaxCode
        BY SMT, <1>1, <2>m, <1>0, CodesOf, Bounds DEF CodeInv, AccountTypes
    <2> HIDE DEF c, right
    <2>5. JobInv'
        BY SMT, <2>2, <2>4, <1>0 DEF JobInv
    <2>6. AddressInv' /\ CodeInv'
        BY <2>1 DEF AddressInv, CodeInv, Here
    <2>7. HoldInv'
        <3>1. ASSUME NEW e \in Devices, job'[e].at = "read", job'[e].n # 0, NEW j \in Ids, NEW q \in Purposes,
                     codes'[j][q].n = job'[e].n
              PROVE  j = job'[e].id /\ q = PurposeOf(job'[e].op)
            <4>0. codes[j][q].n = job'[e].n
                BY <3>1, <2>1
            <4>1. CASE e = d
                <5>1. codes[j][q].n = codes[i][p].n /\ codes[j][q].n # 0
                    BY <4>0, <4>1, <2>2, <2>4
                <5>2. j = i /\ q = p
                    BY <5>1, <1>0 DEF CodeInv
                <5>3. QED
                    BY <5>2, <4>1, <2>2
            <4>2. CASE e # d
                BY <4>0, <4>2, <3>1, <2>2 DEF HoldInv
            <4>3. QED
                BY <4>1, <4>2
        <3>2. QED
            BY ONLY <3>1 DEF HoldInv
    <2>8. UseInv'
        <3>1. ~ Spent(m) \/ m \in crossed.twice
            BY <2>4, <1>0 DEF UseInv
        <3>2. \A n \in 1..MaxCode : Deleted(n)' = Deleted(n)
            BY SMT, <2>2 DEF Deleted
        <3>3. \A n : n # m => Holding(n)' = Holding(n)
            BY SMT, <2>2 DEF Holding
        <3>4. Holding(m)' = Holding(m) \cup {d}
            BY SMT, <2>2 DEF Holding
        <3>5. ASSUME NEW n \in 1..MaxCode, n \notin crossed'.twice
              PROVE  /\ \A e, f \in Devices :
                          job'[e].n = n /\ job'[f].n = n /\ job'[e].at \in {"read", "deleted"} /\ job'[f].at \in {"read", "deleted"} => e = f
                     /\ served[n] <= 1 /\ (Deleted(n)' # {} => served[n] = 0)
                     /\ Spent(n)' => (\A j \in Ids, q \in Purposes : codes[j][q].n # n) /\ Holding(n)' = {}
                     /\ \A e \in Holding(n)' : job'[e].op = "verify" /\ codes[job'[e].id].verify.n = n
                                                 => accounts[job'[e].id].email = job'[e].email
            <4>1. n \notin crossed.twice
                BY <3>5, <2>3
            <4>2. /\ \A e, f \in Devices :
                          job[e].n = n /\ job[f].n = n /\ job[e].at \in {"read", "deleted"} /\ job[f].at \in {"read", "deleted"} => e = f
                  /\ served[n] <= 1 /\ (Deleted(n) # {} => served[n] = 0)
                  /\ Spent(n) => (\A j \in Ids, q \in Purposes : codes[j][q].n # n) /\ Holding(n) = {}
                  /\ \A e \in Holding(n) : job[e].op = "verify" /\ codes[job[e].id].verify.n = n
                                                 => accounts[job[e].id].email = job[e].email
                BY <4>1 DEF UseInv
            <4>3. Spent(n)' <=> Spent(n)
                BY <3>2 DEF Spent
            <4>4. CASE n # m
                <5>1. \A e \in Devices : job'[e].n = n => e # d /\ job'[e] = job[e]
                    BY <4>4, <2>2
                <5>2. \A e \in Holding(n) : job'[e] = job[e]
                    BY <5>1, <4>4, <3>3 DEF Holding
                <5>3. QED
                    BY <5>1, <5>2, <4>2, <4>3, <4>4, <3>2, <3>3
            <4>5. CASE n = m
                <5>1. Holding(m) = {} /\ ~ Spent(m)
                    BY <4>5, <3>5, <2>3, <3>1
                <5>2. \A e \in Devices : job[e].n = m => job[e].at # "read" /\ job[e].at # "deleted"
                    BY <5>1 DEF Holding, Spent, Deleted
                <5>3. \A e \in Devices : job'[e].n = m /\ job'[e].at \in {"read", "deleted"} => e = d
                    BY SMT, <5>2, <2>2 DEF AccountTypes, Job
                <5>4. \A e \in Holding(n)' : e = d
                    BY <5>1, <3>4, <4>5
                <5>5. QED
                    BY <5>1, <5>3, <5>4, <4>2, <4>3, <4>5, <3>2, <2>2, <1>0
            <4>6. QED
                BY <4>4, <4>5
        <3>6. (\A n \in 1..MaxCode : served[n] # 0 => n <= Len(sent))'
            BY DEF UseInv
        <3>7. UNCHANGED <<accounts, codes, served>>
            BY <2>1
        <3>8. QED
            BY <3>5, <3>6, <3>7 DEF UseInv
    <2>9. ProofInv'
        <3>1. ASSUME NEW e \in Devices, Doing(e, "verify", "read")'
              PROVE  job'[e].n \in crossed.renamed \/ sent[job'[e].n] = job'[e].email
            <4>1. CASE e = d
                <5>1. p = "verify" /\ codes[i].verify.n = m
                    BY SMT, <4>1, <3>1, <2>2, <2>4 DEF Doing, PurposeOf
                <5>2. m \in crossed.renamed \/ sent[m] = accounts[i].email
                    BY <5>1, <2>4, <1>0 DEF ProofInv
                <5>3. QED
                    BY <5>2, <4>1, <2>2, <1>0
            <4>2. CASE e # d
                BY <4>2, <3>1, <2>2 DEF ProofInv, Doing
            <4>3. QED
                BY <4>1, <4>2
        <3>2. QED
            BY <3>1, <2>1, <2>3 DEF ProofInv
    <2>10. QED
        BY <2>5, <2>6, <2>7, <2>8, <2>9
<1>2. CASE crossed' = crossed /\ \E r \in {NoJob, locked, wrong} : job' = [job EXCEPT ![d] = r]
    <2>1. job[d] \in Job /\ c.n \in Nat /\ c.n <= Len(sent) /\ Len(sent) \in Nat
        BY <1>0, CodesOf DEF CodeInv
    <2>2. /\ locked.at = "locked" /\ locked.n = 0 /\ locked.op = job[d].op
          /\ wrong.at = "wrong" /\ wrong.n = c.n /\ wrong.op = job[d].op
        BY <2>1 DEF Job
    <2> HIDE DEF locked, wrong, c
    <2>3. /\ \A e \in Devices : e # d => job'[e] = job[e]
          /\ job'[d] = NoJob \/ job'[d] = locked \/ job'[d] = wrong
        BY <1>2 DEF AccountTypes
    <2>4. Fresh(d)
        BY <2>1, <2>2, <2>3, Blank DEF Fresh
    <2>5. \A e \in Devices : Same(e) \/ Fresh(e)
        BY <2>3, <2>4 DEF Same
    <2>6. Calm
        BY <1>2, <2>5 DEF Calm, CodeInv, Here
    <2>7. QED
        BY <2>6, CalmKeeps
<1>3. QED
    BY <1>a, <1>1, <1>2

----------------------------------------------------------------------------
(* The steps of the pages, and of a sign-in.                               *)

\* The devices of the accounts that are there, and their caps, are as they were.
SameDevices ==
    \A i \in Ids : accounts'[i].state = "here" =>
        accounts[i].state = "here" /\ accounts'[i].devices = accounts[i].devices /\ accounts'[i].cap = accounts[i].cap

LEMMA CapKeeps ==
    ASSUME AccountInv, SameDevices, \A d \in Devices : job'[d] = job[d] \/ ~ Doing(d, "tfa", "read")'
    PROVE  CapInv'
<1>1. ASSUME NEW d \in Devices, Doing(d, "tfa", "read")', ~ job'[d].moved, Here(job[d].id)'
      PROVE  HasRoom(d, job[d].id)' /\ job'[d] = job[d]
    <2>1. job'[d] = job[d] /\ job[d].id \in Ids
        BY <1>1 DEF Doing, AccountInv, JobInv
    <2>2. Doing(d, "tfa", "read") /\ ~ job[d].moved
        BY <1>1, <2>1 DEF Doing
    <2>3. Here(job[d].id) /\ accounts'[job[d].id].devices = accounts[job[d].id].devices
          /\ accounts'[job[d].id].cap = accounts[job[d].id].cap
        BY <1>1, <2>1 DEF SameDevices, Here
    <2>4. HasRoom(d, job[d].id)
        BY <2>1, <2>2, <2>3 DEF AccountInv, CapInv
    <2>5. QED
        BY <2>1, <2>3, <2>4 DEF HasRoom
<1>2. QED
    BY <1>1 DEF CapInv, Doing, Here, HasRoom

LEMMA AskedIs ==
    ASSUME NEW r \in Job, NEW op \in {"register", "verify", "login", "tfa", "forgot", "reset"}, NEW a \in Addresses,
           NEW n \in 0..MaxCode
    PROVE  [r EXCEPT !.op = op, !.email = a, !.n = n] \in Job
<1>1. ASSUME NEW s \in Job PROVE [s EXCEPT !.op = op] \in Job
    BY DEF Job
<1>2. ASSUME NEW s \in Job PROVE [s EXCEPT !.email = a, !.n = n] \in Job
    BY Bounds DEF Job
<1>3. [r EXCEPT !.op = op, !.email = a, !.n = n] = [[r EXCEPT !.op = op] EXCEPT !.email = a, !.n = n]
    BY DEF Job
<1>4. QED
    BY <1>1, <1>2, <1>3

\* A request is sent, from a page that is not signed in.
LEMMA AskKeeps ==
    ASSUME AccountInv, NEW d \in Devices, NEW op \in {"register", "verify", "login", "tfa", "forgot", "reset"},
           NEW a \in Addresses, NEW n \in 0..Len(sent), n # 0 => op \in {"verify", "tfa", "reset"},
           page[d].at # "in", Ask(d, op, a, n)
    PROVE  AccountInv'
<1> USE DEF AccountInv
<1>1. AccountTypes'
    <2>1. [NoJob EXCEPT !.op = op, !.email = a, !.n = n] \in Job
        <3>1. n \in 0..MaxCode
            BY SMT, Bounds, CodesOf DEF AccountTypes
        <3>2. QED
            BY <3>1, AskedIs, Blank
    <2>2. QED
        BY SMT, <2>1 DEF Ask, AccountTypes
<1>2. job'[d].op = op /\ job'[d].at = "sent" /\ job'[d].n = n /\ \A e \in Devices : e # d => job'[e] = job[e]
    BY SMT DEF Ask, AccountTypes, NoJob
<1>3. UNCHANGED <<accounts, codes, sent, page, signed, served, crossed>>
    BY DEF Ask
<1>4. Calm
    <2>1. \A e \in Devices : Same(e) \/ Fresh(e)
        BY SMT, <1>2, CodesOf DEF Same, Fresh
    <2>2. QED
        BY <2>1, <1>3 DEF Calm, CodeInv, Here
<1>5. CapInv'
    <2>1. \A e \in Devices : job'[e] = job[e] \/ ~ Doing(e, "tfa", "read")'
        BY <1>2 DEF Doing
    <2>2. QED
        BY <2>1, <1>3, CapKeeps DEF SameDevices
<1>6. PageInv'
    BY <1>2, <1>3 DEF PageInv
<1>7. QED
    BY <1>1, <1>4, <1>5, <1>6, CalmKeeps

\* A request is answered and nothing else is decided.
LEMMA SettleKeeps ==
    ASSUME AccountInv, NEW d \in Devices, Settle(d), 
           UNCHANGED <<offers, accounts, codes, sent, page, signed, registration_open, served, crossed>>
    PROVE  AccountInv'
<1> USE DEF AccountInv
<1>1. AccountTypes'
    BY SMT, Blank DEF Settle, AccountTypes
<1>2. job'[d] = NoJob /\ \A e \in Devices : e # d => job'[e] = job[e]
    BY SMT DEF Settle, AccountTypes
<1>4. Calm
    <2>1. \A e \in Devices : Same(e) \/ Fresh(e)
        BY SMT, <1>2, Blank, CodesOf DEF Same, Fresh
    <2>2. QED
        BY <2>1 DEF Calm, CodeInv, Here
<1>5. CapInv'
    <2>1. \A e \in Devices : job'[e] = job[e] \/ ~ Doing(e, "tfa", "read")'
        BY <1>2, Blank DEF Doing
    <2>2. QED
        BY <2>1, CapKeeps DEF SameDevices
<1>6. PageInv'
    BY <1>2, Blank DEF PageInv
<1>7. QED
    BY <1>1, <1>4, <1>5, <1>6, CalmKeeps

LEMMA ReadIs ==
    ASSUME NEW r \in Job, NEW i \in Ids
    PROVE  /\ [r EXCEPT !.at = "read", !.id = i] \in Job /\ [r EXCEPT !.at = "known", !.id = i] \in Job
           /\ \A n \in 0..MaxCode :
                /\ [r EXCEPT !.at = "locked", !.id = i, !.n = n] \in Job /\ [r EXCEPT !.at = "locked", !.id = i, !.n = n].at = "locked"
                /\ [r EXCEPT !.at = "wrong", !.id = i, !.n = n] \in Job /\ [r EXCEPT !.at = "wrong", !.id = i, !.n = n].at = "wrong"
<1>0. ASSUME NEW q \in Job PROVE [q EXCEPT !.id = i] \in Job /\ [q EXCEPT !.id = i].at = q.at
    BY Bounds DEF Job
<1>1. ASSUME NEW at \in {"read", "known", "locked", "wrong"}
      PROVE  /\ [r EXCEPT !.at = at, !.id = i] \in Job /\ [r EXCEPT !.at = at, !.id = i].at = at
             /\ \A n \in 0..MaxCode : [r EXCEPT !.at = at, !.id = i, !.n = n] = [[r EXCEPT !.at = at, !.id = i] EXCEPT !.n = n]
    <2>1. [r EXCEPT !.at = at] \in Job /\ [r EXCEPT !.at = at].at = at
        BY DEF Job
    <2>2. [r EXCEPT !.at = at, !.id = i] = [[r EXCEPT !.at = at] EXCEPT !.id = i]
        BY DEF Job
    <2>3. \A n \in 0..MaxCode : [r EXCEPT !.at = at, !.id = i, !.n = n] = [[r EXCEPT !.at = at, !.id = i] EXCEPT !.n = n]
        BY DEF Job
    <2>4. QED
        BY <2>1, <2>2, <2>3, <1>0
<1>2. ASSUME NEW q \in Job, NEW n \in 0..MaxCode PROVE [q EXCEPT !.n = n] \in Job /\ [q EXCEPT !.n = n].at = q.at
    BY DEF Job
<1>3. [r EXCEPT !.at = "read", !.id = i] \in Job /\ [r EXCEPT !.at = "known", !.id = i] \in Job
    BY <1>1
<1>4. ASSUME NEW n \in 0..MaxCode
      PROVE  /\ [r EXCEPT !.at = "locked", !.id = i, !.n = n] \in Job /\ [r EXCEPT !.at = "locked", !.id = i, !.n = n].at = "locked"
             /\ [r EXCEPT !.at = "wrong", !.id = i, !.n = n] \in Job /\ [r EXCEPT !.at = "wrong", !.id = i, !.n = n].at = "wrong"
    BY <1>1, <1>2
<1>5. QED
    BY <1>3, <1>4

\* What the handlers change of an account leaves it one.
LEMMA AccountChanges ==
    ASSUME NEW x \in Account
    PROVE  /\ \A s \in SUBSET Devices : [x EXCEPT !.refresh = s] \in Account /\ [x EXCEPT !.devices = s] \in Account
           /\ \A s, t \in SUBSET Devices : [x EXCEPT !.devices = s, !.refresh = t] \in Account
           /\ \A b \in BOOLEAN : /\ [x EXCEPT !.moderator = b] \in Account /\ [x EXCEPT !.verified = b] \in Account
                                /\ [x EXCEPT !.old = b] \in Account
           /\ \A b \in BOOLEAN, s \in SUBSET Devices : [x EXCEPT !.suspended = b, !.refresh = s] \in Account
           /\ \A n \in 1..MaxCap : [x EXCEPT !.cap = n] \in Account
           /\ \A a \in Addresses, s \in SUBSET Devices : [x EXCEPT !.email = a, !.refresh = s] \in Account
           /\ \A a \in Addresses, s \in SUBSET Devices, p \in Persons :
                [x EXCEPT !.owner = p, !.keyed = a, !.refresh = s] \in Account
<1>1. ASSUME NEW y \in Account, NEW s \in SUBSET Devices
      PROVE  [y EXCEPT !.refresh = s] \in Account /\ [y EXCEPT !.devices = s] \in Account
    BY DEF Account
<1>2. ASSUME NEW y \in Account, NEW b \in BOOLEAN
      PROVE  /\ [y EXCEPT !.moderator = b] \in Account /\ [y EXCEPT !.verified = b] \in Account
             /\ [y EXCEPT !.old = b] \in Account /\ [y EXCEPT !.suspended = b] \in Account
    BY DEF Account
<1>3. ASSUME NEW y \in Account, NEW n \in 1..MaxCap PROVE [y EXCEPT !.cap = n] \in Account
    BY DEF Account
<1>4. ASSUME NEW y \in Account, NEW a \in Addresses
      PROVE  [y EXCEPT !.email = a] \in Account /\ [y EXCEPT !.keyed = a] \in Account
    BY DEF Account
<1>5. ASSUME NEW y \in Account, NEW p \in Persons PROVE [y EXCEPT !.owner = p] \in Account
    BY DEF Account
<1>6. ASSUME NEW s \in SUBSET Devices, NEW t \in SUBSET Devices
      PROVE  [x EXCEPT !.devices = s, !.refresh = t] \in Account
    <2>1. [x EXCEPT !.devices = s, !.refresh = t] = [[x EXCEPT !.devices = s] EXCEPT !.refresh = t]
        BY DEF Account
    <2>2. QED
        BY <2>1, <1>1
<1>7. ASSUME NEW b \in BOOLEAN, NEW s \in SUBSET Devices
      PROVE  [x EXCEPT !.suspended = b, !.refresh = s] \in Account
    <2>1. [x EXCEPT !.suspended = b, !.refresh = s] = [[x EXCEPT !.suspended = b] EXCEPT !.refresh = s]
        BY DEF Account
    <2>2. QED
        BY <2>1, <1>1, <1>2
<1>8. ASSUME NEW a \in Addresses, NEW s \in SUBSET Devices
      PROVE  [x EXCEPT !.email = a, !.refresh = s] \in Account
    <2>1. [x EXCEPT !.email = a, !.refresh = s] = [[x EXCEPT !.email = a] EXCEPT !.refresh = s]
        BY DEF Account
    <2>2. QED
        BY <2>1, <1>1, <1>4
<1>9. ASSUME NEW a \in Addresses, NEW s \in SUBSET Devices, NEW p \in Persons
      PROVE  [x EXCEPT !.owner = p, !.keyed = a, !.refresh = s] \in Account
    <2>1. [x EXCEPT !.owner = p, !.keyed = a, !.refresh = s] =
            [[[x EXCEPT !.owner = p] EXCEPT !.keyed = a] EXCEPT !.refresh = s]
        BY DEF Account
    <2>2. QED
        BY <2>1, <1>1, <1>4, <1>5
<1>10. QED
    BY <1>1, <1>2, <1>3, <1>6, <1>7, <1>8, <1>9

LEMMA PagesAsk ==
    ASSUME AccountInv, NEW d \in Devices,
           \/ RegisterPage(d) \/ VerifyEmailPage(d) \/ LoginPage(d) \/ Verify2faPage(d)
           \/ ForgotPasswordPage(d) \/ ResetPasswordPage(d)
    PROVE  AccountInv'
<1>1. PersonOf[d] \in Persons /\ Types[PersonOf[d]] \subseteq Addresses /\ page[d].email \in Addresses
    BY AccountsAssumption DEF AccountsAssumption, AccountInv, AccountTypes, Page
<1>2. 0 \in 0..Len(sent) /\ Known(d, "verify") \subseteq 0..Len(sent) /\ Known(d, "login") \subseteq 0..Len(sent)
      /\ Known(d, "reset") \subseteq 0..Len(sent)
    BY SMT, CodesOf DEF Known, AccountInv
<1>3. CASE RegisterPage(d)
    BY <1>1, <1>2, <1>3, AskKeeps DEF RegisterPage
<1>4. CASE VerifyEmailPage(d)
    BY <1>1, <1>2, <1>4, AskKeeps DEF VerifyEmailPage
<1>5. CASE LoginPage(d)
    BY <1>1, <1>2, <1>5, AskKeeps DEF LoginPage
<1>6. CASE Verify2faPage(d)
    BY <1>1, <1>2, <1>6, AskKeeps DEF Verify2faPage
<1>7. CASE ResetPasswordPage(d)
    BY <1>1, <1>2, <1>7, AskKeeps DEF ResetPasswordPage
<1>8. CASE ForgotPasswordPage(d)
    BY <1>1, <1>2, <1>8, AskKeeps DEF ForgotPasswordPage
<1>9. QED
    BY <1>3, <1>4, <1>5, <1>6, <1>7, <1>8

LEMMA LoginReads ==
    ASSUME AccountInv, NEW d \in Devices, LoginRead(d)
    PROVE  AccountInv'
<1> USE DEF AccountInv
<1>1. PICK i \in At(job[d].email) : job' = [job EXCEPT ![d] =
            IF /\ accounts[i].owner = PersonOf[d] /\ accounts[i].keyed = job[d].email
               /\ ~ accounts[i].suspended /\ accounts[i].verified
            THEN [@ EXCEPT !.at = "read", !.id = i] ELSE NoJob]
    BY DEF LoginRead
<1>2. i \in Ids
    BY DEF At
<1>3. UNCHANGED <<offers, accounts, codes, sent, page, signed, registration_open, served, crossed>>
    BY DEF LoginRead
<1>4. CASE job' = [job EXCEPT ![d] = NoJob]
    BY <1>3, <1>4, SettleKeeps DEF Settle
<1>5. CASE job' = [job EXCEPT ![d] = [job[d] EXCEPT !.at = "read", !.id = i]]
    <2>0. job[d].op = "login" /\ job[d].n = 0
        BY SMT DEF LoginRead, Doing, JobInv
    <2>1. /\ job'[d].at = "read" /\ job'[d].id = i /\ job'[d].op = "login" /\ job'[d].n = 0
          /\ \A e \in Devices : e # d => job'[e] = job[e]
        BY SMT, <1>5, <2>0 DEF AccountTypes, Job
    <2>2. AccountTypes'
        <3>1. [job[d] EXCEPT !.at = "read", !.id = i] \in Job
            BY <1>2, CodesOf, ReadIs
        <3>2. QED
            BY <3>1, <1>3, <1>5 DEF AccountTypes
    <2>3. Calm
        <3>1. \A e \in Devices : Same(e) \/ Fresh(e)
            BY <2>1, <1>2 DEF Same, Fresh
        <3>2. QED
            BY <3>1, <1>3 DEF Calm, CodeInv, Here
    <2>4. CapInv'
        <3>1. \A e \in Devices : job'[e] = job[e] \/ ~ Doing(e, "tfa", "read")'
            BY <2>1 DEF Doing
        <3>2. QED
            BY <3>1, <1>3, CapKeeps DEF SameDevices
    <2>5. PageInv'
        BY <2>0, <2>1, <1>3 DEF PageInv
    <2>6. QED
        BY <2>2, <2>3, <2>4, <2>5, CalmKeeps
<1>6. QED
    <2>1. job' = [job EXCEPT ![d] = NoJob] \/ job' = [job EXCEPT ![d] = [job[d] EXCEPT !.at = "read", !.id = i]]
        BY <1>1
    <2>2. QED
        BY <2>1, <1>4, <1>5

LEMMA RoutesKeep ==
    ASSUME AccountInv, NEW d \in Devices, Routes(d)
    PROVE  AccountInv'
<1> USE DEF AccountInv
<1>1. UNCHANGED <<offers, accounts, codes, sent, job, signed, registration_open, served, crossed>>
    BY DEF Routes
<1>2. PICK at \in {"login", "register", "forgot-password"} : page' = [page EXCEPT ![d] = Out(at)]
    BY DEF Routes
<1>3. page' \in [Devices -> Page] /\ page'[d].at = at /\ \A e \in Devices : e # d => page'[e] = page[e]
    BY SMT, <1>2, Bounds DEF AccountTypes, Page, Pages, Out
<1>4. AccountTypes'
    BY <1>1, <1>3 DEF AccountTypes
<1>5. Calm
    BY <1>1 DEF Calm, Same, CodeInv, Here
<1>6. CapInv'
    BY <1>1, CapKeeps DEF SameDevices
<1>7. PageInv'
    <2>1. page[d].at # "in"
        BY DEF Routes
    <2>2. QED
        BY <2>1, <1>1, <1>3 DEF PageInv
<1>8. QED
    BY <1>4, <1>5, <1>6, <1>7, CalmKeeps

LEMMA FailsKeep ==
    ASSUME AccountInv, NEW d \in Devices, Fails(d)
    PROVE  AccountInv'
PROOF BY SettleKeeps DEF Fails

LEMMA LoginKeeps ==
    ASSUME AccountInv, NEW d \in Devices, Login(d)
    PROVE  AccountInv'
<1> USE DEF AccountInv
<1> DEFINE i == job[d].id
<1>1. i \in Ids /\ job[d].email \in Addresses
    BY SMT DEF Login, Doing, JobInv, AccountTypes, Job
<1>2. /\ accounts' = [accounts EXCEPT ![i].refresh = @ \cup {d}]
      /\ signed' = [signed EXCEPT ![d] = [id |-> i, email |-> job[d].email, cut |-> FALSE]]
      /\ job' = [job EXCEPT ![d] = NoJob]
      /\ page' = [page EXCEPT ![d] = [at |-> "in", email |-> job[d].email]]
      /\ UNCHANGED <<offers, codes, sent, registration_open, served, crossed>>
    BY DEF Login, Settle, GoTo
<1>3. \A j \in Ids : /\ accounts'[j].state = accounts[j].state /\ accounts'[j].email = accounts[j].email
                     /\ accounts'[j].devices = accounts[j].devices /\ accounts'[j].cap = accounts[j].cap
    BY SMT, <1>2 DEF AccountTypes, Account
<1>4. AccountTypes'
    <2>1. accounts' \in [Ids -> Account]
        <3>1. accounts' = [accounts EXCEPT ![i] = [accounts[i] EXCEPT !.refresh = accounts[i].refresh \cup {d}]]
            BY SMT, <1>2 DEF AccountTypes
        <3>2. accounts[i].refresh \cup {d} \in SUBSET Devices
            BY <1>1, CodesOf DEF Account
        <3>3. [accounts[i] EXCEPT !.refresh = accounts[i].refresh \cup {d}] \in Account
            BY <3>2, <1>1, CodesOf, AccountChanges
        <3>4. QED
            BY <3>1, <3>3 DEF AccountTypes
    <2>2. signed' \in [Devices -> Token] /\ page' \in [Devices -> Page] /\ job' \in [Devices -> Job]
        BY SMT, <1>1, <1>2, Blank, Bounds DEF AccountTypes, Token, Page, Pages
    <2>3. QED
        BY <2>1, <2>2, <1>2 DEF AccountTypes
<1>5. job'[d] = NoJob /\ \A e \in Devices : e # d => job'[e] = job[e]
    BY SMT, <1>2 DEF AccountTypes
<1>6. Calm
    <2>1. \A e \in Devices : Same(e) \/ Fresh(e)
        BY SMT, <1>5, Blank, CodesOf DEF Same, Fresh
    <2>2. QED
        BY <2>1, <1>2, <1>3 DEF Calm, CodeInv, Here
<1>7. CapInv'
    <2>1. \A e \in Devices : job'[e] = job[e] \/ ~ Doing(e, "tfa", "read")'
        BY <1>5, Blank DEF Doing
    <2>2. QED
        BY <2>1, <1>3, CapKeeps DEF SameDevices
<1>8. PageInv'
    <2>1. signed'[d].id = i /\ page'[d].at = "in" /\ \A e \in Devices : e # d => signed'[e] = signed[e] /\ page'[e] = page[e]
        BY SMT, <1>2 DEF AccountTypes
    <2>2. QED
        BY <2>1, <1>1, <1>5, Blank, Bounds DEF PageInv
<1>9. QED
    BY <1>4, <1>6, <1>7, <1>8, CalmKeeps

----------------------------------------------------------------------------
(* The steps that mail a code.                                             *)

LEMMA IssueTypes ==
    ASSUME AccountTypes, NEW i \in Ids, NEW p \in Purposes, NEW a \in Addresses, Issue(i, p, a)
    PROVE  codes' \in [Ids -> [Purposes -> Code]] /\ sent' \in Seq(Addresses) /\ Len(sent') <= MaxCode
<1>1. sent' \in Seq(Addresses) /\ Len(sent') <= MaxCode /\ Len(sent) + 1 \in 0..MaxCode
    BY SMT, Bounds DEF Issue, AccountTypes
<1>2. [NoCode EXCEPT !.n = Len(sent) + 1] \in Code
    BY SMT, <1>1, Blank DEF Code
<1>3. codes' \in [Ids -> [Purposes -> Code]]
    BY SMT, <1>2 DEF Issue, AccountTypes
<1>4. QED
    BY <1>1, <1>3

Registered(a, p, b) ==
    [NoAccount EXCEPT !.state = "here", !.email = a, !.owner = p, !.keyed = a, !.moderator = b]

LEMMA RegisteredIs ==
    ASSUME NEW a \in Addresses, NEW p \in Persons, NEW b \in BOOLEAN
    PROVE  /\ Registered(a, p, b) \in Account /\ Registered(a, p, b).state = "here"
           /\ Registered(a, p, b).email = a /\ Registered(a, p, b).devices = {} /\ Registered(a, p, b).cap = 1
<1>1. ASSUME NEW y \in Account PROVE [y EXCEPT !.state = "here"] \in Account
    BY DEF Account
<1>2. ASSUME NEW y \in Account
      PROVE  /\ [y EXCEPT !.email = a] \in Account /\ [y EXCEPT !.keyed = a] \in Account
             /\ [y EXCEPT !.owner = p] \in Account /\ [y EXCEPT !.moderator = b] \in Account
    BY DEF Account
<1>3. Registered(a, p, b) =
        [[[[[NoAccount EXCEPT !.state = "here"] EXCEPT !.email = a] EXCEPT !.owner = p] EXCEPT !.keyed = a]
            EXCEPT !.moderator = b]
    BY Blank DEF Account, Registered
<1>4. Registered(a, p, b) \in Account
  <2> DEFINE here == [NoAccount EXCEPT !.state = "here"]
             named == [here EXCEPT !.email = a]
             owned == [named EXCEPT !.owner = p]
             keyed == [owned EXCEPT !.keyed = a]
  <2>1. here \in Account
    BY <1>1, Blank
  <2> HIDE DEF here
  <2>2. named \in Account
    BY <1>2, <2>1
  <2> HIDE DEF named
  <2>3. owned \in Account
    BY <1>2, <2>2
  <2> HIDE DEF owned
  <2>4. keyed \in Account
    BY <1>2, <2>3
  <2> HIDE DEF keyed
  <2>5. [keyed EXCEPT !.moderator = b] \in Account
    BY <1>2, <2>4
  <2>6. Registered(a, p, b) = [keyed EXCEPT !.moderator = b]
    BY <1>3 DEF keyed, owned, named, here
  <2> QED
    BY <2>5, <2>6
<1>5. /\ Registered(a, p, b).state = "here" /\ Registered(a, p, b).email = a
      /\ Registered(a, p, b).devices = {} /\ Registered(a, p, b).cap = 1
    BY SMT DEF NoAccount, Registered
<1>6. QED
    BY <1>4, <1>5

\* The request of d goes on or is answered, and the page of d may be left for another.
LEMMA GoesOnKeeps ==
    ASSUME AccountInv, NEW d \in Devices, NEW r \in Job, NEW g \in Page, job' = [job EXCEPT ![d] = r],
           page' = [page EXCEPT ![d] = g], page[d].at # "in", g.at # "in",
           r.at \notin {"read", "deleted"}, r.n = 0, r.at \in {"known", "ripe"} => r.id \in Ids,
           UNCHANGED <<offers, accounts, codes, sent, signed, registration_open, served, crossed>>
    PROVE  AccountInv'
<1> USE DEF AccountInv
<1>1. AccountTypes'
    BY DEF AccountTypes
<1>2. /\ job'[d] = r /\ page'[d] = g
      /\ \A e \in Devices : e # d => job'[e] = job[e] /\ page'[e] = page[e]
    BY DEF AccountTypes
<1>3. Calm
    <2>1. Fresh(d)
        BY <1>2, CodesOf DEF Fresh
    <2>2. QED
        BY <2>1, <1>2 DEF Calm, Same, CodeInv, Here
<1>4. CapInv'
    <2>1. \A e \in Devices : job'[e] = job[e] \/ ~ Doing(e, "tfa", "read")'
        BY <1>2 DEF Doing
    <2>2. QED
        BY <2>1, CapKeeps DEF SameDevices
<1>5. PageInv'
    BY <1>2 DEF PageInv
<1>6. QED
    BY <1>1, <1>3, <1>4, <1>5, CalmKeeps

LEMMA AtIs ==
    ASSUME NEW r \in Job, NEW at \in {"open", "inserted", "ripe"}
    PROVE  /\ [r EXCEPT !.at = at] \in Job /\ [r EXCEPT !.at = at].at = at /\ [r EXCEPT !.at = at].op = r.op
           /\ [r EXCEPT !.at = at].n = r.n /\ [r EXCEPT !.at = at].id = r.id /\ [r EXCEPT !.at = at].email = r.email
PROOF BY DEF Job

LEMMA RegisterKeeps ==
    ASSUME AccountInv, NEW d \in Devices, Register(d)
    PROVE  AccountInv'
<1> USE DEF AccountInv
<1>1. UNCHANGED <<offers, accounts, codes, sent, page, signed, registration_open, served, crossed>>
    BY DEF Register
<1>2. CASE job' = [job EXCEPT ![d] = NoJob]
    BY <1>1, <1>2, SettleKeeps DEF Settle
<1>3. CASE job' = [job EXCEPT ![d] = [job[d] EXCEPT !.at = "open"]]
    <2>1. job[d] \in Job /\ page[d] \in Page /\ page[d].at # "in" /\ job[d].n = 0
        BY DEF Register, Doing, PageInv, JobInv, AccountTypes
    <2> DEFINE r == [job[d] EXCEPT !.at = "open"]
    <2>2. r \in Job /\ r.at = "open" /\ r.n = 0
        BY <2>1, AtIs
    <2> HIDE DEF r
    <2>3. job' = [job EXCEPT ![d] = r] /\ page' = [page EXCEPT ![d] = page[d]]
        BY <1>1, <1>3 DEF r, AccountTypes
    <2>4. QED
        BY <1>1, <2>1, <2>2, <2>3, GoesOnKeeps
<1>4. QED
    BY <1>2, <1>3 DEF Register

\* The account is new: it has no code and no device.
LEMMA InsertUserKeeps ==
    ASSUME AccountInv, NEW d \in Devices, InsertUser(d)
    PROVE  AccountInv'
<1> USE DEF AccountInv
<1> DEFINE a == job[d].email
           new == Registered(a, PersonOf[d], a = AdminAddress)
           r == [job[d] EXCEPT !.at = "inserted"]
<1>1. UNCHANGED <<offers, codes, sent, page, signed, registration_open, served, crossed>>
    BY DEF InsertUser
<1>2. CASE Settle(d) /\ UNCHANGED accounts
    BY <1>1, <1>2, SettleKeeps
<1>3. ASSUME At(a) = {}, NEW i \in Ids, accounts[i].state = "none", accounts' = [accounts EXCEPT ![i] = new],
             job' = [job EXCEPT ![d] = r]
      PROVE  AccountInv'
    <2>1. /\ a \in Addresses /\ PersonOf[d] \in Persons
          /\ new \in Account /\ new.state = "here" /\ new.email = a /\ new.devices = {} /\ new.cap = 1
        <3>1. a \in Addresses /\ PersonOf[d] \in Persons
            BY AccountsAssumption DEF AccountsAssumption, AccountTypes, Job
        <3>2. QED
            BY <3>1, RegisteredIs
    <2>2. r \in Job /\ r.at = "inserted" /\ r.op = "register" /\ r.n = 0 /\ page[d].at # "in"
        <3>1. job[d] \in Job /\ job[d].op = "register" /\ job[d].n = 0 /\ page[d].at # "in"
            BY DEF InsertUser, Doing, PageInv, JobInv, AccountTypes
        <3>2. r \in Job /\ r.at = "inserted" /\ r.op = job[d].op /\ r.n = job[d].n
            BY <3>1, AtIs
        <3> HIDE DEF r
        <3>3. QED
            BY <3>1, <3>2
    <2> HIDE DEF new, r
    <2>3. accounts'[i] = new /\ \A j \in Ids : j # i => accounts'[j] = accounts[j]
        BY <1>3 DEF AccountTypes
    <2>4. job'[d] = r /\ \A e \in Devices : e # d => job'[e] = job[e]
        BY <1>3 DEF AccountTypes
    <2>5. AccountTypes'
        BY <1>1, <1>3, <2>1, <2>2 DEF AccountTypes
    <2>6. \A q \in Purposes : codes[i][q] = NoCode
        BY <1>3 DEF CodeInv, Here
    <2>7. JobInv'
        BY <1>1, <2>2, <2>4, CodesOf DEF JobInv
    <2>8. AddressInv'
        BY <1>3, <2>1, <2>3 DEF AddressInv, Here, At
    <2>9. CodeInv'
        BY <1>1, <2>3, <2>6 DEF CodeInv, Here
    <2>10. HoldInv'
        BY <1>1, <2>2, <2>4 DEF HoldInv
    <2>11. UseInv'
        <3>1. \A n \in 1..MaxCode : Deleted(n)' = Deleted(n) /\ Holding(n)' = Holding(n) /\ n # 0
            BY <2>2, <2>4, Bounds DEF Deleted, Holding, InsertUser, Doing
        <3>2. \A n \in 1..MaxCode : Spent(n)' <=> Spent(n)
            BY <1>1, <3>1 DEF Spent
        <3>3. ASSUME NEW n \in (1..MaxCode) \ crossed.twice
              PROVE  /\ \A e, f \in Devices :
                          job'[e].n = n /\ job'[f].n = n /\ job'[e].at \in {"read", "deleted"} /\ job'[f].at \in {"read", "deleted"} => e = f
                     /\ served[n] <= 1 /\ (Deleted(n) # {} => served[n] = 0)
                     /\ Spent(n) => /\ \A j \in Ids, p \in Purposes : codes[j][p].n # n
                                    /\ Holding(n) = {}
            BY <2>2, <2>4 DEF UseInv
        <3>4. ASSUME NEW n \in (1..MaxCode) \ crossed.twice, NEW e \in Holding(n), job[e].op = "verify",
                     codes[job[e].id].verify.n = n
              PROVE  accounts'[job[e].id].email = job[e].email /\ job'[e] = job[e]
            <4>1. e \in Devices /\ job[e].at = "read" /\ job[e].id \in Ids /\ e # d /\ "verify" \in Purposes
                BY <3>4 DEF Holding, JobInv, InsertUser, Doing, Purposes
            <4>2. job[e].id # i
                BY <3>4, <4>1, <2>6, <3>1, Blank
            <4>3. accounts[job[e].id].email = job[e].email
                BY <3>4 DEF UseInv
            <4>4. QED
                BY <4>1, <4>2, <4>3, <2>3, <2>4
        <3>5. \A n \in 1..MaxCode : \A e \in Holding(n) : job'[e] = job[e]
            BY <2>4 DEF Holding, InsertUser, Doing
        <3>6. \A n \in 1..MaxCode : served[n] # 0 => n <= Len(sent)
            BY DEF UseInv
        <3>7. QED
            BY <1>1, <3>1, <3>2, <3>3, <3>4, <3>5, <3>6 DEF UseInv
    <2>12. CapInv'
        <3>1. Cardinality({}) = 0
            BY FS_EmptySet
        <3>2. ASSUME NEW e \in Devices, Doing(e, "tfa", "read")', ~ job'[e].moved, Here(job[e].id)'
              PROVE  HasRoom(e, job[e].id)' /\ job'[e] = job[e]
            <4>1. e # d /\ job'[e] = job[e] /\ job[e].id \in Ids
                BY <3>2, <2>2, <2>4 DEF Doing, JobInv
            <4>2. CASE job[e].id = i
                BY SMT, <4>1, <4>2, <3>1, <2>1, <2>3 DEF HasRoom
            <4>3. CASE job[e].id # i
                BY <4>1, <4>3, <3>2, <2>3 DEF CapInv, Doing, Here, HasRoom
            <4>4. QED
                BY <4>1, <4>2, <4>3
        <3>3. \A e \in Devices : Doing(e, "tfa", "read")' => job'[e] = job[e]
            BY <2>2, <2>4 DEF Doing
        <3>4. QED
            BY <3>2, <3>3 DEF CapInv, Doing, Here, HasRoom
    <2>13. PageInv'
        BY <1>1, <2>2, <2>4 DEF PageInv
    <2>14. ProofInv'
        <3>1. "verify" \in Purposes
            BY DEF Purposes
        <3>2. ASSUME NEW j \in Ids, codes[j].verify.n # 0
              PROVE  codes[j].verify.n \in crossed.renamed \/ sent[codes[j].verify.n] = accounts'[j].email
            <4>1. j # i
                BY <3>1, <3>2, <2>6, Blank
            <4>2. QED
                BY <3>2, <4>1, <2>3 DEF ProofInv
        <3>3. ASSUME NEW e \in Devices, Doing(e, "verify", "read")'
              PROVE  job'[e].n \in crossed.renamed \/ sent[job'[e].n] = job'[e].email
            BY <3>3, <2>2, <2>4 DEF ProofInv, Doing
        <3>4. QED
            BY <1>1, <3>2, <3>3 DEF ProofInv
    <2>15. QED
        BY <2>5, <2>7, <2>8, <2>9, <2>10, <2>11, <2>12, <2>13, <2>14
<1>4. QED
    <2>1. \/ Settle(d) /\ UNCHANGED accounts
          \/ At(a) = {} /\ job' = [job EXCEPT ![d] = r]
             /\ \E i \in Ids : accounts[i].state = "none" /\ accounts' = [accounts EXCEPT ![i] = new]
        BY DEF InsertUser, Registered, AccountTypes
    <2>2. QED
        BY <2>1, <1>2, <1>3

\* The other codes are mailed for an account that is there.
LEMMA MailKeeps ==
    ASSUME AccountInv, AccountTypes', PageInv', NEW i \in Ids, Here(i), NEW p \in Purposes, NEW a \in Addresses,
           Issue(i, p, a), p = "verify" => accounts[i].email = a,
           \A d \in Devices : job'[d] = job[d] \/ job'[d] = NoJob,
           UNCHANGED <<accounts, served, crossed>>
    PROVE  AccountInv'
<1> USE DEF AccountInv
<1>1. \A e \in Devices : Same(e) \/ Fresh(e)
    BY SMT, Blank, CodesOf DEF Same, Fresh
<1>2. JobInv' /\ CodeInv' /\ HoldInv' /\ UseInv' /\ ProofInv'
    BY <1>1, IssueKeeps DEF Here
<1>3. AddressInv'
    BY DEF AddressInv, Here
<1>4. CapInv'
    <2>1. \A e \in Devices : job'[e] = job[e] \/ ~ Doing(e, "tfa", "read")'
        BY Blank DEF Doing
    <2>2. QED
        BY <2>1, CapKeeps DEF SameDevices
<1>5. QED
    BY <1>2, <1>3, <1>4

LEMMA InsertCodeKeeps ==
    ASSUME AccountInv, NEW d \in Devices, InsertCode(d)
    PROVE  AccountInv'
<1> USE DEF AccountInv
<1> DEFINE a == job[d].email
           g == [at |-> "verify-email", email |-> a]
<1>1. PICK i \in At(a) : Issue(i, "verify", a)
    BY DEF InsertCode
<1>2. i \in Ids /\ Here(i) /\ accounts[i].email = a /\ a \in Addresses /\ "verify" \in Purposes
    BY DEF At, Here, AccountTypes, Job, Purposes
<1>3. /\ job' = [job EXCEPT ![d] = NoJob] /\ page' = [page EXCEPT ![d] = g]
      /\ UNCHANGED <<offers, accounts, signed, registration_open, served, crossed>>
    BY DEF InsertCode, Settle, GoTo
<1>4. g \in Page /\ g.at # "in"
    BY <1>2 DEF Page, Pages
<1> HIDE DEF g
<1>5. /\ job'[d] = NoJob /\ page'[d] = g
      /\ \A e \in Devices : e # d => job'[e] = job[e] /\ page'[e] = page[e]
    BY <1>3 DEF AccountTypes
<1>6. AccountTypes'
    <2>1. job' \in [Devices -> Job] /\ page' \in [Devices -> Page]
        BY <1>3, <1>4, Blank DEF AccountTypes
    <2>2. codes' \in [Ids -> [Purposes -> Code]] /\ sent' \in Seq(Addresses) /\ Len(sent') <= MaxCode
        BY <1>1, <1>2, IssueTypes
    <2>3. QED
        BY <2>1, <2>2, <1>3 DEF AccountTypes
<1>7. PageInv'
    <2>1. page[d].at # "in" /\ signed[d].id = 0
        BY DEF InsertCode, Doing, PageInv
    <2>2. QED
        BY <2>1, <1>3, <1>4, <1>5, Blank DEF PageInv
<1>8. QED
    BY <1>1, <1>2, <1>3, <1>5, <1>6, <1>7, MailKeeps

\* The requests to send a code again are on their own.
LEMMA ResendKeeps ==
    ASSUME AccountInv, NEW m, ResendVerificationEmail(m)
    PROVE  AccountInv'
<1> USE DEF AccountInv
<1>3. UNCHANGED <<offers, accounts, page, job, signed, registration_open, served, crossed>>
    BY DEF ResendVerificationEmail
<1>4. PageInv'
    BY <1>3 DEF PageInv
<1>5. CASE \E i \in At(m.email) : Issue(i, "verify", m.email)
    <2>1. PICK i \in At(m.email) : Issue(i, "verify", m.email)
        BY <1>5
    <2>2. i \in Ids /\ Here(i) /\ accounts[i].email = m.email /\ "verify" \in Purposes
        BY DEF At, Here, Purposes
    <2>3. m.email \in Addresses
        BY <2>2, CodesOf DEF Account
    <2>4. AccountTypes'
        BY <2>1, <2>2, <2>3, <1>3, IssueTypes DEF AccountTypes
    <2>5. QED
        BY <2>1, <2>2, <2>3, <2>4, <1>3, <1>4, MailKeeps
<1>6. CASE UNCHANGED <<codes, sent>>
    <2>1. AccountTypes'
        BY <1>3, <1>6 DEF AccountTypes
    <2>2. Calm
        BY <1>3, <1>6 DEF Calm, Same, CodeInv, Here
    <2>3. CapInv'
        BY <1>3, CapKeeps DEF SameDevices
    <2>4. QED
        BY <2>1, <2>2, <2>3, <1>4, CalmKeeps
<1>7. QED
    BY <1>5, <1>6 DEF ResendVerificationEmail

LEMMA ResendPageKeeps ==
    ASSUME AccountInv, NEW d \in Devices, ResendPage(d)
    PROVE  AccountInv'
<1> USE DEF AccountInv
<1>1. UNCHANGED <<offers, accounts, codes, sent, page, job, signed, registration_open, served, crossed>>
    BY DEF ResendPage
<1>2. AccountTypes' /\ PageInv'
    BY <1>1 DEF AccountTypes, PageInv
<1>3. Calm
    BY <1>1 DEF Calm, Same, CodeInv, Here
<1>4. CapInv'
    BY <1>1, CapKeeps DEF SameDevices
<1>5. QED
    BY <1>2, <1>3, <1>4, CalmKeeps

LEMMA Login2faKeeps ==
    ASSUME AccountInv, NEW d \in Devices, Login2faRequired(d)
    PROVE  AccountInv'
<1> USE DEF AccountInv
<1> DEFINE i == job[d].id
<1>1. i \in Ids /\ Here(i) /\ job[d].email \in Addresses /\ "login" \in Purposes /\ job[d].op = "login"
    BY DEF Login2faRequired, Doing, JobInv, AccountTypes, Job, Purposes
<1>2. /\ Issue(i, "login", job[d].email) /\ job' = [job EXCEPT ![d] = NoJob]
      /\ page' = page \/ page' = [page EXCEPT ![d] = [at |-> "verify-2fa", email |-> job[d].email]]
      /\ UNCHANGED <<offers, accounts, signed, registration_open, served, crossed>>
    BY DEF Login2faRequired, Settle, GoTo
<1>3. page' \in [Devices -> Page] /\ page'[d].at # "in" /\ \A e \in Devices : e # d => page'[e] = page[e]
    <2>1. page[d].at # "in"
        BY <1>1 DEF PageInv
    <2>2. QED
        <3>1. CASE page' = page
            BY <2>1, <3>1 DEF AccountTypes
        <3>2. CASE page' = [page EXCEPT ![d] = [at |-> "verify-2fa", email |-> job[d].email]]
            BY SMT, <3>2, <1>1 DEF AccountTypes, Page, Pages
        <3>3. QED
            BY <3>1, <3>2, <1>2
<1>4. job'[d] = NoJob /\ \A e \in Devices : e # d => job'[e] = job[e]
    BY SMT, <1>2 DEF AccountTypes
<1>5. AccountTypes'
    <2>1. job' \in [Devices -> Job]
        BY <1>2, Blank DEF AccountTypes
    <2>2. QED
        BY <2>1, <1>1, <1>2, <1>3, IssueTypes DEF AccountTypes
<1>6. PageInv'
    <2>1. signed[d].id = 0
        BY <1>1 DEF PageInv
    <2>2. QED
        BY <2>1, <1>2, <1>3, <1>4, Blank DEF PageInv
<1>7. QED
    BY <1>1, <1>2, <1>4, <1>5, <1>6, MailKeeps

LEMMA RequestResetKeeps ==
    ASSUME AccountInv, NEW d \in Devices, RequestPasswordReset(d)
    PROVE  AccountInv'
<1> USE DEF AccountInv
<1> DEFINE left == [at |-> "reset-password", email |-> job[d].email]
<1>1. job[d] \in Job /\ job[d].n = 0 /\ page[d] \in Page /\ page[d].at # "in" /\ left \in Page /\ left.at # "in"
    BY DEF RequestPasswordReset, Doing, PageInv, JobInv, AccountTypes, Page, Pages, Job
<1>2. UNCHANGED <<offers, accounts, codes, sent, signed, registration_open, served, crossed>>
    BY DEF RequestPasswordReset
<1>3. CASE GoesOn(d)
    <2>1. job' = [job EXCEPT ![d] = NoJob] /\ page' = [page EXCEPT ![d] = left]
        BY <1>3 DEF GoesOn, Settle, GoTo
    <2> HIDE DEF left
    <2>2. QED
        BY <2>1, <1>1, <1>2, Blank, GoesOnKeeps
<1>4. ASSUME NEW i \in At(job[d].email), job' = [job EXCEPT ![d].at = "known", ![d].id = i], page' = page
      PROVE  AccountInv'
    <2> DEFINE r == [job[d] EXCEPT !.at = "known", !.id = i]
    <2>1. i \in Ids /\ 0 \in 0..MaxCode
        BY Bounds DEF At
    <2>2. r \in Job /\ r.n = 0 /\ r.at = "known" /\ r.id = i
        <3>1. r \in Job
            BY ONLY <2>1, <1>1, ReadIs
        <3>2. QED
            BY <3>1, <1>1 DEF Job
    <2>3. job' = [job EXCEPT ![d] = r] /\ page' = [page EXCEPT ![d] = page[d]]
        BY <1>4 DEF AccountTypes
    <2> HIDE DEF r
    <2>4. QED
        BY <2>1, <2>2, <2>3, <1>1, <1>2, GoesOnKeeps
<1>5. CASE Doing(d, "forgot", "known") /\ job' = [job EXCEPT ![d].at = "ripe"] /\ page' = page
    <2> DEFINE r == [job[d] EXCEPT !.at = "ripe"]
    <2>1. r \in Job /\ r.n = 0 /\ r.at = "ripe" /\ r.id \in Ids
        <3>1. job[d].id \in Ids
            BY <1>5 DEF Doing, JobInv
        <3>2. QED
            BY <3>1, <1>1, AtIs
    <2>3. job' = [job EXCEPT ![d] = r] /\ page' = [page EXCEPT ![d] = page[d]]
        BY <1>5 DEF AccountTypes
    <2> HIDE DEF r
    <2>4. QED
        BY <2>1, <2>3, <1>1, <1>2, GoesOnKeeps
<1>6. QED
    BY <1>3, <1>4, <1>5 DEF RequestPasswordReset

LEMMA SendResetKeeps ==
    ASSUME AccountInv, NEW d \in Devices, SendResetEmail(d)
    PROVE  AccountInv'
<1> USE DEF AccountInv
<1> DEFINE i == job[d].id
           g == [at |-> "reset-password", email |-> job[d].email]
<1>1. i \in Ids /\ Here(i) /\ job[d].email \in Addresses /\ "reset" \in Purposes
    BY DEF SendResetEmail, Doing, JobInv, AccountTypes, Job, Purposes
<1>2. /\ Issue(i, "reset", job[d].email) /\ job' = [job EXCEPT ![d] = NoJob] /\ page' = [page EXCEPT ![d] = g]
      /\ UNCHANGED <<offers, accounts, signed, registration_open, served, crossed>>
    BY DEF SendResetEmail, GoesOn, Settle, GoTo
<1>3. g \in Page /\ g.at # "in"
    BY <1>1 DEF Page, Pages
<1> HIDE DEF g
<1>4. /\ job'[d] = NoJob /\ page'[d] = g
      /\ \A e \in Devices : e # d => job'[e] = job[e] /\ page'[e] = page[e]
    BY <1>2 DEF AccountTypes
<1>5. AccountTypes'
    <2>1. job' \in [Devices -> Job] /\ page' \in [Devices -> Page]
        BY <1>2, <1>3, Blank DEF AccountTypes
    <2>2. codes' \in [Ids -> [Purposes -> Code]] /\ sent' \in Seq(Addresses) /\ Len(sent') <= MaxCode
        BY <1>1, <1>2, IssueTypes
    <2>3. QED
        BY <2>1, <2>2, <1>2 DEF AccountTypes
<1>6. PageInv'
    <2>1. page[d].at # "in" /\ signed[d].id = 0
        BY DEF SendResetEmail, Doing, PageInv
    <2>2. QED
        BY <2>1, <1>2, <1>3, <1>4, Blank DEF PageInv
<1>7. QED
    BY <1>1, <1>2, <1>4, <1>5, <1>6, MailKeeps

----------------------------------------------------------------------------
(* The steps that compare one.                                             *)

LEMMA CompareFrame ==
    ASSUME AccountInv, NEW d \in Devices, NEW p \in Purposes, NEW i \in At(job[d].email), NEW room,
           job[d].op \in {"verify", "tfa", "reset"}, Compare(d, i, p, room),
           job[d].op = "tfa" /\ room => HasRoom(d, i),
           UNCHANGED <<offers, accounts, codes, sent, page, signed, registration_open, served>>
    PROVE  AccountTypes' /\ PageInv' /\ CapInv'
<1> USE DEF AccountInv
<1> DEFINE read == [job[d] EXCEPT !.at = "read", !.id = i]
           locked == [job[d] EXCEPT !.at = "locked", !.id = i, !.n = 0]
           wrong == [job[d] EXCEPT !.at = "wrong", !.id = i, !.n = codes[i][p].n]
<1>0. i \in Ids /\ codes[i][p].n \in 0..MaxCode /\ 0 \in 0..MaxCode /\ job[d] \in Job
    BY SMT, CodesOf, Bounds DEF At, CodeInv, Code
<1>1. \/ /\ room /\ codes[i][p].n # 0 /\ job' = [job EXCEPT ![d] = read]
         /\ \/ crossed' = crossed \/ crossed' = [crossed EXCEPT !.twice = @ \cup {codes[i][p].n}]
      \/ crossed' = crossed /\ \E r \in {NoJob, locked, wrong} : job' = [job EXCEPT ![d] = r]
    BY DEF Compare, Settle, AccountTypes
<1>2. read \in Job /\ locked \in Job /\ wrong \in Job /\ locked.at # "read" /\ wrong.at # "read"
      /\ read.op = job[d].op /\ read.id = i
    <2>1. read \in Job /\ locked \in Job /\ wrong \in Job /\ locked.at = "locked" /\ wrong.at = "wrong"
        <3> DEFINE n == codes[i][p].n
        <3>1. i \in Ids /\ n \in 0..MaxCode /\ 0 \in 0..MaxCode /\ job[d] \in Job
            BY <1>0
        <3> HIDE DEF n
        <3>2. read \in Job /\ locked \in Job /\ locked.at = "locked"
            BY ONLY <3>1, ReadIs
        <3>3. [job[d] EXCEPT !.at = "wrong", !.id = i, !.n = n] \in Job /\ [job[d] EXCEPT !.at = "wrong", !.id = i, !.n = n].at = "wrong"
            BY ONLY <3>1, ReadIs
        <3>4. QED
            BY <3>2, <3>3 DEF n
    <2>2. read.op = job[d].op /\ read.id = i
        BY <1>0 DEF Job
    <2>3. QED
        BY <2>1, <2>2
<1> HIDE DEF read, locked, wrong
<1>3. /\ job' \in [Devices -> Job] /\ \A e \in Devices : e # d => job'[e] = job[e]
      /\ (job'[d] = read /\ room) \/ job'[d].at # "read"
    BY <1>1, <1>2, Blank DEF AccountTypes
<1>5. crossed' \in [twice : SUBSET (1..MaxCode), renamed : SUBSET (1..MaxCode)]
    <2>1. CASE crossed' = crossed
        BY <2>1 DEF AccountTypes
    <2>2. CASE codes[i][p].n # 0 /\ crossed' = [crossed EXCEPT !.twice = @ \cup {codes[i][p].n}]
        <3>1. codes[i][p].n \in 1..MaxCode
            BY SMT, <1>0, <2>2, Bounds
        <3>2. QED
            BY <3>1, <2>2 DEF AccountTypes
    <2>3. QED
        BY <1>1, <2>1, <2>2
<1>6. AccountTypes'
    BY <1>3, <1>5 DEF AccountTypes
<1>7. PageInv'
    <2>1. page[d].at # "in"
        BY DEF PageInv
    <2>2. QED
        BY <2>1, <1>3 DEF PageInv
<1>8. CapInv'
    <2>1. ASSUME NEW e \in Devices, Doing(e, "tfa", "read")', ~ job'[e].moved, Here(job[e].id)'
          PROVE  HasRoom(e, job[e].id)'
        <3>1. CASE e = d
            <4>1. job'[d] = read /\ room
                BY <1>3, <2>1, <3>1 DEF Doing
            <4>2. job'[d].op = job[d].op /\ job'[d].id = i
                BY <4>1, <1>2
            <4>3. HasRoom(d, i)
                BY <4>1, <4>2, <2>1, <3>1 DEF Doing
            <4>4. QED
                BY <4>2, <4>3, <3>1 DEF HasRoom
        <3>2. CASE e # d
            BY <3>2, <2>1, <1>3 DEF CapInv, Doing, Here, HasRoom
        <3>3. QED
            BY <3>1, <3>2
    <2>2. QED
        BY <2>1 DEF CapInv, Doing, Here, HasRoom
<1>9. QED
    BY <1>6, <1>7, <1>8

LEMMA ComparesKeep ==
    ASSUME AccountInv, NEW d \in Devices, VerifyEmailRead(d) \/ Verify2faRead(d) \/ VerifyResetCode(d)
    PROVE  AccountInv'
<1>1. CASE VerifyEmailRead(d)
    <2> DEFINE room == TRUE
    <2>1. PICK i \in At(job[d].email) : Compare(d, i, "verify", room)
        BY <1>1 DEF VerifyEmailRead
    <2> HIDE DEF room
    <2>2. job[d].op = "verify" /\ job[d].at = "sent" /\ "verify" \in Purposes /\ PurposeOf("verify") = "verify"
        BY <1>1 DEF VerifyEmailRead, Doing, Purposes, PurposeOf
    <2>3. UNCHANGED <<offers, accounts, codes, sent, page, signed, registration_open, served>>
        BY <1>1 DEF VerifyEmailRead
    <2>4. AccountTypes' /\ PageInv' /\ CapInv'
        BY <2>1, <2>2, <2>3, CompareFrame
    <2>5. QED
        BY <2>1, <2>2, <2>3, <2>4, CompareKeeps DEF AccountInv
<1>2. CASE Verify2faRead(d)
    <2>1. PICK i \in At(job[d].email) : Compare(d, i, "login", HasRoom(d, i))
        BY <1>2 DEF Verify2faRead
    <2>2. job[d].op = "tfa" /\ job[d].at = "sent" /\ "login" \in Purposes /\ PurposeOf("tfa") = "login"
        BY <1>2 DEF Verify2faRead, Doing, Purposes, PurposeOf
    <2>3. UNCHANGED <<offers, accounts, codes, sent, page, signed, registration_open, served>>
        BY <1>2 DEF Verify2faRead
    <2>4. AccountTypes' /\ PageInv' /\ CapInv'
        BY <2>1, <2>2, <2>3, CompareFrame
    <2>5. QED
        BY <2>1, <2>2, <2>3, <2>4, CompareKeeps DEF AccountInv
<1>3. CASE VerifyResetCode(d)
    <2> DEFINE room == TRUE
    <2>1. PICK i \in At(job[d].email) : Compare(d, i, "reset", room)
        BY <1>3 DEF VerifyResetCode
    <2> HIDE DEF room
    <2>2. job[d].op = "reset" /\ job[d].at = "sent" /\ "reset" \in Purposes /\ PurposeOf("reset") = "reset"
        BY <1>3 DEF VerifyResetCode, Doing, Purposes, PurposeOf
    <2>3. UNCHANGED <<offers, accounts, codes, sent, page, signed, registration_open, served>>
        BY <1>3 DEF VerifyResetCode
    <2>4. AccountTypes' /\ PageInv' /\ CapInv'
        BY <2>1, <2>2, <2>3, CompareFrame
    <2>5. QED
        BY <2>1, <2>2, <2>3, <2>4, CompareKeeps DEF AccountInv
<1>4. QED
    BY <1>1, <1>2, <1>3

\* A refusal that is written: the codes of the slots are charged, or deleted.
LEMMA RefusalsKeep ==
    ASSUME AccountInv, NEW d \in Devices, CountAttempt(d) \/ DeleteLocked(d)
    PROVE  AccountInv'
<1> USE DEF AccountInv
<1>1. /\ Settle(d) /\ job' = [job EXCEPT ![d] = NoJob]
      /\ UNCHANGED <<offers, accounts, sent, page, signed, registration_open, served, crossed>>
    BY DEF CountAttempt, DeleteLocked, Settle
<1>2. PICK f \in [Ids -> [Purposes -> Code]] :
          /\ codes' = f
          /\ \A i \in Ids, p \in Purposes : f[i][p] = NoCode \/ (f[i][p].n = codes[i][p].n /\ (codes[i][p].n = 0 => f[i][p] = codes[i][p]))
    <2>1. CASE CountAttempt(d)
        <3> DEFINE g(i, p) == IF <<i, p>> \in Slots(d) /\ codes[i][p].n # 0 THEN [codes[i][p] EXCEPT !.tries = @ + 1]
                              ELSE codes[i][p]
        <3>1. ASSUME NEW i \in Ids, NEW p \in Purposes
              PROVE  g(i, p) \in Code /\ g(i, p).n = codes[i][p].n /\ (codes[i][p].n = 0 => g(i, p) = codes[i][p])
            BY CodesOf DEF Code
        <3>2. codes' = [i \in Ids |-> [p \in Purposes |-> g(i, p)]]
            BY <2>1 DEF CountAttempt
        <3> HIDE DEF g
        <3>3. QED
            BY <3>1, <3>2
    <2>2. CASE DeleteLocked(d)
        <3> DEFINE g(i, p) == IF <<i, p>> \in Slots(d) THEN NoCode ELSE codes[i][p]
        <3>1. ASSUME NEW i \in Ids, NEW p \in Purposes
              PROVE  g(i, p) \in Code /\ (g(i, p) = NoCode \/ g(i, p) = codes[i][p])
            BY CodesOf, Blank
        <3>2. codes' = [i \in Ids |-> [p \in Purposes |-> g(i, p)]]
            BY <2>2 DEF DeleteLocked
        <3> HIDE DEF g
        <3>3. QED
            BY <3>1, <3>2
    <2>3. QED
        BY <2>1, <2>2
<1>3. AccountTypes'
    BY <1>1, <1>2, Blank DEF AccountTypes
<1>4. job'[d] = NoJob /\ \A e \in Devices : e # d => job'[e] = job[e]
    BY <1>1 DEF AccountTypes
<1>5. Calm
    <2>1. \A e \in Devices : Same(e) \/ Fresh(e)
        BY <1>4, Blank, CodesOf DEF Same, Fresh
    <2>2. \A i \in Ids, p \in Purposes : codes'[i][p].n # 0 => codes'[i][p].n = codes[i][p].n
        BY <1>2, Blank
    <2>3. \A i \in Ids, p \in Purposes : accounts'[i].state # "here" => codes'[i][p] = NoCode
        BY <1>1, <1>2, Blank DEF CodeInv, Here
    <2>4. QED
        BY <1>1, <2>1, <2>2, <2>3 DEF Calm
<1>6. CapInv'
    <2>1. \A e \in Devices : job'[e] = job[e] \/ ~ Doing(e, "tfa", "read")'
        BY <1>4, Blank DEF Doing
    <2>2. QED
        BY <1>1, <2>1, CapKeeps DEF SameDevices
<1>7. PageInv'
    BY <1>1, <1>4, Blank DEF PageInv
<1>8. QED
    BY <1>3, <1>5, <1>6, <1>7, CalmKeeps

----------------------------------------------------------------------------
(* The steps that honour one.                                              *)

\* The answer of d honours the code it has in hand, or deletes it before it does.
Honours(d) == served' = [served EXCEPT ![job[d].n] = @ + 1] /\ job'[d].at = "sent" /\ Fresh(d)
Deletes(d) == /\ served' = served /\ job[d].op = "reset" /\ job[d].at = "read" /\ job'[d].at = "deleted"
              /\ job'[d].op = "reset" /\ job'[d].id = job[d].id /\ job'[d].n = job[d].n

LEMMA HonourKeeps ==
    ASSUME AccountInv, AccountTypes', NEW d \in Devices, job[d].at \in {"read", "deleted"}, job[d].n # 0,
           Honours(d) \/ Deletes(d), \A e \in Devices : e # d => Same(e),
           \A i \in Ids, p \in Purposes : codes'[i][p].n # 0 => codes'[i][p].n = codes[i][p].n,
           job[d].n \notin crossed.twice => \A i \in Ids, p \in Purposes : codes'[i][p].n # job[d].n,
           \A i \in Ids : accounts'[i].state = "here" =>
                accounts[i].state = "here" /\ accounts'[i].email = accounts[i].email,
           \A i \in Ids, p \in Purposes : accounts'[i].state # "here" => codes'[i][p] = NoCode,
           UNCHANGED <<sent, crossed>>
    PROVE  JobInv' /\ AddressInv' /\ CodeInv' /\ HoldInv' /\ UseInv' /\ ProofInv'
<1> USE DEF AccountInv
<1>m. PICK m \in Nat : m = job[d].n
    BY CodesOf
<1>0. m \in 1..MaxCode /\ m <= Len(sent) /\ m # 0
    BY SMT, <1>m, CodesOf, Bounds DEF JobInv, AccountTypes
<1>a. /\ \A n \in 1..MaxCode : n # m => served'[n] = served[n]
      /\ served'[m] = IF job'[d].at = "sent" THEN served[m] + 1 ELSE served[m]
    <2>1. CASE Deletes(d)
        BY <2>1 DEF Deletes
    <2>2. CASE Honours(d)
        <3>1. served' = [served EXCEPT ![m] = served[m] + 1] /\ job'[d].at = "sent"
            BY <2>2, <1>m DEF Honours
        <3>2. QED
            BY <3>1, <1>0 DEF AccountTypes
    <2>3. QED
        BY <2>1, <2>2
<1>1. JobInv'
    BY SMT, CodesOf DEF JobInv, Same, Fresh, Honours, Deletes
<1>2. AddressInv'
    BY DEF AddressInv, Here
<1>3. CodeInv'
    <2>1. ASSUME NEW i \in Ids, NEW p \in Purposes
          PROVE  codes'[i][p].n <= Len(sent) /\ (accounts'[i].state # "here" => codes'[i][p] = NoCode)
        BY SMT, CodesOf DEF CodeInv
    <2>2. ASSUME NEW i \in Ids, NEW j \in Ids, NEW p \in Purposes, NEW q \in Purposes,
                 codes'[i][p].n = codes'[j][q].n, codes'[i][p].n # 0
          PROVE  i = j /\ p = q
        <3>1. codes[i][p].n = codes[j][q].n /\ codes[i][p].n # 0
            BY <2>2
        <3>2. QED
            BY <3>1 DEF CodeInv
    <2>3. QED
        BY <2>1, <2>2 DEF CodeInv, Here
<1>4. HoldInv'
    <2>1. ASSUME NEW e \in Devices, job'[e].at = "read", job'[e].n # 0, NEW j \in Ids, NEW q \in Purposes,
                 codes'[j][q].n = job'[e].n
          PROVE  j = job'[e].id /\ q = PurposeOf(job'[e].op)
        <3>1. Same(e)
            BY <2>1 DEF Honours, Deletes, Fresh
        <3>2. job[e].at = "read" /\ job[e].n # 0 /\ codes[j][q].n = job[e].n
            BY <3>1, <2>1 DEF Same
        <3>3. j = job[e].id /\ q = PurposeOf(job[e].op)
            BY <3>2 DEF HoldInv
        <3>4. QED
            BY <3>1, <3>3 DEF Same
    <2>2. QED
        BY <2>1 DEF HoldInv
<1>5. UseInv'
    <2>1. \A n : n # 0 /\ n # m => Deleted(n)' \subseteq Deleted(n) /\ Holding(n)' \subseteq Holding(n)
        <3>1. ASSUME NEW n, n # 0, n # m, NEW e \in Devices, job'[e].n = n, job'[e].at \in {"read", "deleted"}
              PROVE  job[e].n = n /\ job[e].at = job'[e].at
            <4>1. e # d
                BY <3>1, <1>m DEF Honours, Deletes
            <4>2. QED
                BY <3>1, <4>1 DEF Same
        <3>2. QED
            BY <3>1 DEF Deleted, Holding
    <2>2. (\A n \in 1..MaxCode : served[n] # 0 => n <= Len(sent))'
        BY SMT, <1>0, <1>a DEF UseInv
    <2>3. ASSUME NEW n \in 1..MaxCode, n \notin crossed.twice
          PROVE  /\ \A e, f \in Devices :
                      job'[e].n = n /\ job'[f].n = n /\ job'[e].at \in {"read", "deleted"} /\ job'[f].at \in {"read", "deleted"} => e = f
                 /\ served'[n] <= 1 /\ (Deleted(n)' # {} => served'[n] = 0)
                 /\ Spent(n)' => (\A j \in Ids, q \in Purposes : codes'[j][q].n # n) /\ Holding(n)' = {}
                 /\ \A e \in Holding(n)' : job'[e].op = "verify" /\ codes'[job'[e].id].verify.n = n
                                             => accounts'[job'[e].id].email = job'[e].email
        <3>1. /\ \A e, f \in Devices :
                      job[e].n = n /\ job[f].n = n /\ job[e].at \in {"read", "deleted"} /\ job[f].at \in {"read", "deleted"} => e = f
              /\ served[n] <= 1 /\ (Deleted(n) # {} => served[n] = 0)
              /\ Spent(n) => (\A j \in Ids, q \in Purposes : codes[j][q].n # n) /\ Holding(n) = {}
              /\ \A e \in Holding(n) : job[e].op = "verify" /\ codes[job[e].id].verify.n = n
                                             => accounts[job[e].id].email = job[e].email
            BY <2>3 DEF UseInv
        <3>0. n # 0 /\ n \in Nat
            BY SMT, Bounds
        <3>2. CASE n # m
            <4>1. served'[n] = served[n] /\ Deleted(n)' \subseteq Deleted(n) /\ Holding(n)' \subseteq Holding(n)
                BY <3>2, <3>0, <1>a, <2>1
            <4>2. \A e \in Devices : job'[e].n = n /\ job'[e].at \in {"read", "deleted"} => e # d /\ Same(e)
                BY <3>2, <1>m DEF Honours, Deletes
            <4>3. \A e, f \in Devices :
                      job'[e].n = n /\ job'[f].n = n /\ job'[e].at \in {"read", "deleted"} /\ job'[f].at \in {"read", "deleted"} => e = f
                BY <4>2, <3>1 DEF Same
            <4>4. Spent(n)' => Spent(n)
                BY <4>1 DEF Spent
            <4>5. Spent(n)' => (\A j \in Ids, q \in Purposes : codes'[j][q].n # n) /\ Holding(n)' = {}
                BY <4>1, <4>4, <3>1, <3>0
            <4>6. ASSUME NEW e \in Holding(n)', job'[e].op = "verify", codes'[job'[e].id].verify.n = n
                  PROVE  accounts'[job'[e].id].email = job'[e].email
                <5>1. e \in Devices /\ e \in Holding(n) /\ Same(e) /\ job[e].id \in Ids
                    BY <4>6, <4>1, <4>2, <3>0 DEF Holding, JobInv
                <5>2. codes'[job[e].id].verify.n = n /\ "verify" \in Purposes
                    BY <5>1, <4>6 DEF Same, Purposes
                <5>3. codes[job[e].id].verify.n = n
                    BY <5>1, <5>2, <3>0
                <5>4. accounts'[job[e].id].state = "here"
                    BY <5>1, <5>2, <3>0, Blank
                <5>5. accounts[job[e].id].email = job[e].email
                    BY <5>1, <5>3, <4>6, <3>1 DEF Same
                <5>6. QED
                    BY <5>1, <5>4, <5>5 DEF Same
            <4>7. QED
                BY <4>1, <4>3, <4>5, <4>6, <3>1
        <3>3. CASE n = m
            <4>1. \A e \in Devices : job[e].n = m /\ job[e].at \in {"read", "deleted"} => e = d
                BY <3>1, <3>3, <1>m
            <4>2. served[m] = 0
                <5>1. d \in Holding(m) \/ d \in Deleted(m)
                    BY SMT, <1>m DEF Holding, Deleted, AccountTypes, Job
                <5>2. QED
                    BY <5>1, <3>1, <3>3 DEF Spent
            <4>3. \A e \in Devices : job'[e].n = m /\ job'[e].at \in {"read", "deleted"} => e = d /\ job'[e].at = "deleted"
                BY <4>1 DEF Same, Honours, Deletes
            <4>4. Holding(m)' = {} /\ (Deleted(m)' # {} => job'[d].at \in {"read", "deleted"})
                BY <4>3 DEF Holding, Deleted
            <4>5. served'[m] <= 1 /\ (Deleted(m)' # {} => served'[m] = 0)
                BY SMT, <4>2, <4>4, <1>a
            <4>6. \A j \in Ids, q \in Purposes : codes'[j][q].n # m
                BY <1>m, <2>3, <3>3
            <4>7. QED
                BY <4>3, <4>4, <4>5, <4>6, <3>3
        <3>4. QED
            BY <3>2, <3>3
    <2>4. QED
        BY <2>2, <2>3 DEF UseInv
<1>6. ProofInv'
    <2>1. ASSUME NEW i \in Ids, codes'[i].verify.n # 0
          PROVE  codes'[i].verify.n \in crossed.renamed \/ sent[codes'[i].verify.n] = accounts'[i].email
        <3>1. "verify" \in Purposes
            BY DEF Purposes
        <3>2. codes'[i].verify.n = codes[i].verify.n /\ accounts'[i].state = "here"
            BY <2>1, <3>1, Blank
        <3>3. accounts'[i].email = accounts[i].email
            BY <3>2
        <3>4. QED
            BY <3>2, <3>3, <2>1 DEF ProofInv
    <2>2. ASSUME NEW e \in Devices, Doing(e, "verify", "read")'
          PROVE  job'[e].n \in crossed.renamed \/ sent[job'[e].n] = job'[e].email
        <3>1. Same(e)
            BY <2>2 DEF Doing, Honours, Deletes
        <3>2. Doing(e, "verify", "read") /\ job'[e].n = job[e].n /\ job'[e].email = job[e].email
            BY <3>1, <2>2 DEF Doing, Same
        <3>3. QED
            BY <3>2 DEF ProofInv
    <2>3. QED
        BY <2>1, <2>2 DEF ProofInv
<1>7. QED
    BY <1>1, <1>2, <1>3, <1>4, <1>5, <1>6

LEMMA ServedIs ==
    ASSUME AccountInv, NEW d \in Devices, job[d].n # 0
    PROVE  [served EXCEPT ![job[d].n] = served[job[d].n] + 1] \in [1..MaxCode -> Nat]
<1>1. job[d].n \in 1..MaxCode
    BY SMT, CodesOf, Bounds DEF AccountInv, JobInv, AccountTypes
<1>2. served \in [1..MaxCode -> Nat] /\ served[job[d].n] + 1 \in Nat
    BY <1>1 DEF AccountInv, AccountTypes
<1>3. QED
    BY <1>1, <1>2

LEMMA VerifyEmailKeeps ==
    ASSUME AccountInv, NEW d \in Devices, VerifyEmail(d)
    PROVE  AccountInv'
<1> USE DEF AccountInv
<1> DEFINE now == At(job[d].email)
<1>1. /\ job[d].op = "verify" /\ job[d].at = "read" /\ job[d].n # 0 /\ job[d].id \in Ids
      /\ job[d].email \in Addresses /\ "verify" \in Purposes /\ PurposeOf("verify") = "verify"
    BY DEF VerifyEmail, Doing, JobInv, AccountTypes, Job, Purposes, PurposeOf
<1>2. /\ job' = [job EXCEPT ![d] = NoJob]
      /\ served' = [served EXCEPT ![job[d].n] = @ + 1]
      /\ accounts' = [i \in Ids |-> IF i \in now THEN [accounts[i] EXCEPT !.verified = TRUE] ELSE accounts[i]]
      /\ codes' = [i \in Ids |-> IF i \in now THEN [codes[i] EXCEPT !.verify = NoCode] ELSE codes[i]]
      /\ page' = [page EXCEPT ![d] = [at |-> "login", email |-> job[d].email]]
      /\ UNCHANGED <<offers, sent, signed, registration_open, crossed>>
    BY DEF VerifyEmail, Settle, Honoured, GoTo
<1>3. job'[d] = NoJob /\ \A e \in Devices : e # d => job'[e] = job[e]
    BY SMT, <1>2 DEF AccountTypes
<1>4. page' \in [Devices -> Page] /\ page'[d].at = "login" /\ \A e \in Devices : e # d => page'[e] = page[e]
    BY SMT, <1>1, <1>2 DEF AccountTypes, Page, Pages
<1>5. \A i \in Ids : /\ accounts'[i] \in Account /\ accounts'[i].state = accounts[i].state
                     /\ accounts'[i].email = accounts[i].email /\ accounts'[i].devices = accounts[i].devices
                     /\ accounts'[i].cap = accounts[i].cap
    <2>1. ASSUME NEW i \in Ids
          PROVE  /\ [accounts[i] EXCEPT !.verified = TRUE] \in Account
                 /\ [accounts[i] EXCEPT !.verified = TRUE].state = accounts[i].state
                 /\ [accounts[i] EXCEPT !.verified = TRUE].email = accounts[i].email
                 /\ [accounts[i] EXCEPT !.verified = TRUE].devices = accounts[i].devices
                 /\ [accounts[i] EXCEPT !.verified = TRUE].cap = accounts[i].cap
        BY CodesOf DEF Account
    <2>2. QED
        BY <2>1, <1>2, CodesOf
<1>6. \A i \in Ids, p \in Purposes :
        codes'[i][p] = IF i \in now /\ p = "verify" THEN NoCode ELSE codes[i][p]
    BY SMT, <1>2 DEF AccountTypes
<1>7. AccountTypes'
    <2>1. accounts' \in [Ids -> Account]
        BY <1>2, <1>5
    <2>2. codes' \in [Ids -> [Purposes -> Code]]
        <3>1. \A i \in Ids : [codes[i] EXCEPT !.verify = NoCode] \in [Purposes -> Code] /\ codes[i] \in [Purposes -> Code]
            BY Blank DEF AccountTypes
        <3>2. QED
            BY <3>1, <1>2
    <2>3. job' \in [Devices -> Job]
        BY <1>2, Blank DEF AccountTypes
    <2>4. served' \in [1..MaxCode -> Nat]
        BY <1>1, <1>2, ServedIs
    <2>5. QED
        BY <2>1, <2>2, <2>3, <2>4, <1>2, <1>4 DEF AccountTypes
<1>8. JobInv' /\ AddressInv' /\ CodeInv' /\ HoldInv' /\ UseInv' /\ ProofInv'
    <2>1. Honours(d)
        BY <1>2, <1>3, Blank, CodesOf DEF Honours, Fresh
    <2>2. \A i \in Ids, p \in Purposes : codes'[i][p].n # 0 => codes'[i][p].n = codes[i][p].n
        BY <1>6, Blank
    <2>3. ASSUME job[d].n \notin crossed.twice, NEW i \in Ids, NEW p \in Purposes, codes'[i][p].n = job[d].n
          PROVE  FALSE
        <3>1. codes[i][p].n = job[d].n
            BY <2>2, <2>3, <1>1
        <3>2. i = job[d].id /\ p = "verify"
            BY <3>1, <1>1 DEF HoldInv
        <3>3. Here(i)
            BY <3>1, <1>1, Blank DEF CodeInv
        <3>4. accounts[i].email = job[d].email
            <4>1. job[d].n \in (1..MaxCode) \ crossed.twice
                BY SMT, <2>3, <1>1, CodesOf, Bounds DEF JobInv, AccountTypes
            <4>2. \A e \in Holding(job[d].n) : job[e].op = "verify" /\ codes[job[e].id].verify.n = job[d].n
                                                    => accounts[job[e].id].email = job[e].email
                BY <4>1 DEF UseInv
            <4>3. d \in Holding(job[d].n)
                BY <1>1 DEF Holding
            <4>4. QED
                BY <4>2, <4>3, <3>1, <3>2, <1>1
        <3>5. codes'[i][p] = NoCode
            BY <3>2, <3>3, <3>4, <1>6 DEF At, Here
        <3>6. QED
            BY <3>5, <2>3, <1>1, Blank
    <2>4. \A i \in Ids, p \in Purposes : accounts'[i].state # "here" => codes'[i][p] = NoCode
        BY <1>5, <1>6 DEF CodeInv, Here
    <2>5. \A e \in Devices : e # d => Same(e)
        BY <1>3 DEF Same
    <2>6. job[d].n \notin crossed.twice => \A i \in Ids, p \in Purposes : codes'[i][p].n # job[d].n
        BY <2>3
    <2>7. \A i \in Ids : accounts'[i].state = "here" =>
                accounts[i].state = "here" /\ accounts'[i].email = accounts[i].email
        BY <1>5
    <2>8. UNCHANGED <<sent, crossed>> /\ job[d].at \in {"read", "deleted"}
        BY <1>1, <1>2
    <2>9. QED
        BY <2>1, <2>2, <2>4, <2>5, <2>6, <2>7, <2>8, <1>1, <1>7, HonourKeeps
<1>9. CapInv'
    <2>1. \A e \in Devices : job'[e] = job[e] \/ ~ Doing(e, "tfa", "read")'
        BY <1>3, Blank DEF Doing
    <2>2. QED
        BY <2>1, <1>5, CapKeeps DEF SameDevices
<1>10. PageInv'
    <2>1. signed[d].id = 0
        BY <1>1 DEF PageInv
    <2>2. QED
        BY <2>1, <1>2, <1>3, <1>4, Blank DEF PageInv
<1>11. QED
    BY <1>7, <1>8, <1>9, <1>10

\* The answers that had counted the devices of i are told apart from the others.
LEMMA MiscountsIs ==
    ASSUME AccountTypes, NEW i \in Ids, NEW D \in SUBSET Devices
    PROVE  /\ Miscounts(i, D) \in [Devices -> Job]
           /\ \A e \in Devices :
                /\ Miscounts(i, D)[e].op = job[e].op /\ Miscounts(i, D)[e].at = job[e].at
                /\ Miscounts(i, D)[e].email = job[e].email /\ Miscounts(i, D)[e].id = job[e].id
                /\ Miscounts(i, D)[e].n = job[e].n
                /\ Doing(e, "tfa", "read") /\ job[e].id = i /\ e \in D => Miscounts(i, D)[e].moved
                /\ ~ (Doing(e, "tfa", "read") /\ job[e].id = i /\ e \in D) => Miscounts(i, D)[e] = job[e]
<1>1. ASSUME NEW e \in Devices
      PROVE  /\ [job[e] EXCEPT !.moved = TRUE] \in Job
             /\ [job[e] EXCEPT !.moved = TRUE].op = job[e].op /\ [job[e] EXCEPT !.moved = TRUE].at = job[e].at
             /\ [job[e] EXCEPT !.moved = TRUE].email = job[e].email /\ [job[e] EXCEPT !.moved = TRUE].id = job[e].id
             /\ [job[e] EXCEPT !.moved = TRUE].n = job[e].n /\ [job[e] EXCEPT !.moved = TRUE].moved
    BY CodesOf DEF Job
<1>2. \A e \in Devices : Miscounts(i, D)[e] = IF e \in D /\ job[e].op = "tfa" /\ job[e].at = "read" /\ job[e].id = i
                                              THEN [job[e] EXCEPT !.moved = TRUE] ELSE job[e]
    BY DEF Miscounts
<1>3. Miscounts(i, D) \in [Devices -> Job]
    BY <1>1, CodesOf DEF Miscounts
<1>4. QED
    BY <1>1, <1>2, <1>3 DEF Doing

LEMMA Verify2faKeeps ==
    ASSUME AccountInv, NEW d \in Devices, Verify2faAndRegisterDevice(d)
    PROVE  AccountInv'
<1> USE DEF AccountInv
<1> DEFINE i == job[d].id
           again == [NoJob EXCEPT !.op = "login", !.email = job[d].email, !.again = TRUE]
<1>1. /\ job[d].op = "tfa" /\ job[d].at = "read" /\ job[d].n # 0 /\ i \in Ids
      /\ job[d].email \in Addresses /\ "login" \in Purposes /\ PurposeOf("tfa") = "login"
    BY DEF Verify2faAndRegisterDevice, Doing, JobInv, AccountTypes, Job, Purposes, PurposeOf
<1>2. /\ job' = [Miscounts(i, Devices) EXCEPT ![d] = again]
      /\ served' = [served EXCEPT ![job[d].n] = @ + 1]
      /\ accounts' = [accounts EXCEPT ![i].devices = @ \cup {d}]
      /\ codes' = [codes EXCEPT ![i].login = NoCode]
      /\ UNCHANGED <<offers, sent, page, signed, registration_open, crossed>>
    BY DEF Verify2faAndRegisterDevice, Honoured
<1>a. again \in Job /\ again.op = "login" /\ again.at = "sent" /\ again.n = 0
    <2>1. ASSUME NEW y \in Job PROVE [y EXCEPT !.op = "login"] \in Job
        BY DEF Job
    <2>2. ASSUME NEW y \in Job
          PROVE  [y EXCEPT !.email = job[d].email] \in Job /\ [y EXCEPT !.again = TRUE] \in Job
        BY <1>1 DEF Job
    <2>3. again = [[[NoJob EXCEPT !.op = "login"] EXCEPT !.email = job[d].email] EXCEPT !.again = TRUE]
        BY Blank DEF Job
    <2>4. again \in Job
        BY <2>1, <2>2, <2>3, Blank
    <2>5. again.op = "login" /\ again.at = "sent" /\ again.n = 0
        BY SMT DEF NoJob
    <2>6. QED
        BY <2>4, <2>5
<1> HIDE DEF again
<1>b. /\ Miscounts(i, Devices) \in [Devices -> Job]
      /\ \A e \in Devices :
            /\ Miscounts(i, Devices)[e].op = job[e].op /\ Miscounts(i, Devices)[e].at = job[e].at
            /\ Miscounts(i, Devices)[e].email = job[e].email /\ Miscounts(i, Devices)[e].id = job[e].id
            /\ Miscounts(i, Devices)[e].n = job[e].n
            /\ Doing(e, "tfa", "read") /\ job[e].id = i => Miscounts(i, Devices)[e].moved
            /\ ~ (Doing(e, "tfa", "read") /\ job[e].id = i) => Miscounts(i, Devices)[e] = job[e]
    BY <1>1, MiscountsIs
<1>3. job'[d] = again /\ \A e \in Devices : e # d => job'[e] = Miscounts(i, Devices)[e]
    BY SMT, <1>2, <1>b
<1>4. \A e \in Devices : e # d => Same(e)
    BY <1>3, <1>b DEF Same
<1>5. /\ accounts' \in [Ids -> Account]
      /\ \A j \in Ids : /\ accounts'[j].state = accounts[j].state /\ accounts'[j].email = accounts[j].email
                        /\ accounts'[j].cap = accounts[j].cap
                        /\ j # i => accounts'[j] = accounts[j]
    <2>1. accounts' = [accounts EXCEPT ![i] = [accounts[i] EXCEPT !.devices = accounts[i].devices \cup {d}]]
        BY <1>2 DEF AccountTypes
    <2>2. accounts[i].devices \cup {d} \in SUBSET Devices
        BY <1>1, CodesOf DEF Account
    <2>3. [accounts[i] EXCEPT !.devices = accounts[i].devices \cup {d}] \in Account
        BY <2>2, <1>1, CodesOf, AccountChanges
    <2>4. accounts' \in [Ids -> Account]
        BY <2>1, <2>3 DEF AccountTypes
    <2>5. \A j \in Ids : /\ accounts'[j].state = accounts[j].state /\ accounts'[j].email = accounts[j].email
                         /\ accounts'[j].cap = accounts[j].cap
                         /\ j # i => accounts'[j] = accounts[j]
        BY SMT, <1>2 DEF AccountTypes, Account
    <2>6. QED
        BY <2>4, <2>5
<1>6. \A j \in Ids, p \in Purposes :
        codes'[j][p] = IF j = i /\ p = "login" THEN NoCode ELSE codes[j][p]
    BY SMT, <1>1, <1>2 DEF AccountTypes
<1>7. AccountTypes'
    <2>2. codes' \in [Ids -> [Purposes -> Code]]
        BY <1>1, <1>2, Blank DEF AccountTypes
    <2>3. job' \in [Devices -> Job]
        BY <1>2, <1>a, <1>b
    <2>4. served' \in [1..MaxCode -> Nat]
        BY <1>1, <1>2, ServedIs
    <2>5. QED
        BY <2>2, <2>3, <2>4, <1>2, <1>5 DEF AccountTypes
<1>8. JobInv' /\ AddressInv' /\ CodeInv' /\ HoldInv' /\ UseInv' /\ ProofInv'
    <2>1. Honours(d)
        BY <1>2, <1>3, <1>a, CodesOf DEF Honours, Fresh
    <2>2. \A j \in Ids, p \in Purposes : codes'[j][p].n # 0 => codes'[j][p].n = codes[j][p].n
        BY <1>6, Blank
    <2>3. ASSUME NEW j \in Ids, NEW p \in Purposes, codes'[j][p].n = job[d].n
          PROVE  FALSE
        <3>1. codes[j][p].n = job[d].n
            BY <2>2, <2>3, <1>1
        <3>2. j = i /\ p = "login"
            BY <3>1, <1>1 DEF HoldInv
        <3>3. QED
            BY <3>2, <2>3, <1>1, <1>6, Blank
    <2>4. \A j \in Ids, p \in Purposes : accounts'[j].state # "here" => codes'[j][p] = NoCode
        BY <1>5, <1>6 DEF CodeInv, Here
    <2>6. job[d].n \notin crossed.twice => \A j \in Ids, p \in Purposes : codes'[j][p].n # job[d].n
        BY <2>3
    <2>7. \A j \in Ids : accounts'[j].state = "here" =>
                accounts[j].state = "here" /\ accounts'[j].email = accounts[j].email
        BY <1>5
    <2>8. UNCHANGED <<sent, crossed>> /\ job[d].at \in {"read", "deleted"}
        BY <1>1, <1>2
    <2>9. QED
        BY <2>1, <2>2, <2>4, <2>6, <2>7, <2>8, <1>1, <1>4, <1>7, HonourKeeps
<1>9. CapInv'
    <2>1. ASSUME NEW e \in Devices, Doing(e, "tfa", "read")', ~ job'[e].moved, Here(job[e].id)'
          PROVE  HasRoom(e, job[e].id)' /\ job'[e].id = job[e].id
        <3>1. e # d /\ Doing(e, "tfa", "read") /\ Same(e) /\ job[e].id \in Ids
            <4>1. e # d
                BY <2>1, <1>3, <1>a DEF Doing
            <4>2. QED
                BY <4>1, <2>1, <1>4 DEF Doing, Same, JobInv
        <3>2. job[e].id # i /\ job'[e] = job[e]
            BY <3>1, <2>1, <1>3, <1>b
        <3>3. HasRoom(e, job[e].id) /\ accounts'[job[e].id] = accounts[job[e].id]
            BY <3>1, <3>2, <2>1, <1>5 DEF CapInv, Here
        <3>4. QED
            BY <3>2, <3>3 DEF HasRoom
    <2>2. QED
        <3>1. \A e \in Devices : Doing(e, "tfa", "read")' => job'[e].id = job[e].id
            BY <1>3, <1>4, <1>a DEF Doing, Same
        <3>2. QED
            BY <2>1, <3>1 DEF CapInv, Doing, Here, HasRoom
<1>10. PageInv'
    <2>1. page[d].at # "in"
        BY <1>1 DEF PageInv
    <2>2. QED
        BY <2>1, <1>2, <1>4 DEF PageInv, Same
<1>11. QED
    BY <1>5, <1>7, <1>8, <1>9, <1>10

LEMMA ConsumeKeeps ==
    ASSUME AccountInv, NEW d \in Devices, ConsumeResetCode(d)
    PROVE  AccountInv'
<1> USE DEF AccountInv
<1> DEFINE i == job[d].id
<1>1. /\ job[d].op = "reset" /\ job[d].at = "read" /\ job[d].n # 0 /\ i \in Ids
      /\ "reset" \in Purposes /\ PurposeOf("reset") = "reset"
    BY DEF ConsumeResetCode, Doing, JobInv, Purposes, PurposeOf
<1>2. /\ job' = [job EXCEPT ![d].at = "deleted"]
      /\ codes' = [codes EXCEPT ![i].reset = NoCode]
      /\ UNCHANGED <<offers, accounts, sent, page, signed, registration_open, served, crossed>>
    BY DEF ConsumeResetCode
<1>3. /\ job'[d] = [job[d] EXCEPT !.at = "deleted"] /\ \A e \in Devices : e # d => job'[e] = job[e]
    BY <1>2 DEF AccountTypes
<1>4. /\ job'[d] \in Job /\ job'[d].at = "deleted" /\ job'[d].op = "reset"
      /\ job'[d].id = i /\ job'[d].n = job[d].n
    BY <1>1, <1>3, CodesOf DEF Job
<1>6. \A j \in Ids, p \in Purposes :
        codes'[j][p] = IF j = i /\ p = "reset" THEN NoCode ELSE codes[j][p]
    BY SMT, <1>1, <1>2 DEF AccountTypes
<1>7. AccountTypes'
    <2>2. codes' \in [Ids -> [Purposes -> Code]]
        BY <1>1, <1>2, Blank DEF AccountTypes
    <2>3. job' \in [Devices -> Job]
        BY <1>2, <1>3, <1>4 DEF AccountTypes
    <2>5. QED
        BY <2>2, <2>3, <1>2 DEF AccountTypes
<1>8. JobInv' /\ AddressInv' /\ CodeInv' /\ HoldInv' /\ UseInv' /\ ProofInv'
    <2>1. Deletes(d)
        BY <1>1, <1>2, <1>4 DEF Deletes
    <2>2. \A j \in Ids, p \in Purposes : codes'[j][p].n # 0 => codes'[j][p].n = codes[j][p].n
        BY <1>6, Blank
    <2>3. ASSUME NEW j \in Ids, NEW p \in Purposes, codes'[j][p].n = job[d].n
          PROVE  FALSE
        <3>1. codes[j][p].n = job[d].n
            BY <2>2, <2>3, <1>1
        <3>2. j = i /\ p = "reset"
            BY <3>1, <1>1 DEF HoldInv
        <3>3. QED
            BY <3>2, <2>3, <1>1, <1>6, Blank
    <2>4. \A j \in Ids, p \in Purposes : accounts'[j].state # "here" => codes'[j][p] = NoCode
        BY <1>2, <1>6 DEF CodeInv, Here
    <2>5. \A e \in Devices : e # d => Same(e)
        BY <1>3 DEF Same
    <2>6. job[d].n \notin crossed.twice => \A j \in Ids, p \in Purposes : codes'[j][p].n # job[d].n
        BY <2>3
    <2>7. \A j \in Ids : accounts'[j].state = "here" =>
                accounts[j].state = "here" /\ accounts'[j].email = accounts[j].email
        BY <1>2
    <2>8. UNCHANGED <<sent, crossed>> /\ job[d].at \in {"read", "deleted"}
        BY <1>1, <1>2
    <2>9. QED
        BY <2>1, <2>2, <2>4, <2>5, <2>6, <2>7, <2>8, <1>1, <1>7, HonourKeeps
<1>9. CapInv'
    <2>1. \A e \in Devices : job'[e] = job[e] \/ ~ Doing(e, "tfa", "read")'
        BY <1>3, <1>4 DEF Doing
    <2>2. QED
        BY <2>1, <1>2, CapKeeps DEF SameDevices
<1>10. PageInv'
    <2>1. page[d].at # "in"
        BY <1>1 DEF PageInv
    <2>2. QED
        BY <2>1, <1>2, <1>3 DEF PageInv
<1>11. QED
    BY <1>7, <1>8, <1>9, <1>10

LEMMA CutIs ==
    ASSUME AccountTypes, NEW i \in Ids
    PROVE  CutAll(i) \in [Devices -> Token] /\ \A e \in Devices : CutAll(i)[e].id = signed[e].id
<1>1. ASSUME NEW e \in Devices
      PROVE  /\ signed[e] \in Token /\ [signed[e] EXCEPT !.cut = TRUE] \in Token
             /\ [signed[e] EXCEPT !.cut = TRUE].id = signed[e].id
    BY DEF AccountTypes, Token
<1>2. CutAll(i) \in [Devices -> Token]
    BY <1>1 DEF CutAll
<1>3. \A e \in Devices : CutAll(i)[e].id = signed[e].id
    BY <1>1 DEF CutAll
<1>4. QED
    BY <1>2, <1>3

LEMMA ConfirmKeeps ==
    ASSUME AccountInv, NEW d \in Devices, ConfirmPasswordReset(d)
    PROVE  AccountInv'
<1> USE DEF AccountInv
<1>1. /\ job[d].op = "reset" /\ job[d].at = "deleted" /\ job[d].n # 0
      /\ job[d].email \in Addresses /\ PersonOf[d] \in Persons
    BY AccountsAssumption DEF AccountsAssumption, ConfirmPasswordReset, Doing, JobInv, AccountTypes, Job
<1>2. PICK i \in At(job[d].email) :
        /\ accounts' = [accounts EXCEPT ![i].owner = PersonOf[d], ![i].keyed = job[d].email, ![i].refresh = {}]
        /\ codes' = [codes EXCEPT ![i] = [p \in Purposes |-> NoCode]]
        /\ signed' = CutAll(i)
    BY DEF ConfirmPasswordReset
<1>3. /\ job' = [job EXCEPT ![d] = NoJob]
      /\ served' = [served EXCEPT ![job[d].n] = @ + 1]
      /\ page' = [page EXCEPT ![d] = [at |-> "login", email |-> job[d].email]]
      /\ UNCHANGED <<offers, sent, registration_open, crossed>>
    BY DEF ConfirmPasswordReset, Settle, Honoured, GoTo
<1>4. i \in Ids
    BY DEF At
<1>5. job'[d] = NoJob /\ \A e \in Devices : e # d => job'[e] = job[e]
    BY <1>3 DEF AccountTypes
<1>6. page' \in [Devices -> Page] /\ page'[d].at = "login" /\ \A e \in Devices : e # d => page'[e] = page[e]
    BY SMT, <1>1, <1>3 DEF AccountTypes, Page, Pages
<1>7. /\ accounts' \in [Ids -> Account]
      /\ \A j \in Ids : /\ accounts'[j].state = accounts[j].state /\ accounts'[j].email = accounts[j].email
                        /\ accounts'[j].cap = accounts[j].cap /\ accounts'[j].devices = accounts[j].devices
    <2> DEFINE new == [accounts[i] EXCEPT !.owner = PersonOf[d], !.keyed = job[d].email, !.refresh = {}]
    <2>1. accounts' = [accounts EXCEPT ![i] = new]
        BY <1>2 DEF AccountTypes
    <2>2. new \in Account
        BY <1>1, <1>4, CodesOf, AccountChanges
    <2>3. new.state = accounts[i].state /\ new.email = accounts[i].email /\ new.cap = accounts[i].cap
          /\ new.devices = accounts[i].devices
        BY <1>4, CodesOf DEF Account
    <2> HIDE DEF new
    <2>4. QED
        BY <2>1, <2>2, <2>3, <1>4 DEF AccountTypes
<1>8. \A j \in Ids, p \in Purposes : codes'[j][p] = IF j = i THEN NoCode ELSE codes[j][p]
    BY <1>2, <1>4 DEF AccountTypes
<1>9. AccountTypes'
    <2>2. codes' \in [Ids -> [Purposes -> Code]]
        BY <1>2, Blank DEF AccountTypes
    <2>3. job' \in [Devices -> Job]
        BY <1>3, Blank DEF AccountTypes
    <2>4. served' \in [1..MaxCode -> Nat]
        BY <1>1, <1>3, ServedIs
    <2>5. signed' \in [Devices -> Token]
        BY <1>2, <1>4, CutIs
    <2>6. QED
        BY <2>2, <2>3, <2>4, <2>5, <1>3, <1>6, <1>7 DEF AccountTypes
<1>10. JobInv' /\ AddressInv' /\ CodeInv' /\ HoldInv' /\ UseInv' /\ ProofInv'
    <2>1. Honours(d)
        BY <1>3, <1>5, Blank, CodesOf DEF Honours, Fresh
    <2>2. \A j \in Ids, p \in Purposes : codes'[j][p].n # 0 => codes'[j][p].n = codes[j][p].n
        BY <1>8, Blank
    <2>3. ASSUME job[d].n \notin crossed.twice, NEW j \in Ids, NEW p \in Purposes, codes'[j][p].n = job[d].n
          PROVE  FALSE
        <3>1. codes[j][p].n = job[d].n
            BY <2>2, <2>3, <1>1
        <3>2. d \in Deleted(job[d].n) /\ Spent(job[d].n)
            BY <1>1 DEF Deleted, Spent
        <3>3. job[d].n \in (1..MaxCode) \ crossed.twice
            BY SMT, <2>3, <1>1, CodesOf, Bounds DEF JobInv, AccountTypes
        <3>4. QED
            BY <3>1, <3>2, <3>3 DEF UseInv
    <2>4. \A j \in Ids, p \in Purposes : accounts'[j].state # "here" => codes'[j][p] = NoCode
        BY <1>7, <1>8 DEF CodeInv, Here
    <2>5. \A e \in Devices : e # d => Same(e)
        BY <1>5 DEF Same
    <2>6. job[d].n \notin crossed.twice => \A j \in Ids, p \in Purposes : codes'[j][p].n # job[d].n
        BY <2>3
    <2>7. \A j \in Ids : accounts'[j].state = "here" =>
                accounts[j].state = "here" /\ accounts'[j].email = accounts[j].email
        BY <1>7
    <2>8. UNCHANGED <<sent, crossed>> /\ job[d].at \in {"read", "deleted"}
        BY <1>1, <1>3
    <2>9. QED
        BY <2>1, <2>2, <2>4, <2>5, <2>6, <2>7, <2>8, <1>1, <1>9, HonourKeeps
<1>11. CapInv'
    <2>1. \A e \in Devices : job'[e] = job[e] \/ ~ Doing(e, "tfa", "read")'
        BY <1>5, Blank DEF Doing
    <2>2. QED
        BY <2>1, <1>7, CapKeeps DEF SameDevices
<1>12. PageInv'
    <2>1. signed[d].id = 0
        BY <1>1 DEF PageInv
    <2>2. \A e \in Devices : signed'[e].id = signed[e].id
        BY <1>2, <1>4, CutIs
    <2>3. QED
        BY <2>1, <2>2, <1>5, <1>6, Blank DEF PageInv
<1>13. QED
    BY <1>9, <1>10, <1>11, <1>12

----------------------------------------------------------------------------
(* The steps of those who are signed in, and of the server.                *)

\* One account is changed, but not its address.
LEMMA RowKeeps ==
    ASSUME AccountInv, NEW i \in Ids, NEW row \in Account, row.state = accounts[i].state,
           row.email = accounts[i].email, accounts' = [accounts EXCEPT ![i] = row],
           job' \in [Devices -> Job], signed' \in [Devices -> Token], page' \in [Devices -> Page],
           \A e \in Devices : Same(e),
           UNCHANGED <<offers, codes, sent, registration_open, served, crossed>>
    PROVE  AccountTypes' /\ JobInv' /\ AddressInv' /\ CodeInv' /\ HoldInv' /\ UseInv' /\ ProofInv'
<1> USE DEF AccountInv
<1>1. accounts'[i] = row /\ \A j \in Ids : j # i => accounts'[j] = accounts[j]
    BY DEF AccountTypes
<1>2. AccountTypes'
    BY DEF AccountTypes
<1>3. Calm
    BY <1>1 DEF Calm, CodeInv, Here
<1>4. QED
    BY <1>2, <1>3, CalmKeeps

LEMMA ActingIs ==
    ASSUME NEW d \in Devices, NEW i \in Acting(d)
    PROVE  i \in Ids /\ Here(i) /\ page[d].at = "in"
PROOF BY DEF Acting

LEMMA RevokeDeviceKeeps ==
    ASSUME AccountInv, NEW d \in Devices, RevokeDevice(d)
    PROVE  AccountInv'
<1> USE DEF AccountInv
<1>1. PICK i \in Acting(d), x \in Devices :
        /\ x \in accounts[i].devices
        /\ accounts' = [accounts EXCEPT ![i].devices = @ \ {x}, ![i].refresh = @ \ {x}]
        /\ job' = Miscounts(i, {x})
    BY DEF RevokeDevice
<1>2. i \in Ids /\ UNCHANGED <<offers, codes, sent, page, signed, registration_open, served, crossed>>
    BY ActingIs DEF RevokeDevice
<1> DEFINE D == accounts[i].devices \ {x}
           row == [accounts[i] EXCEPT !.devices = D, !.refresh = accounts[i].refresh \ {x}]
<1>3. accounts' = [accounts EXCEPT ![i] = row]
    BY <1>1 DEF AccountTypes
<1>4. row \in Account
    <2>1. D \in SUBSET Devices /\ accounts[i].refresh \ {x} \in SUBSET Devices
        BY <1>2, CodesOf DEF Account
    <2>2. QED
        BY <2>1, <1>2, CodesOf, AccountChanges
<1>5. row.state = accounts[i].state /\ row.email = accounts[i].email /\ row.devices = D /\ row.cap = accounts[i].cap
    BY <1>2, CodesOf DEF Account
<1> HIDE DEF row
<1>6. /\ job' \in [Devices -> Job] /\ \A e \in Devices : Same(e)
      /\ \A e \in Devices : IF Doing(e, "tfa", "read") /\ job[e].id = i /\ e = x THEN job'[e].moved
                            ELSE job'[e] = job[e]
    BY <1>1, <1>2, MiscountsIs DEF Same
<1>7. AccountTypes' /\ JobInv' /\ AddressInv' /\ CodeInv' /\ HoldInv' /\ UseInv' /\ ProofInv'
    <2>1. signed' \in [Devices -> Token] /\ page' \in [Devices -> Page]
        BY <1>2 DEF AccountTypes
    <2>2. QED
        BY <2>1, <1>2, <1>3, <1>4, <1>5, <1>6, RowKeeps
<1>8. CapInv'
    <2>1. accounts'[i] = row /\ \A j \in Ids : j # i => accounts'[j] = accounts[j]
        BY <1>3, <1>2 DEF AccountTypes
    <2>2. IsFiniteSet(accounts[i].devices)
        BY <1>2, CodesOf, Bounds, FS_Subset DEF Account
    <2>3. Cardinality(D) <= Cardinality(accounts[i].devices)
        BY <2>2, FS_Subset
    <2>c. Cardinality(D) \in Nat /\ Cardinality(accounts[i].devices) \in Nat /\ accounts[i].cap \in Nat
        <3>1. IsFiniteSet(D)
            BY <2>2, FS_Subset
        <3>2. accounts[i].cap \in Nat
            BY SMT, <1>2, CodesOf, Bounds DEF Account
        <3>3. QED
            BY <2>2, <3>1, <3>2, FS_CardinalityType
    <2>4. ASSUME NEW e \in Devices, Doing(e, "tfa", "read")', ~ job'[e].moved, Here(job[e].id)'
          PROVE  HasRoom(e, job[e].id)'
        <3>1. Doing(e, "tfa", "read") /\ job[e].id \in Ids
            BY <2>4, <1>6 DEF Doing, Same, JobInv
        <3>2. job'[e] = job[e] /\ ~ (job[e].id = i /\ e = x)
            BY <2>4, <3>1, <1>6
        <3>3. Here(job[e].id) /\ HasRoom(e, job[e].id)
            <4>1. Here(job[e].id)
                BY <2>1, <2>4, <3>1, <3>2, <1>5 DEF Here
            <4>2. QED
                BY <4>1, <3>1, <3>2, <2>4 DEF CapInv
        <3>4. CASE job[e].id = i
            <4>1. e \in accounts[i].devices => e \in D
                BY <3>2, <3>4
            <4>2. Cardinality(accounts[i].devices) < accounts[i].cap => Cardinality(D) < accounts[i].cap
                BY SMT, <2>3, <2>c
            <4>3. accounts'[i].devices = D /\ accounts'[i].cap = accounts[i].cap
                BY <2>1, <1>5
            <4> HIDE DEF D
            <4>4. QED
                BY <4>1, <4>2, <4>3, <3>2, <3>3, <3>4 DEF HasRoom
        <3>5. CASE job[e].id # i
            BY <3>1, <3>2, <3>3, <3>5, <2>1 DEF HasRoom
        <3>6. QED
            BY <3>4, <3>5
    <2>5. \A e \in Devices : Doing(e, "tfa", "read")' => job'[e].id = job[e].id
        BY <1>6 DEF Same
    <2>6. QED
        BY <2>4, <2>5 DEF CapInv, Doing, Here, HasRoom
<1>9. PageInv'
    BY <1>2, <1>6 DEF PageInv, Same
<1>10. QED
    BY <1>7, <1>8, <1>9

LEMMA UpdateLimitKeeps ==
    ASSUME AccountInv, NEW d \in Devices, UpdateDeviceLimit(d)
    PROVE  AccountInv'
<1> USE DEF AccountInv
<1>1. PICK i \in Acting(d), n \in 1..MaxCap :
        /\ accounts' = [accounts EXCEPT ![i].cap = n]
        /\ job' = IF n < accounts[i].cap THEN Miscounts(i, Devices) ELSE job
    BY DEF UpdateDeviceLimit
<1>2. i \in Ids /\ UNCHANGED <<offers, codes, sent, page, signed, registration_open, served, crossed>>
    BY ActingIs DEF UpdateDeviceLimit
<1> DEFINE row == [accounts[i] EXCEPT !.cap = n]
<1>3. accounts' = [accounts EXCEPT ![i] = row]
    BY <1>1 DEF AccountTypes
<1>4. row \in Account
    BY <1>2, CodesOf, AccountChanges
<1>5. row.state = accounts[i].state /\ row.email = accounts[i].email /\ row.devices = accounts[i].devices /\ row.cap = n
    BY <1>2, CodesOf DEF Account
<1> HIDE DEF row
<1>6. /\ job' \in [Devices -> Job] /\ \A e \in Devices : Same(e)
      /\ \A e \in Devices : IF n < accounts[i].cap /\ Doing(e, "tfa", "read") /\ job[e].id = i THEN job'[e].moved
                            ELSE job'[e] = job[e]
    <2>1. CASE n < accounts[i].cap
        BY <2>1, <1>1, <1>2, MiscountsIs DEF Same
    <2>2. CASE ~ (n < accounts[i].cap)
        BY <2>2, <1>1 DEF Same, AccountTypes
    <2>3. QED
        BY <2>1, <2>2
<1>7. AccountTypes' /\ JobInv' /\ AddressInv' /\ CodeInv' /\ HoldInv' /\ UseInv' /\ ProofInv'
    <2>1. signed' \in [Devices -> Token] /\ page' \in [Devices -> Page]
        BY <1>2 DEF AccountTypes
    <2>2. QED
        BY <2>1, <1>2, <1>3, <1>4, <1>5, <1>6, RowKeeps
<1>8. CapInv'
    <2>1. accounts'[i] = row /\ \A j \in Ids : j # i => accounts'[j] = accounts[j]
        BY <1>3, <1>2 DEF AccountTypes
    <2>c. Cardinality(accounts[i].devices) \in Nat /\ accounts[i].cap \in Nat /\ n \in Nat
        <3>1. IsFiniteSet(accounts[i].devices)
            BY <1>2, CodesOf, Bounds, FS_Subset DEF Account
        <3>2. accounts[i].cap \in Nat /\ n \in Nat
            BY SMT, <1>2, CodesOf, Bounds DEF Account
        <3>3. QED
            BY <3>1, <3>2, FS_CardinalityType
    <2>4. ASSUME NEW e \in Devices, Doing(e, "tfa", "read")', ~ job'[e].moved, Here(job[e].id)'
          PROVE  HasRoom(e, job[e].id)'
        <3>1. Doing(e, "tfa", "read") /\ job[e].id \in Ids
            BY <2>4, <1>6 DEF Doing, Same, JobInv
        <3>2. job'[e] = job[e] /\ ~ (job[e].id = i /\ n < accounts[i].cap)
            BY <2>4, <3>1, <1>6
        <3>3. Here(job[e].id) /\ HasRoom(e, job[e].id)
            <4>1. Here(job[e].id)
                BY <2>1, <2>4, <3>1, <3>2, <1>5 DEF Here
            <4>2. QED
                BY <4>1, <3>1, <3>2, <2>4 DEF CapInv
        <3>4. CASE job[e].id = i
            <4>2. Cardinality(accounts[i].devices) < accounts[i].cap => Cardinality(accounts[i].devices) < n
                BY SMT, <2>c, <3>2, <3>4
            <4>3. accounts'[i].devices = accounts[i].devices /\ accounts'[i].cap = n
                BY <2>1, <1>5
            <4>4. QED
                BY <4>2, <4>3, <3>2, <3>3, <3>4 DEF HasRoom
        <3>5. CASE job[e].id # i
            BY <3>1, <3>2, <3>3, <3>5, <2>1 DEF HasRoom
        <3>6. QED
            BY <3>4, <3>5
    <2>5. \A e \in Devices : Doing(e, "tfa", "read")' => job'[e].id = job[e].id
        BY <1>6 DEF Same
    <2>6. QED
        BY <2>4, <2>5 DEF CapInv, Doing, Here, HasRoom
<1>9. PageInv'
    BY <1>2, <1>6 DEF PageInv, Same
<1>10. QED
    BY <1>7, <1>8, <1>9

LEMMA LogoutAllKeeps ==
    ASSUME AccountInv, NEW d \in Devices, LogoutAllDevices(d)
    PROVE  AccountInv'
<1> USE DEF AccountInv
<1>1. PICK i \in Acting(d) :
        /\ accounts' = [accounts EXCEPT ![i].refresh = {}]
        /\ signed' = [CutAll(i) EXCEPT ![d] = NoSession]
    BY DEF LogoutAllDevices
<1>2. /\ i \in Ids /\ page[d].at = "in" /\ page' = [page EXCEPT ![d] = Out("login")]
      /\ UNCHANGED <<offers, codes, sent, job, registration_open, served, crossed>>
    BY ActingIs DEF LogoutAllDevices
<1> DEFINE row == [accounts[i] EXCEPT !.refresh = {}]
<1>3. accounts' = [accounts EXCEPT ![i] = row]
    BY <1>1 DEF AccountTypes
<1>4. row \in Account
    BY <1>2, CodesOf, AccountChanges
<1>5. row.state = accounts[i].state /\ row.email = accounts[i].email /\ row.devices = accounts[i].devices
      /\ row.cap = accounts[i].cap
    BY <1>2, CodesOf DEF Account
<1> HIDE DEF row
<1>6. /\ signed' \in [Devices -> Token] /\ signed'[d].id = 0
      /\ \A e \in Devices : e # d => signed'[e].id = signed[e].id
    BY <1>1, <1>2, CutIs, Blank
<1>7. /\ page' \in [Devices -> Page] /\ page'[d].at = "login" /\ \A e \in Devices : e # d => page'[e] = page[e]
    BY SMT, <1>2, Bounds DEF AccountTypes, Page, Pages, Out
<1>8. AccountTypes' /\ JobInv' /\ AddressInv' /\ CodeInv' /\ HoldInv' /\ UseInv' /\ ProofInv'
    <2>1. job' \in [Devices -> Job] /\ \A e \in Devices : Same(e)
        BY <1>2 DEF AccountTypes, Same
    <2>2. QED
        BY <2>1, <1>2, <1>3, <1>4, <1>5, <1>6, <1>7, RowKeeps
<1>9. CapInv'
    <2>1. SameDevices
        BY <1>2, <1>3, <1>5 DEF SameDevices, AccountTypes
    <2>2. QED
        BY <2>1, <1>2, CapKeeps
<1>10. PageInv'
    BY <1>2, <1>6, <1>7 DEF PageInv
<1>11. QED
    BY <1>8, <1>9, <1>10

LEMMA SignOutKeeps ==
    ASSUME AccountInv, NEW d \in Devices, SignOut(d)
    PROVE  AccountInv'
<1> USE DEF AccountInv
<1> DEFINE i == signed[d].id
           row == [accounts[i] EXCEPT !.refresh = accounts[i].refresh \ {d}]
<1>1. /\ page[d].at = "in" /\ accounts' = [accounts EXCEPT ![i].refresh = @ \ {d}]
      /\ signed' = [signed EXCEPT ![d] = NoSession] /\ page' = [page EXCEPT ![d] = Out("login")]
      /\ UNCHANGED <<offers, codes, sent, job, registration_open, served, crossed>>
    BY DEF SignOut
<1>2. i \in Ids
    <2>1. i # 0 /\ i \in 0..MaxId
        BY <1>1 DEF PageInv, AccountTypes, Token
    <2>2. QED
        BY SMT, <2>1, Bounds
<1>3. accounts' = [accounts EXCEPT ![i] = row]
    BY <1>1 DEF AccountTypes
<1>4. row \in Account
    <2>1. accounts[i].refresh \ {d} \in SUBSET Devices
        BY <1>2, CodesOf DEF Account
    <2>2. QED
        BY <2>1, <1>2, CodesOf, AccountChanges
<1>5. row.state = accounts[i].state /\ row.email = accounts[i].email /\ row.devices = accounts[i].devices
      /\ row.cap = accounts[i].cap
    BY <1>2, CodesOf DEF Account
<1> HIDE DEF row
<1>6. /\ signed' \in [Devices -> Token] /\ signed'[d].id = 0
      /\ \A e \in Devices : e # d => signed'[e].id = signed[e].id
    BY <1>1, Blank DEF AccountTypes
<1>7. /\ page' \in [Devices -> Page] /\ page'[d].at = "login" /\ \A e \in Devices : e # d => page'[e] = page[e]
    BY SMT, <1>1, Bounds DEF AccountTypes, Page, Pages, Out
<1> HIDE DEF i
<1>8. AccountTypes' /\ JobInv' /\ AddressInv' /\ CodeInv' /\ HoldInv' /\ UseInv' /\ ProofInv'
    <2>1. job' \in [Devices -> Job] /\ \A e \in Devices : Same(e)
        BY <1>1 DEF AccountTypes, Same
    <2>2. QED
        BY <2>1, <1>1, <1>2, <1>3, <1>4, <1>5, <1>6, <1>7, RowKeeps
<1>9. CapInv'
    <2>1. SameDevices
        BY <1>2, <1>3, <1>5 DEF SameDevices, AccountTypes
    <2>2. QED
        BY <2>1, <1>1, CapKeeps
<1>10. PageInv'
    BY <1>1, <1>6, <1>7 DEF PageInv
<1>11. QED
    BY <1>8, <1>9, <1>10

\* Codes grow old or disappear.
LEMMA CodesFade ==
    ASSUME AccountInv, codes' \in [Ids -> [Purposes -> Code]],
           \A i \in Ids, p \in Purposes : codes'[i][p].n # 0 => codes'[i][p].n = codes[i][p].n,
           \A i \in Ids, p \in Purposes : accounts[i].state # "here" => codes'[i][p] = NoCode,
           UNCHANGED <<offers, accounts, sent, page, job, signed, registration_open, served, crossed>>
    PROVE  AccountInv'
<1> USE DEF AccountInv
<1>1. AccountTypes'
    BY DEF AccountTypes
<1>2. Calm
    BY DEF Calm, Same
<1>3. CapInv'
    BY CapKeeps DEF SameDevices
<1>4. PageInv'
    BY DEF PageInv
<1>5. QED
    BY <1>1, <1>2, <1>3, <1>4, CalmKeeps

LEMMA TimePasses ==
    ASSUME AccountInv,
           (\E i \in Ids, p \in Purposes : Ages(i, p)) \/ CleanupExpiredTfaCodes
    PROVE  AccountInv'
<1> USE DEF AccountInv
<1>1. ASSUME NEW i \in Ids, NEW p \in Purposes, Ages(i, p)
      PROVE  AccountInv'
    <2> DEFINE c == [codes[i][p] EXCEPT !.age = IF codes[i][p].age = "new" THEN "ripe" ELSE "late"]
    <2>1. codes' = [codes EXCEPT ![i][p] = c]
        BY <1>1 DEF Ages, AccountTypes
    <2>2. c \in Code /\ c.n = codes[i][p].n
        BY CodesOf DEF Code
    <2>3. Here(i)
        BY <1>1, Blank DEF Ages, CodeInv
    <2> HIDE DEF c
    <2>4. \A j \in Ids, q \in Purposes : codes'[j][q] = IF j = i /\ q = p THEN c ELSE codes[j][q]
        BY <2>1 DEF AccountTypes
    <2>5. codes' \in [Ids -> [Purposes -> Code]]
        BY <2>1, <2>2 DEF AccountTypes
    <2>6. \A j \in Ids, q \in Purposes : codes'[j][q].n # 0 => codes'[j][q].n = codes[j][q].n
        BY <2>2, <2>4
    <2>7. \A j \in Ids, q \in Purposes : accounts[j].state # "here" => codes'[j][q] = NoCode
        BY <2>3, <2>4 DEF CodeInv, Here
    <2>8. UNCHANGED <<offers, accounts, sent, page, job, signed, registration_open, served, crossed>>
        BY <1>1 DEF Ages
    <2>9. QED
        BY <2>5, <2>6, <2>7, <2>8, CodesFade
<1>2. ASSUME CleanupExpiredTfaCodes
      PROVE  AccountInv'
    <2>1. codes' = [i \in Ids |-> [p \in Purposes |-> IF codes[i][p].age = "late" THEN NoCode ELSE codes[i][p]]]
        BY <1>2 DEF CleanupExpiredTfaCodes
    <2>5. codes' \in [Ids -> [Purposes -> Code]]
        BY <2>1, CodesOf, Blank
    <2>6. \A j \in Ids, q \in Purposes : codes'[j][q] = IF codes[j][q].age = "late" THEN NoCode ELSE codes[j][q]
        BY <2>1
    <2>7. \A j \in Ids, q \in Purposes : codes'[j][q].n # 0 => codes'[j][q].n = codes[j][q].n
        BY <2>6, Blank
    <2>8. \A j \in Ids, q \in Purposes : accounts[j].state # "here" => codes'[j][q] = NoCode
        BY <2>6 DEF CodeInv, Here
    <2>9. UNCHANGED <<offers, accounts, sent, page, job, signed, registration_open, served, crossed>>
        BY <1>2 DEF CleanupExpiredTfaCodes
    <2>10. QED
        BY <2>5, <2>7, <2>8, <2>9, CodesFade
<1>3. QED
    BY <1>1, <1>2

LEMMA GrowsOldKeeps ==
    ASSUME AccountInv, NEW i \in Ids, GrowsOld(i)
    PROVE  AccountInv'
<1> USE DEF AccountInv
<1> DEFINE row == [accounts[i] EXCEPT !.old = TRUE]
<1>1. accounts' = [accounts EXCEPT ![i] = row]
    BY DEF AccountTypes, GrowsOld
<1>2. UNCHANGED <<offers, codes, sent, page, job, signed, registration_open, served, crossed>>
    BY DEF GrowsOld
<1>4. row \in Account
    BY CodesOf, AccountChanges
<1>5. row.state = accounts[i].state /\ row.email = accounts[i].email /\ row.devices = accounts[i].devices
      /\ row.cap = accounts[i].cap
    BY CodesOf DEF Account
<1> HIDE DEF row
<1>8. AccountTypes' /\ JobInv' /\ AddressInv' /\ CodeInv' /\ HoldInv' /\ UseInv' /\ ProofInv'
    <2>1. /\ job' \in [Devices -> Job] /\ \A e \in Devices : Same(e)
          /\ signed' \in [Devices -> Token] /\ page' \in [Devices -> Page]
        BY <1>2 DEF AccountTypes, Same
    <2>2. QED
        BY <2>1, <1>1, <1>2, <1>4, <1>5, RowKeeps
<1>9. CapInv'
    <2>1. SameDevices
        BY <1>1, <1>5 DEF SameDevices, AccountTypes
    <2>2. QED
        BY <2>1, <1>2, CapKeeps
<1>10. PageInv'
    BY <1>2 DEF PageInv
<1>11. QED
    BY <1>8, <1>9, <1>10

\* Accounts are deleted, with their codes.
LEMMA DeletionKeeps ==
    ASSUME AccountInv, NEW D \in SUBSET Ids,
           \A i \in Ids : accounts'[i] = IF i \in D THEN Gone(i) ELSE accounts[i],
           \A i \in Ids, p \in Purposes : codes'[i][p] = IF i \in D THEN NoCode ELSE codes[i][p],
           accounts' \in [Ids -> Account], codes' \in [Ids -> [Purposes -> Code]],
           UNCHANGED <<offers, sent, page, job, signed, registration_open, served, crossed>>
    PROVE  AccountInv'
<1> USE DEF AccountInv
<1>1. AccountTypes'
    BY DEF AccountTypes
<1>2. \A i \in Ids : i \in D => accounts'[i].state # "here"
    BY GoneIs
<1>3. Calm
    BY <1>2, Blank DEF Calm, Same, CodeInv, Here
<1>4. CapInv'
    BY <1>2, CapKeeps DEF SameDevices
<1>5. PageInv'
    BY DEF PageInv
<1>6. QED
    BY <1>1, <1>3, <1>4, <1>5, CalmKeeps

LEMMA StaleKeeps ==
    ASSUME AccountInv, CleanupStaleUnverifiedAccounts
    PROVE  AccountInv'
<1>1. Stale \in SUBSET Ids
    BY DEF Stale
<1>2. /\ accounts' = [i \in Ids |-> IF i \in Stale THEN Gone(i) ELSE accounts[i]]
      /\ codes' = [i \in Ids |-> IF i \in Stale THEN [p \in Purposes |-> NoCode] ELSE codes[i]]
      /\ UNCHANGED <<offers, sent, page, job, signed, registration_open, served, crossed>>
    BY DEF CleanupStaleUnverifiedAccounts
<1>3. accounts' \in [Ids -> Account] /\ codes' \in [Ids -> [Purposes -> Code]]
    <2>1. \A i \in Ids : accounts[i] \in Account /\ Gone(i) \in Account /\ codes[i] \in [Purposes -> Code]
        BY GoneIs DEF AccountInv, AccountTypes
    <2>2. [p \in Purposes |-> NoCode] \in [Purposes -> Code]
        BY Blank
    <2>3. QED
        BY <2>1, <2>2, <1>2
<1>4. \A i \in Ids, p \in Purposes : codes'[i][p] = IF i \in Stale THEN NoCode ELSE codes[i][p]
    BY <1>2
<1>5. \A i \in Ids : accounts'[i] = IF i \in Stale THEN Gone(i) ELSE accounts[i]
    BY <1>2
<1>6. QED
    BY <1>1, <1>2, <1>3, <1>4, <1>5, DeletionKeeps

LEMMA AccountsKeep ==
    ASSUME AccountInv, (\E d \in Devices : AccountsStep(d)) \/ AccountsTasks
    PROVE  AccountInv'
<1>1. ASSUME NEW d \in Devices, AccountsStep(d)
      PROVE  AccountInv'
    <2>1. CASE \/ RegisterPage(d) \/ VerifyEmailPage(d) \/ LoginPage(d) \/ Verify2faPage(d)
               \/ ForgotPasswordPage(d) \/ ResetPasswordPage(d)
        BY <2>1, PagesAsk
    <2>2. CASE Register(d) \/ InsertUser(d) \/ InsertCode(d) \/ ResendPage(d)
        BY <2>2, RegisterKeeps, InsertUserKeeps, InsertCodeKeeps, ResendPageKeeps
    <2>r. CASE Login2faRequired(d) \/ RequestPasswordReset(d) \/ SendResetEmail(d)
        BY <2>r, Login2faKeeps, RequestResetKeeps, SendResetKeeps
    <2>w. CASE CountAttempt(d) \/ DeleteLocked(d)
        BY <2>w, RefusalsKeep
    <2>3. CASE VerifyEmailRead(d) \/ Verify2faRead(d) \/ VerifyResetCode(d)
        BY <2>3, ComparesKeep
    <2>4. CASE VerifyEmail(d) \/ Verify2faAndRegisterDevice(d) \/ ConsumeResetCode(d) \/ ConfirmPasswordReset(d)
        BY <2>4, VerifyEmailKeeps, Verify2faKeeps, ConsumeKeeps, ConfirmKeeps
    <2>5. CASE LoginRead(d) \/ Login(d) \/ SignOut(d) \/ Routes(d) \/ Fails(d)
        BY <2>5, LoginReads, LoginKeeps, SignOutKeeps, RoutesKeep, FailsKeep
    <2>6. CASE DeviceList(d)
        BY <2>6, RevokeDeviceKeeps, UpdateLimitKeeps, LogoutAllKeeps DEF DeviceList
    <2>7. QED
        BY <1>1, <2>1, <2>2, <2>r, <2>w, <2>3, <2>4, <2>5, <2>6 DEF AccountsStep
<1>2. CASE AccountsTasks
    BY <1>2, ResendKeeps, TimePasses, GrowsOldKeeps, StaleKeeps DEF AccountsTasks
<1>3. QED
    BY <1>1, <1>2

----------------------------------------------------------------------------
(* The acts of the administrators, on the accounts.                        *)

LEMMA AccountsSame ==
    ASSUME AccountInv, registration_open' \in BOOLEAN,
           UNCHANGED <<offers, accounts, codes, sent, page, job, signed, served, crossed>>
    PROVE  AccountInv'
<1> USE DEF AccountInv
<1>1. AccountTypes'
    BY DEF AccountTypes
<1>2. Calm
    BY DEF Calm, Same, CodeInv, Here
<1>3. CapInv'
    BY CapKeeps DEF SameDevices
<1>4. PageInv'
    BY DEF PageInv
<1>5. QED
    BY <1>1, <1>2, <1>3, <1>4, CalmKeeps

LEMMA RenameKeeps ==
    ASSUME AccountInv, NEW a, a.arg \in Addresses, NEW t \in Ids, Here(t), AdminUpdateUserEmail(a, t)
    PROVE  AccountInv'
<1> USE DEF AccountInv
<1> DEFINE row == [accounts[t] EXCEPT !.email = a.arg, !.refresh = {}]
           held == {job[d].n : d \in {e \in Devices : Doing(e, "verify", "read") /\ job[e].id = t}}
           mailed == {codes[t].verify.n} \ {0}
<1>1. /\ accounts' = [accounts EXCEPT ![t] = row] /\ At(a.arg) \subseteq {t}
      /\ crossed' = [twice |-> crossed.twice \cup held, renamed |-> crossed.renamed \cup held \cup mailed]
      /\ UNCHANGED <<offers, codes, sent, page, job, signed, registration_open, served>>
    BY DEF AdminUpdateUserEmail, Writes
<1>2. row \in Account
    BY CodesOf, AccountChanges
<1>3. row.state = "here" /\ row.email = a.arg /\ row.devices = accounts[t].devices /\ row.cap = accounts[t].cap
    BY CodesOf DEF Account, Here
<1>4. held \in SUBSET (1..MaxCode) /\ mailed \in SUBSET (1..MaxCode) /\ "verify" \in Purposes
    <2>1. \A d \in Devices : Doing(d, "verify", "read") => job[d].n \in 1..MaxCode
        <3>1. ASSUME NEW d \in Devices, Doing(d, "verify", "read")
              PROVE  job[d].n # 0 /\ job[d].n \in 0..MaxCode
            BY <3>1, CodesOf DEF Doing, JobInv, Job
        <3>2. QED
            BY SMT, <3>1, Bounds
    <2>2. "verify" \in Purposes
        BY DEF Purposes
    <2>3. codes[t].verify.n \in 0..MaxCode
        BY <2>2, CodesOf DEF Code
    <2>4. mailed \in SUBSET (1..MaxCode)
        BY SMT, <2>3, Bounds
    <2>5. QED
        BY <2>1, <2>2, <2>4
<1>5. \A d \in Devices : Doing(d, "verify", "read") /\ job[d].id = t => job[d].n \in held
    OBVIOUS
<1>6. codes[t].verify.n # 0 => codes[t].verify.n \in mailed
    OBVIOUS
<1> HIDE DEF row, held, mailed
<1>7. /\ crossed'.twice = crossed.twice \cup held /\ crossed'.renamed = crossed.renamed \cup held \cup mailed
      /\ crossed' \in [twice : SUBSET (1..MaxCode), renamed : SUBSET (1..MaxCode)]
    <2>1. crossed.twice \in SUBSET (1..MaxCode) /\ crossed.renamed \in SUBSET (1..MaxCode)
        BY DEF AccountTypes
    <2>2. crossed.twice \cup held \in SUBSET (1..MaxCode) /\ crossed.renamed \cup held \cup mailed \in SUBSET (1..MaxCode)
        BY <2>1, <1>4
    <2>3. QED
        BY <2>2, <1>1
<1>8. accounts'[t] = row /\ \A j \in Ids : j # t => accounts'[j] = accounts[j]
    BY <1>1 DEF AccountTypes
<1>9. AccountTypes'
    BY <1>1, <1>2, <1>7 DEF AccountTypes
<1>10. PageInv' /\ JobInv' /\ HoldInv'
    BY <1>1 DEF PageInv, JobInv, HoldInv
<1>11. CapInv'
    <2>1. SameDevices
        BY <1>3, <1>8 DEF SameDevices, Here
    <2>2. QED
        BY <2>1, <1>1, CapKeeps
<1>12. AddressInv'
    <2>1. ASSUME NEW i \in Ids, NEW j \in Ids, accounts'[i].state = "here", accounts'[j].state = "here",
                 accounts'[i].email = accounts'[j].email
          PROVE  i = j
        <3>1. CASE i # t /\ j # t
            BY <3>1, <2>1, <1>8 DEF AddressInv, Here
        <3>2. CASE i = t /\ j # t
            BY <3>2, <2>1, <1>1, <1>3, <1>8 DEF At
        <3>3. CASE i # t /\ j = t
            BY <3>3, <2>1, <1>1, <1>3, <1>8 DEF At
        <3>4. QED
            BY <3>1, <3>2, <3>3
    <2>2. QED
        BY <2>1 DEF AddressInv, Here
<1>13. CodeInv'
    <2>1. \A i \in Ids : accounts'[i].state # "here" => ~ Here(i)
        BY <1>3, <1>8 DEF Here
    <2>2. QED
        BY <2>1, <1>1 DEF CodeInv, Here
<1>14. UseInv'
    <2>1. \A n : Deleted(n)' = Deleted(n) /\ Holding(n)' = Holding(n) /\ (Spent(n)' <=> Spent(n))
        BY <1>1 DEF Deleted, Holding, Spent
    <2>2. ASSUME NEW n \in 1..MaxCode, n \notin crossed'.twice, NEW d \in Holding(n), job[d].op = "verify",
                 codes[job[d].id].verify.n = n
          PROVE  accounts'[job[d].id].email = job[d].email
        <3>1. n \notin crossed.twice /\ n \notin held
            BY <2>2, <1>7
        <3>2. d \in Devices /\ Doing(d, "verify", "read") /\ job[d].n = n /\ job[d].id \in Ids
            BY <2>2 DEF Holding, Doing, JobInv
        <3>3. accounts[job[d].id].email = job[d].email
            BY <2>2, <3>1 DEF UseInv
        <3>4. job[d].id # t
            BY <3>1, <3>2, <1>5
        <3>5. QED
            BY <3>2, <3>3, <3>4, <1>8
    <2>3. ASSUME NEW n \in 1..MaxCode, n \notin crossed'.twice
          PROVE  /\ \A d, e \in Devices : job[d].n = n /\ job[e].n = n /\ job[d].at \in {"read", "deleted"} /\ job[e].at \in {"read", "deleted"} => d = e
                 /\ served[n] <= 1 /\ (Deleted(n) # {} => served[n] = 0)
                 /\ Spent(n) => /\ \A i \in Ids, p \in Purposes : codes[i][p].n # n
                                /\ Holding(n) = {}
        <3>1. n \notin crossed.twice
            BY <2>3, <1>7
        <3>2. QED
            BY <3>1 DEF UseInv
    <2>4. \A n \in 1..MaxCode : served[n] # 0 => n <= Len(sent)
        BY DEF UseInv
    <2>5. QED
        BY <2>1, <2>2, <2>3, <2>4, <1>1 DEF UseInv
<1>15. ProofInv'
    <2>1. ASSUME NEW i \in Ids, codes[i].verify.n # 0
          PROVE  codes[i].verify.n \in crossed'.renamed \/ sent[codes[i].verify.n] = accounts'[i].email
        <3>1. CASE i = t
            BY <3>1, <2>1, <1>6, <1>7
        <3>2. CASE i # t
            BY <3>2, <2>1, <1>7, <1>8 DEF ProofInv
        <3>3. QED
            BY <3>1, <3>2
    <2>2. ASSUME NEW d \in Devices, Doing(d, "verify", "read")
          PROVE  job[d].n \in crossed'.renamed \/ sent[job[d].n] = job[d].email
        BY <2>2, <1>7 DEF ProofInv
    <2>3. QED
        BY <2>1, <2>2, <1>1 DEF ProofInv, Doing
<1>16. QED
    BY <1>9, <1>10, <1>11, <1>12, <1>13, <1>14, <1>15

\* The other acts change one account that is there, and not its address.
LEMMA WriteKeeps ==
    ASSUME AccountInv, NEW a, NEW t \in Ids, Here(t), NEW row \in Account, Writes(a, t, row),
           row.state = "here", row.email = accounts[t].email, row.devices = accounts[t].devices,
           row.cap = accounts[t].cap, signed' = signed \/ signed' = CutAll(t), UNCHANGED <<codes, crossed>>
    PROVE  AccountInv'
<1> USE DEF AccountInv
<1>1. /\ accounts' = [accounts EXCEPT ![t] = row]
      /\ UNCHANGED <<offers, codes, sent, page, job, registration_open, served, crossed>>
    BY DEF Writes
<1>2. signed' \in [Devices -> Token] /\ \A e \in Devices : signed'[e].id = signed[e].id
    BY CutIs DEF AccountTypes
<1>3. AccountTypes' /\ JobInv' /\ AddressInv' /\ CodeInv' /\ HoldInv' /\ UseInv' /\ ProofInv'
    <2>1. job' \in [Devices -> Job] /\ page' \in [Devices -> Page] /\ \A e \in Devices : Same(e)
        BY <1>1 DEF AccountTypes, Same
    <2>2. QED
        BY <2>1, <1>1, <1>2, RowKeeps DEF Here
<1>4. CapInv'
    <2>1. SameDevices
        BY <1>1 DEF SameDevices, AccountTypes, Here
    <2>2. QED
        BY <2>1, <1>1, CapKeeps
<1>5. PageInv'
    BY <1>1, <1>2 DEF PageInv
<1>6. QED
    BY <1>3, <1>4, <1>5

LEMMA DeleteKeeps ==
    ASSUME AccountInv, NEW a, NEW t \in Ids, DeleteUser(a, t)
    PROVE  AccountInv'
<1>1. /\ accounts' = [accounts EXCEPT ![t] = Gone(t)]
      /\ codes' = [codes EXCEPT ![t] = [p \in Purposes |-> NoCode]]
      /\ UNCHANGED <<offers, sent, page, job, signed, registration_open, served, crossed>>
    BY DEF DeleteUser, Writes
<1>2. accounts' \in [Ids -> Account] /\ codes' \in [Ids -> [Purposes -> Code]]
    BY <1>1, GoneIs, Blank DEF AccountInv, AccountTypes
<1>3. \A i \in Ids : accounts'[i] = IF i \in {t} THEN Gone(i) ELSE accounts[i]
    BY <1>1 DEF AccountInv, AccountTypes
<1>4. \A i \in Ids, p \in Purposes : codes'[i][p] = IF i \in {t} THEN NoCode ELSE codes[i][p]
    BY <1>1 DEF AccountInv, AccountTypes
<1>5. {t} \in SUBSET Ids
    OBVIOUS
<1>6. QED
    BY <1>1, <1>2, <1>3, <1>4, <1>5, DeletionKeeps

LEMMA HandleAccounts ==
    ASSUME AccountInv, ActInv, NEW a \in acts, Handle(a)
    PROVE  AccountInv'
<1>1. CASE ActFails(a)
    BY <1>1, AccountsSame DEF ActFails, accVars, AccountInv, AccountTypes
<1>2. ASSUME NEW t \in At(a.on), 
             \/ UpdateUserRole(a, t) \/ UpdateSuspended(a, t) \/ AdminUpdateUserEmail(a, t)
             \/ DeleteUser(a, t) \/ RevokeUserSessions(a, t) \/ UpdateExtensionEmailChange(a, t)
             \/ UpdateServerChoiceInSettings(a, t) \/ UpdateQuotas(a, t)
      PROVE  AccountInv'
    <2>1. t \in Ids /\ Here(t) /\ accounts[t] \in Account /\ accounts[t].state = "here"
        BY CodesOf DEF At, Here, AccountInv
    <2>2. a.arg \in Argument(a.op)
        BY DEF ActInv
    <2>3. CASE UpdateUserRole(a, t)
        <3> DEFINE row == [accounts[t] EXCEPT !.moderator = a.arg]
        <3>1. a.arg \in BOOLEAN
            BY <2>2, <2>3 DEF UpdateUserRole, Argument
        <3>2. row \in Account
            BY <2>1, <3>1, AccountChanges
        <3>3. row.state = "here" /\ row.email = accounts[t].email /\ row.devices = accounts[t].devices
              /\ row.cap = accounts[t].cap
            BY <2>1 DEF Account
        <3>4. Writes(a, t, row) /\ signed' = signed /\ UNCHANGED <<codes, crossed>>
            BY <2>3 DEF UpdateUserRole
        <3> HIDE DEF row
        <3>5. QED
            BY <2>1, <3>2, <3>3, <3>4, WriteKeeps
    <2>4. CASE UpdateSuspended(a, t)
        <3> DEFINE row == [accounts[t] EXCEPT !.suspended = a.arg, !.refresh = IF a.arg THEN {} ELSE accounts[t].refresh]
        <3>1. a.arg \in BOOLEAN /\ (IF a.arg THEN {} ELSE accounts[t].refresh) \in SUBSET Devices
            BY <2>1, <2>2, <2>4 DEF UpdateSuspended, Argument, Account
        <3>2. row \in Account
            BY <2>1, <3>1, AccountChanges
        <3>3. row.state = "here" /\ row.email = accounts[t].email /\ row.devices = accounts[t].devices
              /\ row.cap = accounts[t].cap
            BY <2>1 DEF Account
        <3>4. Writes(a, t, row) /\ signed' = signed /\ UNCHANGED <<codes, crossed>>
            BY <2>4 DEF UpdateSuspended
        <3> HIDE DEF row
        <3>5. QED
            BY <2>1, <3>2, <3>3, <3>4, WriteKeeps
    <2>5. CASE AdminUpdateUserEmail(a, t)
        <3>1. a.arg \in Addresses
            BY <2>2, <2>5 DEF AdminUpdateUserEmail, Argument
        <3>2. QED
            BY <2>1, <2>5, <3>1, RenameKeeps
    <2>6. CASE DeleteUser(a, t)
        BY <2>1, <2>6, DeleteKeeps
    <2>7. CASE RevokeUserSessions(a, t)
        <3> DEFINE row == [accounts[t] EXCEPT !.refresh = {}]
        <3>2. row \in Account
            BY <2>1, AccountChanges
        <3>3. row.state = "here" /\ row.email = accounts[t].email /\ row.devices = accounts[t].devices
              /\ row.cap = accounts[t].cap
            BY <2>1 DEF Account
        <3>4. Writes(a, t, row) /\ signed' = CutAll(t) /\ UNCHANGED <<codes, crossed>>
            BY <2>7 DEF RevokeUserSessions
        <3> HIDE DEF row
        <3>5. QED
            BY <2>1, <3>2, <3>3, <3>4, WriteKeeps
    <2>8. CASE UpdateExtensionEmailChange(a, t) \/ UpdateServerChoiceInSettings(a, t) \/ UpdateQuotas(a, t)
        <3>1. Writes(a, t, accounts[t]) /\ signed' = signed /\ UNCHANGED <<codes, crossed>>
            BY <2>8 DEF UpdateExtensionEmailChange, UpdateServerChoiceInSettings, UpdateQuotas
        <3>2. QED
            BY <2>1, <3>1, WriteKeeps
    <2>9. QED
        BY <1>2, <2>3, <2>4, <2>5, <2>6, <2>7, <2>8
<1>3. QED
    BY <1>1, <1>2 DEF Handle

LEMMA ConsoleAccounts ==
    ASSUME AccountInv, ActInv, Next
    PROVE  AccountInv'
<1>1. ASSUME NEW d \in Devices, ConsoleStep(d)
      PROVE  AccountInv'
    <2>1. CASE HandleToggleRegistration(d)
        <3>1. registration_open' \in BOOLEAN
            BY <2>1 DEF HandleToggleRegistration
        <3>2. UNCHANGED <<offers, accounts, codes, sent, page, job, signed, served, crossed>>
            BY <2>1 DEF HandleToggleRegistration
        <3>3. QED
            BY <3>1, <3>2, AccountsSame
    <2>2. CASE UNCHANGED accVars
        BY <2>2, AccountsSame DEF accVars, AccountInv, AccountTypes
    <2>3. UNCHANGED accVars \/ HandleToggleRegistration(d)
        BY <1>1 DEF ConsoleStep, OpenList, UsersSection, RenderUserActions, HandleToggleRole, HandleToggleSuspended,
            HandleChangeEmail, HandleDelete, HandleRevokeSessions, HandleToggleExtensionEmailChange,
            HandleToggleServerChoiceInSettings, HandleEditQuotas, Act, RenderBulkFlagRow, ReadGlobals,
            ServerChoiceAtLoginSection, HandleShowIpHistory, HandleToggleHealth, RenderHealthPanel, BugReportModal,
            FeatureSuggestionModal, Noted, OpenDesk, BugReportsSection, FeatureSuggestionsSection, Treat
    <2>4. QED
        BY <2>1, <2>2, <2>3
<1>2. CASE (\E a \in acts : Authorize(a)) \/ (\E r \in reads : ListUsers(r) \/ Load(r))
           \/ \E q \in asks : GetUserIpHistory(q)
    <2>1. UNCHANGED accVars
        BY <1>2 DEF Authorize, ListUsers, Load, GetUserIpHistory
    <2>2. QED
        BY <2>1, AccountsSame DEF accVars, AccountInv, AccountTypes
<1>3. QED
    BY <1>1, <1>2, AccountsKeep, HandleAccounts DEF Next

----------------------------------------------------------------------------
(* The page of the administrators.                                         *)

ListState == [rows : SUBSET Line, loading : BOOLEAN, busy : Name]

LEMMA ListChanges ==
    ASSUME NEW l \in ListState
    PROVE  /\ \A b \in BOOLEAN : [l EXCEPT !.loading = b] \in ListState
           /\ \A n \in Name : [l EXCEPT !.busy = n] \in ListState
           /\ \A b \in BOOLEAN, n \in Name : [l EXCEPT !.loading = b, !.busy = n] \in ListState
           /\ \A b \in BOOLEAN, S \in SUBSET Line : [l EXCEPT !.rows = S, !.loading = b] \in ListState
<1>1. ASSUME NEW k \in ListState, NEW b \in BOOLEAN PROVE [k EXCEPT !.loading = b] \in ListState
    BY DEF ListState
<1>2. ASSUME NEW k \in ListState, NEW n \in Name PROVE [k EXCEPT !.busy = n] \in ListState
    BY DEF ListState
<1>3. ASSUME NEW k \in ListState, NEW S \in SUBSET Line PROVE [k EXCEPT !.rows = S] \in ListState
    BY DEF ListState
<1>4. ASSUME NEW b \in BOOLEAN, NEW n \in Name PROVE [l EXCEPT !.loading = b, !.busy = n] \in ListState
    <2>1. [l EXCEPT !.loading = b, !.busy = n] = [[l EXCEPT !.loading = b] EXCEPT !.busy = n]
        BY DEF ListState
    <2>2. QED
        BY <2>1, <1>1, <1>2
<1>5. ASSUME NEW b \in BOOLEAN, NEW S \in SUBSET Line PROVE [l EXCEPT !.rows = S, !.loading = b] \in ListState
    <2>1. [l EXCEPT !.rows = S, !.loading = b] = [[l EXCEPT !.rows = S] EXCEPT !.loading = b]
        BY DEF ListState
    <2>2. QED
        BY <2>1, <1>1, <1>3
<1>6. QED
    BY <1>1, <1>2, <1>4, <1>5

\* The types of what a step may change, one by one.
ReadsTyped(R) == \A r \in R : r.d \in Devices /\ r.rows \subseteq Line
                              /\ r = [d |-> r.d, after |-> r.after, rows |-> r.rows, at |-> r.at]
ActTyped(a) ==
    /\ a = [d |-> a.d, op |-> a.op, on |-> a.on, arg |-> a.arg, at |-> a.at, admin |-> a.admin, seen |-> a.seen]
    /\ a.d \in Devices /\ a.op \in Acts /\ a.on \in Addresses /\ a.arg \in Argument(a.op)
    /\ a.at \in {"sent", "allowed"} /\ a.admin \in BOOLEAN /\ a.seen \in BOOLEAN
Allowed(a) == a.at = "allowed" /\ a.op \notin {"role", "quota"} => a.on # AdminAddress /\ (a.seen => a.admin)

LEMMA Parts ==
    /\ ConsoleTypes <=>
        /\ settings \in [Ids -> Set] /\ list \in [Devices -> ListState] /\ ReadsTyped(reads)
        /\ panel \in [Devices -> [who : Name, shown : Name]]
        /\ (\A q \in asks : q.d \in Devices /\ q.about \in Addresses)
        /\ health \in [Devices -> {"closed", "loading", "open"}] /\ choice_at_login \in BOOLEAN
        /\ seen \in [Devices -> [Globals -> SUBSET BOOLEAN]]
        /\ notes \subseteq Notes /\ desk \in [Devices -> SUBSET Notes] /\ told \in [Notes -> 0..1]
        /\ (\A n \in notes : told[n] = 0)
        /\ spent \in 0..MaxActs
    /\ (ActInv /\ AllowedInv) <=> \A a \in acts : ActTyped(a) /\ Allowed(a)
<1>1. ConsoleTypes <=>
        /\ settings \in [Ids -> Set] /\ list \in [Devices -> ListState] /\ ReadsTyped(reads)
        /\ panel \in [Devices -> [who : Name, shown : Name]]
        /\ (\A q \in asks : q.d \in Devices /\ q.about \in Addresses)
        /\ health \in [Devices -> {"closed", "loading", "open"}] /\ choice_at_login \in BOOLEAN
        /\ seen \in [Devices -> [Globals -> SUBSET BOOLEAN]]
        /\ notes \subseteq Notes /\ desk \in [Devices -> SUBSET Notes] /\ told \in [Notes -> 0..1]
        /\ (\A n \in notes : told[n] = 0)
        /\ spent \in 0..MaxActs
    BY DEF ConsoleTypes, ListState, ReadsTyped
<1>2. (ActInv /\ AllowedInv) <=> \A a \in acts : ActTyped(a) /\ Allowed(a)
    BY DEF ActInv, AllowedInv, ActTyped, Allowed
<1>3. QED
    BY <1>1, <1>2

LEMMA NewReadIs ==
    ASSUME NEW d \in Devices, NEW x
    PROVE  ReadsTyped({NewRead(d, x)})
<1>1. NewRead(d, x).d = d /\ NewRead(d, x).rows = {}
      /\ NewRead(d, x) = [d |-> NewRead(d, x).d, after |-> NewRead(d, x).after, rows |-> NewRead(d, x).rows,
                          at |-> NewRead(d, x).at]
    BY DEF NewRead
<1>2. QED
    BY <1>1 DEF ReadsTyped

LEMMA RowsAre ==
    ASSUME AccountInv, settings \in [Ids -> Set]
    PROVE  Rows \subseteq Line
<1>1. ASSUME NEW i \in Ids PROVE Row(i) \in Line
    BY CodesOf DEF Row, Line, Account, AccountInv
<1>2. QED
    BY <1>1 DEF Rows

----------------------------------------------------------------------------
(* Each group of variables, changed while the others stay.                 *)

LEMMA ListKeeps ==
    ASSUME ConsoleInv, settings' \in [Ids -> Set], list' \in [Devices -> ListState], ReadsTyped(reads'),
           \A a \in acts' : ActTyped(a) /\ Allowed(a), spent' \in 0..MaxActs,
           UNCHANGED <<serverVars, notes, desk, told>>
    PROVE  ConsoleInv'
<1>1. ConsoleTypes'
    BY DEF ConsoleInv, ConsoleTypes, ListState, ReadsTyped, serverVars
<1>2. ActInv' /\ AllowedInv'
    BY DEF ActInv, AllowedInv, ActTyped, Allowed
<1>3. QED
    BY <1>1, <1>2 DEF ConsoleInv

LEMMA ServerKeeps ==
    ASSUME ConsoleInv, panel' \in [Devices -> [who : Name, shown : Name]],
           \A q \in asks' : q.d \in Devices /\ q.about \in Addresses,
           health' \in [Devices -> {"closed", "loading", "open"}], choice_at_login' \in BOOLEAN,
           seen' \in [Devices -> [Globals -> SUBSET BOOLEAN]], spent' \in 0..MaxActs,
           UNCHANGED <<settings, list, acts, reads, notes, desk, told>>
    PROVE  ConsoleInv'
<1>1. ConsoleTypes'
    BY DEF ConsoleInv, ConsoleTypes
<1>2. ActInv' /\ AllowedInv'
    BY DEF ConsoleInv, ActInv, AllowedInv
<1>3. QED
    BY <1>1, <1>2 DEF ConsoleInv

LEMMA NotesKeep ==
    ASSUME ConsoleInv, notes' \subseteq Notes, desk' \in [Devices -> SUBSET Notes], told' \in [Notes -> 0..1],
           \A n \in notes' : told'[n] = 0, UNCHANGED <<settings, list, acts, reads, serverVars, spent>>
    PROVE  ConsoleInv'
<1>1. ConsoleTypes'
    BY DEF ConsoleInv, ConsoleTypes, serverVars
<1>2. ActInv' /\ AllowedInv'
    BY DEF ConsoleInv, ActInv, AllowedInv
<1>3. QED
    BY <1>1, <1>2 DEF ConsoleInv

\* One act more of a behaviour that has room for it.
LEMMA SpendIs ==
    ASSUME ConsoleTypes, spent < MaxActs, spent' = spent + 1
    PROVE  spent' \in 0..MaxActs
PROOF BY SMT, ConsoleAssumption DEF ConsoleAssumption, ConsoleTypes

LEMMA ReadsGrow ==
    ASSUME ReadsTyped(reads), NEW d \in Devices, NEW x
    PROVE  ReadsTyped(reads \cup {NewRead(d, x)})
PROOF BY NewReadIs DEF ReadsTyped

LEMMA NameIs == NoName \in Name /\ \A a \in Addresses : a \in Name
PROOF BY DEF Name

----------------------------------------------------------------------------
(* The steps of the page.                                                  *)

LEMMA OpenListKeeps ==
    ASSUME ConsoleInv, NEW d \in Devices, OpenList(d)
    PROVE  ConsoleInv'
<1> USE DEF ConsoleInv
<1>1. list' \in [Devices -> ListState]
    <2>1. list \in [Devices -> ListState] /\ list[d] \in ListState
        BY Parts
    <2>2. [list[d] EXCEPT !.loading = TRUE] \in ListState
        BY <2>1, ListChanges
    <2>3. list' = [list EXCEPT ![d] = [list[d] EXCEPT !.loading = TRUE]]
        BY DEF OpenList
    <2>4. QED
        BY <2>1, <2>2, <2>3
<1>2. ReadsTyped(reads')
    BY Parts, ReadsGrow DEF OpenList
<1>3. settings' \in [Ids -> Set] /\ spent' \in 0..MaxActs /\ \A a \in acts' : ActTyped(a) /\ Allowed(a)
    BY Parts DEF OpenList
<1>4. UNCHANGED <<serverVars, notes, desk, told>>
    BY DEF OpenList
<1>5. QED
    BY <1>1, <1>2, <1>3, <1>4, ListKeeps

LEMMA ActKeeps ==
    ASSUME ConsoleInv, NEW d \in Devices, NEW row \in Line, NEW op \in Acts, NEW arg \in Argument(op),
           Act(d, row, op, arg)
    PROVE  ConsoleInv'
<1> USE DEF ConsoleInv
<1> DEFINE asked == [d |-> d, op |-> op, on |-> row.email, arg |-> arg, at |-> "sent", admin |-> FALSE, seen |-> FALSE]
<1>1. row.email \in Addresses /\ row.email \in Name
    BY DEF Line, Name
<1>2. ActTyped(asked) /\ Allowed(asked)
    BY <1>1 DEF ActTyped, Allowed
<1>3. list' \in [Devices -> ListState]
    <2>1. list \in [Devices -> ListState] /\ list[d] \in ListState
        BY Parts
    <2>2. [list[d] EXCEPT !.busy = row.email] \in ListState
        BY <2>1, <1>1, ListChanges
    <2>3. list' = [list EXCEPT ![d] = [list[d] EXCEPT !.busy = row.email]]
        BY DEF Act
    <2>4. QED
        BY <2>1, <2>2, <2>3
<1>4. acts' = acts \cup {asked}
    BY DEF Act
<1> HIDE DEF asked
<1>5. \A a \in acts' : ActTyped(a) /\ Allowed(a)
    BY <1>2, <1>4, Parts
<1>6. spent' \in 0..MaxActs
    BY SpendIs DEF Act
<1>7. settings' \in [Ids -> Set] /\ ReadsTyped(reads') /\ UNCHANGED <<serverVars, notes, desk, told>>
    BY Parts DEF Act
<1>8. QED
    BY <1>3, <1>5, <1>6, <1>7, ListKeeps

LEMMA UsersKeep ==
    ASSUME ConsoleInv, NEW d \in Devices, UsersSection(d)
    PROVE  ConsoleInv'
<1>1. PICK row \in list[d].rows : RenderUserActions(d, row)
    BY DEF UsersSection
<1>2. row \in Line /\ row.moderator \in BOOLEAN /\ row.suspended \in BOOLEAN
    <2>1. list[d] \in ListState
        BY Parts DEF ConsoleInv
    <2>2. row \in Line
        BY <1>1, <2>1 DEF ListState
    <2>3. QED
        BY <2>2 DEF Line
<1>3. CASE HandleToggleRole(d, row)
    BY <1>2, <1>3, ActKeeps DEF HandleToggleRole, Acts, Argument
<1>4. CASE HandleToggleSuspended(d, row)
    BY <1>2, <1>4, ActKeeps DEF HandleToggleSuspended, Acts, Argument
<1>5. CASE HandleChangeEmail(d, row)
    BY <1>2, <1>5, ActKeeps DEF HandleChangeEmail, Acts, Argument
<1>6. CASE HandleDelete(d, row) \/ HandleRevokeSessions(d, row)
    <2>1. "delete" \in Acts /\ "revoke" \in Acts /\ TRUE \in Argument("delete") /\ TRUE \in Argument("revoke")
        BY DEF Acts, Argument
    <2>2. Act(d, row, "delete", TRUE) \/ Act(d, row, "revoke", TRUE)
        BY <1>6 DEF HandleDelete, HandleRevokeSessions
    <2>3. QED
        BY <1>2, <2>1, <2>2, ActKeeps
<1>7. CASE HandleToggleExtensionEmailChange(d, row) \/ HandleToggleServerChoiceInSettings(d, row)
    <2>1. PICK g \in {"email", "server"} : Act(d, row, "grant", [name |-> g, on |-> g \notin row.settings.grants])
        BY <1>7 DEF HandleToggleExtensionEmailChange, HandleToggleServerChoiceInSettings
    <2>2. [name |-> g, on |-> g \notin row.settings.grants] \in Argument("grant") /\ "grant" \in Acts
        BY DEF Acts, Argument
    <2>3. QED
        BY <1>2, <2>1, <2>2, ActKeeps
<1>8. CASE HandleEditQuotas(d, row)
    BY <1>2, <1>8, ActKeeps DEF HandleEditQuotas, Acts, Argument
<1>9. QED
    BY <1>1, <1>3, <1>4, <1>5, <1>6, <1>7, <1>8 DEF RenderUserActions

LEMMA BulkKeeps ==
    ASSUME ConsoleInv, NEW d \in Devices, NEW g \in {"email", "server"}, RenderBulkFlagRow(d, g)
    PROVE  ConsoleInv'
<1> USE DEF ConsoleInv
<1>1. settings' \in [Ids -> Set]
    <2>1. PICK on \in BOOLEAN : settings' = [i \in Ids |-> IF ~ Here(i) THEN settings[i] ELSE
                [settings[i] EXCEPT !.grants = IF on THEN @ \cup {g} ELSE @ \ {g}]]
        BY DEF RenderBulkFlagRow
    <2>2. ASSUME NEW s \in Set, NEW G \in SUBSET {"email", "server"} PROVE [s EXCEPT !.grants = G] \in Set
        BY DEF Set
    <2>3. ASSUME NEW i \in Ids
          PROVE  settings[i] \in Set /\ [settings[i] EXCEPT !.grants = IF on THEN @ \cup {g} ELSE @ \ {g}] \in Set
        <3>1. settings[i] \in Set
            BY Parts
        <3>2. (IF on THEN settings[i].grants \cup {g} ELSE settings[i].grants \ {g}) \in SUBSET {"email", "server"}
            BY <3>1 DEF Set
        <3>3. QED
            BY <2>2, <3>1, <3>2
    <2>4. QED
        BY <2>1, <2>3
<1>2. list' \in [Devices -> ListState]
    <2>1. list \in [Devices -> ListState] /\ list[d] \in ListState
        BY Parts
    <2>2. [list[d] EXCEPT !.loading = TRUE] \in ListState
        BY <2>1, ListChanges
    <2>3. list' = [list EXCEPT ![d] = [list[d] EXCEPT !.loading = TRUE]]
        BY DEF RenderBulkFlagRow
    <2>4. QED
        BY <2>1, <2>2, <2>3
<1>3. ReadsTyped(reads')
    BY Parts, ReadsGrow DEF RenderBulkFlagRow
<1>4. spent' \in 0..MaxActs
    BY SpendIs DEF RenderBulkFlagRow, ChangesServer
<1>5. (\A a \in acts' : ActTyped(a) /\ Allowed(a)) /\ UNCHANGED <<serverVars, notes, desk, told>>
    BY Parts DEF RenderBulkFlagRow
<1>6. QED
    BY <1>1, <1>2, <1>3, <1>4, <1>5, ListKeeps

LEMMA ReadGlobalsKeeps ==
    ASSUME AccountInv, ConsoleInv, NEW d \in Devices, ReadGlobals(d)
    PROVE  ConsoleInv'
<1>1. seen' \in [Devices -> [Globals -> SUBSET BOOLEAN]]
    <2>1. registration_open \in BOOLEAN /\ choice_at_login \in BOOLEAN
        BY Parts DEF AccountInv, AccountTypes, ConsoleInv
    <2>2. [g \in Globals |-> IF g = "registration" THEN {registration_open} ELSE {choice_at_login}]
              \in [Globals -> SUBSET BOOLEAN]
        BY <2>1
    <2>3. seen \in [Devices -> [Globals -> SUBSET BOOLEAN]]
        BY Parts DEF ConsoleInv
    <2>4. seen' = [seen EXCEPT ![d] = [g \in Globals |-> IF g = "registration" THEN {registration_open}
                                                         ELSE {choice_at_login}]]
        BY DEF ReadGlobals, Globals
    <2>5. QED
        BY <2>2, <2>3, <2>4
<1>2. UNCHANGED <<settings, list, acts, reads, panel, asks, health, choice_at_login, notes, desk, told, spent>>
    BY DEF ReadGlobals
<1>3. QED
    BY <1>1, <1>2, Parts, ServerKeeps DEF ConsoleInv

LEMMA GlobalsKeep ==
    ASSUME ConsoleInv, NEW d \in Devices, HandleToggleRegistration(d) \/ ServerChoiceAtLoginSection(d)
    PROVE  ConsoleInv'
<1> USE DEF ConsoleInv
<1>1. PICK g \in Globals, b \in BOOLEAN : seen' = [seen EXCEPT ![d][g] = {b}]
    BY DEF HandleToggleRegistration, ServerChoiceAtLoginSection, Globals
<1>2. seen' \in [Devices -> [Globals -> SUBSET BOOLEAN]]
    BY <1>1, Parts
<1>3. choice_at_login' \in BOOLEAN
    BY Parts DEF HandleToggleRegistration, ServerChoiceAtLoginSection
<1>4. spent' \in 0..MaxActs
    BY SpendIs DEF HandleToggleRegistration, ServerChoiceAtLoginSection, ChangesServer
<1>5. UNCHANGED <<settings, list, acts, reads, panel, asks, health, notes, desk, told>>
    BY DEF HandleToggleRegistration, ServerChoiceAtLoginSection
<1>6. QED
    BY <1>2, <1>3, <1>4, <1>5, Parts, ServerKeeps

LEMMA PanelKeeps ==
    ASSUME ConsoleInv, NEW d \in Devices, HandleShowIpHistory(d)
    PROVE  ConsoleInv'
<1> USE DEF ConsoleInv
<1>1. PICK row \in list[d].rows :
          \/ panel' = [panel EXCEPT ![d] = NoPanel] /\ asks' = asks
          \/ /\ panel' = [panel EXCEPT ![d] = [who |-> row.email, shown |-> NoName]]
             /\ asks' = asks \cup {[d |-> d, about |-> row.email]}
    BY DEF HandleShowIpHistory
<1>2. row.email \in Addresses
    <2>1. list[d] \in ListState
        BY Parts
    <2>2. row \in Line
        BY <2>1 DEF ListState
    <2>3. QED
        BY <2>2 DEF Line
<1>3. [who |-> row.email, shown |-> NoName] \in [who : Name, shown : Name] /\ NoPanel \in [who : Name, shown : Name]
    BY <1>2, NameIs DEF NoPanel
<1>4. panel' \in [Devices -> [who : Name, shown : Name]]
    BY <1>1, <1>3, Parts
<1>5. \A q \in asks' : q.d \in Devices /\ q.about \in Addresses
    BY <1>1, <1>2, Parts
<1>6. spent' \in 0..MaxActs
    BY SpendIs DEF HandleShowIpHistory
<1>7. UNCHANGED <<settings, list, acts, reads, health, choice_at_login, seen, notes, desk, told>>
    BY DEF HandleShowIpHistory
<1>8. QED
    BY <1>4, <1>5, <1>6, <1>7, Parts, ServerKeeps

LEMMA HistoryKeeps ==
    ASSUME ConsoleInv, NEW q \in asks, GetUserIpHistory(q)
    PROVE  ConsoleInv'
<1> USE DEF ConsoleInv
<1>1. q.d \in Devices /\ q.about \in Name
    BY Parts, NameIs
<1>2. panel' \in [Devices -> [who : Name, shown : Name]]
    <2>1. ASSUME NEW p \in [who : Name, shown : Name], NEW x \in Name
          PROVE  [p EXCEPT !.shown = x] \in [who : Name, shown : Name]
                 /\ [p EXCEPT !.who = x] \in [who : Name, shown : Name]
        OBVIOUS
    <2>2. PICK x \in Name : panel' = [panel EXCEPT ![q.d] = [panel[q.d] EXCEPT !.shown = x]]
                            \/ panel' = [panel EXCEPT ![q.d] = [panel[q.d] EXCEPT !.who = x]]
        BY <1>1, NameIs DEF GetUserIpHistory
    <2>3. panel \in [Devices -> [who : Name, shown : Name]]
        BY Parts
    <2>4. QED
        BY <1>1, <2>1, <2>2, <2>3
<1>3. \A r \in asks' : r.d \in Devices /\ r.about \in Addresses
    BY Parts DEF GetUserIpHistory
<1>4. UNCHANGED <<settings, list, acts, reads, health, choice_at_login, seen, notes, desk, told, spent>>
    BY DEF GetUserIpHistory
<1>5. QED
    BY <1>2, <1>3, <1>4, Parts, ServerKeeps

LEMMA HealthKeeps ==
    ASSUME ConsoleInv, NEW d \in Devices, HandleToggleHealth(d) \/ RenderHealthPanel(d)
    PROVE  ConsoleInv'
<1> USE DEF ConsoleInv
<1>1. health' \in [Devices -> {"closed", "loading", "open"}]
    BY Parts DEF HandleToggleHealth, RenderHealthPanel
<1>2. spent' \in 0..MaxActs
    BY SpendIs, Parts DEF HandleToggleHealth, RenderHealthPanel
<1>3. UNCHANGED <<settings, list, acts, reads, panel, asks, choice_at_login, seen, notes, desk, told>>
    BY DEF HandleToggleHealth, RenderHealthPanel
<1>4. QED
    BY <1>1, <1>2, <1>3, Parts, ServerKeeps

LEMMA NotedKeeps ==
    ASSUME ConsoleInv, NEW d \in Devices, NEW n \in Notes, Noted(d, n)
    PROVE  ConsoleInv'
<1> USE DEF ConsoleInv
<1>1. notes' \subseteq Notes /\ \A m \in notes' : told'[m] = 0
    BY Parts DEF Noted
<1>2. UNCHANGED <<settings, list, acts, reads, serverVars, spent, desk, told>>
    BY DEF Noted
<1>3. QED
    BY <1>1, <1>2, Parts, NotesKeep

LEMMA DeskKeeps ==
    ASSUME ConsoleInv, NEW d \in Devices, OpenDesk(d)
    PROVE  ConsoleInv'
<1> USE DEF ConsoleInv
<1>1. desk' \in [Devices -> SUBSET Notes]
    BY Parts DEF OpenDesk
<1>2. UNCHANGED <<settings, list, acts, reads, serverVars, spent, notes, told>>
    BY DEF OpenDesk
<1>3. QED
    BY <1>1, <1>2, Parts, NotesKeep

LEMMA TreatKeeps ==
    ASSUME ConsoleInv, NEW d \in Devices, NEW n \in Notes, NEW failed \in [Devices -> SUBSET Notes],
           Treat(d, n, failed)
    PROVE  ConsoleInv'
<1> USE DEF ConsoleInv
<1>1. /\ notes \subseteq Notes /\ desk \in [Devices -> SUBSET Notes] /\ told \in [Notes -> 0..1]
      /\ \A m \in notes : told[m] = 0
    BY Parts
<1>2. notes' \subseteq Notes /\ n \notin notes' /\ notes' \subseteq notes
    BY <1>1 DEF Treat
<1>3. desk' \in [Devices -> SUBSET Notes]
    BY <1>1 DEF Treat
<1>4. told' \in [Notes -> 0..1] /\ \A m \in Notes : m # n => told'[m] = told[m]
    BY SMT, <1>1 DEF Treat
<1>5. \A m \in notes' : told'[m] = 0
    BY <1>1, <1>2, <1>4
<1>6. UNCHANGED <<settings, list, acts, reads, serverVars, spent>>
    BY DEF Treat
<1>7. QED
    BY <1>2, <1>3, <1>4, <1>5, <1>6, NotesKeep

----------------------------------------------------------------------------
(* The handlers of the acts, and of the list.                              *)

LEMMA BusyClears ==
    ASSUME ConsoleTypes, NEW d \in Devices, NEW b \in BOOLEAN
    PROVE  /\ [list EXCEPT ![d].busy = NoName] \in [Devices -> ListState]
           /\ [list EXCEPT ![d].loading = b, ![d].busy = NoName] \in [Devices -> ListState]
<1>1. list \in [Devices -> ListState] /\ list[d] \in ListState
    BY Parts
<1>2. [list[d] EXCEPT !.busy = NoName] \in ListState /\ [list[d] EXCEPT !.loading = b, !.busy = NoName] \in ListState
    BY <1>1, ListChanges, NameIs
<1>3. [list EXCEPT ![d].busy = NoName] = [list EXCEPT ![d] = [list[d] EXCEPT !.busy = NoName]]
    BY <1>1
<1>4. [list EXCEPT ![d].loading = b, ![d].busy = NoName]
          = [list EXCEPT ![d] = [list[d] EXCEPT !.loading = b, !.busy = NoName]]
    BY <1>1
<1>5. QED
    BY <1>1, <1>2, <1>3, <1>4

\* The target of an address is one account at most: what the handler saw of it
\* is what it compared with the rank of its caller.
LEMMA AuthorizeKeeps ==
    ASSUME AccountInv, ConsoleInv, NEW a \in acts, Authorize(a)
    PROVE  ConsoleInv'
<1> USE DEF ConsoleInv
<1>1. ActTyped(a) /\ a.d \in Devices
    BY Parts DEF ActTyped
<1>2. list' \in [Devices -> ListState]
    <2>1. list' = list \/ list' = [list EXCEPT ![a.d].busy = NoName]
        BY DEF Authorize
    <2>2. list \in [Devices -> ListState] /\ [list EXCEPT ![a.d].busy = NoName] \in [Devices -> ListState]
        BY <1>1, Parts, BusyClears
    <2>3. QED
        BY <2>1, <2>2
<1>3. \A x \in acts' : ActTyped(x) /\ Allowed(x)
    <2>1. ASSUME NEW i \in Ids, May(i, a), NEW admin, NEW seenOne, admin = IsAdmin(i),
                 seenOne = (\E t \in At(a.on) : accounts[t].moderator), NEW x,
                 x = [d |-> a.d, op |-> a.op, on |-> a.on, arg |-> a.arg, at |-> "allowed", admin |-> admin,
                      seen |-> seenOne]
          PROVE  ActTyped(x) /\ Allowed(x)
        <3>1. admin \in BOOLEAN /\ seenOne \in BOOLEAN
            BY <2>1 DEF IsAdmin
        <3>2. ASSUME a.op \notin {"role", "quota"}, seenOne
              PROVE  a.on # AdminAddress /\ admin
            <4>1. a.on # AdminAddress /\ \E t \in At(a.on) : accounts[t].moderator => IsAdmin(i)
                BY <2>1, <3>2 DEF May, CheckCanActOnTarget
            <4>2. \A t, u \in At(a.on) : t = u
                BY DEF At, AccountInv, AddressInv, Here
            <4>3. QED
                BY <2>1, <3>2, <4>1, <4>2
        <3>3. a.op \notin {"role", "quota"} => a.on # AdminAddress
            BY <2>1 DEF May, CheckCanActOnTarget
        <3>4. QED
            BY <1>1, <2>1, <3>1, <3>2, <3>3 DEF ActTyped, Allowed
    <2>2. ASSUME NEW i \in Acting(a.d), May(i, a), NEW x,
                 x = [a EXCEPT !.at = "allowed", !.admin = IsAdmin(i), !.seen = \E t \in At(a.on) : accounts[t].moderator]
          PROVE  ActTyped(x) /\ Allowed(x)
        <3>1. i \in Ids
            BY DEF Acting
        <3>2. x = [d |-> a.d, op |-> a.op, on |-> a.on, arg |-> a.arg, at |-> "allowed", admin |-> IsAdmin(i),
                   seen |-> (\E t \in At(a.on) : accounts[t].moderator)]
            BY <2>2, <1>1 DEF ActTyped
        <3>3. QED
            BY <2>1, <2>2, <3>1, <3>2 DEF IsAdmin
    <2>3. \A x \in acts : ActTyped(x) /\ Allowed(x)
        BY Parts
    <2>4. QED
        BY <2>2, <2>3 DEF Authorize
<1>4. /\ settings' \in [Ids -> Set] /\ ReadsTyped(reads') /\ spent' \in 0..MaxActs
      /\ UNCHANGED <<serverVars, notes, desk, told>>
    BY Parts DEF Authorize
<1>5. QED
    BY <1>2, <1>3, <1>4, ListKeeps

LEMMA ReloadsIs ==
    ASSUME ConsoleInv, NEW a \in acts, Reloads(a)
    PROVE  list' \in [Devices -> ListState] /\ ReadsTyped(reads')
<1>1. a.d \in Devices
    BY DEF ConsoleInv, ActInv
<1>2. ReadsTyped(reads) /\ ReadsTyped(reads \cup {NewRead(a.d, a.on)})
    BY <1>1, Parts, ReadsGrow DEF ConsoleInv
<1>3. QED
    BY <1>1, <1>2, BusyClears DEF Reloads, ConsoleInv

LEMMA SettingsAre ==
    ASSUME AccountInv, ConsoleInv, NEW a \in acts, Handle(a)
    PROVE  settings' \in [Ids -> Set]
<1> USE DEF ConsoleInv
<1>1. settings \in [Ids -> Set] /\ a.arg \in Argument(a.op)
    BY Parts DEF ActInv
<1>2. NoSettings \in Set
    BY DEF NoSettings, Set
<1>3. ASSUME NEW s \in Set, NEW G \in SUBSET {"email", "server"}, NEW q \in {"none", "low"}
      PROVE  [s EXCEPT !.grants = G] \in Set /\ [s EXCEPT !.quota = q] \in Set
    BY DEF Set
<1>4. ASSUME NEW t \in At(a.on), UpdateExtensionEmailChange(a, t) \/ UpdateServerChoiceInSettings(a, t)
      PROVE  settings' \in [Ids -> Set]
    <2>1. t \in Ids /\ settings[t] \in Set
        BY <1>1 DEF At
    <2>2. settings[t].grants \in SUBSET {"email", "server"}
        BY <2>1 DEF Set
    <2>3. PICK G \in SUBSET {"email", "server"} : settings' = [settings EXCEPT ![t] = [settings[t] EXCEPT !.grants = G]]
        BY <1>4, <2>2 DEF UpdateExtensionEmailChange, UpdateServerChoiceInSettings
    <2>4. QED
        BY <1>1, <1>3, <2>1, <2>3
<1>5. ASSUME NEW t \in At(a.on), UpdateQuotas(a, t)
      PROVE  settings' \in [Ids -> Set]
    <2>1. t \in Ids /\ settings[t] \in Set /\ a.arg \in {"none", "low"}
        BY <1>1, <1>5 DEF At, UpdateQuotas, Argument
    <2>2. settings' = [settings EXCEPT ![t] = [settings[t] EXCEPT !.quota = a.arg]]
        BY <1>5 DEF UpdateQuotas
    <2>3. QED
        BY <1>1, <1>3, <2>1, <2>2
<1>6. ASSUME NEW t \in At(a.on), DeleteUser(a, t)
      PROVE  settings' \in [Ids -> Set]
    BY <1>6, <1>1, <1>2 DEF DeleteUser
<1>7. ASSUME UNCHANGED settings
      PROVE  settings' \in [Ids -> Set]
    BY <1>1, <1>7
<1>8. QED
    BY <1>4, <1>5, <1>6, <1>7 DEF Handle, ActFails, UpdateUserRole, UpdateSuspended, AdminUpdateUserEmail,
        RevokeUserSessions

LEMMA HandleKeeps ==
    ASSUME AccountInv, ConsoleInv, NEW a \in acts, Handle(a)
    PROVE  ConsoleInv'
<1>1. ActFails(a) \/ \E t, row : Writes(a, t, row)
    BY DEF Handle, UpdateUserRole, UpdateSuspended, AdminUpdateUserEmail, DeleteUser, RevokeUserSessions,
        UpdateExtensionEmailChange, UpdateServerChoiceInSettings, UpdateQuotas
<1>2. a.d \in Devices
    BY DEF ConsoleInv, ActInv
<1>3. acts' = acts \ {a} /\ UNCHANGED <<serverVars, notes, desk, told, spent>>
    BY <1>1 DEF ActFails, Writes
<1>4. list' \in [Devices -> ListState] /\ ReadsTyped(reads')
    <2>1. CASE ActFails(a)
        BY <2>1, <1>2, Parts, BusyClears DEF ActFails, ConsoleInv
    <2>2. CASE Reloads(a)
        BY <2>2, ReloadsIs
    <2>3. QED
        BY <1>1, <2>1, <2>2 DEF Writes
<1>5. (\A x \in acts' : ActTyped(x) /\ Allowed(x)) /\ spent' \in 0..MaxActs
    BY <1>3, Parts DEF ConsoleInv
<1>6. QED
    BY <1>3, <1>4, <1>5, SettingsAre, ListKeeps

LEMMA ReadsKeep ==
    ASSUME AccountInv, ConsoleInv, NEW r \in reads, ListUsers(r) \/ Load(r)
    PROVE  ConsoleInv'
<1> USE DEF ConsoleInv
<1>1. /\ r.d \in Devices /\ r.rows \subseteq Line /\ r = [d |-> r.d, after |-> r.after, rows |-> r.rows, at |-> r.at]
      /\ ReadsTyped(reads) /\ list \in [Devices -> ListState] /\ list[r.d] \in ListState
    BY Parts DEF ReadsTyped
<1>2. list' \in [Devices -> ListState]
    <2>1. ASSUME NEW l \in ListState, list' = [list EXCEPT ![r.d] = l]
          PROVE  list' \in [Devices -> ListState]
        BY <2>1, <1>1
    <2>2. [list[r.d] EXCEPT !.loading = FALSE] \in ListState
          /\ [list[r.d] EXCEPT !.rows = r.rows, !.loading = FALSE] \in ListState
        BY <1>1, ListChanges
    <2>3. \/ list' = list \/ list' = [list EXCEPT ![r.d] = [list[r.d] EXCEPT !.loading = FALSE]]
          \/ list' = [list EXCEPT ![r.d] = [list[r.d] EXCEPT !.rows = r.rows, !.loading = FALSE]]
        BY <1>1 DEF ListUsers, Load
    <2>4. QED
        BY <1>1, <2>1, <2>2, <2>3
<1>3. ReadsTyped(reads')
    <2>1. Rows \subseteq Line
        BY Parts, RowsAre
    <2>2. [r EXCEPT !.at = "served", !.rows = Rows] = [d |-> r.d, after |-> r.after, rows |-> Rows, at |-> "served"]
        <3>1. ASSUME NEW x, NEW R, x = [d |-> x.d, after |-> x.after, rows |-> x.rows, at |-> x.at]
              PROVE  [x EXCEPT !.rows = R] = [d |-> x.d, after |-> x.after, rows |-> R, at |-> x.at]
            BY <3>1
        <3>2. ASSUME NEW at PROVE [r EXCEPT !.at = at] = [d |-> r.d, after |-> r.after, rows |-> r.rows, at |-> at]
            BY <1>1
        <3>3. [r EXCEPT !.at = "served", !.rows = Rows] = [[r EXCEPT !.at = "served"] EXCEPT !.rows = Rows]
            BY <1>1
        <3>4. PICK mid : mid = [r EXCEPT !.at = "served"] /\ mid = [d |-> r.d, after |-> r.after, rows |-> r.rows, at |-> "served"]
            BY <3>2
        <3>5. mid.d = r.d /\ mid.after = r.after /\ mid.rows = r.rows /\ mid.at = "served"
            BY <3>4
        <3>6. mid = [d |-> mid.d, after |-> mid.after, rows |-> mid.rows, at |-> mid.at]
            BY <3>4, <3>5
        <3>7. [mid EXCEPT !.rows = Rows] = [d |-> mid.d, after |-> mid.after, rows |-> Rows, at |-> mid.at]
            BY <3>1, <3>6
        <3>8. QED
            BY <3>3, <3>4, <3>5, <3>7
    <2>3. ReadsTyped({[r EXCEPT !.at = "served", !.rows = Rows]})
        BY <1>1, <2>1, <2>2 DEF ReadsTyped
    <2>4. \A x \in reads' : x \in reads \/ x \in {[r EXCEPT !.at = "served", !.rows = Rows]}
        BY DEF ListUsers, Load
    <2>5. QED
        BY <1>1, <2>3, <2>4 DEF ReadsTyped
<1>4. /\ settings' \in [Ids -> Set] /\ spent' \in 0..MaxActs /\ UNCHANGED <<serverVars, notes, desk, told>>
      /\ \A x \in acts' : ActTyped(x) /\ Allowed(x)
    BY Parts DEF ListUsers, Load
<1>5. QED
    BY <1>2, <1>3, <1>4, ListKeeps

LEMMA ConsoleKeeps ==
    ASSUME AccountInv, ConsoleInv, Next
    PROVE  ConsoleInv'
<1>1. ASSUME NEW d \in Devices, ConsoleStep(d)
      PROVE  ConsoleInv'
    <2>1. CASE OpenList(d) \/ UsersSection(d) \/ \E g \in {"email", "server"} : RenderBulkFlagRow(d, g)
        BY <2>1, OpenListKeeps, UsersKeep, BulkKeeps
    <2>2. CASE ReadGlobals(d) \/ HandleToggleRegistration(d) \/ ServerChoiceAtLoginSection(d)
        BY <2>2, ReadGlobalsKeeps, GlobalsKeep
    <2>3. CASE HandleShowIpHistory(d) \/ HandleToggleHealth(d) \/ RenderHealthPanel(d)
        BY <2>3, PanelKeeps, HealthKeeps
    <2>4. CASE BugReportModal(d) \/ FeatureSuggestionModal(d) \/ OpenDesk(d)
        BY <2>4, NotedKeeps, DeskKeeps DEF BugReportModal, FeatureSuggestionModal, Notes
    <2>5. CASE BugReportsSection(d) \/ FeatureSuggestionsSection(d)
        <3>1. desk \in [Devices -> SUBSET Notes] /\ "bug" \in Notes /\ "suggestion" \in Notes
            BY Parts DEF ConsoleInv, Notes
        <3>2. [desk EXCEPT ![d] = @ \ {"bug"}] \in [Devices -> SUBSET Notes]
            BY <3>1
        <3>3. Treat(d, "bug", [desk EXCEPT ![d] = @ \ {"bug"}]) \/ Treat(d, "suggestion", desk)
            BY <2>5 DEF BugReportsSection, FeatureSuggestionsSection
        <3>4. QED
            BY <3>1, <3>2, <3>3, TreatKeeps
    <2>6. QED
        BY <1>1, <2>1, <2>2, <2>3, <2>4, <2>5 DEF ConsoleStep
<1>2. CASE UNCHANGED conVars
    BY <1>2 DEF conVars, serverVars, ConsoleInv, ConsoleTypes, ActInv, AllowedInv
<1>3. QED
    BY <1>1, <1>2, AuthorizeKeeps, HandleKeeps, ReadsKeep, HistoryKeeps DEF Next

----------------------------------------------------------------------------
(* The invariant holds.                                                    *)

LEMMA Begins ==
    ASSUME Init
    PROVE  AccountInv /\ ConsoleInv
<1> USE DEF Init
<1>1. \A d \in Devices : job[d] = NoJob
    BY DEF Starts
<1>2. AccountTypes
    <2>1. job \in [Devices -> Job] /\ served \in [1..MaxCode -> Nat]
          /\ crossed \in [twice : SUBSET (1..MaxCode), renamed : SUBSET (1..MaxCode)]
        BY Blank DEF Starts
    <2>2. QED
        BY <2>1 DEF Starts, AccountTypes, Page, Token
<1>3. PageInv /\ AddressInv /\ CodeInv
    BY <1>1, Blank DEF Starts, CodesMatch, PageInv, AddressInv, CodeInv
<1>4. JobInv /\ HoldInv /\ CapInv
    <2>1. Len(sent) \in Nat
        BY DEF Starts
    <2>2. JobInv
        BY <2>1, <1>1, Blank DEF JobInv
    <2>3. HoldInv /\ CapInv
        BY <1>1, Blank DEF HoldInv, CapInv, Doing
    <2>4. QED
        BY <2>2, <2>3
<1>5. UseInv
    <2>1. \A n \in 1..MaxCode : served[n] = 0 /\ Deleted(n) = {} /\ Holding(n) = {} /\ ~ Spent(n)
        BY <1>1, Blank DEF Starts, Deleted, Holding, Spent
    <2>2. QED
        BY <2>1, <1>1, Blank DEF UseInv
<1>6. ProofInv
    BY <1>1, Blank DEF Starts, CodesMatch, ProofInv, Doing
<1>7. ConsoleInv
    <2>1. NoSettings \in Set /\ NoList \in [rows : SUBSET Line, loading : BOOLEAN, busy : Name]
          /\ NoPanel \in [who : Name, shown : Name]
        BY NameIs DEF NoSettings, NoList, NoPanel, Set
    <2>2. seen \in [Devices -> [Globals -> SUBSET BOOLEAN]]
        BY DEF InitConsole
    <2>3. told \in [Notes -> 0..1]
        BY DEF InitConsole
    <2>4. QED
        BY <2>1, <2>2, <2>3 DEF InitConsole, ConsoleInv, ConsoleTypes, ActInv, AllowedInv
<1>8. QED
    BY <1>2, <1>3, <1>4, <1>5, <1>6, <1>7 DEF AccountInv

LEMMA StepKeeps ==
    ASSUME AccountInv, ConsoleInv, [Next]_vars
    PROVE  AccountInv' /\ ConsoleInv'
<1>1. CASE Next
    BY <1>1, ConsoleAccounts, ConsoleKeeps DEF ConsoleInv
<1>2. CASE UNCHANGED vars
    <2>1. UNCHANGED accVars /\ UNCHANGED conVars
        BY <1>2 DEF vars
    <2>2. AccountInv'
        BY <2>1, AccountsSame DEF accVars, AccountInv, AccountTypes
    <2>3. ConsoleInv'
        BY <2>1 DEF conVars, serverVars, ConsoleInv, ConsoleTypes, ActInv, AllowedInv
    <2>4. QED
        BY <2>2, <2>3
<1>3. QED
    BY <1>1, <1>2

LEMMA InvHolds == Spec => [](AccountInv /\ ConsoleInv)
<1>1. Init => AccountInv /\ ConsoleInv
    BY Begins
<1>2. AccountInv /\ ConsoleInv /\ [Next]_vars => (AccountInv /\ ConsoleInv)'
    BY StepKeeps
<1>3. QED
    BY <1>1, <1>2, PTL DEF Spec

\* The types, the accounts of distinct addresses, and what a deleted account leaves.
THEOREM TypesHold == Spec => []TypesOK
<1>1. AccountInv => TypeOK
    <2> SUFFICES ASSUME AccountInv PROVE TypeOK
        OBVIOUS
    <2>1. ASSUME NEW i \in Ids
          PROVE  /\ accounts[i].state \in {"none", "here", "gone"} /\ accounts[i].cap \in 1..MaxCap
                 /\ accounts[i].devices \cup accounts[i].refresh \subseteq Devices
                 /\ \A p \in Purposes : codes[i][p].n \in 0..Len(sent) /\ codes[i][p].tries \in Nat
                 /\ accounts[i].state = "here" =>
                     \A j \in Ids : accounts[j].state = "here" /\ accounts[j].email = accounts[i].email => j = i
                 /\ accounts[i].state # "here" => \A p \in Purposes : codes[i][p] = NoCode
        <3>1. accounts[i] \in Account /\ \A p \in Purposes : codes[i][p] \in Code
            BY CodesOf DEF AccountInv
        <3>2. \A p \in Purposes : codes[i][p].n \in 0..Len(sent)
            BY SMT, CodesOf DEF AccountInv, CodeInv
        <3>3. \A p \in Purposes : codes[i][p].tries \in Nat
            BY <3>1 DEF Code
        <3>4. QED
            BY <3>1, <3>2, <3>3 DEF Account, AccountInv, AddressInv, CodeInv, Here
    <2>2. ASSUME NEW d \in Devices
          PROVE  /\ page[d].at \in Pages /\ page[d].email \in Addresses
                 /\ job[d].id \in 0..MaxId /\ (page[d].at = "in" <=> signed[d].id # 0)
        <3>1. page[d] \in Page /\ job[d] \in Job
            BY DEF AccountInv, AccountTypes
        <3>2. QED
            BY <3>1 DEF Page, Job, AccountInv, PageInv
    <2>3. Len(sent) <= MaxCode /\ crossed.twice \cup crossed.renamed \subseteq 1..MaxCode
        BY DEF AccountInv, AccountTypes
    <2>4. QED
        BY <2>1, <2>2, <2>3 DEF TypeOK
<1>2. ConsoleInv => ConsoleTypeOK
    <2> SUFFICES ASSUME ConsoleInv PROVE ConsoleTypeOK
        OBVIOUS
    <2>1. \A i \in Ids : settings[i].grants \subseteq {"email", "server"} /\ settings[i].quota \in {"none", "low"}
        BY Parts DEF ConsoleInv, Set
    <2>2. \A a \in acts : a.op \in Acts /\ a.d \in Devices /\ a.at \in {"sent", "allowed"}
        BY DEF ConsoleInv, ActInv
    <2>3. ASSUME NEW d \in Devices
          PROVE  /\ panel[d].who \in Addresses \cup {NoName} /\ desk[d] \subseteq Notes
                 /\ health[d] \in {"closed", "loading", "open"} /\ seen[d] \in [Globals -> SUBSET BOOLEAN]
        <3>1. panel[d] \in [who : Name, shown : Name] /\ desk[d] \in SUBSET Notes
              /\ health[d] \in {"closed", "loading", "open"} /\ seen[d] \in [Globals -> SUBSET BOOLEAN]
            BY DEF ConsoleInv, ConsoleTypes
        <3>2. QED
            BY <3>1 DEF Name
    <2>4. spent \in 0..MaxActs /\ notes \subseteq Notes /\ told \in [Notes -> 0..1]
        BY DEF ConsoleInv, ConsoleTypes
    <2>5. QED
        BY <2>1, <2>2, <2>3, <2>4 DEF ConsoleTypeOK
<1>3. QED
    BY <1>1, <1>2, InvHolds, PTL DEF TypesOK

\* Each code that was mailed is honoured at most once, unless two answers held it at
\* the same time or its account was renamed while one did.
THEOREM CodeServesOnce == Spec => []UsesOverlap
<1>1. AccountInv => UsesOverlap
    BY SMT DEF AccountInv, AccountTypes, UseInv, UsesOverlap
<1>2. QED
    BY <1>1, InvHolds, PTL

----------------------------------------------------------------------------
(* What only one step does: trust a device, or mark an account as verified. *)

Kept(i) ==
    /\ accounts'[i].devices \subseteq accounts[i].devices
    /\ Here(i) /\ accounts'[i].verified => accounts[i].verified

LEMMA RowKept ==
    ASSUME AccountInv, NEW t \in Ids, NEW row, accounts' = [accounts EXCEPT ![t] = row],
           row.devices \subseteq accounts[t].devices, Here(t) /\ row.verified => accounts[t].verified
    PROVE  \A i \in Ids : Kept(i)
<1>1. accounts'[t] = row /\ \A i \in Ids : i # t => accounts'[i] = accounts[i]
    BY DEF AccountInv, AccountTypes
<1>2. QED
    BY <1>1 DEF Kept

LEMMA DeletedKept ==
    ASSUME AccountInv, NEW S \in SUBSET Ids, accounts' = [i \in Ids |-> IF i \in S THEN Gone(i) ELSE accounts[i]]
    PROVE  \A i \in Ids : Kept(i)
<1>1. \A i : Gone(i).devices = {} /\ ~ Gone(i).verified
    BY DEF Gone, NoAccount
<1>2. QED
    BY <1>1 DEF Kept

LEMMA PagesKept ==
    ASSUME AccountInv, NEW d \in Devices, AccountsStep(d), ~ VerifyEmail(d), ~ Verify2faAndRegisterDevice(d)
    PROVE  \A i \in Ids : Kept(i)
<1>a. accounts \in [Ids -> Account]
    BY DEF AccountInv, AccountTypes
<1>1. CASE accounts' = accounts
    BY <1>1 DEF Kept
<1>2. CASE InsertUser(d)
    <2> DEFINE new == Registered(job[d].email, PersonOf[d], job[d].email = AdminAddress)
    <2>1. new.devices = {} /\ ~ new.verified
        BY SMT DEF Registered, NoAccount
    <2>2. accounts' = accounts \/ \E i \in Ids : accounts[i].state = "none" /\ accounts' = [accounts EXCEPT ![i] = new]
        BY <1>2 DEF InsertUser, Registered
    <2> HIDE DEF new
    <2>3. ASSUME NEW i \in Ids, accounts[i].state = "none", accounts' = [accounts EXCEPT ![i] = new]
          PROVE  \A j \in Ids : Kept(j)
        BY <2>1, <2>3, RowKept DEF Here
    <2>4. QED
        BY <1>1, <2>2, <2>3
<1>3. CASE Login(d)
    <2>1. job[d].id \in Ids /\ accounts' = [accounts EXCEPT ![job[d].id].refresh = @ \cup {d}]
        BY <1>3 DEF Login, Doing, AccountInv, JobInv
    <2>2. accounts' = [accounts EXCEPT ![job[d].id] = [accounts[job[d].id] EXCEPT
                           !.refresh = accounts[job[d].id].refresh \cup {d}]]
        BY <2>1, <1>a
    <2>3. accounts[job[d].id] \in Account
        BY <2>1, <1>a
    <2> DEFINE row == [accounts[job[d].id] EXCEPT !.refresh = accounts[job[d].id].refresh \cup {d}]
    <2>4. row.devices \subseteq accounts[job[d].id].devices /\ row.verified = accounts[job[d].id].verified
        BY <2>2, <2>3 DEF Account
    <2>5. accounts' = [accounts EXCEPT ![job[d].id] = row]
        BY <2>2, <2>3
    <2> HIDE DEF row
    <2>6. QED
        BY <2>1, <2>2, <2>4, <2>5, RowKept
<1>4. CASE RevokeDevice(d)
    <2>1. PICK i \in Acting(d), x \in Devices :
              accounts' = [accounts EXCEPT ![i].devices = @ \ {x}, ![i].refresh = @ \ {x}]
        BY <1>4 DEF RevokeDevice
    <2>2. i \in Ids /\ accounts[i] \in Account
        BY <1>a, ActingIs
    <2>3. accounts' = [accounts EXCEPT ![i] = [accounts[i] EXCEPT !.devices = accounts[i].devices \ {x},
                           !.refresh = accounts[i].refresh \ {x}]]
        BY <2>1, <2>2, <1>a
    <2>4. accounts[i].devices \ {x} \subseteq accounts[i].devices
        OBVIOUS
    <2> DEFINE row == [accounts[i] EXCEPT !.devices = accounts[i].devices \ {x}, !.refresh = accounts[i].refresh \ {x}]
    <2>5. row.devices \subseteq accounts[i].devices /\ row.verified = accounts[i].verified
        BY <2>2, <2>3, <2>4 DEF Account
    <2>6. accounts' = [accounts EXCEPT ![i] = row]
        BY <2>2, <2>3, <2>4
    <2> HIDE DEF row
    <2>7. QED
        BY <2>1, <2>2, <2>5, <2>6, RowKept
<1>5. CASE UpdateDeviceLimit(d)
    <2>1. PICK i \in Acting(d), n \in 1..MaxCap : accounts' = [accounts EXCEPT ![i].cap = n]
        BY <1>5 DEF UpdateDeviceLimit
    <2>2. i \in Ids /\ accounts[i] \in Account
        BY <1>a, ActingIs
    <2>3. accounts' = [accounts EXCEPT ![i] = [accounts[i] EXCEPT !.cap = n]]
        BY <2>1, <2>2, <1>a
    <2> DEFINE row == [accounts[i] EXCEPT !.cap = n]
    <2>4. row.devices \subseteq accounts[i].devices /\ row.verified = accounts[i].verified
        BY <2>2, <2>3 DEF Account
    <2>5. accounts' = [accounts EXCEPT ![i] = row]
        BY <2>2, <2>3
    <2> HIDE DEF row
    <2>6. QED
        BY <2>1, <2>2, <2>4, <2>5, RowKept
<1>6. CASE LogoutAllDevices(d)
    <2>1. PICK i \in Acting(d) : accounts' = [accounts EXCEPT ![i].refresh = {}]
        BY <1>6 DEF LogoutAllDevices
    <2>2. i \in Ids /\ accounts[i] \in Account
        BY <1>a, ActingIs
    <2>3. accounts' = [accounts EXCEPT ![i] = [accounts[i] EXCEPT !.refresh = {}]]
        BY <2>1, <2>2, <1>a
    <2> DEFINE row == [accounts[i] EXCEPT !.refresh = {}]
    <2>4. row.devices \subseteq accounts[i].devices /\ row.verified = accounts[i].verified
        BY <2>2, <2>3 DEF Account
    <2>5. accounts' = [accounts EXCEPT ![i] = row]
        BY <2>2, <2>3
    <2> HIDE DEF row
    <2>6. QED
        BY <2>1, <2>2, <2>4, <2>5, RowKept
<1>7. CASE SignOut(d)
    <2>1. signed[d].id \in Ids
        <3>1. signed[d].id # 0 /\ signed[d].id \in 0..MaxId
            BY <1>7 DEF SignOut, AccountInv, PageInv, AccountTypes, Token
        <3>2. QED
            BY SMT, <3>1, Bounds
    <2>2. accounts' = [accounts EXCEPT ![signed[d].id] = [accounts[signed[d].id] EXCEPT
                           !.refresh = accounts[signed[d].id].refresh \ {d}]]
        BY <1>7, <2>1, <1>a DEF SignOut
    <2>3. accounts[signed[d].id] \in Account
        BY <2>1, <1>a
    <2> DEFINE row == [accounts[signed[d].id] EXCEPT !.refresh = accounts[signed[d].id].refresh \ {d}]
    <2>4. row.devices \subseteq accounts[signed[d].id].devices /\ row.verified = accounts[signed[d].id].verified
        BY <2>2, <2>3 DEF Account
    <2>5. accounts' = [accounts EXCEPT ![signed[d].id] = row]
        BY <2>2, <2>3
    <2> HIDE DEF row
    <2>6. QED
        BY <2>1, <2>2, <2>4, <2>5, RowKept
<1>8. CASE ConfirmPasswordReset(d)
    <2>1. PICK i \in At(job[d].email) :
              accounts' = [accounts EXCEPT ![i].owner = PersonOf[d], ![i].keyed = job[d].email, ![i].refresh = {}]
        BY <1>8 DEF ConfirmPasswordReset
    <2>2. i \in Ids /\ accounts[i] \in Account
        BY <1>a DEF At
    <2>3. accounts' = [accounts EXCEPT ![i] = [accounts[i] EXCEPT !.owner = PersonOf[d], !.keyed = job[d].email,
                           !.refresh = {}]]
        BY <2>1, <2>2, <1>a
    <2> DEFINE row == [accounts[i] EXCEPT !.owner = PersonOf[d], !.keyed = job[d].email, !.refresh = {}]
    <2>4. row.devices \subseteq accounts[i].devices /\ row.verified = accounts[i].verified
        BY <2>2, <2>3 DEF Account
    <2>5. accounts' = [accounts EXCEPT ![i] = row]
        BY <2>2, <2>3
    <2> HIDE DEF row
    <2>6. QED
        BY <2>1, <2>2, <2>4, <2>5, RowKept
<1>9. accounts' = accounts \/ InsertUser(d) \/ Login(d) \/ DeviceList(d) \/ SignOut(d) \/ ConfirmPasswordReset(d)
    BY DEF AccountsStep, RegisterPage, Register, InsertCode, VerifyEmailPage, VerifyEmailRead, ResendPage, LoginPage,
        LoginRead, Login2faRequired, Verify2faPage, Verify2faRead, ForgotPasswordPage, RequestPasswordReset,
        SendResetEmail, ResetPasswordPage, VerifyResetCode, ConsumeResetCode, CountAttempt, DeleteLocked,
        Routes, Fails, Ask
<1>10. QED
    BY <1>1, <1>2, <1>3, <1>4, <1>5, <1>6, <1>7, <1>8, <1>9 DEF DeviceList

LEMMA TasksKept ==
    ASSUME AccountInv, AccountsTasks
    PROVE  \A i \in Ids : Kept(i)
<1>1. ASSUME NEW i \in Ids, GrowsOld(i)
      PROVE  \A j \in Ids : Kept(j)
    <2>1. accounts[i] \in Account /\ accounts' = [accounts EXCEPT ![i] = [accounts[i] EXCEPT !.old = TRUE]]
        BY <1>1 DEF GrowsOld, AccountInv, AccountTypes
    <2> DEFINE row == [accounts[i] EXCEPT !.old = TRUE]
    <2>2. row.devices = accounts[i].devices /\ row.verified = accounts[i].verified
        BY <2>1 DEF Account
    <2>3. accounts' = [accounts EXCEPT ![i] = row]
        BY <2>1
    <2> HIDE DEF row
    <2>4. QED
        BY <2>2, <2>3, RowKept
<1>2. CASE CleanupStaleUnverifiedAccounts
    <2>1. Stale \in SUBSET Ids
        BY DEF Stale
    <2>2. QED
        BY <1>2, <2>1, DeletedKept DEF CleanupStaleUnverifiedAccounts
<1>3. CASE UNCHANGED accounts
    BY <1>3 DEF Kept
<1>4. QED
    BY <1>1, <1>2, <1>3 DEF AccountsTasks, ResendVerificationEmail, Ages, CleanupExpiredTfaCodes

LEMMA ActsKept ==
    ASSUME AccountInv, ActInv, NEW a \in acts, Handle(a)
    PROVE  \A i \in Ids : Kept(i)
<1>1. ASSUME NEW t \in At(a.on), NEW row, Writes(a, t, row), row.devices \subseteq accounts[t].devices,
             row.verified => accounts[t].verified
      PROVE  \A i \in Ids : Kept(i)
    BY <1>1, RowKept DEF Writes, At
<1>2. ASSUME NEW t \in At(a.on) PROVE accounts[t] \in Account
    BY CodesOf DEF At, AccountInv
<1>3. ASSUME NEW t \in At(a.on), UpdateUserRole(a, t)
      PROVE  \A i \in Ids : Kept(i)
    <2> DEFINE row == [accounts[t] EXCEPT !.moderator = a.arg]
    <2>1. row.devices = accounts[t].devices /\ row.verified = accounts[t].verified
        BY <1>2 DEF Account
    <2>2. Writes(a, t, row)
        BY <1>3 DEF UpdateUserRole
    <2> HIDE DEF row
    <2>3. QED
        BY <1>1, <2>1, <2>2
<1>4. ASSUME NEW t \in At(a.on), UpdateSuspended(a, t)
      PROVE  \A i \in Ids : Kept(i)
    <2> DEFINE row == [accounts[t] EXCEPT !.suspended = a.arg, !.refresh = IF a.arg THEN {} ELSE accounts[t].refresh]
    <2>1. row.devices = accounts[t].devices /\ row.verified = accounts[t].verified
        BY <1>2 DEF Account
    <2>2. Writes(a, t, row)
        BY <1>4 DEF UpdateSuspended
    <2> HIDE DEF row
    <2>3. QED
        BY <1>1, <2>1, <2>2
<1>5. ASSUME NEW t \in At(a.on), AdminUpdateUserEmail(a, t)
      PROVE  \A i \in Ids : Kept(i)
    <2> DEFINE row == [accounts[t] EXCEPT !.email = a.arg, !.refresh = {}]
    <2>1. row.devices = accounts[t].devices /\ row.verified = accounts[t].verified
        BY <1>2 DEF Account
    <2>2. Writes(a, t, row)
        BY <1>5 DEF AdminUpdateUserEmail
    <2> HIDE DEF row
    <2>3. QED
        BY <1>1, <2>1, <2>2
<1>6. ASSUME NEW t \in At(a.on), RevokeUserSessions(a, t)
      PROVE  \A i \in Ids : Kept(i)
    <2> DEFINE row == [accounts[t] EXCEPT !.refresh = {}]
    <2>1. row.devices = accounts[t].devices /\ row.verified = accounts[t].verified
        BY <1>2 DEF Account
    <2>2. Writes(a, t, row)
        BY <1>6 DEF RevokeUserSessions
    <2> HIDE DEF row
    <2>3. QED
        BY <1>1, <2>1, <2>2
<1>7. ASSUME NEW t \in At(a.on), DeleteUser(a, t)
      PROVE  \A i \in Ids : Kept(i)
    <2>1. Gone(t).devices = {} /\ ~ Gone(t).verified
        BY DEF Gone, NoAccount
    <2>2. QED
        BY <1>1, <1>7, <2>1 DEF DeleteUser
<1>8. ASSUME NEW t \in At(a.on), UpdateExtensionEmailChange(a, t) \/ UpdateServerChoiceInSettings(a, t) \/ UpdateQuotas(a, t)
      PROVE  \A i \in Ids : Kept(i)
    BY <1>1, <1>8 DEF UpdateExtensionEmailChange, UpdateServerChoiceInSettings, UpdateQuotas
<1>9. CASE ActFails(a)
    BY <1>9 DEF ActFails, accVars, Kept
<1>10. QED
    BY <1>3, <1>4, <1>5, <1>6, <1>7, <1>8, <1>9 DEF Handle

LEMMA OnlyCodes ==
    ASSUME AccountInv, ConsoleInv, Next, NEW i \in Ids
    PROVE  Kept(i) \/ \E d \in Devices : VerifyEmail(d) \/ Verify2faAndRegisterDevice(d)
<1>1. ASSUME NEW d \in Devices, ConsoleStep(d)
      PROVE  UNCHANGED accounts
    BY <1>1 DEF ConsoleStep, OpenList, UsersSection, RenderUserActions, HandleToggleRole, HandleToggleSuspended,
        HandleChangeEmail, HandleDelete, HandleRevokeSessions, HandleToggleExtensionEmailChange,
        HandleToggleServerChoiceInSettings, HandleEditQuotas, Act, RenderBulkFlagRow, ReadGlobals,
        ServerChoiceAtLoginSection, HandleShowIpHistory, HandleToggleHealth, RenderHealthPanel, BugReportModal,
        FeatureSuggestionModal, Noted, OpenDesk, BugReportsSection, FeatureSuggestionsSection, Treat,
        HandleToggleRegistration, accVars
<1>2. CASE (\E a \in acts : Authorize(a)) \/ (\E r \in reads : ListUsers(r) \/ Load(r))
           \/ \E q \in asks : GetUserIpHistory(q)
    <2>1. UNCHANGED accounts
        BY <1>2 DEF Authorize, ListUsers, Load, GetUserIpHistory, accVars
    <2>2. QED
        BY <2>1 DEF Kept
<1>3. UNCHANGED accounts => Kept(i)
    BY DEF Kept
<1>4. QED
    BY <1>1, <1>2, <1>3, PagesKept, TasksKept, ActsKept DEF Next, ConsoleInv

LEMMA CapStep ==
    ASSUME AccountInv, ConsoleInv, Next, NEW i \in Ids, NEW d \in Devices, d \in accounts'[i].devices,
           d \notin accounts[i].devices, Cardinality(accounts'[i].devices) > accounts[i].cap
    PROVE  job[d].moved
<1>a. \A j \in Ids : accounts[j] \in Account
    BY CodesOf DEF AccountInv
<1>1. ~ Kept(i)
    BY DEF Kept
<1>2. ASSUME NEW e \in Devices, VerifyEmail(e)
      PROVE  accounts'[i].devices = accounts[i].devices
    <2>1. accounts'[i] = accounts[i] \/ accounts'[i] = [accounts[i] EXCEPT !.verified = TRUE]
        BY <1>2 DEF VerifyEmail
    <2>2. [accounts[i] EXCEPT !.verified = TRUE].devices = accounts[i].devices
        BY <1>a DEF Account
    <2>3. QED
        BY <2>1, <2>2
<1>3. PICK e \in Devices : Verify2faAndRegisterDevice(e)
    BY <1>1, <1>2, OnlyCodes
<1>4. job[e].id \in Ids /\ Here(job[e].id) /\ Doing(e, "tfa", "read")
    BY <1>3 DEF Verify2faAndRegisterDevice, Doing, AccountInv, JobInv
<1>5. i = job[e].id /\ accounts'[i].devices = accounts[i].devices \cup {e}
    <2> DEFINE row == [accounts[job[e].id] EXCEPT !.devices = accounts[job[e].id].devices \cup {e}]
    <2>1. accounts' = [accounts EXCEPT ![job[e].id] = row]
        BY <1>3, <1>4 DEF Verify2faAndRegisterDevice, AccountInv, AccountTypes
    <2>2. row.devices = accounts[job[e].id].devices \cup {e}
        BY <1>a, <1>4 DEF Account
    <2> HIDE DEF row
    <2>3. \A j \in Ids : accounts'[j] = IF j = job[e].id THEN row ELSE accounts[j]
        BY <2>1 DEF AccountInv, AccountTypes
    <2>4. QED
        BY <2>2, <2>3, <1>4
<1>6. d = e
    BY <1>5
<1>7. ASSUME ~ job[d].moved
      PROVE  FALSE
    <2>1. HasRoom(d, i)
        BY <1>4, <1>5, <1>6, <1>7 DEF AccountInv, CapInv
    <2>2. Cardinality(accounts[i].devices) < accounts[i].cap
        BY <2>1 DEF HasRoom
    <2>3. IsFiniteSet(accounts[i].devices)
        BY <1>a, Bounds, FS_Subset DEF Account
    <2>4. Cardinality(accounts[i].devices) \in Nat /\ accounts[i].cap \in Nat
        <3>1. accounts[i].cap \in 1..MaxCap
            BY <1>a DEF Account
        <3>2. accounts[i].cap \in Nat
            BY SMT, <3>1, Bounds
        <3>3. QED
            BY <2>3, <3>2, FS_CardinalityType
    <2>5. Cardinality(accounts'[i].devices) = Cardinality(accounts[i].devices) + 1
        BY <2>3, <1>5, <1>6, FS_AddElement
    <2>6. QED
        BY SMT, <2>2, <2>4, <2>5
<1>8. QED
    BY <1>7

\* A device joins the trusted ones of an account beyond its cap only if the answer that
\* adds it was overtaken, after it had counted, by another device, a lower cap or the
\* revocation of this one.
THEOREM CapIsHeld == Spec => CapHolds
<1>1. AccountInv /\ ConsoleInv /\ [Next]_vars =>
        [\A i \in Ids, d \in Devices :
            /\ d \in accounts'[i].devices /\ d \notin accounts[i].devices
            /\ Cardinality(accounts'[i].devices) > accounts[i].cap
            => job[d].moved]_accVars
    <2> SUFFICES ASSUME AccountInv, ConsoleInv, [Next]_vars, ~ UNCHANGED accVars,
                        NEW i \in Ids, NEW d \in Devices, d \in accounts'[i].devices, d \notin accounts[i].devices,
                        Cardinality(accounts'[i].devices) > accounts[i].cap
                 PROVE  job[d].moved
        OBVIOUS
    <2>1. Next
        BY DEF vars
    <2>2. QED
        BY <2>1, CapStep
<1>2. QED
    BY <1>1, InvHolds, PTL DEF Spec, CapHolds

LEMMA ProofStep ==
    ASSUME AccountInv, ConsoleInv, Next, NEW i \in Ids, Here(i), ~ accounts[i].verified, accounts'[i].verified
    PROVE  \E d \in Devices :
             /\ job[d].n # 0 /\ job'[d] = NoJob /\ job[d].email = accounts[i].email
             /\ sent[job[d].n] = accounts[i].email \/ job[d].n \in crossed.renamed
<1>a. \A j \in Ids : accounts[j] \in Account
    BY CodesOf DEF AccountInv
<1>1. ~ Kept(i)
    BY DEF Kept
<1>2. ASSUME NEW e \in Devices, Verify2faAndRegisterDevice(e)
      PROVE  accounts'[i].verified = accounts[i].verified
    <2> DEFINE row == [accounts[job[e].id] EXCEPT !.devices = accounts[job[e].id].devices \cup {e}]
    <2>1. job[e].id \in Ids
        BY <1>2 DEF Verify2faAndRegisterDevice, Doing, AccountInv, JobInv
    <2>2. accounts' = [accounts EXCEPT ![job[e].id] = row]
        BY <1>2, <2>1 DEF Verify2faAndRegisterDevice, AccountInv, AccountTypes
    <2>3. row.verified = accounts[job[e].id].verified
        BY <1>a, <2>1 DEF Account
    <2> HIDE DEF row
    <2>4. \A j \in Ids : accounts'[j] = IF j = job[e].id THEN row ELSE accounts[j]
        BY <2>2 DEF AccountInv, AccountTypes
    <2>5. QED
        BY <2>3, <2>4
<1>3. PICK d \in Devices : VerifyEmail(d)
    BY <1>1, <1>2, OnlyCodes
<1>4. i \in At(job[d].email)
    BY <1>3 DEF VerifyEmail
<1>5. job[d].n # 0 /\ Doing(d, "verify", "read")
    BY <1>3 DEF VerifyEmail, Doing, AccountInv, JobInv
<1>6. job'[d] = NoJob
    BY <1>3 DEF VerifyEmail, Settle, AccountInv, AccountTypes
<1>7. job[d].email = accounts[i].email
    BY <1>4 DEF At
<1>8. sent[job[d].n] = job[d].email \/ job[d].n \in crossed.renamed
    BY <1>5 DEF AccountInv, ProofInv
<1>9. QED
    BY <1>5, <1>6, <1>7, <1>8

\* An account becomes verified only by the answer to a code that was typed for its
\* address and mailed to it, whatever was renamed, deleted or registered while the code
\* was compared; or by one mailed before its account was renamed.
THEOREM ProvenAddress == Spec => VerifiedProven
<1>1. AccountInv /\ ConsoleInv /\ [Next]_vars =>
        [\A i \in Ids : Here(i) /\ ~ accounts[i].verified /\ accounts'[i].verified =>
            \E d \in Devices :
                /\ job[d].n # 0 /\ job'[d] = NoJob /\ job[d].email = accounts[i].email
                /\ sent[job[d].n] = accounts[i].email \/ job[d].n \in crossed.renamed]_accVars
    <2> SUFFICES ASSUME AccountInv, ConsoleInv, [Next]_vars, ~ UNCHANGED accVars,
                        NEW i \in Ids, Here(i), ~ accounts[i].verified, accounts'[i].verified
                 PROVE  \E d \in Devices :
                          /\ job[d].n # 0 /\ job'[d] = NoJob /\ job[d].email = accounts[i].email
                          /\ sent[job[d].n] = accounts[i].email \/ job[d].n \in crossed.renamed
        OBVIOUS
    <2>1. Next
        BY DEF vars
    <2>2. QED
        BY <2>1, ProofStep
<1>2. QED
    BY <1>1, InvHolds, PTL DEF Spec, VerifiedProven

\* An act that was let through changes neither the account of the administrator nor, but
\* on behalf of the administrator, that of somebody who was a moderator when it was checked.
THEOREM HierarchyIsHeld == Spec => HierarchyHeld
<1>1. AccountInv /\ ConsoleInv /\ [Next]_vars =>
        [\A a \in acts : a.at = "allowed" /\ a \notin acts' =>
            \A t \in At(a.on) :
                accounts'[t] # accounts[t] /\ a.op \notin {"role", "quota"} =>
                    ~ IsAdmin(t) /\ (accounts[t].moderator => a.admin \/ ~ a.seen)]_vars
    BY DEF ConsoleInv, AllowedInv, At, IsAdmin
<1>2. QED
    BY <1>1, InvHolds, PTL DEF Spec, HierarchyHeld

----------------------------------------------------------------------------
(* The guesses at a code.                                                  *)

GuessTypes ==
    /\ guessed \in [1..MaxCode -> Nat]
    /\ \A n \in 1..MaxCode : n > Len(sent) => guessed[n] = 0

\* A guess that is yet to be counted will be counted in the slot of its code, if
\* the code is still in one and its account was not renamed.
WrongInv ==
    \A d \in Devices : job[d].at = "wrong" =>
        /\ job[d].n # 0
        /\ \A j \in Ids, p \in Purposes : codes[j][p].n = job[d].n =>
            /\ j = job[d].id /\ p = PurposeOf(job[d].op)
            /\ p = "verify" => accounts[j].email = job[d].email \/ job[d].n \in crossed.renamed

CountInv ==
    \A i \in Ids, p \in Purposes : codes[i][p].n # 0 /\ codes[i][p].n \notin crossed.renamed =>
        guessed[codes[i][p].n] <= codes[i][p].tries + Cardinality(Guessing(codes[i][p].n))

GuessInv == GuessTypes /\ WrongInv /\ CountInv

\* A slot is empty, has a new code or the code it had; a request is the same, or one
\* that has not guessed wrong.
SlotCalm(i, p) ==
    \/ codes'[i][p].n = 0 \/ codes'[i][p].n = Len(sent) + 1
    \/ codes'[i][p].n = codes[i][p].n /\ codes'[i][p].tries = codes[i][p].tries
EmailCalm(i) ==
    \/ codes'[i].verify.n = 0 \/ codes'[i].verify.n \in crossed'.renamed
    \/ accounts'[i].email = accounts[i].email
JobCalm(d) == Same(d) \/ (job[d].at # "wrong" /\ job'[d].at # "wrong")
Quiet ==
    /\ \A i \in Ids : EmailCalm(i) /\ \A p \in Purposes : SlotCalm(i, p)
    /\ \A d \in Devices : JobCalm(d)
    /\ guessed' = guessed /\ crossed.renamed \subseteq crossed'.renamed /\ Len(sent) <= Len(sent')

GuessingNext(n) == {d \in Devices : job'[d].at = "wrong" /\ job'[d].n = n}

LEMMA GuessingIs ==
    \A n : Guessing(n) \subseteq Devices /\ IsFiniteSet(Guessing(n)) /\ Cardinality(Guessing(n)) \in Nat
<1>1. ASSUME NEW n
      PROVE  Guessing(n) \subseteq Devices /\ IsFiniteSet(Guessing(n)) /\ Cardinality(Guessing(n)) \in Nat
    <2>1. Guessing(n) \subseteq Devices
        BY DEF Guessing
    <2>2. IsFiniteSet(Guessing(n))
        BY <2>1, Bounds, FS_Subset
    <2>3. QED
        BY <2>1, <2>2, FS_CardinalityType
<1>2. QED
    BY <1>1

LEMMA QuietKeeps ==
    ASSUME AccountInv, AccountInv', GuessInv, Quiet
    PROVE  GuessInv'
<1>0. /\ Len(sent) \in Nat /\ Len(sent') \in Nat /\ Len(sent) <= Len(sent')
      /\ \A d \in Devices : job[d].n \in Nat /\ job[d].n <= Len(sent)
      /\ \A i \in Ids, p \in Purposes : codes'[i][p].n \in Nat /\ codes'[i][p].n <= MaxCode /\ codes'[i][p].tries \in Nat
    <2>1. \A i \in Ids, p \in Purposes : codes'[i][p] \in Code
        BY DEF AccountInv, AccountTypes
    <2>2. Len(sent) \in Nat /\ \A d \in Devices : job[d].n \in Nat /\ job[d].n <= Len(sent)
        BY CodesOf DEF AccountInv, JobInv
    <2>3. Len(sent') \in Nat
        BY DEF AccountInv, AccountTypes
    <2>4. QED
        BY <2>1, <2>2, <2>3, Bounds DEF Quiet, Code
<1>1. GuessTypes'
    BY <1>0 DEF GuessInv, GuessTypes, Quiet
<1>2. ASSUME NEW d \in Devices, job'[d].at = "wrong", NEW j \in Ids, NEW p \in Purposes, codes'[j][p].n = job'[d].n
      PROVE  /\ job'[d].n # 0 /\ j = job'[d].id /\ p = PurposeOf(job'[d].op)
             /\ p = "verify" => accounts'[j].email = job'[d].email \/ job'[d].n \in crossed'.renamed
    <2>1. /\ job[d].at = "wrong" /\ job'[d].n = job[d].n /\ job'[d].id = job[d].id /\ job'[d].op = job[d].op
          /\ job'[d].email = job[d].email
        BY <1>2 DEF Quiet, JobCalm, Same
    <2>2. job[d].n # 0
        BY <2>1 DEF GuessInv, WrongInv
    <2>3. codes[j][p].n = job[d].n
        BY <1>0, <1>2, <2>1, <2>2 DEF Quiet, SlotCalm
    <2>4. /\ j = job[d].id /\ p = PurposeOf(job[d].op)
          /\ p = "verify" => accounts[j].email = job[d].email \/ job[d].n \in crossed.renamed
        BY <2>1, <2>3 DEF GuessInv, WrongInv
    <2>5. p = "verify" => accounts'[j].email = accounts[j].email \/ job[d].n \in crossed'.renamed
        BY <1>2, <2>1, <2>2 DEF Quiet, EmailCalm
    <2>6. QED
        BY <2>1, <2>2, <2>4, <2>5 DEF Quiet
<1>3. WrongInv'
    <2>1. ASSUME NEW d \in Devices, job'[d].at = "wrong" PROVE job'[d].n # 0
        BY <2>1 DEF Quiet, JobCalm, Same, GuessInv, WrongInv
    <2>2. QED
        BY <1>2, <2>1 DEF WrongInv
<1>4. ASSUME NEW n PROVE GuessingNext(n) = Guessing(n)
    BY DEF Quiet, JobCalm, Same, Guessing, GuessingNext
<1>5. ASSUME NEW i \in Ids, NEW p \in Purposes, codes'[i][p].n # 0, codes'[i][p].n \notin crossed'.renamed
      PROVE  guessed'[codes'[i][p].n] <= codes'[i][p].tries + Cardinality(GuessingNext(codes'[i][p].n))
    <2> DEFINE n == codes'[i][p].n
               k == Cardinality(Guessing(n))
    <2>1. k \in Nat /\ n \in 1..MaxCode /\ codes'[i][p].tries \in Nat
        BY <1>0, <1>5, GuessingIs, Bounds
    <2>2. Cardinality(GuessingNext(n)) = k
        BY <1>4
    <2>3. CASE n = Len(sent) + 1
        <3>1. guessed[n] = 0
            BY <2>1, <2>3, <1>0 DEF GuessInv, GuessTypes
        <3> HIDE DEF n, k
        <3>2. 0 <= codes'[i][p].tries + k
            BY <2>1
        <3>3. guessed' = guessed
            BY DEF Quiet
        <3>4. QED
            BY <3>1, <3>2, <3>3, <2>2 DEF n
    <2>4. CASE n = codes[i][p].n /\ codes'[i][p].tries = codes[i][p].tries
        <3>1. guessed[n] <= codes[i][p].tries + k
            BY <2>4, <1>5 DEF GuessInv, CountInv, Quiet
        <3>2. QED
            BY <3>1, <2>2, <2>4 DEF Quiet
    <2>5. QED
        BY <2>3, <2>4, <1>5 DEF Quiet, SlotCalm
<1>6. CountInv'
    BY <1>5 DEF CountInv, Guessing, GuessingNext
<1>7. QED
    BY <1>1, <1>3, <1>6 DEF GuessInv

\* A wrong guess is one that waits to be counted.
LEMMA GuessesWrong ==
    ASSUME AccountInv, AccountInv', GuessInv, NEW d \in Devices, NEW p \in Purposes, NEW i \in At(job[d].email), NEW room,
           p = PurposeOf(job[d].op), job[d].at = "sent", Compare(d, i, p, room), UNCHANGED <<accounts, codes, sent>>,
           guessed' # guessed
    PROVE  /\ GuessInv'
           /\ \A n \in 1..MaxCode : guessed'[n] > guessed[n] =>
                guessed[n] < MaxTries + Cardinality(Guessing(n)) \/ n \in crossed.renamed
<1> DEFINE m == codes[i][p].n
<1>1. /\ m # 0 /\ ~ Locked(codes[i][p]) /\ crossed' = crossed
      /\ job' = [job EXCEPT ![d].at = "wrong", ![d].id = i, ![d].n = m]
      /\ guessed' = [guessed EXCEPT ![m] = @ + 1]
    BY DEF Compare
<1>2. /\ i \in Ids /\ accounts[i].email = job[d].email /\ m \in 1..MaxCode /\ m <= Len(sent) /\ Len(sent) \in Nat
      /\ codes[i][p].tries \in Nat /\ codes[i][p].tries < MaxTries /\ MaxTries \in Nat
    <2>1. i \in Ids /\ accounts[i].email = job[d].email /\ codes[i][p] \in Code
        BY CodesOf DEF At, AccountInv
    <2>2. codes[i][p].tries \in Nat /\ m \in 0..MaxCode /\ m <= Len(sent) /\ Len(sent) \in Nat
        BY <2>1, CodesOf DEF Code, AccountInv, CodeInv
    <2>3. QED
        BY <1>1, <2>1, <2>2, Bounds DEF Locked
<1>3. /\ job'[d].at = "wrong" /\ job'[d].id = i /\ job'[d].n = m /\ job'[d].op = job[d].op /\ job'[d].email = job[d].email
      /\ \A e \in Devices : e # d => job'[e] = job[e]
    <2> DEFINE r == [job[d] EXCEPT !.at = "wrong", !.id = i, !.n = m]
    <2>1. job' = [job EXCEPT ![d] = r] /\ job[d] \in Job
        BY <1>1 DEF AccountInv, AccountTypes
    <2>2. r.at = "wrong" /\ r.id = i /\ r.n = m /\ r.op = job[d].op /\ r.email = job[d].email
        BY <2>1 DEF Job
    <2> HIDE DEF r
    <2>3. QED
        BY <2>1, <2>2 DEF AccountInv, AccountTypes
<1>4. guessed \in [1..MaxCode -> Nat] /\ guessed'[m] = guessed[m] + 1
      /\ \A n \in 1..MaxCode : n # m => guessed'[n] = guessed[n]
    BY <1>1, <1>2 DEF GuessInv, GuessTypes
<1> HIDE DEF m
<1>5. GuessingNext(m) = Guessing(m) \cup {d} /\ d \notin Guessing(m) /\ \A n : n # m => GuessingNext(n) = Guessing(n)
    BY <1>3 DEF Guessing, GuessingNext
<1>6. /\ Cardinality(Guessing(m)) \in Nat /\ Cardinality(GuessingNext(m)) = Cardinality(Guessing(m)) + 1
    BY <1>5, GuessingIs, FS_AddElement
<1>7. GuessTypes'
    <2>1. guessed' \in [1..MaxCode -> Nat]
        BY <1>1, <1>2, <1>4
    <2>2. QED
        BY <2>1, <1>2, <1>4 DEF GuessInv, GuessTypes
<1>8. WrongInv'
    <2>1. ASSUME NEW e \in Devices, job'[e].at = "wrong", NEW j \in Ids, NEW q \in Purposes, codes'[j][q].n = job'[e].n
          PROVE  /\ j = job'[e].id /\ q = PurposeOf(job'[e].op)
                 /\ q = "verify" => accounts'[j].email = job'[e].email \/ job'[e].n \in crossed'.renamed
        <3>1. CASE e = d
            <4>1. codes[j][q].n = codes[i][p].n /\ codes[j][q].n # 0
                BY <2>1, <3>1, <1>1, <1>3 DEF m
            <4>2. j = i /\ q = p
                BY <4>1, <1>2 DEF AccountInv, CodeInv
            <4>3. QED
                BY <4>2, <3>1, <1>2, <1>3
        <3>2. CASE e # d
            <4>1. codes[j][q].n = job[e].n /\ job'[e] = job[e] /\ job[e].at = "wrong"
                BY <2>1, <3>2, <1>3
            <4>2. /\ j = job[e].id /\ q = PurposeOf(job[e].op)
                  /\ q = "verify" => accounts[j].email = job[e].email \/ job[e].n \in crossed.renamed
                BY <4>1 DEF GuessInv, WrongInv
            <4>3. QED
                BY <4>1, <4>2, <1>1
        <3>3. QED
            BY <3>1, <3>2
    <2>2. ASSUME NEW e \in Devices, job'[e].at = "wrong" PROVE job'[e].n # 0
        BY <2>2, <1>1, <1>3 DEF GuessInv, WrongInv
    <2>3. QED
        BY <2>1, <2>2 DEF WrongInv
<1>9. ASSUME NEW j \in Ids, NEW q \in Purposes, codes'[j][q].n # 0, codes'[j][q].n \notin crossed'.renamed
      PROVE  guessed'[codes'[j][q].n] <= codes'[j][q].tries + Cardinality(GuessingNext(codes'[j][q].n))
    <2>1. codes' = codes /\ crossed' = crossed
        BY <1>1
    <2>2. guessed[codes[j][q].n] <= codes[j][q].tries + Cardinality(Guessing(codes[j][q].n))
        BY <1>9, <2>1 DEF GuessInv, CountInv
    <2>3. codes[j][q].tries \in Nat /\ codes[j][q].n \in 1..MaxCode
        BY <1>9, <2>1, CodesOf, Bounds DEF AccountInv, Code
    <2>4. CASE codes[j][q].n = m
        <3>1. guessed[m] <= codes[j][q].tries + Cardinality(Guessing(m)) /\ guessed[m] \in Nat
            BY <2>2, <2>4, <1>4, <1>2
        <3>2. guessed[m] + 1 <= codes[j][q].tries + (Cardinality(Guessing(m)) + 1)
            BY <3>1, <2>3, <1>6
        <3>3. QED
            BY <3>2, <2>1, <2>4, <1>4, <1>6
    <2>5. CASE codes[j][q].n # m
        BY <2>1, <2>2, <2>3, <2>5, <1>4, <1>5
    <2>6. QED
        BY <2>4, <2>5
<1>10. CountInv'
    BY <1>9 DEF CountInv, Guessing, GuessingNext
<1>11. guessed[m] < MaxTries + Cardinality(Guessing(m)) \/ m \in crossed.renamed
    <2>1. CASE m \notin crossed.renamed
        <3>1. guessed[m] <= codes[i][p].tries + Cardinality(Guessing(m)) /\ guessed[m] \in Nat
            BY <2>1, <1>1, <1>2, <1>4 DEF GuessInv, CountInv, m
        <3>2. QED
            BY <3>1, <1>2, <1>6
    <2>2. QED
        BY <2>1
<1>12. \A n \in 1..MaxCode : guessed'[n] > guessed[n] => n = m
    BY <1>4
<1>13. QED
    BY <1>7, <1>8, <1>10, <1>11, <1>12 DEF GuessInv

\* A guess is counted in the slot of its code, or its account was renamed.
LEMMA CountKeeps ==
    ASSUME AccountInv, AccountInv', GuessInv, NEW d \in Devices, CountAttempt(d)
    PROVE  GuessInv'
<1> DEFINE m == job[d].n
<1>1. /\ job[d].at = "wrong" /\ job' = [job EXCEPT ![d] = NoJob]
      /\ UNCHANGED <<accounts, sent, guessed, crossed>>
      /\ codes' = [i \in Ids |-> [p \in Purposes |->
             IF <<i, p>> \in Slots(d) /\ codes[i][p].n # 0 THEN [codes[i][p] EXCEPT !.tries = @ + 1] ELSE codes[i][p]]]
    BY DEF CountAttempt, Settle
<1>2. job'[d] = NoJob /\ \A e \in Devices : e # d => job'[e] = job[e]
    BY <1>1 DEF AccountInv, AccountTypes
<1>3. /\ m # 0 /\ job[d].op \in {"verify", "tfa", "reset"}
      /\ \A j \in Ids, p \in Purposes : codes[j][p].n = m =>
            /\ j = job[d].id /\ p = PurposeOf(job[d].op)
            /\ p = "verify" => accounts[j].email = job[d].email \/ m \in crossed.renamed
    BY <1>1 DEF GuessInv, WrongInv, AccountInv, JobInv
<1> HIDE DEF m
<1>4. ASSUME NEW i \in Ids, NEW p \in Purposes
      PROVE  /\ codes'[i][p].n = codes[i][p].n /\ codes[i][p].tries \in Nat
             /\ codes'[i][p].tries = codes[i][p].tries \/ codes'[i][p].tries = codes[i][p].tries + 1
             /\ <<i, p>> \in Slots(d) /\ codes[i][p].n # 0 => codes'[i][p].tries = codes[i][p].tries + 1
    <2>1. codes[i][p] \in Code
        BY CodesOf DEF AccountInv
    <2>2. codes'[i][p] = IF <<i, p>> \in Slots(d) /\ codes[i][p].n # 0 THEN [codes[i][p] EXCEPT !.tries = codes[i][p].tries + 1]
                         ELSE codes[i][p]
        BY <1>1
    <2>3. QED
        BY <2>1, <2>2 DEF Code
<1>5. GuessingNext(m) = Guessing(m) \ {d} /\ d \in Guessing(m) /\ \A n : n # m => GuessingNext(n) = Guessing(n)
    BY <1>1, <1>2, Blank DEF Guessing, GuessingNext, m
<1>6. Cardinality(Guessing(m)) \in Nat /\ Cardinality(GuessingNext(m)) = Cardinality(Guessing(m)) - 1
    BY <1>5, GuessingIs, FS_RemoveElement
<1>7. GuessTypes'
    BY <1>1 DEF GuessInv, GuessTypes
<1>8. WrongInv'
    <2>1. ASSUME NEW e \in Devices, job'[e].at = "wrong"
          PROVE  /\ job'[e].n # 0
                 /\ \A j \in Ids, q \in Purposes : codes'[j][q].n = job'[e].n =>
                        /\ j = job'[e].id /\ q = PurposeOf(job'[e].op)
                        /\ q = "verify" => accounts'[j].email = job'[e].email \/ job'[e].n \in crossed'.renamed
        <3>1. e # d /\ job'[e] = job[e]
            BY <2>1, <1>2, Blank
        <3>2. QED
            BY <2>1, <3>1, <1>1, <1>4 DEF GuessInv, WrongInv
    <2>2. QED
        BY <2>1 DEF WrongInv
<1>9. ASSUME NEW j \in Ids, NEW q \in Purposes, codes'[j][q].n # 0, codes'[j][q].n \notin crossed'.renamed
      PROVE  guessed'[codes'[j][q].n] <= codes'[j][q].tries + Cardinality(GuessingNext(codes'[j][q].n))
    <2>0. codes'[j][q].n = codes[j][q].n /\ codes[j][q].n \in 1..MaxCode /\ codes[j][q].n \notin crossed.renamed
        BY <1>1, <1>4, <1>9, CodesOf, Bounds DEF AccountInv, Code
    <2>1. guessed[codes[j][q].n] <= codes[j][q].tries + Cardinality(Guessing(codes[j][q].n))
        BY <2>0, <1>9 DEF GuessInv, CountInv
    <2>2. guessed' = guessed /\ guessed[codes[j][q].n] \in Nat
        BY <2>0, <1>1 DEF GuessInv, GuessTypes
    <2>3. CASE codes[j][q].n = m
        <3>1. j = job[d].id /\ q = PurposeOf(job[d].op) /\ (q = "verify" => accounts[j].email = job[d].email)
            BY <2>0, <2>3, <1>3
        <3>2. Here(j)
            BY <2>0, Blank, Bounds DEF AccountInv, CodeInv
        <3>3. <<j, q>> \in Slots(d)
            BY <3>1, <3>2, <1>3 DEF Slots, PurposeOf, At, Here
        <3>4. codes'[j][q].tries = codes[j][q].tries + 1
            BY <3>3, <1>3, <1>4, <2>3
        <3>5. guessed[m] <= codes[j][q].tries + Cardinality(Guessing(m)) /\ guessed[m] \in Nat
            BY <2>1, <2>2, <2>3
        <3>6. codes[j][q].tries \in Nat
            BY <1>4
        <3>7. guessed[m] <= (codes[j][q].tries + 1) + (Cardinality(Guessing(m)) - 1)
            BY <3>5, <3>6, <1>6
        <3>8. QED
            BY <3>4, <3>7, <2>0, <2>2, <2>3, <1>6
    <2>4. CASE codes[j][q].n # m
        <3>1. Cardinality(GuessingNext(codes[j][q].n)) = Cardinality(Guessing(codes[j][q].n))
            BY <2>4, <1>5
        <3>2. Cardinality(Guessing(codes[j][q].n)) \in Nat
            BY GuessingIs
        <3>3. codes[j][q].tries \in Nat /\ (codes'[j][q].tries = codes[j][q].tries \/ codes'[j][q].tries = codes[j][q].tries + 1)
            BY <1>4
        <3>4. QED
            BY <3>1, <3>2, <3>3, <2>0, <2>1, <2>2
    <2>5. QED
        BY <2>3, <2>4
<1>10. CountInv'
    BY <1>9 DEF CountInv, Guessing, GuessingNext
<1>11. QED
    BY <1>7, <1>8, <1>10 DEF GuessInv

\* What most steps do: they leave the codes, or empty some, and one request changes.
LEMMA JobsCalm ==
    ASSUME AccountTypes, NEW d \in Devices, NEW r, job' = [job EXCEPT ![d] = r], job[d].at # "wrong", r.at # "wrong"
    PROVE  \A e \in Devices : JobCalm(e)
<1>1. job'[d] = r /\ \A e \in Devices : e # d => job'[e] = job[e]
    BY DEF AccountTypes
<1>2. QED
    BY <1>1 DEF JobCalm, Same

LEMMA PagesCalm ==
    ASSUME AccountInv, NEW d \in Devices, AccountsStep(d),
           ~ VerifyEmailRead(d), ~ Verify2faRead(d), ~ VerifyResetCode(d), ~ CountAttempt(d)
    PROVE  \A e \in Devices : JobCalm(e)
<1>a. AccountTypes /\ NoJob.at # "wrong"
    BY Blank DEF AccountInv
<1>1. CASE job' = job
    BY <1>1 DEF JobCalm, Same
<1>2. CASE Settle(d) /\ job[d].at # "wrong"
    BY <1>2, <1>a, JobsCalm DEF Settle
<1>3. ASSUME NEW op, NEW a, NEW n, Ask(d, op, a, n)
      PROVE  \A e \in Devices : JobCalm(e)
    <2> DEFINE r == [NoJob EXCEPT !.op = op, !.email = a, !.n = n]
    <2>1. job' = [job EXCEPT ![d] = r] /\ job[d] = NoJob /\ r.at # "wrong"
        BY <1>3 DEF Ask, NoJob
    <2> HIDE DEF r
    <2>2. QED
        BY <2>1, <1>a, JobsCalm
<1>4. CASE \/ RegisterPage(d) \/ VerifyEmailPage(d) \/ LoginPage(d) \/ Verify2faPage(d)
           \/ ForgotPasswordPage(d) \/ ResetPasswordPage(d)
    BY <1>3, <1>4 DEF RegisterPage, VerifyEmailPage, LoginPage, Verify2faPage, ForgotPasswordPage, ResetPasswordPage
<1>5. CASE InsertCode(d) \/ VerifyEmail(d) \/ Login2faRequired(d) \/ Login(d) \/ SendResetEmail(d) \/ ConfirmPasswordReset(d)
           \/ DeleteLocked(d) \/ Fails(d)
    BY <1>2, <1>5 DEF InsertCode, VerifyEmail, Login2faRequired, Login, SendResetEmail, ConfirmPasswordReset, DeleteLocked,
        Fails, GoesOn, Doing
<1>6. CASE ResendPage(d) \/ LogoutAllDevices(d) \/ SignOut(d) \/ Routes(d)
    BY <1>1, <1>6 DEF ResendPage, LogoutAllDevices, SignOut, Routes
<1>7. ASSUME NEW at \in {"open", "inserted", "ripe", "deleted"}, job' = [job EXCEPT ![d].at = at], job[d].at # "wrong"
      PROVE  \A e \in Devices : JobCalm(e)
    <2> DEFINE r == [job[d] EXCEPT !.at = at]
    <2>1. job' = [job EXCEPT ![d] = r] /\ r.at # "wrong"
        BY <1>7, <1>a DEF AccountTypes, Job
    <2> HIDE DEF r
    <2>2. QED
        BY <2>1, <1>7, <1>a, JobsCalm
<1>8. ASSUME NEW at \in {"read", "known"}, NEW i, job' = [job EXCEPT ![d].at = at, ![d].id = i], job[d].at # "wrong"
      PROVE  \A e \in Devices : JobCalm(e)
    <2> DEFINE r == [job[d] EXCEPT !.at = at, !.id = i]
    <2>1. job' = [job EXCEPT ![d] = r] /\ r.at # "wrong"
        BY <1>8, <1>a DEF AccountTypes, Job
    <2> HIDE DEF r
    <2>2. QED
        BY <2>1, <1>8, <1>a, JobsCalm
<1>9. CASE Register(d)
    <2>1. job[d].at # "wrong" /\ (Settle(d) \/ job' = [job EXCEPT ![d].at = "open"])
        BY <1>9, <1>a DEF Register, Doing, Settle, AccountTypes
    <2>2. QED
        BY <2>1, <1>2, <1>7
<1>10. CASE InsertUser(d)
    BY <1>10, <1>2, <1>7 DEF InsertUser, Doing
<1>11. CASE LoginRead(d)
    <2>1. job[d].at # "wrong" /\ (Settle(d) \/ \E i : job' = [job EXCEPT ![d].at = "read", ![d].id = i])
        BY <1>11, <1>a DEF LoginRead, Doing, Settle, AccountTypes
    <2>2. QED
        BY <2>1, <1>2, <1>8
<1>12. CASE RequestPasswordReset(d)
    BY <1>12, <1>2, <1>7, <1>8 DEF RequestPasswordReset, GoesOn, Doing
<1>13. CASE ConsumeResetCode(d)
    BY <1>13, <1>7 DEF ConsumeResetCode, Doing
<1>14. ASSUME NEW i \in Ids, NEW D \in SUBSET Devices, job' = Miscounts(i, D)
       PROVE  \A e \in Devices : JobCalm(e)
    BY <1>14, <1>a, MiscountsIs DEF JobCalm, Same
<1>15. CASE RevokeDevice(d) \/ UpdateDeviceLimit(d)
    <2>1. ASSUME NEW i \in Acting(d), NEW x \in Devices, job' = Miscounts(i, {x})
          PROVE  \A e \in Devices : JobCalm(e)
        BY <2>1, <1>14, ActingIs
    <2>2. ASSUME NEW i \in Acting(d), job' = Miscounts(i, Devices)
          PROVE  \A e \in Devices : JobCalm(e)
        BY <2>2, <1>14, ActingIs
    <2>3. CASE RevokeDevice(d)
        BY <2>1, <2>3 DEF RevokeDevice
    <2>4. CASE UpdateDeviceLimit(d)
        BY <2>2, <2>4, <1>1 DEF UpdateDeviceLimit
    <2>5. QED
        BY <1>15, <2>3, <2>4
<1>16. CASE Verify2faAndRegisterDevice(d)
    <2> DEFINE s == Miscounts(job[d].id, Devices)
               r == [NoJob EXCEPT !.op = "login", !.email = job[d].email, !.again = TRUE]
    <2>1. job' = [s EXCEPT ![d] = r] /\ job[d].at # "wrong" /\ job[d].id \in Ids /\ r.at # "wrong"
        BY <1>16 DEF Verify2faAndRegisterDevice, Doing, NoJob, AccountInv, JobInv
    <2>2. s \in [Devices -> Job] /\ \A e \in Devices : /\ s[e].op = job[e].op /\ s[e].at = job[e].at
            /\ s[e].email = job[e].email /\ s[e].id = job[e].id /\ s[e].n = job[e].n
        BY <2>1, <1>a, MiscountsIs
    <2> HIDE DEF s, r
    <2>3. job'[d] = r /\ \A e \in Devices : e # d => job'[e] = s[e]
        BY <2>1, <2>2
    <2>4. QED
        BY <2>1, <2>2, <2>3 DEF JobCalm, Same
<1>17. QED
    BY <1>4, <1>5, <1>6, <1>9, <1>10, <1>11, <1>12, <1>13, <1>15, <1>16 DEF AccountsStep, DeviceList

\* The codes: nothing, a new one, or fewer.
LEMMA IssuedCalm ==
    ASSUME AccountInv, NEW i, NEW p, NEW a, Issue(i, p, a)
    PROVE  (\A j \in Ids, q \in Purposes : SlotCalm(j, q)) /\ Len(sent) <= Len(sent')
<1>1. \A j \in Ids, q \in Purposes : codes'[j][q] = IF j = i /\ q = p THEN [NoCode EXCEPT !.n = Len(sent) + 1] ELSE codes[j][q]
    BY DEF Issue, AccountInv, AccountTypes
<1>2. [NoCode EXCEPT !.n = Len(sent) + 1].n = Len(sent) + 1
    BY DEF NoCode
<1>3. Len(sent) <= Len(sent')
    BY CodesOf DEF Issue, AccountInv, AccountTypes
<1>4. QED
    BY <1>1, <1>2, <1>3 DEF SlotCalm

LEMMA FewerCalm ==
    ASSUME AccountInv, \A i \in Ids, p \in Purposes : codes'[i][p] = codes[i][p] \/ codes'[i][p] = NoCode, sent' = sent
    PROVE  (\A i \in Ids, p \in Purposes : SlotCalm(i, p)) /\ Len(sent) <= Len(sent')
<1>1. NoCode.n = 0 /\ Len(sent) \in Nat
    BY Blank, CodesOf DEF AccountInv
<1>2. QED
    BY <1>1 DEF SlotCalm

LEMMA PagesCodes ==
    ASSUME AccountInv, NEW d \in Devices, AccountsStep(d), ~ CountAttempt(d)
    PROVE  (\A i \in Ids, p \in Purposes : SlotCalm(i, p)) /\ Len(sent) <= Len(sent')
<1>1. CASE UNCHANGED <<codes, sent>>
    BY <1>1, FewerCalm
<1>2. CASE InsertCode(d) \/ Login2faRequired(d) \/ SendResetEmail(d)
    BY <1>2, IssuedCalm DEF InsertCode, Login2faRequired, SendResetEmail
<1>a. codes \in [Ids -> [Purposes -> Code]]
    BY DEF AccountInv, AccountTypes
<1>3. CASE VerifyEmail(d)
    <2>1. \A i \in Ids : codes'[i] = codes[i] \/ codes'[i] = [codes[i] EXCEPT !.verify = NoCode]
        BY <1>3 DEF VerifyEmail
    <2>2. sent' = sent
        BY <1>3 DEF VerifyEmail
    <2>3. \A i \in Ids, p \in Purposes : codes'[i][p] = codes[i][p] \/ codes'[i][p] = NoCode
        BY <2>1, <1>a
    <2>4. QED
        BY <2>2, <2>3, FewerCalm
<1>4. CASE Verify2faAndRegisterDevice(d)
    <2>1. codes' = [codes EXCEPT ![job[d].id].login = NoCode] /\ sent' = sent
        BY <1>4 DEF Verify2faAndRegisterDevice
    <2>2. \A i \in Ids, p \in Purposes : codes'[i][p] = codes[i][p] \/ codes'[i][p] = NoCode
        BY <2>1, <1>a
    <2>3. QED
        BY <2>1, <2>2, FewerCalm
<1>5. CASE ConsumeResetCode(d)
    <2>1. codes' = [codes EXCEPT ![job[d].id].reset = NoCode] /\ sent' = sent
        BY <1>5 DEF ConsumeResetCode
    <2>2. \A i \in Ids, p \in Purposes : codes'[i][p] = codes[i][p] \/ codes'[i][p] = NoCode
        BY <2>1, <1>a
    <2>3. QED
        BY <2>1, <2>2, FewerCalm
<1>6. CASE ConfirmPasswordReset(d)
    <2>1. sent' = sent /\ \E i \in Ids : codes' = [codes EXCEPT ![i] = [p \in Purposes |-> NoCode]]
        BY <1>6 DEF ConfirmPasswordReset, At
    <2>2. \A i \in Ids, p \in Purposes : codes'[i][p] = codes[i][p] \/ codes'[i][p] = NoCode
        BY <2>1, <1>a
    <2>3. QED
        BY <2>1, <2>2, FewerCalm
<1>7. CASE DeleteLocked(d)
    <2>1. /\ codes' = [i \in Ids |-> [p \in Purposes |-> IF <<i, p>> \in Slots(d) THEN NoCode ELSE codes[i][p]]]
          /\ sent' = sent
        BY <1>7 DEF DeleteLocked
    <2>2. \A i \in Ids, p \in Purposes : codes'[i][p] = codes[i][p] \/ codes'[i][p] = NoCode
        BY <2>1
    <2>3. QED
        BY <2>1, <2>2, FewerCalm
<1>8. UNCHANGED <<codes, sent>> \/ InsertCode(d) \/ Login2faRequired(d) \/ SendResetEmail(d) \/ VerifyEmail(d)
      \/ Verify2faAndRegisterDevice(d) \/ ConsumeResetCode(d) \/ ConfirmPasswordReset(d) \/ DeleteLocked(d)
    BY DEF AccountsStep, RegisterPage, VerifyEmailPage, LoginPage, Verify2faPage, ForgotPasswordPage, ResetPasswordPage, Ask,
        Register, InsertUser, VerifyEmailRead, ResendPage, LoginRead, Login, Verify2faRead, RequestPasswordReset,
        VerifyResetCode, DeviceList, RevokeDevice, UpdateDeviceLimit, LogoutAllDevices, SignOut, Routes, Fails
<1>9. QED
    BY <1>1, <1>2, <1>3, <1>4, <1>5, <1>6, <1>7, <1>8

\* The addresses: an account that is new, or deleted, has no code.
LEMMA RowEmail ==
    ASSUME AccountInv, NEW t \in Ids, NEW row, accounts' = [accounts EXCEPT ![t] = row], row.email = accounts[t].email
    PROVE  \A i \in Ids : EmailCalm(i)
<1>1. accounts'[t] = row /\ \A i \in Ids : i # t => accounts'[i] = accounts[i]
    BY DEF AccountInv, AccountTypes
<1>2. QED
    BY <1>1 DEF EmailCalm

LEMMA PagesEmails ==
    ASSUME AccountInv, NEW d \in Devices, AccountsStep(d)
    PROVE  \A i \in Ids : EmailCalm(i)
<1>a. accounts \in [Ids -> Account]
    BY DEF AccountInv, AccountTypes
<1>1. CASE accounts' = accounts
    BY <1>1 DEF EmailCalm
<1>2. CASE InsertUser(d)
    <2>1. (\E i \in Ids : \E new : accounts[i].state = "none" /\ accounts' = [accounts EXCEPT ![i] = new])
          \/ accounts' = accounts
        BY <1>2 DEF InsertUser
    <2>2. ASSUME NEW i \in Ids, NEW new, accounts[i].state = "none", accounts' = [accounts EXCEPT ![i] = new]
          PROVE  \A j \in Ids : EmailCalm(j)
        <3>1. codes'[i].verify.n = 0
            <4>1. ~ Here(i) /\ "verify" \in Purposes
                BY <2>2 DEF Here, Purposes
            <4>2. codes[i]["verify"] = NoCode
                BY <4>1 DEF AccountInv, CodeInv
            <4>3. QED
                BY <4>2, <1>2, Blank DEF InsertUser
        <3>2. \A j \in Ids : j # i => accounts'[j] = accounts[j]
            BY <2>2, <1>a
        <3>3. QED
            BY <3>1, <3>2 DEF EmailCalm
    <2>3. QED
        BY <1>1, <2>1, <2>2
<1>3. CASE VerifyEmail(d)
    <2>1. \A i \in Ids : accounts'[i] = accounts[i] \/ accounts'[i] = [accounts[i] EXCEPT !.verified = TRUE]
        BY <1>3 DEF VerifyEmail
    <2>2. \A i \in Ids : [accounts[i] EXCEPT !.verified = TRUE].email = accounts[i].email
        BY <1>a DEF Account
    <2>3. QED
        BY <1>3, <2>1, <2>2 DEF EmailCalm, VerifyEmail
<1>4. ASSUME NEW i \in Ids, NEW S, NEW T,
             \/ accounts' = [accounts EXCEPT ![i].devices = S] \/ accounts' = [accounts EXCEPT ![i].refresh = S]
             \/ accounts' = [accounts EXCEPT ![i].cap = S]
             \/ accounts' = [accounts EXCEPT ![i].devices = S, ![i].refresh = T]
      PROVE  \A j \in Ids : EmailCalm(j)
    <2>1. accounts[i] \in Account
        BY <1>a
    <2>2. /\ [accounts[i] EXCEPT !.devices = S].email = accounts[i].email /\ [accounts[i] EXCEPT !.refresh = S].email = accounts[i].email
          /\ [accounts[i] EXCEPT !.cap = S].email = accounts[i].email
          /\ [accounts[i] EXCEPT !.devices = S, !.refresh = T].email = accounts[i].email
        BY <2>1 DEF Account
    <2>3. \/ accounts' = [accounts EXCEPT ![i] = [accounts[i] EXCEPT !.devices = S]]
          \/ accounts' = [accounts EXCEPT ![i] = [accounts[i] EXCEPT !.refresh = S]]
          \/ accounts' = [accounts EXCEPT ![i] = [accounts[i] EXCEPT !.cap = S]]
          \/ accounts' = [accounts EXCEPT ![i] = [accounts[i] EXCEPT !.devices = S, !.refresh = T]]
        BY <1>4, <1>a
    <2>4. QED
        BY <2>2, <2>3, RowEmail
<1>5. CASE Login(d) \/ Verify2faAndRegisterDevice(d)
    <2>1. job[d].id \in Ids
        BY <1>5 DEF Login, Verify2faAndRegisterDevice, Doing, AccountInv, JobInv
    <2>2. accounts' = [accounts EXCEPT ![job[d].id].refresh = accounts[job[d].id].refresh \cup {d}]
          \/ accounts' = [accounts EXCEPT ![job[d].id].devices = accounts[job[d].id].devices \cup {d}]
        BY <1>5, <2>1, <1>a DEF Login, Verify2faAndRegisterDevice
    <2>3. QED
        BY <2>1, <2>2, <1>4
<1>6. CASE RevokeDevice(d)
    <2>1. PICK i \in Acting(d), x \in Devices : accounts' = [accounts EXCEPT ![i].devices = @ \ {x}, ![i].refresh = @ \ {x}]
        BY <1>6 DEF RevokeDevice
    <2>2. i \in Ids
        BY ActingIs
    <2>3. accounts' = [accounts EXCEPT ![i].devices = accounts[i].devices \ {x}, ![i].refresh = accounts[i].refresh \ {x}]
        BY <2>1, <2>2, <1>a
    <2>4. QED
        BY <2>2, <2>3, <1>4
<1>7. CASE UpdateDeviceLimit(d) \/ LogoutAllDevices(d)
    BY <1>7, <1>4, ActingIs DEF UpdateDeviceLimit, LogoutAllDevices
<1>8. CASE SignOut(d)
    <2>1. signed[d].id \in Ids
        <3>1. signed[d].id # 0 /\ signed[d].id \in 0..MaxId
            BY <1>8 DEF SignOut, AccountInv, PageInv, AccountTypes, Token
        <3>2. QED
            BY SMT, <3>1, Bounds
    <2>2. accounts' = [accounts EXCEPT ![signed[d].id].refresh = accounts[signed[d].id].refresh \ {d}]
        BY <1>8, <2>1, <1>a DEF SignOut
    <2>3. QED
        BY <2>1, <2>2, <1>4
<1>9. CASE ConfirmPasswordReset(d)
    <2>1. PICK i \in At(job[d].email) :
              accounts' = [accounts EXCEPT ![i].owner = PersonOf[d], ![i].keyed = job[d].email, ![i].refresh = {}]
        BY <1>9 DEF ConfirmPasswordReset
    <2>2. i \in Ids /\ accounts[i] \in Account
        BY <1>a DEF At
    <2> DEFINE row == [accounts[i] EXCEPT !.owner = PersonOf[d], !.keyed = job[d].email, !.refresh = {}]
    <2>3. accounts' = [accounts EXCEPT ![i] = row]
        BY <2>1, <2>2, <1>a
    <2>4. row.email = accounts[i].email
        BY <2>2 DEF Account
    <2> HIDE DEF row
    <2>5. QED
        BY <2>2, <2>3, <2>4, RowEmail
<1>10. accounts' = accounts \/ InsertUser(d) \/ VerifyEmail(d) \/ Login(d) \/ Verify2faAndRegisterDevice(d) \/ DeviceList(d)
       \/ SignOut(d) \/ ConfirmPasswordReset(d)
    BY DEF AccountsStep, RegisterPage, VerifyEmailPage, LoginPage, Verify2faPage, ForgotPasswordPage, ResetPasswordPage, Ask,
        Register, InsertCode, VerifyEmailRead, ResendPage, LoginRead, Login2faRequired, Verify2faRead, RequestPasswordReset,
        SendResetEmail, VerifyResetCode, ConsumeResetCode, CountAttempt, DeleteLocked, Routes, Fails
<1>11. QED
    BY <1>1, <1>2, <1>3, <1>5, <1>6, <1>7, <1>8, <1>9, <1>10 DEF DeviceList

LEMMA PagesRename ==
    ASSUME AccountInv, NEW d \in Devices, AccountsStep(d)
    PROVE  crossed.renamed \subseteq crossed'.renamed
<1>1. ASSUME NEW i, NEW p, NEW room, Compare(d, i, p, room)
      PROVE  crossed'.renamed = crossed.renamed
    BY <1>1 DEF Compare, AccountInv, AccountTypes
<1>2. CASE VerifyEmailRead(d) \/ Verify2faRead(d) \/ VerifyResetCode(d)
    BY <1>1, <1>2 DEF VerifyEmailRead, Verify2faRead, VerifyResetCode
<1>3. CASE crossed' = crossed
    BY <1>3
<1>4. QED
    BY <1>2, <1>3 DEF AccountsStep, RegisterPage, VerifyEmailPage, LoginPage, Verify2faPage, ForgotPasswordPage,
        ResetPasswordPage, Ask, Register, InsertUser, InsertCode, VerifyEmail, ResendPage, LoginRead, Login2faRequired,
        Login, Verify2faAndRegisterDevice, RequestPasswordReset, SendResetEmail, ConsumeResetCode, ConfirmPasswordReset,
        CountAttempt, DeleteLocked, DeviceList, RevokeDevice, UpdateDeviceLimit, LogoutAllDevices, SignOut, Routes, Fails

LEMMA TasksQuiet ==
    ASSUME AccountInv, AccountsTasks
    PROVE  Quiet
<1>a. AccountTypes /\ accounts \in [Ids -> Account] /\ codes \in [Ids -> [Purposes -> Code]] /\ "verify" \in Purposes
    BY DEF AccountInv, AccountTypes, Purposes
<1>1. UNCHANGED <<job, guessed, crossed>>
    BY DEF AccountsTasks, ResendVerificationEmail, Ages, GrowsOld, CleanupExpiredTfaCodes, CleanupStaleUnverifiedAccounts
<1>2. (\A d \in Devices : JobCalm(d)) /\ guessed' = guessed /\ crossed.renamed \subseteq crossed'.renamed
    BY <1>1 DEF JobCalm, Same
<1>3. accounts' = accounts => \A i \in Ids : EmailCalm(i)
    BY DEF EmailCalm
<1>4. ASSUME NEW m, ResendVerificationEmail(m)
      PROVE  (\A i \in Ids, p \in Purposes : SlotCalm(i, p)) /\ Len(sent) <= Len(sent') /\ accounts' = accounts
    BY <1>4, IssuedCalm, FewerCalm DEF ResendVerificationEmail
<1>5. ASSUME NEW i \in Ids, NEW p \in Purposes, Ages(i, p)
      PROVE  (\A j \in Ids, q \in Purposes : SlotCalm(j, q)) /\ Len(sent) <= Len(sent') /\ accounts' = accounts
    <2> DEFINE c == [codes[i][p] EXCEPT !.age = IF codes[i][p].age = "new" THEN "ripe" ELSE "late"]
    <2>1. codes' = [codes EXCEPT ![i][p] = c] /\ sent' = sent /\ accounts' = accounts
        BY <1>5 DEF Ages, AccountInv, AccountTypes
    <2>2. c.n = codes[i][p].n /\ c.tries = codes[i][p].tries
        BY <1>a DEF Code
    <2> HIDE DEF c
    <2>3. \A j \in Ids, q \in Purposes : codes'[j][q] = IF j = i /\ q = p THEN c ELSE codes[j][q]
        BY <2>1, <1>a
    <2>4. Len(sent) \in Nat
        BY <1>a, CodesOf
    <2>5. QED
        BY <2>1, <2>2, <2>3, <2>4 DEF SlotCalm
<1>6. ASSUME CleanupExpiredTfaCodes
      PROVE  (\A j \in Ids, q \in Purposes : SlotCalm(j, q)) /\ Len(sent) <= Len(sent') /\ accounts' = accounts
    BY <1>6, FewerCalm DEF CleanupExpiredTfaCodes
<1>7. ASSUME NEW i \in Ids, GrowsOld(i)
      PROVE  (\A j \in Ids, q \in Purposes : SlotCalm(j, q)) /\ Len(sent) <= Len(sent') /\ \A j \in Ids : EmailCalm(j)
    <2>1. accounts[i] \in Account /\ accounts' = [accounts EXCEPT ![i] = [accounts[i] EXCEPT !.old = TRUE]]
        BY <1>7, <1>a DEF GrowsOld
    <2> DEFINE row == [accounts[i] EXCEPT !.old = TRUE]
    <2>2. row.email = accounts[i].email /\ accounts' = [accounts EXCEPT ![i] = row]
        BY <2>1 DEF Account
    <2> HIDE DEF row
    <2>3. \A j \in Ids : EmailCalm(j)
        BY <2>2, RowEmail
    <2>4. UNCHANGED <<codes, sent>>
        BY <1>7 DEF GrowsOld
    <2>5. QED
        BY <2>3, <2>4, FewerCalm
<1>8. ASSUME CleanupStaleUnverifiedAccounts
      PROVE  (\A j \in Ids, q \in Purposes : SlotCalm(j, q)) /\ Len(sent) <= Len(sent') /\ \A j \in Ids : EmailCalm(j)
    <2>1. /\ codes' = [i \in Ids |-> IF i \in Stale THEN [p \in Purposes |-> NoCode] ELSE codes[i]]
          /\ accounts' = [i \in Ids |-> IF i \in Stale THEN Gone(i) ELSE accounts[i]] /\ sent' = sent
        BY <1>8 DEF CleanupStaleUnverifiedAccounts
    <2>2. \A i \in Ids, p \in Purposes : codes'[i][p] = codes[i][p] \/ codes'[i][p] = NoCode
        BY <2>1
    <2>3. ASSUME NEW i \in Ids PROVE EmailCalm(i)
        <3>1. CASE i \in Stale
            <4>1. codes'[i]["verify"] = NoCode
                BY <2>1, <3>1, <1>a
            <4>2. QED
                BY <4>1, Blank DEF EmailCalm
        <3>2. CASE i \notin Stale
            BY <2>1, <3>2 DEF EmailCalm
        <3>3. QED
            BY <3>1, <3>2
    <2>4. QED
        BY <2>1, <2>2, <2>3, FewerCalm
<1>9. (\A i \in Ids, p \in Purposes : SlotCalm(i, p)) /\ Len(sent) <= Len(sent') /\ \A i \in Ids : EmailCalm(i)
    BY <1>3, <1>4, <1>5, <1>6, <1>7, <1>8 DEF AccountsTasks
<1>10. QED
    BY <1>2, <1>9 DEF Quiet

\* An account that is renamed takes its code among those an answer may miss.
LEMMA ActsQuiet ==
    ASSUME AccountInv, ActInv, NEW a \in acts, Handle(a)
    PROVE  Quiet
<1>a. AccountTypes /\ accounts \in [Ids -> Account] /\ "verify" \in Purposes /\ codes \in [Ids -> [Purposes -> Code]]
    BY DEF AccountInv, AccountTypes, Purposes
<1>1. UNCHANGED <<job, guessed, sent>>
    BY DEF Handle, ActFails, accVars, UpdateUserRole, UpdateSuspended, AdminUpdateUserEmail, DeleteUser, RevokeUserSessions,
        UpdateExtensionEmailChange, UpdateServerChoiceInSettings, UpdateQuotas, Writes
<1>2. (\A d \in Devices : JobCalm(d)) /\ guessed' = guessed
    BY <1>1 DEF JobCalm, Same
<1>3. UNCHANGED codes => (\A i \in Ids, p \in Purposes : SlotCalm(i, p)) /\ Len(sent) <= Len(sent')
    BY <1>1, FewerCalm
<1>4. ASSUME NEW t \in At(a.on), NEW row, Writes(a, t, row), row.email = accounts[t].email, UNCHANGED <<codes, crossed>>
      PROVE  Quiet
    <2>1. \A i \in Ids : EmailCalm(i)
        BY <1>4, RowEmail DEF Writes, At
    <2>2. QED
        BY <2>1, <1>2, <1>3, <1>4 DEF Quiet
<1>5. ASSUME NEW t \in At(a.on) PROVE t \in Ids /\ accounts[t] \in Account
    BY <1>a DEF At
<1>6. ASSUME NEW t \in At(a.on), UpdateUserRole(a, t)
      PROVE  Quiet
    <2> DEFINE row == [accounts[t] EXCEPT !.moderator = a.arg]
    <2>1. row.email = accounts[t].email
        BY <1>5 DEF Account
    <2>2. Writes(a, t, row) /\ UNCHANGED <<codes, crossed>>
        BY <1>6 DEF UpdateUserRole
    <2> HIDE DEF row
    <2>3. QED
        BY <1>4, <2>1, <2>2
<1>7. ASSUME NEW t \in At(a.on), UpdateSuspended(a, t)
      PROVE  Quiet
    <2> DEFINE row == [accounts[t] EXCEPT !.suspended = a.arg, !.refresh = IF a.arg THEN {} ELSE accounts[t].refresh]
    <2>1. row.email = accounts[t].email
        BY <1>5 DEF Account
    <2>2. Writes(a, t, row) /\ UNCHANGED <<codes, crossed>>
        BY <1>7 DEF UpdateSuspended
    <2> HIDE DEF row
    <2>3. QED
        BY <1>4, <2>1, <2>2
<1>8. ASSUME NEW t \in At(a.on), RevokeUserSessions(a, t)
      PROVE  Quiet
    <2> DEFINE row == [accounts[t] EXCEPT !.refresh = {}]
    <2>1. row.email = accounts[t].email
        BY <1>5 DEF Account
    <2>2. Writes(a, t, row) /\ UNCHANGED <<codes, crossed>>
        BY <1>8 DEF RevokeUserSessions
    <2> HIDE DEF row
    <2>3. QED
        BY <1>4, <2>1, <2>2
<1>9. ASSUME NEW t \in At(a.on), UpdateExtensionEmailChange(a, t) \/ UpdateServerChoiceInSettings(a, t) \/ UpdateQuotas(a, t)
      PROVE  Quiet
    BY <1>4, <1>9 DEF UpdateExtensionEmailChange, UpdateServerChoiceInSettings, UpdateQuotas
<1>10. ASSUME NEW t \in At(a.on), AdminUpdateUserEmail(a, t)
       PROVE  Quiet
    <2> DEFINE row == [accounts[t] EXCEPT !.email = a.arg, !.refresh = {}]
    <2>1. accounts' = [accounts EXCEPT ![t] = row] /\ codes' = codes
        BY <1>10 DEF AdminUpdateUserEmail, Writes
    <2> HIDE DEF row
    <2>2. crossed.renamed \subseteq crossed'.renamed /\ codes[t].verify.n \in crossed'.renamed \cup {0}
        BY <1>10 DEF AdminUpdateUserEmail
    <2>3. \A i \in Ids : i # t => accounts'[i] = accounts[i]
        BY <2>1, <1>a
    <2>4. \A i \in Ids : EmailCalm(i)
        BY <2>1, <2>2, <2>3 DEF EmailCalm
    <2>5. QED
        BY <2>1, <2>2, <2>4, <1>2, <1>3 DEF Quiet
<1>11. ASSUME NEW t \in At(a.on), DeleteUser(a, t)
       PROVE  Quiet
    <2>1. /\ codes' = [codes EXCEPT ![t] = [p \in Purposes |-> NoCode]] /\ accounts' = [accounts EXCEPT ![t] = Gone(t)]
          /\ crossed' = crossed
        BY <1>11 DEF DeleteUser, Writes
    <2>2. \A i \in Ids, p \in Purposes : codes'[i][p] = codes[i][p] \/ codes'[i][p] = NoCode
        BY <2>1, <1>a
    <2>3. \A i \in Ids : i # t => accounts'[i] = accounts[i]
        BY <2>1, <1>a
    <2>4. codes'[t]["verify"] = NoCode
        BY <2>1, <1>a, <1>5
    <2>5. \A i \in Ids : EmailCalm(i)
        BY <2>3, <2>4, Blank DEF EmailCalm
    <2>6. QED
        BY <2>1, <2>2, <2>5, <1>1, <1>2, FewerCalm DEF Quiet
<1>12. CASE ActFails(a)
    <2>1. UNCHANGED <<accounts, codes, crossed>>
        BY <1>12 DEF ActFails, accVars
    <2>2. QED
        BY <2>1, <1>2, <1>3 DEF Quiet, EmailCalm
<1>13. QED
    BY <1>6, <1>7, <1>8, <1>9, <1>10, <1>11, <1>12 DEF Handle

\* Every step but a guess, and its counting, leaves the guesses alone.
LEMMA GuessStep ==
    ASSUME AccountInv, AccountInv', ConsoleInv, GuessInv, [Next]_vars
    PROVE  /\ GuessInv'
           /\ \A n \in 1..MaxCode : guessed'[n] > guessed[n] =>
                guessed[n] < MaxTries + Cardinality(Guessing(n)) \/ n \in crossed.renamed
<1> DEFINE Limit == \A n \in 1..MaxCode : guessed'[n] > guessed[n] =>
                guessed[n] < MaxTries + Cardinality(Guessing(n)) \/ n \in crossed.renamed
<1>a. guessed' = guessed => Limit
    BY DEF GuessInv, GuessTypes
<1>b. Quiet => GuessInv' /\ guessed' = guessed
    BY QuietKeeps DEF Quiet
<1>c. Quiet => GuessInv' /\ Limit
    BY <1>a, <1>b
<1>1. ASSUME NEW d \in Devices, NEW p \in Purposes, NEW i \in At(job[d].email), NEW room, Compare(d, i, p, room),
             p = PurposeOf(job[d].op), job[d].at = "sent", UNCHANGED <<accounts, codes, sent>>
      PROVE  GuessInv' /\ Limit
    <2>1. CASE guessed' # guessed
        BY <1>1, <2>1, GuessesWrong
    <2>2. CASE guessed' = guessed
        <3>1. job'[d].at # "wrong" /\ \A e \in Devices : e # d => job'[e] = job[e]
            <4>1. ASSUME NEW at \in {"read", "locked"}, NEW n, job' = [job EXCEPT ![d].at = at, ![d].id = i, ![d].n = n]
                  PROVE  job'[d].at # "wrong" /\ \A e \in Devices : e # d => job'[e] = job[e]
                <5> DEFINE r == [job[d] EXCEPT !.at = at, !.id = i, !.n = n]
                <5>0. job[d] \in Job
                    BY DEF AccountInv, AccountTypes
                <5>1. r.at = at
                    BY <5>0 DEF Job
                <5>3. job' = [job EXCEPT ![d] = r]
                    BY <4>1 DEF AccountInv, AccountTypes
                <5> HIDE DEF r
                <5>2. QED
                    BY <5>1, <5>3 DEF AccountInv, AccountTypes
            <4>2. ASSUME job' = [job EXCEPT ![d].at = "read", ![d].id = i]
                  PROVE  job'[d].at # "wrong" /\ \A e \in Devices : e # d => job'[e] = job[e]
                <5> DEFINE r == [job[d] EXCEPT !.at = "read", !.id = i]
                <5>0. job[d] \in Job
                    BY DEF AccountInv, AccountTypes
                <5>1. r.at = "read"
                    BY <5>0 DEF Job
                <5>3. job' = [job EXCEPT ![d] = r]
                    BY <4>2 DEF AccountInv, AccountTypes
                <5> HIDE DEF r
                <5>2. QED
                    BY <5>1, <5>3 DEF AccountInv, AccountTypes
            <4>3. ASSUME Settle(d)
                  PROVE  job'[d].at # "wrong" /\ \A e \in Devices : e # d => job'[e] = job[e]
                BY <4>3, Blank DEF Settle, AccountInv, AccountTypes
            <4>4. ~ (guessed' = [guessed EXCEPT ![codes[i][p].n] = @ + 1] /\ codes[i][p].n # 0)
                <5>1. codes[i][p].n # 0 => codes[i][p].n \in 1..MaxCode
                    BY <1>1, CodesOf, Bounds DEF AccountInv, Code, At
                <5>2. QED
                    BY <5>1, <2>2 DEF GuessInv, GuessTypes
            <4>5. QED
                BY <1>1, <4>1, <4>2, <4>3, <4>4 DEF Compare
        <3>2. \A e \in Devices : JobCalm(e)
            BY <3>1, <1>1 DEF JobCalm, Same
        <3>3. crossed.renamed \subseteq crossed'.renamed
            BY <1>1 DEF Compare, AccountInv, AccountTypes
        <3>4. (\A j \in Ids, q \in Purposes : SlotCalm(j, q)) /\ Len(sent) <= Len(sent') /\ \A j \in Ids : EmailCalm(j)
            BY <1>1, FewerCalm DEF EmailCalm
        <3>5. QED
            BY <3>2, <3>3, <3>4, <2>2, <1>c DEF Quiet
    <2>3. QED
        BY <2>1, <2>2
<1>2. ASSUME NEW d \in Devices, AccountsStep(d)
      PROVE  GuessInv' /\ Limit
    <2>1. CASE VerifyEmailRead(d)
        BY <1>1, <2>1 DEF VerifyEmailRead, Doing, PurposeOf, Purposes
    <2>2. CASE Verify2faRead(d)
        BY <1>1, <2>2 DEF Verify2faRead, Doing, PurposeOf, Purposes
    <2>3. CASE VerifyResetCode(d)
        BY <1>1, <2>3 DEF VerifyResetCode, Doing, PurposeOf, Purposes
    <2>4. CASE CountAttempt(d)
        BY <1>a, <2>4, CountKeeps DEF CountAttempt
    <2>5. CASE ~ VerifyEmailRead(d) /\ ~ Verify2faRead(d) /\ ~ VerifyResetCode(d) /\ ~ CountAttempt(d)
        <3>1. guessed' = guessed
            BY <1>2, <2>5 DEF AccountsStep, RegisterPage, VerifyEmailPage, LoginPage, Verify2faPage, ForgotPasswordPage,
                ResetPasswordPage, Ask, Register, InsertUser, InsertCode, VerifyEmail, ResendPage, LoginRead,
                Login2faRequired, Login, Verify2faAndRegisterDevice, RequestPasswordReset, SendResetEmail, ConsumeResetCode,
                ConfirmPasswordReset, DeleteLocked, DeviceList, RevokeDevice, UpdateDeviceLimit, LogoutAllDevices, SignOut,
                Routes, Fails
        <3>2. Quiet
            BY <3>1, <1>2, <2>5, PagesCalm, PagesCodes, PagesEmails, PagesRename DEF Quiet
        <3>3. QED
            BY <3>2, <1>c
    <2>6. QED
        BY <2>1, <2>2, <2>3, <2>4, <2>5
<1>3. UNCHANGED <<accounts, codes, sent, job, guessed, crossed>> => Quiet
    BY FewerCalm DEF Quiet, EmailCalm, JobCalm, Same
<1>4. ASSUME NEW d \in Devices, ConsoleStep(d)
      PROVE  GuessInv' /\ Limit
    <2>1. UNCHANGED accVars \/ HandleToggleRegistration(d)
        BY <1>4 DEF ConsoleStep, OpenList, UsersSection, RenderUserActions, HandleToggleRole, HandleToggleSuspended,
            HandleChangeEmail, HandleDelete, HandleRevokeSessions, HandleToggleExtensionEmailChange,
            HandleToggleServerChoiceInSettings, HandleEditQuotas, Act, RenderBulkFlagRow, ReadGlobals,
            ServerChoiceAtLoginSection, HandleShowIpHistory, HandleToggleHealth, RenderHealthPanel, BugReportModal,
            FeatureSuggestionModal, Noted, OpenDesk, BugReportsSection, FeatureSuggestionsSection, Treat
    <2>2. UNCHANGED <<accounts, codes, sent, job, guessed, crossed>>
        BY <2>1 DEF accVars, HandleToggleRegistration
    <2>3. QED
        BY <2>2, <1>3, <1>c
<1>5. CASE (\E a \in acts : Authorize(a)) \/ (\E r \in reads : ListUsers(r) \/ Load(r)) \/ \E q \in asks : GetUserIpHistory(q)
    <2>1. UNCHANGED <<accounts, codes, sent, job, guessed, crossed>>
        BY <1>5 DEF Authorize, ListUsers, Load, GetUserIpHistory, accVars
    <2>2. QED
        BY <2>1, <1>3, <1>c
<1>6. CASE UNCHANGED vars
    <2>1. UNCHANGED <<accounts, codes, sent, job, guessed, crossed>>
        BY <1>6 DEF vars, accVars
    <2>2. QED
        BY <2>1, <1>3, <1>c
<1>7. CASE AccountsTasks
    BY <1>7, TasksQuiet, <1>c
<1>8. ASSUME NEW a \in acts, Handle(a)
      PROVE  GuessInv' /\ Limit
    BY <1>8, ActsQuiet, <1>c DEF ConsoleInv
<1>9. QED
    BY <1>2, <1>4, <1>5, <1>6, <1>7, <1>8 DEF Next

LEMMA GuessBegins ==
    ASSUME Init
    PROVE  GuessInv
<1>1. /\ guessed = [n \in 1..MaxCode |-> 0] /\ job = [d \in Devices |-> NoJob]
      /\ codes \in [Ids -> [Purposes -> Code]]
    BY DEF Init, Starts
<1>2. GuessTypes
    BY <1>1 DEF GuessTypes
<1>3. WrongInv
    BY <1>1, Blank DEF WrongInv
<1>4. ASSUME NEW i \in Ids, NEW p \in Purposes, codes[i][p].n # 0
      PROVE  guessed[codes[i][p].n] <= codes[i][p].tries + Cardinality(Guessing(codes[i][p].n))
    <2>1. codes[i][p].n \in 1..MaxCode /\ codes[i][p].tries \in Nat
        BY <1>1, <1>4, Bounds DEF Code
    <2>2. guessed[codes[i][p].n] = 0 /\ Cardinality(Guessing(codes[i][p].n)) \in Nat
        BY <1>1, <2>1, GuessingIs
    <2> HIDE <1>1
    <2>3. QED
        BY <2>1, <2>2
<1>5. QED
    BY <1>2, <1>3, <1>4 DEF GuessInv, CountInv

\* A wrong guess is compared with a code only while fewer than MAX_CODE_ATTEMPTS are
\* counted: those beyond the limit all waited to be counted together, or their account
\* was renamed under them.
THEOREM GuessesAreCounted == Spec => GuessesCounted
<1>1. Init => AccountInv /\ ConsoleInv /\ GuessInv
    BY Begins, GuessBegins
<1>2. AccountInv /\ ConsoleInv /\ GuessInv /\ [Next]_vars => (AccountInv /\ ConsoleInv /\ GuessInv)'
    BY StepKeeps, GuessStep
<1>3. AccountInv /\ ConsoleInv /\ GuessInv /\ [Next]_vars =>
        [\A n \in 1..MaxCode :
            guessed'[n] > guessed[n] => guessed[n] < MaxTries + Cardinality(Guessing(n)) \/ n \in crossed.renamed]_accVars
    BY StepKeeps, GuessStep
<1>4. QED
    BY <1>1, <1>2, <1>3, PTL DEF Spec, GuessesCounted
=============================================================================
