---------------------------- MODULE ClientProofs ----------------------------
(***************************************************************************)
(* Theorems about Client, for any devices, entries, folders, size of a     *)
(* page and of a batch.                                                    *)
(*                                                                         *)
(* What the screens, the reads and the requests hold are copies of rows,   *)
(* of the day or older.  The invariant says how old a copy may be and what *)
(* its version tells of it (Faithful), and, for an act on a selection, in  *)
(* which of its stages each of its entries is (StagesInv).                 *)
(***************************************************************************)
EXTENDS Client, FiniteSetTheorems, TLAPS

Row == [state : States, version : 0..MaxVersion, fav : BOOLEAN, folder : Folders]
Copy == [on : Ids, version : 0..MaxVersion, fav : BOOLEAN, folder : Folders]
Request == [d : Devices, do : Writes, on : Ids \cup {0}, at : {"sent", "answered", "refused"},
            expected : Nat, fav : BOOLEAN, folder : Folders, read : Copy \cup {NoForm}, job : BOOLEAN]
Load == [d : Devices, offset : Nat, got : SUBSET Copy, whole : BOOLEAN]
Page == [shown : SUBSET Copy, sel : SUBSET Ids, trash : SUBSET Ids, form : Copy \cup {NoForm}, err : BOOLEAN]
Job == [kind : {"none", "delete", "favorite", "update"}, all : SUBSET Ids, todo : SUBSET Copy,
        want : BOOLEAN, folder : Folders, failed : BOOLEAN, disturbed : BOOLEAN, keepsSel : BOOLEAN]

Rows == {v \in [Ids -> Row] : \A e \in Ids : v[e].state = "none" <=> v[e].version = 0}

\* A copy of a row of the vault v: not from its future, and with its text if
\* it has its version.
Faithful(x, v) ==
    /\ x \in Copy /\ x.version \in 1..v[x.on].version
    /\ x.version = v[x.on].version => x.folder = v[x.on].folder

PageShape(p, v) ==
    /\ p \in Page /\ IsFiniteSet(p.shown)
    /\ \A x \in p.shown : Faithful(x, v)
    /\ p.form # NoForm => Faithful(p.form, v)
    /\ \A e \in p.sel : v[e].state # "none"

LoadShape(l, v) ==
    l \in Load /\ IsFiniteSet(l.got) /\ \A x \in l.got : Faithful(x, v)

RequestShape(r, v) ==
    /\ r \in Request
    /\ r.do # "add" => r.on \in Ids
    /\ r.do = "update" => Faithful(r.read, v) /\ r.read.on = r.on /\ r.expected = r.read.version

JobShape(j, v) ==
    /\ j \in Job /\ IsFiniteSet(j.todo)
    /\ j = NoJob \/ j.kind # "none"
    /\ {x.on : x \in j.todo} \subseteq j.all
    /\ j.kind # "delete" => \A x \in j.todo : Faithful(x, v)
    /\ \A e \in j.all : v[e].state # "none"

\* A request of an act belongs to the act under way.
Fits(r, j) ==
    r.on \in j.all /\ r.do = j.kind /\ (r.do = "update" => r.folder = j.folder)

CopiesInv ==
    /\ vault \in Rows
    /\ page \in [Devices -> Page] /\ \A d \in Devices : PageShape(page[d], vault)
    /\ \A l \in loads : LoadShape(l, vault)
    /\ \A r \in reqs : RequestShape(r, vault)
    /\ job \in [Devices -> Job] /\ \A d \in Devices : JobShape(job[d], vault)
    /\ \A r \in reqs : r.job => Fits(r, job[r.d])
    /\ \A d \in Devices : IsFiniteSet(JobOf(d)) /\ Cardinality(JobOf(d)) <= Limit
    /\ signal \cup online \cup behind \subseteq Desktops
    /\ spent \in 0..MaxOps /\ lost \subseteq {"favorite"}

\* What an act asks of entry e.
Wanted(j, e, v) ==
    CASE j.kind = "delete" -> v[e].state = "trash"
      [] j.kind = "favorite" -> v[e].fav = j.want
      [] OTHER -> v[e].folder = j.folder

\* While an act goes on with no failure and nobody in the way, each of its
\* entries is still to come, asked for, refused or as wanted, and a mark to
\* invert is asked for once.
Stages(d) ==
    LET j == job[d] IN
    /\ ~ j.failed => \A e \in j.all :
         \/ \E x \in j.todo : x.on = e
         \/ \E r \in JobOf(d) : r.on = e /\ r.at # "answered"
         \/ Wanted(j, e, vault)
    /\ j.kind = "favorite" =>
         /\ \A x \in j.todo : vault[x.on].fav # j.want
         /\ \A r \in JobOf(d) : r.at = "sent" => vault[r.on].fav # j.want
         /\ \A x, y \in j.todo : x.on = y.on => x = y
         /\ \A x \in j.todo, r \in JobOf(d) : x.on # r.on
         /\ \A q, r \in JobOf(d) : q.on = r.on => q = r

StagesInv == \A d \in Devices : job[d] # NoJob /\ ~ job[d].disturbed => Stages(d)

USE ClientAssumption

-----------------------------------------------------------------------------
\* How a step of the server may change the vault: a text only with its
\* version, which grows.
Grown(v, w) ==
    /\ w \in Rows
    /\ \A e \in Ids : /\ v[e].version <= w[e].version
                      /\ v[e].version # 0 /\ v[e].version = w[e].version => w[e].folder = v[e].folder

LEMMA RowFacts ==
    ASSUME NEW v \in Rows, NEW e \in Ids
    PROVE  /\ v[e] \in Row /\ v[e].version \in 0..MaxVersion /\ v[e].version \in Nat
           /\ v[e].state = "none" <=> v[e].version = 0
  BY DEF Rows, Row

LEMMA NotGrown == ASSUME vault \in Rows, UNCHANGED vault PROVE Grown(vault, vault')
  BY RowFacts DEF Grown

LEMMA FaithfulGrows ==
    ASSUME NEW v \in Rows, NEW w, Grown(v, w), NEW x, Faithful(x, v) PROVE Faithful(x, w)
<1>1. x.on \in Ids /\ x.version \in Nat
    BY DEF Faithful, Copy
<1>2. v[x.on].version \in Nat /\ w[x.on].version \in Nat
    BY <1>1, RowFacts DEF Grown
<1>3. v[x.on].version <= w[x.on].version
    BY <1>1 DEF Grown
<1>4. x.version \in 1..w[x.on].version
    BY <1>1, <1>2, <1>3 DEF Faithful
<1>5. ASSUME x.version = w[x.on].version PROVE x.folder = w[x.on].folder
  <2>1. x.version = v[x.on].version /\ v[x.on].version # 0 /\ v[x.on].version = w[x.on].version
    BY <1>1, <1>2, <1>3, <1>5 DEF Faithful
  <2> QED
    BY <1>1, <2>1 DEF Faithful, Grown
<1> QED
    BY <1>4, <1>5 DEF Faithful

LEMMA KnownGrows ==
    ASSUME NEW v \in Rows, NEW w, Grown(v, w), NEW e \in Ids, v[e].state # "none" PROVE w[e].state # "none"
<1>1. v[e].version \in Nat /\ v[e].version # 0
    BY RowFacts
<1>2. v[e].version <= w[e].version /\ w \in Rows
    BY DEF Grown
<1>3. w[e].version \in Nat /\ (w[e].state = "none" <=> w[e].version = 0)
    BY <1>2, RowFacts
<1> QED
    BY <1>1, <1>2, <1>3

\* Copies stay what they are when the vault changes.
LEMMA CopiesFrame ==
    ASSUME CopiesInv, Grown(vault, vault'),
           page' \in [Devices -> Page], \A d \in Devices : PageShape(page'[d], vault),
           \A l \in loads' : LoadShape(l, vault),
           \A r \in reqs' : RequestShape(r, vault),
           job' \in [Devices -> Job], \A d \in Devices : JobShape(job'[d], vault),
           \A r \in reqs' : r.job => Fits(r, job'[r.d]),
           \A d \in Devices : IsFiniteSet(JobOf(d)') /\ Cardinality(JobOf(d)') <= Limit,
           signal' \cup online' \cup behind' \subseteq Desktops, spent' \in 0..MaxOps, lost' \subseteq {"favorite"}
    PROVE  CopiesInv'
<1>1. vault \in Rows /\ vault' \in Rows
    BY DEF CopiesInv, Grown
<1>2. \A d \in Devices : PageShape(page'[d], vault')
  <2> SUFFICES ASSUME NEW d \in Devices PROVE PageShape(page'[d], vault')
    OBVIOUS
  <2>1. PageShape(page'[d], vault) /\ page'[d].sel \subseteq Ids
    BY DEF PageShape, Page
  <2> QED
    BY <1>1, <2>1, FaithfulGrows, KnownGrows DEF PageShape
<1>3. \A l \in loads' : LoadShape(l, vault')
    BY <1>1, FaithfulGrows DEF LoadShape
<1>4. \A r \in reqs' : RequestShape(r, vault')
    BY <1>1, FaithfulGrows DEF RequestShape
<1>5. \A d \in Devices : JobShape(job'[d], vault')
  <2> SUFFICES ASSUME NEW d \in Devices PROVE JobShape(job'[d], vault')
    OBVIOUS
  <2>1. JobShape(job'[d], vault) /\ job'[d].all \subseteq Ids
    BY DEF JobShape, Job
  <2> QED
    BY <1>1, <2>1, FaithfulGrows, KnownGrows DEF JobShape
<1> QED
    BY <1>1, <1>2, <1>3, <1>4, <1>5 DEF CopiesInv

LEMMA Counted ==
    ASSUME NEW S, IsFiniteSet(S), NEW r \in S, NEW q
    PROVE  IsFiniteSet((S \ {r}) \cup {q}) /\ Cardinality((S \ {r}) \cup {q}) <= Cardinality(S)
<1>1. IsFiniteSet(S \ {r}) /\ Cardinality(S \ {r}) = Cardinality(S) - 1
    BY FS_RemoveElement
<1>2. Cardinality(S) \in Nat /\ Cardinality(S \ {r}) \in Nat
    BY <1>1, FS_CardinalityType
<1>3. /\ IsFiniteSet((S \ {r}) \cup {q})
      /\ Cardinality((S \ {r}) \cup {q}) = Cardinality(S \ {r}) \/ Cardinality((S \ {r}) \cup {q}) = Cardinality(S \ {r}) + 1
    BY <1>1, FS_AddElement
<1> QED
    BY <1>1, <1>2, <1>3

LEMMA InitCopies == Init => CopiesInv
<1> SUFFICES ASSUME Init PROVE CopiesInv
    OBVIOUS
<1>1. vault \in Rows
    BY DEF Init, Rows, Row, NoRow, States
<1>2. NoPage \in Page /\ IsFiniteSet(NoPage.shown) /\ \A v : PageShape(NoPage, v)
    BY FS_EmptySet DEF NoPage, Page, PageShape
<1>3. NoJob \in Job /\ IsFiniteSet(NoJob.todo) /\ \A v : JobShape(NoJob, v)
    BY FS_EmptySet DEF NoJob, Job, JobShape
<1>4. ASSUME NEW d \in Devices PROVE LoadShape(NewLoad(d), vault)
    BY FS_EmptySet DEF NewLoad, LoadShape, Load
<1>5. ASSUME NEW d \in Devices PROVE IsFiniteSet(JobOf(d)) /\ Cardinality(JobOf(d)) <= Limit
  <2>1. JobOf(d) = {}
    BY DEF Init, JobOf
  <2> QED
    BY <2>1, FS_EmptySet
<1>6. /\ page \in [Devices -> Page] /\ \A d \in Devices : PageShape(page[d], vault)
      /\ job \in [Devices -> Job] /\ \A d \in Devices : JobShape(job[d], vault)
    BY <1>2, <1>3 DEF Init
<1>7. \A l \in loads : LoadShape(l, vault)
    BY <1>4 DEF Init
<1>8. reqs = {} /\ spent \in 0..MaxOps /\ lost \subseteq {"favorite"}
    BY DEF Init
<1>9. signal \cup online \cup behind \subseteq Desktops
    BY DEF Init
<1> QED
    BY <1>1, <1>5, <1>6, <1>7, <1>8, <1>9 DEF CopiesInv

-----------------------------------------------------------------------------
(* The server.                                                             *)

\* A request that moves on, its act with it or disturbed.
LEMMA MovesFrame ==
    ASSUME CopiesInv, NEW r \in reqs, NEW at \in {"sent", "answered", "refused"}, Moves(r, at),
           UNCHANGED job \/ Disturbs(r)
    PROVE  /\ \A q \in reqs' : RequestShape(q, vault)
           /\ job' \in [Devices -> Job] /\ \A d \in Devices : JobShape(job'[d], vault)
           /\ \A q \in reqs' : q.job => Fits(q, job'[q.d])
           /\ \A d \in Devices : IsFiniteSet(JobOf(d)') /\ Cardinality(JobOf(d)') <= Limit
<1> DEFINE m == [r EXCEPT !.at = at]
<1>1. RequestShape(r, vault) /\ r \in Request
    BY DEF CopiesInv, RequestShape
<1>2. /\ m \in Request /\ m.d = r.d /\ m.do = r.do /\ m.on = r.on /\ m.job = r.job /\ m.folder = r.folder
      /\ m.read = r.read /\ m.expected = r.expected
    BY <1>1 DEF Request
<1>3. reqs' = (reqs \ {r}) \cup {m}
    BY DEF Moves
<1> HIDE DEF m
<1>4. RequestShape(m, vault)
    BY <1>1, <1>2 DEF RequestShape
<1>5. ASSUME NEW d \in Devices
      PROVE  job'[d] = job[d] \/ job'[d] = [job[d] EXCEPT !.disturbed = TRUE]
    BY DEF Disturbs, CopiesInv
<1>6. ASSUME NEW d \in Devices
      PROVE  /\ job'[d] \in Job /\ job'[d].kind = job[d].kind /\ job'[d].all = job[d].all /\ job'[d].folder = job[d].folder
             /\ job'[d].todo = job[d].todo
  <2>1. job[d] \in Job
    BY DEF CopiesInv
  <2> QED
    BY <1>5, <2>1 DEF Job
<1>7. job' \in [Devices -> Job]
    BY <1>6 DEF Disturbs, CopiesInv
<1>8. ASSUME NEW d \in Devices PROVE JobShape(job'[d], vault)
  <2>1. JobShape(job[d], vault)
    BY DEF CopiesInv
  <2>2. CASE job'[d] = job[d]
    BY <2>1, <2>2
  <2>3. CASE job'[d] # job[d]
    <3>1. r.on \in job[d].all
      BY <2>3 DEF Disturbs, CopiesInv
    <3>2. job[d] # NoJob
      BY <3>1 DEF NoJob
    <3> QED
      BY <1>6, <2>1, <3>2 DEF JobShape
  <2> QED
    BY <2>2, <2>3
<1>9. ASSUME NEW q \in reqs', q.job PROVE Fits(q, job'[q.d])
  <2>1. PICK p \in reqs : p.job /\ q.d = p.d /\ q.on = p.on /\ q.do = p.do /\ q.folder = p.folder
    BY <1>2, <1>3, <1>9
  <2>2. Fits(p, job[p.d]) /\ p.d \in Devices
    BY <2>1 DEF CopiesInv, RequestShape, Request
  <2> QED
    BY <1>6, <2>1, <2>2 DEF Fits
<1>10. ASSUME NEW d \in Devices PROVE IsFiniteSet(JobOf(d)') /\ Cardinality(JobOf(d)') <= Limit
  <2>1. IsFiniteSet(JobOf(d)) /\ Cardinality(JobOf(d)) <= Limit /\ Cardinality(JobOf(d)) \in Nat
    BY FS_CardinalityType DEF CopiesInv
  <2>2. CASE r \in JobOf(d)
    <3>1. JobOf(d)' = (JobOf(d) \ {r}) \cup {m}
      BY <1>2, <1>3, <2>2 DEF JobOf
    <3> DEFINE B == JobOf(d)
    <3> HIDE DEF B
    <3>2. IsFiniteSet((B \ {r}) \cup {m}) /\ Cardinality((B \ {r}) \cup {m}) <= Cardinality(B)
      <4>1. IsFiniteSet(B) /\ r \in B
        BY <2>1, <2>2 DEF B
      <4> QED
        BY <4>1, Counted
    <3>3. IsFiniteSet(JobOf(d)') /\ Cardinality(JobOf(d)') <= Cardinality(JobOf(d))
      BY <3>1, <3>2 DEF B
    <3>4. Cardinality(JobOf(d)') \in Nat
      BY <3>3, FS_CardinalityType
    <3> QED
      BY <2>1, <3>3, <3>4
  <2>3. CASE r \notin JobOf(d)
    <3>1. JobOf(d)' = JobOf(d)
      BY <1>2, <1>3, <2>3 DEF JobOf
    <3> QED
      BY <2>1, <3>1
  <2> QED
    BY <2>2, <2>3
<1> QED
    BY <1>3, <1>4, <1>7, <1>8, <1>9, <1>10 DEF CopiesInv

LEMMA UntilNow ==
    CopiesInv => /\ vault \in Rows /\ page \in [Devices -> Page] /\ job \in [Devices -> Job]
                 /\ \A d \in Devices : PageShape(page[d], vault) /\ JobShape(job[d], vault)
                 /\ \A l \in loads : LoadShape(l, vault)
                 /\ \A r \in reqs : RequestShape(r, vault) /\ r.d \in Devices
                 /\ signal \cup online \cup behind \subseteq Desktops /\ spent \in 0..MaxOps /\ lost \subseteq {"favorite"}
  BY DEF CopiesInv, RequestShape, Request

LEMMA CommitCopies ==
    ASSUME CopiesInv, NEW r \in reqs, r.on \in Ids, vault[r.on].version # 0,
           NEW row \in Row, row.state # "none", Commit(r, row),
           vault[r.on].version <= row.version, vault[r.on].version = row.version => row.folder = vault[r.on].folder,
           lost' \subseteq {"favorite"}
    PROVE  CopiesInv'
<1>1. vault \in Rows
    BY UntilNow
<1>2. row.version # 0
  <2>1. vault[r.on].version \in Nat
    BY <1>1, RowFacts
  <2>2. row.version \in Nat
    BY DEF Row
  <2> QED
    BY <2>1, <2>2
<1>3. ASSUME NEW e \in Ids PROVE vault'[e] = IF e = r.on THEN row ELSE vault[e]
    BY <1>1 DEF Commit, Rows
<1>4. vault' \in [Ids -> Row]
    BY <1>1 DEF Commit, Rows
<1>5. vault' \in Rows
  <2>1. ASSUME NEW e \in Ids PROVE vault'[e].state = "none" <=> vault'[e].version = 0
    BY <1>1, <1>2, <1>3, RowFacts
  <2> QED
    BY <1>4, <2>1 DEF Rows
<1>6. Grown(vault, vault')
  <2>1. ASSUME NEW e \in Ids
        PROVE  /\ vault[e].version <= vault'[e].version
               /\ vault[e].version # 0 /\ vault[e].version = vault'[e].version => vault'[e].folder = vault[e].folder
    <3>1. CASE e = r.on
      BY <1>3, <3>1
    <3>2. CASE e # r.on
      <4>1. vault'[e] = vault[e] /\ vault[e].version \in Nat
        BY <1>1, <1>3, <3>2, RowFacts
      <4> QED
        BY <4>1
    <3> QED
      BY <3>1, <3>2
  <2> QED
    BY <1>5, <2>1 DEF Grown
<1>7. Moves(r, "answered") /\ Disturbs(r) /\ page' = page /\ loads' = loads
    BY DEF Commit
<1>8. signal' \cup online' \cup behind' \subseteq Desktops /\ spent' \in 0..MaxOps
    BY UntilNow DEF Commit, Tell
<1>9. page' \in [Devices -> Page] /\ \A d \in Devices : PageShape(page'[d], vault)
    BY <1>7, UntilNow
<1>10. \A l \in loads' : LoadShape(l, vault)
    BY <1>7, UntilNow
<1>11. /\ \A q \in reqs' : RequestShape(q, vault)
       /\ job' \in [Devices -> Job] /\ \A d \in Devices : JobShape(job'[d], vault)
       /\ \A q \in reqs' : q.job => Fits(q, job'[q.d])
       /\ \A d \in Devices : IsFiniteSet(JobOf(d)') /\ Cardinality(JobOf(d)') <= Limit
    BY <1>7, MovesFrame
<1> QED
    BY <1>6, <1>8, <1>9, <1>10, <1>11, CopiesFrame

LEMMA AddToVaultCopies == ASSUME CopiesInv, NEW r \in reqs, AddToVault(r) PROVE CopiesInv'
<1>1. vault \in Rows /\ RequestShape(r, vault) /\ r \in Request
    BY UntilNow DEF RequestShape
<1>2. PICK e \in Ids : /\ vault[e].state = "none"
                       /\ vault' = [vault EXCEPT ![e] = [state |-> "active", version |-> 1, fav |-> FALSE, folder |-> r.folder]]
    BY DEF AddToVault
<1> DEFINE row == [state |-> "active", version |-> 1, fav |-> FALSE, folder |-> r.folder]
<1>3. row \in Row /\ row.version = 1 /\ row.state = "active"
    BY <1>1 DEF Row, States, Request
<1> HIDE DEF row
<1>4. \A f \in Ids : vault'[f] = IF f = e THEN row ELSE vault[f]
    BY <1>1, <1>2 DEF Rows, row
<1>5. vault' \in [Ids -> Row]
    BY <1>1, <1>2, <1>3 DEF Rows, row
<1>6. \A f \in Ids : vault'[f].state = "none" <=> vault'[f].version = 0
  <2>1. \A f \in Ids : vault[f].state = "none" <=> vault[f].version = 0
    BY <1>1, RowFacts
  <2> QED
    BY <1>3, <1>4, <2>1
<1>7. \A f \in Ids : /\ vault[f].version <= vault'[f].version
                     /\ vault[f].version # 0 /\ vault[f].version = vault'[f].version => vault'[f].folder = vault[f].folder
  <2> SUFFICES ASSUME NEW f \in Ids
               PROVE  /\ vault[f].version <= vault'[f].version
                      /\ vault[f].version # 0 /\ vault[f].version = vault'[f].version => vault'[f].folder = vault[f].folder
    OBVIOUS
  <2>1. vault[e].version = 0 /\ vault[f].version \in Nat
    BY <1>1, <1>2, RowFacts
  <2> QED
    BY <1>3, <1>4, <2>1
<1>8. Grown(vault, vault')
    BY <1>5, <1>6, <1>7 DEF Grown, Rows
<1>9. Moves(r, "answered") /\ job' = job /\ page' = page /\ loads' = loads
    BY DEF AddToVault
<1>10. signal' \cup online' \cup behind' \subseteq Desktops /\ spent' \in 0..MaxOps /\ lost' \subseteq {"favorite"}
    BY UntilNow DEF AddToVault, Tell
<1>11. /\ page' \in [Devices -> Page] /\ \A d \in Devices : PageShape(page'[d], vault)
       /\ \A l \in loads' : LoadShape(l, vault)
    BY <1>9, UntilNow
<1>12. /\ \A q \in reqs' : RequestShape(q, vault)
       /\ job' \in [Devices -> Job] /\ \A d \in Devices : JobShape(job'[d], vault)
       /\ \A q \in reqs' : q.job => Fits(q, job'[q.d])
       /\ \A d \in Devices : IsFiniteSet(JobOf(d)') /\ Cardinality(JobOf(d)') <= Limit
    BY <1>9, MovesFrame
<1> QED
    BY <1>8, <1>10, <1>11, <1>12, CopiesFrame

LEMMA UpdateVaultEntryCopies == ASSUME CopiesInv, NEW r \in reqs, UpdateVaultEntry(r) PROVE CopiesInv'
<1> DEFINE old == vault[r.on]
           row == [state |-> "active", version |-> old.version + 1, fav |-> r.fav, folder |-> r.folder]
<1>1. vault \in Rows /\ RequestShape(r, vault) /\ r \in Request
    BY UntilNow DEF RequestShape
<1>2. /\ r.do = "update" /\ old.state = "active" /\ old.version = r.expected /\ old.version < MaxVersion
      /\ Commit(r, row)
      /\ lost' = lost \cup {x \in {"text", "favorite"} : IF x = "text" THEN r.read.version # old.version ELSE r.read.fav # old.fav}
    BY DEF UpdateVaultEntry, Here
<1>3. r.on \in Ids /\ r.read.version = old.version
    BY <1>1, <1>2 DEF RequestShape
<1>4. old.version \in Nat /\ old.version # 0
    BY <1>1, <1>2, <1>3, RowFacts
<1>5. row \in Row /\ row.state = "active" /\ row.version = old.version + 1
  <2>1. r.fav \in BOOLEAN /\ r.folder \in Folders /\ old.version + 1 \in 0..MaxVersion
    BY <1>1, <1>2, <1>4 DEF Request
  <2> QED
    BY <2>1 DEF Row, States
<1>6. lost' \subseteq {"favorite"}
    BY <1>2, <1>3, UntilNow
<1> HIDE DEF row
<1>7. old.version <= row.version /\ old.version # row.version
    BY <1>4, <1>5
<1> QED
    BY <1>2, <1>3, <1>4, <1>5, <1>6, <1>7, CommitCopies

\* The other writes of a row leave its text and its version alone.
LEMMA MarkCopies ==
    ASSUME CopiesInv, NEW r \in reqs, r.do # "add", vault[r.on].state # "none", NEW row,
           \/ row = [vault[r.on] EXCEPT !.fav = ~ @]
           \/ \E s \in {"active", "trash", "gone"} : row = [vault[r.on] EXCEPT !.state = s],
           Commit(r, row), lost' = lost
    PROVE  CopiesInv'
<1>1. vault \in Rows /\ r.on \in Ids
    BY UntilNow DEF RequestShape
<1>2. vault[r.on] \in Row /\ vault[r.on].version \in Nat /\ vault[r.on].version # 0
    BY <1>1, RowFacts
<1>3. row \in Row /\ row.state # "none" /\ row.version = vault[r.on].version /\ row.folder = vault[r.on].folder
    BY <1>2 DEF Row, States
<1>4. lost' \subseteq {"favorite"}
    BY UntilNow
<1>5. vault[r.on].version <= row.version
    BY <1>2, <1>3
<1> QED
    BY <1>1, <1>2, <1>3, <1>4, <1>5, CommitCopies

LEMMA RequestFailsCopies == ASSUME CopiesInv, NEW r \in reqs, RequestFails(r) PROVE CopiesInv'
<1>1. Moves(r, "refused") /\ UNCHANGED <<vault, page, loads, job, signal, online, behind, lost>>
    BY DEF RequestFails
<1>2. spent' \in 0..MaxOps
    BY UntilNow DEF RequestFails, Fault
<1>3. Grown(vault, vault')
    BY <1>1, UntilNow, NotGrown
<1>4. /\ page' \in [Devices -> Page] /\ \A d \in Devices : PageShape(page'[d], vault)
      /\ \A l \in loads' : LoadShape(l, vault)
    BY <1>1, UntilNow
<1>5. /\ \A q \in reqs' : RequestShape(q, vault)
      /\ job' \in [Devices -> Job] /\ \A d \in Devices : JobShape(job'[d], vault)
      /\ \A q \in reqs' : q.job => Fits(q, job'[q.d])
      /\ \A d \in Devices : IsFiniteSet(JobOf(d)') /\ Cardinality(JobOf(d)') <= Limit
    BY <1>1, MovesFrame
<1>6. signal' \cup online' \cup behind' \subseteq Desktops /\ lost' \subseteq {"favorite"}
    BY <1>1, UntilNow
<1> QED
    BY <1>2, <1>3, <1>4, <1>5, <1>6, CopiesFrame

LEMMA ServeCopies == ASSUME CopiesInv, NEW r \in reqs, Serve(r) PROVE CopiesInv'
<1>1. CASE AddToVault(r)
    BY <1>1, AddToVaultCopies
<1>2. CASE UpdateVaultEntry(r)
    BY <1>2, UpdateVaultEntryCopies
<1>3. CASE ToggleFavorite(r)
    BY <1>3, MarkCopies DEF ToggleFavorite, Here
<1>4. CASE DeleteVaultEntry(r)
    BY <1>4, MarkCopies DEF DeleteVaultEntry, Here
<1>5. CASE RestoreVaultEntry(r)
    BY <1>5, MarkCopies DEF RestoreVaultEntry, Here
<1>6. CASE PermanentlyDelete(r)
    BY <1>6, MarkCopies DEF PermanentlyDelete, Here
<1>7. CASE RequestFails(r)
    BY <1>7, RequestFailsCopies
<1> QED
    BY <1>1, <1>2, <1>3, <1>4, <1>5, <1>6, <1>7 DEF Serve

-----------------------------------------------------------------------------
(* The reads.                                                              *)

\* What leaves the rows, the requests and the acts alone.
LEMMA ScreenCopies ==
    ASSUME CopiesInv, UNCHANGED <<vault, reqs, job, lost>>,
           page' \in [Devices -> Page], \A d \in Devices : PageShape(page'[d], vault),
           \A l \in loads' : LoadShape(l, vault),
           signal' \cup online' \cup behind' \subseteq Desktops, spent' \in 0..MaxOps
    PROVE  CopiesInv'
<1>1. Grown(vault, vault')
    BY UntilNow, NotGrown
<1>2. /\ \A q \in reqs' : RequestShape(q, vault)
      /\ job' \in [Devices -> Job] /\ \A d \in Devices : JobShape(job'[d], vault)
      /\ \A q \in reqs' : q.job => Fits(q, job'[q.d])
      /\ \A d \in Devices : IsFiniteSet(JobOf(d)') /\ Cardinality(JobOf(d)') <= Limit
    BY DEF CopiesInv, JobOf
<1>3. lost' \subseteq {"favorite"}
    BY UntilNow
<1> QED
    BY <1>1, <1>2, <1>3, CopiesFrame

LEMMA PageSet ==
    ASSUME CopiesInv, NEW d \in Devices, NEW p, PageShape(p, vault), page' = [page EXCEPT ![d] = p]
    PROVE  page' \in [Devices -> Page] /\ \A e \in Devices : PageShape(page'[e], vault)
<1>1. p \in Page /\ page \in [Devices -> Page] /\ \A e \in Devices : PageShape(page[e], vault)
    BY UntilNow DEF PageShape
<1> QED
    BY <1>1

LEMMA ErrorShape ==
    ASSUME NEW v, NEW p, PageShape(p, v), NEW err \in BOOLEAN PROVE PageShape([p EXCEPT !.err = err], v)
<1> DEFINE q == [p EXCEPT !.err = err]
<1>1. q \in Page /\ q.shown = p.shown /\ q.form = p.form /\ q.sel = p.sel
    BY DEF PageShape, Page
<1> HIDE DEF q
<1>2. PageShape(q, v)
    BY <1>1 DEF PageShape
<1> QED
    BY <1>2 DEF q

LEMMA LoadEntriesShapes ==
    ASSUME CopiesInv, NEW d \in Devices, NEW p, PageShape(p, vault), LoadEntries(d, p)
    PROVE  /\ page' \in [Devices -> Page] /\ \A e \in Devices : PageShape(page'[e], vault)
           /\ \A l \in loads' : LoadShape(l, vault)
<1>1. PageShape(IF d \in Desktops THEN [p EXCEPT !.err = FALSE] ELSE p, vault)
    BY ErrorShape
<1>2. page' \in [Devices -> Page] /\ \A e \in Devices : PageShape(page'[e], vault)
    BY <1>1, PageSet DEF LoadEntries
<1>3. LoadShape(NewLoad(d), vault)
    BY FS_EmptySet DEF NewLoad, LoadShape, Load
<1> QED
    BY <1>2, <1>3, UntilNow DEF LoadEntries

LEMMA ViewShape == ASSUME vault \in Rows, NEW e \in Active PROVE Faithful(View(e), vault)
<1>1. e \in Ids /\ vault[e].state = "active" /\ vault[e] \in Row
    BY RowFacts DEF Active
<1>2. vault[e].version \in Nat /\ vault[e].version # 0 /\ vault[e].version \in 0..MaxVersion
    BY <1>1, RowFacts
<1>3. vault[e].version \in 1..vault[e].version
    BY <1>2
<1>4. vault[e].fav \in BOOLEAN /\ vault[e].folder \in Folders
    BY <1>1 DEF Row
<1> QED
    BY <1>1, <1>2, <1>3, <1>4 DEF Faithful, View, Copy

LEMMA GetFullVaultCopies == ASSUME CopiesInv, NEW l \in loads, GetFullVault(l) PROVE CopiesInv'
<1> DEFINE here == PageAt(l.offset)
           views == {View(e) : e \in here}
           m == [l EXCEPT !.got = @ \cup views, !.offset = @ + PageSize, !.whole = Cardinality(here) < PageSize]
<1>1. LoadShape(l, vault) /\ vault \in Rows
    BY UntilNow
<1>2. here \subseteq Active /\ IsFiniteSet(here)
  <2>1. here \subseteq Active /\ here \subseteq Ids
    BY DEF PageAt, Active
  <2> QED
    BY <2>1, FS_Subset
<1>3. IsFiniteSet(views) /\ \A x \in views : Faithful(x, vault)
  <2>1. \A x \in views : Faithful(x, vault)
    BY <1>1, <1>2, ViewShape
  <2>2. IsFiniteSet(views)
    <3> DEFINE f == [e \in here |-> View(e)]
    <3> HIDE DEF here
    <3>1. f \in Surjection(here, views)
      BY DEF Surjection
    <3> HIDE DEF f
    <3> QED
      BY <1>2, <3>1, FS_Surjection
  <2> QED
    BY <2>1, <2>2
<1>4. loads' = (loads \ {l}) \cup {m}
    BY DEF GetFullVault
<1>5. LoadShape(m, vault)
  <2>1. l.got \cup views \subseteq Copy /\ IsFiniteSet(l.got \cup views) /\ \A x \in l.got \cup views : Faithful(x, vault)
    BY <1>1, <1>3, FS_Union DEF LoadShape, Faithful
  <2>2. l.offset + PageSize \in Nat /\ (Cardinality(here) < PageSize) \in BOOLEAN
    BY <1>1 DEF LoadShape, Load
  <2> HIDE DEF here, views
  <2>3. m \in Load /\ m.got = l.got \cup views
    BY <1>1, <2>1, <2>2 DEF LoadShape, Load
  <2> QED
    BY <2>1, <2>3 DEF LoadShape
<1> HIDE DEF m
<1>6. \A k \in loads' : LoadShape(k, vault)
    BY <1>4, <1>5, UntilNow
<1> QED
    BY <1>6, UntilNow, ScreenCopies DEF GetFullVault

LEMMA ShownCopies == ASSUME CopiesInv, NEW l \in loads, Shown(l) PROVE CopiesInv'
<1> DEFINE p == [page[l.d] EXCEPT !.shown = l.got]
<1>1. LoadShape(l, vault) /\ l.d \in Devices
    BY UntilNow DEF LoadShape, Load
<1>2. PageShape(page[l.d], vault)
    BY <1>1, UntilNow
<1>3. PageShape(p, vault)
  <2>1. p \in Page /\ p.shown = l.got /\ p.form = page[l.d].form /\ p.sel = page[l.d].sel
    BY <1>1, <1>2 DEF PageShape, Page, LoadShape, Load
  <2> QED
    BY <1>1, <1>2, <2>1 DEF PageShape, LoadShape
<1>4. page' = [page EXCEPT ![l.d] = p]
    BY DEF Shown
<1>5. page' \in [Devices -> Page] /\ \A d \in Devices : PageShape(page'[d], vault)
    BY <1>1, <1>3, <1>4, PageSet
<1> QED
    BY <1>5, UntilNow, ScreenCopies DEF Shown

LEMMA LoadFailsCopies == ASSUME CopiesInv, NEW l \in loads, LoadFails(l) PROVE CopiesInv'
<1> DEFINE p == [page[l.d] EXCEPT !.err = TRUE]
<1>1. l.d \in Devices
    BY UntilNow DEF LoadShape, Load
<1>2. PageShape(p, vault)
    BY <1>1, UntilNow, ErrorShape
<1>3. page' = [page EXCEPT ![l.d] = p]
    BY DEF LoadFails
<1>4. page' \in [Devices -> Page] /\ \A d \in Devices : PageShape(page'[d], vault)
    BY <1>1, <1>2, <1>3, PageSet
<1>5. spent' \in 0..MaxOps
    BY UntilNow DEF LoadFails, Fault
<1> QED
    BY <1>4, <1>5, UntilNow, ScreenCopies DEF LoadFails

LEMMA SyncReloadCopies == ASSUME CopiesInv, NEW d \in Desktops, SyncReload(d) PROVE CopiesInv'
<1>1. d \in Devices
    BY DEF Devices
<1>2. PageShape(page[d], vault)
    BY <1>1, UntilNow
<1>3. /\ page' \in [Devices -> Page] /\ \A e \in Devices : PageShape(page'[e], vault)
      /\ \A l \in loads' : LoadShape(l, vault)
    BY <1>1, <1>2, LoadEntriesShapes DEF SyncReload
<1>4. signal' \cup online' \cup behind' \subseteq Desktops /\ spent' \in 0..MaxOps
    BY UntilNow DEF SyncReload
<1> QED
    BY <1>3, <1>4, ScreenCopies DEF SyncReload

LEMMA SocketCopies == ASSUME CopiesInv, NEW d \in Desktops, Disconnect(d) \/ Connect(d) PROVE CopiesInv'
<1>1. signal' \cup online' \cup behind' \subseteq Desktops /\ spent' \in 0..MaxOps
    BY UntilNow DEF Disconnect, Connect, Fault
<1>2. page' = page /\ loads' = loads /\ UNCHANGED <<vault, reqs, job, lost>>
    BY DEF Disconnect, Connect
<1> QED
    BY <1>1, <1>2, UntilNow, ScreenCopies

-----------------------------------------------------------------------------
(* The answers.                                                            *)

\* Requests leave, the acts keep their shape.
LEMMA FewerCopies ==
    ASSUME CopiesInv, UNCHANGED <<vault, lost>>, reqs' \subseteq reqs,
           page' \in [Devices -> Page], \A d \in Devices : PageShape(page'[d], vault),
           \A l \in loads' : LoadShape(l, vault),
           job' \in [Devices -> Job], \A d \in Devices : JobShape(job'[d], vault),
           \A r \in reqs' : r.job => Fits(r, job'[r.d]),
           signal' \cup online' \cup behind' \subseteq Desktops, spent' \in 0..MaxOps
    PROVE  CopiesInv'
<1>1. Grown(vault, vault')
    BY UntilNow, NotGrown
<1>2. \A q \in reqs' : RequestShape(q, vault)
    BY UntilNow
<1>3. ASSUME NEW d \in Devices PROVE IsFiniteSet(JobOf(d)') /\ Cardinality(JobOf(d)') <= Limit
  <2>1. IsFiniteSet(JobOf(d)) /\ Cardinality(JobOf(d)) <= Limit
    BY DEF CopiesInv
  <2>2. JobOf(d)' \subseteq JobOf(d)
    BY DEF JobOf
  <2> DEFINE A == JobOf(d)
             B == JobOf(d)'
  <2>3. IsFiniteSet(A) /\ B \subseteq A /\ Cardinality(A) <= Limit
    BY <2>1, <2>2
  <2> HIDE DEF A, B
  <2>4. IsFiniteSet(B) /\ Cardinality(B) <= Cardinality(A)
    BY <2>3, FS_Subset
  <2>5. Cardinality(A) \in Nat /\ Cardinality(B) \in Nat
    BY <2>3, <2>4, FS_CardinalityType
  <2>6. Cardinality(B) <= Limit
    BY <2>3, <2>4, <2>5
  <2> QED
    BY <2>4, <2>6 DEF B
<1>4. lost' \subseteq {"favorite"}
    BY UntilNow
<1> QED
    BY <1>1, <1>2, <1>3, <1>4, CopiesFrame

LEMMA AnsweredCopies ==
    ASSUME CopiesInv, NEW r \in reqs, NotJob(r),
           page' \in [Devices -> Page], \A d \in Devices : PageShape(page'[d], vault),
           \A l \in loads' : LoadShape(l, vault), behind' \subseteq Desktops
    PROVE  CopiesInv'
<1>1. reqs' \subseteq reqs /\ UNCHANGED <<vault, job, signal, online, spent, lost>>
    BY DEF NotJob
<1>2. /\ job' \in [Devices -> Job] /\ \A d \in Devices : JobShape(job'[d], vault)
      /\ \A q \in reqs' : q.job => Fits(q, job'[q.d])
    BY <1>1 DEF CopiesInv
<1>3. signal' \cup online' \cup behind' \subseteq Desktops /\ spent' \in 0..MaxOps
    BY <1>1, UntilNow
<1> QED
    BY <1>1, <1>2, <1>3, FewerCopies

LEMMA MarkedShape ==
    ASSUME NEW v, NEW p, PageShape(p, v), NEW e, NEW fav \in BOOLEAN PROVE PageShape(Marked(p, e, fav), v)
<1> DEFINE mark(x) == IF x.on = e THEN [x EXCEPT !.fav = fav] ELSE x
           S == p.shown
           T == {mark(x) : x \in S}
           q == [p EXCEPT !.shown = T]
           f == [x \in S |-> mark(x)]
<1>1. ASSUME NEW x \in S PROVE Faithful(mark(x), v)
  <2>1. Faithful(x, v) /\ x \in Copy
    BY DEF PageShape, Faithful
  <2>2. mark(x) \in Copy /\ mark(x).on = x.on /\ mark(x).version = x.version /\ mark(x).folder = x.folder
    BY <2>1 DEF Copy
  <2> HIDE DEF mark
  <2> QED
    BY <2>1, <2>2 DEF Faithful
<1> HIDE DEF mark
<1>2. f \in Surjection(S, T)
    BY DEF Surjection
<1>3. IsFiniteSet(S)
    BY DEF PageShape
<1> HIDE DEF f
<1>4. IsFiniteSet(T)
    BY <1>2, <1>3, FS_Surjection
<1>5. \A x \in T : Faithful(x, v)
    BY <1>1
<1> HIDE DEF T
<1>6. T \subseteq Copy
    BY <1>5 DEF Faithful
<1>7. q \in Page /\ q.shown = T /\ q.form = p.form /\ q.sel = p.sel
    BY <1>6 DEF PageShape, Page
<1> HIDE DEF q
<1>8. PageShape(q, v)
    BY <1>4, <1>5, <1>7 DEF PageShape
<1> QED
    BY <1>8 DEF q, T, S, mark, Marked

LEMMA WithoutShape ==
    ASSUME NEW v, NEW p, PageShape(p, v), NEW e PROVE PageShape(Without(p, e), v)
<1> DEFINE T == {x \in p.shown : x.on # e}
           q == [p EXCEPT !.shown = T]
<1>1. IsFiniteSet(T)
    BY FS_Subset DEF PageShape
<1>2. q \in Page /\ q.shown = T /\ q.form = p.form /\ q.sel = p.sel
    BY DEF PageShape, Page
<1> HIDE DEF q
<1>3. PageShape(q, v)
    BY <1>1, <1>2 DEF PageShape
<1> QED
    BY <1>3 DEF q, Without

LEMMA FormShape ==
    ASSUME NEW v, NEW p, PageShape(p, v), NEW x, x = NoForm \/ Faithful(x, v) PROVE PageShape([p EXCEPT !.form = x], v)
<1> DEFINE q == [p EXCEPT !.form = x]
<1>1. q \in Page /\ q.shown = p.shown /\ q.form = x /\ q.sel = p.sel
    BY DEF PageShape, Page, Faithful
<1> HIDE DEF q
<1>2. PageShape(q, v)
    BY <1>1 DEF PageShape
<1> QED
    BY <1>2 DEF q

LEMMA TrashShape ==
    ASSUME NEW v, NEW p, PageShape(p, v), NEW S \in SUBSET Ids PROVE PageShape([p EXCEPT !.trash = S], v)
<1> DEFINE q == [p EXCEPT !.trash = S]
<1>1. q \in Page /\ q.shown = p.shown /\ q.form = p.form /\ q.sel = p.sel
    BY DEF PageShape, Page
<1> HIDE DEF q
<1>2. PageShape(q, v)
    BY <1>1 DEF PageShape
<1> QED
    BY <1>2 DEF q

LEMMA TickedShape ==
    ASSUME NEW v, NEW p, PageShape(p, v), NEW S \in SUBSET Ids, \A e \in S : v[e].state # "none"
    PROVE  PageShape([p EXCEPT !.sel = S], v)
<1> DEFINE q == [p EXCEPT !.sel = S]
<1>1. q \in Page /\ q.shown = p.shown /\ q.form = p.form /\ q.sel = S
    BY DEF PageShape, Page
<1> HIDE DEF q
<1>2. PageShape(q, v)
    BY <1>1 DEF PageShape
<1> QED
    BY <1>2 DEF q

LEMMA ReadsCopies == ASSUME CopiesInv, NEW r \in reqs, Reads(r) PROVE CopiesInv'
<1> DEFINE p == IF r.do = "restore" THEN [page[r.d] EXCEPT !.trash = @ \ {r.on}] ELSE [page[r.d] EXCEPT !.form = NoForm]
<1>1. r.d \in Devices /\ PageShape(page[r.d], vault)
    BY UntilNow
<1>2. page[r.d].trash \ {r.on} \in SUBSET Ids
    BY <1>1 DEF PageShape, Page
<1>3. PageShape(p, vault)
    BY <1>1, <1>2, TrashShape, FormShape
<1>4. LoadEntries(r.d, p) /\ behind' = behind \ {r.d} /\ NotJob(r)
    BY DEF Reads
<1> HIDE DEF p
<1>5. /\ page' \in [Devices -> Page] /\ \A d \in Devices : PageShape(page'[d], vault)
      /\ \A l \in loads' : LoadShape(l, vault)
    BY <1>1, <1>3, <1>4, LoadEntriesShapes
<1>6. behind' \subseteq Desktops
    BY <1>4, UntilNow
<1> QED
    BY <1>4, <1>5, <1>6, AnsweredCopies

LEMMA ShowsAtOnceCopies == ASSUME CopiesInv, NEW r \in reqs, ShowsAtOnce(r) PROVE CopiesInv'
<1> DEFINE old == page[r.d]
           less == Without(old, r.on)
           p == CASE r.do = "delete" -> [less EXCEPT !.form = IF r.d \in Extensions THEN NoForm ELSE @]
                  [] r.do = "purge" -> [old EXCEPT !.trash = @ \ {r.on}]
                  [] OTHER -> old
<1>1. r.d \in Devices /\ PageShape(old, vault)
    BY UntilNow
<1>2. PageShape(less, vault)
    BY <1>1, WithoutShape
<1>3. page' = [page EXCEPT ![r.d] = p] /\ NotJob(r) /\ loads' = loads
    BY DEF ShowsAtOnce
<1>4. PageShape(p, vault)
  <2>1. PageShape([less EXCEPT !.form = IF r.d \in Extensions THEN NoForm ELSE @], vault)
    <3> HIDE DEF less
    <3>1. less.form = NoForm \/ Faithful(less.form, vault)
      BY <1>2 DEF PageShape
    <3> QED
      BY <1>2, <3>1, FormShape
  <2>2. PageShape([old EXCEPT !.trash = @ \ {r.on}], vault)
    <3>1. old.trash \ {r.on} \in SUBSET Ids
      BY <1>1 DEF PageShape, Page
    <3> QED
      BY <1>1, <3>1, TrashShape
  <2> HIDE DEF less
  <2> QED
    BY <1>1, <2>1, <2>2
<1> HIDE DEF p
<1>5. page' \in [Devices -> Page] /\ \A d \in Devices : PageShape(page'[d], vault)
    BY <1>1, <1>3, <1>4, PageSet
<1>6. \A l \in loads' : LoadShape(l, vault)
    BY <1>3, UntilNow
<1>7. behind' \subseteq Desktops
    BY UntilNow DEF ShowsAtOnce
<1> QED
    BY <1>3, <1>5, <1>6, <1>7, AnsweredCopies

LEMMA RefusedCopies == ASSUME CopiesInv, NEW r \in reqs, Refused(r) PROVE CopiesInv'
<1> DEFINE old == page[r.d]
           marked == IF r.do = "favorite" THEN Marked(old, r.on, r.fav) ELSE old
           p == IF r.do \in {"add", "update"} THEN old ELSE [marked EXCEPT !.err = TRUE]
<1>1. r.d \in Devices /\ PageShape(old, vault) /\ r.fav \in BOOLEAN
    BY UntilNow DEF RequestShape, Request
<1>2. PageShape(marked, vault)
    BY <1>1, MarkedShape
<1>3. page' = [page EXCEPT ![r.d] = p] /\ NotJob(r) /\ loads' = loads /\ behind' = behind
    BY DEF Refused
<1> HIDE DEF marked
<1>4. PageShape(p, vault)
    BY <1>1, <1>2, ErrorShape
<1> HIDE DEF p
<1>5. page' \in [Devices -> Page] /\ \A d \in Devices : PageShape(page'[d], vault)
    BY <1>1, <1>3, <1>4, PageSet
<1>6. (\A l \in loads' : LoadShape(l, vault)) /\ behind' \subseteq Desktops
    BY <1>3, UntilNow
<1> QED
    BY <1>3, <1>5, <1>6, AnsweredCopies

LEMMA SettledCopies == ASSUME CopiesInv, NEW r \in reqs, Settled(r) PROVE CopiesInv'
<1> DEFINE j == [job[r.d] EXCEPT !.failed = @ \/ r.at = "refused"]
<1>1. r.job /\ r.d \in Devices /\ JobShape(job[r.d], vault) /\ Fits(r, job[r.d])
    BY UntilNow DEF CopiesInv, Settled
<1>2. reqs' \subseteq reqs /\ UNCHANGED <<vault, page, loads, signal, online, spent, behind, lost>>
    BY DEF Settled
<1>3. job' = [job EXCEPT ![r.d] = j]
    BY DEF Settled
<1>4. job[r.d].kind # "none"
    BY <1>1 DEF JobShape, Fits, NoJob
<1>5. /\ j \in Job /\ j.kind = job[r.d].kind /\ j.all = job[r.d].all /\ j.todo = job[r.d].todo
      /\ j.folder = job[r.d].folder
    BY <1>1 DEF JobShape, Job
<1> HIDE DEF j
<1>6. JobShape(j, vault)
    BY <1>1, <1>4, <1>5 DEF JobShape
<1>7. job' \in [Devices -> Job] /\ \A d \in Devices : JobShape(job'[d], vault)
    BY <1>3, <1>5, <1>6, UntilNow
<1>8. ASSUME NEW q \in reqs', q.job PROVE Fits(q, job'[q.d])
  <2>1. Fits(q, job[q.d]) /\ q.d \in Devices
    BY <1>2, <1>8, UntilNow DEF CopiesInv
  <2>2. job'[q.d] = IF q.d = r.d THEN j ELSE job[q.d]
    BY <1>3, <2>1, UntilNow
  <2> QED
    BY <1>5, <2>1, <2>2 DEF Fits
<1>9. /\ page' \in [Devices -> Page] /\ \A d \in Devices : PageShape(page'[d], vault)
      /\ \A l \in loads' : LoadShape(l, vault)
      /\ signal' \cup online' \cup behind' \subseteq Desktops /\ spent' \in 0..MaxOps
    BY <1>2, UntilNow
<1> QED
    BY <1>2, <1>7, <1>8, <1>9, FewerCopies

-----------------------------------------------------------------------------
(* The acts of the user.                                                   *)

LEMMA SendsCopies ==
    ASSUME CopiesInv, NEW r, RequestShape(r, vault), ~ r.job, Sends(r),
           page' \in [Devices -> Page], \A d \in Devices : PageShape(page'[d], vault)
    PROVE  CopiesInv'
<1>1. reqs' = reqs \cup {r} /\ UNCHANGED <<vault, loads, job, signal, online, behind, lost>>
    BY DEF Sends
<1>2. Grown(vault, vault')
    BY <1>1, UntilNow, NotGrown
<1>3. /\ \A q \in reqs' : RequestShape(q, vault)
      /\ \A l \in loads' : LoadShape(l, vault)
      /\ job' \in [Devices -> Job] /\ \A d \in Devices : JobShape(job'[d], vault)
    BY <1>1, UntilNow
<1>4. \A q \in reqs' : q.job => Fits(q, job'[q.d])
    BY <1>1 DEF CopiesInv
<1>5. ASSUME NEW d \in Devices PROVE IsFiniteSet(JobOf(d)') /\ Cardinality(JobOf(d)') <= Limit
  <2>1. JobOf(d)' = JobOf(d)
    BY <1>1 DEF JobOf
  <2> QED
    BY <2>1 DEF CopiesInv
<1>6. signal' \cup online' \cup behind' \subseteq Desktops /\ spent' \in 0..MaxOps /\ lost' \subseteq {"favorite"}
    BY <1>1, UntilNow DEF Sends, Acts
<1> QED
    BY <1>2, <1>3, <1>4, <1>5, <1>6, CopiesFrame

LEMMA TurnsCopies ==
    ASSUME CopiesInv, NEW d \in Devices, NEW p, PageShape(p, vault), Turns(d, p) PROVE CopiesInv'
<1>1. page' \in [Devices -> Page] /\ \A e \in Devices : PageShape(page'[e], vault)
    BY PageSet DEF Turns
<1>2. spent' \in 0..MaxOps
    BY UntilNow DEF Turns, Acts
<1> QED
    BY <1>1, <1>2, UntilNow, ScreenCopies DEF Turns

\* r is a request for an edit of x, its folder changed.
IsEdit(r, d, x, folder) ==
    /\ r \in Request /\ r.d = d /\ r.do = "update" /\ r.on = x.on /\ r.at = "sent" /\ r.read = x
    /\ r.expected = x.version /\ r.folder = folder /\ r.job = FALSE

LEMMA EncryptFields ==
    ASSUME NEW d \in Devices, NEW x \in Copy, NEW folder \in Folders
    PROVE  IsEdit(EncryptEntry(d, x, folder), d, x, folder)
<1>1. x.on \in Ids /\ x.fav \in BOOLEAN /\ x.version \in Nat
    BY DEF Copy
<1> QED
    BY <1>1 DEF EncryptEntry, Ask, Request, Writes, IsEdit

LEMMA EncryptShape ==
    ASSUME NEW v, NEW d \in Devices, NEW x, Faithful(x, v), NEW folder \in Folders
    PROVE  RequestShape(EncryptEntry(d, x, folder), v) /\ EncryptEntry(d, x, folder).job = FALSE
<1>1. x \in Copy /\ x.on \in Ids
    BY DEF Faithful, Copy
<1> DEFINE r == EncryptEntry(d, x, folder)
<1>2. r \in Request /\ r.do = "update" /\ r.on = x.on /\ r.read = x /\ r.expected = x.version /\ r.job = FALSE
  <2>1. IsEdit(r, d, x, folder)
    BY <1>1, EncryptFields
  <2> HIDE DEF r
  <2> QED
    BY <2>1 DEF IsEdit
<1> HIDE DEF r
<1>3. RequestShape(r, v)
    BY <1>1, <1>2 DEF RequestShape
<1> QED
    BY <1>2, <1>3 DEF r

LEMMA FormCopies == ASSUME CopiesInv, NEW d \in Devices, OpenForm(d) \/ CloseForm(d) PROVE CopiesInv'
<1>1. PageShape(page[d], vault)
    BY UntilNow
<1>2. CASE OpenForm(d)
  <2>1. PICK x \in page[d].shown : Turns(d, [page[d] EXCEPT !.form = x])
    BY <1>2 DEF OpenForm
  <2>2. PageShape([page[d] EXCEPT !.form = x], vault)
    BY <1>1, FormShape DEF PageShape
  <2> QED
    BY <2>1, <2>2, TurnsCopies
<1>3. CASE CloseForm(d)
  <2>1. PageShape([page[d] EXCEPT !.form = NoForm], vault)
    BY <1>1, FormShape
  <2>2. page' = [page EXCEPT ![d] = [page[d] EXCEPT !.form = NoForm]]
    BY <1>3 DEF CloseForm
  <2>3. page' \in [Devices -> Page] /\ \A e \in Devices : PageShape(page'[e], vault)
    BY <2>1, <2>2, PageSet
  <2> QED
    BY <1>3, <2>3, UntilNow, ScreenCopies DEF CloseForm
<1> QED
    BY <1>2, <1>3

LEMMA HandleAddCopies == ASSUME CopiesInv, NEW d \in Devices, HandleAdd(d) PROVE CopiesInv'
<1>1. PICK f \in Folders : page' = page /\ Sends([Ask(d, "add", 0) EXCEPT !.folder = f])
    BY DEF HandleAdd
<1> DEFINE r == [Ask(d, "add", 0) EXCEPT !.folder = f]
<1>2. r \in Request /\ r.do = "add" /\ r.job = FALSE
    BY DEF Ask, Request, Writes
<1>3. Sends(r)
    BY <1>1
<1> HIDE DEF r
<1>4. RequestShape(r, vault)
    BY <1>2 DEF RequestShape
<1>5. page' \in [Devices -> Page] /\ \A e \in Devices : PageShape(page'[e], vault)
    BY <1>1, UntilNow
<1> QED
    BY <1>2, <1>3, <1>4, <1>5, SendsCopies

LEMMA HandleEditCopies == ASSUME CopiesInv, NEW d \in Devices, HandleEdit(d) PROVE CopiesInv'
<1> DEFINE x == page[d].form
<1>1. PICK f \in Folders : Sends(EncryptEntry(d, x, f))
    BY DEF HandleEdit
<1>2. x # NoForm /\ page' = page
    BY DEF HandleEdit
<1>3. Faithful(x, vault)
    BY <1>2, UntilNow DEF PageShape
<1> HIDE DEF x
<1>4. RequestShape(EncryptEntry(d, x, f), vault) /\ EncryptEntry(d, x, f).job = FALSE
    BY <1>3, EncryptShape
<1>5. page' \in [Devices -> Page] /\ \A e \in Devices : PageShape(page'[e], vault)
    BY <1>2, UntilNow
<1> QED
    BY <1>1, <1>4, <1>5, SendsCopies

\* A request with no text: of a deletion, of what is done with the trash.
LEMMA PlainCopies ==
    ASSUME CopiesInv, NEW d \in Devices, NEW do \in {"delete", "restore", "purge"}, NEW e \in Ids,
           page' = page, Sends(Ask(d, do, e))
    PROVE  CopiesInv'
<1>1. RequestShape(Ask(d, do, e), vault) /\ Ask(d, do, e).job = FALSE
  <2>1. Ask(d, do, e) \in Request /\ Ask(d, do, e).on = e /\ Ask(d, do, e).do = do /\ Ask(d, do, e).job = FALSE
    BY DEF Ask, Request, Writes
  <2> QED
    BY <2>1 DEF RequestShape
<1>2. page' \in [Devices -> Page] /\ \A f \in Devices : PageShape(page'[f], vault)
    BY UntilNow
<1> QED
    BY <1>1, <1>2, SendsCopies

LEMMA HandleDeleteCopies == ASSUME CopiesInv, NEW d \in Devices, HandleDelete(d) PROVE CopiesInv'
<1>1. PICK x \in page[d].shown : page' = page /\ Sends(Ask(d, "delete", x.on))
    BY DEF HandleDelete
<1>2. x.on \in Ids
    BY UntilNow DEF PageShape, Faithful, Copy
<1> QED
    BY <1>1, <1>2, PlainCopies

LEMMA HandleToggleFavoriteCopies == ASSUME CopiesInv, NEW d \in Devices, HandleToggleFavorite(d) PROVE CopiesInv'
<1>1. PICK x \in page[d].shown : /\ page' = [page EXCEPT ![d] = Marked(@, x.on, ~ x.fav)]
                                 /\ Sends([Ask(d, "favorite", x.on) EXCEPT !.fav = x.fav])
    BY DEF HandleToggleFavorite
<1>2. PageShape(page[d], vault) /\ x.on \in Ids /\ x.fav \in BOOLEAN
    BY UntilNow DEF PageShape, Faithful, Copy
<1> DEFINE r == [Ask(d, "favorite", x.on) EXCEPT !.fav = x.fav]
<1>3. RequestShape(r, vault) /\ r.job = FALSE
  <2>1. r \in Request /\ r.on = x.on /\ r.do = "favorite" /\ r.job = FALSE
    BY <1>2 DEF Ask, Request, Writes
  <2> HIDE DEF r
  <2> QED
    BY <1>2, <2>1 DEF RequestShape
<1>4. Sends(r)
    BY <1>1
<1> HIDE DEF r
<1>5. PageShape(Marked(page[d], x.on, ~ x.fav), vault)
    BY <1>2, MarkedShape
<1>6. page' \in [Devices -> Page] /\ \A e \in Devices : PageShape(page'[e], vault)
    BY <1>1, <1>5, PageSet
<1> QED
    BY <1>3, <1>4, <1>6, SendsCopies

LEMMA TrashCopies ==
    ASSUME CopiesInv, NEW d \in Devices, OpenTrash(d) \/ HandleRestore(d) \/ HandlePurge(d) PROVE CopiesInv'
<1>1. PageShape(page[d], vault) /\ page[d].trash \subseteq Ids
    BY UntilNow DEF PageShape, Page
<1>2. CASE OpenTrash(d)
  <2> DEFINE T == {e \in Ids : vault[e].state = "trash"}
  <2>1. PageShape([page[d] EXCEPT !.trash = T], vault)
    BY <1>1, TrashShape
  <2>2. page' = [page EXCEPT ![d] = [page[d] EXCEPT !.trash = T]]
    BY <1>2 DEF OpenTrash
  <2>3. page' \in [Devices -> Page] /\ \A e \in Devices : PageShape(page'[e], vault)
    BY <2>1, <2>2, PageSet
  <2> QED
    BY <1>2, <2>3, UntilNow, ScreenCopies DEF OpenTrash
<1>3. CASE HandleRestore(d)
  <2>1. PICK e \in page[d].trash : page' = page /\ Sends(Ask(d, "restore", e))
    BY <1>3 DEF HandleRestore
  <2> QED
    BY <1>1, <2>1, PlainCopies
<1>4. CASE HandlePurge(d)
  <2>1. PICK e \in page[d].trash : page' = page /\ Sends(Ask(d, "purge", e))
    BY <1>4 DEF HandlePurge
  <2> QED
    BY <1>1, <2>1, PlainCopies
<1> QED
    BY <1>2, <1>3, <1>4

LEMMA SelectsCopies ==
    ASSUME CopiesInv, NEW d \in Devices, ToggleSelected(d) \/ ExitSelection(d) \/ ToggleSelectAll(d) PROVE CopiesInv'
<1>1. PageShape(page[d], vault) /\ page[d].sel \subseteq Ids /\ vault \in Rows
    BY UntilNow DEF PageShape, Page
<1>2. ASSUME NEW x \in page[d].shown PROVE x.on \in Ids /\ vault[x.on].state # "none"
  <2>1. Faithful(x, vault) /\ x.on \in Ids
    BY <1>1 DEF PageShape, Faithful, Copy
  <2>2. vault[x.on].version # 0
    BY <1>1, <2>1 DEF Faithful
  <2> QED
    BY <1>1, <2>1, <2>2, RowFacts
<1>3. \E S \in SUBSET (page[d].sel \cup {x.on : x \in page[d].shown}) : Turns(d, [page[d] EXCEPT !.sel = S])
  <2>1. CASE ToggleSelected(d)
    BY <2>1 DEF ToggleSelected, Selects
  <2>2. CASE ExitSelection(d)
    BY <2>2 DEF ExitSelection, Selects
  <2>3. CASE ToggleSelectAll(d)
    <3>1. PICK f \in Folders \cup {"all"} :
            Turns(d, [page[d] EXCEPT !.sel = IF Cardinality(page[d].sel) = Cardinality({x.on : x \in FilteredEntries(page[d], f)})
                                              THEN {} ELSE {x.on : x \in FilteredEntries(page[d], f)}])
      BY <2>3 DEF ToggleSelectAll, Selects
    <3>2. {x.on : x \in FilteredEntries(page[d], f)} \subseteq {x.on : x \in page[d].shown}
      BY DEF FilteredEntries
    <3> QED
      BY <3>1, <3>2
  <2> QED
    BY <2>1, <2>2, <2>3
<1>4. PICK S \in SUBSET (page[d].sel \cup {x.on : x \in page[d].shown}) : Turns(d, [page[d] EXCEPT !.sel = S])
    BY <1>3
<1>5. S \in SUBSET Ids /\ \A e \in S : vault[e].state # "none"
    BY <1>1, <1>2 DEF PageShape
<1>6. PageShape([page[d] EXCEPT !.sel = S], vault)
    BY <1>1, <1>5, TickedShape
<1> QED
    BY <1>4, <1>6, TurnsCopies

-----------------------------------------------------------------------------
(* The acts on a selection.                                                *)

\* The act a device has under way, if any, is the one its requests belong to.
LEMMA IdleHasNone == ASSUME CopiesInv, NEW d \in Devices, Idle(d) PROVE JobOf(d) = {}
  BY DEF CopiesInv, Idle, JobOf, Fits, NoJob

LEMMA BeginsCopies ==
    ASSUME CopiesInv, NEW d \in Devices, NEW kind \in {"delete", "favorite", "update"}, NEW X, IsFiniteSet(X),
           X \subseteq Copy, \A x \in X : vault[x.on].state # "none",
           kind # "delete" => \A x \in X : Faithful(x, vault),
           NEW want \in BOOLEAN, NEW folder \in Folders, NEW keepsSel \in BOOLEAN,
           Begins(d, kind, X, want, folder, keepsSel)
    PROVE  CopiesInv'
<1> DEFINE late == kind # "delete" /\ \E x \in X : x # View(x.on)
           all == {x.on : x \in X}
           j == [kind |-> kind, all |-> all, todo |-> X, want |-> want, folder |-> folder,
                 failed |-> FALSE, keepsSel |-> keepsSel, disturbed |-> late]
<1>1. /\ job' = [job EXCEPT ![d] = j] /\ Idle(d) /\ page' = [page EXCEPT ![d] = [page[d] EXCEPT !.err = FALSE]]
      /\ UNCHANGED <<vault, loads, reqs, signal, online, behind, lost>>
    BY DEF Begins
<1>2. JobOf(d) = {}
    BY <1>1, IdleHasNone
<1>3. all \in SUBSET Ids /\ \A e \in all : vault[e].state # "none"
    BY DEF Copy
<1>4. late \in BOOLEAN
    OBVIOUS
<1> HIDE DEF late
<1>5. j \in Job /\ j.kind = kind /\ j.all = all /\ j.todo = X
    BY <1>3, <1>4 DEF Job
<1> HIDE DEF j
<1>6. JobShape(j, vault)
    BY <1>3, <1>5 DEF JobShape
<1>7. job' \in [Devices -> Job] /\ \A e \in Devices : JobShape(job'[e], vault)
    BY <1>1, <1>5, <1>6, UntilNow
<1>8. ASSUME NEW q \in reqs', q.job PROVE Fits(q, job'[q.d])
  <2>1. Fits(q, job[q.d]) /\ q.d \in Devices
    BY <1>1, <1>8, UntilNow DEF CopiesInv
  <2>2. q.d # d
    BY <1>1, <1>2, <1>8 DEF JobOf
  <2> QED
    BY <1>1, <2>1, <2>2, UntilNow
<1>9. PageShape([page[d] EXCEPT !.err = FALSE], vault)
    BY UntilNow, ErrorShape
<1>10. page' \in [Devices -> Page] /\ \A e \in Devices : PageShape(page'[e], vault)
    BY <1>1, <1>9, PageSet
<1>11. \A l \in loads' : LoadShape(l, vault)
    BY <1>1, UntilNow
<1>12. signal' \cup online' \cup behind' \subseteq Desktops /\ spent' \in 0..MaxOps
    BY <1>1, UntilNow DEF Begins, Acts
<1> QED
    BY <1>1, <1>7, <1>8, <1>10, <1>11, <1>12, FewerCopies

\* What an act on rows the page shows begins with.
LEMMA RowsCopies ==
    ASSUME CopiesInv, NEW d \in Devices, NEW kind \in {"favorite", "update"}, NEW X \in SUBSET page[d].shown,
           NEW want \in BOOLEAN, NEW folder \in Folders, NEW keepsSel \in BOOLEAN,
           Begins(d, kind, X, want, folder, keepsSel)
    PROVE  CopiesInv'
<1>1. PageShape(page[d], vault) /\ vault \in Rows
    BY UntilNow
<1>2. IsFiniteSet(X)
    BY <1>1, FS_Subset DEF PageShape
<1>3. \A x \in X : Faithful(x, vault)
    BY <1>1 DEF PageShape
<1>4. X \subseteq Copy
    BY <1>3 DEF Faithful
<1>5. ASSUME NEW x \in X PROVE vault[x.on].state # "none"
  <2>1. x.on \in Ids /\ vault[x.on].version # 0
    BY <1>1, <1>3, RowFacts DEF Faithful, Copy
  <2> QED
    BY <1>1, <2>1, RowFacts
<1> QED
    BY <1>2, <1>3, <1>4, <1>5, BeginsCopies

LEMMA HandleBulkDeleteCopies == ASSUME CopiesInv, NEW d \in Devices, HandleBulkDelete(d) PROVE CopiesInv'
<1> DEFINE sel == page[d].sel
           X == {[NoForm EXCEPT !.on = e] : e \in sel}
           f == [e \in sel |-> [NoForm EXCEPT !.on = e]]
<1>1. sel \in SUBSET Ids /\ \A e \in sel : vault[e].state # "none"
    BY UntilNow DEF PageShape, Page
<1>2. IsFiniteSet(sel)
    BY <1>1, FS_Subset
<1>3. f \in Surjection(sel, X)
    BY DEF Surjection
<1>4. \A x \in X : x \in Copy /\ x.on \in sel
  <2>1. ASSUME NEW e \in sel PROVE [NoForm EXCEPT !.on = e] \in Copy /\ [NoForm EXCEPT !.on = e].on = e
    <3>1. e \in Ids /\ 0 \in 0..MaxVersion /\ NoFolder \in Folders
      BY <1>1
    <3> QED
      BY <3>1 DEF NoForm, Copy
  <2> QED
    BY <2>1
<1>5. Begins(d, "delete", X, FALSE, NoFolder, FALSE)
    BY DEF HandleBulkDelete
<1> HIDE DEF f, X
<1>6. IsFiniteSet(X)
    BY <1>2, <1>3, FS_Surjection
<1>7. \A x \in X : vault[x.on].state # "none"
    BY <1>1, <1>4
<1> QED
    BY <1>4, <1>5, <1>6, <1>7, BeginsCopies

LEMMA BulkCopies ==
    ASSUME CopiesInv, NEW d \in Devices, HandleBulkSetFavorite(d) \/ HandleBulkSetFolder(d) \/ FolderSections(d)
    PROVE  CopiesInv'
<1>1. CASE HandleBulkSetFavorite(d)
  <2>1. PICK want \in BOOLEAN : Begins(d, "favorite", {x \in Ticked(d) : x.fav # want}, want, NoFolder, FALSE)
    BY <1>1 DEF HandleBulkSetFavorite
  <2>2. {x \in Ticked(d) : x.fav # want} \in SUBSET page[d].shown
    BY DEF Ticked
  <2> QED
    BY <2>1, <2>2, RowsCopies
<1>2. CASE HandleBulkSetFolder(d)
  <2>1. PICK f \in Folders : Begins(d, "update", {x \in Ticked(d) : x.folder # f}, FALSE, f, FALSE)
    BY <1>2 DEF HandleBulkSetFolder
  <2>2. {x \in Ticked(d) : x.folder # f} \in SUBSET page[d].shown
    BY DEF Ticked
  <2> QED
    BY <2>1, <2>2, RowsCopies
<1>3. CASE FolderSections(d)
  <2>1. PICK section \in GroupEntriesByFolder(page[d]) : HandleRenameFolder(d, section)
    BY <1>3 DEF FolderSections
  <2>2. section.entries \in SUBSET page[d].shown
    BY DEF GroupEntriesByFolder
  <2>3. PICK f \in Folders : Begins(d, "update", section.entries, FALSE, f, TRUE)
    BY <2>1 DEF HandleRenameFolder
  <2> QED
    BY <2>2, <2>3, RowsCopies
<1> QED
    BY <1>1, <1>2, <1>3

\* The request of one entry of an act.
LEMMA PartShape ==
    ASSUME CopiesInv, NEW d \in Devices, NEW x \in job[d].todo
    PROVE  LET r == [ReassignFolder(d, x) EXCEPT !.job = TRUE] IN
           RequestShape(r, vault) /\ r.d = d /\ r.job /\ Fits(r, job[d]) /\ r.on = x.on /\ r.at = "sent"
<1> DEFINE j == job[d]
           r == [ReassignFolder(d, x) EXCEPT !.job = TRUE]
<1>1. JobShape(j, vault) /\ j \in Job /\ x \in Copy /\ x.on \in Ids /\ x.on \in j.all
    BY UntilNow DEF JobShape, Job, Copy
<1>2. j.kind \in {"delete", "favorite", "update"}
    BY <1>1 DEF JobShape, Job, NoJob
<1>3. r \in Request /\ r.d = d /\ r.do = j.kind /\ r.on = x.on /\ r.at = "sent" /\ r.job = TRUE
  <2>1. CASE j.kind = "update"
    <3> DEFINE q == EncryptEntry(d, x, j.folder)
    <3>1. q \in Request /\ q.d = d /\ q.do = "update" /\ q.on = x.on /\ q.at = "sent"
      <4>1. j.folder \in Folders
        BY <1>1 DEF Job
      <4> QED
        <5>1. IsEdit(q, d, x, j.folder)
          BY <1>1, <4>1, EncryptFields
        <5> HIDE DEF q
        <5> QED
          BY <5>1 DEF IsEdit
    <3>2. r = [q EXCEPT !.job = TRUE]
      BY <2>1 DEF ReassignFolder
    <3> HIDE DEF q, r
    <3> QED
      BY <2>1, <3>1, <3>2 DEF Request
  <2>2. CASE j.kind # "update"
    BY <1>1, <1>2, <2>2 DEF ReassignFolder, Ask, Request, Writes
  <2> QED
    BY <2>1, <2>2
<1>4. CASE j.kind = "update"
  <2>1. r.read = x /\ r.expected = x.version /\ r.folder = j.folder
    BY <1>4 DEF ReassignFolder, EncryptEntry, Ask
  <2> HIDE DEF r
  <2>2. Faithful(x, vault)
    BY <1>1, <1>4 DEF JobShape
  <2>3. RequestShape(r, vault) /\ Fits(r, j)
    BY <1>1, <1>3, <2>1, <2>2 DEF RequestShape, Fits
  <2> QED
    BY <1>3, <2>3 DEF r
<1>5. CASE j.kind # "update"
  <2> HIDE DEF r
  <2>1. RequestShape(r, vault) /\ Fits(r, j)
    BY <1>1, <1>3, <1>5 DEF RequestShape, Fits
  <2> QED
    BY <1>3, <2>1 DEF r
<1> QED
    BY <1>4, <1>5

\* A batch: its entries leave the list, each for one request.
BatchSent(d, B) ==
    LET sent == {[ReassignFolder(d, x) EXCEPT !.job = TRUE] : x \in B} IN
    /\ B \subseteq job[d].todo /\ IsFiniteSet(B) /\ Cardinality(B) <= Limit /\ JobOf(d) = {}
    /\ job' = [job EXCEPT ![d] = [job[d] EXCEPT !.todo = job[d].todo \ B]]
    /\ reqs' = reqs \cup sent /\ JobOf(d)' = sent
    /\ UNCHANGED <<vault, page, loads, signal, online, spent, behind, lost>>

LEMMA Batch == ASSUME CopiesInv, NEW d \in Devices, AllSettledWithLimit(d) PROVE \E B : BatchSent(d, B)
<1>1. PICK B \in SUBSET job[d].todo :
        /\ Cardinality(B) = IF Cardinality(job[d].todo) < Limit THEN Cardinality(job[d].todo) ELSE Limit
        /\ job' = [job EXCEPT ![d].todo = @ \ B]
        /\ reqs' = reqs \cup {[ReassignFolder(d, x) EXCEPT !.job = TRUE] : x \in B}
    BY DEF AllSettledWithLimit
<1>2. IsFiniteSet(job[d].todo) /\ IsFiniteSet(B)
    BY <1>1, UntilNow, FS_Subset DEF JobShape
<1>3. Cardinality(B) <= Limit
  <2> DEFINE T == job[d].todo
  <2>1. Cardinality(T) \in Nat /\ Cardinality(B) \in Nat
    BY <1>2, FS_CardinalityType
  <2> HIDE DEF T
  <2>2. Cardinality(B) = IF Cardinality(T) < Limit THEN Cardinality(T) ELSE Limit
    BY <1>1 DEF T
  <2> QED
    BY <2>1, <2>2
<1>4. JobOf(d) = {}
    BY DEF AllSettledWithLimit
<1>5. \A x \in B : LET r == [ReassignFolder(d, x) EXCEPT !.job = TRUE] IN r.d = d /\ r.job
    BY PartShape
<1>6. JobOf(d)' = {[ReassignFolder(d, x) EXCEPT !.job = TRUE] : x \in B}
    BY <1>1, <1>4, <1>5 DEF JobOf
<1> QED
    BY <1>1, <1>2, <1>3, <1>4, <1>6 DEF BatchSent, AllSettledWithLimit

LEMMA AllSettledWithLimitCopies == ASSUME CopiesInv, NEW d \in Devices, AllSettledWithLimit(d) PROVE CopiesInv'
<1>1. PICK B : BatchSent(d, B)
    BY Batch
<1> DEFINE part(x) == [ReassignFolder(d, x) EXCEPT !.job = TRUE]
           sent == {part(x) : x \in B}
           f == [x \in B |-> part(x)]
           j == [job[d] EXCEPT !.todo = job[d].todo \ B]
<1>2. /\ B \subseteq job[d].todo /\ IsFiniteSet(B) /\ Cardinality(B) <= Limit /\ JobOf(d) = {}
      /\ job' = [job EXCEPT ![d] = j] /\ reqs' = reqs \cup sent /\ JobOf(d)' = sent
      /\ UNCHANGED <<vault, page, loads, signal, online, spent, behind, lost>>
    BY <1>1 DEF BatchSent
<1>3. \A r \in sent : RequestShape(r, vault) /\ r.d = d /\ r.job /\ Fits(r, job[d])
  <2>1. \A x \in B : RequestShape(part(x), vault) /\ part(x).d = d /\ part(x).job /\ Fits(part(x), job[d])
    BY <1>2, PartShape
  <2> HIDE DEF part
  <2> QED
    BY <2>1
<1>4. IsFiniteSet(sent) /\ Cardinality(sent) <= Limit
  <2>1. f \in Surjection(B, sent)
    BY DEF Surjection
  <2> HIDE DEF f, sent
  <2>2. IsFiniteSet(sent) /\ Cardinality(sent) <= Cardinality(B)
    BY <1>2, <2>1, FS_Surjection
  <2>3. Cardinality(sent) \in Nat /\ Cardinality(B) \in Nat
    BY <1>2, <2>2, FS_CardinalityType
  <2> QED
    BY <1>2, <2>2, <2>3
<1> HIDE DEF sent
<1>5. JobShape(job[d], vault) /\ job[d] \in Job
    BY UntilNow
<1>6. /\ j \in Job /\ j.kind = job[d].kind /\ j.all = job[d].all /\ j.folder = job[d].folder
      /\ j.todo = job[d].todo \ B
    BY <1>5 DEF Job
<1>7. JobShape(j, vault)
  <2>1. job[d].kind # "none" \/ job[d].todo = {}
    BY <1>5 DEF JobShape, NoJob
  <2>2. IsFiniteSet(job[d].todo \ B)
    BY <1>5, FS_Difference DEF JobShape
  <2>3. j = NoJob \/ j.kind # "none"
    <3>1. CASE job[d].kind # "none"
      BY <1>6, <3>1
    <3>2. CASE job[d].kind = "none"
      <4>1. job[d].todo = {} /\ job[d] = NoJob
        BY <1>5, <2>1, <3>2 DEF JobShape
      <4>2. j = job[d]
        BY <1>5, <4>1 DEF Job
      <4> QED
        BY <4>1, <4>2
    <3> QED
      BY <3>1, <3>2
  <2> HIDE DEF j
  <2> QED
    BY <1>5, <1>6, <2>2, <2>3 DEF JobShape
<1> HIDE DEF j
<1>8. job' \in [Devices -> Job] /\ \A e \in Devices : JobShape(job'[e], vault)
    BY <1>2, <1>6, <1>7, UntilNow
<1>9. \A r \in reqs' : RequestShape(r, vault)
    BY <1>2, <1>3, UntilNow
<1>10. ASSUME NEW r \in reqs', r.job PROVE Fits(r, job'[r.d])
  <2>1. r.d \in Devices /\ Fits(r, job[r.d])
    BY <1>2, <1>3, <1>10, UntilNow DEF CopiesInv
  <2>2. job'[r.d] = IF r.d = d THEN j ELSE job[r.d]
    BY <1>2, <2>1, UntilNow
  <2> QED
    BY <1>6, <2>1, <2>2 DEF Fits
<1>11. ASSUME NEW e \in Devices PROVE IsFiniteSet(JobOf(e)') /\ Cardinality(JobOf(e)') <= Limit
  <2>1. CASE e = d
    BY <1>2, <1>4, <2>1
  <2>2. CASE e # d
    <3>1. JobOf(e)' = JobOf(e)
      BY <1>2, <1>3, <2>2 DEF JobOf
    <3> QED
      BY <3>1 DEF CopiesInv
  <2> QED
    BY <2>1, <2>2
<1>12. /\ page' \in [Devices -> Page] /\ \A e \in Devices : PageShape(page'[e], vault)
       /\ \A l \in loads' : LoadShape(l, vault)
       /\ signal' \cup online' \cup behind' \subseteq Desktops /\ spent' \in 0..MaxOps /\ lost' \subseteq {"favorite"}
    BY <1>2, UntilNow
<1>13. Grown(vault, vault')
    BY <1>2, UntilNow, NotGrown
<1> QED
    BY <1>8, <1>9, <1>10, <1>11, <1>12, <1>13, CopiesFrame

LEMMA JobEndsCopies == ASSUME CopiesInv, NEW d \in Devices, JobEnds(d) PROVE CopiesInv'
<1> DEFINE sel == IF job[d].keepsSel THEN page[d].sel ELSE {}
           p == [[page[d] EXCEPT !.err = job[d].failed] EXCEPT !.sel = sel]
<1>1. PageShape(page[d], vault) /\ JobShape(job[d], vault) /\ job[d].failed \in BOOLEAN
    BY UntilNow DEF JobShape, Job
<1>2. PageShape([page[d] EXCEPT !.err = job[d].failed], vault)
    BY <1>1, ErrorShape
<1>3. sel \in SUBSET Ids /\ \A e \in sel : vault[e].state # "none"
    BY <1>1 DEF PageShape, Page
<1>4. PageShape(p, vault)
    BY <1>2, <1>3, TickedShape
<1>5. p = [page[d] EXCEPT !.err = job[d].failed, !.sel = IF job[d].keepsSel THEN page[d].sel ELSE {}]
    BY <1>1 DEF PageShape, Page
<1>6. LoadEntries(d, p) /\ job' = [job EXCEPT ![d] = NoJob] /\ JobOf(d) = {}
    BY <1>5 DEF JobEnds
<1> HIDE DEF p
<1>7. /\ page' \in [Devices -> Page] /\ \A e \in Devices : PageShape(page'[e], vault)
      /\ \A l \in loads' : LoadShape(l, vault)
    BY <1>4, <1>6, LoadEntriesShapes
<1>8. NoJob \in Job /\ JobShape(NoJob, vault)
    BY FS_EmptySet DEF NoJob, Job, JobShape
<1>9. job' \in [Devices -> Job] /\ \A e \in Devices : JobShape(job'[e], vault)
    BY <1>6, <1>8, UntilNow
<1>10. ASSUME NEW q \in reqs', q.job PROVE Fits(q, job'[q.d])
  <2>1. q \in reqs /\ Fits(q, job[q.d]) /\ q.d \in Devices
    BY <1>10, UntilNow DEF CopiesInv, JobEnds
  <2>2. q.d # d
    BY <1>6, <1>10, <2>1 DEF JobOf
  <2> QED
    BY <1>6, <2>1, <2>2, UntilNow
<1>11. signal' \cup online' \cup behind' \subseteq Desktops /\ spent' \in 0..MaxOps
    BY UntilNow DEF JobEnds
<1>12. reqs' \subseteq reqs /\ UNCHANGED <<vault, lost>>
    BY DEF JobEnds
<1> QED
    BY <1>7, <1>9, <1>10, <1>11, <1>12, FewerCopies

-----------------------------------------------------------------------------
(* The screens put these acts together.                                    *)

Writing(d) == HandleAdd(d) \/ HandleEdit(d) \/ HandleDelete(d) \/ HandleToggleFavorite(d)
Trashing(d) == OpenTrash(d) \/ HandleRestore(d) \/ HandlePurge(d)
Ticking(d) == ToggleSelected(d) \/ ExitSelection(d) \/ ToggleSelectAll(d)
Starting(d) == HandleBulkDelete(d) \/ HandleBulkSetFavorite(d) \/ HandleBulkSetFolder(d) \/ FolderSections(d)
UserAct(d) == OpenForm(d) \/ CloseForm(d) \/ Writing(d) \/ Trashing(d) \/ Ticking(d) \/ Starting(d)

LEMMA Screens == ASSUME NEW d PROVE Vault(d) \/ VaultScreen(d) => UserAct(d)
<1>1. VaultEntryForm(d) \/ VaultHistoryModal(d) => UserAct(d)
    BY DEF VaultEntryForm, VaultHistoryModal, UserAct, Writing
<1>2. TrashModal(d) \/ TrashView(d) => UserAct(d)
    BY DEF TrashModal, TrashView, UserAct, Trashing
<1>3. SelectionBar(d) => UserAct(d)
    BY DEF SelectionBar, UserAct, Ticking, Starting
<1>4. EntryList(d) => UserAct(d)
    BY DEF EntryList, EntryRow, EntryCompact, EntryCard, SecondaryActionItems, UserAct, Ticking, Writing, Starting
<1>5. HandleKeyDown(d) => UserAct(d)
    BY DEF HandleKeyDown, UserAct, Ticking
<1>6. ExtEntryList(d) \/ ExtEditEntry(d) => UserAct(d)
    BY DEF ExtEntryList, ExtEditEntry, ExtEntryRow, ExtAddEntry, UserAct, Writing
<1> QED
    BY <1>1, <1>2, <1>3, <1>4, <1>5, <1>6 DEF Vault, VaultScreen

LEMMA UserActCopies == ASSUME CopiesInv, NEW d \in Devices, UserAct(d) PROVE CopiesInv'
<1>1. CASE OpenForm(d) \/ CloseForm(d)
    BY <1>1, FormCopies
<1>2. CASE Writing(d)
    BY <1>2, HandleAddCopies, HandleEditCopies, HandleDeleteCopies, HandleToggleFavoriteCopies DEF Writing
<1>3. CASE Trashing(d)
    BY <1>3, TrashCopies DEF Trashing
<1>4. CASE Ticking(d)
    BY <1>4, SelectsCopies DEF Ticking
<1>5. CASE Starting(d)
    BY <1>5, HandleBulkDeleteCopies, BulkCopies DEF Starting
<1> QED
    BY <1>1, <1>2, <1>3, <1>4, <1>5 DEF UserAct

LEMMA StillCopies == ASSUME CopiesInv, UNCHANGED vars PROVE CopiesInv'
  BY UntilNow, ScreenCopies DEF vars

LEMMA NextCopies == CopiesInv /\ [Next]_vars => CopiesInv'
<1> SUFFICES ASSUME CopiesInv, [Next]_vars PROVE CopiesInv'
    OBVIOUS
<1>1. ASSUME NEW d \in Devices, Vault(d) \/ VaultScreen(d) PROVE CopiesInv'
    BY <1>1, Screens, UserActCopies
<1>2. ASSUME NEW d \in Devices, JobStep(d) PROVE CopiesInv'
    BY <1>2, AllSettledWithLimitCopies, JobEndsCopies DEF JobStep
<1>3. ASSUME NEW d \in Desktops, SyncReload(d) \/ Disconnect(d) \/ Connect(d) PROVE CopiesInv'
    BY <1>3, SyncReloadCopies, SocketCopies
<1>4. ASSUME NEW r \in reqs, Serve(r) PROVE CopiesInv'
    BY <1>4, ServeCopies
<1>5. ASSUME NEW r \in reqs, Answer(r) PROVE CopiesInv'
    BY <1>5, ReadsCopies, ShowsAtOnceCopies, RefusedCopies, SettledCopies DEF Answer
<1>6. ASSUME NEW l \in loads, LoadStep(l) PROVE CopiesInv'
    BY <1>6, GetFullVaultCopies, ShownCopies, LoadFailsCopies DEF LoadStep
<1>7. CASE UNCHANGED vars
    BY <1>7, StillCopies
<1> QED
    BY <1>1, <1>2, <1>3, <1>4, <1>5, <1>6, <1>7 DEF Next

\* No screen, read, request or act holds a row from the future, and a row with the version
\* of the table has its text (Vault.tsx, client.ts).
THEOREM Copies == Spec => []CopiesInv
  BY InitCopies, NextCopies, PTL DEF Spec

LEMMA CopiesTyped == CopiesInv => TypeOK
<1> SUFFICES ASSUME CopiesInv PROVE TypeOK
    OBVIOUS
<1>1. vault \in [Ids -> Row] /\ \A e \in Ids : vault[e].state = "none" <=> vault[e].version = 0
    BY UntilNow DEF Rows
<1>2. ASSUME NEW d \in Devices
      PROVE  /\ \A x \in page[d].shown : x.on \in Ids /\ x.version \in 1..MaxVersion
             /\ page[d].sel \cup page[d].trash \subseteq Ids
             /\ {x.on : x \in job[d].todo} \subseteq job[d].all
  <2>1. PageShape(page[d], vault) /\ JobShape(job[d], vault)
    BY UntilNow
  <2>2. ASSUME NEW x \in page[d].shown PROVE x.on \in Ids /\ x.version \in 1..MaxVersion
    <3>1. Faithful(x, vault) /\ x.on \in Ids /\ x.version \in 0..MaxVersion
      BY <2>1 DEF PageShape, Faithful, Copy
    <3>2. vault[x.on].version \in Nat /\ x.version \in 1..vault[x.on].version
      BY <3>1, UntilNow, RowFacts DEF Faithful
    <3> QED
      BY <3>1, <3>2
  <2> QED
    BY <2>1, <2>2 DEF PageShape, Page, JobShape
<1>3. ASSUME NEW r \in reqs PROVE r.do \in Writes /\ r.at \in {"sent", "answered", "refused"}
    BY UntilNow DEF RequestShape, Request
<1>4. \A d \in Devices : Cardinality({r \in reqs : r.d = d /\ r.job}) <= Limit
    BY DEF CopiesInv, JobOf
<1>5. signal \cup online \cup behind \subseteq Desktops /\ spent \in 0..MaxOps /\ lost \subseteq {"text", "favorite"}
    BY UntilNow
<1> QED
    BY <1>1, <1>2, <1>3, <1>4, <1>5 DEF TypeOK, Row

\* The rows, what the screens show of them, the requests of an act, at most
\* Limit of them at a time, have the form the code gives them.
THEOREM TypesHold == Spec => []TypeOK
  BY Copies, CopiesTyped, PTL

\* Whatever is read, answered or refused while a form is open or an act goes
\* on, an edit replaces the text it was made from.
THEOREM EditsKeepText == Spec => []TextKept
<1>1. CopiesInv => TextKept
    BY DEF CopiesInv, TextKept
<1> QED
    BY <1>1, Copies, PTL

-----------------------------------------------------------------------------
(* The stages of an act on a selection.                                    *)

\* What the invariant says of device d alone, and of the act that is on.
Going(d) == job[d] # NoJob /\ ~ job[d].disturbed

LEMMA GoingFacts ==
    ASSUME CopiesInv, NEW d \in Devices, Going(d)
    PROVE  /\ job[d] \in Job /\ job[d].kind \in {"delete", "favorite", "update"} /\ job[d].all \subseteq Ids
           /\ \A x \in job[d].todo : x.on \in job[d].all
           /\ \A r \in JobOf(d) : r \in Request /\ r.on \in job[d].all /\ r.do = job[d].kind
                                  /\ (r.do = "update" => r.folder = job[d].folder)
           /\ \A e \in job[d].all : vault[e] \in Row /\ vault[e].state # "none"
<1>1. JobShape(job[d], vault) /\ vault \in Rows
    BY UntilNow
<1>2. job[d] \in Job /\ job[d].kind \in {"delete", "favorite", "update"} /\ job[d].all \subseteq Ids
    BY <1>1 DEF Going, JobShape, Job
<1>3. \A r \in JobOf(d) : r \in Request /\ Fits(r, job[d])
    BY UntilNow DEF JobOf, CopiesInv, RequestShape
<1>4. \A e \in job[d].all : vault[e] \in Row /\ vault[e].state # "none"
    BY <1>1, <1>2, RowFacts DEF JobShape
<1> QED
    BY <1>1, <1>2, <1>3, <1>4 DEF JobShape, Fits

\* An act nothing reaches stays as far as it is.
LEMMA StagesFrame ==
    ASSUME CopiesInv, StagesInv, NEW d \in Devices, job'[d] = job[d], JobOf(d)' = JobOf(d),
           \A e \in job[d].all : vault'[e] = vault[e], Going(d)'
    PROVE  Stages(d)'
<1>1. Going(d) /\ Stages(d)
    BY DEF Going, StagesInv
<1>2. \A x \in job[d].todo : vault'[x.on] = vault[x.on]
    BY <1>1, GoingFacts
<1>3. \A r \in JobOf(d) : vault'[r.on] = vault[r.on]
    BY <1>1, GoingFacts
<1> DEFINE Q == JobOf(d)
           R == JobOf(d)'
<1>4. Q = R
    OBVIOUS
<1> HIDE DEF Q, R
<1>5. ASSUME ~ job[d].failed, NEW e \in job[d].all
      PROVE  (\E x \in job[d].todo : x.on = e) \/ (\E r \in R : r.on = e /\ r.at # "answered") \/ Wanted(job[d], e, vault')
  <2>1. (\E x \in job[d].todo : x.on = e) \/ (\E r \in Q : r.on = e /\ r.at # "answered") \/ Wanted(job[d], e, vault)
    BY <1>1, <1>5 DEF Stages, Q
  <2>2. Wanted(job[d], e, vault) => Wanted(job[d], e, vault')
    BY DEF Wanted
  <2> QED
    BY <1>4, <2>1, <2>2
<1>6. ASSUME job[d].kind = "favorite"
      PROVE  /\ \A x \in job[d].todo : vault'[x.on].fav # job[d].want
             /\ \A r \in R : r.at = "sent" => vault'[r.on].fav # job[d].want
             /\ \A x, y \in job[d].todo : x.on = y.on => x = y
             /\ \A x \in job[d].todo, r \in R : x.on # r.on
             /\ \A q, r \in R : q.on = r.on => q = r
    BY <1>1, <1>2, <1>3, <1>4, <1>6 DEF Stages, Q
<1> QED
    BY <1>5, <1>6 DEF Stages, R

\* Steps of the screens, of the reads, of the requests of no act.
LEMMA QuietStages ==
    ASSUME CopiesInv, StagesInv, UNCHANGED <<vault, job>>, \A d \in Devices : JobOf(d)' = JobOf(d) PROVE StagesInv'
<1> SUFFICES ASSUME NEW d \in Devices, Going(d)' PROVE Stages(d)'
    BY DEF StagesInv, Going
<1> QED
    BY StagesFrame

\* Steps of the acts: nothing changes for the other devices.
LEMMA OneActStages ==
    ASSUME CopiesInv, StagesInv, NEW d \in Devices, vault' = vault, NEW j, job' = [job EXCEPT ![d] = j],
           \A e \in Devices \ {d} : JobOf(e)' = JobOf(e), Going(d)' => Stages(d)'
    PROVE  StagesInv'
<1> SUFFICES ASSUME NEW e \in Devices, Going(e)' PROVE Stages(e)'
    BY DEF StagesInv, Going
<1>1. CASE e = d
    BY <1>1
<1>2. CASE e # d
  <2>1. job'[e] = job[e] /\ JobOf(e)' = JobOf(e)
    BY <1>2, UntilNow
  <2> QED
    BY <2>1, StagesFrame
<1> QED
    BY <1>1, <1>2

LEMMA BeginsStages ==
    ASSUME CopiesInv, StagesInv, NEW d \in Devices, NEW kind, NEW X, NEW want, NEW folder, NEW keepsSel,
           Begins(d, kind, X, want, folder, keepsSel), kind = "favorite" => \A x \in X : x.fav # want
    PROVE  StagesInv'
<1> DEFINE late == kind # "delete" /\ \E x \in X : x # View(x.on)
           j == [kind |-> kind, all |-> {x.on : x \in X}, todo |-> X, want |-> want, folder |-> folder,
                 failed |-> FALSE, keepsSel |-> keepsSel, disturbed |-> late]
<1>1. job' = [job EXCEPT ![d] = j] /\ Idle(d) /\ UNCHANGED <<vault, reqs>>
    BY DEF Begins
<1>2. \A e \in Devices : JobOf(e)' = JobOf(e)
    BY <1>1 DEF JobOf
<1>3. JobOf(d)' = {}
    BY <1>1, <1>2, IdleHasNone
<1>4. job'[d] = j
    BY <1>1, UntilNow
<1>5. ASSUME Going(d)' PROVE Stages(d)'
  <2>1. ~ late
    <3> HIDE DEF late
    <3>1. j.disturbed = late
      OBVIOUS
    <3> HIDE DEF j
    <3>2. ~ j.disturbed
      BY <1>4, <1>5 DEF Going
    <3> QED
      BY <3>1, <3>2
  <2>2. \A e \in j.all : \E x \in j.todo : x.on = e
    OBVIOUS
  <2>3. ASSUME kind = "favorite"
        PROVE  \A x \in X : vault'[x.on].fav # want /\ \A y \in X : x.on = y.on => x = y
    <3>1. \A x \in X : x = View(x.on) /\ x.fav # want
      BY <2>1, <2>3
    <3>2. \A x \in X : x.fav = vault[x.on].fav
      BY <3>1 DEF View
    <3> QED
      BY <1>1, <3>1, <3>2
  <2>4. job'[d].kind = kind /\ job'[d].todo = X /\ job'[d].want = want /\ job'[d].all = {x.on : x \in X}
    BY <1>4
  <2> HIDE DEF j, late
  <2> DEFINE R == JobOf(d)'
  <2>5. R = {}
    BY <1>3
  <2> HIDE DEF R
  <2>6. \A e \in job'[d].all : \E x \in job'[d].todo : x.on = e
    BY <2>2, <2>4
  <2> QED
    BY <2>3, <2>4, <2>5, <2>6 DEF Stages, R
<1> HIDE DEF j
<1> QED
    BY <1>1, <1>2, <1>5, OneActStages

LEMMA StartingStages == ASSUME CopiesInv, StagesInv, NEW d \in Devices, Starting(d) PROVE StagesInv'
<1>1. CASE HandleBulkDelete(d)
    BY <1>1, BeginsStages DEF HandleBulkDelete
<1>2. CASE HandleBulkSetFavorite(d)
  <2>1. PICK want \in BOOLEAN : Begins(d, "favorite", {x \in Ticked(d) : x.fav # want}, want, NoFolder, FALSE)
    BY <1>2 DEF HandleBulkSetFavorite
  <2> QED
    BY <2>1, BeginsStages
<1>3. CASE HandleBulkSetFolder(d)
  <2>1. PICK f \in Folders : Begins(d, "update", {x \in Ticked(d) : x.folder # f}, FALSE, f, FALSE)
    BY <1>3 DEF HandleBulkSetFolder
  <2> QED
    BY <2>1, BeginsStages
<1>4. CASE FolderSections(d)
  <2>1. PICK section \in GroupEntriesByFolder(page[d]) : HandleRenameFolder(d, section)
    BY <1>4 DEF FolderSections
  <2>2. PICK f \in Folders : Begins(d, "update", section.entries, FALSE, f, TRUE)
    BY <2>1 DEF HandleRenameFolder
  <2> QED
    BY <2>2, BeginsStages
<1> QED
    BY <1>1, <1>2, <1>3, <1>4 DEF Starting

LEMMA AllSettledWithLimitStages ==
    ASSUME CopiesInv, StagesInv, NEW d \in Devices, AllSettledWithLimit(d) PROVE StagesInv'
<1>1. PICK B : BatchSent(d, B)
    BY Batch
<1> DEFINE part(x) == [ReassignFolder(d, x) EXCEPT !.job = TRUE]
           sent == {part(x) : x \in B}
           j == [job[d] EXCEPT !.todo = job[d].todo \ B]
           R == JobOf(d)'
<1>2. /\ B \subseteq job[d].todo /\ JobOf(d) = {} /\ job' = [job EXCEPT ![d] = j]
      /\ reqs' = reqs \cup sent /\ R = sent /\ vault' = vault
    BY <1>1 DEF BatchSent
<1>3. \A x \in B : part(x).d = d /\ part(x).on = x.on /\ part(x).at = "sent"
    BY <1>2, PartShape
<1> HIDE DEF part
<1>4. \A e \in Devices \ {d} : JobOf(e)' = JobOf(e)
    BY <1>2, <1>3 DEF JobOf
<1>5. job[d] \in Job /\ job'[d] = j
    BY <1>2, UntilNow
<1>6. /\ j.kind = job[d].kind /\ j.all = job[d].all /\ j.want = job[d].want /\ j.folder = job[d].folder
      /\ j.failed = job[d].failed /\ j.disturbed = job[d].disturbed /\ j.todo = job[d].todo \ B
    BY <1>5 DEF Job
<1>7. ASSUME Going(d)' PROVE Stages(d)'
  <2>1. job[d] # NoJob
    <3>1. JobShape(job[d], vault)
      BY UntilNow
    <3>2. job[d].todo # {}
      BY DEF AllSettledWithLimit
    <3> QED
      BY <3>2 DEF NoJob
  <2>2. ~ job[d].disturbed
    BY <1>5, <1>6, <1>7 DEF Going
  <2> HIDE DEF j
  <2>3. Stages(d)
    BY <2>1, <2>2 DEF StagesInv
  <2>4. ASSUME ~ j.failed, NEW e \in j.all
        PROVE  (\E x \in j.todo : x.on = e) \/ (\E r \in R : r.on = e /\ r.at # "answered") \/ Wanted(j, e, vault')
    <3>1. (\E x \in job[d].todo : x.on = e) \/ Wanted(job[d], e, vault)
      BY <1>2, <1>6, <2>3, <2>4 DEF Stages
    <3>2. CASE Wanted(job[d], e, vault)
      BY <1>2, <1>6, <3>2 DEF Wanted
    <3>3. ASSUME NEW x \in job[d].todo, x.on = e
          PROVE  (\E y \in j.todo : y.on = e) \/ (\E r \in R : r.on = e /\ r.at # "answered")
      <4>1. CASE x \in B
        <5>1. part(x) \in R /\ part(x).on = e /\ part(x).at # "answered"
          BY <1>2, <1>3, <3>3, <4>1
        <5> HIDE DEF R
        <5> QED
          BY <5>1
      <4>2. CASE x \notin B
        BY <1>6, <3>3, <4>2
      <4> QED
        BY <4>1, <4>2
    <3> HIDE DEF R
    <3> QED
      BY <3>1, <3>2, <3>3
  <2>5. ASSUME j.kind = "favorite"
        PROVE  /\ \A x \in j.todo : vault'[x.on].fav # j.want
               /\ \A r \in R : r.at = "sent" => vault'[r.on].fav # j.want
               /\ \A x, y \in j.todo : x.on = y.on => x = y
               /\ \A x \in j.todo, r \in R : x.on # r.on
               /\ \A q, r \in R : q.on = r.on => q = r
    <3>1. /\ \A x \in job[d].todo : vault[x.on].fav # j.want
          /\ \A x, y \in job[d].todo : x.on = y.on => x = y
      BY <1>6, <2>3, <2>5 DEF Stages
    <3>2. \A r \in R : \E x \in B : r = part(x) /\ r.on = x.on
      BY <1>2, <1>3
    <3> HIDE DEF R
    <3>3. \A r \in R : r.at = "sent" => vault'[r.on].fav # j.want
      BY <1>2, <3>1, <3>2
    <3>4. \A x \in j.todo, r \in R : x.on # r.on
      BY <1>2, <1>6, <3>1, <3>2
    <3>5. \A q, r \in R : q.on = r.on => q = r
      BY <1>2, <3>1, <3>2
    <3> QED
      BY <1>2, <1>6, <3>1, <3>3, <3>4, <3>5
  <2> HIDE DEF R
  <2> QED
    BY <1>5, <2>4, <2>5 DEF Stages, R
<1> HIDE DEF j
<1> QED
    BY <1>2, <1>4, <1>7, OneActStages

\* A request of the act of device d moves on, or is settled.
LEMMA OtherActs ==
    ASSUME CopiesInv, NEW r \in reqs, NEW e \in Devices, ~ (r.job /\ r.d = e),
           (\E at : Moves(r, at)) \/ reqs' = reqs \ {r}
    PROVE  JobOf(e)' = JobOf(e)
<1>1. CASE reqs' = reqs \ {r}
    BY <1>1 DEF JobOf
<1>2. ASSUME NEW at, Moves(r, at) PROVE JobOf(e)' = JobOf(e)
  <2> DEFINE m == [r EXCEPT !.at = at]
  <2>1. m.d = r.d /\ m.job = r.job
    BY UntilNow DEF RequestShape, Request
  <2>2. reqs' = (reqs \ {r}) \cup {m}
    BY <1>2 DEF Moves
  <2> HIDE DEF m
  <2> QED
    BY <2>1, <2>2 DEF JobOf
<1> QED
    BY <1>1, <1>2

LEMMA OwnMoves ==
    ASSUME CopiesInv, NEW r \in reqs, r.job, NEW at \in {"sent", "answered", "refused"}, Moves(r, at)
    PROVE  \E m : /\ JobOf(r.d)' = (JobOf(r.d) \ {r}) \cup {m}
                  /\ m.on = r.on /\ m.at = at
<1> DEFINE m == [r EXCEPT !.at = at]
<1>1. m.d = r.d /\ m.job = r.job /\ m.on = r.on /\ m.at = at
    BY UntilNow DEF RequestShape, Request
<1>2. reqs' = (reqs \ {r}) \cup {m}
    BY DEF Moves
<1> HIDE DEF m
<1>3. JobOf(r.d)' = (JobOf(r.d) \ {r}) \cup {m}
    BY <1>1, <1>2 DEF JobOf
<1> QED
    BY <1>1, <1>3

LEMMA OwnStages ==
    ASSUME CopiesInv, StagesInv, NEW r \in reqs, r.job, NEW at \in {"answered", "refused"}, Moves(r, at),
           job'[r.d] = job[r.d], Going(r.d)',
           \A e \in job[r.d].all \ {r.on} : vault'[e] = vault[e],
           IF at = "refused" THEN vault'[r.on] = vault[r.on] ELSE Wanted(job[r.d], r.on, vault')
    PROVE  Stages(r.d)'
<1> DEFINE d == r.d
           j == job[d]
           Q == JobOf(d)
           R == JobOf(d)'
<1>1. d \in Devices /\ r \in Q
    BY UntilNow DEF JobOf
<1>2. Going(d) /\ Stages(d)
    BY <1>1 DEF Going, StagesInv
<1>3. PICK m : R = (Q \ {r}) \cup {m} /\ m.on = r.on /\ m.at = at
    BY OwnMoves
<1>4. \A x \in j.todo : x.on \in j.all
    BY <1>1, <1>2, GoingFacts
<1>5. \A q \in Q : q.on \in j.all
    BY <1>1, <1>2, GoingFacts
<1> HIDE DEF Q, R
<1>6. ASSUME ~ j.failed, NEW e \in j.all
      PROVE  (\E x \in j.todo : x.on = e) \/ (\E q \in R : q.on = e /\ q.at # "answered") \/ Wanted(j, e, vault')
  <2>1. (\E x \in j.todo : x.on = e) \/ (\E q \in Q : q.on = e /\ q.at # "answered") \/ Wanted(j, e, vault)
    BY <1>2, <1>6 DEF Stages, Q
  <2>2. CASE e = r.on
    <3>1. CASE at = "refused"
      BY <1>3, <2>2, <3>1
    <3>2. CASE at # "refused"
      BY <2>2, <3>2
    <3> QED
      BY <3>1, <3>2
  <2>3. CASE e # r.on
    <3>1. vault'[e] = vault[e]
      BY <2>3
    <3>2. Wanted(j, e, vault) => Wanted(j, e, vault')
      BY <3>1 DEF Wanted
    <3>3. \A q \in Q : q.on = e => q \in R
      BY <1>3, <2>3
    <3> QED
      BY <2>1, <3>2, <3>3
  <2> QED
    BY <2>2, <2>3
<1>7. ASSUME j.kind = "favorite"
      PROVE  /\ \A x \in j.todo : vault'[x.on].fav # j.want
             /\ \A q \in R : q.at = "sent" => vault'[q.on].fav # j.want
             /\ \A x, y \in j.todo : x.on = y.on => x = y
             /\ \A x \in j.todo, q \in R : x.on # q.on
             /\ \A p, q \in R : p.on = q.on => p = q
  <2>1. /\ \A x \in j.todo : vault[x.on].fav # j.want
        /\ \A q \in Q : q.at = "sent" => vault[q.on].fav # j.want
        /\ \A x, y \in j.todo : x.on = y.on => x = y
        /\ \A x \in j.todo, q \in Q : x.on # q.on
        /\ \A p, q \in Q : p.on = q.on => p = q
    BY <1>2, <1>7 DEF Stages, Q
  <2>2. \A x \in j.todo : vault'[x.on] = vault[x.on]
    BY <1>1, <1>4, <2>1
  <2>3. \A q \in R : q = m \/ (q \in Q /\ q.on # r.on /\ vault'[q.on] = vault[q.on])
    BY <1>1, <1>3, <1>5, <2>1
  <2>4. m.at # "sent"
    BY <1>3
  <2>5. \A q \in R : q.at = "sent" => vault'[q.on].fav # j.want
    BY <2>1, <2>3, <2>4
  <2>6. \A x \in j.todo, q \in R : x.on # q.on
    BY <1>1, <1>3, <2>1, <2>3
  <2>7. \A p, q \in R : p.on = q.on => p = q
    BY <1>3, <2>1, <2>3
  <2> QED
    BY <2>1, <2>2, <2>5, <2>6, <2>7
<1>8. job'[d] = j
    OBVIOUS
<1> HIDE DEF j, d
<1>9. Stages(d)'
    BY <1>6, <1>7, <1>8 DEF Stages, R
<1> QED
    BY <1>9 DEF d

LEMMA SettledStages == ASSUME CopiesInv, StagesInv, NEW r \in reqs, Settled(r) PROVE StagesInv'
<1> DEFINE d == r.d
           j == [job[d] EXCEPT !.failed = @ \/ r.at = "refused"]
           Q == JobOf(d)
           R == JobOf(d)'
<1>1. d \in Devices /\ job[d] \in Job /\ r.job /\ r \in Q
    BY UntilNow DEF Settled, JobOf
<1>2. r.at \in {"answered", "refused"}
    BY UntilNow DEF Settled, RequestShape, Request
<1>3. job' = [job EXCEPT ![d] = j] /\ reqs' = reqs \ {r} /\ vault' = vault
    BY DEF Settled
<1>4. /\ j.kind = job[d].kind /\ j.all = job[d].all /\ j.want = job[d].want /\ j.folder = job[d].folder
      /\ j.disturbed = job[d].disturbed /\ j.todo = job[d].todo
    BY <1>1 DEF Job
<1>5. ~ j.failed => ~ job[d].failed /\ r.at = "answered"
    BY <1>1, <1>2 DEF Job
<1>6. job'[d] = j
    BY <1>1, <1>3, UntilNow
<1>7. R = Q \ {r}
    BY <1>3 DEF JobOf
<1>8. \A e \in Devices \ {d} : JobOf(e)' = JobOf(e)
    BY <1>3 DEF JobOf
<1>9. job[d] # NoJob
    BY <1>1 DEF CopiesInv, Fits, NoJob
<1> HIDE DEF j, Q, R
<1>10. ASSUME Going(d)' PROVE Stages(d)'
  <2>1. Stages(d)
    BY <1>1, <1>4, <1>6, <1>9, <1>10 DEF Going, StagesInv
  <2>2. ASSUME ~ j.failed, NEW e \in j.all
        PROVE  (\E x \in j.todo : x.on = e) \/ (\E q \in R : q.on = e /\ q.at # "answered") \/ Wanted(j, e, vault')
    <3>1. (\E x \in j.todo : x.on = e) \/ (\E q \in Q : q.on = e /\ q.at # "answered") \/ Wanted(job[d], e, vault)
      BY <1>4, <1>5, <2>1, <2>2 DEF Stages, Q
    <3>2. Wanted(job[d], e, vault) => Wanted(j, e, vault')
      BY <1>3, <1>4 DEF Wanted
    <3> QED
      BY <1>5, <1>7, <2>2, <3>1, <3>2
  <2>3. ASSUME j.kind = "favorite"
        PROVE  /\ \A x \in j.todo : vault'[x.on].fav # j.want
               /\ \A q \in R : q.at = "sent" => vault'[q.on].fav # j.want
               /\ \A x, y \in j.todo : x.on = y.on => x = y
               /\ \A x \in j.todo, q \in R : x.on # q.on
               /\ \A p, q \in R : p.on = q.on => p = q
    <3>1. /\ \A x \in j.todo : vault[x.on].fav # j.want
          /\ \A q \in Q : q.at = "sent" => vault[q.on].fav # j.want
          /\ \A x, y \in j.todo : x.on = y.on => x = y
          /\ \A x \in j.todo, q \in Q : x.on # q.on
          /\ \A p, q \in Q : p.on = q.on => p = q
      BY <1>4, <2>1, <2>3 DEF Stages, Q
    <3> QED
      BY <1>3, <1>7, <3>1
  <2> HIDE DEF d
  <2> QED
    BY <1>6, <2>2, <2>3 DEF Stages, R
<1> QED
    BY <1>1, <1>3, <1>8, <1>10, OneActStages

\* A write the server makes reaches the acts on its entry: its own comes out
\* as wanted, the others are disturbed.
LEMMA CommitStages ==
    ASSUME CopiesInv, StagesInv, NEW r \in reqs, r.on \in Ids, NEW row, Commit(r, row),
           r.job /\ Going(r.d) => Wanted(job[r.d], r.on, vault')
    PROVE  StagesInv'
<1>1. /\ vault' = [vault EXCEPT ![r.on] = row] /\ Moves(r, "answered") /\ Disturbs(r)
    BY DEF Commit
<1>2. \A e \in Ids \ {r.on} : vault'[e] = vault[e]
    BY <1>1, UntilNow DEF Rows
<1>3. r.d \in Devices
    BY UntilNow
<1> SUFFICES ASSUME NEW d \in Devices, Going(d)' PROVE Stages(d)'
    BY DEF StagesInv, Going
<1>4. job'[d] = IF r.on \in job[d].all /\ ~ (r.job /\ r.d = d) THEN [job[d] EXCEPT !.disturbed = TRUE] ELSE job[d]
    BY <1>1 DEF Disturbs
<1>5. job[d] \in Job
    BY UntilNow
<1>6. ~ (r.on \in job[d].all /\ ~ (r.job /\ r.d = d))
  <2>1. [job[d] EXCEPT !.disturbed = TRUE].disturbed = TRUE
    BY <1>5 DEF Job
  <2> QED
    BY <1>4, <2>1 DEF Going
<1>7. job'[d] = job[d] /\ Going(d)
    BY <1>4, <1>6 DEF Going
<1>8. \A e \in job[d].all \ {r.on} : vault'[e] = vault[e]
    BY <1>2, <1>7, GoingFacts
<1>9. CASE r.job /\ r.d = d
  <2>1. Wanted(job[r.d], r.on, vault')
    BY <1>7, <1>9
  <2> QED
    BY <1>1, <1>7, <1>8, <1>9, <2>1, OwnStages
<1>10. CASE ~ (r.job /\ r.d = d)
  <2>1. JobOf(d)' = JobOf(d)
    BY <1>1, <1>10, OtherActs
  <2>2. \A e \in job[d].all : vault'[e] = vault[e]
    BY <1>6, <1>8, <1>10
  <2> QED
    BY <1>7, <2>1, <2>2, StagesFrame
<1> QED
    BY <1>9, <1>10

LEMMA AddToVaultStages == ASSUME CopiesInv, StagesInv, NEW r \in reqs, AddToVault(r) PROVE StagesInv'
<1>1. PICK e \in Ids : /\ vault[e].state = "none"
                       /\ vault' = [vault EXCEPT ![e] = [state |-> "active", version |-> 1, fav |-> FALSE, folder |-> r.folder]]
    BY DEF AddToVault
<1>2. Moves(r, "answered") /\ job' = job /\ r.do = "add"
    BY DEF AddToVault
<1> SUFFICES ASSUME NEW d \in Devices, Going(d)' PROVE Stages(d)'
    BY DEF StagesInv, Going
<1>3. Going(d) /\ job'[d] = job[d]
    BY <1>2 DEF Going
<1>4. \A f \in job[d].all : vault'[f] = vault[f]
    BY <1>1, <1>3, GoingFacts, UntilNow DEF Rows
<1>5. ~ (r.job /\ r.d = d)
  <2>1. r.job /\ r.d = d => r \in JobOf(d)
    BY DEF JobOf
  <2>2. r.do \notin {"delete", "favorite", "update"}
    BY <1>2
  <2> QED
    BY <1>3, <2>1, <2>2, GoingFacts
<1>6. JobOf(d)' = JobOf(d)
    BY <1>2, <1>5, OtherActs
<1> QED
    BY <1>3, <1>4, <1>6, StagesFrame

LEMMA RequestFailsStages == ASSUME CopiesInv, StagesInv, NEW r \in reqs, RequestFails(r) PROVE StagesInv'
<1>1. Moves(r, "refused") /\ vault' = vault /\ job' = job
    BY DEF RequestFails
<1> SUFFICES ASSUME NEW d \in Devices, Going(d)' PROVE Stages(d)'
    BY DEF StagesInv, Going
<1>2. CASE r.job /\ r.d = d
    BY <1>1, <1>2, OwnStages
<1>3. CASE ~ (r.job /\ r.d = d)
  <2>1. JobOf(d)' = JobOf(d)
    BY <1>1, <1>3, OtherActs
  <2> QED
    BY <1>1, <2>1, StagesFrame
<1> QED
    BY <1>2, <1>3

LEMMA Inverts == ASSUME NEW a \in BOOLEAN, NEW b \in BOOLEAN, a # b PROVE (~ a) = b
  OBVIOUS

LEMMA ServeStages == ASSUME CopiesInv, StagesInv, NEW r \in reqs, Serve(r) PROVE StagesInv'
<1>1. r.do # "add" => r.on \in Ids
    BY UntilNow DEF RequestShape
<1>2. vault \in [Ids -> Row]
    BY UntilNow DEF Rows
<1>3. ASSUME r.job, Going(r.d)
      PROVE  /\ r.do = job[r.d].kind /\ (r.do = "update" => r.folder = job[r.d].folder)
             /\ r.do \in {"delete", "favorite", "update"} /\ job[r.d] \in Job /\ r.d \in Devices /\ r \in JobOf(r.d)
  <2>1. r \in JobOf(r.d) /\ r.d \in Devices
    BY <1>3, UntilNow DEF JobOf
  <2> QED
    BY <1>3, <2>1, GoingFacts
<1>4. CASE AddToVault(r)
    BY <1>4, AddToVaultStages
<1>5. CASE UpdateVaultEntry(r)
  <2> DEFINE row == [state |-> "active", version |-> vault[r.on].version + 1, fav |-> r.fav, folder |-> r.folder]
  <2>1. r.do = "update" /\ Commit(r, row)
    BY <1>5 DEF UpdateVaultEntry, Here
  <2>2. row.folder = r.folder
    OBVIOUS
  <2> HIDE DEF row
  <2>3. vault'[r.on] = row
    BY <1>1, <1>2, <2>1 DEF Commit
  <2>4. r.job /\ Going(r.d) => Wanted(job[r.d], r.on, vault')
    BY <1>3, <2>1, <2>2, <2>3 DEF Wanted
  <2> QED
    BY <1>1, <2>1, <2>4, CommitStages
<1>6. CASE ToggleFavorite(r)
  <2> DEFINE row == [vault[r.on] EXCEPT !.fav = ~ @]
  <2>1. r.do = "favorite" /\ r.at = "sent" /\ Commit(r, row)
    BY <1>6 DEF ToggleFavorite, Here
  <2>2. row.fav = ~ vault[r.on].fav /\ vault[r.on].fav \in BOOLEAN
    BY <1>1, <1>2, <2>1 DEF Row
  <2> HIDE DEF row
  <2>3. vault'[r.on] = row
    BY <1>1, <1>2, <2>1 DEF Commit
  <2>4. ASSUME r.job, Going(r.d) PROVE Wanted(job[r.d], r.on, vault')
    <3>1. Stages(r.d) /\ job[r.d].kind = "favorite" /\ r \in JobOf(r.d) /\ job[r.d].want \in BOOLEAN
      BY <1>3, <2>1, <2>4 DEF StagesInv, Going, Job
    <3>2. vault[r.on].fav # job[r.d].want
      BY <2>1, <3>1 DEF Stages
    <3>3. (~ vault[r.on].fav) = job[r.d].want
      BY <2>2, <3>1, <3>2, Inverts
    <3>4. vault'[r.on].fav = job[r.d].want
      BY <2>2, <2>3, <3>3
    <3> QED
      BY <3>1, <3>4 DEF Wanted
  <2> QED
    BY <1>1, <2>1, <2>4, CommitStages
<1>7. CASE DeleteVaultEntry(r)
  <2> DEFINE row == [vault[r.on] EXCEPT !.state = "trash"]
  <2>1. r.do = "delete" /\ Commit(r, row)
    BY <1>7 DEF DeleteVaultEntry, Here
  <2>2. row.state = "trash"
    BY <1>1, <1>2, <2>1 DEF Row
  <2> HIDE DEF row
  <2>3. vault'[r.on] = row
    BY <1>1, <1>2, <2>1 DEF Commit
  <2>4. r.job /\ Going(r.d) => Wanted(job[r.d], r.on, vault')
    BY <1>3, <2>1, <2>2, <2>3 DEF Wanted
  <2> QED
    BY <1>1, <2>1, <2>4, CommitStages
<1>8. CASE RestoreVaultEntry(r) \/ PermanentlyDelete(r)
  <2>1. PICK row : Commit(r, row)
    BY <1>8 DEF RestoreVaultEntry, PermanentlyDelete
  <2>2. r.do \notin {"add", "delete", "favorite", "update"}
    BY <1>8 DEF RestoreVaultEntry, PermanentlyDelete, Here
  <2> QED
    BY <1>1, <1>3, <2>1, <2>2, CommitStages
<1>9. CASE RequestFails(r)
    BY <1>9, RequestFailsStages
<1> QED
    BY <1>4, <1>5, <1>6, <1>7, <1>8, <1>9 DEF Serve

LEMMA WritingStages == ASSUME CopiesInv, StagesInv, NEW d \in Devices, Writing(d) PROVE StagesInv'
<1>1. \E r : Sends(r) /\ ~ r.job
  <2>1. CASE HandleAdd(d)
    BY <2>1 DEF HandleAdd, Ask
  <2>2. CASE HandleEdit(d)
    <3> DEFINE x == page[d].form
    <3>1. PICK f \in Folders : Sends(EncryptEntry(d, x, f))
      BY <2>2 DEF HandleEdit
    <3> HIDE DEF x
    <3>2. EncryptEntry(d, x, f).job = FALSE
      BY DEF EncryptEntry, Ask
    <3> QED
      BY <3>1, <3>2
  <2>3. CASE HandleDelete(d)
    BY <2>3 DEF HandleDelete, Ask
  <2>4. CASE HandleToggleFavorite(d)
    BY <2>4 DEF HandleToggleFavorite, Ask
  <2> QED
    BY <2>1, <2>2, <2>3, <2>4 DEF Writing
<1>2. PICK r : Sends(r) /\ ~ r.job
    BY <1>1
<1>3. UNCHANGED <<vault, job>> /\ reqs' = reqs \cup {r}
    BY <1>2 DEF Sends
<1>4. \A e \in Devices : JobOf(e)' = JobOf(e)
    BY <1>2, <1>3 DEF JobOf
<1> QED
    BY <1>3, <1>4, QuietStages

LEMMA UserActStages == ASSUME CopiesInv, StagesInv, NEW d \in Devices, UserAct(d) PROVE StagesInv'
<1>1. CASE OpenForm(d) \/ CloseForm(d) \/ Ticking(d)
  <2>1. UNCHANGED <<vault, reqs, job>>
    BY <1>1 DEF OpenForm, CloseForm, Ticking, ToggleSelected, ExitSelection, ToggleSelectAll, Selects, Turns
  <2> QED
    BY <2>1, QuietStages DEF JobOf
<1>2. CASE Writing(d)
    BY <1>2, WritingStages
<1>3. CASE OpenTrash(d)
    BY <1>3, QuietStages DEF OpenTrash, JobOf
<1>4. CASE HandleRestore(d) \/ HandlePurge(d)
  <2>1. PICK r : Sends(r) /\ ~ r.job
    <3>1. PICK do, e : Sends(Ask(d, do, e))
      BY <1>4 DEF HandleRestore, HandlePurge
    <3>2. Ask(d, do, e).job = FALSE
      BY DEF Ask
    <3> QED
      BY <3>1, <3>2
  <2>2. UNCHANGED <<vault, job>> /\ reqs' = reqs \cup {r}
    BY <2>1 DEF Sends
  <2>3. \A e \in Devices : JobOf(e)' = JobOf(e)
    BY <2>1, <2>2 DEF JobOf
  <2> QED
    BY <2>2, <2>3, QuietStages
<1>5. CASE Starting(d)
    BY <1>5, StartingStages
<1> QED
    BY <1>1, <1>2, <1>3, <1>4, <1>5 DEF UserAct, Trashing

LEMMA AnswerStages == ASSUME CopiesInv, StagesInv, NEW r \in reqs, Answer(r) PROVE StagesInv'
<1>1. CASE Reads(r) \/ ShowsAtOnce(r) \/ Refused(r)
  <2>1. NotJob(r)
    BY <1>1 DEF Reads, ShowsAtOnce, Refused
  <2>2. UNCHANGED <<vault, job>> /\ reqs' = reqs \ {r} /\ ~ r.job
    BY <2>1 DEF NotJob
  <2>3. \A e \in Devices : JobOf(e)' = JobOf(e)
    BY <2>2 DEF JobOf
  <2> QED
    BY <2>2, <2>3, QuietStages
<1>2. CASE Settled(r)
    BY <1>2, SettledStages
<1> QED
    BY <1>1, <1>2 DEF Answer

LEMMA JobEndsStages == ASSUME CopiesInv, StagesInv, NEW d \in Devices, JobEnds(d) PROVE StagesInv'
<1>1. job' = [job EXCEPT ![d] = NoJob] /\ UNCHANGED <<vault, reqs>>
    BY DEF JobEnds
<1>2. ~ Going(d)'
    BY <1>1, UntilNow DEF Going
<1>3. \A e \in Devices \ {d} : JobOf(e)' = JobOf(e)
    BY <1>1 DEF JobOf
<1> QED
    BY <1>1, <1>2, <1>3, OneActStages

LEMMA NextStages == CopiesInv /\ StagesInv /\ [Next]_vars => StagesInv'
<1> SUFFICES ASSUME CopiesInv, StagesInv, [Next]_vars PROVE StagesInv'
    OBVIOUS
<1>1. ASSUME NEW d \in Devices, Vault(d) \/ VaultScreen(d) PROVE StagesInv'
    BY <1>1, Screens, UserActStages
<1>2. ASSUME NEW d \in Devices, JobStep(d) PROVE StagesInv'
    BY <1>2, AllSettledWithLimitStages, JobEndsStages DEF JobStep
<1>3. ASSUME NEW d \in Desktops, SyncReload(d) \/ Disconnect(d) \/ Connect(d) PROVE StagesInv'
    BY <1>3, QuietStages DEF SyncReload, Disconnect, Connect, JobOf
<1>4. ASSUME NEW r \in reqs, Serve(r) PROVE StagesInv'
    BY <1>4, ServeStages
<1>5. ASSUME NEW r \in reqs, Answer(r) PROVE StagesInv'
    BY <1>5, AnswerStages
<1>6. ASSUME NEW l \in loads, LoadStep(l) PROVE StagesInv'
    BY <1>6, QuietStages DEF LoadStep, GetFullVault, Shown, LoadFails, JobOf
<1>7. CASE UNCHANGED vars
    BY <1>7, QuietStages DEF vars, JobOf
<1> QED
    BY <1>1, <1>2, <1>3, <1>4, <1>5, <1>6, <1>7 DEF Next

LEMMA InitStages == Init => StagesInv
  BY DEF Init, StagesInv

LEMMA StagesHold == Spec => []StagesInv
  BY InitStages, NextStages, Copies, PTL DEF Spec

\* Only JobEnds ends an act.
LEMMA EndsOnly ==
    ASSUME CopiesInv, [Next]_vars, NEW d \in Devices, job[d] # NoJob, job'[d] = NoJob
    PROVE  job[d].todo = {} /\ JobOf(d) = {}
<1>1. job[d] \in Job /\ job[d].kind # "none" /\ job[d].kind # NoJob.kind
    BY UntilNow DEF JobShape, NoJob
<1>2. job'[d].kind = "none"
    BY DEF NoJob
<1>3. ASSUME NEW e \in Devices, UserAct(e) PROVE job'[d].kind = job[d].kind
  <2>1. CASE Starting(e)
    <3>1. PICK j : Idle(e) /\ job' = [job EXCEPT ![e] = j]
      BY <2>1 DEF Starting, HandleBulkDelete, HandleBulkSetFavorite, HandleBulkSetFolder, FolderSections,
                  HandleRenameFolder, Begins
    <3>2. e # d
      BY <3>1 DEF Idle
    <3> QED
      BY <3>1, <3>2, UntilNow
  <2>2. CASE Writing(e) \/ HandleRestore(e) \/ HandlePurge(e)
    BY <2>2 DEF Writing, HandleAdd, HandleEdit, HandleDelete, HandleToggleFavorite, HandleRestore, HandlePurge, Sends
  <2>3. CASE OpenForm(e) \/ CloseForm(e) \/ Ticking(e) \/ OpenTrash(e)
    BY <2>3 DEF OpenForm, CloseForm, OpenTrash, Ticking, ToggleSelected, ExitSelection, ToggleSelectAll, Selects, Turns
  <2> QED
    BY <1>3, <2>1, <2>2, <2>3 DEF UserAct, Trashing
<1>4. ASSUME NEW e \in Devices, AllSettledWithLimit(e) PROVE job'[d].kind = job[d].kind
  <2>1. PICK B : job' = [job EXCEPT ![e].todo = @ \ B]
    BY <1>4 DEF AllSettledWithLimit
  <2>2. job'[d] = job[d] \/ job'[d] = [job[d] EXCEPT !.todo = @ \ B]
    BY <2>1, UntilNow
  <2> QED
    BY <1>1, <2>2 DEF Job
<1>5. ASSUME NEW e \in Devices, JobEnds(e) PROVE job[d].todo = {} /\ JobOf(d) = {}
  <2>1. e = d
    BY <1>1, <1>2, <1>5, UntilNow DEF JobEnds
  <2> QED
    BY <1>5, <2>1 DEF JobEnds
<1>6. ASSUME NEW r \in reqs, Serve(r) PROVE job'[d].kind = job[d].kind
  <2>1. Disturbs(r) \/ job' = job
    BY <1>6 DEF Serve, AddToVault, UpdateVaultEntry, ToggleFavorite, DeleteVaultEntry, RestoreVaultEntry,
                PermanentlyDelete, RequestFails, Commit
  <2>2. job'[d] = job[d] \/ job'[d] = [job[d] EXCEPT !.disturbed = TRUE]
    BY <2>1 DEF Disturbs
  <2> QED
    BY <1>1, <2>2 DEF Job
<1>7. ASSUME NEW r \in reqs, Answer(r) PROVE job'[d].kind = job[d].kind
  <2>1. CASE Settled(r)
    <3>1. job'[d] = job[d] \/ job'[d] = [job[d] EXCEPT !.failed = @ \/ r.at = "refused"]
      BY <2>1, UntilNow DEF Settled
    <3> QED
      BY <1>1, <3>1 DEF Job
  <2>2. CASE Reads(r) \/ ShowsAtOnce(r) \/ Refused(r)
    BY <2>2 DEF Reads, ShowsAtOnce, Refused, NotJob
  <2> QED
    BY <1>7, <2>1, <2>2 DEF Answer
<1>8. ASSUME NEW e \in Desktops, SyncReload(e) \/ Disconnect(e) \/ Connect(e) PROVE job'[d].kind = job[d].kind
    BY <1>8 DEF SyncReload, Disconnect, Connect
<1>9. ASSUME NEW l \in loads, LoadStep(l) PROVE job'[d].kind = job[d].kind
    BY <1>9 DEF LoadStep, GetFullVault, Shown, LoadFails
<1>10. CASE UNCHANGED vars
    BY <1>1, <1>2, <1>10 DEF vars
<1> QED
    BY <1>1, <1>2, <1>3, <1>4, <1>5, <1>6, <1>7, <1>8, <1>9, <1>10, Screens DEF Next, JobStep

\* An act on a selection that ends with no failure, and nobody in the way, has
\* done what it said to every entry: no batch is dropped, no answer of one
\* entry counts for another, no mark is inverted twice.
THEOREM SelectionDone == Spec => BulkDone
<1>1. CopiesInv /\ StagesInv /\ [Next]_vars =>
        [\A d \in Devices : job[d] # NoJob /\ job'[d] = NoJob /\ ~ job[d].failed /\ ~ job[d].disturbed =>
           \A e \in job[d].all :
             CASE job[d].kind = "delete" -> vault[e].state = "trash"
               [] job[d].kind = "favorite" -> vault[e].fav = job[d].want
               [] OTHER -> vault[e].folder = job[d].folder]_vars
  <2> SUFFICES ASSUME CopiesInv, StagesInv, [Next]_vars, NEW d \in Devices,
                      job[d] # NoJob, job'[d] = NoJob, ~ job[d].failed, ~ job[d].disturbed, NEW e \in job[d].all
               PROVE  Wanted(job[d], e, vault)
    BY DEF Wanted
  <2>1. job[d].todo = {} /\ JobOf(d) = {}
    BY EndsOnly
  <2>2. Stages(d)
    BY DEF StagesInv
  <2> QED
    BY <2>1, <2>2 DEF Stages
<1> QED
    BY <1>1, Copies, StagesHold, PTL DEF Spec, BulkDone
=============================================================================
