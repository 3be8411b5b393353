--------------------------- MODULE KeyringProofs ---------------------------
(***************************************************************************)
(* Theorems about Keyring, for any accounts, devices, lanes, entries,      *)
(* relations and blind shares.                                             *)
(*                                                                         *)
(* Every property speaks of what a handler learnt in one request and uses  *)
(* in a later one, so the invariant types the handlers at work (OpShape)   *)
(* and the requests in the background (TaskShape), what the devices show   *)
(* (ScreenShape), and ties the vault key a desktop holds to the handlers   *)
(* at work on it (HeldShape).                                              *)
(***************************************************************************)
EXTENDS Keyring, TLAPS

Ons == Entries \cup Trusted \cup Blinds \cup {None} \cup ({"share"} \X Nat)

PairRow == [pub : 0..MaxPairs, under : 0..MaxKeys]
ShareView == [id : 0..MaxIds, pub : 0..MaxPairs, says : 0..MaxVersion]
VaultView == [pub : 0..MaxPairs, of : 0..MaxKeys, under : 0..MaxKeys]

BlindRow == [st : {"unused", "live", "gone"}, e : Entries \cup {None}, to : Users \cup {None},
             pub : 0..MaxPairs, left : Nat, max : Nat]

Screen == [page : {"none", "share", "blind", "received", "shared", "emergency"}, on : Ons,
           ids : SUBSET Nat, blinds : SUBSET (Blinds \X Nat), shows : Nat]

Op == [do : Handlers,
       at : {"hasKeys", "generate", "publicKey", "send", "list", "own", "use", "fetch",
             "decrypt", "update", "login"},
       on : Ons, to : Users \cup {None}, pub : 0..MaxPairs, says : Nat, uses : Nat,
       own : PairRow \cup {None}, view : ShareView \cup VaultView \cup {None},
       left : BOOLEAN, failed : BOOLEAN, seen : Nat]

\* The requests each handler makes.
Moves ==
    ({"share", "sendBlind", "seed"} \X {"publicKey", "send"})
    \cup ({"revoke", "revokeBlind"} \X {"send"})
    \cup ({"listShares", "listBlinds"} \X {"list"})
    \cup ({"received", "receivedBlinds"} \X {"hasKeys", "generate", "list"})
    \cup ({"receivedBlinds", "useBlind"} \X {"own"}) \cup ({"useBlind"} \X {"use"})
    \cup ({"open"} \X {"hasKeys", "generate", "fetch"})
    \cup ({"emergency"} \X {"fetch", "decrypt"})
    \cup ({"rekey"} \X {"update", "login"})

\* What handler o in lane c works on, while the vault keys are k.  The sealed
\* key an opening has read was the owner's at some time no later than that of
\* the entries it reads.
OpShape(c, o, k) ==
    o # Idle =>
      /\ o \in Op /\ <<o.do, o.at>> \in Moves
      /\ o.do \in {"share", "sendBlind"} => o.on \in Entries /\ o.to \in Users /\ o.says \in 0..MaxVersion
      /\ o.do = "seed" =>
           /\ o.on \in Trusted /\ o.to = o.on[2] /\ User(c) = o.on[1]
           /\ o.at = "send" => o.says <= k[o.on[1]]
      /\ o.at = "generate" => o.says \in 0..MaxKeys
      /\ o.do = "listShares" => o.on \in Entries
      /\ o.do \in {"useBlind", "revokeBlind"} => o.on \in Blinds
      /\ o.do = "open" => o.view \in ShareView \cup {None}
      /\ o.do = "emergency" =>
           /\ o.on \in Trusted
           /\ o.view = None \/ (o.view \in VaultView /\ o.view.of <= o.view.under
                                  /\ o.view.under <= k[o.on[1]])
           /\ o.at = "decrypt" => o.view \in VaultView /\ o.view.of <= o.view.under
                                    /\ o.view.under <= k[o.on[1]]

ScreenShape(s) == s.page \in {"share", "blind"} => s.on \in Entries /\ s.shows \in 0..MaxVersion

\* An opening whose page was left knows it.
PageShape(o, page) == o # Idle /\ o.do = "emergency" => o.left \/ page = "emergency"

\* Handler o is about to decrypt with the vault key h.
Reads(o, h) ==
    o # Idle /\ o.do = "emergency" /\ o.at = "decrypt" /\ o.on = h[1] /\ o.view.of = h[2]

\* A vault key held is behind its page, a former one, or about to be used.
HeldShape(d, h, page, ops, k) ==
    \/ h = None \/ page = "emergency"
    \/ h[2] < k[h[1][1]]
    \/ \E c \in LanesOf(d) : Reads(ops[c], h)

Holds == {None} \cup (Trusted \X (0..MaxKeys))

ScreensInv == screen \in [Devices -> Screen] /\ \A d \in Devices : ScreenShape(screen[d])

DevicesInv ==
    /\ op \in [Lanes -> Op \cup {Idle}] /\ held \in [Desktops -> Holds] /\ ScreensInv
    /\ \A c \in Lanes : OpShape(c, op[c], key) /\ PageShape(op[c], screen[DeviceOf[c]].page)
    /\ \A d \in Desktops : HeldShape(d, held[d], screen[d].page, op, key)

Work == [d : Devices, by : {"edit", "bulk", "rekey"}, at : {"list", "publicKey", "send"},
         on : Entries \cup Trusted, to : Users \cup {None}, pub : 0..MaxPairs, says : Nat]

TaskShape(t, k) ==
    /\ t \in Work
    /\ t.at = "list" => t.on \in Entries
    /\ t.at # "list" => t.to \in Users
    /\ t.on \in Entries => t.says \in 0..MaxVersion
    /\ t.on \in Trusted =>
         /\ t.to = t.on[2] /\ UserOf[t.d] = t.on[1]
         /\ t.at = "send" => t.says <= k[t.on[1]]

TasksInv == \A t \in tasks : TaskShape(t, key)

RowsInv ==
    /\ key \in [Users -> 1..MaxKeys]
    /\ pairs \in [Users -> PairRow]
    /\ made \in 0..MaxPairs /\ ids \in 0..MaxIds /\ spent \in 0..MaxOps
    /\ entries \in [Entries -> [st : {"active", "trash"}, version : 1..MaxVersion]]
    /\ shares \in [Entries -> [Users -> ShareView]]
    /\ blinds \in [Blinds -> BlindRow]
    /\ seeds \in [Trusted -> [pub : 0..MaxPairs, of : 0..MaxKeys]]
    /\ \A p \in Trusted : seeds[p].of <= key[p[1]]
    /\ \A b \in Blinds : blinds[b].left <= blinds[b].max
    /\ \A b \in Blinds : blinds[b].st = "live" => blinds[b].e \in Entries /\ blinds[b].to \in Users

TypeInv == RowsInv /\ DevicesInv /\ TasksInv

\* What is sealed for u, or about to be, and why it may be lost.
Spared(u, pub, ps, rp) ==
    pub # 0 /\ pub # ps[u].pub => \E why \in {"read failed", "crossed"} : <<u, pub, why>> \in rp
Kept(u, pub) == Spared(u, pub, pairs, replaced)

RowsKept ==
    /\ \A e \in Entries, u \in Users : Kept(u, shares[e][u].pub)
    /\ \A b \in Blinds : blinds[b].st = "live" => Kept(blinds[b].to, blinds[b].pub)
    /\ \A p \in Trusted : Kept(p[2], seeds[p].pub)

OpKept(o) ==
    o # Idle /\ o.do \in {"share", "sendBlind", "seed"} /\ o.at = "send" => Kept(o.to, o.pub)

TaskKept(t) == t.at = "send" => Kept(t.to, t.pub)

SealsInv ==
    /\ RowsKept
    /\ \A c \in Lanes : OpKept(op[c])
    /\ \A t \in tasks : TaskKept(t)

\* A handler about to generate a pair, its reading answered, finds none or one
\* stored since it looked.
Looked(o, pub) ==
    o # Idle /\ o.at = "generate" /\ ~ o.failed => o.seen <= made /\ (pub = 0 \/ pub > o.seen)

MakersInv ==
    /\ \A u \in Users : pairs[u].pub <= made
    /\ \A c \in Lanes : Looked(op[c], pairs[User(c)].pub)

UsesInv ==
    /\ given \in [Blinds -> Nat]
    /\ \A b \in Blinds : given[b] + blinds[b].left = blinds[b].max
    /\ \A b \in Blinds : blinds[b].st = "unused" => blinds[b].max = 0

USE KeyringAssumption

-----------------------------------------------------------------------------
LEMMA DeviceUsers == \A d \in Devices : UserOf[d] \in Users
  OBVIOUS

LEMMA LaneUsers ==
    \A c \in Lanes : /\ User(c) \in Users /\ DeviceOf[c] \in Devices /\ c \in LanesOf(DeviceOf[c])
                     /\ User(c) = UserOf[DeviceOf[c]]
  BY DEF User, LanesOf

LEMMA LaneDevice ==
    ASSUME NEW d \in Devices, NEW c \in LanesOf(d) PROVE c \in Lanes /\ DeviceOf[c] = d /\ User(c) = UserOf[d]
  BY DEF User, LanesOf

LEMMA TrustedUsers == \A p \in Trusted : p \in Users \X Users /\ p[1] \in Users /\ p[2] \in Users
  OBVIOUS

LEMMA CallType ==
    ASSUME NEW do \in Handlers, NEW at, NEW on \in Ons, NEW to \in Users \cup {None},
           <<do, at>> \in Moves
    PROVE  /\ Call(do, at, on, to) \in Op
           /\ Call(do, at, on, to) # Idle
  BY DEF Call, Op, Moves, Idle

LEMMA OpIsBusy == \A o \in Op : o # Idle
  BY DEF Op, Idle, Handlers

LEMMA BlankType == Blank \in Screen /\ Blank.page = "none"
  BY DEF Blank, Screen, Ons

LEMMA InitTypes == Init => TypeInv
<1> SUFFICES ASSUME Init PROVE TypeInv
    OBVIOUS
<1> USE DEF Init
<1>1. RowsInv
    BY TrustedUsers DEF RowsInv, NoPair, PairRow, NoShare, ShareView, NoBlind, BlindRow
<1>2. Blank \in Screen /\ ScreenShape(Blank)
    BY BlankType DEF ScreenShape
<1>3. DevicesInv
    BY <1>2, LaneUsers DEF DevicesInv, ScreensInv, OpShape, PageShape, HeldShape, Holds
<1>4. TasksInv
    BY DEF TasksInv
<1> QED
    BY <1>1, <1>3, <1>4 DEF TypeInv

-----------------------------------------------------------------------------
(* Frames: what a step of a handler, and what a step of a page, disturbs.  *)

LEMMA StillPage == ASSUME DevicesInv, screen' = screen
                   PROVE  ScreensInv' /\ \A d \in Devices : screen'[d].page = screen[d].page
  BY DEF DevicesInv, ScreensInv

LEMMA ShowsPage ==
    ASSUME DevicesInv, NEW c \in Lanes, NEW s \in Screen, Shows(c, s), ScreenShape(s),
           s.page = screen[DeviceOf[c]].page
    PROVE  ScreensInv' /\ \A d \in Devices : screen'[d].page = screen[d].page
<1>1. CASE op[c].left
    BY <1>1, StillPage DEF Shows
<1>2. CASE ~ op[c].left
  <2>1. screen \in [Devices -> Screen] /\ \A d \in Devices : ScreenShape(screen[d])
    BY DEF DevicesInv, ScreensInv
  <2>2. screen' = [screen EXCEPT ![DeviceOf[c]] = s]
    BY <1>2 DEF Shows
  <2>3. \A d \in Devices : screen'[d] = IF d = DeviceOf[c] THEN s ELSE screen[d]
    BY <2>1, <2>2
  <2>4. screen' \in [Devices -> Screen]
    BY <2>1, <2>2
  <2> QED
    BY <2>1, <2>3, <2>4 DEF ScreensInv
<1> QED
    BY <1>1, <1>2

\* The answer to a handler that does not touch the key held.
LEMMA AnswerFrame ==
    ASSUME DevicesInv, NEW c \in Lanes, NEW o \in Op \cup {Idle}, op' = [op EXCEPT ![c] = o],
           UNCHANGED <<held, key>>, OpShape(c, o, key),
           ScreensInv', \A d \in Devices : screen'[d].page = screen[d].page,
           op[c] # Idle, op[c].at # "decrypt",
           o # Idle /\ o.do = "emergency" => op[c].do = "emergency" /\ o.left = op[c].left
    PROVE  DevicesInv'
<1>1. op' \in [Lanes -> Op \cup {Idle}] /\ \A x \in Lanes : op'[x] = IF x = c THEN o ELSE op[x]
    BY DEF DevicesInv
<1>2. ASSUME NEW x \in Lanes PROVE OpShape(x, op'[x], key') /\ PageShape(op'[x], screen'[DeviceOf[x]].page)
  <2>1. OpShape(x, op[x], key) /\ PageShape(op[x], screen[DeviceOf[x]].page)
    BY DEF DevicesInv
  <2>2. screen'[DeviceOf[x]].page = screen[DeviceOf[x]].page
    BY LaneUsers
  <2>3. CASE x # c
    BY <1>1, <2>1, <2>2, <2>3
  <2>4. CASE x = c
    <3>1. op'[x] = o
      BY <1>1, <2>4
    <3>2. PageShape(o, screen'[DeviceOf[x]].page)
      BY <2>1, <2>2, <2>4 DEF PageShape
    <3> QED
      BY <2>4, <3>1, <3>2
  <2> QED
    BY <2>3, <2>4
<1>3. ASSUME NEW d \in Desktops PROVE HeldShape(d, held'[d], screen'[d].page, op', key')
  <2>1. HeldShape(d, held[d], screen[d].page, op, key) /\ screen'[d].page = screen[d].page
    BY DEF DevicesInv, Devices
  <2>2. ASSUME NEW x \in LanesOf(d), Reads(op[x], held[d]) PROVE Reads(op'[x], held[d])
    <3>1. x # c /\ x \in Lanes
      BY <2>2 DEF Reads, LanesOf
    <3> QED
      BY <1>1, <2>2, <3>1
  <2> QED
    BY <2>1, <2>2 DEF HeldShape
<1> QED
    BY <1>1, <1>2, <1>3 DEF DevicesInv

LEMMA OpFrame ==
    ASSUME DevicesInv, NEW c \in Lanes, NEW o \in Op \cup {Idle}, op' = [op EXCEPT ![c] = o],
           UNCHANGED <<screen, held, key>>, OpShape(c, o, key),
           op[c] # Idle, op[c].at # "decrypt",
           o # Idle /\ o.do = "emergency" => op[c].do = "emergency" /\ o.left = op[c].left
    PROVE  DevicesInv'
  BY AnswerFrame, StillPage

\* A handler that ends, with what it leaves on the page.
LEMMA DoneFrame ==
    ASSUME DevicesInv, NEW c \in Lanes, NEW s \in Screen, Done(c), Shows(c, s),
           UNCHANGED <<held, key>>, op[c] # Idle, op[c].at # "decrypt",
           ScreenShape(s), s.page = screen[DeviceOf[c]].page
    PROVE  DevicesInv'
<1>1. OpShape(c, Idle, key)
    BY DEF OpShape
<1> QED
    BY <1>1, AnswerFrame, ShowsPage DEF Done

LEMMA EndFrame ==
    ASSUME DevicesInv, NEW c \in Lanes, Done(c), UNCHANGED <<screen, held, key>>, op[c] # Idle, op[c].at # "decrypt"
    PROVE  DevicesInv'
<1>1. OpShape(c, Idle, key)
    BY DEF OpShape
<1> QED
    BY <1>1, OpFrame DEF Done

\* A page left takes its handlers with it, all they do else as before.
LEMMA LeftIs ==
    ASSUME DevicesInv, NEW d \in Devices
    PROVE  /\ Left(d) \in [Lanes -> Op \cup {Idle}]
           /\ \A c \in Lanes : DeviceOf[c] # d => Left(d)[c] = op[c]
           /\ \A c \in Lanes : OpShape(c, Left(d)[c], key)
           /\ \A c \in Lanes : op[c] = Idle => Left(d)[c] = Idle
           /\ \A c \in Lanes : op[c] # Idle =>
                /\ Left(d)[c] # Idle /\ Left(d)[c].do = op[c].do /\ Left(d)[c].at = op[c].at
                /\ Left(d)[c].on = op[c].on /\ Left(d)[c].to = op[c].to /\ Left(d)[c].pub = op[c].pub
                /\ Left(d)[c].view = op[c].view /\ Left(d)[c].failed = op[c].failed
                /\ Left(d)[c].seen = op[c].seen /\ (DeviceOf[c] = d => Left(d)[c].left)
<1>1. ASSUME NEW o \in Op
      PROVE  LET q == [o EXCEPT !.left = TRUE] IN
             /\ q \in Op /\ q.do = o.do /\ q.at = o.at /\ q.on = o.on /\ q.to = o.to /\ q.pub = o.pub
             /\ q.says = o.says /\ q.view = o.view /\ q.failed = o.failed /\ q.seen = o.seen /\ q.left
    BY DEF Op
<1>2. ASSUME NEW c \in Lanes
      PROVE  Left(d)[c] = IF DeviceOf[c] = d /\ op[c] # Idle THEN [op[c] EXCEPT !.left = TRUE] ELSE op[c]
    BY DEF Left
<1>3. \A c \in Lanes : op[c] \in Op \cup {Idle} /\ OpShape(c, op[c], key)
    BY DEF DevicesInv
<1>4. Left(d) \in [Lanes -> Op \cup {Idle}]
  <2>1. ASSUME NEW c \in Lanes PROVE Left(d)[c] \in Op \cup {Idle}
    <3>1. op[c] # Idle => [op[c] EXCEPT !.left = TRUE] \in Op
      BY <1>1, <1>3
    <3> QED
      BY <1>2, <1>3, <3>1
  <2> QED
    BY <2>1 DEF Left
<1>5. ASSUME NEW c \in Lanes, DeviceOf[c] = d, op[c] # Idle
      PROVE  /\ OpShape(c, Left(d)[c], key) /\ Left(d)[c] # Idle
             /\ Left(d)[c].do = op[c].do /\ Left(d)[c].at = op[c].at
             /\ Left(d)[c].on = op[c].on /\ Left(d)[c].to = op[c].to /\ Left(d)[c].pub = op[c].pub
             /\ Left(d)[c].view = op[c].view /\ Left(d)[c].failed = op[c].failed
             /\ Left(d)[c].seen = op[c].seen /\ Left(d)[c].left
  <2> DEFINE q == [op[c] EXCEPT !.left = TRUE]
  <2>1. Left(d)[c] = q
    BY <1>2, <1>5
  <2>2. op[c] \in Op
    BY <1>3, <1>5
  <2>3. /\ q \in Op /\ q.do = op[c].do /\ q.at = op[c].at /\ q.on = op[c].on /\ q.to = op[c].to /\ q.pub = op[c].pub
        /\ q.says = op[c].says /\ q.view = op[c].view /\ q.failed = op[c].failed /\ q.seen = op[c].seen /\ q.left
    BY <1>1, <2>2
  <2> HIDE DEF q
  <2>4. q # Idle
    BY <2>3, OpIsBusy
  <2>5. OpShape(c, q, key)
    BY <1>3, <1>5, <2>3 DEF OpShape
  <2> QED
    BY <2>1, <2>3, <2>4, <2>5
<1> QED
    BY <1>2, <1>3, <1>4, <1>5

\* A handler a page starts: in a lane that was idle.
Starts(c, page) ==
    /\ op[c] = Idle /\ op'[c] \in Op /\ OpShape(c, op'[c], key)
    /\ op'[c].at # "decrypt" /\ (op'[c].do = "emergency" => page = "emergency")

\* A step of a page that is not that of an emergency vault.
LEMMA PageFrame ==
    ASSUME DevicesInv, NEW d \in Devices, NEW s \in Screen, screen' = [screen EXCEPT ![d] = s],
           ScreenShape(s), screen[d].page # "emergency", UNCHANGED <<held, key>>,
           op' \in [Lanes -> Op \cup {Idle}],
           \A c \in Lanes : \/ op'[c] = op[c] \/ op'[c] = Left(d)[c]
                            \/ DeviceOf[c] = d /\ Starts(c, s.page)
    PROVE  DevicesInv'
<1>1. screen \in [Devices -> Screen] /\ \A x \in Devices : ScreenShape(screen[x])
    BY DEF DevicesInv, ScreensInv
<1>2. \A x \in Devices : screen'[x] = IF x = d THEN s ELSE screen[x]
    BY <1>1
<1>3. ScreensInv'
    BY <1>1, <1>2 DEF ScreensInv
<1>4. ASSUME NEW c \in Lanes PROVE OpShape(c, op'[c], key') /\ PageShape(op'[c], screen'[DeviceOf[c]].page)
  <2>1. OpShape(c, op[c], key) /\ PageShape(op[c], screen[DeviceOf[c]].page) /\ DeviceOf[c] \in Devices
    BY LaneUsers DEF DevicesInv
  <2>2. CASE op'[c] = op[c]
    BY <1>2, <2>1, <2>2 DEF PageShape
  <2>3. CASE op'[c] = Left(d)[c]
    <3>1. OpShape(c, op'[c], key)
      BY <2>3, LeftIs
    <3>2. CASE DeviceOf[c] # d
      <4>1. op'[c] = op[c]
        BY <2>3, <3>2, LeftIs
      <4> QED
        BY <2>2, <4>1
    <3>3. CASE DeviceOf[c] = d
      <4>1. op'[c] = Idle \/ op'[c].left
        BY <2>3, <3>3, LeftIs
      <4> QED
        BY <3>1, <4>1 DEF PageShape
    <3> QED
      BY <3>2, <3>3
  <2>4. CASE DeviceOf[c] = d /\ Starts(c, s.page)
    BY <1>2, <2>1, <2>4 DEF Starts, PageShape
  <2> QED
    BY <2>2, <2>3, <2>4
<1>5. ASSUME NEW x \in Desktops PROVE HeldShape(x, held'[x], screen'[x].page, op', key')
  <2>1. HeldShape(x, held[x], screen[x].page, op, key) /\ x \in Devices
    BY DEF DevicesInv, Devices
  <2>2. screen[x].page = "emergency" => screen'[x].page = "emergency"
    BY <1>2, <2>1
  <2>3. ASSUME NEW c \in LanesOf(x), Reads(op[c], held[x]) PROVE Reads(op'[c], held[x])
    <3>1. c \in Lanes /\ op[c] # Idle
      BY <2>3 DEF LanesOf, Reads
    <3>2. op'[c] = op[c] \/ op'[c] = Left(d)[c]
      BY <3>1 DEF Starts
    <3> QED
      BY <2>3, <3>1, <3>2, LeftIs DEF Reads
  <2> QED
    BY <2>1, <2>2, <2>3 DEF HeldShape
<1> QED
    BY <1>3, <1>4, <1>5 DEF DevicesInv

LEMMA FreeLaneIs ==
    ASSUME NEW d, NEW taken, HasLane(d, taken)
    PROVE  /\ FreeLane(d, taken) \in LanesOf(d) /\ FreeLane(d, taken) \notin taken /\ op[FreeLane(d, taken)] = Idle
           /\ FreeLane(d, taken) \in Lanes /\ DeviceOf[FreeLane(d, taken)] = d
<1>1. FreeLane(d, taken) \in LanesOf(d) \ taken /\ op[FreeLane(d, taken)] = Idle
    BY DEF FreeLane, HasLane
<1> QED
    BY <1>1 DEF LanesOf

\* Steps that leave the tables, and the requests in the background, alone.
LEMMA StillTypes ==
    ASSUME TypeInv, UNCHANGED <<rows, tasks>>, spent' \in 0..MaxOps, DevicesInv'
    PROVE  TypeInv'
<1>1. RowsInv'
    BY DEF TypeInv, RowsInv, rows
<1>2. TasksInv'
    BY DEF TypeInv, TasksInv, rows
<1> QED
    BY <1>1, <1>2 DEF TypeInv

LEMMA BusyShape ==
    ASSUME TypeInv, NEW c \in Lanes, op[c] # Idle
    PROVE  /\ op[c] \in Op /\ <<op[c].do, op[c].at>> \in Moves /\ op[c].do \in Handlers
           /\ OpShape(c, op[c], key)
           /\ screen[DeviceOf[c]] \in Screen /\ ScreenShape(screen[DeviceOf[c]])
           /\ User(c) \in Users /\ DeviceOf[c] \in Devices /\ spent \in 0..MaxOps
<1>1. op[c] \in Op
    BY DEF TypeInv, DevicesInv
<1> QED
    BY <1>1, LaneUsers DEF TypeInv, DevicesInv, ScreensInv, OpShape, RowsInv, Op

LEMMA AtIsBusy ==
    ASSUME NEW c \in Lanes, NEW do, NEW at, At(c, do, at), "idle" \notin do
    PROVE  op[c] # Idle /\ op[c].do \in do /\ op[c].at = at
  BY DEF At, Idle

-----------------------------------------------------------------------------
(* The answers to the handlers.                                            *)

LEMMA RequestFailsTypes ==
    ASSUME TypeInv, NEW c \in Lanes, RequestFails(c) PROVE TypeInv'
<1>1. op[c] # Idle /\ op[c].at # "decrypt" /\ Done(c) /\ UNCHANGED <<screen, held, key>>
    BY DEF RequestFails, rows
<1>2. DevicesInv'
    BY <1>1, EndFrame DEF TypeInv
<1> QED
    BY <1>2, StillTypes DEF RequestFails, TypeInv, RowsInv

\* What a handler asks next, its record otherwise as it was.
LEMMA NextShape ==
    ASSUME TypeInv, NEW c \in Lanes, op[c] # Idle, NEW at, <<op[c].do, at>> \in Moves,
           op[c].do # "emergency" /\ op[c].do # "seed" /\ at # "generate"
    PROVE  /\ [op[c] EXCEPT !.at = at] \in Op /\ OpShape(c, [op[c] EXCEPT !.at = at], key)
           /\ [op[c] EXCEPT !.at = at].at = at /\ [op[c] EXCEPT !.at = at].do = op[c].do
<1> DEFINE o == [op[c] EXCEPT !.at = at]
<1>1. op[c] \in Op /\ OpShape(c, op[c], key)
    BY BusyShape
<1>2. at \in {"hasKeys", "generate", "publicKey", "send", "list", "own", "use", "fetch", "decrypt", "update", "login"}
    BY DEF Moves
<1>3. /\ o \in Op /\ o.do = op[c].do /\ o.at = at /\ o.on = op[c].on /\ o.to = op[c].to
      /\ o.says = op[c].says /\ o.view = op[c].view
    BY <1>1, <1>2 DEF Op
<1> HIDE DEF o
<1>4. OpShape(c, o, key)
    BY <1>1, <1>3 DEF OpShape
<1> QED
    BY <1>3, <1>4 DEF o

LEMMA ThenMoves ==
    ASSUME NEW do \in {"received", "receivedBlinds", "open"}
    PROVE  Then(do) \in {"list", "own", "fetch"} /\ <<do, Then(do)>> \in Moves
  BY DEF Then, Moves

\* The handlers that look for a pair of keys, and what they know once they
\* are to generate one.
LEMMA Generates ==
    ASSUME TypeInv, NEW c \in Lanes, op[c] # Idle, op[c].at = "hasKeys", NEW failed \in BOOLEAN
    PROVE  LET to == [op[c] EXCEPT !.at = "generate", !.says = key[User(c)], !.seen = made, !.failed = failed] IN
           /\ to \in Op /\ OpShape(c, to, key)
           /\ to.at = "generate" /\ to.do = op[c].do /\ to.seen = made /\ to.failed = failed
           /\ op[c].do \in {"received", "receivedBlinds", "open"}
<1> DEFINE to == [op[c] EXCEPT !.at = "generate", !.says = key[User(c)], !.seen = made, !.failed = failed]
<1>1. op[c] \in Op /\ OpShape(c, op[c], key) /\ op[c].do \in {"received", "receivedBlinds", "open"}
    BY BusyShape DEF Moves
<1>2. key[User(c)] \in 1..MaxKeys /\ made \in Nat
    BY LaneUsers DEF TypeInv, RowsInv
<1>3. key[User(c)] \in Nat /\ key[User(c)] \in 0..MaxKeys
    BY <1>2
<1>4. /\ to \in Op /\ to.do = op[c].do /\ to.at = "generate" /\ to.view = op[c].view /\ to.on = op[c].on
      /\ to.says = key[User(c)] /\ to.seen = made /\ to.failed = failed
    BY <1>1, <1>2, <1>3 DEF Op
<1> HIDE DEF to
<1>5. <<to.do, to.at>> \in Moves
    BY <1>1, <1>4 DEF Moves
<1>6. OpShape(c, to, key)
    BY <1>1, <1>3, <1>4, <1>5 DEF OpShape
<1> QED
    BY <1>1, <1>4, <1>6 DEF to

LEMMA HasEmergencyKeysIs ==
    ASSUME TypeInv, NEW c \in Lanes, HasEmergencyKeys(c)
    PROVE  /\ op[c] # Idle /\ op[c].at = "hasKeys" /\ op[c].do \in {"received", "receivedBlinds", "open"}
           /\ \/ op' = [op EXCEPT ![c] = [op[c] EXCEPT !.at = Then(op[c].do)]]
              \/ \E failed \in BOOLEAN :
                   /\ failed \/ pairs[User(c)].pub = 0
                   /\ op' = [op EXCEPT ![c] = [op[c] EXCEPT !.at = "generate", !.says = key[User(c)], !.seen = made,
                                                            !.failed = failed]]
           /\ UNCHANGED <<rows, screen, tasks, held, spent>>
<1>1. /\ op[c] # Idle /\ op[c].at = "hasKeys" /\ op[c] \in Op
      /\ op[c].do \in {"received", "receivedBlinds", "open"} /\ op \in [Lanes -> Op \cup {Idle}]
    BY BusyShape DEF HasEmergencyKeys, Moves, TypeInv, DevicesInv
<1> DEFINE to == [op EXCEPT ![c].at = "generate", ![c].says = key[User(c)], ![c].seen = made]
           one == [op[c] EXCEPT !.at = "generate", !.says = key[User(c)], !.seen = made]
<1>2. to = [op EXCEPT ![c] = one]
    BY <1>1
<1>3. op[c].failed \in BOOLEAN
    BY <1>1 DEF Op
<1>4. one = [op[c] EXCEPT !.at = "generate", !.says = key[User(c)], !.seen = made, !.failed = op[c].failed]
    BY <1>1 DEF Op
<1>5. [to EXCEPT ![c].failed = TRUE]
        = [op EXCEPT ![c] = [op[c] EXCEPT !.at = "generate", !.says = key[User(c)], !.seen = made, !.failed = TRUE]]
  <2>1. to[c] = one /\ to \in [Lanes -> (Op \cup {Idle}) \cup {one}]
    BY <1>1, <1>2
  <2>2. [to EXCEPT ![c].failed = TRUE] = [to EXCEPT ![c] = [one EXCEPT !.failed = TRUE]]
    BY <2>1
  <2>3. [to EXCEPT ![c] = [one EXCEPT !.failed = TRUE]] = [op EXCEPT ![c] = [one EXCEPT !.failed = TRUE]]
    BY <1>1, <1>2
  <2> QED
    BY <2>2, <2>3
<1>6. \/ op' = [op EXCEPT ![c] = [op[c] EXCEPT !.at = Then(op[c].do)]]
      \/ op' = to /\ pairs[User(c)].pub = 0
      \/ op' = [to EXCEPT ![c].failed = TRUE]
    BY DEF HasEmergencyKeys, GoTo
<1> HIDE DEF to
<1>7. CASE op' = to /\ pairs[User(c)].pub = 0
    BY <1>1, <1>2, <1>3, <1>4, <1>7 DEF HasEmergencyKeys
<1>8. CASE op' = [to EXCEPT ![c].failed = TRUE]
    BY <1>1, <1>5, <1>8 DEF HasEmergencyKeys
<1> QED
    BY <1>1, <1>6, <1>7, <1>8 DEF HasEmergencyKeys

LEMMA HasEmergencyKeysTypes ==
    ASSUME TypeInv, NEW c \in Lanes, HasEmergencyKeys(c) PROVE TypeInv'
<1>1. /\ op[c] # Idle /\ op[c].at = "hasKeys" /\ op[c].do \in {"received", "receivedBlinds", "open"}
      /\ UNCHANGED <<rows, screen, tasks, held, spent>>
    BY HasEmergencyKeysIs
<1>2. PICK o \in Op : op' = [op EXCEPT ![c] = o] /\ OpShape(c, o, key) /\ o.do = op[c].do
  <2>1. CASE op' = [op EXCEPT ![c] = [op[c] EXCEPT !.at = Then(op[c].do)]]
    <3> DEFINE o == [op[c] EXCEPT !.at = Then(op[c].do)]
    <3>1. o \in Op /\ OpShape(c, o, key) /\ o.do = op[c].do
      BY <1>1, ThenMoves, NextShape
    <3> HIDE DEF o
    <3> QED
      BY <2>1, <3>1 DEF o
  <2>2. ASSUME NEW failed \in BOOLEAN,
               op' = [op EXCEPT ![c] = [op[c] EXCEPT !.at = "generate", !.says = key[User(c)], !.seen = made,
                                                     !.failed = failed]]
        PROVE  \E o \in Op : op' = [op EXCEPT ![c] = o] /\ OpShape(c, o, key) /\ o.do = op[c].do
    <3> DEFINE o == [op[c] EXCEPT !.at = "generate", !.says = key[User(c)], !.seen = made, !.failed = failed]
    <3>1. o \in Op /\ OpShape(c, o, key) /\ o.do = op[c].do
      BY <1>1, Generates
    <3> HIDE DEF o
    <3> QED
      BY <2>2, <3>1 DEF o
  <2> QED
    BY <2>1, <2>2, HasEmergencyKeysIs
<1>3. DevicesInv'
    BY <1>1, <1>2, OpFrame DEF TypeInv, rows
<1> QED
    BY <1>1, <1>3, StillTypes, BusyShape

LEMMA EnsureEmergencyKeysTypes ==
    ASSUME TypeInv, NEW c \in Lanes, EnsureEmergencyKeys(c) PROVE TypeInv'
<1> DEFINE o == [op[c] EXCEPT !.at = Then(op[c].do)]
<1>1. /\ op[c] # Idle /\ op[c].at = "generate" /\ op[c].do \in {"received", "receivedBlinds", "open"}
      /\ OpShape(c, op[c], key)
    BY BusyShape DEF EnsureEmergencyKeys, Moves
<1>2. o \in Op /\ OpShape(c, o, key) /\ o.do = op[c].do
    BY <1>1, ThenMoves, NextShape
<1>3. op' = [op EXCEPT ![c] = o] /\ UNCHANGED <<screen, held, key>>
    BY DEF EnsureEmergencyKeys, GoTo
<1> HIDE DEF o
<1>4. DevicesInv'
    BY <1>1, <1>2, <1>3, OpFrame DEF TypeInv
<1>5. RowsInv'
  <2>1. made' \in 0..MaxPairs /\ pairs' \in [Users -> PairRow]
    <3>1. made + 1 \in 0..MaxPairs /\ op[c].says \in 0..MaxKeys
      <4>1. made < MaxPairs
        BY DEF EnsureEmergencyKeys
      <4>2. made \in 0..MaxPairs
        BY DEF TypeInv, RowsInv
      <4> QED
        BY <1>1, <4>1, <4>2 DEF OpShape
    <3>2. [pub |-> made + 1, under |-> op[c].says] \in PairRow
      BY <3>1 DEF PairRow
    <3> QED
      BY <3>1, <3>2 DEF EnsureEmergencyKeys, TypeInv, RowsInv
  <2> QED
    BY <2>1 DEF EnsureEmergencyKeys, TypeInv, RowsInv
<1>6. TasksInv'
    BY DEF EnsureEmergencyKeys, TypeInv, TasksInv
<1> QED
    BY <1>4, <1>5, <1>6 DEF TypeInv

LEMMA GetPublicKeyTypes ==
    ASSUME TypeInv, NEW c \in Lanes, GetPublicKey(c) PROVE TypeInv'
<1> DEFINE says == IF op[c].do = "seed" THEN key[User(c)] ELSE op[c].says
           o == [op[c] EXCEPT !.at = "send", !.pub = pairs[op[c].to].pub, !.says = says]
<1>1. /\ op[c] # Idle /\ op[c].at = "publicKey" /\ op[c].do \in {"share", "sendBlind", "seed"}
      /\ op[c] \in Op /\ OpShape(c, op[c], key)
    BY BusyShape DEF GetPublicKey, Moves
<1>2. op[c].to \in Users /\ pairs[op[c].to].pub \in 0..MaxPairs
  <2>1. op[c].to \in Users
    BY <1>1, TrustedUsers DEF OpShape
  <2> QED
    BY <2>1 DEF TypeInv, RowsInv, PairRow
<1>3. says \in Nat /\ (op[c].do # "seed" => says \in 0..MaxVersion)
  <2>1. key[User(c)] \in Nat
    BY LaneUsers DEF TypeInv, RowsInv
  <2>2. op[c].says \in Nat /\ (op[c].do # "seed" => op[c].says \in 0..MaxVersion)
    BY <1>1 DEF OpShape, Op
  <2> QED
    BY <2>1, <2>2
<1>4. /\ o \in Op /\ o.do = op[c].do /\ o.at = "send" /\ o.on = op[c].on /\ o.to = op[c].to /\ o.says = says
    BY <1>1, <1>2, <1>3 DEF Op
<1> HIDE DEF o
<1>5. OpShape(c, o, key)
  <2>1. <<o.do, o.at>> \in Moves
    BY <1>1, <1>4 DEF Moves
  <2>2. o.do \in {"share", "sendBlind"} => o.on \in Entries /\ o.to \in Users /\ o.says \in 0..MaxVersion
    BY <1>1, <1>2, <1>3, <1>4 DEF OpShape
  <2>3. o.do = "seed" => o.on \in Trusted /\ o.to = o.on[2] /\ User(c) = o.on[1] /\ o.says <= key[o.on[1]]
    <3>1. ASSUME o.do = "seed" PROVE o.says = key[User(c)] /\ key[User(c)] \in Nat
      BY <3>1, <1>4, LaneUsers DEF TypeInv, RowsInv
    <3> QED
      BY <1>1, <1>4, <3>1 DEF OpShape
  <2> QED
    BY <1>1, <1>4, <2>1, <2>2, <2>3 DEF OpShape
<1>6. op' = [op EXCEPT ![c] = o] /\ UNCHANGED <<screen, held, key>>
  <2>1. op' = [op EXCEPT ![c] = [op[c] EXCEPT !.at = "send", !.pub = pairs[op[c].to].pub,
                                  !.says = IF op[c].do = "seed" THEN key[User(c)] ELSE op[c].says]]
    BY DEF GetPublicKey
  <2> QED
    BY <2>1 DEF GetPublicKey, rows, o
<1> HIDE DEF says
<1>7. DevicesInv'
    BY <1>1, <1>4, <1>5, <1>6, OpFrame DEF TypeInv
<1> QED
    BY <1>1, <1>7, StillTypes, BusyShape DEF GetPublicKey

LEMMA GetOwnKeysIs ==
    ASSUME TypeInv, NEW c \in Lanes, GetOwnKeys(c)
    PROVE  /\ op[c] # Idle /\ op[c].at \in {"own", "fetch"}
           /\ \E at \in {"use", "list", "fetch"} :
                /\ <<op[c].do, at>> \in Moves
                /\ op' = [op EXCEPT ![c] = [op[c] EXCEPT !.at = at, !.own = pairs[User(c)]]]
<1>1. /\ op[c] # Idle /\ op[c].at \in {"own", "fetch"} /\ op[c] \in Op /\ <<op[c].do, op[c].at>> \in Moves
    BY BusyShape DEF GetOwnKeys
<1>2. CASE op[c].at = "own"
  <2>1. op' = [op EXCEPT ![c] = [op[c] EXCEPT !.at = IF op[c].do = "useBlind" THEN "use" ELSE "list",
                                              !.own = pairs[User(c)]]]
    BY <1>2 DEF GetOwnKeys
  <2>2. <<op[c].do, IF op[c].do = "useBlind" THEN "use" ELSE "list">> \in Moves
    BY <1>1, <1>2 DEF Moves
  <2> QED
    BY <1>1, <2>1, <2>2
<1>3. CASE op[c].at = "fetch"
  <2>1. op' = [op EXCEPT ![c] = [op[c] EXCEPT !.own = pairs[User(c)]]]
    BY <1>3 DEF GetOwnKeys
  <2>2. [op[c] EXCEPT !.own = pairs[User(c)]] = [op[c] EXCEPT !.at = "fetch", !.own = pairs[User(c)]]
    BY <1>1, <1>3 DEF Op
  <2> QED
    BY <1>1, <1>3, <2>1, <2>2
<1> QED
    BY <1>1, <1>2, <1>3

LEMMA GetOwnKeysTypes ==
    ASSUME TypeInv, NEW c \in Lanes, GetOwnKeys(c) PROVE TypeInv'
<1>1. op[c] # Idle /\ op[c].at \in {"own", "fetch"} /\ op[c] \in Op /\ OpShape(c, op[c], key)
    BY GetOwnKeysIs, BusyShape
<1>2. PICK at \in {"use", "list", "fetch"} :
        /\ <<op[c].do, at>> \in Moves /\ op' = [op EXCEPT ![c] = [op[c] EXCEPT !.at = at, !.own = pairs[User(c)]]]
    BY GetOwnKeysIs
<1> DEFINE o == [op[c] EXCEPT !.at = at, !.own = pairs[User(c)]]
<1>3. pairs[User(c)] \in PairRow
    BY LaneUsers DEF TypeInv, RowsInv
<1>4. /\ o \in Op /\ o.do = op[c].do /\ o.at = at /\ o.on = op[c].on /\ o.to = op[c].to
      /\ o.says = op[c].says /\ o.view = op[c].view /\ o.left = op[c].left
    BY <1>1, <1>3 DEF Op
<1>5. op' = [op EXCEPT ![c] = o] /\ UNCHANGED <<screen, held, key>>
    BY <1>2 DEF GetOwnKeys, rows
<1> HIDE DEF o
<1>6. OpShape(c, o, key)
    BY <1>1, <1>2, <1>4 DEF OpShape, Moves
<1>7. DevicesInv'
    BY <1>1, <1>4, <1>5, <1>6, OpFrame DEF TypeInv
<1> QED
    BY <1>1, <1>7, StillTypes, BusyShape DEF GetOwnKeys

LEMMA GetSharedEntryTypes ==
    ASSUME TypeInv, NEW c \in Lanes, GetSharedEntry(c) PROVE TypeInv'
<1>1. op[c] # Idle /\ op[c].do = "open" /\ op[c].at = "fetch" /\ op[c] \in Op /\ OpShape(c, op[c], key)
  <2>1. op[c] # Idle /\ op[c].do = "open" /\ op[c].at = "fetch"
    BY AtIsBusy DEF GetSharedEntry
  <2> QED
    BY <2>1, BusyShape
<1>2. PICK e \in Entries : op' = [op EXCEPT ![c] = [op[c] EXCEPT !.view = shares[e][User(c)]]]
    BY DEF GetSharedEntry
<1> DEFINE o == [op[c] EXCEPT !.view = shares[e][User(c)]]
<1>3. shares[e][User(c)] \in ShareView
    BY LaneUsers DEF TypeInv, RowsInv
<1>4. o \in Op /\ o.do = "open" /\ o.at = "fetch" /\ o.view \in ShareView
    BY <1>1, <1>3 DEF Op
<1>5. op' = [op EXCEPT ![c] = o] /\ UNCHANGED <<screen, held, key>>
    BY <1>2 DEF GetSharedEntry, rows
<1> HIDE DEF o
<1>6. OpShape(c, o, key)
    BY <1>1, <1>4 DEF OpShape
<1>7. DevicesInv'
    BY <1>1, <1>4, <1>5, <1>6, OpFrame DEF TypeInv
<1> QED
    BY <1>1, <1>7, StillTypes, BusyShape DEF GetSharedEntry

LEMMA GetEmergencyVaultTypes ==
    ASSUME TypeInv, NEW c \in Lanes, GetEmergencyVault(c) PROVE TypeInv'
<1> DEFINE p == op[c].on
           view == [pub |-> seeds[p].pub, of |-> seeds[p].of, under |-> key[p[1]]]
           o == [op[c] EXCEPT !.view = view]
<1>1. op[c] # Idle /\ op[c].do = "emergency" /\ op[c].at = "fetch" /\ op[c] \in Op /\ OpShape(c, op[c], key)
  <2>1. op[c] # Idle /\ op[c].do = "emergency" /\ op[c].at = "fetch"
    BY AtIsBusy DEF GetEmergencyVault
  <2> QED
    BY <2>1, BusyShape
<1>2. p \in Trusted
    BY <1>1 DEF OpShape
<1>3. view \in VaultView /\ view.of <= view.under /\ view.under <= key[p[1]]
  <2>1. key[p[1]] \in 1..MaxKeys /\ seeds[p] \in [pub : 0..MaxPairs, of : 0..MaxKeys] /\ seeds[p].of <= key[p[1]]
    BY <1>2, TrustedUsers DEF TypeInv, RowsInv
  <2> QED
    BY <2>1 DEF VaultView
<1>4. op' = [op EXCEPT ![c] = o] /\ UNCHANGED <<screen, held, key>>
    BY DEF GetEmergencyVault, rows
<1> HIDE DEF view
<1>5. o \in Op /\ o.do = "emergency" /\ o.at = "fetch" /\ o.view = view /\ o.left = op[c].left /\ o.on = p
    BY <1>1, <1>3 DEF Op
<1> HIDE DEF o, p
<1>6. OpShape(c, o, key)
    BY <1>1, <1>2, <1>3, <1>5 DEF OpShape, Moves
<1>7. DevicesInv'
    BY <1>1, <1>4, <1>5, <1>6, OpFrame DEF TypeInv
<1> QED
    BY <1>1, <1>7, StillTypes, BusyShape DEF GetEmergencyVault

LEMMA ShareRowTypes ==
    ASSUME RowsInv, NEW e \in Entries, NEW u \in Users, NEW pub \in 0..MaxPairs, NEW says \in 0..MaxVersion,
           ShareRow(e, u, pub, says)
    PROVE  shares' \in [Entries -> [Users -> ShareView]] /\ ids' \in 0..MaxIds
<1>1. shares \in [Entries -> [Users -> ShareView]] /\ ids \in 0..MaxIds /\ shares[e][u] \in ShareView
    BY DEF RowsInv
<1>2. CASE shares[e][u].id # 0
  <2>1. [shares[e][u] EXCEPT !.pub = pub, !.says = says] \in ShareView
    BY <1>1 DEF ShareView
  <2>2. shares' = [shares EXCEPT ![e] = [shares[e] EXCEPT ![u] = [shares[e][u] EXCEPT !.pub = pub, !.says = says]]]
    BY <1>1, <1>2 DEF ShareRow
  <2> QED
    BY <1>1, <1>2, <2>1, <2>2 DEF ShareRow
<1>3. CASE shares[e][u].id = 0
  <2>1. ids < MaxIds /\ ids' = ids + 1
    BY <1>3 DEF ShareRow
  <2>2. ids + 1 \in 0..MaxIds
    BY <1>1, <2>1
  <2>3. [id |-> ids + 1, pub |-> pub, says |-> says] \in ShareView
    BY <2>2 DEF ShareView
  <2>4. shares' = [shares EXCEPT ![e][u] = [id |-> ids + 1, pub |-> pub, says |-> says]]
    BY <1>3 DEF ShareRow
  <2> QED
    BY <1>1, <2>1, <2>2, <2>3, <2>4
<1> QED
    BY <1>2, <1>3

\* The list a dialog reads again once it has sent something.
LEMMA ListAgain ==
    ASSUME NEW c \in Lanes, NEW do \in {"listShares", "listBlinds"}, NEW e \in Entries, NEW left \in BOOLEAN
    PROVE  LET o == [Call(do, "list", e, None) EXCEPT !.left = left] IN
           o \in Op /\ OpShape(c, o, key) /\ o.do = do /\ o.at = "list"
<1> DEFINE plain == Call(do, "list", e, None)
           o == [plain EXCEPT !.left = left]
<1>1. <<do, "list">> \in Moves /\ e \in Ons
    BY DEF Moves, Ons
<1>2. plain \in Op
    BY <1>1, CallType DEF Handlers
<1>3. plain.do = do /\ plain.at = "list" /\ plain.on = e
    BY DEF Call
<1> HIDE DEF plain
<1>4. o \in Op /\ o.do = do /\ o.at = "list" /\ o.on = e
    BY <1>2, <1>3 DEF Op
<1> HIDE DEF o
<1>5. OpShape(c, o, key)
    BY <1>1, <1>4 DEF OpShape
<1> QED
    BY <1>4, <1>5 DEF o, plain

LEMMA ShareEntryTypes ==
    ASSUME TypeInv, NEW c \in Lanes, ShareEntry(c) PROVE TypeInv'
<1>1. op[c] # Idle /\ op[c].do = "share" /\ op[c].at = "send"
    BY AtIsBusy DEF ShareEntry
<1>2. /\ op[c].on \in Entries /\ op[c].to \in Users /\ op[c].pub \in 0..MaxPairs
      /\ op[c].says \in 0..MaxVersion /\ op[c].left \in BOOLEAN
    BY <1>1, BusyShape DEF Op, OpShape
<1> DEFINE o == [Call("listShares", "list", op[c].on, None) EXCEPT !.left = op[c].left]
<1>3. o \in Op /\ OpShape(c, o, key) /\ o.do = "listShares"
    BY <1>2, ListAgain
<1>4. op' = [op EXCEPT ![c] = o] /\ UNCHANGED <<screen, held, key>>
    BY DEF ShareEntry
<1> HIDE DEF o
<1>5. DevicesInv'
    BY <1>1, <1>3, <1>4, OpFrame DEF TypeInv
<1>6. shares' \in [Entries -> [Users -> ShareView]] /\ ids' \in 0..MaxIds
    BY <1>2, ShareRowTypes DEF ShareEntry, TypeInv
<1>7. RowsInv'
    BY <1>6 DEF ShareEntry, TypeInv, RowsInv
<1>8. TasksInv'
    BY DEF ShareEntry, TypeInv, TasksInv
<1> QED
    BY <1>5, <1>7, <1>8 DEF TypeInv

LEMMA SharedIds == ASSUME TypeInv, NEW u \in Users PROVE SharedWith(u) \in SUBSET Nat
<1>1. \A e \in Entries : shares[e][u] \in ShareView
    BY DEF TypeInv, RowsInv
<1> QED
    BY <1>1 DEF SharedWith, ShareView

LEMMA EntryIds == ASSUME TypeInv, NEW e \in Entries PROVE SharesOf(e) \in SUBSET Nat
<1>1. \A u \in Users : shares[e][u] \in ShareView
    BY DEF TypeInv, RowsInv
<1> QED
    BY <1>1 DEF SharesOf, ShareView

\* A page with another list, or another text, stays the page it was.
LEMMA Redrawn ==
    ASSUME NEW s \in Screen, ScreenShape(s), NEW I \in SUBSET Nat, NEW B \in SUBSET (Blinds \X Nat), NEW n \in Nat
    PROVE  /\ [s EXCEPT !.ids = I] \in Screen /\ ScreenShape([s EXCEPT !.ids = I])
           /\ [s EXCEPT !.ids = I].page = s.page
           /\ [s EXCEPT !.blinds = B] \in Screen /\ ScreenShape([s EXCEPT !.blinds = B])
           /\ [s EXCEPT !.blinds = B].page = s.page
           /\ [s EXCEPT !.shows = n] \in Screen /\ [s EXCEPT !.shows = n].page = s.page
           /\ n \in 0..MaxVersion \/ s.page \notin {"share", "blind"} => ScreenShape([s EXCEPT !.shows = n])
  BY DEF Screen, ScreenShape

LEMMA ListSharesTypes ==
    ASSUME TypeInv, NEW c \in Lanes, ListShares(c) PROVE TypeInv'
<1>1. op[c] # Idle /\ op[c].do \in {"listShares", "received"} /\ op[c].at = "list"
    BY AtIsBusy DEF ListShares
<1> DEFINE page == screen[DeviceOf[c]]
           seen == IF op[c].do = "received" THEN SharedWith(User(c)) ELSE SharesOf(op[c].on)
           s == [page EXCEPT !.ids = seen]
<1>2. page \in Screen /\ ScreenShape(page) /\ spent \in 0..MaxOps /\ (op[c].do = "listShares" => op[c].on \in Entries)
    BY <1>1, BusyShape DEF OpShape
<1>3. seen \in SUBSET Nat
    BY <1>1, <1>2, SharedIds, EntryIds, LaneUsers
<1>4. Shows(c, s) /\ Done(c) /\ UNCHANGED <<held, key>>
    BY DEF ListShares, rows
<1> HIDE DEF seen
<1>5. s \in Screen /\ ScreenShape(s) /\ s.page = page.page
    BY <1>2, <1>3, Redrawn
<1> HIDE DEF s
<1>6. DevicesInv'
    BY <1>1, <1>4, <1>5, DoneFrame DEF TypeInv
<1> QED
    BY <1>2, <1>6, StillTypes DEF ListShares

LEMMA RevokeShareTypes ==
    ASSUME TypeInv, NEW c \in Lanes, RevokeShare(c) PROVE TypeInv'
<1>1. op[c] # Idle /\ op[c].do = "revoke" /\ op[c].at = "send"
    BY AtIsBusy DEF RevokeShare
<1> DEFINE page == screen[DeviceOf[c]]
           I == page.ids \ {op[c].on[2]}
           s == [page EXCEPT !.ids = I]
<1>2. page \in Screen /\ ScreenShape(page)
    BY <1>1, BusyShape
<1>3. I \in SUBSET Nat
    BY <1>2 DEF Screen
<1>4. Shows(c, s) /\ Done(c) /\ UNCHANGED <<held, key>>
    BY DEF RevokeShare
<1> HIDE DEF I
<1>5. s \in Screen /\ ScreenShape(s) /\ s.page = page.page
    BY <1>2, <1>3, Redrawn
<1> HIDE DEF s
<1>6. DevicesInv'
    BY <1>1, <1>4, <1>5, DoneFrame DEF TypeInv
<1>7. shares' \in [Entries -> [Users -> ShareView]]
  <2>1. NoShare \in ShareView
    BY DEF NoShare, ShareView
  <2> QED
    BY <2>1 DEF RevokeShare, DropShare, TypeInv, RowsInv
<1>8. RowsInv'
    BY <1>7 DEF RevokeShare, TypeInv, RowsInv
<1>9. TasksInv'
    BY DEF RevokeShare, TypeInv, TasksInv
<1> QED
    BY <1>6, <1>8, <1>9 DEF TypeInv

\* The pages that show an opened copy, or an opened vault, are no dialogs:
\* their texts are not sealed again.
LEMMA OpenSharedEntryTypes ==
    ASSUME TypeInv, NEW c \in Lanes, OpenSharedEntry(c) PROVE TypeInv'
<1>1. op[c] # Idle /\ op[c].do = "open" /\ op[c].at = "fetch"
    BY AtIsBusy DEF OpenSharedEntry
<1> DEFINE page == screen[DeviceOf[c]]
           n == IF Opens(c, op[c].view.pub) THEN op[c].view.says ELSE 0
           s == [page EXCEPT !.shows = n]
<1>2. page \in Screen /\ ScreenShape(page) /\ op[c].view \in ShareView /\ spent \in 0..MaxOps
  <2>1. op[c].view # None
    BY DEF OpenSharedEntry
  <2> QED
    BY <1>1, <2>1, BusyShape DEF OpShape
<1>3. n \in 0..MaxVersion /\ n \in Nat
    BY <1>2 DEF ShareView
<1>4. Shows(c, s) /\ Done(c) /\ UNCHANGED <<held, key>>
    BY DEF OpenSharedEntry, rows
<1> HIDE DEF n
<1>5. s \in Screen /\ ScreenShape(s) /\ s.page = page.page
    BY <1>2, <1>3, Redrawn
<1> HIDE DEF s
<1>6. DevicesInv'
    BY <1>1, <1>4, <1>5, DoneFrame DEF TypeInv
<1> QED
    BY <1>2, <1>6, StillTypes DEF OpenSharedEntry

LEMMA SendBlindShareTypes ==
    ASSUME TypeInv, NEW c \in Lanes, SendBlindShare(c) PROVE TypeInv'
<1>1. op[c] # Idle /\ op[c].do = "sendBlind" /\ op[c].at = "send"
    BY AtIsBusy DEF SendBlindShare
<1>2. /\ op[c].on \in Entries /\ op[c].to \in Users /\ op[c].pub \in 0..MaxPairs
      /\ op[c].uses \in Nat /\ op[c].left \in BOOLEAN
    BY <1>1, BusyShape DEF Op, OpShape
<1> DEFINE o == [Call("listBlinds", "list", op[c].on, None) EXCEPT !.left = op[c].left]
<1>3. o \in Op /\ OpShape(c, o, key) /\ o.do = "listBlinds"
    BY <1>2, ListAgain
<1>4. op' = [op EXCEPT ![c] = o] /\ UNCHANGED <<screen, held, key>>
    BY DEF SendBlindShare
<1> HIDE DEF o
<1>5. DevicesInv'
    BY <1>1, <1>3, <1>4, OpFrame DEF TypeInv
<1>6. RowsInv'
  <2> DEFINE row == [st |-> "live", e |-> op[c].on, to |-> op[c].to, pub |-> op[c].pub,
                     left |-> op[c].uses, max |-> op[c].uses]
  <2>1. PICK b \in Blinds : blinds' = [blinds EXCEPT ![b] = row]
    BY DEF SendBlindShare
  <2>2. /\ row \in BlindRow /\ row.left <= row.max /\ row.e \in Entries /\ row.to \in Users
    BY <1>2 DEF BlindRow
  <2> HIDE DEF row
  <2>3. blinds' \in [Blinds -> BlindRow]
    BY <2>1, <2>2 DEF TypeInv, RowsInv
  <2>4. \A x \in Blinds : blinds'[x] = IF x = b THEN row ELSE blinds[x]
    BY <2>1 DEF TypeInv, RowsInv
  <2> QED
    BY <2>2, <2>3, <2>4 DEF SendBlindShare, TypeInv, RowsInv
<1>7. TasksInv'
    BY DEF SendBlindShare, TypeInv, TasksInv
<1> QED
    BY <1>5, <1>6, <1>7 DEF TypeInv

LEMMA ListBlindSharesTypes ==
    ASSUME TypeInv, NEW c \in Lanes, ListBlindShares(c) PROVE TypeInv'
<1>1. op[c] # Idle /\ op[c].do \in {"listBlinds", "receivedBlinds"} /\ op[c].at = "list"
    BY AtIsBusy DEF ListBlindShares
<1> DEFINE page == screen[DeviceOf[c]]
<1>2. page \in Screen /\ ScreenShape(page) /\ spent \in 0..MaxOps
    BY <1>1, BusyShape
<1>3. PICK S \in SUBSET Blinds : Shows(c, [page EXCEPT !.blinds = {<<b, blinds[b].left>> : b \in {b \in S : blinds[b].st = "live"}}])
  <2>1. {b \in Blinds : blinds[b].e = op[c].on} \in SUBSET Blinds
    OBVIOUS
  <2>2. {b \in Blinds : blinds[b].to = User(c) /\ Opens(c, blinds[b].pub)} \in SUBSET Blinds
    OBVIOUS
  <2> QED
    BY <2>1, <2>2 DEF ListBlindShares
<1> DEFINE seen == {<<b, blinds[b].left>> : b \in {b \in S : blinds[b].st = "live"}}
           s == [page EXCEPT !.blinds = seen]
<1>4. seen \in SUBSET (Blinds \X Nat)
  <2>1. \A b \in Blinds : blinds[b].left \in Nat
    BY DEF TypeInv, RowsInv, BlindRow
  <2> QED
    BY <2>1
<1>5. Shows(c, s) /\ Done(c) /\ UNCHANGED <<held, key>>
    BY <1>3 DEF ListBlindShares, rows
<1> HIDE DEF seen
<1>6. s \in Screen /\ ScreenShape(s) /\ s.page = page.page
    BY <1>2, <1>4, Redrawn
<1> HIDE DEF s
<1>7. DevicesInv'
    BY <1>1, <1>5, <1>6, DoneFrame DEF TypeInv
<1> QED
    BY <1>2, <1>7, StillTypes DEF ListBlindShares

\* One row of the blind shares changes, its entry and its recipient apart.
LEMMA BlindRowTypes ==
    ASSUME TypeInv, NEW b \in Blinds, NEW row \in BlindRow, blinds' = [blinds EXCEPT ![b] = row],
           row.left <= row.max, row.st = "live" => row.e \in Entries /\ row.to \in Users,
           UNCHANGED <<key, pairs, made, entries, shares, ids, seeds, spent>>
    PROVE  RowsInv'
<1>1. blinds' \in [Blinds -> BlindRow]
    BY DEF TypeInv, RowsInv
<1>2. \A x \in Blinds : blinds'[x] = IF x = b THEN row ELSE blinds[x]
    BY DEF TypeInv, RowsInv
<1> QED
    BY <1>1, <1>2 DEF TypeInv, RowsInv

LEMMA UnlockForOneTimeUseTypes ==
    ASSUME TypeInv, NEW c \in Lanes, UnlockForOneTimeUse(c) PROVE TypeInv'
<1> DEFINE b == op[c].on
           page == screen[DeviceOf[c]]
<1>1. op[c] # Idle /\ op[c].do = "useBlind" /\ op[c].at = "use"
    BY AtIsBusy DEF UnlockForOneTimeUse
<1>2. b \in Blinds /\ page \in Screen /\ ScreenShape(page)
    BY <1>1, BusyShape DEF OpShape
<1>3. /\ blinds[b] \in BlindRow /\ blinds[b].left > 0 /\ blinds[b].left <= blinds[b].max
      /\ blinds[b].st = "live" /\ blinds[b].e \in Entries /\ blinds[b].to \in Users
      /\ blinds' = [blinds EXCEPT ![b].left = @ - 1]
    BY <1>2 DEF UnlockForOneTimeUse, ConsumeUse, TypeInv, RowsInv
<1> DEFINE row == [blinds[b] EXCEPT !.left = @ - 1]
<1>4. blinds[b].left - 1 \in Nat /\ blinds[b].left - 1 <= blinds[b].max
    BY <1>3 DEF BlindRow
<1>5. RowsInv'
  <2>1. row \in BlindRow /\ row.left <= row.max /\ row.e \in Entries /\ row.to \in Users
    BY <1>3, <1>4 DEF BlindRow
  <2>2. blinds' = [blinds EXCEPT ![b] = row]
    BY <1>3
  <2> HIDE DEF row, b
  <2> QED
    BY <1>2, <2>1, <2>2, BlindRowTypes DEF UnlockForOneTimeUse
<1>6. DevicesInv'
  <2> DEFINE seen == {x \in page.blinds : x[1] # b} \cup {<<b, blinds[b].left - 1>>}
             s == IF Opens(c, blinds[b].pub) THEN [page EXCEPT !.blinds = seen, !.shows = 1] ELSE page
  <2>1. seen \in SUBSET (Blinds \X Nat)
    BY <1>2, <1>4 DEF Screen
  <2>2. Shows(c, s) /\ Done(c) /\ UNCHANGED <<held, key>>
    BY DEF UnlockForOneTimeUse
  <2> HIDE DEF seen
  <2>3. s \in Screen /\ s.page = page.page /\ s.on = page.on /\ (s.shows = page.shows \/ s.shows = 1)
    BY <1>2, <2>1 DEF Screen
  <2> HIDE DEF s
  <2>4. ScreenShape(s)
    BY <1>2, <2>3 DEF ScreenShape
  <2> QED
    BY <1>1, <2>2, <2>3, <2>4, DoneFrame DEF TypeInv
<1>7. TasksInv'
    BY DEF UnlockForOneTimeUse, TypeInv, TasksInv
<1> QED
    BY <1>5, <1>6, <1>7 DEF TypeInv

LEMMA RevokeBlindShareTypes ==
    ASSUME TypeInv, NEW c \in Lanes, RevokeBlindShare(c) PROVE TypeInv'
<1> DEFINE b == op[c].on
           page == screen[DeviceOf[c]]
<1>1. op[c] # Idle /\ op[c].do = "revokeBlind" /\ op[c].at = "send"
    BY AtIsBusy DEF RevokeBlindShare
<1>2. b \in Blinds /\ page \in Screen /\ ScreenShape(page)
    BY <1>1, BusyShape DEF OpShape
<1>3. /\ blinds[b] \in BlindRow /\ blinds[b].left <= blinds[b].max
      /\ blinds' = [blinds EXCEPT ![b].st = "gone"]
    BY <1>2 DEF RevokeBlindShare, TypeInv, RowsInv
<1>4. RowsInv'
  <2> DEFINE row == [blinds[b] EXCEPT !.st = "gone"]
  <2>1. row \in BlindRow /\ row.left <= row.max /\ row.st = "gone"
    BY <1>3 DEF BlindRow
  <2>2. blinds' = [blinds EXCEPT ![b] = row]
    BY <1>3
  <2> HIDE DEF row, b
  <2> QED
    BY <1>2, <2>1, <2>2, BlindRowTypes DEF RevokeBlindShare
<1>5. DevicesInv'
  <2> DEFINE B == {x \in page.blinds : x[1] # b}
             s == [page EXCEPT !.blinds = B]
  <2>1. Shows(c, s) /\ Done(c) /\ UNCHANGED <<held, key>>
    BY DEF RevokeBlindShare
  <2>2. B \in SUBSET (Blinds \X Nat)
    BY <1>2 DEF Screen
  <2> HIDE DEF B
  <2>3. s \in Screen /\ ScreenShape(s) /\ s.page = page.page
    BY <1>2, <2>2, Redrawn
  <2> HIDE DEF s
  <2> QED
    BY <1>1, <2>1, <2>3, DoneFrame DEF TypeInv
<1>6. TasksInv'
    BY DEF RevokeBlindShare, TypeInv, TasksInv
<1> QED
    BY <1>4, <1>5, <1>6 DEF TypeInv

\* A sealed key written to the server is no newer than the vault key it seals.
LEMMA SeedRowTypes ==
    ASSUME TypeInv, NEW p \in Trusted, NEW pub \in 0..MaxPairs, NEW of \in Nat, of <= key[p[1]],
           SeedRow(p, pub, of),
           UNCHANGED <<key, pairs, made, entries, shares, ids, blinds, spent>>
    PROVE  RowsInv'
<1>1. of \in 0..MaxKeys
    BY TrustedUsers DEF TypeInv, RowsInv
<1>2. [pub |-> pub, of |-> of] \in [pub : 0..MaxPairs, of : 0..MaxKeys]
    BY <1>1
<1>3. seeds' \in [Trusted -> [pub : 0..MaxPairs, of : 0..MaxKeys]]
    BY <1>2 DEF SeedRow, TypeInv, RowsInv
<1>4. \A q \in Trusted : seeds'[q] = IF q = p THEN [pub |-> pub, of |-> of] ELSE seeds[q]
    BY DEF SeedRow, TypeInv, RowsInv
<1>5. \A q \in Trusted : seeds'[q].of <= key'[q[1]]
    BY <1>4 DEF TypeInv, RowsInv
<1> QED
    BY <1>3, <1>5 DEF TypeInv, RowsInv

LEMMA SeedContactKeyTypes ==
    ASSUME TypeInv, NEW c \in Lanes, SeedContactKey(c) PROVE TypeInv'
<1>1. op[c] # Idle /\ op[c].do = "seed" /\ op[c].at = "send"
    BY AtIsBusy DEF SeedContactKey
<1>2. op[c].on \in Trusted /\ op[c].says <= key[op[c].on[1]] /\ op[c].says \in Nat /\ op[c].pub \in 0..MaxPairs
    BY <1>1, BusyShape DEF OpShape, Op
<1>3. RowsInv'
    BY <1>2, SeedRowTypes DEF SeedContactKey
<1>4. DevicesInv'
    BY <1>1, EndFrame DEF TypeInv, SeedContactKey
<1>5. TasksInv'
    BY DEF SeedContactKey, TypeInv, TasksInv
<1> QED
    BY <1>3, <1>4, <1>5 DEF TypeInv

LEMMA UnlockEmergencyVaultTypes ==
    ASSUME TypeInv, NEW c \in Lanes, UnlockEmergencyVault(c) PROVE TypeInv'
<1> DEFINE d == DeviceOf[c]
<1>1. op[c] # Idle /\ op[c].do = "emergency" /\ op[c].at = "fetch" /\ d \in Desktops
    BY AtIsBusy DEF UnlockEmergencyVault
<1>2. /\ op[c] \in Op /\ OpShape(c, op[c], key) /\ op[c].on \in Trusted
      /\ op[c].view \in VaultView /\ op[c].view.of <= op[c].view.under
      /\ op[c].view.under <= key[op[c].on[1]] /\ op[c].view.of \in 0..MaxKeys
      /\ spent \in 0..MaxOps
  <2>1. op[c].view # None
    BY DEF UnlockEmergencyVault
  <2> QED
    BY <1>1, <2>1, BusyShape DEF OpShape, VaultView
<1>3. UNCHANGED <<screen, key>>
    BY DEF UnlockEmergencyVault, rows
<1>4. CASE Opens(c, op[c].view.pub)
  <2> DEFINE o == [op[c] EXCEPT !.at = "decrypt"]
             h == <<op[c].on, op[c].view.of>>
  <2>1. op' = [op EXCEPT ![c] = o] /\ held' = [held EXCEPT ![d] = h]
    BY <1>4 DEF UnlockEmergencyVault, GoTo
  <2>2. /\ o \in Op /\ o # Idle /\ o.do = "emergency" /\ o.at = "decrypt" /\ o.on = op[c].on /\ o.view = op[c].view
        /\ o.left = op[c].left
    BY <1>1, <1>2, OpIsBusy DEF Op
  <2>3. h \in Trusted \X (0..MaxKeys) /\ h[1] = op[c].on /\ h[2] = op[c].view.of
    BY <1>2
  <2> HIDE DEF o, h
  <2>4. OpShape(c, o, key)
    BY <1>1, <1>2, <2>2 DEF OpShape, Moves
  <2>5. op' \in [Lanes -> Op \cup {Idle}] /\ \A x \in Lanes : op'[x] = IF x = c THEN o ELSE op[x]
    BY <2>1, <2>2 DEF TypeInv, DevicesInv
  <2>6. held' \in [Desktops -> Holds] /\ \A x \in Desktops : held'[x] = IF x = d THEN h ELSE held[x]
    BY <2>1, <2>3 DEF TypeInv, DevicesInv, Holds
  <2>7. ASSUME NEW x \in Lanes PROVE OpShape(x, op'[x], key') /\ PageShape(op'[x], screen'[DeviceOf[x]].page)
    <3>1. OpShape(x, op[x], key) /\ PageShape(op[x], screen[DeviceOf[x]].page)
      BY DEF TypeInv, DevicesInv
    <3> QED
      BY <1>1, <1>3, <2>2, <2>4, <2>5, <3>1 DEF PageShape
  <2>8. ASSUME NEW x \in Desktops PROVE HeldShape(x, held'[x], screen'[x].page, op', key')
    <3>1. HeldShape(x, held[x], screen[x].page, op, key)
      BY DEF TypeInv, DevicesInv
    <3>2. CASE x = d
      <4>1. Reads(op'[c], held'[x]) /\ c \in LanesOf(x)
        BY <1>1, <2>2, <2>3, <2>5, <2>6, <3>2, LaneUsers DEF Reads
      <4> QED
        BY <4>1 DEF HeldShape
    <3>3. CASE x # d
      <4>1. ASSUME NEW y \in LanesOf(x), Reads(op[y], held[x]) PROVE Reads(op'[y], held'[x])
        <5>1. y # c /\ y \in Lanes
          BY <3>3 DEF LanesOf
        <5> QED
          BY <2>5, <2>6, <3>3, <4>1, <5>1
      <4> QED
        BY <1>3, <2>6, <3>1, <3>3, <4>1 DEF HeldShape
    <3> QED
      BY <3>2, <3>3
  <2>9. DevicesInv'
    BY <1>3, <2>5, <2>6, <2>7, <2>8, StillPage DEF DevicesInv, TypeInv
  <2> QED
    BY <1>2, <2>9, StillTypes DEF UnlockEmergencyVault
<1>5. CASE ~ Opens(c, op[c].view.pub)
  <2>1. Done(c) /\ UNCHANGED <<screen, held, key>>
    BY <1>3, <1>5 DEF UnlockEmergencyVault
  <2>2. DevicesInv'
    BY <1>1, <2>1, EndFrame DEF TypeInv
  <2> QED
    BY <1>2, <2>2, StillTypes DEF UnlockEmergencyVault
<1> QED
    BY <1>4, <1>5

\* The entries could not be read with the key held: then it is a former one,
\* for the entries were read later than the key was sealed, or it is not the
\* one this handler unsealed.
LEMMA DecryptEmergencyFieldsTypes ==
    ASSUME TypeInv, NEW c \in Lanes, DecryptEmergencyFields(c) PROVE TypeInv'
<1> DEFINE p == op[c].on
           d == DeviceOf[c]
           page == screen[d]
           s == [page EXCEPT !.shows = op[c].view.under]
<1>1. op[c] # Idle /\ op[c].do = "emergency" /\ op[c].at = "decrypt"
    BY AtIsBusy DEF DecryptEmergencyFields
<1>2. /\ op[c] \in Op /\ p \in Trusted /\ d \in Devices
      /\ op[c].view \in VaultView /\ op[c].view.of <= op[c].view.under /\ op[c].view.under <= key[p[1]]
      /\ PageShape(op[c], page.page)
      /\ page \in Screen /\ ScreenShape(page) /\ spent \in 0..MaxOps
    BY <1>1, BusyShape DEF OpShape, TypeInv, DevicesInv
<1>3. op[c].view.of \in Nat /\ op[c].view.under \in Nat /\ key[p[1]] \in Nat
    BY <1>2, TrustedUsers DEF VaultView, TypeInv, RowsInv
<1>4. ScreensInv' /\ \A x \in Devices : screen'[x].page = screen[x].page
  <2>1. CASE screen' = screen
    BY <2>1, StillPage DEF TypeInv
  <2>2. CASE Shows(c, s) /\ op[c].left
    BY <2>1, <2>2 DEF Shows
  <2>3. CASE Shows(c, s) /\ ~ op[c].left
    <3>1. page.page = "emergency"
      BY <1>1, <1>2, <2>3 DEF PageShape
    <3>2. s \in Screen /\ s.page = page.page
      BY <1>2, <1>3 DEF Screen
    <3>3. ScreenShape(s)
      BY <3>1, <3>2 DEF ScreenShape
    <3> QED
      BY <2>3, <3>2, <3>3, ShowsPage DEF TypeInv
  <2> QED
    BY <2>1, <2>2, <2>3 DEF DecryptEmergencyFields
<1>5. op' = [op EXCEPT ![c] = Idle] /\ UNCHANGED key
    BY DEF DecryptEmergencyFields, Done, rows
<1>6. op' \in [Lanes -> Op \cup {Idle}] /\ \A x \in Lanes : op'[x] = IF x = c THEN Idle ELSE op[x]
    BY <1>5 DEF TypeInv, DevicesInv
<1>7. held' \in [Desktops -> Holds]
      /\ \A x \in Desktops : held'[x] = IF x = d /\ Readable(c) /\ op[c].left THEN None ELSE held[x]
    BY DEF DecryptEmergencyFields, TypeInv, DevicesInv, Holds
<1>8. ASSUME NEW x \in Lanes PROVE OpShape(x, op'[x], key') /\ PageShape(op'[x], screen'[DeviceOf[x]].page)
  <2>1. OpShape(x, op[x], key) /\ PageShape(op[x], screen[DeviceOf[x]].page)
    BY DEF TypeInv, DevicesInv
  <2>2. screen'[DeviceOf[x]].page = screen[DeviceOf[x]].page
    BY <1>4, LaneUsers
  <2> QED
    BY <1>5, <1>6, <2>1, <2>2 DEF OpShape, PageShape
<1>9. ASSUME NEW x \in Desktops PROVE HeldShape(x, held'[x], screen'[x].page, op', key')
  <2>1. HeldShape(x, held[x], screen[x].page, op, key) /\ held[x] \in Holds /\ screen'[x].page = screen[x].page
    BY <1>4 DEF TypeInv, DevicesInv, Devices
  <2>2. CASE held'[x] = None
    BY <2>2 DEF HeldShape
  <2>3. CASE held'[x] # None
    <3>1. held'[x] = held[x] /\ (x = d => ~ (Readable(c) /\ op[c].left))
      BY <1>7, <2>3
    <3>2. CASE \E y \in LanesOf(x) : y # c /\ Reads(op[y], held[x])
      <4>1. PICK y \in LanesOf(x) : y # c /\ Reads(op[y], held[x])
        BY <3>2
      <4>2. op'[y] = op[y]
        BY <1>6, <4>1 DEF LanesOf
      <4> QED
        BY <3>1, <4>1, <4>2 DEF HeldShape
    <3>3. CASE c \in LanesOf(x) /\ Reads(op[c], held[x]) /\ page.page # "emergency"
      <4>1. x = d /\ op[c].left
        BY <1>1, <1>2, <3>3 DEF LanesOf, PageShape
      <4>2. held[x][1] = p /\ held[x][2] = op[c].view.of /\ held[x] \in Trusted \X (0..MaxKeys)
        BY <2>1, <2>3, <3>1, <3>3 DEF Reads, Holds
      <4>3. op[c].view.of # op[c].view.under
        <5>1. held[x] = <<p, op[c].view.of>>
          BY <4>2
        <5> QED
          BY <3>1, <4>1, <5>1 DEF Readable
      <4>4. held[x][2] < key[held[x][1][1]]
        BY <1>2, <1>3, <4>2, <4>3
      <4> QED
        BY <1>5, <3>1, <4>4 DEF HeldShape
    <3>4. CASE c \in LanesOf(x) /\ page.page = "emergency"
      <4>1. x = d
        BY <3>4 DEF LanesOf
      <4> QED
        BY <2>1, <3>4, <4>1 DEF HeldShape
    <3>5. CASE screen[x].page = "emergency" \/ held[x][2] < key[held[x][1][1]]
      BY <1>5, <2>1, <3>1, <3>5 DEF HeldShape
    <3> QED
      BY <2>1, <2>3, <3>1, <3>2, <3>3, <3>4, <3>5 DEF HeldShape
  <2> QED
    BY <2>2, <2>3
<1>10. DevicesInv'
    BY <1>4, <1>6, <1>7, <1>8, <1>9 DEF DevicesInv
<1> QED
    BY <1>2, <1>10, StillTypes DEF DecryptEmergencyFields

LEMMA OpenEmergencyVaultTypes ==
    ASSUME TypeInv, NEW c \in Lanes, OpenEmergencyVault(c) PROVE TypeInv'
<1> DEFINE page == screen[DeviceOf[c]]
           s == [page EXCEPT !.shows = op[c].view.of]
<1>1. op[c] # Idle /\ op[c].do = "emergency" /\ op[c].at = "fetch"
    BY AtIsBusy DEF OpenEmergencyVault
<1>2. /\ op[c].view \in VaultView /\ op[c].view.of \in Nat /\ PageShape(op[c], page.page)
      /\ page \in Screen /\ ScreenShape(page) /\ spent \in 0..MaxOps
  <2>1. op[c].view # None
    BY DEF OpenEmergencyVault
  <2>2. /\ op[c].view \in VaultView /\ page \in Screen /\ ScreenShape(page) /\ spent \in 0..MaxOps
        /\ PageShape(op[c], page.page)
    BY <1>1, <2>1, BusyShape DEF OpShape, TypeInv, DevicesInv
  <2> QED
    BY <2>2 DEF VaultView
<1>3. Done(c) /\ UNCHANGED <<held, key>>
    BY DEF OpenEmergencyVault, rows
<1>4. CASE screen' = screen
  <2>1. DevicesInv'
    BY <1>1, <1>3, <1>4, EndFrame DEF TypeInv
  <2> QED
    BY <1>2, <2>1, StillTypes DEF OpenEmergencyVault
<1>5. CASE Shows(c, s) /\ ~ op[c].left
  <2>1. page.page = "emergency"
    BY <1>1, <1>2, <1>5 DEF PageShape
  <2>2. s \in Screen /\ s.page = page.page
    BY <1>2 DEF Screen
  <2>3. ScreenShape(s)
    BY <2>1, <2>2 DEF ScreenShape
  <2> HIDE DEF s
  <2>4. DevicesInv'
    BY <1>1, <1>3, <1>5, <2>2, <2>3, DoneFrame DEF TypeInv
  <2> QED
    BY <1>2, <2>4, StillTypes DEF OpenEmergencyVault
<1> QED
    BY <1>4, <1>5 DEF OpenEmergencyVault, Shows

\* Vault keys only grow, and nothing a handler knows of one is undone by that.
LEMMA KeyGrows ==
    ASSUME NEW c \in Lanes, NEW o, NEW k \in [Users -> 1..MaxKeys], NEW j \in [Users -> 1..MaxKeys],
           \A u \in Users : k[u] <= j[u], OpShape(c, o, k)
    PROVE  OpShape(c, o, j)
<1>1. \A p \in Trusted : p[1] \in Users /\ k[p[1]] \in Nat /\ j[p[1]] \in Nat /\ k[p[1]] <= j[p[1]]
    BY TrustedUsers
<1>2. ASSUME NEW p \in Trusted, NEW n \in Nat, n <= k[p[1]] PROVE n <= j[p[1]]
    BY <1>1, <1>2
<1>3. o # Idle /\ o.do = "seed" /\ o.at = "send" => o.says <= j[o.on[1]]
  <2>1. o # Idle => o.says \in Nat
    BY DEF OpShape, Op
  <2> QED
    BY <1>2, <2>1 DEF OpShape
<1>4. o # Idle /\ o.do = "emergency" /\ o.view \in VaultView /\ o.view.under <= k[o.on[1]]
      => o.view.under <= j[o.on[1]]
  <2>1. o.view \in VaultView => o.view.under \in Nat
    BY DEF VaultView
  <2> QED
    BY <1>2, <2>1 DEF OpShape
<1> QED
    BY <1>3, <1>4 DEF OpShape

LEMMA TaskKeyGrows ==
    ASSUME NEW t, NEW k \in [Users -> 1..MaxKeys], NEW j \in [Users -> 1..MaxKeys],
           \A u \in Users : k[u] <= j[u], TaskShape(t, k)
    PROVE  TaskShape(t, j)
<1>1. t.on \in Trusted => k[t.on[1]] \in Nat /\ j[t.on[1]] \in Nat /\ k[t.on[1]] <= j[t.on[1]]
    BY TrustedUsers
<1>2. t.says \in Nat
    BY DEF TaskShape, Work
<1>3. t.on \in Trusted /\ t.says <= k[t.on[1]] => t.says <= j[t.on[1]]
    BY <1>1, <1>2
<1> QED
    BY <1>3 DEF TaskShape

\* Devices signed out hold nothing, and the others see no difference.
LEMMA SignedOutTypes ==
    ASSUME TypeInv, NEW D \in SUBSET Devices, NEW ops \in [Lanes -> Op \cup {Idle}], SignedOut(D, ops),
           key' \in [Users -> 1..MaxKeys], \A u \in Users : key[u] <= key'[u],
           \A c \in Lanes : \/ ops[c] = op[c]
                            \/ /\ op[c] # Idle /\ op[c].at # "decrypt" /\ OpShape(c, ops[c], key)
                               /\ ops[c] # Idle => ops[c].do # "emergency"
    PROVE  DevicesInv'
<1>1. /\ op \in [Lanes -> Op \cup {Idle}] /\ held \in [Desktops -> Holds]
      /\ screen \in [Devices -> Screen] /\ \A d \in Devices : ScreenShape(screen[d])
      /\ key \in [Users -> 1..MaxKeys]
    BY DEF TypeInv, DevicesInv, ScreensInv, RowsInv
<1>2. /\ op' = [c \in Lanes |-> IF DeviceOf[c] \in D THEN Idle ELSE ops[c]]
      /\ screen' = [d \in Devices |-> IF d \in D THEN Blank ELSE screen[d]]
      /\ held' = [d \in Desktops |-> IF d \in D THEN None ELSE held[d]]
    BY DEF SignedOut
<1>3. ScreensInv'
  <2>1. ScreenShape(Blank)
    BY BlankType DEF ScreenShape
  <2> QED
    BY <1>1, <1>2, <2>1, BlankType DEF ScreensInv
<1>4. op' \in [Lanes -> Op \cup {Idle}] /\ held' \in [Desktops -> Holds]
    BY <1>1, <1>2 DEF Holds
<1>5. ASSUME NEW c \in Lanes PROVE OpShape(c, op'[c], key') /\ PageShape(op'[c], screen'[DeviceOf[c]].page)
  <2>1. OpShape(c, op[c], key) /\ PageShape(op[c], screen[DeviceOf[c]].page) /\ DeviceOf[c] \in Devices
    BY LaneUsers DEF TypeInv, DevicesInv
  <2>2. CASE DeviceOf[c] \in D
    BY <1>2, <2>2 DEF OpShape, PageShape
  <2>3. CASE DeviceOf[c] \notin D
    <3>1. op'[c] = ops[c] /\ screen'[DeviceOf[c]] = screen[DeviceOf[c]]
      BY <1>2, <2>1, <2>3
    <3>2. OpShape(c, ops[c], key) /\ PageShape(ops[c], screen[DeviceOf[c]].page)
      BY <2>1 DEF PageShape
    <3> QED
      BY <1>1, <3>1, <3>2, KeyGrows
  <2> QED
    BY <2>2, <2>3
<1>6. ASSUME NEW d \in Desktops PROVE HeldShape(d, held'[d], screen'[d].page, op', key')
  <2>1. HeldShape(d, held[d], screen[d].page, op, key) /\ held[d] \in Holds /\ d \in Devices
    BY DEF TypeInv, DevicesInv, Devices
  <2>2. CASE d \in D
    BY <1>2, <2>2 DEF HeldShape
  <2>3. CASE d \notin D
    <3>1. held'[d] = held[d] /\ screen'[d] = screen[d]
      BY <1>2, <2>1, <2>3
    <3>2. ASSUME held[d] # None, held[d][2] < key[held[d][1][1]] PROVE held[d][2] < key'[held[d][1][1]]
      <4>1. held[d][1] \in Trusted /\ held[d][2] \in Nat
        BY <2>1, <3>2 DEF Holds
      <4>2. /\ key[held[d][1][1]] \in Nat /\ key'[held[d][1][1]] \in Nat
            /\ key[held[d][1][1]] <= key'[held[d][1][1]]
        BY <1>1, <4>1, TrustedUsers
      <4> QED
        BY <3>2, <4>1, <4>2
    <3>3. ASSUME NEW c \in LanesOf(d), Reads(op[c], held[d]) PROVE Reads(op'[c], held[d])
      <4>1. c \in Lanes /\ DeviceOf[c] = d
        BY LaneDevice, <2>1
      <4>2. op'[c] = ops[c] /\ ops[c] = op[c]
        BY <1>2, <2>3, <3>3, <4>1 DEF Reads
      <4> QED
        BY <3>3, <4>2
    <3> QED
      BY <2>1, <3>1, <3>2, <3>3 DEF HeldShape
  <2> QED
    BY <2>2, <2>3
<1> QED
    BY <1>3, <1>4, <1>5, <1>6 DEF DevicesInv

LEMMA ChangeMasterPasswordTypes ==
    ASSUME TypeInv, NEW c \in Lanes, ChangeMasterPassword(c) PROVE TypeInv'
<1> DEFINE u == User(c)
           other == {x \in Devices : UserOf[x] = u /\ x # DeviceOf[c]}
           o == [op[c] EXCEPT !.at = "login"]
           ops == [op EXCEPT ![c] = o]
<1>1. op[c] # Idle /\ op[c].do = "rekey" /\ op[c].at = "update" /\ u \in Users
    BY AtIsBusy, LaneUsers DEF ChangeMasterPassword
<1>2. key \in [Users -> 1..MaxKeys] /\ key[u] < MaxKeys /\ key' = [key EXCEPT ![u] = @ + 1]
    BY DEF ChangeMasterPassword, TypeInv, RowsInv
<1>3. key' \in [Users -> 1..MaxKeys] /\ \A x \in Users : key[x] <= key'[x]
  <2>1. key[u] + 1 \in 1..MaxKeys /\ \A x \in Users : key[x] \in Nat
    BY <1>1, <1>2
  <2> QED
    BY <1>1, <1>2, <2>1
<1>4. RowsInv'
  <2>1. \A p \in Trusted : seeds'[p].of <= key'[p[1]]
    <3>1. ASSUME NEW p \in Trusted PROVE seeds[p].of <= key'[p[1]]
      <4>1. seeds[p].of \in Nat /\ seeds[p].of <= key[p[1]]
        BY DEF TypeInv, RowsInv
      <4>2. key[p[1]] \in Nat /\ key'[p[1]] \in Nat /\ key[p[1]] <= key'[p[1]]
        BY <1>2, <1>3, TrustedUsers
      <4> QED
        BY <4>1, <4>2
    <3> QED
      BY <3>1 DEF ChangeMasterPassword
  <2> QED
    BY <1>3, <2>1 DEF ChangeMasterPassword, TypeInv, RowsInv
<1>5. SignedOut(other, ops)
    BY DEF ChangeMasterPassword
<1>6. TasksInv'
  <2>1. tasks' \subseteq tasks
    BY <1>5 DEF SignedOut
  <2>2. ASSUME NEW t \in tasks' PROVE TaskShape(t, key')
    <3>1. TaskShape(t, key)
      BY <2>1 DEF TypeInv, TasksInv
    <3> QED
      BY <1>2, <1>3, <3>1, TaskKeyGrows
  <2> QED
    BY <2>2 DEF TasksInv
<1>7. DevicesInv'
  <2>1. <<op[c].do, "login">> \in Moves
    BY <1>1 DEF Moves
  <2>2. o \in Op /\ OpShape(c, o, key) /\ o.do = "rekey"
    BY <1>1, <2>1, NextShape
  <2> HIDE DEF o
  <2>3. ops \in [Lanes -> Op \cup {Idle}] /\ \A x \in Lanes : ops[x] = IF x = c THEN o ELSE op[x]
    BY <2>2 DEF TypeInv, DevicesInv
  <2>4. other \in SUBSET Devices
    OBVIOUS
  <2> HIDE DEF ops, other
  <2> QED
    BY <1>1, <1>3, <1>5, <2>2, <2>3, <2>4, SignedOutTypes
<1> QED
    BY <1>4, <1>6, <1>7 DEF TypeInv

\* Requests that join those in the background.
LEMMA TasksFrame ==
    ASSUME TypeInv, NEW S, tasks' \subseteq tasks \cup S, UNCHANGED key, \A t \in S : TaskShape(t, key)
    PROVE  TasksInv'
  BY DEF TypeInv, TasksInv

LEMMA ReseedAllContactsTypes ==
    ASSUME TypeInv, NEW c \in Lanes, ReseedAllContacts(c) PROVE TypeInv'
<1> DEFINE d == DeviceOf[c]
           task(p) == [d |-> d, by |-> "rekey", at |-> "publicKey", on |-> p, to |-> p[2], pub |-> 0, says |-> 0]
           S == {task(p) : p \in {p \in Trusted : p[1] = User(c)}}
<1>1. ASSUME NEW p \in Trusted, p[1] = User(c) PROVE TaskShape(task(p), key)
  <2>1. p[2] \in Users /\ d \in Devices /\ UserOf[d] = p[1]
    BY <1>1, TrustedUsers, LaneUsers
  <2>2. task(p) \in Work
    BY <2>1 DEF Work
  <2> QED
    BY <2>1, <2>2 DEF TaskShape
<1>2. TasksInv'
  <2>1. \A t \in S : TaskShape(t, key)
    BY <1>1
  <2>2. tasks' \subseteq tasks \cup S /\ UNCHANGED key
    BY DEF ReseedAllContacts, rows
  <2> HIDE DEF S
  <2> QED
    BY <2>1, <2>2, TasksFrame
<1>3. DevicesInv'
    BY AtIsBusy, EndFrame DEF ReseedAllContacts, rows, TypeInv
<1>4. RowsInv'
    BY DEF ReseedAllContacts, rows, TypeInv, RowsInv
<1> QED
    BY <1>2, <1>3, <1>4 DEF TypeInv

LEMMA NotSignedInAgainTypes ==
    ASSUME TypeInv, NEW c \in Lanes, NotSignedInAgain(c) PROVE TypeInv'
<1>1. SignedOut({DeviceOf[c]}, op) /\ UNCHANGED key /\ DeviceOf[c] \in Devices
    BY LaneUsers DEF NotSignedInAgain, rows
<1>2. DevicesInv'
  <2>1. key' \in [Users -> 1..MaxKeys] /\ \A u \in Users : key[u] <= key'[u]
    BY <1>1 DEF TypeInv, RowsInv
  <2>2. op \in [Lanes -> Op \cup {Idle}]
    BY DEF TypeInv, DevicesInv
  <2> QED
    BY <1>1, <2>1, <2>2, SignedOutTypes
<1>3. TasksInv'
    BY <1>1 DEF SignedOut, TypeInv, TasksInv
<1>4. RowsInv'
    BY DEF NotSignedInAgain, rows, TypeInv, RowsInv
<1> QED
    BY <1>2, <1>3, <1>4 DEF TypeInv

-----------------------------------------------------------------------------
(* The requests in the background.                                         *)

LEMMA DevicesStill ==
    ASSUME TypeInv, UNCHANGED <<screen, op, held, key>> PROVE DevicesInv'
  BY DEF TypeInv, DevicesInv, ScreensInv

LEMMA TaskTypes ==
    ASSUME TypeInv, NEW t \in tasks, Task(t) PROVE TypeInv'
<1>1. TaskShape(t, key) /\ t \in Work
    BY DEF TypeInv, TasksInv, TaskShape
<1>2. DevicesInv'
  <2>1. UNCHANGED <<screen, op, held, key>>
    BY DEF Task, ReseedEntryShares, TaskPublicKey, TaskSendsShare, TaskSendsSeed, TaskFails, rows
  <2> QED
    BY <2>1, DevicesStill
<1>3. CASE ReseedEntryShares(t)
  <2> DEFINE task(u) == [t EXCEPT !.at = "publicKey", !.to = u]
             S == {task(u) : u \in {u \in Users : shares[t.on][u].id # 0}}
  <2>1. ASSUME NEW u \in Users PROVE TaskShape(task(u), key)
    <3>1. t.on \in Entries /\ t.on \notin Trusted
      BY <1>1, <1>3 DEF ReseedEntryShares, TaskShape
    <3>2. task(u) \in Work /\ task(u).to = u /\ task(u).at = "publicKey" /\ task(u).on = t.on /\ task(u).says = t.says
      BY <1>1 DEF Work
    <3> QED
      BY <1>1, <3>1, <3>2 DEF TaskShape
  <2>2. TasksInv'
    <3>1. \A x \in S : TaskShape(x, key)
      BY <2>1
    <3>2. tasks' \subseteq tasks \cup S /\ UNCHANGED key
      BY <1>3 DEF ReseedEntryShares, rows
    <3> HIDE DEF S
    <3> QED
      BY <3>1, <3>2, TasksFrame
  <2>3. RowsInv'
    BY <1>3 DEF ReseedEntryShares, rows, TypeInv, RowsInv
  <2> QED
    BY <1>2, <2>2, <2>3 DEF TypeInv
<1>4. CASE TaskPublicKey(t)
  <2> DEFINE says == IF t.on \in Trusted THEN key[UserOf[t.d]] ELSE t.says
             task == [t EXCEPT !.at = "send", !.pub = pairs[t.to].pub, !.says = says]
  <2>1. t.to \in Users /\ pairs[t.to].pub \in 0..MaxPairs
    <3>1. t.to \in Users
      BY <1>1, <1>4 DEF TaskPublicKey, TaskShape
    <3> QED
      BY <3>1 DEF TypeInv, RowsInv, PairRow
  <2>2. key[UserOf[t.d]] \in Nat /\ t.says \in Nat
    BY <1>1, DeviceUsers DEF Work, TypeInv, RowsInv
  <2>3. says \in Nat
    BY <2>2
  <2>4. /\ task \in Work /\ task.at = "send" /\ task.on = t.on /\ task.to = t.to /\ task.d = t.d /\ task.says = says
    BY <1>1, <2>1, <2>3 DEF Work
  <2>5. t.on \in Trusted => says <= key[t.on[1]]
    BY <1>1, <2>2 DEF TaskShape
  <2>6. t.on \in Entries => says = t.says
    OBVIOUS
  <2>7. tasks' = (tasks \ {t}) \cup {task}
    BY <1>4 DEF TaskPublicKey
  <2> HIDE DEF says, task
  <2>8. TaskShape(task, key)
    BY <1>1, <2>1, <2>4, <2>5, <2>6 DEF TaskShape
  <2>9. TasksInv'
    <3>1. tasks' \subseteq tasks \cup {task} /\ UNCHANGED key
      BY <1>4, <2>7 DEF TaskPublicKey, rows
    <3>2. \A x \in {task} : TaskShape(x, key)
      BY <2>8
    <3> QED
      BY <3>1, <3>2, TasksFrame
  <2>10. RowsInv'
    BY <1>4 DEF TaskPublicKey, rows, TypeInv, RowsInv
  <2> QED
    BY <1>2, <2>9, <2>10 DEF TypeInv
<1>5. CASE TaskSendsShare(t)
  <2>1. t.on \in Entries /\ t.to \in Users /\ t.pub \in 0..MaxPairs /\ t.says \in 0..MaxVersion
    BY <1>1, <1>5 DEF TaskSendsShare, TaskShape, Work
  <2>2. shares' \in [Entries -> [Users -> ShareView]] /\ ids' \in 0..MaxIds
    BY <1>5, <2>1, ShareRowTypes DEF TaskSendsShare, TypeInv
  <2>3. RowsInv'
    BY <1>5, <2>2 DEF TaskSendsShare, TypeInv, RowsInv
  <2>4. TasksInv'
    BY <1>5 DEF TaskSendsShare, TypeInv, TasksInv
  <2> QED
    BY <1>2, <2>3, <2>4 DEF TypeInv
<1>6. CASE TaskSendsSeed(t)
  <2>1. t.on \in Trusted /\ t.pub \in 0..MaxPairs /\ t.says \in Nat /\ t.says <= key[t.on[1]]
    BY <1>1, <1>6 DEF TaskSendsSeed, TaskShape, Work
  <2>2. RowsInv'
    BY <1>6, <2>1, SeedRowTypes DEF TaskSendsSeed
  <2>3. TasksInv'
    BY <1>6 DEF TaskSendsSeed, TypeInv, TasksInv
  <2> QED
    BY <1>2, <2>2, <2>3 DEF TypeInv
<1>7. CASE TaskFails(t)
  <2>1. TasksInv' /\ RowsInv'
    BY <1>7 DEF TaskFails, rows, TypeInv, TasksInv, RowsInv
  <2> QED
    BY <1>2, <2>1 DEF TypeInv
<1> QED
    BY <1>3, <1>4, <1>5, <1>6, <1>7 DEF Task

-----------------------------------------------------------------------------
(* The pages.                                                              *)

\* A handler that begins on the page shown.
LEMMA ActTypes ==
    ASSUME TypeInv, NEW d \in Devices, NEW call \in Op, Act(d, call), UNCHANGED <<rows, tasks, held>>,
           call.at # "decrypt", call.do # "emergency", \A c \in LanesOf(d) : OpShape(c, call, key)
    PROVE  TypeInv'
<1> DEFINE f == FreeLane(d, {})
<1>1. /\ screen[d].page # "emergency" /\ spent < MaxOps /\ spent' = spent + 1 /\ HasLane(d, {})
      /\ op' = [op EXCEPT ![f] = call] /\ screen' = screen /\ UNCHANGED <<held, key>>
    BY DEF Act, Free, rows
<1>2. f \in LanesOf(d) /\ op[f] = Idle /\ f \in Lanes /\ DeviceOf[f] = d
    BY <1>1, FreeLaneIs
<1>3. screen[d] \in Screen /\ ScreenShape(screen[d]) /\ screen' = [screen EXCEPT ![d] = screen[d]]
    BY <1>1 DEF TypeInv, DevicesInv, ScreensInv
<1> HIDE DEF f
<1>4. op' \in [Lanes -> Op \cup {Idle}] /\ \A c \in Lanes : op'[c] = IF c = f THEN call ELSE op[c]
    BY <1>1, <1>2 DEF TypeInv, DevicesInv
<1>5. Starts(f, screen[d].page)
    BY <1>2, <1>4 DEF Starts
<1>6. \A c \in Lanes : op'[c] = op[c] \/ (DeviceOf[c] = d /\ Starts(c, screen[d].page))
    BY <1>2, <1>4, <1>5
<1>8. DevicesInv /\ UNCHANGED <<held, key>>
    BY <1>1 DEF TypeInv
<1>9. DevicesInv'
    BY <1>1, <1>3, <1>4, <1>6, <1>8, PageFrame
<1>7. spent' \in 0..MaxOps
    BY <1>1 DEF TypeInv, RowsInv
<1> QED
    BY <1>7, <1>9, StillTypes

\* The page a visit opens.
LEMMA VisitedPage ==
    ASSUME TypeInv, NEW page \in {"none", "share", "blind", "received", "shared", "emergency"}, NEW on \in Ons,
           page \in {"share", "blind"} => on \in Entries
    PROVE  LET s == [Blank EXCEPT !.page = page, !.on = on,
                                  !.shows = IF on \in Entries THEN entries[on].version ELSE 0] IN
           s \in Screen /\ ScreenShape(s) /\ s.page = page
<1> DEFINE shows == IF on \in Entries THEN entries[on].version ELSE 0
           s == [Blank EXCEPT !.page = page, !.on = on, !.shows = shows]
<1>1. shows \in 0..MaxVersion /\ shows \in Nat
    BY DEF TypeInv, RowsInv
<1> HIDE DEF shows
<1>2. s \in Screen /\ s.page = page /\ s.on = on /\ s.shows = shows
    BY <1>1 DEF Blank, Screen
<1> HIDE DEF s
<1>3. ScreenShape(s)
    BY <1>1, <1>2 DEF ScreenShape
<1> QED
    BY <1>2, <1>3 DEF s, shows

LEMMA VisitTypes ==
    ASSUME TypeInv, NEW d \in Devices, NEW page \in {"none", "share", "blind", "received", "shared", "emergency"},
           NEW on \in Ons, page \in {"share", "blind"} => on \in Entries,
           NEW call \in Op, Visit(d, page, on, call), UNCHANGED <<rows, tasks, held>>,
           call.at # "decrypt", call.do = "emergency" => page = "emergency", \A c \in LanesOf(d) : OpShape(c, call, key)
    PROVE  TypeInv'
<1> DEFINE f == FreeLane(d, {})
           s == [Blank EXCEPT !.page = page, !.on = on, !.shows = IF on \in Entries THEN entries[on].version ELSE 0]
<1>1. /\ screen[d].page # "emergency" /\ spent < MaxOps /\ spent' = spent + 1 /\ HasLane(d, {})
      /\ op' = [Left(d) EXCEPT ![f] = call] /\ screen' = [screen EXCEPT ![d] = s] /\ UNCHANGED <<held, key>>
    BY DEF Visit, Free, rows
<1>2. f \in LanesOf(d) /\ op[f] = Idle /\ f \in Lanes /\ DeviceOf[f] = d
    BY <1>1, FreeLaneIs
<1>3. s \in Screen /\ ScreenShape(s) /\ s.page = page
    BY VisitedPage
<1> HIDE DEF f, s
<1>4. Left(d) \in [Lanes -> Op \cup {Idle}]
    BY LeftIs DEF TypeInv
<1>5. op' \in [Lanes -> Op \cup {Idle}] /\ \A c \in Lanes : op'[c] = IF c = f THEN call ELSE Left(d)[c]
    BY <1>1, <1>2, <1>4
<1>6. Starts(f, s.page)
    BY <1>2, <1>3, <1>5 DEF Starts
<1>7. \A c \in Lanes : op'[c] = Left(d)[c] \/ (DeviceOf[c] = d /\ Starts(c, s.page))
    BY <1>2, <1>5, <1>6
<1>9. DevicesInv /\ UNCHANGED <<held, key>>
    BY <1>1 DEF TypeInv
<1>10. DevicesInv'
    BY <1>1, <1>3, <1>5, <1>7, <1>9, PageFrame
<1>8. spent' \in 0..MaxOps
    BY <1>1 DEF TypeInv, RowsInv
<1> QED
    BY <1>8, <1>10, StillTypes

\* A page whose form was sent, or that an entry was dealt with from: it is
\* left, and nothing starts.
LEMMA BlankTypes ==
    ASSUME TypeInv, NEW d \in Devices, Free(d), screen' = [screen EXCEPT ![d] = Blank], op' = Left(d),
           UNCHANGED <<held, key>>
    PROVE  DevicesInv'
<1>1. screen[d].page # "emergency"
    BY DEF Free
<1>2. op' \in [Lanes -> Op \cup {Idle}] /\ \A c \in Lanes : op'[c] = Left(d)[c]
    BY LeftIs DEF TypeInv
<1>3. ScreenShape(Blank)
    BY BlankType DEF ScreenShape
<1> QED
    BY <1>1, <1>2, <1>3, BlankType, PageFrame DEF TypeInv

\* The handlers a page starts with a request of its own, nothing learnt yet.
LEMMA PlainCall ==
    ASSUME NEW c \in Lanes, NEW do \in Handlers \ {"share", "sendBlind", "seed"}, NEW at, <<do, at>> \in Moves,
           at \notin {"generate", "decrypt"}, NEW on \in Ons,
           do = "listShares" => on \in Entries, do \in {"useBlind", "revokeBlind"} => on \in Blinds,
           do = "emergency" => on \in Trusted
    PROVE  /\ Call(do, at, on, None) \in Op /\ OpShape(c, Call(do, at, on, None), key)
           /\ Call(do, at, on, None).do = do /\ Call(do, at, on, None).at = at
<1> DEFINE call == Call(do, at, on, None)
<1>1. call \in Op
    BY CallType
<1>2. call.do = do /\ call.at = at /\ call.on = on /\ call.view = None
    BY DEF Call
<1> HIDE DEF call
<1>3. OpShape(c, call, key)
    BY <1>1, <1>2 DEF OpShape
<1> QED
    BY <1>1, <1>2, <1>3 DEF call

LEMMA IdsOn == ASSUME TypeInv, NEW d \in Devices, NEW id \in screen[d].ids PROVE <<"share", id>> \in Ons
<1>1. id \in Nat
    BY DEF TypeInv, DevicesInv, ScreensInv, Screen
<1> QED
    BY <1>1 DEF Ons

LEMMA RevokeActTypes ==
    ASSUME TypeInv, NEW d \in Devices, NEW id \in screen[d].ids,
           Act(d, Call("revoke", "send", <<"share", id>>, None)), UNCHANGED <<rows, tasks, held>>
    PROVE  TypeInv'
<1> DEFINE call == Call("revoke", "send", <<"share", id>>, None)
<1>1. <<"revoke", "send">> \in Moves
    BY DEF Moves
<1>2. HasLane(d, {}) /\ \A c \in LanesOf(d) :
         call \in Op /\ OpShape(c, call, key) /\ call.do = "revoke" /\ call.at = "send"
    BY <1>1, IdsOn, LaneDevice, PlainCall DEF Handlers, Act
<1>3. \E c : c \in LanesOf(d)
    BY <1>2 DEF HasLane
<1>4. Act(d, call)
    OBVIOUS
<1> HIDE DEF call
<1> QED
    BY <1>2, <1>3, <1>4, ActTypes

LEMMA BlindActTypes ==
    ASSUME TypeInv, NEW d \in Devices, NEW x \in screen[d].blinds, NEW do \in {"revokeBlind", "useBlind"},
           Act(d, Call(do, IF do = "useBlind" THEN "own" ELSE "send", x[1], None)),
           UNCHANGED <<rows, tasks, held>>
    PROVE  TypeInv'
<1> DEFINE at == IF do = "useBlind" THEN "own" ELSE "send"
           call == Call(do, at, x[1], None)
<1>1. x[1] \in Blinds
    BY DEF TypeInv, DevicesInv, ScreensInv, Screen
<1>2. x[1] \in Ons /\ <<do, at>> \in Moves /\ at \notin {"generate", "decrypt"}
    BY <1>1 DEF Ons, Moves
<1>3. \A c \in LanesOf(d) : call \in Op /\ OpShape(c, call, key) /\ call.do = do /\ call.at = at
    BY <1>1, <1>2, LaneDevice, PlainCall DEF Handlers
<1>4. \E c : c \in LanesOf(d)
    BY DEF HasLane, Act
<1>5. Act(d, call)
    OBVIOUS
<1> HIDE DEF call
<1> QED
    BY <1>2, <1>3, <1>4, <1>5, ActTypes

\* A visit that starts a handler with a request of its own.
LEMMA PlainVisit ==
    ASSUME TypeInv, NEW d \in Devices, NEW page \in {"none", "share", "blind", "received", "shared", "emergency"},
           NEW on \in Ons, page \in {"share", "blind"} => on \in Entries,
           NEW do \in Handlers \ {"share", "sendBlind", "seed"}, NEW at, <<do, at>> \in Moves,
           at \notin {"generate", "decrypt"}, NEW what \in Ons,
           do = "listShares" => what \in Entries, do \in {"useBlind", "revokeBlind"} => what \in Blinds,
           do = "emergency" => what \in Trusted /\ page = "emergency",
           Visit(d, page, on, Call(do, at, what, None)), UNCHANGED <<rows, tasks, held>>
    PROVE  TypeInv'
<1> DEFINE call == Call(do, at, what, None)
<1>1. \A c \in LanesOf(d) : call \in Op /\ OpShape(c, call, key) /\ call.do = do /\ call.at = at
    BY LaneDevice, PlainCall
<1>2. \E c : c \in LanesOf(d)
    BY DEF HasLane, Visit
<1>3. Visit(d, page, on, call)
    OBVIOUS
<1> HIDE DEF call
<1> QED
    BY <1>1, <1>2, <1>3, VisitTypes

\* What a dialog starts: the entry is the one the page shows.
LEMMA SealsShape ==
    ASSUME TypeInv, NEW d \in Devices, screen[d].page \in {"share", "blind"}, NEW u \in Users,
           NEW do \in {"share", "sendBlind"}, NEW c \in Lanes
    PROVE  /\ Seals(do, d, u) \in Op /\ OpShape(c, Seals(do, d, u), key)
           /\ Seals(do, d, u).do = do /\ Seals(do, d, u).at = "publicKey"
<1> DEFINE plain == Call(do, "publicKey", screen[d].on, u)
           s == [plain EXCEPT !.says = screen[d].shows]
<1>1. screen[d].on \in Entries /\ screen[d].shows \in 0..MaxVersion /\ screen[d].shows \in Nat
    BY DEF TypeInv, DevicesInv, ScreensInv, ScreenShape
<1>2. <<do, "publicKey">> \in Moves /\ screen[d].on \in Ons
    BY <1>1 DEF Moves, Ons
<1>3. plain \in Op
    BY <1>2, CallType DEF Handlers
<1>4. plain.do = do /\ plain.at = "publicKey" /\ plain.on = screen[d].on /\ plain.to = u
    BY DEF Call
<1>5. Seals(do, d, u) = s
    BY DEF Seals
<1> HIDE DEF plain
<1>6. s \in Op /\ s.do = do /\ s.at = "publicKey" /\ s.on = screen[d].on /\ s.to = u /\ s.says = screen[d].shows
    BY <1>1, <1>3, <1>4 DEF Op
<1> HIDE DEF s
<1>7. OpShape(c, s, key)
    BY <1>1, <1>2, <1>6 DEF OpShape
<1> QED
    BY <1>5, <1>6, <1>7

LEMMA UsesShape ==
    ASSUME NEW c \in Lanes, NEW s \in Op, s.do = "sendBlind", s.at = "publicKey", OpShape(c, s, key), NEW n \in Nat
    PROVE  /\ [s EXCEPT !.uses = n] \in Op /\ OpShape(c, [s EXCEPT !.uses = n], key)
           /\ [s EXCEPT !.uses = n].do = "sendBlind" /\ [s EXCEPT !.uses = n].at = "publicKey"
<1> DEFINE t == [s EXCEPT !.uses = n]
<1>1. /\ t \in Op /\ t.do = s.do /\ t.at = s.at /\ t.on = s.on /\ t.to = s.to /\ t.says = s.says
    BY DEF Op
<1> HIDE DEF t
<1>2. t # Idle /\ s # Idle
    BY <1>1, OpIsBusy
<1>3. OpShape(c, t, key)
    BY <1>1, <1>2 DEF OpShape
<1> QED
    BY <1>1, <1>3 DEF t

LEMMA ShareDialogTypes ==
    ASSUME TypeInv, NEW d \in Devices, ShareDialog(d) PROVE TypeInv'
<1>1. UNCHANGED <<rows, tasks, held>>
    BY DEF ShareDialog
<1>2. ASSUME NEW e \in Entries, Visit(d, "share", e, Call("listShares", "list", e, None)) PROVE TypeInv'
  <2>1. <<"listShares", "list">> \in Moves /\ e \in Ons
    BY DEF Moves, Ons
  <2> QED
    BY <1>1, <1>2, <2>1, PlainVisit DEF Handlers
<1>3. ASSUME NEW u \in Users, screen[d].page = "share", Act(d, Seals("share", d, u)) PROVE TypeInv'
  <2> DEFINE call == Seals("share", d, u)
  <2>1. \A c \in Lanes : call \in Op /\ OpShape(c, call, key) /\ call.do = "share" /\ call.at = "publicKey"
    BY <1>3, SealsShape
  <2>2. (\E c : c \in LanesOf(d)) /\ Act(d, call)
    BY <1>3 DEF HasLane, Act
  <2>3. \A c \in LanesOf(d) : c \in Lanes
    BY LaneDevice
  <2> HIDE DEF call
  <2> QED
    BY <1>1, <2>1, <2>2, <2>3, ActTypes
<1>4. ASSUME NEW id \in screen[d].ids, Act(d, Call("revoke", "send", <<"share", id>>, None)) PROVE TypeInv'
    BY <1>1, <1>4, RevokeActTypes
<1> QED
    BY <1>2, <1>3, <1>4 DEF ShareDialog, Mine

LEMMA BlindDialogTypes ==
    ASSUME TypeInv, NEW d \in Devices, BlindDialog(d) PROVE TypeInv'
<1>1. UNCHANGED <<rows, tasks, held>>
    BY DEF BlindDialog
<1>2. ASSUME NEW e \in Entries, Visit(d, "blind", e, Call("listBlinds", "list", e, None)) PROVE TypeInv'
  <2>1. <<"listBlinds", "list">> \in Moves /\ e \in Ons
    BY DEF Moves, Ons
  <2> QED
    BY <1>1, <1>2, <2>1, PlainVisit DEF Handlers
<1>3. ASSUME NEW u \in Users, NEW n \in Uses, screen[d].page = "blind",
             Act(d, [Seals("sendBlind", d, u) EXCEPT !.uses = n])
      PROVE  TypeInv'
  <2> DEFINE call == [Seals("sendBlind", d, u) EXCEPT !.uses = n]
  <2>1. n \in Nat
    OBVIOUS
  <2>2. \A c \in Lanes : call \in Op /\ OpShape(c, call, key) /\ call.do = "sendBlind" /\ call.at = "publicKey"
    <3> SUFFICES ASSUME NEW c \in Lanes
                 PROVE  call \in Op /\ OpShape(c, call, key) /\ call.do = "sendBlind" /\ call.at = "publicKey"
      OBVIOUS
    <3> DEFINE s == Seals("sendBlind", d, u)
    <3>1. s \in Op /\ OpShape(c, s, key) /\ s.do = "sendBlind" /\ s.at = "publicKey"
      BY <1>3, SealsShape
    <3> HIDE DEF s
    <3>2. /\ [s EXCEPT !.uses = n] \in Op /\ OpShape(c, [s EXCEPT !.uses = n], key)
          /\ [s EXCEPT !.uses = n].do = "sendBlind" /\ [s EXCEPT !.uses = n].at = "publicKey"
      BY <2>1, <3>1, UsesShape
    <3> QED
      BY <3>2 DEF s
  <2>3. (\E c : c \in LanesOf(d)) /\ Act(d, call)
    BY <1>3 DEF HasLane, Act
  <2>4. \A c \in LanesOf(d) : c \in Lanes
    BY LaneDevice
  <2> HIDE DEF call
  <2> QED
    BY <1>1, <2>2, <2>3, <2>4, ActTypes
<1>4. ASSUME NEW x \in screen[d].blinds, Act(d, Call("revokeBlind", "send", x[1], None)) PROVE TypeInv'
    BY <1>1, <1>4, BlindActTypes
<1> QED
    BY <1>2, <1>3, <1>4 DEF BlindDialog, Mine


\* The desktop's received page: its two halves start one handler each.
LEMMA SharedReceivedPageTypes ==
    ASSUME TypeInv, NEW d \in Devices, SharedReceivedPage(d) PROVE TypeInv'
<1> DEFINE f == FreeLane(d, {})
           g == FreeLane(d, {f})
           first == Call("received", "hasKeys", None, None)
           second == Call("receivedBlinds", "hasKeys", None, None)
           s == [Blank EXCEPT !.page = "received"]
<1>1. /\ screen[d].page # "emergency" /\ spent < MaxOps /\ spent' = spent + 1
      /\ HasLane(d, {}) /\ HasLane(d, {f})
      /\ op' = [Left(d) EXCEPT ![f] = first, ![g] = second]
      /\ screen' = [screen EXCEPT ![d] = s] /\ UNCHANGED <<rows, tasks, held, key>>
    BY DEF SharedReceivedPage, Free, rows
<1>2. f \in Lanes /\ DeviceOf[f] = d /\ op[f] = Idle
    BY <1>1, FreeLaneIs
<1>3. g \in Lanes /\ DeviceOf[g] = d /\ op[g] = Idle /\ g # f
    BY <1>1, FreeLaneIs
<1>4. s \in Screen /\ s.page = "received"
    BY DEF Blank, Screen, Ons
<1>5. /\ <<"received", "hasKeys">> \in Moves /\ <<"receivedBlinds", "hasKeys">> \in Moves /\ None \in Ons
      /\ "received" \in Handlers \ {"share", "sendBlind", "seed"}
      /\ "receivedBlinds" \in Handlers \ {"share", "sendBlind", "seed"}
    BY DEF Moves, Ons, Handlers
<1>6. \A c \in Lanes : first \in Op /\ OpShape(c, first, key) /\ first.do = "received" /\ first.at = "hasKeys"
    BY <1>5, PlainCall
<1>7. \A c \in Lanes : second \in Op /\ OpShape(c, second, key) /\ second.do = "receivedBlinds" /\ second.at = "hasKeys"
    BY <1>5, PlainCall
<1> HIDE DEF f, g, s, first, second
<1>8. ScreenShape(s)
    BY <1>4 DEF ScreenShape
<1>9. Left(d) \in [Lanes -> Op \cup {Idle}]
    BY LeftIs DEF TypeInv
<1>10. /\ op' \in [Lanes -> Op \cup {Idle}] /\ op'[f] = first /\ op'[g] = second
       /\ \A c \in Lanes : c # f /\ c # g => op'[c] = Left(d)[c]
    BY <1>1, <1>2, <1>3, <1>6, <1>7, <1>9
<1>11. Starts(f, s.page) /\ Starts(g, s.page)
    BY <1>2, <1>3, <1>6, <1>7, <1>10 DEF Starts
<1>12. \A c \in Lanes : op'[c] = Left(d)[c] \/ (DeviceOf[c] = d /\ Starts(c, s.page))
    BY <1>2, <1>3, <1>10, <1>11
<1>13. DevicesInv /\ UNCHANGED <<held, key>>
    BY <1>1 DEF TypeInv
<1>14. DevicesInv'
    BY <1>1, <1>4, <1>8, <1>10, <1>12, <1>13, PageFrame
<1>15. spent' \in 0..MaxOps
    BY <1>1 DEF TypeInv, RowsInv
<1> QED
    BY <1>1, <1>14, <1>15, StillTypes

\* What others share with me: the other pages, and the extension's.
LEMMA ReceivedTypes ==
    ASSUME TypeInv, NEW d \in Devices,
           \/ SharedWithMeSettings(d) \/ SharedEntry(d) \/ BlindSharesReceivedSettings(d) \/ SharedReceivedView(d)
    PROVE  TypeInv'
<1>1. UNCHANGED <<rows, tasks, held>>
    BY DEF SharedWithMeSettings, SharedEntry, BlindSharesReceivedSettings, SharedReceivedView
<1>2. ASSUME NEW id \in screen[d].ids, Act(d, Call("revoke", "send", <<"share", id>>, None)) PROVE TypeInv'
    BY <1>1, <1>2, RevokeActTypes
<1>3. CASE BlindList(d)
  <2>1. PICK x \in screen[d].blinds : \/ Act(d, Call("useBlind", "own", x[1], None))
                                      \/ Act(d, Call("revokeBlind", "send", x[1], None))
    BY <1>3 DEF BlindList
  <2> QED
    BY <1>1, <2>1, BlindActTypes
<1>4. CASE Act(d, Call("receivedBlinds", "hasKeys", None, None))
  <2> DEFINE call == Call("receivedBlinds", "hasKeys", None, None)
  <2>1. <<"receivedBlinds", "hasKeys">> \in Moves /\ None \in Ons
    BY DEF Moves, Ons
  <2>2. \A c \in LanesOf(d) : call \in Op /\ OpShape(c, call, key) /\ call.do = "receivedBlinds" /\ call.at = "hasKeys"
    BY <2>1, LaneDevice, PlainCall DEF Handlers
  <2>3. (\E c : c \in LanesOf(d)) /\ Act(d, call)
    BY <1>4 DEF HasLane, Act
  <2> HIDE DEF call
  <2> QED
    BY <1>1, <2>2, <2>3, ActTypes
<1>5. CASE Visit(d, "received", None, Call("received", "list", None, None))
  <2>1. <<"received", "list">> \in Moves /\ None \in Ons
    BY DEF Moves, Ons
  <2> QED
    BY <1>1, <1>5, <2>1, PlainVisit DEF Handlers
<1>6. ASSUME NEW id \in screen[d].ids, Visit(d, "shared", None, Call("open", "hasKeys", <<"share", id>>, None))
      PROVE  TypeInv'
  <2>1. <<"open", "hasKeys">> \in Moves /\ None \in Ons /\ <<"share", id>> \in Ons
    BY IdsOn DEF Moves, Ons
  <2> QED
    BY <1>1, <1>6, <2>1, PlainVisit DEF Handlers
<1>7. CASE SharedWithMeSettings(d)
    BY <1>2, <1>7 DEF SharedWithMeSettings
<1>8. CASE SharedEntry(d)
    BY <1>6, <1>8 DEF SharedEntry
<1>9. CASE BlindSharesReceivedSettings(d)
    BY <1>3, <1>9 DEF BlindSharesReceivedSettings
<1>10. CASE SharedReceivedView(d)
    BY <1>2, <1>3, <1>4, <1>5, <1>10 DEF SharedReceivedView
<1> QED
    BY <1>7, <1>8, <1>9, <1>10

LEMMA SettingsPageTypes ==
    ASSUME TypeInv, NEW d \in Devices, SettingsPage(d) PROVE TypeInv'
<1>1. UNCHANGED <<rows, tasks, held>>
    BY DEF SettingsPage
<1>2. ASSUME NEW p \in Trusted, p[1] = UserOf[d], Visit(d, "none", None, Call("seed", "publicKey", p, p[2]))
      PROVE  TypeInv'
  <2> DEFINE call == Call("seed", "publicKey", p, p[2])
  <2>1. <<"seed", "publicKey">> \in Moves /\ p \in Ons /\ p[2] \in Users /\ None \in Ons
    BY TrustedUsers DEF Moves, Ons
  <2>2. call \in Op
    BY <2>1, CallType DEF Handlers
  <2>3. call.do = "seed" /\ call.at = "publicKey" /\ call.on = p /\ call.to = p[2]
    BY DEF Call
  <2>4. Visit(d, "none", None, call)
    BY <1>2
  <2> HIDE DEF call
  <2>5. \A c \in LanesOf(d) : OpShape(c, call, key)
    BY <1>2, <2>1, <2>2, <2>3, LaneDevice DEF OpShape
  <2> QED
    BY <1>1, <2>1, <2>2, <2>3, <2>4, <2>5, VisitTypes
<1>3. CASE Visit(d, "none", None, Call("rekey", "update", None, None))
  <2>1. <<"rekey", "update">> \in Moves /\ None \in Ons
    BY DEF Moves, Ons
  <2> QED
    BY <1>1, <1>3, <2>1, PlainVisit DEF Handlers
<1> QED
    BY <1>2, <1>3 DEF SettingsPage

LEMMA OpeningTypes ==
    ASSUME TypeInv, NEW d \in Devices, NEW p \in Trusted, Opening(d, p), UNCHANGED <<rows, tasks, held>>
    PROVE  TypeInv'
<1>1. <<"emergency", "fetch">> \in Moves /\ p \in Ons
    BY DEF Moves, Ons
<1> QED
    BY <1>1, PlainVisit DEF Handlers, Opening

\* The page of an emergency vault is left, and what the desktop held with it.
LEMMA LeavePageTypes ==
    ASSUME TypeInv, NEW d \in Devices, LeavePage(d), UNCHANGED <<rows, tasks>>,
           held' = IF d \in Desktops THEN [held EXCEPT ![d] = None] ELSE held
    PROVE  TypeInv'
<1>1. /\ screen' = [screen EXCEPT ![d] = Blank] /\ op' = Left(d) /\ spent' = spent /\ UNCHANGED key
    BY DEF LeavePage, rows
<1>2. /\ op \in [Lanes -> Op \cup {Idle}] /\ held \in [Desktops -> Holds] /\ ScreensInv
      /\ screen \in [Devices -> Screen] /\ \A x \in Devices : ScreenShape(screen[x])
    BY DEF TypeInv, DevicesInv, ScreensInv
<1>3. \A x \in Devices : screen'[x] = IF x = d THEN Blank ELSE screen[x]
    BY <1>1, <1>2
<1>4. ScreensInv'
    BY <1>1, <1>2, <1>3, BlankType DEF ScreensInv, ScreenShape
<1>5. op' \in [Lanes -> Op \cup {Idle}]
    BY <1>1, LeftIs DEF TypeInv
<1>6. ASSUME NEW c \in Lanes PROVE OpShape(c, op'[c], key') /\ PageShape(op'[c], screen'[DeviceOf[c]].page)
  <2>1. OpShape(c, op'[c], key')
    BY <1>1, LeftIs DEF TypeInv
  <2>2. PageShape(op[c], screen[DeviceOf[c]].page) /\ DeviceOf[c] \in Devices
    BY LaneUsers DEF TypeInv, DevicesInv
  <2>3. CASE DeviceOf[c] # d
    <3>1. op'[c] = op[c] /\ screen'[DeviceOf[c]] = screen[DeviceOf[c]]
      BY <1>1, <1>3, <2>2, <2>3, LeftIs DEF TypeInv
    <3> QED
      BY <2>1, <2>2, <3>1
  <2>4. CASE DeviceOf[c] = d
    <3>1. op'[c] = Idle \/ op'[c].left
      BY <1>1, <2>4, LeftIs DEF TypeInv
    <3> QED
      BY <2>1, <3>1 DEF PageShape
  <2> QED
    BY <2>3, <2>4
<1>7. held' \in [Desktops -> Holds]
    BY <1>2 DEF Holds
<1>8. ASSUME NEW x \in Desktops PROVE HeldShape(x, held'[x], screen'[x].page, op', key')
  <2>1. CASE x = d
    <3>1. held'[x] = None
      BY <1>2, <2>1
    <3> QED
      BY <3>1 DEF HeldShape
  <2>2. CASE x # d
    <3>1. held'[x] = held[x] /\ screen'[x] = screen[x]
      BY <1>2, <1>3, <2>2 DEF Devices
    <3>2. HeldShape(x, held[x], screen[x].page, op, key)
      BY DEF TypeInv, DevicesInv
    <3>3. \A c \in LanesOf(x) : op'[c] = op[c]
      BY <1>1, <2>2, LeftIs DEF TypeInv, LanesOf
    <3> QED
      BY <1>1, <3>1, <3>2, <3>3 DEF HeldShape
  <2> QED
    BY <2>1, <2>2
<1>9. DevicesInv'
    BY <1>4, <1>5, <1>6, <1>7, <1>8 DEF DevicesInv
<1>10. spent' \in 0..MaxOps
    BY <1>1 DEF TypeInv, RowsInv
<1> QED
    BY <1>9, <1>10, StillTypes

LEMMA EmergencyPageTypes ==
    ASSUME TypeInv, NEW d \in Devices, EmergencyVaultPage(d) \/ EmergencyVaultView(d) PROVE TypeInv'
<1>1. UNCHANGED <<rows, tasks>>
    BY DEF EmergencyVaultPage, EmergencyVaultView
<1>2. ASSUME NEW p \in Trusted, Opening(d, p), held' = held PROVE TypeInv'
    BY <1>1, <1>2, OpeningTypes
<1>3. ASSUME d \in Desktops, LeavePage(d), held' = [held EXCEPT ![d] = None] PROVE TypeInv'
    BY <1>1, <1>3, LeavePageTypes
<1>4. ASSUME d \in Extensions, LeavePage(d), held' = held PROVE TypeInv'
    BY <1>1, <1>4, LeavePageTypes
<1>5. CASE EmergencyVaultPage(d)
    BY <1>2, <1>3, <1>5 DEF EmergencyVaultPage
<1>6. CASE EmergencyVaultView(d)
    BY <1>2, <1>4, <1>6 DEF EmergencyVaultView
<1> QED
    BY <1>5, <1>6

LEMMA EntryPageTypes ==
    ASSUME TypeInv, NEW d \in Devices, NEW e \in Entries, SaveEntry(d, e) \/ TrashEntry(d, e) PROVE TypeInv'
<1>1. entries[e] \in [st : {"active", "trash"}, version : 1..MaxVersion] /\ spent \in 0..MaxOps
    BY DEF TypeInv, RowsInv
<1>2. /\ Free(d) /\ spent' = spent + 1 /\ spent < MaxOps /\ screen' = [screen EXCEPT ![d] = Blank] /\ op' = Left(d)
      /\ UNCHANGED <<held, key>>
    BY DEF SaveEntry, TrashEntry, Free
<1>3. spent' \in 0..MaxOps
    BY <1>1, <1>2
<1>4. DevicesInv'
    BY <1>2, BlankTypes
<1>5. CASE SaveEntry(d, e)
  <2> DEFINE task == [d |-> d, by |-> "edit", at |-> "list", on |-> e, to |-> None, pub |-> 0,
                      says |-> entries[e].version + 1]
  <2>1. entries[e].version + 1 \in 1..MaxVersion
    BY <1>1, <1>5 DEF SaveEntry
  <2>2. RowsInv'
    <3>1. [entries[e] EXCEPT !.version = @ + 1] \in [st : {"active", "trash"}, version : 1..MaxVersion]
      BY <1>1, <2>1
    <3>2. entries' = [entries EXCEPT ![e] = [entries[e] EXCEPT !.version = @ + 1]]
      BY <1>5 DEF SaveEntry
    <3>3. entries' \in [Entries -> [st : {"active", "trash"}, version : 1..MaxVersion]]
      BY <3>1, <3>2 DEF TypeInv, RowsInv
    <3> QED
      BY <1>3, <1>5, <3>3 DEF SaveEntry, TypeInv, RowsInv
  <2>3. TaskShape(task, key)
    <3>1. task \in Work
      BY <2>1 DEF Work
    <3> QED
      BY <2>1, <3>1 DEF TaskShape
  <2>4. TasksInv'
    <3>1. tasks' \subseteq tasks \cup {task} /\ UNCHANGED key
      BY <1>5 DEF SaveEntry
    <3>2. \A t \in {task} : TaskShape(t, key)
      BY <2>3
    <3> QED
      BY <3>1, <3>2, TasksFrame
  <2> QED
    BY <1>4, <2>2, <2>4 DEF TypeInv
<1>6. CASE TrashEntry(d, e)
  <2>1. RowsInv'
    <3>1. [entries[e] EXCEPT !.st = IF @ = "active" THEN "trash" ELSE "active"]
            \in [st : {"active", "trash"}, version : 1..MaxVersion]
      BY <1>1
    <3>2. entries' = [entries EXCEPT ![e] = [entries[e] EXCEPT !.st = IF @ = "active" THEN "trash" ELSE "active"]]
      BY <1>6 DEF TrashEntry
    <3>3. entries' \in [Entries -> [st : {"active", "trash"}, version : 1..MaxVersion]]
      BY <3>1, <3>2 DEF TypeInv, RowsInv
    <3> QED
      BY <1>3, <1>6, <3>3 DEF TrashEntry, TypeInv, RowsInv
  <2>2. TasksInv'
    BY <1>6 DEF TrashEntry, TypeInv, TasksInv
  <2> QED
    BY <1>4, <2>1, <2>2 DEF TypeInv
<1> QED
    BY <1>5, <1>6

LEMMA BulkShareModalTypes ==
    ASSUME TypeInv, NEW d \in Devices, BulkShareModal(d) PROVE TypeInv'
<1>1. PICK u \in Users, E \in SUBSET Mine(UserOf[d]) :
        tasks' = tasks \cup {[d |-> d, by |-> "bulk", at |-> "publicKey", on |-> e, to |-> u, pub |-> 0,
                              says |-> entries[e].version] : e \in E}
    BY DEF BulkShareModal
<1> DEFINE task(e) == [d |-> d, by |-> "bulk", at |-> "publicKey", on |-> e, to |-> u, pub |-> 0,
                       says |-> entries[e].version]
           S == {task(e) : e \in E}
<1>2. ASSUME NEW e \in E PROVE TaskShape(task(e), key)
  <2>1. e \in Entries /\ entries[e].version \in 0..MaxVersion /\ entries[e].version \in Nat
    BY DEF Mine, TypeInv, RowsInv
  <2>2. task(e) \in Work
    BY <2>1 DEF Work
  <2> QED
    BY <2>1, <2>2 DEF TaskShape
<1>3. TasksInv'
  <2>1. \A t \in S : TaskShape(t, key)
    BY <1>2
  <2>2. tasks' \subseteq tasks \cup S /\ UNCHANGED key
    BY <1>1 DEF BulkShareModal, rows
  <2> HIDE DEF S
  <2> QED
    BY <2>1, <2>2, TasksFrame
<1>4. RowsInv'
  <2>1. spent' \in 0..MaxOps
    BY DEF BulkShareModal, Free, TypeInv, RowsInv
  <2> QED
    BY <2>1 DEF BulkShareModal, rows, TypeInv, RowsInv
<1>5. DevicesInv'
  <2>1. Free(d) /\ screen' = [screen EXCEPT ![d] = Blank] /\ op' = Left(d) /\ UNCHANGED <<held, key>>
    BY DEF BulkShareModal, rows
  <2> QED
    BY <2>1, BlankTypes
<1> QED
    BY <1>3, <1>4, <1>5 DEF TypeInv

LEMMA PageTypes == ASSUME TypeInv, NEW d \in Devices, Page(d) PROVE TypeInv'
<1>1. CASE ShareEntryModal(d) \/ ShareEntryView(d)
    BY <1>1, ShareDialogTypes DEF ShareEntryModal, ShareEntryView
<1>2. CASE BlindShareModal(d) \/ BlindShareView(d)
    BY <1>2, BlindDialogTypes DEF BlindShareModal, BlindShareView
<1>3. CASE \/ SharedWithMeSettings(d) \/ SharedEntryPage(d) \/ SharedEntryView(d)
           \/ BlindSharesReceivedSettings(d) \/ SharedReceivedView(d)
    BY <1>3, ReceivedTypes DEF SharedEntryPage, SharedEntryView
<1>4. CASE EmergencyVaultPage(d) \/ EmergencyVaultView(d)
    BY <1>4, EmergencyPageTypes
<1> QED
    BY <1>1, <1>2, <1>3, <1>4, SharedReceivedPageTypes, BulkShareModalTypes, SettingsPageTypes, EntryPageTypes DEF Page

LEMMA AnswerTypes == ASSUME TypeInv, NEW c \in Lanes, Answer(c) PROVE TypeInv'
  BY HasEmergencyKeysTypes, EnsureEmergencyKeysTypes, GetPublicKeyTypes, GetOwnKeysTypes, ShareEntryTypes,
     ListSharesTypes, RevokeShareTypes, GetSharedEntryTypes, OpenSharedEntryTypes, SendBlindShareTypes,
     ListBlindSharesTypes, UnlockForOneTimeUseTypes, RevokeBlindShareTypes, SeedContactKeyTypes,
     GetEmergencyVaultTypes, UnlockEmergencyVaultTypes, DecryptEmergencyFieldsTypes, OpenEmergencyVaultTypes,
     ChangeMasterPasswordTypes, ReseedAllContactsTypes, NotSignedInAgainTypes, RequestFailsTypes
     DEF Answer

LEMMA TypeInvariance == Spec => []TypeInv
<1>1. TypeInv /\ [Next]_vars => TypeInv'
  <2> SUFFICES ASSUME TypeInv, [Next]_vars PROVE TypeInv'
    OBVIOUS
  <2>1. CASE Next
    BY <2>1, PageTypes, AnswerTypes, TaskTypes DEF Next
  <2>2. CASE UNCHANGED vars
    <3>1. UNCHANGED <<rows, tasks>> /\ UNCHANGED <<screen, op, held, key>> /\ spent' = spent
      BY <2>2 DEF vars, clients, rows
    <3> QED
      BY <3>1, StillTypes, DevicesStill DEF TypeInv, RowsInv
  <2> QED
    BY <2>1, <2>2
<1> QED
    BY <1>1, InitTypes, PTL DEF Spec

-----------------------------------------------------------------------------
\* The tables, the handlers and the requests in the background have their
\* types: every step of every flow meets the records the step before left.
THEOREM TypesHold == Spec => []TypeOK
<1>1. TypeInv => TypeOK
  <2> SUFFICES ASSUME TypeInv PROVE TypeOK
    OBVIOUS
  <2>1. \A b \in Blinds : blinds[b].st \in {"unused", "live", "gone"} /\ blinds[b].left \in 0..blinds[b].max
    BY DEF TypeInv, RowsInv, BlindRow
  <2>2. \A c \in Lanes : op[c] # Idle => op[c].do \in Handlers
    BY BusyShape DEF Op
  <2>3. held \in [Desktops -> {None} \cup (Trusted \X (0..MaxKeys))]
    BY DEF TypeInv, DevicesInv, Holds
  <2> QED
    BY <2>1, <2>2, <2>3 DEF TypeOK, TypeInv, RowsInv, PairRow, ShareView
<1> QED
  BY <1>1, TypeInvariance, PTL

\* A vault key held in the process of a desktop opens the owner's vault only
\* behind the page that shows it, or while an opening of that vault is about
\* to decrypt: what HeldShape says, for a key that is the owner's current one.
THEOREM HeldKeyIsShown == Spec => []HeldIsShown
<1>1. TypeInv => HeldIsShown
  <2> SUFFICES ASSUME TypeInv, NEW d \in Desktops, NEW p \in Trusted, held[d] = <<p, key[p[1]]>>
               PROVE  \/ screen[d].page = "emergency"
                      \/ \E c \in LanesOf(d) : op[c] # Idle /\ op[c].do = "emergency" /\ op[c].at = "decrypt" /\ op[c].on = p
    BY DEF HeldIsShown
  <2>1. HeldShape(d, held[d], screen[d].page, op, key)
    BY DEF TypeInv, DevicesInv
  <2>2. key[p[1]] \in Nat
    BY TrustedUsers DEF TypeInv, RowsInv
  <2>3. held[d] # None
    BY <2>2
  <2>4. held[d][1] = p /\ ~ (held[d][2] < key[held[d][1][1]])
    BY <2>2
  <2> QED
    BY <2>1, <2>3, <2>4 DEF HeldShape, Reads
<1> QED
  BY <1>1, TypeInvariance, PTL

-----------------------------------------------------------------------------
(* Which steps write which table.                                          *)

LEMMA PageWrites ==
    ASSUME NEW d \in Devices, Page(d)
    PROVE  UNCHANGED <<shares, blinds, seeds, pairs, made, given, replaced>>
<1>1. CASE \E e \in Entries : SaveEntry(d, e) \/ TrashEntry(d, e)
    BY <1>1 DEF SaveEntry, TrashEntry
<1>2. CASE ~ \E e \in Entries : SaveEntry(d, e) \/ TrashEntry(d, e)
  <2>1. UNCHANGED <<rows, given, replaced>>
    BY <1>2 DEF Page, ShareEntryModal, ShareEntryView, ShareDialog, BlindShareModal, BlindShareView, BlindDialog,
         SharedReceivedPage, SharedWithMeSettings, SharedEntryPage, SharedEntryView, SharedEntry,
         BlindSharesReceivedSettings, SharedReceivedView, EmergencyVaultPage, EmergencyVaultView, SettingsPage,
         BulkShareModal
  <2> QED
    BY <2>1 DEF rows
<1> QED
    BY <1>1, <1>2

LEMMA Writers ==
    ASSUME Next
    PROVE  /\ \/ UNCHANGED shares
              \/ \E c \in Lanes : ShareEntry(c) \/ RevokeShare(c)
              \/ \E t \in tasks : TaskSendsShare(t)
           /\ \/ UNCHANGED <<blinds, given>>
              \/ \E c \in Lanes : SendBlindShare(c) \/ UnlockForOneTimeUse(c) \/ RevokeBlindShare(c)
           /\ \/ UNCHANGED seeds
              \/ \E c \in Lanes : SeedContactKey(c)
              \/ \E t \in tasks : TaskSendsSeed(t)
           /\ \/ UNCHANGED <<pairs, made, replaced>>
              \/ \E c \in Lanes : EnsureEmergencyKeys(c)
<1>1. CASE \E d \in Devices : Page(d)
    BY <1>1, PageWrites
<1>2. CASE \E c \in Lanes : Answer(c)
  <2>1. PICK c \in Lanes : Answer(c)
    BY <1>2
  <2>2. CASE HasEmergencyKeys(c) \/ GetPublicKey(c) \/ GetOwnKeys(c) \/ ListShares(c) \/ GetSharedEntry(c)
             \/ OpenSharedEntry(c) \/ ListBlindShares(c) \/ GetEmergencyVault(c) \/ UnlockEmergencyVault(c)
             \/ DecryptEmergencyFields(c) \/ OpenEmergencyVault(c) \/ ReseedAllContacts(c) \/ NotSignedInAgain(c)
             \/ RequestFails(c)
    BY <2>2 DEF rows, HasEmergencyKeys, GetPublicKey, GetOwnKeys, ListShares, GetSharedEntry, OpenSharedEntry,
         ListBlindShares, GetEmergencyVault, UnlockEmergencyVault, DecryptEmergencyFields, OpenEmergencyVault,
         ReseedAllContacts, NotSignedInAgain, RequestFails
  <2>3. CASE EnsureEmergencyKeys(c) \/ ChangeMasterPassword(c)
    BY <2>3 DEF EnsureEmergencyKeys, ChangeMasterPassword
  <2>4. CASE ShareEntry(c) \/ RevokeShare(c) \/ SeedContactKey(c)
    BY <2>4 DEF ShareEntry, RevokeShare, SeedContactKey
  <2>5. CASE SendBlindShare(c) \/ UnlockForOneTimeUse(c) \/ RevokeBlindShare(c)
    BY <2>5 DEF SendBlindShare, UnlockForOneTimeUse, RevokeBlindShare
  <2> QED
    BY <2>1, <2>2, <2>3, <2>4, <2>5 DEF Answer
<1>3. CASE \E t \in tasks : Task(t)
    BY <1>3 DEF Task, ReseedEntryShares, TaskPublicKey, TaskSendsShare, TaskSendsSeed, TaskFails, rows
<1> QED
    BY <1>1, <1>2, <1>3 DEF Next

-----------------------------------------------------------------------------
(* Blind shares: the uses handed out and those left.                       *)

LEMMA UsesStep ==
    ASSUME TypeInv, UsesInv, [Next]_vars PROVE UsesInv'
<1> USE DEF UsesInv
<1>1. blinds \in [Blinds -> BlindRow] /\ \A b \in Blinds : blinds[b].left \in Nat /\ blinds[b].max \in Nat
    BY DEF TypeInv, RowsInv, BlindRow
<1>2. CASE UNCHANGED <<blinds, given>>
    BY <1>2
<1>3. ASSUME NEW c \in Lanes, SendBlindShare(c) PROVE UsesInv'
  <2>1. op[c] # Idle
    BY <1>3, AtIsBusy DEF SendBlindShare
  <2>2. PICK b \in Blinds : /\ blinds[b].st = "unused"
                            /\ blinds' = [blinds EXCEPT ![b] =
                                 [st |-> "live", e |-> op[c].on, to |-> op[c].to, pub |-> op[c].pub,
                                  left |-> op[c].uses, max |-> op[c].uses]]
    BY <1>3 DEF SendBlindShare
  <2>3. op[c].uses \in Nat
    BY <2>1, BusyShape DEF Op
  <2>4. given' = given /\ given[b] = 0
    BY <1>1, <1>3, <2>2 DEF SendBlindShare
  <2> QED
    BY <1>1, <2>2, <2>3, <2>4
<1>4. ASSUME NEW c \in Lanes, UnlockForOneTimeUse(c) PROVE UsesInv'
  <2>1. op[c] # Idle /\ op[c].do = "useBlind"
    BY <1>4, AtIsBusy DEF UnlockForOneTimeUse
  <2> DEFINE b == op[c].on
  <2>2. b \in Blinds
    BY <2>1, BusyShape DEF OpShape
  <2>3. /\ blinds' = [blinds EXCEPT ![b].left = @ - 1] /\ given' = [given EXCEPT ![b] = @ + 1]
        /\ blinds[b].st = "live"
    BY <1>4 DEF UnlockForOneTimeUse, ConsumeUse
  <2>4. /\ blinds' = [blinds EXCEPT ![b] = [blinds[b] EXCEPT !.left = @ - 1]]
        /\ blinds[b] \in BlindRow
    BY <1>1, <2>2, <2>3
  <2>5. /\ blinds'[b].left = blinds[b].left - 1 /\ blinds'[b].max = blinds[b].max /\ blinds'[b].st = "live"
        /\ given'[b] = given[b] + 1
    BY <1>1, <2>2, <2>3, <2>4 DEF BlindRow
  <2>6. \A x \in Blinds : x # b => blinds'[x] = blinds[x] /\ given'[x] = given[x]
    BY <1>1, <2>2, <2>3
  <2>7. given' \in [Blinds -> Nat]
    BY <2>2, <2>3
  <2>8. given'[b] + blinds'[b].left = blinds'[b].max
    BY <1>1, <2>2, <2>5
  <2> QED
    BY <2>2, <2>5, <2>6, <2>7, <2>8
<1>5. ASSUME NEW c \in Lanes, RevokeBlindShare(c) PROVE UsesInv'
  <2>1. op[c] # Idle /\ op[c].do = "revokeBlind"
    BY <1>5, AtIsBusy DEF RevokeBlindShare
  <2>2. op[c].on \in Blinds
    BY <2>1, BusyShape DEF OpShape
  <2>3. given' = given /\ blinds' = [blinds EXCEPT ![op[c].on] = [blinds[op[c].on] EXCEPT !.st = "gone"]]
    BY <1>1, <1>5, <2>2 DEF RevokeBlindShare
  <2>4. \A x \in Blinds : /\ blinds'[x].left = blinds[x].left /\ blinds'[x].max = blinds[x].max
                          /\ blinds'[x].st = "unused" => blinds[x].st = "unused"
    BY <1>1, <2>2, <2>3 DEF BlindRow
  <2> QED
    BY <2>3, <2>4
<1>6. UNCHANGED vars => UNCHANGED <<blinds, given>>
    BY DEF vars, rows
<1> QED
    BY <1>2, <1>3, <1>4, <1>5, <1>6, Writers

\* However many devices use a blind share, what it handed out and what it has
\* left make up what its owner granted.
THEOREM GrantIsKept == Spec => []UsesWithinGrant
<1>1. Init => UsesInv
    BY DEF Init, UsesInv, NoBlind
<1>2. TypeInv /\ UsesInv => UsesWithinGrant
  <2> SUFFICES ASSUME TypeInv, UsesInv, NEW b \in Blinds
               PROVE  given[b] <= blinds[b].max /\ given[b] + blinds[b].left = blinds[b].max
    BY DEF UsesWithinGrant
  <2>1. blinds[b].left \in Nat /\ given[b] \in Nat
    BY DEF TypeInv, RowsInv, BlindRow, UsesInv
  <2> QED
    BY <2>1 DEF UsesInv
<1> QED
  BY <1>1, <1>2, UsesStep, TypeInvariance, PTL DEF Spec

-----------------------------------------------------------------------------
(* What is sealed for an account, and the loss of its pair of keys.        *)

\* How far the handler in lane c may get in one step: to o.  It is about to
\* send what it sealed for the pair of the day, or to generate a pair because
\* it could not look, or looked and found none.
Progress(c, o) ==
    \/ o = Idle
    \/ /\ op[c] # Idle /\ o.do = op[c].do /\ o.at = op[c].at /\ o.to = op[c].to /\ o.pub = op[c].pub
       /\ o.failed = op[c].failed /\ o.seen = op[c].seen
    \/ o.at \notin {"send", "generate"}
    \/ o.at = "send" /\ o.do \in {"revoke", "revokeBlind"}
    \/ o.at = "send" /\ o.pub = pairs[o.to].pub
    \/ o.at = "generate" /\ (o.failed \/ (pairs[User(c)].pub = 0 /\ o.seen = made))

LEMMA SameProgress == ASSUME NEW c \in Lanes PROVE Progress(c, op[c])
  BY DEF Progress

LEMMA OneProgress ==
    ASSUME TypeInv, NEW c \in Lanes, NEW o, op' = [op EXCEPT ![c] = o], Progress(c, o)
    PROVE  \A x \in Lanes : Progress(x, op'[x])
<1> SUFFICES ASSUME NEW x \in Lanes PROVE Progress(x, op'[x])
    OBVIOUS
<1>1. op \in [Lanes -> Op \cup {Idle}]
    BY DEF TypeInv, DevicesInv
<1>2. CASE x = c
  <2>1. op'[x] = o
    BY <1>1, <1>2
  <2> QED
    BY <1>2, <2>1
<1>3. CASE x # c
  <2>1. op'[x] = op[x]
    BY <1>1, <1>3
  <2> QED
    BY <2>1, SameProgress
<1> QED
    BY <1>2, <1>3

LEMMA LeftProgress ==
    ASSUME TypeInv, NEW d \in Devices, NEW c \in Lanes PROVE Progress(c, Left(d)[c])
<1>1. CASE op[c] = Idle
  <2>1. Left(d)[c] = Idle
    BY <1>1, LeftIs DEF TypeInv
  <2> QED
    BY <2>1 DEF Progress
<1>2. CASE op[c] # Idle
  <2>1. /\ Left(d)[c].do = op[c].do /\ Left(d)[c].at = op[c].at /\ Left(d)[c].to = op[c].to
        /\ Left(d)[c].pub = op[c].pub /\ Left(d)[c].failed = op[c].failed /\ Left(d)[c].seen = op[c].seen
    BY <1>2, LeftIs DEF TypeInv
  <2> QED
    BY <1>2, <2>1 DEF Progress
<1> QED
    BY <1>1, <1>2

\* The first request of a handler a page starts.
Early(call) == call.at \notin {"send", "generate"} \/ (call.at = "send" /\ call.do \in {"revoke", "revokeBlind"})

LEMMA ActProgress ==
    ASSUME TypeInv, NEW d \in Devices, NEW call, Act(d, call), Early(call)
    PROVE  \A x \in Lanes : Progress(x, op'[x])
<1> DEFINE f == FreeLane(d, {})
<1>1. f \in Lanes /\ op' = [op EXCEPT ![f] = call]
    BY FreeLaneIs DEF Act
<1>2. Progress(f, call)
    BY DEF Progress, Early
<1> HIDE DEF f
<1> QED
    BY <1>1, <1>2, OneProgress

LEMMA VisitProgress ==
    ASSUME TypeInv, NEW d \in Devices, NEW page, NEW on, NEW call, Visit(d, page, on, call), Early(call)
    PROVE  \A x \in Lanes : Progress(x, op'[x])
<1> DEFINE f == FreeLane(d, {})
<1>1. f \in Lanes /\ op' = [Left(d) EXCEPT ![f] = call]
    BY FreeLaneIs DEF Visit
<1>2. Progress(f, call)
    BY DEF Progress, Early
<1> HIDE DEF f
<1>3. Left(d) \in [Lanes -> Op \cup {Idle}]
    BY LeftIs DEF TypeInv
<1>4. \A x \in Lanes : op'[x] = IF x = f THEN call ELSE Left(d)[x]
    BY <1>1, <1>3
<1> QED
    BY <1>2, <1>4, LeftProgress

\* The page left, and nothing started.
LEMMA BlankProgress ==
    ASSUME TypeInv, NEW d \in Devices, op' = Left(d) PROVE \A x \in Lanes : Progress(x, op'[x])
  BY LeftProgress

LEMMA ReceivedPageProgress ==
    ASSUME TypeInv, NEW d \in Devices, SharedReceivedPage(d) PROVE \A x \in Lanes : Progress(x, op'[x])
<1> DEFINE f == FreeLane(d, {})
           g == FreeLane(d, {f})
           first == Call("received", "hasKeys", None, None)
           second == Call("receivedBlinds", "hasKeys", None, None)
<1>1. op' = [Left(d) EXCEPT ![f] = first, ![g] = second]
    BY DEF SharedReceivedPage
<1>2. first.at = "hasKeys" /\ second.at = "hasKeys"
    BY DEF Call
<1> HIDE DEF f, g, first, second
<1>3. Left(d) \in [Lanes -> Op \cup {Idle}]
    BY LeftIs DEF TypeInv
<1>4. \A x \in Lanes : op'[x] = first \/ op'[x] = second \/ op'[x] = Left(d)[x]
    BY <1>1, <1>3
<1>5. \A x \in Lanes : Progress(x, first) /\ Progress(x, second)
    BY <1>2 DEF Progress
<1> QED
    BY <1>4, <1>5, LeftProgress

LEMMA StillProgress ==
    ASSUME TypeInv, UNCHANGED op PROVE \A x \in Lanes : Progress(x, op'[x])
  BY SameProgress

LEMMA PageProgress ==
    ASSUME TypeInv, NEW d \in Devices, Page(d) PROVE \A x \in Lanes : Progress(x, op'[x])
<1>1. ASSUME NEW do, NEW at, NEW on, NEW to, Act(d, Call(do, at, on, to)),
             at \notin {"send", "generate"} \/ (at = "send" /\ do \in {"revoke", "revokeBlind"})
      PROVE  \A x \in Lanes : Progress(x, op'[x])
  <2> DEFINE call == Call(do, at, on, to)
  <2>1. Act(d, call) /\ call.do = do /\ call.at = at
    BY <1>1 DEF Call
  <2> HIDE DEF call
  <2> QED
    BY <1>1, <2>1, ActProgress DEF Early
<1>2. ASSUME NEW page, NEW shown, NEW do, NEW at, NEW on, NEW to, Visit(d, page, shown, Call(do, at, on, to)),
             at \notin {"send", "generate"}
      PROVE  \A x \in Lanes : Progress(x, op'[x])
  <2> DEFINE call == Call(do, at, on, to)
  <2>1. Visit(d, page, shown, call) /\ call.at = at
    BY <1>2 DEF Call
  <2> HIDE DEF call
  <2> QED
    BY <1>2, <2>1, VisitProgress DEF Early
<1>3. CASE ShareEntryModal(d) \/ ShareEntryView(d)
  <2>1. ASSUME NEW u \in Users, Act(d, Seals("share", d, u)) PROVE \A x \in Lanes : Progress(x, op'[x])
    <3> DEFINE call == Seals("share", d, u)
    <3>1. Act(d, call) /\ call.at = "publicKey"
      BY <2>1 DEF Seals, Call
    <3> HIDE DEF call
    <3> QED
      BY <3>1, ActProgress DEF Early
  <2>2. ShareDialog(d)
    BY <1>3 DEF ShareEntryModal, ShareEntryView
  <2>3. CASE \E e \in Mine(UserOf[d]) : Visit(d, "share", e, Call("listShares", "list", e, None))
    BY <1>2, <2>3
  <2>4. CASE \E id \in screen[d].ids : Act(d, Call("revoke", "send", <<"share", id>>, None))
    BY <1>1, <2>4
  <2> QED
    BY <2>1, <2>2, <2>3, <2>4 DEF ShareDialog
<1>4. CASE BlindShareModal(d) \/ BlindShareView(d)
  <2>1. ASSUME NEW u \in Users, NEW n \in Uses, Act(d, [Seals("sendBlind", d, u) EXCEPT !.uses = n])
        PROVE  \A x \in Lanes : Progress(x, op'[x])
    <3> DEFINE call == [Seals("sendBlind", d, u) EXCEPT !.uses = n]
    <3>1. Act(d, call) /\ call.at = "publicKey"
      BY <2>1 DEF Seals, Call
    <3> HIDE DEF call
    <3> QED
      BY <3>1, ActProgress DEF Early
  <2>2. BlindDialog(d)
    BY <1>4 DEF BlindShareModal, BlindShareView
  <2>3. CASE \E e \in Mine(UserOf[d]) : Visit(d, "blind", e, Call("listBlinds", "list", e, None))
    BY <1>2, <2>3
  <2>4. CASE \E y \in screen[d].blinds : Act(d, Call("revokeBlind", "send", y[1], None))
    BY <1>1, <2>4
  <2> QED
    BY <2>1, <2>2, <2>3, <2>4 DEF BlindDialog
<1>5. CASE \/ SharedWithMeSettings(d) \/ SharedEntryPage(d) \/ SharedEntryView(d)
           \/ BlindSharesReceivedSettings(d) \/ SharedReceivedView(d)
  <2>1. CASE \E id \in screen[d].ids : Act(d, Call("revoke", "send", <<"share", id>>, None))
    BY <1>1, <2>1
  <2>2. CASE \E id \in screen[d].ids : Visit(d, "shared", None, Call("open", "hasKeys", <<"share", id>>, None))
    BY <1>2, <2>2
  <2>3. CASE BlindList(d)
    <3>1. PICK y \in screen[d].blinds : \/ Act(d, Call("useBlind", "own", y[1], None))
                                        \/ Act(d, Call("revokeBlind", "send", y[1], None))
      BY <2>3 DEF BlindList
    <3> QED
      BY <1>1, <3>1
  <2>4. CASE Act(d, Call("receivedBlinds", "hasKeys", None, None))
    BY <1>1, <2>4
  <2>5. CASE Visit(d, "received", None, Call("received", "list", None, None))
    BY <1>2, <2>5
  <2> QED
    BY <1>5, <2>1, <2>2, <2>3, <2>4, <2>5 DEF SharedWithMeSettings, SharedEntryPage, SharedEntryView, SharedEntry,
       BlindSharesReceivedSettings, SharedReceivedView
<1>6. CASE EmergencyVaultPage(d) \/ EmergencyVaultView(d)
  <2>1. CASE \E p \in Trusted : Visit(d, "emergency", p, Call("emergency", "fetch", p, None))
    BY <1>2, <2>1
  <2>2. CASE op' = Left(d)
    BY <2>2, BlankProgress
  <2> QED
    BY <1>6, <2>1, <2>2 DEF EmergencyVaultPage, EmergencyVaultView, Opening, LeavePage
<1>7. CASE SettingsPage(d)
  <2>1. CASE \E p \in Trusted : Visit(d, "none", None, Call("seed", "publicKey", p, p[2]))
    BY <1>2, <2>1
  <2>2. CASE Visit(d, "none", None, Call("rekey", "update", None, None))
    BY <1>2, <2>2
  <2> QED
    BY <1>7, <2>1, <2>2 DEF SettingsPage
<1>8. CASE BulkShareModal(d) \/ \E e \in Entries : SaveEntry(d, e) \/ TrashEntry(d, e)
    BY <1>8, BlankProgress DEF BulkShareModal, SaveEntry, TrashEntry
<1> QED
    BY <1>3, <1>4, <1>5, <1>6, <1>7, <1>8, ReceivedPageProgress DEF Page

LEMMA DoneProgress ==
    ASSUME TypeInv, NEW c \in Lanes, Done(c) PROVE \A x \in Lanes : Progress(x, op'[x])
<1>1. Progress(c, Idle)
    BY DEF Progress
<1> QED
    BY <1>1, OneProgress DEF Done

LEMMA AnswerProgress ==
    ASSUME TypeInv, NEW c \in Lanes, Answer(c) PROVE \A x \in Lanes : Progress(x, op'[x])
<1>1. CASE Done(c)
    BY <1>1, DoneProgress
<1>2. CASE HasEmergencyKeys(c)
  <2>1. /\ op[c] # Idle /\ op[c].at = "hasKeys" /\ op[c].do \in {"received", "receivedBlinds", "open"}
        /\ op[c] \in Op
    BY <1>2, BusyShape, HasEmergencyKeysIs
  <2>2. CASE op' = [op EXCEPT ![c] = [op[c] EXCEPT !.at = Then(op[c].do)]]
    <3> DEFINE o == [op[c] EXCEPT !.at = Then(op[c].do)]
    <3>1. op' = [op EXCEPT ![c] = o] /\ o.at = Then(op[c].do)
      BY <2>1, <2>2 DEF Op
    <3>2. o.at \in {"list", "own", "fetch"}
      BY <2>1, <3>1, ThenMoves
    <3> HIDE DEF o
    <3>3. Progress(c, o)
      BY <3>2 DEF Progress
    <3> QED
      BY <3>1, <3>3, OneProgress
  <2>3. ASSUME NEW failed \in BOOLEAN, failed \/ pairs[User(c)].pub = 0,
               op' = [op EXCEPT ![c] = [op[c] EXCEPT !.at = "generate", !.says = key[User(c)], !.seen = made,
                                                     !.failed = failed]]
        PROVE  \A x \in Lanes : Progress(x, op'[x])
    <3> DEFINE o == [op[c] EXCEPT !.at = "generate", !.says = key[User(c)], !.seen = made, !.failed = failed]
    <3>1. o.at = "generate" /\ o.seen = made /\ o.failed = failed
      BY <2>1, Generates
    <3>2. op' = [op EXCEPT ![c] = o]
      BY <2>3
    <3> HIDE DEF o
    <3>3. Progress(c, o)
      BY <2>3, <3>1 DEF Progress
    <3> QED
      BY <3>2, <3>3, OneProgress
  <2> QED
    BY <1>2, <2>2, <2>3, HasEmergencyKeysIs
<1>3. CASE EnsureEmergencyKeys(c)
  <2> DEFINE o == [op[c] EXCEPT !.at = Then(op[c].do)]
  <2>1. /\ op[c] # Idle /\ op[c].do \in {"received", "receivedBlinds", "open"} /\ op[c] \in Op
    BY <1>3, BusyShape DEF EnsureEmergencyKeys, Moves
  <2>2. op' = [op EXCEPT ![c] = o] /\ o.at = Then(op[c].do)
    BY <1>3, <2>1 DEF EnsureEmergencyKeys, GoTo, Op
  <2>3. o.at \in {"list", "own", "fetch"}
    BY <2>1, <2>2, ThenMoves
  <2> HIDE DEF o
  <2>4. Progress(c, o)
    BY <2>3 DEF Progress
  <2> QED
    BY <2>2, <2>4, OneProgress
<1>4. CASE GetPublicKey(c)
  <2> DEFINE says == IF op[c].do = "seed" THEN key[User(c)] ELSE op[c].says
             o == [op[c] EXCEPT !.at = "send", !.pub = pairs[op[c].to].pub, !.says = says]
  <2>1. op[c] # Idle /\ op[c] \in Op
    BY <1>4, BusyShape DEF GetPublicKey
  <2>2. op' = [op EXCEPT ![c] = o] /\ o.at = "send" /\ o.to = op[c].to /\ o.pub = pairs[o.to].pub
    BY <1>4, <2>1 DEF GetPublicKey, Op
  <2> HIDE DEF o
  <2>3. Progress(c, o)
    BY <2>2 DEF Progress
  <2> QED
    BY <2>2, <2>3, OneProgress
<1>5. CASE GetOwnKeys(c)
  <2>1. op[c] # Idle /\ op[c] \in Op
    BY <1>5, BusyShape DEF GetOwnKeys
  <2>2. PICK at \in {"use", "list", "fetch"} :
          op' = [op EXCEPT ![c] = [op[c] EXCEPT !.at = at, !.own = pairs[User(c)]]]
    BY <1>5, GetOwnKeysIs
  <2> DEFINE o == [op[c] EXCEPT !.at = at, !.own = pairs[User(c)]]
  <2>3. op' = [op EXCEPT ![c] = o] /\ o.at = at
    BY <2>1, <2>2 DEF Op
  <2> HIDE DEF o
  <2>4. Progress(c, o)
    BY <2>3 DEF Progress
  <2> QED
    BY <2>3, <2>4, OneProgress
<1>6. CASE ShareEntry(c) \/ SendBlindShare(c)
  <2>1. PICK do \in {"listShares", "listBlinds"} :
          op' = [op EXCEPT ![c] = [Call(do, "list", op[c].on, None) EXCEPT !.left = op[c].left]]
    BY <1>6 DEF ShareEntry, SendBlindShare
  <2> DEFINE o == [Call(do, "list", op[c].on, None) EXCEPT !.left = op[c].left]
  <2>2. o.at = "list"
    BY DEF Call
  <2>3. op' = [op EXCEPT ![c] = o]
    BY <2>1
  <2> HIDE DEF o
  <2>4. Progress(c, o)
    BY <2>2 DEF Progress
  <2> QED
    BY <2>3, <2>4, OneProgress
<1>7. CASE GetSharedEntry(c) \/ GetEmergencyVault(c)
  <2>1. PICK view : op' = [op EXCEPT ![c].view = view]
    BY <1>7 DEF GetSharedEntry, GetEmergencyVault
  <2> DEFINE o == [op[c] EXCEPT !.view = view]
  <2>2. op[c] # Idle /\ op[c] \in Op /\ op[c].at = "fetch"
    <3>1. At(c, {"open"}, "fetch") \/ At(c, {"emergency"}, "fetch")
      BY <1>7 DEF GetSharedEntry, GetEmergencyVault
    <3>2. op[c] # Idle /\ op[c].at = "fetch"
      BY <3>1, AtIsBusy
    <3> QED
      BY <3>2, BusyShape
  <2>3. op' = [op EXCEPT ![c] = o] /\ o.at = "fetch"
    BY <2>1, <2>2 DEF Op
  <2> HIDE DEF o
  <2>4. Progress(c, o)
    BY <2>3 DEF Progress
  <2> QED
    BY <2>3, <2>4, OneProgress
<1>8. CASE UnlockEmergencyVault(c)
  <2>1. CASE GoTo(c, "decrypt")
    <3> DEFINE o == [op[c] EXCEPT !.at = "decrypt"]
    <3>1. op[c] # Idle
      BY <1>8, AtIsBusy DEF UnlockEmergencyVault
    <3>2. op' = [op EXCEPT ![c] = o] /\ o.at = "decrypt"
      BY <2>1, <3>1, BusyShape DEF GoTo, Op
    <3> HIDE DEF o
    <3>3. Progress(c, o)
      BY <3>2 DEF Progress
    <3> QED
      BY <3>2, <3>3, OneProgress
  <2> QED
    BY <1>1, <1>8, <2>1 DEF UnlockEmergencyVault
<1>9. CASE ChangeMasterPassword(c)
  <2> DEFINE o == [op[c] EXCEPT !.at = "login"]
  <2>1. op[c] # Idle
    BY <1>9, AtIsBusy DEF ChangeMasterPassword
  <2>2. op[c] \in Op
    BY <2>1, BusyShape
  <2>3. o.at = "login" /\ op \in [Lanes -> Op \cup {Idle}]
    BY <2>2 DEF Op, TypeInv, DevicesInv
  <2>4. \A x \in Lanes : op'[x] = o \/ op'[x] = Idle \/ op'[x] = op[x]
    <3>1. \A x \in Lanes : op'[x] = Idle \/ op'[x] = [op EXCEPT ![c].at = "login"][x]
      BY <1>9 DEF ChangeMasterPassword, SignedOut
    <3> QED
      BY <2>3, <3>1
  <2> HIDE DEF o
  <2> QED
    BY <2>3, <2>4, SameProgress DEF Progress
<1>10. CASE NotSignedInAgain(c)
  <2>1. \A x \in Lanes : op'[x] = Idle \/ op'[x] = op[x]
    BY <1>10 DEF NotSignedInAgain, SignedOut
  <2> QED
    BY <2>1, SameProgress DEF Progress
<1> QED
    BY <1>1, <1>2, <1>3, <1>4, <1>5, <1>6, <1>7, <1>8, <1>9, <1>10 DEF Answer, ListShares, RevokeShare, OpenSharedEntry,
       ListBlindShares, UnlockForOneTimeUse, RevokeBlindShare, SeedContactKey, DecryptEmergencyFields,
       OpenEmergencyVault, ReseedAllContacts, RequestFails

LEMMA StepProgress ==
    ASSUME TypeInv, Next PROVE \A x \in Lanes : Progress(x, op'[x])
<1>1. CASE \E t \in tasks : Task(t)
  <2>1. UNCHANGED op
    BY <1>1 DEF Task, ReseedEntryShares, TaskPublicKey, TaskSendsShare, TaskSendsSeed, TaskFails
  <2> QED
    BY <2>1, StillProgress
<1> QED
    BY <1>1, PageProgress, AnswerProgress DEF Next

\* The requests in the background: sealed for the pair of the day as well.
LEMMA TaskProgress ==
    ASSUME TypeInv, Next PROVE \A t \in tasks' : t.at = "send" => t \in tasks \/ t.pub = pairs[t.to].pub
<1>1. CASE \E t \in tasks : Task(t)
  <2>1. PICK t \in tasks : Task(t)
    BY <1>1
  <2>2. t \in Work
    BY DEF TypeInv, TasksInv, TaskShape
  <2>3. CASE TaskPublicKey(t)
    <3> DEFINE says == IF t.on \in Trusted THEN key[UserOf[t.d]] ELSE t.says
               x == [t EXCEPT !.at = "send", !.pub = pairs[t.to].pub, !.says = says]
    <3>1. tasks' = (tasks \ {t}) \cup {x} /\ x.to = t.to /\ x.pub = pairs[x.to].pub
      BY <2>2, <2>3 DEF TaskPublicKey, Work
    <3> QED
      BY <3>1
  <2>4. CASE ReseedEntryShares(t)
    <3>1. \A u \in Users : [t EXCEPT !.at = "publicKey", !.to = u].at = "publicKey"
      BY <2>2 DEF Work
    <3> QED
      BY <2>4, <3>1 DEF ReseedEntryShares
  <2>5. CASE TaskSendsShare(t) \/ TaskSendsSeed(t) \/ TaskFails(t)
    BY <2>5 DEF TaskSendsShare, TaskSendsSeed, TaskFails
  <2> QED
    BY <2>1, <2>3, <2>4, <2>5 DEF Task
<1>2. CASE \E d \in Devices : Page(d)
  <2>1. PICK d \in Devices : Page(d)
    BY <1>2
  <2>2. CASE BulkShareModal(d)
    <3>1. \A t \in tasks' \ tasks : t.at = "publicKey"
      BY <2>2 DEF BulkShareModal
    <3> QED
      BY <3>1
  <2>3. CASE \E e \in Entries : SaveEntry(d, e)
    <3>1. \A t \in tasks' \ tasks : t.at = "list"
      BY <2>3 DEF SaveEntry
    <3> QED
      BY <3>1
  <2>4. CASE \E e \in Entries : TrashEntry(d, e)
    BY <2>4 DEF TrashEntry
  <2>5. CASE ~ BulkShareModal(d) /\ ~ \E e \in Entries : SaveEntry(d, e) \/ TrashEntry(d, e)
    <3>1. tasks' = tasks
      BY <2>1, <2>5 DEF Page, ShareEntryModal, ShareEntryView, ShareDialog, BlindShareModal, BlindShareView,
         BlindDialog, SharedReceivedPage, SharedWithMeSettings, SharedEntryPage, SharedEntryView, SharedEntry,
         BlindSharesReceivedSettings, SharedReceivedView, EmergencyVaultPage, EmergencyVaultView, SettingsPage
    <3> QED
      BY <3>1
  <2> QED
    BY <2>2, <2>3, <2>4, <2>5
<1>3. CASE \E c \in Lanes : Answer(c)
  <2>1. PICK c \in Lanes : Answer(c)
    BY <1>3
  <2>2. CASE ReseedAllContacts(c)
    <3>1. \A t \in tasks' \ tasks : t.at = "publicKey"
      BY <2>2 DEF ReseedAllContacts
    <3> QED
      BY <3>1
  <2>3. CASE ChangeMasterPassword(c)
    BY <2>3 DEF ChangeMasterPassword, SignedOut
  <2>5. CASE NotSignedInAgain(c)
    BY <2>5 DEF NotSignedInAgain, SignedOut
  <2>4. CASE ~ ReseedAllContacts(c) /\ ~ ChangeMasterPassword(c) /\ ~ NotSignedInAgain(c)
    <3>1. tasks' = tasks
      BY <2>1, <2>4 DEF Answer, HasEmergencyKeys, EnsureEmergencyKeys, GetPublicKey, GetOwnKeys, ShareEntry,
         ListShares, RevokeShare, GetSharedEntry, OpenSharedEntry, SendBlindShare, ListBlindShares,
         UnlockForOneTimeUse, RevokeBlindShare, SeedContactKey, GetEmergencyVault, UnlockEmergencyVault,
         DecryptEmergencyFields, OpenEmergencyVault, RequestFails
    <3> QED
      BY <3>1
  <2> QED
    BY <2>2, <2>3, <2>4, <2>5
<1> QED
    BY <1>1, <1>2, <1>3 DEF Next

\* Nothing that is kept is lost without a cause: the only step that writes a
\* pair over another is EnsureEmergencyKeys, and then it records one.
LEMMA KeptStep ==
    ASSUME TypeInv, MakersInv, Next, NEW u \in Users, NEW pub, Kept(u, pub)
    PROVE  Spared(u, pub, pairs', replaced')
<1>1. CASE UNCHANGED <<pairs, made, replaced>>
    BY <1>1 DEF Kept, Spared
<1>2. CASE \E c \in Lanes : EnsureEmergencyKeys(c)
  <2>1. PICK c \in Lanes : EnsureEmergencyKeys(c)
    BY <1>2
  <2> DEFINE v == User(c)
  <2>2. /\ op[c] # Idle /\ op[c].at = "generate" /\ v \in Users
        /\ pairs' = [pairs EXCEPT ![v] = [pub |-> made + 1, under |-> op[c].says]]
        /\ replaced' = IF pairs[v].pub = 0 THEN replaced ELSE replaced \cup {<<v, pairs[v].pub, Why(c)>>}
    BY <2>1, LaneUsers DEF EnsureEmergencyKeys
  <2>3. replaced \subseteq replaced'
    BY <2>2
  <2>4. CASE pub = 0 \/ pub # pairs[u].pub
    BY <2>3, <2>4 DEF Kept, Spared
  <2>5. CASE u # v
    <3>1. pairs'[u] = pairs[u]
      BY <2>2, <2>5 DEF TypeInv, RowsInv
    <3> QED
      BY <2>3, <3>1 DEF Kept, Spared
  <2>6. CASE u = v /\ pub # 0 /\ pub = pairs[u].pub
    <3>1. op[c].failed \in BOOLEAN
      BY <2>2, BusyShape DEF Op
    <3>2. op[c].failed \/ pairs[v].pub > op[c].seen
      BY <2>2, <2>6 DEF MakersInv, Looked
    <3>3. Why(c) \in {"read failed", "crossed"}
      <4>1. CASE op[c].failed
        BY <4>1 DEF Why
      <4>2. CASE ~ op[c].failed
        BY <3>2, <4>2 DEF Why
      <4> QED
        BY <3>1, <4>1, <4>2
    <3>4. <<u, pub, Why(c)>> \in replaced'
      BY <2>2, <2>6
    <3> QED
      BY <3>3, <3>4 DEF Spared
  <2> QED
    BY <2>4, <2>5, <2>6
<1> QED
    BY <1>1, <1>2, Writers

\* A pair stored is newer than every look taken before it.
LEMMA MakersStep ==
    ASSUME TypeInv, TypeInv', MakersInv, Next PROVE MakersInv'
<1>1. \A x \in Lanes : Progress(x, op'[x])
    BY StepProgress
<1>2. made \in Nat /\ (\A u \in Users : pairs[u].pub \in Nat) /\ \A x \in Lanes : User(x) \in Users
    BY LaneUsers DEF TypeInv, RowsInv, PairRow
<1>3. ASSUME NEW x \in Lanes, op'[x] # Idle, op'[x].at = "generate", ~ op'[x].failed
      PROVE  /\ op'[x].seen \in Nat /\ op'[x].seen <= made
             /\ pairs[User(x)].pub = 0 \/ pairs[User(x)].pub > op'[x].seen
  <2>1. op'[x] \in Op
    BY <1>3 DEF TypeInv, DevicesInv
  <2>2. op'[x].seen \in Nat
    BY <2>1 DEF Op
  <2>3. CASE /\ op[x] # Idle /\ op'[x].at = op[x].at /\ op'[x].failed = op[x].failed /\ op'[x].seen = op[x].seen
    <3>1. Looked(op[x], pairs[User(x)].pub)
      BY DEF MakersInv
    <3> QED
      BY <1>3, <2>2, <2>3, <3>1 DEF Looked
  <2>4. CASE pairs[User(x)].pub = 0 /\ op'[x].seen = made
    BY <1>2, <2>2, <2>4
  <2>5. \/ /\ op[x] # Idle /\ op'[x].at = op[x].at /\ op'[x].failed = op[x].failed /\ op'[x].seen = op[x].seen
        \/ pairs[User(x)].pub = 0 /\ op'[x].seen = made
    BY <1>1, <1>3 DEF Progress
  <2> QED
    BY <2>3, <2>4, <2>5
<1>4. CASE UNCHANGED <<pairs, made, replaced>>
  <2>1. ASSUME NEW x \in Lanes PROVE Looked(op[x], pairs[User(x)].pub)'
    <3>1. User(x)' = User(x)
      BY DEF User
    <3> QED
      BY <1>3, <1>4, <3>1 DEF Looked
  <2> QED
    BY <1>4, <2>1 DEF MakersInv
<1>5. ASSUME NEW c \in Lanes, EnsureEmergencyKeys(c) PROVE MakersInv'
  <2>1. /\ pairs' = [pairs EXCEPT ![User(c)] = [pub |-> made + 1, under |-> op[c].says]] /\ made' = made + 1
    BY <1>5 DEF EnsureEmergencyKeys
  <2>2. \A u \in Users : pairs'[u] = IF u = User(c) THEN [pub |-> made + 1, under |-> op[c].says] ELSE pairs[u]
    BY <2>1 DEF TypeInv, RowsInv
  <2>3. \A u \in Users : pairs'[u].pub = IF u = User(c) THEN made + 1 ELSE pairs[u].pub
    BY <2>2
  <2>4. \A u \in Users : pairs'[u].pub <= made'
    BY <1>2, <2>1, <2>3 DEF MakersInv
  <2>5. ASSUME NEW x \in Lanes PROVE Looked(op[x], pairs[User(x)].pub)'
    <3> SUFFICES ASSUME op'[x] # Idle, op'[x].at = "generate", ~ op'[x].failed
                 PROVE  op'[x].seen <= made' /\ (pairs'[User(x)].pub = 0 \/ pairs'[User(x)].pub > op'[x].seen)
      BY DEF Looked, User
    <3>1. /\ op'[x].seen \in Nat /\ op'[x].seen <= made
          /\ pairs[User(x)].pub = 0 \/ pairs[User(x)].pub > op'[x].seen
      BY <1>3
    <3>2. pairs'[User(x)].pub = IF User(x) = User(c) THEN made + 1 ELSE pairs[User(x)].pub
      BY <1>2, <2>3
    <3> QED
      BY <1>2, <2>1, <3>1, <3>2
  <2> QED
    BY <2>4, <2>5 DEF MakersInv
<1> QED
    BY <1>4, <1>5, Writers

LEMMA SealsStep ==
    ASSUME TypeInv, MakersInv, SealsInv, Next, TypeInv' PROVE SealsInv'
<1> DEFINE After(u, pub) == Spared(u, pub, pairs', replaced')
<1>1. ASSUME NEW u \in Users, NEW pub, Kept(u, pub) PROVE After(u, pub)
    BY <1>1, KeptStep
<1> HIDE DEF After
<1>2. \A u \in Users : Kept(u, pairs[u].pub)
    BY DEF Kept, Spared
<1>3. ASSUME NEW x \in Lanes PROVE OpKept(op[x])'
  <2> DEFINE o == op'[x]
  <2> SUFFICES ASSUME o # Idle, o.do \in {"share", "sendBlind", "seed"}, o.at = "send" PROVE After(o.to, o.pub)
    BY DEF OpKept, Kept, After
  <2>1. OpShape(x, o, key')
    BY DEF TypeInv, DevicesInv
  <2>2. o.to \in Users
    BY <2>1, TrustedUsers DEF OpShape
  <2>3. Progress(x, o)
    BY StepProgress
  <2>4. CASE o.pub = pairs[o.to].pub
    BY <1>1, <1>2, <2>2, <2>4
  <2>5. CASE op[x] # Idle /\ o.do = op[x].do /\ o.at = op[x].at /\ o.to = op[x].to /\ o.pub = op[x].pub
    <3>1. OpKept(op[x])
      BY DEF SealsInv
    <3>2. Kept(o.to, o.pub)
      BY <2>5, <3>1 DEF OpKept
    <3> QED
      BY <1>1, <2>2, <3>2
  <2> QED
    BY <2>3, <2>4, <2>5 DEF Progress
<1>4. ASSUME NEW t \in tasks' PROVE TaskKept(t)'
  <2> SUFFICES ASSUME t.at = "send" PROVE After(t.to, t.pub)
    BY DEF TaskKept, Kept, After
  <2>1. t.to \in Users
    BY DEF TypeInv, TasksInv, TaskShape
  <2>2. CASE t \in tasks
    <3>1. Kept(t.to, t.pub)
      BY <2>2 DEF SealsInv, TaskKept
    <3> QED
      BY <1>1, <2>1, <3>1
  <2>3. CASE t.pub = pairs[t.to].pub
    BY <1>1, <1>2, <2>1, <2>3
  <2> QED
    BY <2>2, <2>3, TaskProgress
<1>5. ASSUME NEW e \in Entries, NEW u \in Users PROVE After(u, shares'[e][u].pub)
  <2>1. Kept(u, shares[e][u].pub) /\ Kept(u, 0)
    BY DEF SealsInv, RowsKept, Kept, Spared
  <2>2. ASSUME NEW f \in Entries, NEW v \in Users, NEW pub, NEW says, ShareRow(f, v, pub, says), Kept(v, pub)
        PROVE  Kept(u, shares'[e][u].pub)
    <3>1. shares \in [Entries -> [Users -> ShareView]]
      BY DEF TypeInv, RowsInv
    <3>2. shares'[e][u].pub = IF e = f /\ u = v THEN pub ELSE shares[e][u].pub
      <4>1. CASE shares[f][v].id # 0
        <5>1. shares' = [shares EXCEPT ![f] = [shares[f] EXCEPT ![v] = [shares[f][v] EXCEPT !.pub = pub, !.says = says]]]
          BY <2>2, <3>1, <4>1 DEF ShareRow
        <5>2. shares[f][v] \in ShareView
          BY <3>1
        <5>3. [shares[f][v] EXCEPT !.pub = pub, !.says = says].pub = pub
          BY <5>2 DEF ShareView
        <5> QED
          BY <3>1, <5>1, <5>3
      <4>2. CASE shares[f][v].id = 0
        <5>1. shares' = [shares EXCEPT ![f] = [shares[f] EXCEPT ![v] = [id |-> ids + 1, pub |-> pub, says |-> says]]]
          BY <2>2, <3>1, <4>2 DEF ShareRow
        <5> QED
          BY <3>1, <5>1
      <4> QED
        BY <4>1, <4>2
    <3> QED
      BY <2>1, <2>2, <3>2
  <2>3. Kept(u, shares'[e][u].pub)
    <3>1. CASE UNCHANGED shares
      BY <2>1, <3>1
    <3>2. ASSUME NEW c \in Lanes, ShareEntry(c) PROVE Kept(u, shares'[e][u].pub)
      <4>1. op[c] # Idle /\ op[c].do = "share" /\ op[c].at = "send" /\ ShareRow(op[c].on, op[c].to, op[c].pub, op[c].says)
        BY <3>2, AtIsBusy DEF ShareEntry
      <4>2. op[c].on \in Entries /\ op[c].to \in Users
        BY <4>1, BusyShape DEF OpShape
      <4>3. Kept(op[c].to, op[c].pub)
        BY <4>1 DEF SealsInv, OpKept
      <4> QED
        BY <2>2, <4>1, <4>2, <4>3
    <3>3. ASSUME NEW c \in Lanes, RevokeShare(c) PROVE Kept(u, shares'[e][u].pub)
      <4>1. shares'[e][u] = shares[e][u] \/ shares'[e][u] = NoShare
        BY <3>3 DEF RevokeShare, DropShare, TypeInv, RowsInv
      <4> QED
        BY <2>1, <4>1 DEF NoShare
    <3>4. ASSUME NEW t \in tasks, TaskSendsShare(t) PROVE Kept(u, shares'[e][u].pub)
      <4>1. t.on \in Entries /\ t.at = "send" /\ ShareRow(t.on, t.to, t.pub, t.says)
        BY <3>4 DEF TaskSendsShare
      <4>2. t.to \in Users /\ Kept(t.to, t.pub)
        BY <4>1 DEF TypeInv, TasksInv, TaskShape, SealsInv, TaskKept
      <4> QED
        BY <2>2, <4>1, <4>2
    <3> QED
      BY <3>1, <3>2, <3>3, <3>4, Writers
  <2> QED
    BY <1>1, <2>3
<1>6. ASSUME NEW b \in Blinds, blinds'[b].st = "live" PROVE After(blinds'[b].to, blinds'[b].pub)
  <2>1. blinds \in [Blinds -> BlindRow]
    BY DEF TypeInv, RowsInv
  <2>2. blinds'[b].to \in Users
    BY <1>6 DEF TypeInv, RowsInv
  <2>3. ASSUME blinds[b].st = "live", blinds'[b].to = blinds[b].to, blinds'[b].pub = blinds[b].pub
        PROVE  Kept(blinds'[b].to, blinds'[b].pub)
    BY <2>3 DEF SealsInv, RowsKept
  <2>4. ASSUME UNCHANGED <<blinds, given>> PROVE Kept(blinds'[b].to, blinds'[b].pub)
    <3>1. blinds'[b] = blinds[b]
      BY <2>4
    <3>2. blinds[b].st = "live"
      BY <1>6, <3>1
    <3> QED
      BY <2>3, <3>1, <3>2
  <2>5. ASSUME NEW c \in Lanes, SendBlindShare(c) PROVE Kept(blinds'[b].to, blinds'[b].pub)
    <3>1. op[c] # Idle /\ op[c].do = "sendBlind" /\ op[c].at = "send"
      BY <2>5, AtIsBusy DEF SendBlindShare
    <3>2. Kept(op[c].to, op[c].pub)
      BY <3>1 DEF SealsInv, OpKept
    <3>3. \/ blinds'[b] = blinds[b]
          \/ blinds'[b].to = op[c].to /\ blinds'[b].pub = op[c].pub
      BY <2>1, <2>5 DEF SendBlindShare
    <3> QED
      BY <1>6, <2>3, <3>2, <3>3
  <2>6. ASSUME NEW c \in Lanes, UnlockForOneTimeUse(c) PROVE Kept(blinds'[b].to, blinds'[b].pub)
    <3>1. blinds' = [blinds EXCEPT ![op[c].on].left = @ - 1]
      BY <2>6 DEF UnlockForOneTimeUse, ConsumeUse
    <3>2. blinds'[b].st = blinds[b].st /\ blinds'[b].to = blinds[b].to /\ blinds'[b].pub = blinds[b].pub
      BY <2>1, <3>1 DEF BlindRow
    <3> QED
      BY <1>6, <2>3, <3>2
  <2>7. ASSUME NEW c \in Lanes, RevokeBlindShare(c) PROVE Kept(blinds'[b].to, blinds'[b].pub)
    <3>1. blinds' = [blinds EXCEPT ![op[c].on].st = "gone"]
      BY <2>7 DEF RevokeBlindShare
    <3>2. blinds'[b] = blinds[b]
      BY <1>6, <2>1, <3>1 DEF BlindRow
    <3> QED
      BY <1>6, <2>3, <3>2
  <2>8. Kept(blinds'[b].to, blinds'[b].pub)
    BY <2>4, <2>5, <2>6, <2>7, Writers
  <2> QED
    BY <1>1, <2>2, <2>8
<1>7. ASSUME NEW p \in Trusted PROVE After(p[2], seeds'[p].pub)
  <2>1. p[2] \in Users /\ Kept(p[2], seeds[p].pub)
    BY TrustedUsers DEF SealsInv, RowsKept
  <2>2. ASSUME NEW q \in Trusted, NEW pub, NEW of, SeedRow(q, pub, of), Kept(q[2], pub)
        PROVE  Kept(p[2], seeds'[p].pub)
    <3>1. seeds'[p] = IF p = q THEN [pub |-> pub, of |-> of] ELSE seeds[p]
      BY <2>2 DEF SeedRow, TypeInv, RowsInv
    <3> QED
      BY <2>1, <2>2, <3>1
  <2>3. ASSUME NEW c \in Lanes, SeedContactKey(c) PROVE Kept(p[2], seeds'[p].pub)
    <3>1. op[c] # Idle /\ op[c].do = "seed" /\ op[c].at = "send"
      BY <2>3, AtIsBusy DEF SeedContactKey
    <3>2. op[c].on \in Trusted /\ op[c].to = op[c].on[2]
      BY <3>1, BusyShape DEF OpShape
    <3>3. Kept(op[c].to, op[c].pub)
      BY <3>1 DEF SealsInv, OpKept
    <3> QED
      BY <2>2, <2>3, <3>2, <3>3 DEF SeedContactKey
  <2>4. ASSUME NEW t \in tasks, TaskSendsSeed(t) PROVE Kept(p[2], seeds'[p].pub)
    <3>1. t.on \in Trusted /\ t.at = "send" /\ SeedRow(t.on, t.pub, t.says)
      BY <2>4 DEF TaskSendsSeed
    <3>2. t.to = t.on[2] /\ Kept(t.to, t.pub)
      BY <3>1 DEF TypeInv, TasksInv, TaskShape, SealsInv, TaskKept
    <3> QED
      BY <2>2, <3>1, <3>2
  <2>5. Kept(p[2], seeds'[p].pub)
    BY <2>1, <2>3, <2>4, Writers
  <2> QED
    BY <1>1, <2>1, <2>5
<1>8. RowsKept'
    BY <1>5, <1>6, <1>7 DEF RowsKept, Kept, After
<1> QED
    BY <1>3, <1>4, <1>8 DEF SealsInv

\* A copy its recipient can no longer open was sealed for a pair since written
\* over, by a handler whose look for one failed, or one stored while it was
\* between its look and its write: the invariant says so of the copies on the
\* server, of those a handler or a request in the background is about to
\* send, and of each handler about to generate a pair, whatever lanes of
\* whatever devices they are in.
THEOREM LossIsCaused == Spec => []LossHasCause
<1>1. Init => SealsInv /\ MakersInv
  <2> SUFFICES ASSUME Init PROVE SealsInv /\ MakersInv
    OBVIOUS
  <2>1. RowsKept
    BY TrustedUsers DEF Init, RowsKept, Kept, Spared, NoShare, NoBlind
  <2>2. MakersInv
    BY LaneUsers DEF Init, MakersInv, Looked, NoPair
  <2> QED
    BY <2>1, <2>2 DEF Init, SealsInv, OpKept
<1>2. TypeInv /\ TypeInv' /\ MakersInv /\ SealsInv /\ [Next]_vars => MakersInv' /\ SealsInv'
  <2> SUFFICES ASSUME TypeInv, TypeInv', MakersInv, SealsInv, [Next]_vars PROVE MakersInv' /\ SealsInv'
    OBVIOUS
  <2>1. CASE Next
    BY <2>1, MakersStep, SealsStep
  <2>2. CASE UNCHANGED vars
    <3>1. UNCHANGED <<op, tasks, shares, blinds, seeds, pairs, made, replaced>>
      BY <2>2 DEF vars, rows, clients
    <3>2. MakersInv'
      BY <3>1 DEF MakersInv, Looked, User
    <3>3. RowsKept'
      BY <3>1 DEF SealsInv, RowsKept, Kept
    <3>4. \A c \in Lanes : OpKept(op[c])'
      BY <3>1 DEF SealsInv, OpKept, Kept
    <3>5. \A t \in tasks' : TaskKept(t)'
      BY <3>1 DEF SealsInv, TaskKept, Kept
    <3> QED
      BY <3>1, <3>2, <3>3, <3>4, <3>5 DEF SealsInv
  <2> QED
    BY <2>1, <2>2
<1>3. SealsInv => LossHasCause
  <2> SUFFICES ASSUME SealsInv PROVE LossHasCause
    OBVIOUS
  <2>1. ASSUME NEW u, NEW pub, Kept(u, pub)
        PROVE  Unreadable(u, pub) => \E why \in {"read failed", "crossed"} : <<u, pub, why>> \in replaced
    BY <2>1 DEF Kept, Spared, Unreadable
  <2> QED
    BY <2>1 DEF SealsInv, RowsKept, LossHasCause
<1> QED
  BY <1>1, <1>2, <1>3, TypeInvariance, PTL DEF Spec
=============================================================================
