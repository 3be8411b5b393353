---------------------------- MODULE PopupProofs ----------------------------
(***************************************************************************)
(* Proofs about Popup: the types, that a shared attempt and the calls that *)
(* wait for it come and go together, that a session which was left or      *)
(* locked comes back only through a sign-in or a call that read it open,   *)
(* and that it is dropped without a word only for a cause.                 *)
(***************************************************************************)
EXTENDS Popup, TLAPS

\* A call under way read an open session, or will be refused; an attempt has somebody who
\* waits for it, at first the call that began it, and whoever waits has an attempt.
SharesIn(w) ==
    /\ \A c \in Calls : ~ At(w, c, "idle") /\ ~ At(w, c, "over") => calls[w][c].open
    /\ flight[w].at = "reads" => \E c \in Calls : At(w, c, "waits") /\ calls[w][c].tok = flight[w].tok
    /\ flight[w].at # "none" <=> \E c \in Calls : At(w, c, "waits")
    /\ flight[w].at = "none" => flight[w] = NoFlight

Shares == \A w \in Windows : SharesIn(w)

Actors(w) ==
    \/ Closes(w) \/ App(w) \/ LoginScreen(w) \/ TfaScreen(w) \/ Logout(w) \/ LoggedOut(w)
    \/ ReadStored(w) \/ Refresh(w) \/ RefreshFails(w) \/ Persist(w)

Callers(w, c) ==
    \/ GetActiveSession(w, c) \/ ClearOver(w, c) \/ WriteStored(w, c) \/ AuthorizedRequest(w, c)
    \/ RefreshAccessTokenOnce(w, c) \/ TriesAgain(w, c) \/ ClearStored(w, c)

LEMMA NextCases ==
    ASSUME Next
    PROVE  \/ \E n \in Pairs : Expires(n)
           \/ Revoked \/ Lapses \/ OpenPopup
           \/ \E w \in Windows : Actors(w)
           \/ \E w \in Windows, c \in Calls : Callers(w, c)
BY DEF Next, Actors, Callers

LEMMA RecordTypes ==
    /\ NoCall \in CallRecords /\ NoFlight \in Attempts
    /\ NoStored \in [tok : Pairs, late : BOOLEAN] /\ 0 \in Pairs
BY PopupAssumption DEF NoCall, NoFlight, NoStored, CallRecords, Attempts, Pairs

\* A window that shuts forgets its calls and its attempt.
LEMMA ShutTypes ==
    ASSUME TypeOK, NEW w \in Windows, Shut(w)
    PROVE  /\ shows' \in [Windows -> Screens] /\ calls' \in [Windows -> [Calls -> CallRecords]]
           /\ flight' \in [Windows -> Attempts]
<1>1. shows' \in [Windows -> Screens]
  BY DEF TypeOK, Shut, Screens
<1>2. [c \in Calls |-> NoCall] \in [Calls -> CallRecords]
  BY RecordTypes
<1>3. calls' \in [Windows -> [Calls -> CallRecords]]
  BY <1>2 DEF TypeOK, Shut
<1>4. flight' \in [Windows -> Attempts]
  BY RecordTypes DEF TypeOK, Shut
<1> QED
  BY <1>1, <1>3, <1>4

LEMMA StandaloneTypes ==
    ASSUME TypeOK, OpenStandaloneAndClose
    PROVE  /\ shows' \in [Windows -> Screens] /\ calls' \in [Windows -> [Calls -> CallRecords]]
           /\ flight' \in [Windows -> Attempts]
<1>1. shows' \in [Windows -> Screens]
  BY DEF TypeOK, OpenStandaloneAndClose, Screens
<1>2. [c \in Calls |-> NoCall] \in [Calls -> CallRecords]
  BY RecordTypes
<1>3. calls' \in [Windows -> [Calls -> CallRecords]]
  BY <1>2 DEF TypeOK, OpenStandaloneAndClose
<1>4. flight' \in [Windows -> Attempts]
  BY RecordTypes DEF TypeOK, OpenStandaloneAndClose
<1> QED
  BY <1>1, <1>3, <1>4

LEMMA MovesTypes ==
    ASSUME TypeOK, NEW w \in Windows, NEW c \in Calls, NEW call \in CallRecords, Moves(w, c, call)
    PROVE  calls' \in [Windows -> [Calls -> CallRecords]]
<1>1. [calls[w] EXCEPT ![c] = call] \in [Calls -> CallRecords]
  BY DEF TypeOK
<1> QED
  BY <1>1 DEF TypeOK, Moves

LEMMA CallRecordTypes ==
    ASSUME NEW call \in CallRecords, NEW at \in {"idle", "over", "read", "sent", "failed", "waits", "again", "drops"},
           NEW tok \in Pairs
    PROVE  /\ [call EXCEPT !.at = at] \in CallRecords
           /\ [call EXCEPT !.at = at, !.tok = tok] \in CallRecords
           /\ \A open \in BOOLEAN : [at |-> at, tok |-> tok, open |-> open] \in CallRecords
           /\ call.tok \in Pairs
BY DEF CallRecords

\* What the calls of a window become when their attempt ends.
LEMMA DropsIs ==
    ASSUME TypeOK, NEW w \in Windows, Drops(w)
    PROVE  /\ flight' = [flight EXCEPT ![w] = NoFlight] /\ \A v \in Windows \ {w} : calls'[v] = calls[v]
           /\ \A c \in Calls : calls'[w][c] = IF At(w, c, "waits") THEN [calls[w][c] EXCEPT !.at = "drops"] ELSE calls[w][c]
<1> DEFINE ended == [c \in Calls |-> IF At(w, c, "waits") THEN [calls[w][c] EXCEPT !.at = "drops"] ELSE calls[w][c]]
<1>1. calls' = [calls EXCEPT ![w] = ended] /\ flight' = [flight EXCEPT ![w] = NoFlight]
  BY DEF Drops, Ends
<1>2. \A c \in Calls : ended[c] = IF At(w, c, "waits") THEN [calls[w][c] EXCEPT !.at = "drops"] ELSE calls[w][c]
  OBVIOUS
<1> HIDE DEF ended
<1>3. calls'[w] = ended /\ \A v \in Windows \ {w} : calls'[v] = calls[v]
  BY <1>1 DEF TypeOK
<1> QED
  BY <1>1, <1>2, <1>3

LEMMA TriesIs ==
    ASSUME TypeOK, NEW w \in Windows, NEW tok, Tries(w, tok)
    PROVE  /\ flight' = [flight EXCEPT ![w] = NoFlight] /\ \A v \in Windows \ {w} : calls'[v] = calls[v]
           /\ \A c \in Calls :
                calls'[w][c] = IF At(w, c, "waits") THEN [calls[w][c] EXCEPT !.at = "again", !.tok = tok] ELSE calls[w][c]
<1> DEFINE ended == [c \in Calls |->
             IF At(w, c, "waits") THEN [calls[w][c] EXCEPT !.at = "again", !.tok = tok] ELSE calls[w][c]]
<1>1. calls' = [calls EXCEPT ![w] = ended] /\ flight' = [flight EXCEPT ![w] = NoFlight]
  BY DEF Tries, Ends
<1>2. \A c \in Calls :
        ended[c] = IF At(w, c, "waits") THEN [calls[w][c] EXCEPT !.at = "again", !.tok = tok] ELSE calls[w][c]
  OBVIOUS
<1> HIDE DEF ended
<1>3. calls'[w] = ended /\ \A v \in Windows \ {w} : calls'[v] = calls[v]
  BY <1>1 DEF TypeOK
<1> QED
  BY <1>1, <1>2, <1>3

LEMMA EndsTypes ==
    ASSUME TypeOK, NEW w \in Windows, NEW tok \in Pairs, Drops(w) \/ Tries(w, tok)
    PROVE  calls' \in [Windows -> [Calls -> CallRecords]] /\ flight' \in [Windows -> Attempts]
<1>1. \A c \in Calls : calls[w][c] \in CallRecords
  BY DEF TypeOK
<1>2. CASE Drops(w)
  <2>1. [c \in Calls |-> IF At(w, c, "waits") THEN [calls[w][c] EXCEPT !.at = "drops"] ELSE calls[w][c]] \in [Calls -> CallRecords]
    BY <1>1, CallRecordTypes, RecordTypes
  <2> QED
    BY <1>2, <2>1, RecordTypes DEF TypeOK, Drops, Ends
<1>3. CASE Tries(w, tok)
  <2>1. [c \in Calls |-> IF At(w, c, "waits") THEN [calls[w][c] EXCEPT !.at = "again", !.tok = tok] ELSE calls[w][c]] \in [Calls -> CallRecords]
    BY <1>1, CallRecordTypes
  <2> QED
    BY <1>3, <2>1, RecordTypes DEF TypeOK, Tries, Ends
<1> QED
  BY <1>2, <1>3

LEMMA MintTypes ==
    ASSUME TypeOK, Mint
    PROVE  live' \in Pairs /\ good' \subseteq Pairs /\ minted' \in Pairs /\ minted + 1 \in Pairs
BY PopupAssumption DEF TypeOK, Mint, Pairs

LEMMA PersistTypes ==
    ASSUME TypeOK, PersistSession
    PROVE  /\ stored' \in [tok : Pairs, late : BOOLEAN] /\ live' \in Pairs
           /\ good' \subseteq Pairs /\ minted' \in Pairs
<1>1. Mint /\ stored' = [tok |-> minted + 1, late |-> FALSE]
  BY DEF PersistSession
<1> QED
  BY <1>1, MintTypes

LEMMA FaultTypes ==
    ASSUME TypeOK, Fault
    PROVE  faults' \in 0..MaxFaults
BY PopupAssumption DEF TypeOK, Fault

LEMMA CrossedTypes ==
    ASSUME NEW P \in BOOLEAN, crossed' = (crossed \/ P), TypeOK
    PROVE  crossed' \in BOOLEAN
BY DEF TypeOK

\* Every variable keeps its type.
THEOREM TypeCorrect == Spec => []TypeOK
<1>1. Init => TypeOK
  <2> SUFFICES ASSUME Init PROVE TypeOK
    OBVIOUS
  <2>1. [c \in Calls |-> NoCall] \in [Calls -> CallRecords]
    BY RecordTypes
  <2>2. calls \in [Windows -> [Calls -> CallRecords]]
    BY <2>1 DEF Init
  <2>3. flight \in [Windows -> Attempts] /\ stored \in [tok : Pairs, late : BOOLEAN]
    BY RecordTypes DEF Init
  <2>4. shows \in [Windows -> Screens]
    BY DEF Init, Screens
  <2>5. /\ live \in Pairs /\ good \subseteq Pairs /\ minted \in Pairs /\ faults \in 0..MaxFaults
        /\ mode \in Modes
    BY PopupAssumption DEF Init, Pairs
  <2>6. pending \in BOOLEAN /\ trusted \in BOOLEAN /\ crossed \in BOOLEAN
    BY DEF Init
  <2> QED
    BY <2>2, <2>3, <2>4, <2>5, <2>6 DEF TypeOK
<1>2. ASSUME TypeOK, [Next]_vars PROVE TypeOK'
  <2>0. CASE UNCHANGED vars
    BY <1>2, <2>0 DEF TypeOK, vars
  <2>1. ASSUME NEW n \in Pairs, Expires(n) PROVE TypeOK'
    BY <1>2, <2>1 DEF TypeOK, Expires, windowVars
  <2>2. CASE Revoked
    BY <1>2, <2>2, PopupAssumption DEF TypeOK, Revoked, windowVars, Pairs
  <2>3. CASE Lapses
    BY <1>2, <2>3 DEF TypeOK, Lapses, windowVars, serverVars
  <2>4. CASE OpenPopup
    BY <1>2, <2>4 DEF TypeOK, OpenPopup, serverVars, Screens
  <2>5. ASSUME NEW w \in Windows, Actors(w) PROVE TypeOK'
    <3>1. CASE Closes(w)
      BY <1>2, <3>1, ShutTypes DEF TypeOK, Closes, serverVars
    <3>2. CASE App(w)
      <4>1. shows' \in [Windows -> Screens] /\ calls' \in [Windows -> [Calls -> CallRecords]] /\ flight' \in [Windows -> Attempts]
        BY <1>2, <3>2, StandaloneTypes DEF TypeOK, App, Screens
      <4>2. stored' \in [tok : Pairs, late : BOOLEAN]
        BY <1>2, <3>2, RecordTypes DEF TypeOK, App
      <4>3. crossed' \in BOOLEAN
        BY <1>2, <3>2, Zenon DEF TypeOK, App
      <4> QED
        BY <1>2, <3>2, <4>1, <4>2, <4>3 DEF TypeOK, App, serverVars
    <3>3. CASE LoginScreen(w)
      <4>1. shows' \in [Windows -> Screens] /\ calls' \in [Windows -> [Calls -> CallRecords]] /\ flight' \in [Windows -> Attempts]
        BY <1>2, <3>3, StandaloneTypes DEF TypeOK, LoginScreen, Screens
      <4>2. stored' \in [tok : Pairs, late : BOOLEAN] /\ live' \in Pairs /\ good' \subseteq Pairs /\ minted' \in Pairs
        BY <1>2, <3>3, PersistTypes DEF TypeOK, LoginScreen, Login, serverVars
      <4>3. pending' \in BOOLEAN /\ trusted' \in BOOLEAN
        BY <1>2, <3>3 DEF TypeOK, LoginScreen, Login, serverVars
      <4>4. crossed' \in BOOLEAN
        BY <1>2, <3>3, Zenon DEF TypeOK, LoginScreen, Login, PersistSession
      <4> QED
        BY <1>2, <3>3, <4>1, <4>2, <4>3, <4>4 DEF TypeOK, LoginScreen
    <3>4. CASE TfaScreen(w)
      <4>1. shows' \in [Windows -> Screens] /\ calls' \in [Windows -> [Calls -> CallRecords]] /\ flight' \in [Windows -> Attempts]
        BY <1>2, <3>4, ShutTypes DEF TypeOK, TfaScreen, Screens
      <4>2. stored' \in [tok : Pairs, late : BOOLEAN] /\ live' \in Pairs /\ good' \subseteq Pairs /\ minted' \in Pairs
        BY <1>2, <3>4, PersistTypes DEF TypeOK, TfaScreen, VerifyDeviceAndLogin, serverVars
      <4>3. trusted' \in BOOLEAN
        BY <1>2, <3>4 DEF TypeOK, TfaScreen, VerifyDeviceAndLogin, serverVars
      <4>4. crossed' \in BOOLEAN
        BY <1>2, <3>4, Zenon DEF TypeOK, TfaScreen, VerifyDeviceAndLogin, PersistSession
      <4> QED
        BY <1>2, <3>4, <4>1, <4>2, <4>3, <4>4 DEF TypeOK, TfaScreen
    <3>5. CASE Logout(w)
      <4>1. shows' \in [Windows -> Screens]
        BY <1>2, <3>5 DEF TypeOK, Logout, Screens
      <4>2. live' \in Pairs
        BY <1>2, <3>5, RecordTypes DEF TypeOK, Logout
      <4>3. faults' \in 0..MaxFaults
        BY <1>2, <3>5, FaultTypes DEF TypeOK, Logout
      <4> QED
        BY <1>2, <3>5, <4>1, <4>2, <4>3 DEF TypeOK, Logout
    <3>6. CASE LoggedOut(w)
      <4>1. shows' \in [Windows -> Screens]
        BY <1>2, <3>6 DEF TypeOK, LoggedOut, Screens
      <4>2. stored' \in [tok : Pairs, late : BOOLEAN]
        BY <1>2, <3>6, RecordTypes DEF LoggedOut
      <4>3. crossed' \in BOOLEAN
        BY <1>2, <3>6, Zenon DEF TypeOK, LoggedOut
      <4> QED
        BY <1>2, <3>6, <4>1, <4>2, <4>3 DEF TypeOK, LoggedOut, serverVars
    <3>7. CASE Refresh(w)
      <4>1. flight' \in [Windows -> Attempts]
        BY <1>2, <3>7, MintTypes DEF TypeOK, Refresh, Attempts
      <4>2. live' \in Pairs /\ good' \subseteq Pairs /\ minted' \in Pairs
        BY <1>2, <3>7, MintTypes DEF Refresh
      <4> QED
        BY <1>2, <3>7, <4>1, <4>2 DEF TypeOK, Refresh
    <3>8. CASE RefreshFails(w)
      <4>1. calls' \in [Windows -> [Calls -> CallRecords]] /\ flight' \in [Windows -> Attempts]
        BY <1>2, <3>8, EndsTypes, RecordTypes DEF RefreshFails
      <4>2. faults' \in 0..MaxFaults
        BY <1>2, <3>8, FaultTypes DEF TypeOK, RefreshFails
      <4> QED
        BY <1>2, <3>8, <4>1, <4>2 DEF TypeOK, RefreshFails, serverVars
    <3>9. CASE Persist(w)
      <4>1. flight[w].tok \in Pairs
        BY <1>2 DEF TypeOK, Attempts
      <4>2. calls' \in [Windows -> [Calls -> CallRecords]] /\ flight' \in [Windows -> Attempts]
        BY <1>2, <3>9, <4>1, EndsTypes DEF Persist
      <4>3. stored' \in [tok : Pairs, late : BOOLEAN]
        BY <3>9, <4>1 DEF Persist
      <4> QED
        BY <1>2, <3>9, <4>2, <4>3 DEF TypeOK, Persist, serverVars
    <3>10. CASE ReadStored(w)
      <4>1. stored.tok \in Pairs /\ flight[w] \in Attempts
        BY <1>2 DEF TypeOK
      <4>2. [flight[w] EXCEPT !.at = "sent"] \in Attempts
        BY <4>1 DEF Attempts
      <4>3. calls' \in [Windows -> [Calls -> CallRecords]] /\ flight' \in [Windows -> Attempts]
        BY <1>2, <3>10, <4>1, <4>2, EndsTypes DEF TypeOK, ReadStored
      <4>4. crossed' \in BOOLEAN
        BY <1>2, <3>10, Zenon DEF TypeOK, ReadStored
      <4> QED
        BY <1>2, <3>10, <4>3, <4>4 DEF TypeOK, ReadStored, serverVars
    <3> QED
      BY <2>5, <3>1, <3>2, <3>3, <3>4, <3>5, <3>6, <3>7, <3>8, <3>9, <3>10 DEF Actors
  <2>6. ASSUME NEW w \in Windows, NEW c \in Calls, Callers(w, c) PROVE TypeOK'
    <3>0. calls[w][c] \in CallRecords /\ stored.tok \in Pairs
      BY <1>2 DEF TypeOK
    <3>1. CASE GetActiveSession(w, c)
      <4>1. calls' \in [Windows -> [Calls -> CallRecords]]
        <5>1. stored.late \in BOOLEAN
          BY <1>2 DEF TypeOK
        <5>2. [at |-> IF stored.late THEN "over" ELSE "read", tok |-> stored.tok, open |-> ~ stored.late] \in CallRecords
          BY <3>0, <5>1 DEF CallRecords
        <5> QED
          BY <1>2, <3>1, <5>2, MovesTypes DEF GetActiveSession
      <4> QED
        BY <1>2, <3>1, <4>1 DEF TypeOK, GetActiveSession, serverVars
    <3>7. CASE ClearOver(w, c)
      <4>1. calls' \in [Windows -> [Calls -> CallRecords]]
        BY <1>2, <3>7, MovesTypes, RecordTypes DEF ClearOver
      <4>2. stored' \in [tok : Pairs, late : BOOLEAN]
        BY <3>7, RecordTypes DEF ClearOver
      <4>3. crossed' \in BOOLEAN
        BY <1>2, <3>7, Zenon DEF TypeOK, ClearOver
      <4> QED
        BY <1>2, <3>7, <4>1, <4>2, <4>3 DEF TypeOK, ClearOver, serverVars
    <3>2. CASE WriteStored(w, c)
      <4>1. calls' \in [Windows -> [Calls -> CallRecords]]
        BY <1>2, <3>2, <3>0, MovesTypes, CallRecordTypes DEF WriteStored
      <4>2. stored' \in [tok : Pairs, late : BOOLEAN]
        BY <1>2, <3>2, <3>0, CallRecordTypes DEF WriteStored
      <4>3. crossed' \in BOOLEAN
        BY <1>2, <3>2, Zenon DEF TypeOK, WriteStored
      <4> QED
        BY <1>2, <3>2, <4>1, <4>2, <4>3 DEF TypeOK, WriteStored, serverVars
    <3>3. CASE AuthorizedRequest(w, c)
      <4>1. calls' \in [Windows -> [Calls -> CallRecords]]
        BY <1>2, <3>3, <3>0, MovesTypes, CallRecordTypes, RecordTypes DEF AuthorizedRequest
      <4> QED
        BY <1>2, <3>3, <4>1 DEF TypeOK, AuthorizedRequest, serverVars
    <3>4. CASE RefreshAccessTokenOnce(w, c)
      <4>1. calls' \in [Windows -> [Calls -> CallRecords]]
        BY <1>2, <3>4, <3>0, MovesTypes, CallRecordTypes DEF RefreshAccessTokenOnce
      <4>2. [at |-> "reads", tok |-> calls[w][c].tok] \in Attempts
        BY <3>0, CallRecordTypes, RecordTypes DEF Attempts
      <4>3. flight' \in [Windows -> Attempts]
        BY <1>2, <3>4, <4>2 DEF TypeOK, RefreshAccessTokenOnce
      <4> QED
        BY <1>2, <3>4, <4>1, <4>3 DEF TypeOK, RefreshAccessTokenOnce, serverVars
    <3>5. CASE TriesAgain(w, c)
      <4>1. calls' \in [Windows -> [Calls -> CallRecords]]
        BY <1>2, <3>5, <3>0, MovesTypes, CallRecordTypes, RecordTypes DEF TriesAgain
      <4>2. faults' \in 0..MaxFaults
        BY <1>2, <3>5, FaultTypes DEF TypeOK, TriesAgain
      <4> QED
        BY <1>2, <3>5, <4>1, <4>2 DEF TypeOK, TriesAgain, serverVars
    <3>6. CASE ClearStored(w, c)
      <4>1. calls' \in [Windows -> [Calls -> CallRecords]]
        BY <1>2, <3>6, MovesTypes, RecordTypes DEF ClearStored
      <4>2. stored' \in [tok : Pairs, late : BOOLEAN]
        BY <1>2, <3>6, RecordTypes DEF ClearStored
      <4> QED
        BY <1>2, <3>6, <4>1, <4>2 DEF TypeOK, ClearStored, serverVars
    <3> QED
      BY <2>6, <3>1, <3>2, <3>3, <3>4, <3>5, <3>6, <3>7 DEF Callers
  <2> QED
    BY <1>2, <2>0, <2>1, <2>2, <2>3, <2>4, <2>5, <2>6, NextCases
<1> QED
  BY <1>1, <1>2, PTL DEF Spec

----------------------------------------------------------------------------
(* Attempts and those who wait for them.                                   *)

LEMMA Framed ==
    ASSUME Shares, NEW v \in Windows, calls'[v] = calls[v], flight'[v] = flight[v]
    PROVE  SharesIn(v)'
BY DEF Shares, SharesIn, At

LEMMA Unmoved ==
    ASSUME Shares, calls' = calls, flight' = flight
    PROVE  Shares'
<1>1. \A v \in Windows : SharesIn(v)'
  BY Framed
<1> QED
  BY <1>1 DEF Shares

LEMMA ShutShares ==
    ASSUME TypeOK, Shares, NEW w \in Windows,
           calls' = [calls EXCEPT ![w] = [c \in Calls |-> NoCall]], flight' = [flight EXCEPT ![w] = NoFlight]
    PROVE  Shares'
<1>1. SharesIn(w)'
  BY DEF TypeOK, SharesIn, At, NoCall, NoFlight
<1>2. ASSUME NEW v \in Windows, v # w PROVE SharesIn(v)'
  <2>1. calls'[v] = calls[v] /\ flight'[v] = flight[v]
    BY <1>2 DEF TypeOK
  <2> QED
    BY <2>1, Framed
<1> QED
  BY <1>1, <1>2 DEF Shares

\* A call that does not wait, and comes to something else than waiting.
LEMMA MoveShares ==
    ASSUME TypeOK, Shares, NEW w \in Windows, NEW c \in Calls, NEW call,
           Moves(w, c, call), ~ At(w, c, "waits"), call.at # "waits", call.at \in {"idle", "over"} \/ call.open,
           flight' = flight
    PROVE  Shares'
<1>1. calls'[w] = [calls[w] EXCEPT ![c] = call]
  BY DEF TypeOK, Moves
<1>2. calls'[w][c] = call /\ \A d \in Calls \ {c} : calls'[w][d] = calls[w][d]
  BY <1>1 DEF TypeOK
<1>3. SharesIn(w)'
  BY <1>2 DEF Shares, SharesIn, At
<1>4. ASSUME NEW v \in Windows, v # w PROVE SharesIn(v)'
  <2>1. calls'[v] = calls[v] /\ flight'[v] = flight[v]
    BY <1>4 DEF TypeOK, Moves
  <2> QED
    BY <2>1, Framed
<1> QED
  BY <1>3, <1>4 DEF Shares

\* A call that begins to wait for an attempt.
LEMMA WaitShares ==
    ASSUME TypeOK, Shares, NEW w \in Windows, NEW c \in Calls, NEW call,
           Moves(w, c, call), ~ At(w, c, "waits"), call.at = "waits", call.open,
           \A v \in Windows \ {w} : flight'[v] = flight[v], flight'[w].at # "none",
           flight'[w] = flight[w] \/ flight'[w].tok = call.tok
    PROVE  Shares'
<1>1. calls'[w] = [calls[w] EXCEPT ![c] = call]
  BY DEF TypeOK, Moves
<1>2. calls'[w][c] = call /\ \A d \in Calls \ {c} : calls'[w][d] = calls[w][d]
  BY <1>1 DEF TypeOK
<1>3. SharesIn(w)'
  BY <1>2 DEF Shares, SharesIn, At
<1>4. ASSUME NEW v \in Windows, v # w PROVE SharesIn(v)'
  <2>1. calls'[v] = calls[v] /\ flight'[v] = flight[v]
    BY <1>4 DEF TypeOK, Moves
  <2> QED
    BY <2>1, Framed
<1> QED
  BY <1>3, <1>4 DEF Shares

\* An attempt that ends, well or badly, leaves nobody waiting.
LEMMA EndShares ==
    ASSUME TypeOK, Shares, NEW w \in Windows, flight' = [flight EXCEPT ![w] = NoFlight],
           \A v \in Windows \ {w} : calls'[v] = calls[v],
           \A c \in Calls : /\ calls'[w][c].at # "waits" /\ calls'[w][c].open = calls[w][c].open
                            /\ calls'[w][c].at \notin {"idle", "over"} => calls[w][c].at \notin {"idle", "over"}
    PROVE  Shares'
<1>1. flight'[w] = NoFlight /\ \A v \in Windows \ {w} : flight'[v] = flight[v]
  BY DEF TypeOK
<1>2. SharesIn(w)'
  <2>1. flight'[w].at = "none"
    BY <1>1 DEF NoFlight
  <2>2. ASSUME NEW c \in Calls, calls'[w][c].at \notin {"idle", "over"} PROVE calls'[w][c].open
    <3>1. SharesIn(w) /\ calls[w][c].at \notin {"idle", "over"} /\ calls'[w][c].open = calls[w][c].open
      BY <2>2 DEF Shares
    <3>2. calls[w][c].open
      BY <3>1 DEF SharesIn, At
    <3> QED
      BY <3>1, <3>2
  <2>3. \A c \in Calls : calls'[w][c].at # "waits"
    BY DEF At
  <2> QED
    BY <1>1, <2>1, <2>2, <2>3 DEF SharesIn, At
<1>3. ASSUME NEW v \in Windows, v # w PROVE SharesIn(v)'
  BY <1>1, <1>3, Framed
<1> QED
  BY <1>2, <1>3 DEF Shares

LEMMA SharesInit == Init => Shares
BY DEF Init, Shares, SharesIn, At, NoCall, NoFlight

LEMMA ActorsShare ==
    ASSUME TypeOK, Shares, NEW w \in Windows, Actors(w)
    PROVE  Shares'
<1>1. CASE Closes(w)
  BY <1>1, ShutShares DEF Closes, Shut
<1>2. CASE App(w)
  <2>1. CASE w = "popup" /\ OpenStandaloneAndClose
    BY <2>1, ShutShares DEF OpenStandaloneAndClose
  <2>2. CASE calls' = calls /\ flight' = flight
    BY <2>2, Unmoved
  <2> QED
    BY <1>2, <2>1, <2>2 DEF App
<1>3. CASE LoginScreen(w)
  <2>1. CASE w = "popup" /\ OpenStandaloneAndClose
    BY <2>1, ShutShares DEF OpenStandaloneAndClose
  <2>2. CASE calls' = calls /\ flight' = flight
    BY <2>2, Unmoved
  <2> QED
    BY <1>3, <2>1, <2>2 DEF LoginScreen
<1>4. CASE TfaScreen(w)
  <2>1. CASE Shut(w)
    BY <2>1, ShutShares DEF Shut
  <2>2. CASE calls' = calls /\ flight' = flight
    BY <2>2, Unmoved
  <2> QED
    BY <1>4, <2>1, <2>2 DEF TfaScreen
<1>5. CASE Logout(w) \/ LoggedOut(w)
  BY <1>5, Unmoved DEF Logout, LoggedOut
<1>6. CASE Refresh(w)
  <2>1. calls' = calls /\ flight' = [flight EXCEPT ![w] = [at |-> "got", tok |-> minted + 1]]
    BY <1>6 DEF Refresh
  <2>2. flight'[w] = [at |-> "got", tok |-> minted + 1] /\ \A v \in Windows \ {w} : flight'[v] = flight[v]
    BY <2>1 DEF TypeOK
  <2>3. SharesIn(w)'
    BY <1>6, <2>1, <2>2 DEF Refresh, Shares, SharesIn, At
  <2>4. \A v \in Windows \ {w} : SharesIn(v)'
    BY <2>1, <2>2, Framed
  <2> QED
    BY <2>3, <2>4 DEF Shares
<1>7. ASSUME NEW tok, Drops(w) \/ Tries(w, tok) PROVE Shares'
  <2>1. ASSUME NEW c \in Calls
        PROVE  /\ calls'[w][c].at # "waits" /\ calls'[w][c].open = calls[w][c].open
               /\ calls'[w][c].at \notin {"idle", "over"} => calls[w][c].at \notin {"idle", "over"}
    <3>1. calls[w][c] \in CallRecords
      BY DEF TypeOK
    <3>2. CASE At(w, c, "waits")
      <4>1. calls'[w][c] = [calls[w][c] EXCEPT !.at = "drops"] \/ calls'[w][c] = [calls[w][c] EXCEPT !.at = "again", !.tok = tok]
        BY <1>7, <3>2, DropsIs, TriesIs
      <4> QED
        BY <3>1, <3>2, <4>1 DEF At, CallRecords
    <3>3. CASE ~ At(w, c, "waits")
      <4>1. calls'[w][c] = calls[w][c]
        BY <1>7, <3>3, DropsIs, TriesIs
      <4> QED
        BY <3>3, <4>1 DEF At
    <3> QED
      BY <3>2, <3>3
  <2>2. flight' = [flight EXCEPT ![w] = NoFlight] /\ \A v \in Windows \ {w} : calls'[v] = calls[v]
    BY <1>7, DropsIs, TriesIs
  <2> QED
    BY <2>1, <2>2, EndShares
<1>8. CASE RefreshFails(w) \/ Persist(w)
  BY <1>7, <1>8 DEF RefreshFails, Persist
<1>9. CASE ReadStored(w)
  <2>1. CASE Drops(w) \/ Tries(w, stored.tok)
    BY <1>7, <2>1
  <2>2. CASE flight' = [flight EXCEPT ![w].at = "sent"] /\ calls' = calls
    <3>1. flight'[w].at = "sent" /\ \A v \in Windows \ {w} : flight'[v] = flight[v]
      BY <2>2 DEF TypeOK, Attempts
    <3>2. SharesIn(w)'
      BY <1>9, <2>2, <3>1 DEF ReadStored, Shares, SharesIn, At
    <3>3. \A v \in Windows \ {w} : SharesIn(v)'
      BY <2>2, <3>1, Framed
    <3> QED
      BY <3>2, <3>3 DEF Shares
  <2> QED
    BY <1>9, <2>1, <2>2 DEF ReadStored
<1> QED
  BY <1>1, <1>2, <1>3, <1>4, <1>5, <1>6, <1>8, <1>9 DEF Actors

LEMMA CallersShare ==
    ASSUME TypeOK, Shares, NEW w \in Windows, NEW c \in Calls, Callers(w, c)
    PROVE  Shares'
<1>0. /\ calls[w][c] \in CallRecords
      /\ ~ At(w, c, "idle") /\ ~ At(w, c, "over") => calls[w][c].open
  BY DEF TypeOK, Shares, SharesIn
<1>1. CASE GetActiveSession(w, c)
  <2> DEFINE call == [at |-> IF stored.late THEN "over" ELSE "read", tok |-> stored.tok, open |-> ~ stored.late]
  <2>1. Moves(w, c, call) /\ flight' = flight /\ At(w, c, "idle")
    BY <1>1 DEF GetActiveSession, MayCall
  <2>2. call.at # "waits" /\ (call.at = "over" \/ call.open)
    BY DEF TypeOK
  <2> HIDE DEF call
  <2> QED
    BY <2>1, <2>2, MoveShares DEF At
<1>7. CASE ClearOver(w, c)
  BY <1>7, MoveShares DEF ClearOver, At, NoCall
<1>2. CASE WriteStored(w, c)
  BY <1>0, <1>2, MoveShares DEF WriteStored, At, CallRecords
<1>3. CASE AuthorizedRequest(w, c)
  <2>1. CASE Moves(w, c, NoCall) /\ flight' = flight
    BY <1>3, <2>1, MoveShares DEF AuthorizedRequest, At, NoCall
  <2>2. CASE Moves(w, c, [calls[w][c] EXCEPT !.at = "failed"]) /\ flight' = flight
    BY <1>0, <1>3, <2>2, MoveShares DEF AuthorizedRequest, At, CallRecords
  <2> QED
    BY <1>3, <2>1, <2>2 DEF AuthorizedRequest
<1>4. CASE RefreshAccessTokenOnce(w, c)
  <2> DEFINE call == [calls[w][c] EXCEPT !.at = "waits"]
             begun == [at |-> "reads", tok |-> calls[w][c].tok]
  <2>1. At(w, c, "failed") /\ Moves(w, c, call) /\ flight' = [flight EXCEPT ![w] = IF @ = NoFlight THEN begun ELSE @]
    BY <1>4 DEF RefreshAccessTokenOnce
  <2>2. call.at = "waits" /\ call.open /\ call.tok = calls[w][c].tok
    BY <1>0, <2>1 DEF At, CallRecords
  <2>3. begun.at = "reads" /\ begun.tok = calls[w][c].tok
    OBVIOUS
  <2> HIDE DEF call, begun
  <2>4. /\ \A v \in Windows \ {w} : flight'[v] = flight[v]
        /\ flight'[w] = IF flight[w] = NoFlight THEN begun ELSE flight[w]
    BY <2>1 DEF TypeOK
  <2>5. flight'[w].at # "none"
    BY <2>3, <2>4 DEF Shares, SharesIn
  <2> QED
    BY <2>1, <2>2, <2>3, <2>4, <2>5, WaitShares DEF At
<1>5. CASE TriesAgain(w, c)
  <2>1. CASE Moves(w, c, NoCall) /\ flight' = flight
    BY <1>5, <2>1, MoveShares DEF TriesAgain, At, NoCall
  <2>2. CASE Moves(w, c, [calls[w][c] EXCEPT !.at = "drops"]) /\ flight' = flight
    BY <1>0, <1>5, <2>2, MoveShares DEF TriesAgain, At, CallRecords
  <2> QED
    BY <1>5, <2>1, <2>2 DEF TriesAgain
<1>6. CASE ClearStored(w, c)
  BY <1>6, MoveShares DEF ClearStored, At, NoCall
<1> QED
  BY <1>1, <1>2, <1>3, <1>4, <1>5, <1>6, <1>7 DEF Callers

LEMMA SharesNext ==
    ASSUME TypeOK, Shares, [Next]_vars
    PROVE  Shares'
<1>1. CASE UNCHANGED vars
  BY <1>1, Unmoved DEF vars
<1>2. CASE \/ \E n \in Pairs : Expires(n)
           \/ Revoked \/ Lapses \/ OpenPopup
  BY <1>2, Unmoved DEF Expires, Revoked, Lapses, OpenPopup, windowVars
<1> QED
  BY <1>1, <1>2, NextCases, ActorsShare, CallersShare

\* No call waits on an attempt that is over (session.ts, refreshInFlight).
THEOREM WaitsEndHolds == Spec => []WaitsEnd
<1>1. TypeOK /\ Shares => WaitsEnd
  BY DEF TypeOK, Attempts, Shares, SharesIn, WaitsEnd
<1> QED
  BY <1>1, TypeCorrect, SharesInit, SharesNext, PTL DEF Spec

\* A session that was left or locked comes back only through a sign-in, or a call that had
\* read it while it was open (session.ts, getActiveSession).
THEOREM StaysLockedHolds == Spec => StaysLocked
<1> DEFINE Back == (stored.tok = 0 \/ stored.late) /\ stored'.tok # 0 /\ ~ stored'.late
           SignsIn == \E w \in Windows : shows[w] \in {"login", "tfa"} /\ shows'[w] # shows[w]
           ReadOpen == \E w \in Windows, c \in Calls : calls[w][c].open
<1>1. ASSUME TypeOK, Shares, Next, Back PROVE SignsIn \/ ReadOpen
  <2>0. stored' # stored
    BY <1>1
  <2>1. CASE \/ \E n \in Pairs : Expires(n)
             \/ Revoked \/ Lapses \/ OpenPopup
    BY <1>1, <2>0, <2>1 DEF TypeOK, Expires, Revoked, Lapses, OpenPopup
  <2>2. ASSUME NEW w \in Windows, Actors(w) PROVE SignsIn \/ ReadOpen
    <3>1. CASE LoginScreen(w)
      <4>1. shows' = [shows EXCEPT ![w] = "vault"] /\ shows[w] = "login"
        BY <2>0, <3>1 DEF LoginScreen
      <4> QED
        BY <1>1, <4>1 DEF TypeOK
    <3>2. CASE TfaScreen(w)
      <4>1. shows[w] = "tfa" /\ (shows' = [shows EXCEPT ![w] = "vault"] \/ shows' = [shows EXCEPT ![w] = "closed"])
        BY <2>0, <3>2 DEF TfaScreen, Shut
      <4> QED
        BY <1>1, <4>1 DEF TypeOK
    <3>3. CASE Persist(w)
      <4>1. flight[w].at # "none"
        BY <3>3 DEF Persist
      <4>2. PICK c \in Calls : At(w, c, "waits")
        BY <1>1, <4>1 DEF Shares, SharesIn
      <4>3. calls[w][c].open
        BY <1>1, <4>2 DEF Shares, SharesIn, At
      <4> QED
        BY <4>3
    <3>4. CASE App(w)
      BY <1>1, <2>0, <3>4 DEF App, NoStored
    <3>5. CASE LoggedOut(w)
      BY <1>1, <3>5 DEF LoggedOut, NoStored
    <3>6. CASE Closes(w) \/ Logout(w) \/ ReadStored(w) \/ Refresh(w) \/ RefreshFails(w)
      BY <2>0, <3>6 DEF Closes, Logout, ReadStored, Refresh, RefreshFails
    <3> QED
      BY <2>2, <3>1, <3>2, <3>3, <3>4, <3>5, <3>6 DEF Actors
  <2>3. ASSUME NEW w \in Windows, NEW c \in Calls, Callers(w, c) PROVE SignsIn \/ ReadOpen
    <3>1. CASE WriteStored(w, c)
      <4>1. calls[w][c].open
        BY <1>1, <3>1 DEF WriteStored, Shares, SharesIn, At
      <4> QED
        BY <4>1
    <3>2. CASE ClearOver(w, c) \/ ClearStored(w, c)
      BY <1>1, <2>0, <3>2 DEF ClearOver, ClearStored, NoStored
    <3>3. CASE GetActiveSession(w, c) \/ AuthorizedRequest(w, c) \/ RefreshAccessTokenOnce(w, c) \/ TriesAgain(w, c)
      BY <2>0, <3>3 DEF GetActiveSession, AuthorizedRequest, RefreshAccessTokenOnce, TriesAgain
    <3> QED
      BY <2>3, <3>1, <3>2, <3>3 DEF Callers
  <2> QED
    BY <1>1, <2>1, <2>2, <2>3, NextCases
<1>2. TypeOK /\ Shares /\ [Next]_vars => [Back => SignsIn \/ ReadOpen]_vars
  BY <1>1
<1> QED
  BY <1>2, TypeCorrect, SharesInit, SharesNext, PTL DEF Spec, StaysLocked

----------------------------------------------------------------------------
(* What ends a session.                                                    *)

\* Within a plain behaviour, where nothing was lost or crossed, a call under way never has
\* a pair newer than the one that is stored, and a newer one that is stored is accepted.
CallKnows(w, c) ==
    /\ calls[w][c].tok # 0 /\ (stored.tok = 0 \/ calls[w][c].tok <= stored.tok)
    /\ calls[w][c].tok < stored.tok => live = 0 \/ stored.tok \in good
    /\ At(w, c, "again") => live = 0 \/ calls[w][c].tok \in good

\* An attempt asks with the pair that is stored, and gets one newer than all the others.
FlightKnows(w) ==
    /\ flight[w].at \in {"sent", "got"} => flight[w].tok # 0
    /\ flight[w].at = "sent" => stored.tok \in {0, flight[w].tok}
    /\ flight[w].at = "got" => /\ flight[w].tok = minted /\ stored.tok < flight[w].tok
                               /\ live = 0 \/ flight[w].tok \in good
                               /\ \A v \in Windows, c \in Calls :
                                    ~ At(v, c, "idle") => calls[v][c].tok < flight[w].tok

\* The server honours neither what is stored nor what is asked with.
Hopeless ==
    /\ stored.tok = 0 \/ stored.tok # live
    /\ \A w \in Windows : /\ flight[w].at = "sent" => flight[w].tok # live
                          /\ flight[w].at = "got" => live = 0

\* No pair is held anywhere that the server has not given.
Given ==
    /\ stored.tok <= minted
    /\ \A w \in Windows : flight[w].tok <= minted /\ \A c \in Calls : calls[w][c].tok <= minted

Dropping == \E w \in Windows, c \in Calls : At(w, c, "drops")

PlainInv ==
    /\ \A v, w \in Windows : flight[v].at \in {"sent", "got"} /\ flight[w].at \in {"sent", "got"} => v = w
    /\ \A w \in Windows : FlightKnows(w)
    /\ \A w \in Windows, c \in Calls : ~ At(w, c, "idle") => CallKnows(w, c)
    /\ Dropping \/ (Busy /\ stored.tok = 0) => Hopeless

Plain == ~ crossed /\ faults = 0
CauseInv == Given /\ (Plain => PlainInv)

LEMMA Numbers ==
    ASSUME TypeOK
    PROVE  /\ stored.tok \in Nat /\ live \in Nat /\ minted \in Nat /\ faults \in Nat
           /\ \A w \in Windows : flight[w].tok \in Nat /\ flight[w].at \in {"none", "reads", "sent", "got"}
           /\ \A w \in Windows, c \in Calls : calls[w][c].tok \in Nat /\ calls[w][c] \in CallRecords
<1>1. Pairs \subseteq Nat /\ 0..MaxFaults \subseteq Nat
  BY PopupAssumption DEF Pairs
<1>2. stored.tok \in Pairs /\ live \in Pairs /\ minted \in Pairs /\ faults \in 0..MaxFaults
  BY DEF TypeOK
<1>3. \A w \in Windows : flight[w] \in Attempts
  BY DEF TypeOK
<1>4. \A w \in Windows, c \in Calls : calls[w][c] \in CallRecords
  BY DEF TypeOK
<1> QED
  BY <1>1, <1>2, <1>3, <1>4 DEF Attempts, CallRecords

\* No pair is given: calls and attempts go on as they were, or end, and a call drops the
\* session only where there is no hope.
CalmCall(w, c) ==
    \/ calls'[w][c].at = "idle" /\ calls'[w][c].tok <= minted
    \/ /\ ~ At(w, c, "idle") /\ calls'[w][c].tok = calls[w][c].tok
       /\ calls'[w][c].at = "again" => At(w, c, "again")
       /\ calls'[w][c].at = "drops" /\ Plain => At(w, c, "drops") \/ Hopeless

CalmFlight(w) ==
    \/ flight'[w] = flight[w] \/ flight'[w] = NoFlight
    \/ flight'[w].at = "reads" /\ flight'[w].tok <= minted

CalmTokens ==
    /\ stored'.tok = stored.tok /\ minted' = minted /\ live' \in {live, 0} /\ (live' = 0 \/ good' = good)
    /\ Plain' => Plain

LEMMA CalmCause ==
    ASSUME TypeOK, TypeOK', CauseInv, CalmTokens,
           \A w \in Windows, c \in Calls : CalmCall(w, c), \A w \in Windows : CalmFlight(w)
    PROVE  CauseInv'
<1> USE DEF CalmCall, CalmFlight, CalmTokens
<1>0. 0 <= minted /\ NoFlight.tok = 0 /\ NoFlight.at = "none"
  BY Numbers DEF NoFlight
<1>1. Given'
  BY <1>0 DEF CauseInv, Given, At
<1>2. ASSUME Plain' PROVE PlainInv'
  <2>0. PlainInv
    BY <1>2 DEF CauseInv
  <2>1. (\A v, w \in Windows : flight[v].at \in {"sent", "got"} /\ flight[w].at \in {"sent", "got"} => v = w)'
    BY <1>0, <2>0 DEF PlainInv
  <2>2. ASSUME NEW w \in Windows PROVE FlightKnows(w)'
    <3>1. CASE flight'[w] = NoFlight
      BY <1>0, <3>1 DEF FlightKnows
    <3>2. CASE flight'[w] = flight[w]
      <4>1. FlightKnows(w)
        BY <2>0 DEF PlainInv
      <4> QED
        BY <3>2, <4>1 DEF FlightKnows, At
    <3>3. CASE flight'[w].at = "reads"
      BY <3>3 DEF FlightKnows
    <3> QED
      BY <3>1, <3>2, <3>3
  <2>3. ASSUME NEW w \in Windows, NEW c \in Calls, ~ At(w, c, "idle")' PROVE CallKnows(w, c)'
    <3>1. ~ At(w, c, "idle") /\ calls'[w][c].tok = calls[w][c].tok /\ (calls'[w][c].at = "again" => At(w, c, "again"))
      BY <2>3 DEF At
    <3>2. CallKnows(w, c)
      BY <2>0, <3>1 DEF PlainInv
    <3> QED
      BY <3>1, <3>2 DEF CallKnows, At
  <2>4. ASSUME (Dropping \/ (Busy /\ stored.tok = 0))' PROVE Hopeless'
    <3>1. Hopeless
      BY <1>2, <2>0, <2>4 DEF PlainInv, Dropping, Busy, At
    <3>2. \A w \in Windows : flight[w].at = "sent" => flight[w].tok # 0
      BY <2>0 DEF PlainInv, FlightKnows
    <3> QED
      BY <1>0, <3>1, <3>2 DEF Hopeless
  <2> QED
    BY <2>1, <2>2, <2>3, <2>4 DEF PlainInv
<1> QED
  BY <1>1, <1>2 DEF CauseInv

\* Nothing is under way, or the behaviour is plain no more.
LEMMA IdleCause ==
    ASSUME TypeOK, TypeOK', Shares, CauseInv, Plain' => ~ Busy, stored'.tok <= minted', minted <= minted',
           \A w \in Windows, c \in Calls : calls'[w][c] = calls[w][c] \/ calls'[w][c] = NoCall,
           \A w \in Windows : flight'[w] = flight[w] \/ flight'[w] = NoFlight
    PROVE  CauseInv'
<1>1. Given'
  <2>1. \A w \in Windows : /\ flight[w].tok <= minted /\ flight[w].tok \in Nat
                            /\ \A c \in Calls : calls[w][c].tok <= minted /\ calls[w][c].tok \in Nat
    BY Numbers DEF CauseInv, Given
  <2>2. minted \in Nat /\ minted' \in Nat /\ NoCall.tok = 0 /\ NoFlight.tok = 0
    BY PopupAssumption DEF TypeOK, Pairs, NoCall, NoFlight
  <2> QED
    BY <2>1, <2>2 DEF Given
<1>2. ASSUME Plain' PROVE PlainInv'
  <2>1. \A w \in Windows, c \in Calls : calls'[w][c].at = "idle"
    BY <1>2 DEF Busy, At, NoCall
  <2>2. \A w \in Windows : flight'[w].at = "none"
    <3>1. \A w \in Windows : flight[w].at = "none"
      BY <1>2 DEF Shares, SharesIn, Busy, At
    <3> QED
      BY <3>1 DEF NoFlight
  <2>3. ~ Dropping' /\ ~ Busy'
    BY <2>1 DEF Dropping, Busy, At
  <2>4. \A w \in Windows : FlightKnows(w)'
    BY <2>2 DEF FlightKnows
  <2> QED
    BY <2>1, <2>2, <2>3, <2>4 DEF PlainInv, At
<1> QED
  BY <1>1, <1>2 DEF CauseInv

LEMMA ExpiresCause ==
    ASSUME TypeOK, TypeOK', Shares, CauseInv, NEW n \in Pairs, Expires(n)
    PROVE  CauseInv'
<1>0. /\ n \in Nat /\ good' = good \ {n}
      /\ \A w \in Windows, c \in Calls :
           \/ At(w, c, "idle") \/ calls[w][c].tok > n \/ (calls[w][c].tok = n /\ ~ At(w, c, "again"))
      /\ UNCHANGED <<stored, shows, calls, flight, live, minted, faults, crossed>>
  <2>1. n \in Nat
    BY PopupAssumption DEF Pairs
  <2> QED
    BY <2>1 DEF Expires, windowVars
<1>1. Given'
  BY <1>0 DEF CauseInv, Given
<1>2. ASSUME Plain' PROVE PlainInv'
  <2>0. PlainInv
    BY <1>0, <1>2 DEF CauseInv, Plain
  <2>1. ASSUME NEW w \in Windows PROVE FlightKnows(w)'
    <3>1. FlightKnows(w)
      BY <2>0 DEF PlainInv
    <3>2. ASSUME flight[w].at = "got" PROVE flight[w].tok # n
      <4>1. PICK c \in Calls : At(w, c, "waits")
        BY <3>2 DEF Shares, SharesIn
      <4>2. calls[w][c].tok < flight[w].tok /\ ~ At(w, c, "idle")
        BY <3>1, <3>2, <4>1 DEF FlightKnows, At
      <4> QED
        BY <1>0, <4>2, Numbers
    <3> QED
      BY <1>0, <3>1, <3>2 DEF FlightKnows, At
  <2>2. ASSUME NEW w \in Windows, NEW c \in Calls, ~ At(w, c, "idle") PROVE CallKnows(w, c)'
    <3>1. CallKnows(w, c)
      BY <2>0, <2>2 DEF PlainInv
    <3>2. calls[w][c].tok > n \/ (calls[w][c].tok = n /\ ~ At(w, c, "again"))
      BY <1>0, <2>2
    <3> QED
      BY <1>0, <3>1, <3>2, Numbers DEF CallKnows, At
  <2>3. (Dropping \/ (Busy /\ stored.tok = 0) => Hopeless)'
    BY <1>0, <2>0 DEF PlainInv, Dropping, Busy, At, Hopeless
  <2> QED
    BY <1>0, <2>0, <2>1, <2>2, <2>3 DEF PlainInv, At
<1> QED
  BY <1>1, <1>2 DEF CauseInv

\* The steps that neither give a pair nor write one.
LEMMA QuietCause ==
    ASSUME TypeOK, TypeOK', CauseInv, Revoked \/ Lapses \/ OpenPopup
    PROVE  CauseInv'
<1>1. /\ stored'.tok = stored.tok /\ minted' = minted /\ live' \in {live, 0} /\ (live' = 0 \/ good' = good)
      /\ UNCHANGED <<calls, flight, faults, crossed>>
  BY DEF Revoked, Lapses, OpenPopup, windowVars, serverVars, TypeOK
<1> QED
  <2>1. CalmTokens
    BY <1>1 DEF CalmTokens, Plain
  <2>2. \A w \in Windows, c \in Calls : CalmCall(w, c)
    BY <1>1 DEF CalmCall, At, CauseInv, Given
  <2>3. \A w \in Windows : CalmFlight(w)
    BY <1>1 DEF CalmFlight
  <2> QED
    BY <2>1, <2>2, <2>3, CalmCause

\* Windows that shut, or leave what they show, without a word to the storage.
LEMMA ScreenCause ==
    ASSUME TypeOK, TypeOK', CauseInv, stored' = stored, minted' = minted, live' \in {live, 0}, good' = good,
           crossed' = crossed, faults' \in Nat, faults' >= faults,
           \A w \in Windows, c \in Calls : calls'[w][c] = calls[w][c] \/ calls'[w][c] = NoCall,
           \A w \in Windows : flight'[w] = flight[w] \/ flight'[w] = NoFlight
    PROVE  CauseInv'
<1>1. \A w \in Windows, c \in Calls : CalmCall(w, c)
  <2>1. NoCall.at = "idle" /\ NoCall.tok = 0 /\ 0 <= minted
    BY Numbers DEF NoCall
  <2> QED
    BY <2>1 DEF CalmCall, At, CauseInv, Given
<1>2. Plain' => Plain
  BY Numbers DEF Plain
<1>3. CalmTokens
  BY <1>2 DEF CalmTokens
<1>4. \A w \in Windows : CalmFlight(w)
  BY DEF CalmFlight
<1> QED
  BY <1>1, <1>3, <1>4, CalmCause

LEMMA ShutIs ==
    ASSUME TypeOK, NEW w \in Windows, Shut(w) \/ (w = "popup" /\ OpenStandaloneAndClose)
    PROVE  /\ \A v \in Windows, c \in Calls : calls'[v][c] = calls[v][c] \/ calls'[v][c] = NoCall
           /\ \A v \in Windows : flight'[v] = flight[v] \/ flight'[v] = NoFlight
<1>1. calls' = [calls EXCEPT ![w] = [c \in Calls |-> NoCall]] /\ flight' = [flight EXCEPT ![w] = NoFlight]
  BY DEF Shut, OpenStandaloneAndClose
<1> QED
  BY <1>1 DEF TypeOK

\* A sign-in writes the pair it was given; it is plain only while nothing is under way.
LEMMA SignInCause ==
    ASSUME TypeOK, TypeOK', Shares, CauseInv, PersistSession, faults' = faults,
           \A w \in Windows, c \in Calls : calls'[w][c] = calls[w][c] \/ calls'[w][c] = NoCall,
           \A w \in Windows : flight'[w] = flight[w] \/ flight'[w] = NoFlight
    PROVE  CauseInv'
<1>1. stored'.tok = minted' /\ minted' = minted + 1 /\ (crossed' <=> crossed \/ Busy)
  BY DEF PersistSession, Mint
<1> QED
  BY <1>1, Numbers, IdleCause DEF Plain

\* The session is cleared by a step that no call takes.
LEMMA ClearedCause ==
    ASSUME TypeOK, TypeOK', Shares, CauseInv, stored' = NoStored, minted' = minted, crossed' <=> crossed \/ Busy,
           UNCHANGED <<calls, flight, faults>>
    PROVE  CauseInv'
<1>1. stored'.tok <= minted'
  BY Numbers DEF NoStored
<1> QED
  BY <1>1, Numbers, IdleCause DEF Plain

LEMMA WindowsCause ==
    ASSUME TypeOK, TypeOK', Shares, CauseInv, NEW w \in Windows,
           Closes(w) \/ App(w) \/ LoginScreen(w) \/ TfaScreen(w) \/ Logout(w) \/ LoggedOut(w)
    PROVE  CauseInv'
<1>0. faults \in Nat /\ faults' \in Nat
  BY Numbers, PopupAssumption DEF TypeOK
<1>1. CASE Closes(w)
  BY <1>0, <1>1, ShutIs, ScreenCause DEF Closes, serverVars
<1>2. CASE App(w)
  <2>1. CASE w = "popup" /\ OpenStandaloneAndClose /\ UNCHANGED <<stored, crossed>>
    BY <1>0, <1>2, <2>1, ShutIs, ScreenCause DEF App, serverVars
  <2>2. CASE UNCHANGED <<calls, flight, stored, crossed>>
    BY <1>0, <1>2, <2>2, ScreenCause DEF App, serverVars
  <2>3. CASE stored.late /\ UNCHANGED <<calls, flight>> /\ stored' = NoStored /\ crossed' = (crossed \/ Busy)
    BY <1>2, <2>3, ClearedCause DEF App, serverVars
  <2>4. CASE ~ stored.late /\ UNCHANGED <<calls, flight>> /\ stored' = stored /\ crossed' = (crossed \/ (stored.late /\ Busy))
    <3>1. crossed' = crossed
      BY <2>4 DEF TypeOK
    <3> QED
      BY <2>2, <2>4, <3>1
  <2> QED
    BY <1>2, <2>1, <2>2, <2>3, <2>4 DEF App
<1>3. CASE LoginScreen(w)
  <2>1. CASE Login /\ UNCHANGED <<calls, flight>>
    BY <1>3, <2>1, SignInCause DEF Login, LoginScreen
  <2>2. CASE w = "popup" /\ OpenStandaloneAndClose /\ UNCHANGED <<stored, serverVars, crossed>>
    BY <1>0, <1>3, <2>2, ShutIs, ScreenCause DEF LoginScreen, serverVars
  <2>3. CASE UNCHANGED <<stored, calls, flight, serverVars, crossed>>
    BY <1>0, <1>3, <2>3, ScreenCause DEF LoginScreen, serverVars
  <2> QED
    BY <1>3, <2>1, <2>2, <2>3 DEF LoginScreen
<1>4. CASE TfaScreen(w)
  <2>1. CASE VerifyDeviceAndLogin
    BY <1>4, <2>1, ShutIs, SignInCause DEF VerifyDeviceAndLogin, TfaScreen
  <2>2. CASE UNCHANGED <<stored, calls, flight, serverVars, crossed>>
    BY <1>0, <1>4, <2>2, ScreenCause DEF TfaScreen, serverVars
  <2> QED
    BY <1>4, <2>1, <2>2 DEF TfaScreen
<1>5. CASE Logout(w)
  BY <1>0, <1>5, ScreenCause DEF Logout, Fault
<1>6. CASE LoggedOut(w)
  BY <1>6, ClearedCause DEF LoggedOut, serverVars
<1> QED
  BY <1>1, <1>2, <1>3, <1>4, <1>5, <1>6

\* One call moves, with the pair it has, and nothing else.
LEMMA MoveCause ==
    ASSUME TypeOK, TypeOK', CauseInv, NEW w \in Windows, NEW c \in Calls, NEW call, Moves(w, c, call),
           ~ At(w, c, "idle"), call = NoCall \/ call.tok = calls[w][c].tok, call.at = "again" => At(w, c, "again"),
           call.at = "drops" /\ Plain => Hopeless, stored'.tok = stored.tok, Plain' => Plain,
           UNCHANGED <<flight, live, good, minted>>
    PROVE  CauseInv'
<1>1. calls'[w][c] = call /\ \A v \in Windows, b \in Calls : v # w \/ b # c => calls'[v][b] = calls[v][b]
  BY DEF TypeOK, Moves
<1>2. NoCall.tok = 0 /\ NoCall.at = "idle" /\ 0 <= minted
  BY Numbers DEF NoCall
<1>3. ASSUME NEW v \in Windows, NEW b \in Calls
      PROVE  CalmCall(v, b)
  <2>1. CASE v = w /\ b = c
    BY <1>1, <1>2, <2>1 DEF CalmCall
  <2>2. CASE v # w \/ b # c
    BY <1>1, <2>2 DEF CalmCall, At, CauseInv, Given
  <2> QED
    BY <2>1, <2>2
<1> QED
  BY <1>3, CalmCause DEF CalmTokens, CalmFlight

LEMMA BusyIs == ASSUME NEW w \in Windows, NEW c \in Calls, ~ At(w, c, "idle") PROVE Busy
BY DEF Busy

LEMMA CallCause ==
    ASSUME TypeOK, TypeOK', Shares, CauseInv, NEW w \in Windows, NEW c \in Calls,
           AuthorizedRequest(w, c) \/ TriesAgain(w, c) \/ WriteStored(w, c)
    PROVE  CauseInv'
<1>0. calls[w][c] \in CallRecords
  BY Numbers
<1>a. \A at : [calls[w][c] EXCEPT !.at = at].tok = calls[w][c].tok /\ [calls[w][c] EXCEPT !.at = at].at = at
  BY <1>0 DEF CallRecords
<1>b. NoCall.at = "idle"
  BY DEF NoCall
<1>1. CASE AuthorizedRequest(w, c)
  <2>1. Moves(w, c, NoCall) \/ Moves(w, c, [calls[w][c] EXCEPT !.at = "failed"])
    BY <1>1 DEF AuthorizedRequest
  <2>2. ~ At(w, c, "idle") /\ UNCHANGED <<stored, flight, live, good, minted, crossed, faults>>
    BY <1>1 DEF AuthorizedRequest, At, serverVars
  <2> QED
    BY <1>a, <1>b, <2>1, <2>2, MoveCause DEF Plain
<1>2. CASE TriesAgain(w, c)
  <2>1. ~ At(w, c, "idle") /\ UNCHANGED <<stored, flight, live, good, minted, crossed>>
    BY <1>2 DEF TriesAgain, At, serverVars
  <2>2. CASE Moves(w, c, NoCall) /\ faults' = faults
    BY <1>b, <2>1, <2>2, MoveCause DEF Plain
  <2>3. CASE calls[w][c].tok \notin good /\ Moves(w, c, [calls[w][c] EXCEPT !.at = "drops"]) /\ faults' = faults
    <3>1. ASSUME Plain PROVE Hopeless
      <4>1. PlainInv /\ CallKnows(w, c)
        BY <2>1, <3>1 DEF CauseInv, PlainInv
      <4>2. live = 0
        BY <1>2, <2>3, <4>1 DEF TriesAgain, CallKnows
      <4>3. \A v \in Windows : flight[v].at = "sent" => flight[v].tok # 0
        BY <4>1 DEF PlainInv, FlightKnows
      <4> QED
        BY <4>2, <4>3 DEF Hopeless
    <3> QED
      BY <1>a, <2>1, <2>3, <3>1, MoveCause DEF Plain
  <2>4. CASE Moves(w, c, [calls[w][c] EXCEPT !.at = "drops"]) /\ Fault
    <3>1. ~ Plain'
      BY <2>4, Numbers DEF Fault, Plain
    <3>2. Given'
      <4>1. \A v \in Windows, b \in Calls : calls'[v][b].tok = calls[v][b].tok
        BY <1>a, <2>4 DEF TypeOK, Moves
      <4> QED
        BY <2>1, <4>1 DEF CauseInv, Given
    <3> QED
      BY <3>1, <3>2 DEF CauseInv
  <2> QED
    BY <1>2, <2>2, <2>3, <2>4 DEF TriesAgain
<1>3. CASE WriteStored(w, c)
  <2>1. /\ ~ At(w, c, "idle") /\ Moves(w, c, [calls[w][c] EXCEPT !.at = "sent"])
        /\ stored'.tok = calls[w][c].tok /\ (crossed' <=> crossed \/ calls[w][c].tok # stored.tok)
        /\ UNCHANGED <<flight, live, good, minted, faults>>
    BY <1>3 DEF WriteStored, At, serverVars
  <2>2. CASE calls[w][c].tok = stored.tok
    <3>1. Plain' => Plain
      BY <2>1 DEF Plain
    <3> QED
      BY <1>a, <2>1, <2>2, <3>1, MoveCause
  <2>3. CASE calls[w][c].tok # stored.tok
    <3>1. \A v \in Windows, b \in Calls : calls'[v][b].tok = calls[v][b].tok
      BY <1>a, <2>1 DEF TypeOK, Moves
    <3>2. Given' /\ ~ Plain'
      BY <2>1, <2>3, <3>1 DEF CauseInv, Given, Plain
    <3> QED
      BY <3>2 DEF CauseInv
  <2> QED
    BY <2>2, <2>3
<1> QED
  BY <1>1, <1>2, <1>3

\* A call begins with the pair that is stored.
LEMMA ReadCause ==
    ASSUME TypeOK, TypeOK', Shares, CauseInv, NEW w \in Windows, NEW c \in Calls, GetActiveSession(w, c)
    PROVE  CauseInv'
<1> DEFINE call == [at |-> IF stored.late THEN "over" ELSE "read", tok |-> stored.tok, open |-> ~ stored.late]
<1>1. /\ Moves(w, c, call) /\ stored.tok # 0 /\ UNCHANGED <<stored, flight, live, good, minted, faults, crossed>>
  BY DEF GetActiveSession, MayCall, serverVars
<1>2. call.tok = stored.tok /\ call.at \in {"over", "read"}
  OBVIOUS
<1> HIDE DEF call
<1>3. calls'[w][c] = call /\ \A v \in Windows, b \in Calls : v # w \/ b # c => calls'[v][b] = calls[v][b]
  BY <1>1 DEF TypeOK, Moves
<1>4. Given'
  BY <1>1, <1>2, <1>3 DEF CauseInv, Given
<1>5. ASSUME Plain PROVE PlainInv'
  <2>0. PlainInv
    BY <1>5 DEF CauseInv
  <2>1. ASSUME NEW v \in Windows PROVE FlightKnows(v)'
    <3>1. FlightKnows(v)
      BY <2>0 DEF PlainInv
    <3> QED
      BY <1>1, <1>2, <1>3, <3>1 DEF FlightKnows, At
  <2>2. ASSUME NEW v \in Windows, NEW b \in Calls, ~ At(v, b, "idle")' PROVE CallKnows(v, b)'
    <3>1. CASE v = w /\ b = c
      BY <1>1, <1>2, <1>3, <3>1, Numbers DEF CallKnows, At
    <3>2. CASE v # w \/ b # c
      <4>1. calls'[v][b] = calls[v][b]
        BY <1>3, <3>2
      <4>2. CallKnows(v, b)
        BY <2>0, <2>2, <4>1 DEF PlainInv, At
      <4> QED
        BY <1>1, <4>1, <4>2 DEF CallKnows, At
    <3> QED
      BY <3>1, <3>2
  <2>3. ASSUME Dropping' PROVE Hopeless'
    <3>1. Dropping
      BY <1>2, <1>3, <2>3 DEF Dropping, At
    <3> QED
      BY <1>1, <2>0, <3>1 DEF PlainInv, Hopeless
  <2> QED
    BY <1>1, <2>0, <2>1, <2>2, <2>3 DEF PlainInv
<1> QED
  BY <1>1, <1>4, <1>5 DEF CauseInv, Plain

\* A call that is refused begins an attempt, or joins those who wait.
LEMMA AskCause ==
    ASSUME TypeOK, TypeOK', Shares, CauseInv, NEW w \in Windows, NEW c \in Calls, RefreshAccessTokenOnce(w, c)
    PROVE  CauseInv'
<1> DEFINE Waits == [calls[w][c] EXCEPT !.at = "waits"]
           Reads == [at |-> "reads", tok |-> calls[w][c].tok]
<1>0. Waits.at = "waits" /\ Waits.tok = calls[w][c].tok /\ Reads.at = "reads" /\ Reads.tok = calls[w][c].tok
  BY Numbers DEF CallRecords
<1>1. /\ ~ At(w, c, "idle") /\ UNCHANGED <<stored, live, good, minted, faults, crossed>>
      /\ Moves(w, c, Waits) /\ flight' = [flight EXCEPT ![w] = IF @ = NoFlight THEN Reads ELSE @]
  BY DEF RefreshAccessTokenOnce, At, serverVars
<1> HIDE DEF Waits, Reads
<1>2. calls'[w][c] = Waits /\ \A v \in Windows, b \in Calls : v # w \/ b # c => calls'[v][b] = calls[v][b]
  BY <1>1 DEF TypeOK, Moves
<1>3. \A v \in Windows : CalmFlight(v)
  <2>1. calls[w][c].tok <= minted
    BY DEF CauseInv, Given
  <2> QED
    BY <1>0, <1>1, <2>1 DEF TypeOK, CalmFlight
<1>4. ASSUME NEW v \in Windows, NEW b \in Calls
      PROVE  CalmCall(v, b)
  <2>1. CASE v = w /\ b = c
    BY <1>0, <1>1, <1>2, <2>1 DEF CalmCall
  <2>2. CASE v # w \/ b # c
    BY <1>2, <2>2 DEF CalmCall, At, CauseInv, Given
  <2> QED
    BY <2>1, <2>2
<1>5. CalmTokens
  BY <1>1 DEF CalmTokens, Plain
<1> QED
  BY <1>3, <1>4, <1>5, CalmCause

\* The calls that wait are told of the end of their attempt, and the others are left alone.
LEMMA DropsCalls ==
    ASSUME TypeOK, NEW w \in Windows, Drops(w), NEW v \in Windows, NEW b \in Calls
    PROVE  /\ calls'[v][b].tok = calls[v][b].tok
           /\ \/ calls'[v][b].at = calls[v][b].at
              \/ v = w /\ calls[v][b].at = "waits" /\ calls'[v][b].at = "drops"
<1>0. calls[w][b] \in CallRecords
  BY Numbers
<1>1. CASE v = w /\ At(w, b, "waits")
  <2>1. calls'[w][b] = [calls[w][b] EXCEPT !.at = "drops"]
    BY <1>1, DropsIs
  <2> QED
    BY <1>0, <1>1, <2>1 DEF CallRecords, At
<1>2. CASE v = w /\ ~ At(w, b, "waits")
  BY <1>2, DropsIs
<1>3. CASE v # w
  BY <1>3, DropsIs
<1> QED
  BY <1>1, <1>2, <1>3

LEMMA TriesCalls ==
    ASSUME TypeOK, NEW w \in Windows, NEW tok, Tries(w, tok), NEW v \in Windows, NEW b \in Calls
    PROVE  \/ calls'[v][b] = calls[v][b]
           \/ v = w /\ calls[v][b].at = "waits" /\ calls'[v][b].at = "again" /\ calls'[v][b].tok = tok
<1>0. calls[w][b] \in CallRecords
  BY Numbers
<1>1. CASE v = w /\ At(w, b, "waits")
  <2>1. calls'[w][b] = [calls[w][b] EXCEPT !.at = "again", !.tok = tok]
    BY <1>1, TriesIs
  <2> QED
    BY <1>0, <1>1, <2>1 DEF CallRecords, At
<1>2. CASE v = w /\ ~ At(w, b, "waits")
  BY <1>2, TriesIs
<1>3. CASE v # w
  BY <1>3, TriesIs
<1> QED
  BY <1>1, <1>2, <1>3

\* The attempt finds the storage empty, and there is no hope.
LEMMA EmptyCause ==
    ASSUME TypeOK, TypeOK', Shares, CauseInv, NEW w \in Windows, flight[w].at = "reads", stored.tok = 0, Drops(w),
           UNCHANGED <<stored, live, good, minted, faults, crossed>>
    PROVE  CauseInv'
<1>1. PICK c \in Calls : At(w, c, "waits")
  BY DEF Shares, SharesIn
<1>2. Plain => Hopeless
  BY <1>1 DEF CauseInv, PlainInv, Busy, At
<1>3. \A v \in Windows : CalmFlight(v)
  BY DropsIs DEF TypeOK, CalmFlight
<1>4. ASSUME NEW v \in Windows, NEW b \in Calls
      PROVE  CalmCall(v, b)
  <2>1. /\ calls'[v][b].tok = calls[v][b].tok
        /\ \/ calls'[v][b].at = calls[v][b].at
           \/ calls[v][b].at = "waits" /\ calls'[v][b].at = "drops"
    BY DropsCalls
  <2> QED
    BY <1>2, <2>1 DEF CalmCall, At, CauseInv, Given
<1>5. CalmTokens
  BY DEF CalmTokens, Plain
<1> QED
  BY <1>3, <1>4, <1>5, CalmCause

\* It finds a newer pair, which those who wait try.
LEMMA NewerCause ==
    ASSUME TypeOK, TypeOK', Shares, CauseInv, NEW w \in Windows, flight[w].at = "reads",
           stored.tok \notin {0, flight[w].tok}, Tries(w, stored.tok),
           UNCHANGED <<stored, live, good, minted, faults, crossed>>
    PROVE  CauseInv'
<1>1. flight'[w] = NoFlight /\ \A v \in Windows \ {w} : flight'[v] = flight[v]
  BY DEF TypeOK, Tries, Ends
<1>2. NoFlight.tok = 0 /\ NoFlight.at = "none" /\ 0 <= minted
  BY Numbers DEF NoFlight
<1>3. Given'
  BY <1>1, <1>2, TriesCalls DEF CauseInv, Given
<1>4. ASSUME Plain PROVE PlainInv'
  <2>0. PlainInv
    BY <1>4 DEF CauseInv
  <2>1. PICK c \in Calls : At(w, c, "waits") /\ calls[w][c].tok = flight[w].tok
    BY DEF Shares, SharesIn
  <2>2. live = 0 \/ stored.tok \in good
    <3>1. CallKnows(w, c)
      BY <2>0, <2>1 DEF PlainInv, At
    <3> QED
      BY <2>1, <3>1, Numbers DEF CallKnows
  <2>3. \A v \in Windows, b \in Calls :
          \/ calls'[v][b] = calls[v][b]
          \/ /\ v = w /\ calls[v][b].at = "waits" /\ calls'[v][b].at = "again"
             /\ calls'[v][b].tok = stored.tok
    BY TriesCalls
  <2>4. ASSUME NEW v \in Windows PROVE FlightKnows(v)'
    <3>1. FlightKnows(v)
      BY <2>0 DEF PlainInv
    <3>2. CASE v = w
      BY <1>1, <1>2, <3>2 DEF FlightKnows
    <3>3. CASE v # w
      BY <1>1, <2>3, <3>1, <3>3 DEF FlightKnows, At
    <3> QED
      BY <3>2, <3>3
  <2>5. ASSUME NEW v \in Windows, NEW b \in Calls, ~ At(v, b, "idle")' PROVE CallKnows(v, b)'
    <3>1. CASE calls'[v][b] = calls[v][b]
      <4>1. CallKnows(v, b)
        BY <2>0, <2>5, <3>1 DEF PlainInv, At
      <4> QED
        BY <3>1, <4>1 DEF CallKnows, At
    <3>2. CASE calls'[v][b].at = "again" /\ calls'[v][b].tok = stored.tok
      BY <2>2, <3>2, Numbers DEF CallKnows, At
    <3> QED
      BY <2>3, <3>1, <3>2
  <2>6. ASSUME Dropping' PROVE Hopeless'
    <3>1. Dropping
      BY <2>3, <2>6 DEF Dropping, At
    <3> QED
      BY <1>1, <1>2, <2>0, <3>1 DEF PlainInv, Hopeless
  <2>7. (\A u, v \in Windows : flight[u].at \in {"sent", "got"} /\ flight[v].at \in {"sent", "got"} => u = v)'
    BY <1>1, <1>2, <2>0 DEF PlainInv
  <2> QED
    BY <2>4, <2>5, <2>6, <2>7 DEF PlainInv
<1> QED
  BY <1>3, <1>4 DEF CauseInv, Plain

\* It asks with the pair that is stored.
LEMMA SentCause ==
    ASSUME TypeOK, TypeOK', Shares, CauseInv, NEW w \in Windows, flight[w].at = "reads",
           stored.tok # 0, stored.tok = flight[w].tok, flight' = [flight EXCEPT ![w].at = "sent"],
           crossed' = (crossed \/ \E v \in Windows \ {w} : flight[v].at \in {"sent", "got"}),
           UNCHANGED <<stored, calls, live, good, minted, faults>>
    PROVE  CauseInv'
<1>1. /\ flight'[w].at = "sent" /\ flight'[w].tok = stored.tok
      /\ \A v \in Windows \ {w} : flight'[v] = flight[v]
  BY Numbers DEF TypeOK, Attempts
<1>2. Given'
  BY <1>1 DEF CauseInv, Given
<1>3. ASSUME Plain' PROVE PlainInv'
  <2>0. PlainInv
    BY <1>3 DEF CauseInv, Plain
  <2>1. \A v \in Windows \ {w} : flight[v].at \notin {"sent", "got"}
    <3>1. ~ crossed'
      BY <1>3 DEF Plain
    <3> QED
      BY <3>1, Zenon
  <2>2. \A v \in Windows : FlightKnows(v)'
    BY <1>1, <2>1 DEF FlightKnows
  <2>3. ASSUME NEW v \in Windows, NEW b \in Calls, ~ At(v, b, "idle")' PROVE CallKnows(v, b)'
    <3>1. CallKnows(v, b)
      BY <2>0, <2>3 DEF PlainInv, At
    <3> QED
      BY <3>1 DEF CallKnows, At
  <2>4. ASSUME Dropping' PROVE Hopeless'
    <3>1. stored.tok # live
      BY <2>0, <2>4 DEF PlainInv, Hopeless, Dropping, At
    <3> QED
      BY <1>1, <2>1, <3>1 DEF Hopeless
  <2> QED
    BY <1>1, <2>1, <2>2, <2>3, <2>4 DEF PlainInv
<1> QED
  BY <1>2, <1>3 DEF CauseInv

LEMMA ReadStoredCause ==
    ASSUME TypeOK, TypeOK', Shares, CauseInv, NEW w \in Windows, ReadStored(w)
    PROVE  CauseInv'
<1>1. flight[w].at = "reads" /\ UNCHANGED <<stored, live, good, minted, faults>>
  BY DEF ReadStored, serverVars
<1>2. CASE stored.tok = 0 /\ Drops(w) /\ crossed' = crossed
  BY <1>1, <1>2, EmptyCause
<1>3. CASE stored.tok \notin {0, flight[w].tok} /\ Tries(w, stored.tok) /\ crossed' = crossed
  BY <1>1, <1>3, NewerCause
<1>4. CASE /\ stored.tok # 0 /\ stored.tok = flight[w].tok
           /\ flight' = [flight EXCEPT ![w].at = "sent"] /\ calls' = calls
           /\ crossed' = (crossed \/ \E v \in Windows \ {w} : flight[v].at \in {"sent", "got"})
  BY <1>1, <1>4, SentCause
<1> QED
  BY <1>2, <1>3, <1>4 DEF ReadStored

\* The pair turns: nobody holds a newer one.
LEMMA TurnCause ==
    ASSUME TypeOK, TypeOK', Shares, CauseInv, NEW w \in Windows, Refresh(w)
    PROVE  CauseInv'
<1> DEFINE Got == [at |-> "got", tok |-> minted + 1]
<1>1. /\ flight[w].at = "sent" /\ flight[w].tok = live /\ minted' = minted + 1 /\ live' = minted + 1
      /\ good' = good \cup {minted + 1} /\ flight' = [flight EXCEPT ![w] = Got]
      /\ UNCHANGED <<stored, calls, faults, crossed>>
  BY DEF Refresh, Mint
<1>2. Got.at = "got" /\ Got.tok = minted + 1
  OBVIOUS
<1> HIDE DEF Got
<1>3. flight'[w] = Got /\ \A v \in Windows \ {w} : flight'[v] = flight[v]
  BY <1>1 DEF TypeOK
<1>4. Given'
  BY <1>1, <1>2, <1>3, Numbers DEF CauseInv, Given
<1>5. ASSUME Plain' PROVE PlainInv'
  <2>0. PlainInv /\ FlightKnows(w)
    BY <1>1, <1>5 DEF CauseInv, Plain, PlainInv
  <2>1. \A v \in Windows \ {w} : flight'[v].at \notin {"sent", "got"}
    BY <1>1, <1>3, <2>0 DEF PlainInv
  <2>2. ~ Hopeless /\ live # 0
    BY <1>1, <2>0 DEF Hopeless, FlightKnows
  <2>3. FlightKnows(w)'
    <3>1. /\ flight'[w].at = "got" /\ flight'[w].tok = minted' /\ flight'[w].tok # 0
          /\ stored'.tok < flight'[w].tok /\ flight'[w].tok \in good'
      BY <1>1, <1>2, <1>3, Numbers DEF CauseInv, Given
    <3>2. \A v \in Windows, c \in Calls : calls'[v][c].tok < flight'[w].tok
      BY <1>1, <1>2, <1>3, Numbers DEF CauseInv, Given
    <3> QED
      BY <3>1, <3>2 DEF FlightKnows
  <2>4. \A v \in Windows : FlightKnows(v)'
    BY <2>1, <2>3 DEF FlightKnows
  <2>5. ASSUME NEW v \in Windows, NEW b \in Calls, ~ At(v, b, "idle")' PROVE CallKnows(v, b)'
    <3>1. CallKnows(v, b)
      BY <1>1, <2>0, <2>5 DEF PlainInv, At
    <3> QED
      BY <1>1, <2>2, <3>1 DEF CallKnows, At
  <2>6. ~ Dropping' /\ ~ (Busy /\ stored.tok = 0)'
    BY <1>1, <2>0, <2>2 DEF PlainInv, Dropping, Busy, At
  <2> QED
    BY <2>1, <2>4, <2>5, <2>6 DEF PlainInv
<1> QED
  BY <1>4, <1>5 DEF CauseInv

\* An attempt is refused when the server has no longer any use for what is stored.
LEMMA RefusedCause ==
    ASSUME TypeOK, TypeOK', Shares, CauseInv, NEW w \in Windows, RefreshFails(w)
    PROVE  CauseInv'
<1>1. /\ Drops(w) /\ flight' = [flight EXCEPT ![w] = NoFlight]
      /\ UNCHANGED <<stored, live, good, minted, crossed>>
      /\ \/ flight[w].at = "sent" /\ flight[w].tok # live /\ faults' = faults
         \/ Fault
  BY DEF RefreshFails, serverVars, Drops, Ends
<1>2. \A v \in Windows : flight'[v] = flight[v] \/ flight'[v] = NoFlight
  BY <1>1 DEF TypeOK
<1>4. ASSUME NEW v \in Windows, NEW b \in Calls
      PROVE  /\ calls'[v][b].tok = calls[v][b].tok
             /\ \/ calls'[v][b].at = calls[v][b].at
                \/ v = w /\ calls[v][b].at = "waits" /\ calls'[v][b].at = "drops"
  BY <1>1, DropsCalls
<1>5. CASE Fault
  <2>1. ~ Plain'
    BY <1>5, Numbers DEF Fault, Plain
  <2>2. Given'
    <3>1. NoFlight.tok = 0 /\ 0 <= minted
      BY Numbers DEF NoFlight
    <3> QED
      BY <1>1, <1>2, <1>4, <3>1 DEF CauseInv, Given
  <2> QED
    BY <2>1, <2>2 DEF CauseInv
<1>6. CASE flight[w].at = "sent" /\ flight[w].tok # live /\ faults' = faults
  <2>1. ASSUME Plain PROVE Hopeless
    <3>1. PlainInv /\ FlightKnows(w)
      BY <2>1 DEF CauseInv, PlainInv
    <3>2. stored.tok = 0 \/ stored.tok # live
      BY <1>6, <3>1 DEF FlightKnows
    <3>3. \A v \in Windows : flight[v].at \in {"sent", "got"} => v = w
      BY <1>6, <3>1 DEF PlainInv
    <3> QED
      BY <1>6, <3>2, <3>3 DEF Hopeless
  <2>2. ASSUME NEW v \in Windows, NEW b \in Calls
        PROVE  CalmCall(v, b)
    BY <1>4, <2>1 DEF CalmCall, At, CauseInv, Given
  <2> QED
    <3>1. CalmTokens
      BY <1>1, <1>6 DEF CalmTokens, Plain
    <3>2. \A v \in Windows : CalmFlight(v)
      BY <1>2 DEF CalmFlight
    <3> QED
      BY <2>2, <3>1, <3>2, CalmCause
<1> QED
  BY <1>1, <1>5, <1>6

\* The new pair is written, and those who waited try again with it.
LEMMA PersistCause ==
    ASSUME TypeOK, TypeOK', Shares, CauseInv, NEW w \in Windows, Persist(w)
    PROVE  CauseInv'
<1> DEFINE tok == flight[w].tok
<1>1. /\ flight[w].at = "got" /\ stored'.tok = tok /\ flight' = [flight EXCEPT ![w] = NoFlight]
      /\ UNCHANGED <<live, good, minted, faults, crossed>>
  BY DEF Persist, Tries, Ends, serverVars
<1>2. flight'[w] = NoFlight /\ \A v \in Windows \ {w} : flight'[v] = flight[v]
  BY <1>1 DEF TypeOK
<1>4. ASSUME NEW v \in Windows, NEW b \in Calls
      PROVE  \/ calls'[v][b] = calls[v][b]
             \/ v = w /\ calls[v][b].at = "waits" /\ calls'[v][b].at = "again" /\ calls'[v][b].tok = tok
  BY TriesCalls DEF Persist
<1>5. NoFlight.tok = 0 /\ NoFlight.at = "none" /\ 0 <= minted /\ tok \in Nat
  BY Numbers DEF NoFlight
<1>6. Given'
  <2>1. tok <= minted
    BY DEF CauseInv, Given
  <2> QED
    BY <1>1, <1>2, <1>4, <1>5, <2>1 DEF CauseInv, Given
<1>7. ASSUME Plain PROVE PlainInv'
  <2>0. PlainInv /\ FlightKnows(w)
    BY <1>7 DEF CauseInv, PlainInv
  <2>1. \A v \in Windows : flight'[v].at \notin {"sent", "got"}
    BY <1>1, <1>2, <1>5, <2>0 DEF PlainInv
  <2>2. /\ tok # 0 /\ (live = 0 \/ tok \in good)
        /\ \A v \in Windows, b \in Calls : ~ At(v, b, "idle") => calls[v][b].tok < tok
    BY <1>1, <2>0 DEF FlightKnows
  <2> HIDE DEF tok
  <2>3. ASSUME NEW v \in Windows, NEW b \in Calls, ~ At(v, b, "idle")' PROVE CallKnows(v, b)'
    <3>1. CASE calls'[v][b] = calls[v][b]
      <4>1. CallKnows(v, b) /\ calls[v][b].tok < tok
        BY <2>0, <2>2, <2>3, <3>1 DEF PlainInv, At
      <4> QED
        BY <1>1, <1>5, <2>2, <3>1, <4>1, Numbers DEF CallKnows, At
    <3>2. CASE calls'[v][b].at = "again" /\ calls'[v][b].tok = tok
      BY <1>1, <1>5, <2>2, <3>2 DEF CallKnows
    <3> QED
      BY <1>4, <3>1, <3>2
  <2>4. ASSUME Dropping' PROVE Hopeless'
    <3>1. Dropping
      BY <1>4, <2>4 DEF Dropping, At
    <3>2. live = 0
      BY <1>1, <2>0, <3>1 DEF PlainInv, Hopeless
    <3> QED
      BY <1>1, <2>1, <2>2, <3>2 DEF Hopeless
  <2>5. \A v \in Windows : FlightKnows(v)'
    BY <2>1 DEF FlightKnows
  <2> QED
    BY <1>1, <2>1, <2>2, <2>3, <2>4, <2>5 DEF PlainInv
<1> QED
  BY <1>1, <1>6, <1>7 DEF CauseInv, Plain

\* The session is dropped: there was no hope, and there still is none.
LEMMA DropCause ==
    ASSUME TypeOK, TypeOK', Shares, CauseInv, NEW w \in Windows, NEW c \in Calls, ClearStored(w, c)
    PROVE  CauseInv'
<1>1. /\ At(w, c, "drops") /\ stored'.tok = 0 /\ Moves(w, c, NoCall)
      /\ UNCHANGED <<flight, live, good, minted, faults, crossed>>
  BY DEF ClearStored, serverVars, NoStored
<1>2. NoCall.tok = 0 /\ NoCall.at = "idle" /\ 0 <= minted
  BY Numbers DEF NoCall
<1>3. \A v \in Windows, b \in Calls : calls'[v][b] = NoCall \/ calls'[v][b] = calls[v][b]
  BY <1>1 DEF TypeOK, Moves
<1>4. Given'
  BY <1>1, <1>2, <1>3 DEF CauseInv, Given
<1>5. ASSUME Plain PROVE PlainInv'
  <2>0. PlainInv /\ Hopeless
    BY <1>1, <1>5 DEF CauseInv, PlainInv, Dropping
  <2>1. ASSUME NEW v \in Windows PROVE FlightKnows(v)'
    <3>1. FlightKnows(v)
      BY <2>0 DEF PlainInv
    <3> QED
      BY <1>1, <1>2, <1>3, <3>1, Numbers DEF FlightKnows, At
  <2>2. ASSUME NEW v \in Windows, NEW b \in Calls, ~ At(v, b, "idle")' PROVE CallKnows(v, b)'
    <3>1. calls'[v][b] = calls[v][b]
      BY <1>2, <1>3, <2>2 DEF At
    <3>2. CallKnows(v, b)
      BY <2>0, <2>2, <3>1 DEF PlainInv, At
    <3> QED
      BY <1>1, <3>1, <3>2, Numbers DEF CallKnows, At
  <2>3. Hopeless'
    BY <1>1, <2>0 DEF Hopeless
  <2>4. (\A u, v \in Windows : flight[u].at \in {"sent", "got"} /\ flight[v].at \in {"sent", "got"} => u = v)'
    BY <1>1, <2>0 DEF PlainInv
  <2> QED
    BY <2>1, <2>2, <2>3, <2>4 DEF PlainInv
<1> QED
  BY <1>1, <1>4, <1>5 DEF CauseInv, Plain

\* A session that was over is cleared: it was not open again, and nobody else was under way.
LEMMA ClearOverCause ==
    ASSUME TypeOK, TypeOK', Shares, CauseInv, NEW w \in Windows, NEW c \in Calls, ClearOver(w, c)
    PROVE  CauseInv'
<1> DEFINE Others == \E v \in Windows, b \in Calls : (v # w \/ b # c) /\ ~ At(v, b, "idle")
<1>1. /\ At(w, c, "over") /\ stored'.tok = 0 /\ Moves(w, c, NoCall) /\ (Others => crossed')
      /\ UNCHANGED <<flight, live, good, minted, faults>>
  BY DEF ClearOver, serverVars, NoStored
<1> HIDE DEF Others
<1>2. NoCall.tok = 0 /\ NoCall.at = "idle" /\ 0 <= minted
  BY Numbers DEF NoCall
<1>3. calls'[w][c] = NoCall /\ \A v \in Windows, b \in Calls : v # w \/ b # c => calls'[v][b] = calls[v][b]
  BY <1>1 DEF TypeOK, Moves
<1>4. Given'
  BY <1>1, <1>2, <1>3 DEF CauseInv, Given
<1>5. ASSUME Plain' PROVE PlainInv'
  <2>1. \A v \in Windows, b \in Calls : v # w \/ b # c => At(v, b, "idle")
    BY <1>1, <1>5 DEF Plain, Others
  <2>2. \A v \in Windows, b \in Calls : At(v, b, "idle")'
    BY <1>2, <1>3, <2>1 DEF At
  <2>3. \A v \in Windows, b \in Calls : ~ At(v, b, "waits")
    BY <1>1, <2>1 DEF At
  <2>4. \A v \in Windows : flight'[v].at = "none"
    BY <1>1, <2>3 DEF Shares, SharesIn
  <2>5. ~ Dropping' /\ ~ Busy'
    BY <2>2 DEF Dropping, Busy, At
  <2>6. \A v \in Windows : FlightKnows(v)'
    BY <2>4 DEF FlightKnows
  <2> QED
    BY <2>2, <2>4, <2>5, <2>6 DEF PlainInv
<1> QED
  BY <1>4, <1>5 DEF CauseInv

LEMMA CauseInit == Init => CauseInv
<1> SUFFICES ASSUME Init PROVE CauseInv
  OBVIOUS
<1>1. /\ stored.tok = 0 /\ minted = 0 /\ \A w \in Windows : flight[w].at = "none" /\ flight[w].tok = 0
      /\ \A w \in Windows, c \in Calls : calls[w][c].at = "idle" /\ calls[w][c].tok = 0
  BY DEF Init, NoStored, NoFlight, NoCall
<1>2. \A w \in Windows : FlightKnows(w)
  BY <1>1 DEF FlightKnows
<1>3. ~ Dropping /\ ~ Busy
  BY <1>1 DEF Dropping, Busy, At
<1> QED
  BY <1>1, <1>2, <1>3 DEF CauseInv, Given, PlainInv, At

LEMMA CauseNext ==
    ASSUME TypeOK, TypeOK', Shares, CauseInv, [Next]_vars
    PROVE  CauseInv'
<1>1. CASE UNCHANGED vars
  BY <1>1 DEF vars, CauseInv, Given, Plain, PlainInv, FlightKnows, CallKnows, Dropping, Busy, Hopeless, At
<1>2. ASSUME NEW w \in Windows, Actors(w) PROVE CauseInv'
  BY <1>2, WindowsCause, ReadStoredCause, TurnCause, RefusedCause, PersistCause DEF Actors
<1>3. ASSUME NEW w \in Windows, NEW c \in Calls, Callers(w, c) PROVE CauseInv'
  BY <1>3, ReadCause, ClearOverCause, CallCause, AskCause, DropCause DEF Callers
<1> QED
  BY <1>1, <1>2, <1>3, NextCases, ExpiresCause, QuietCause

\* What crossed once has crossed.
LEMMA CrossedStays ==
    ASSUME TypeOK, Next, crossed
    PROVE  crossed'
<1>1. ASSUME NEW w \in Windows, Actors(w) PROVE crossed'
  BY <1>1 DEF Actors, Closes, App, LoginScreen, Login, TfaScreen, VerifyDeviceAndLogin, PersistSession, Logout,
       LoggedOut, ReadStored, Refresh, RefreshFails, Persist
<1>2. ASSUME NEW w \in Windows, NEW c \in Calls, Callers(w, c) PROVE crossed'
  BY <1>2 DEF Callers, GetActiveSession, ClearOver, WriteStored, AuthorizedRequest, RefreshAccessTokenOnce,
       TriesAgain, ClearStored
<1> QED
  BY <1>1, <1>2, NextCases DEF Expires, Revoked, Lapses, OpenPopup

\* The session is dropped without a word to the person only when the server honours it no
\* more, unless an answer was lost, a call wrote over a newer session, outlived the end
\* of one or clears one that was open again, or two windows asked for a pair at once
\* (session.ts, refreshAccessTokenOnce).
THEOREM DroppedForCauseHolds == Spec => DroppedForCause
<1> DEFINE Dropped == stored.tok # 0 /\ stored.tok = live /\ ~ stored.late /\ stored'.tok = 0
           Caused == crossed' \/ faults > 0 \/ \E w \in Windows : shows[w] = "leaving"
<1>1. ASSUME TypeOK, CauseInv, Next, Dropped PROVE Caused
  <2>0. stored' # stored
    BY <1>1
  <2>a. crossed => crossed'
    BY <1>1, CrossedStays
  <2>1. CASE \/ \E n \in Pairs : Expires(n)
             \/ Revoked \/ Lapses \/ OpenPopup
    BY <1>1, <2>0, <2>1 DEF TypeOK, Expires, Revoked, Lapses, OpenPopup
  <2>2. ASSUME NEW w \in Windows, Actors(w) PROVE Caused
    <3>1. CASE LoggedOut(w)
      BY <3>1 DEF LoggedOut
    <3>2. CASE LoginScreen(w) \/ TfaScreen(w)
      <4>1. PersistSession
        BY <2>0, <3>2 DEF LoginScreen, Login, TfaScreen, VerifyDeviceAndLogin
      <4> QED
        BY <1>1, <4>1, Numbers DEF PersistSession
    <3>3. CASE App(w)
      BY <1>1, <2>0, <3>3 DEF App
    <3>4. CASE Persist(w)
      <4>1. stored'.tok = flight[w].tok /\ flight[w].at = "got"
        BY <3>4 DEF Persist
      <4>2. ASSUME Plain PROVE flight[w].tok # 0
        BY <1>1, <4>1, <4>2 DEF CauseInv, PlainInv, FlightKnows
      <4>3. ~ Plain
        BY <1>1, <4>1, <4>2
      <4> QED
        BY <1>1, <2>a, <4>3, Numbers DEF Plain
    <3>5. CASE Closes(w) \/ Logout(w) \/ ReadStored(w) \/ Refresh(w) \/ RefreshFails(w)
      BY <2>0, <3>5 DEF Closes, Logout, ReadStored, Refresh, RefreshFails
    <3> QED
      BY <2>2, <3>1, <3>2, <3>3, <3>4, <3>5 DEF Actors
  <2>3. ASSUME NEW w \in Windows, NEW c \in Calls, Callers(w, c) PROVE Caused
    <3>1. CASE ClearStored(w, c)
      <4>1. Dropping
        BY <3>1 DEF ClearStored, Dropping
      <4>2. ~ Plain
        BY <1>1, <4>1 DEF CauseInv, PlainInv, Hopeless
      <4> QED
        BY <1>1, <2>a, <4>2, Numbers DEF Plain
    <3>2. CASE WriteStored(w, c)
      <4>1. stored'.tok = calls[w][c].tok /\ ~ At(w, c, "idle")
        BY <3>2 DEF WriteStored, At
      <4>2. ASSUME Plain PROVE calls[w][c].tok # 0
        BY <1>1, <4>1, <4>2 DEF CauseInv, PlainInv, CallKnows
      <4>3. ~ Plain
        BY <1>1, <4>1, <4>2
      <4> QED
        BY <1>1, <2>a, <4>3, Numbers DEF Plain
    <3>3. CASE ClearOver(w, c)
      BY <1>1, <3>3 DEF ClearOver
    <3>4. CASE GetActiveSession(w, c) \/ AuthorizedRequest(w, c) \/ RefreshAccessTokenOnce(w, c) \/ TriesAgain(w, c)
      BY <2>0, <3>4 DEF GetActiveSession, AuthorizedRequest, RefreshAccessTokenOnce, TriesAgain
    <3> QED
      BY <2>3, <3>1, <3>2, <3>3, <3>4 DEF Callers
  <2> QED
    BY <1>1, <2>1, <2>2, <2>3, NextCases
<1>2. TypeOK /\ CauseInv /\ [Next]_vars => [Dropped => Caused]_vars
  BY <1>1
<1> QED
  BY <1>2, TypeCorrect, SharesInit, SharesNext, CauseInit, CauseNext, PTL DEF Spec, DroppedForCause
=============================================================================
