------------------------------- MODULE Popup -------------------------------
(***************************************************************************)
(* The session of the browser extension.  It lives in the storage that the *)
(* anchored popup and the standalone window share, and each of them reads  *)
(* it, calls the server, and writes it back: between two of these steps    *)
(* the other calls, of either window, take theirs.                         *)
(*                                                                         *)
(* Access and refresh tokens come in pairs, numbered.  The server honours  *)
(* one refresh token of the device at a time (session.rs).  A call that is *)
(* refused asks for a new pair; the calls of a window share one attempt.   *)
(***************************************************************************)
EXTENDS Naturals, FiniteSets

CONSTANTS
    Windows,     \* some of "popup", anchored, and "window", standalone
    Calls,       \* the calls a window makes at a time
    MaxCalls,    \* bound: calls under way, all windows together
    Modes,       \* how the window may be set: "always", "tfa", "never"
    MaxPair,     \* bound: pairs of tokens
    MaxFaults    \* bound: answers lost or refused for another reason

ASSUME PopupAssumption ==
       /\ Windows \subseteq {"popup", "window"} /\ MaxPair \in Nat \ {0} /\ MaxFaults \in Nat /\ MaxCalls \in Nat
       /\ Modes \subseteq {"always", "tfa", "never"}

VARIABLES
    mode,      \* setting windowMode
    stored,    \* passmanager.session: the pair it holds, 0 if there is none; is lockAt over
    pending,   \* passmanager.pendingTfa
    shows,     \* window -> the screen it shows
    calls,     \* window -> call -> where it is, its pair, had it read an open session
    flight,    \* window -> refreshInFlight
    live,      \* server: the refresh token it honours, 0 if there is none
    good,      \* server: the access tokens it accepts
    minted,    \* server: pairs given so far
    trusted,   \* server: is the device trusted
    faults,
    crossed    \* history: a call wrote over a newer session or cleared one that was open
               \* again, outlived the end of a session or a sign-in, or two windows asked
               \* for a pair at once

vars == <<mode, stored, pending, shows, calls, flight, live, good, minted, trusted, faults, crossed>>

Pairs == 0..MaxPair
NoStored == [tok |-> 0, late |-> FALSE]
NoCall == [at |-> "idle", tok |-> 0, open |-> FALSE]
NoFlight == [at |-> "none", tok |-> 0]

Screens == {"closed", "loading", "login", "tfa", "vault", "leaving"}
CallRecords ==
    [at : {"idle", "over", "read", "sent", "failed", "waits", "again", "drops"}, tok : Pairs, open : BOOLEAN]
Attempts == [at : {"none", "reads", "sent", "got"}, tok : Pairs]

TypeOK ==
    /\ mode \in Modes /\ stored \in [tok : Pairs, late : BOOLEAN] /\ pending \in BOOLEAN
    /\ shows \in [Windows -> Screens] /\ calls \in [Windows -> [Calls -> CallRecords]]
    /\ flight \in [Windows -> Attempts]
    /\ live \in Pairs /\ good \subseteq Pairs /\ minted \in Pairs
    /\ trusted \in BOOLEAN /\ faults \in 0..MaxFaults /\ crossed \in BOOLEAN

Init ==
    /\ mode \in Modes /\ stored = NoStored /\ pending = FALSE
    /\ shows = [w \in Windows |-> "closed"] /\ calls = [w \in Windows |-> [c \in Calls |-> NoCall]]
    /\ flight = [w \in Windows |-> NoFlight]
    /\ live = 0 /\ good = {} /\ minted = 0 /\ trusted = FALSE /\ faults = 0 /\ crossed = FALSE

serverVars == <<live, good, minted, trusted>>
At(w, c, at) == calls[w][c].at = at
Busy == \E w \in Windows, c \in Calls : ~ At(w, c, "idle")
windowVars == <<shows, calls, flight>>

----------------------------------------------------------------------------
(* The server, and the faults of the network.                              *)

\* A new pair takes the place of the refresh token of the device.
Mint ==
    /\ minted < MaxPair /\ minted' = minted + 1
    /\ live' = minted + 1 /\ good' = good \cup {minted + 1}

\* An access token lasts ten minutes, longer than the calls that began before it was given.
\* Within the bound on pairs, the one in use expires only if another can be given.
Expires(n) ==
    /\ n \in good /\ (n = live => minted < MaxPair)
    /\ \A w \in Windows, c \in Calls :
        \/ At(w, c, "idle") \/ calls[w][c].tok > n \/ (calls[w][c].tok = n /\ ~ At(w, c, "again"))
    /\ good' = good \ {n}
    /\ UNCHANGED <<mode, stored, pending, windowVars, live, minted, trusted, faults, crossed>>

\* The account is signed out from elsewhere.
Revoked ==
    /\ live # 0 /\ live' = 0 /\ good' = {}
    /\ UNCHANGED <<mode, stored, pending, windowVars, minted, trusted, faults, crossed>>

Fault == faults < MaxFaults /\ faults' = faults + 1

\* lockWindowMs has gone by since the session was last written.
Lapses ==
    /\ stored.tok # 0 /\ ~ stored.late /\ stored' = [stored EXCEPT !.late = TRUE]
    /\ UNCHANGED <<mode, pending, windowVars, serverVars, faults, crossed>>

----------------------------------------------------------------------------
(* Windows and screens.                                                    *)

Shut(w) ==
    /\ shows' = [shows EXCEPT ![w] = "closed"]
    /\ calls' = [calls EXCEPT ![w] = [c \in Calls |-> NoCall]]
    /\ flight' = [flight EXCEPT ![w] = NoFlight]

\* A click on the icon.
OpenPopup ==
    /\ "popup" \in Windows /\ shows["popup"] = "closed" /\ shows' = [shows EXCEPT !["popup"] = "loading"]
    /\ UNCHANGED <<mode, stored, pending, calls, flight, serverVars, faults, crossed>>

\* The popup closes when it loses the focus, the window by hand: what they wait for is lost.
Closes(w) ==
    /\ shows[w] # "closed" /\ Shut(w)
    /\ UNCHANGED <<mode, stored, pending, serverVars, faults, crossed>>

OpenStandaloneAndClose ==
    /\ "window" \in Windows
    /\ shows' = [shows EXCEPT !["popup"] = "closed", !["window"] = IF @ = "closed" THEN "loading" ELSE @]
    /\ calls' = [calls EXCEPT !["popup"] = [c \in Calls |-> NoCall]]
    /\ flight' = [flight EXCEPT !["popup"] = NoFlight]

\* What is shown first: a second factor under way before a session.  The session is read
\* and written back as in a call, which shows what can come in between (WriteStored).
App(w) ==
    /\ shows[w] = "loading"
    /\ UNCHANGED <<mode, pending, serverVars, faults>>
    /\ \/ w = "popup" /\ mode = "always" /\ OpenStandaloneAndClose /\ UNCHANGED <<stored, crossed>>
       \/ /\ ~ (w = "popup" /\ mode = "always") /\ UNCHANGED <<calls, flight>>
          /\ IF pending THEN shows' = [shows EXCEPT ![w] = "tfa"] /\ UNCHANGED <<stored, crossed>>
             ELSE /\ stored' = IF stored.late THEN NoStored ELSE stored
                  /\ crossed' = (crossed \/ (stored.late /\ Busy))
                  /\ shows' = [shows EXCEPT ![w] = IF stored.tok = 0 \/ stored.late THEN "login" ELSE "vault"]

\* The answer is stored as soon as it comes.
PersistSession ==
    /\ Mint /\ stored' = [tok |-> minted + 1, late |-> FALSE] /\ crossed' = (crossed \/ Busy)

Login == trusted /\ PersistSession /\ trusted' = trusted

\* The code is accepted, and the device signs in.
VerifyDeviceAndLogin == PersistSession /\ trusted' = TRUE

LoginScreen(w) ==
    /\ shows[w] = "login" /\ UNCHANGED <<mode, faults>>
    /\ \/ /\ Login
          /\ shows' = [shows EXCEPT ![w] = "vault"] /\ UNCHANGED <<pending, calls, flight>>
       \/ /\ ~ trusted /\ w = "popup" /\ mode = "tfa"
          /\ pending' = TRUE /\ OpenStandaloneAndClose /\ UNCHANGED <<stored, serverVars, crossed>>
       \/ /\ ~ trusted /\ ~ (w = "popup" /\ mode = "tfa")
          /\ shows' = [shows EXCEPT ![w] = "tfa"] /\ UNCHANGED <<stored, pending, calls, flight, serverVars, crossed>>

\* Or the person gives up.
TfaScreen(w) ==
    /\ shows[w] = "tfa" /\ pending' = FALSE /\ UNCHANGED <<mode, faults>>
    /\ \/ /\ VerifyDeviceAndLogin
          /\ IF w = "window" /\ mode = "tfa" THEN Shut(w)
             ELSE shows' = [shows EXCEPT ![w] = "vault"] /\ UNCHANGED <<calls, flight>>
       \/ shows' = [shows EXCEPT ![w] = "login"] /\ UNCHANGED <<stored, calls, flight, serverVars, crossed>>

\* The token that is stored is given back, if the server can be reached; the storage is
\* cleared after that.
Logout(w) ==
    /\ shows[w] = "vault" /\ shows' = [shows EXCEPT ![w] = "leaving"]
    /\ \/ live' = (IF stored.tok = live THEN 0 ELSE live) /\ faults' = faults
       \/ live' = live /\ Fault
    /\ UNCHANGED <<mode, stored, pending, calls, flight, good, minted, trusted, crossed>>

LoggedOut(w) ==
    /\ shows[w] = "leaving" /\ shows' = [shows EXCEPT ![w] = "login"] /\ stored' = NoStored
    /\ crossed' = (crossed \/ Busy)
    /\ UNCHANGED <<mode, pending, calls, flight, serverVars, faults>>

----------------------------------------------------------------------------
(* Authorized calls.                                                       *)

Moves(w, c, call) == calls' = [calls EXCEPT ![w][c] = call]

MayCall(w, c) ==
    /\ shows[w] = "vault" /\ At(w, c, "idle") /\ stored.tok # 0
    /\ Cardinality({wc \in Windows \X Calls : ~ At(wc[1], wc[2], "idle")}) < MaxCalls

\* Variant: the session is used whether or not lockAt is over.
GetActiveSessionUnlocked(w, c) ==
    /\ MayCall(w, c)
    /\ Moves(w, c, [at |-> "read", tok |-> stored.tok, open |-> ~ stored.late]) /\ stored' = stored
    /\ UNCHANGED <<mode, pending, shows, flight, serverVars, faults, crossed>>

\* The storage is read.
GetActiveSession(w, c) ==
    /\ MayCall(w, c)
    /\ Moves(w, c, [at |-> IF stored.late THEN "over" ELSE "read", tok |-> stored.tok, open |-> ~ stored.late])
    /\ UNCHANGED <<mode, stored, pending, shows, flight, serverVars, faults, crossed>>

\* A session that was over is cleared, and the call is refused.
ClearOver(w, c) ==
    /\ At(w, c, "over") /\ stored' = NoStored /\ Moves(w, c, NoCall)
    /\ crossed' = (crossed \/ (stored.tok # 0 /\ ~ stored.late)
                           \/ \E v \in Windows, b \in Calls : <<v, b>> # <<w, c>> /\ ~ At(v, b, "idle"))
    /\ UNCHANGED <<mode, pending, shows, flight, serverVars, faults>>

\* What was read is written back, with a new lockAt.
WriteStored(w, c) ==
    /\ At(w, c, "read") /\ stored' = [tok |-> calls[w][c].tok, late |-> FALSE]
    /\ Moves(w, c, [calls[w][c] EXCEPT !.at = "sent"])
    /\ crossed' = (crossed \/ calls[w][c].tok # stored.tok)
    /\ UNCHANGED <<mode, pending, shows, flight, serverVars, faults>>

AuthorizedRequest(w, c) ==
    /\ At(w, c, "sent")
    /\ Moves(w, c, IF calls[w][c].tok \in good THEN NoCall ELSE [calls[w][c] EXCEPT !.at = "failed"])
    /\ UNCHANGED <<mode, stored, pending, shows, flight, serverVars, faults, crossed>>

\* Variant: every call that was refused asks for a pair of its own.
RefreshAccessTokenEach(w, c) ==
    /\ At(w, c, "failed")
    /\ IF stored.tok # 0 /\ calls[w][c].tok = live
       THEN Mint /\ stored' = [tok |-> minted + 1, late |-> FALSE]
            /\ Moves(w, c, [calls[w][c] EXCEPT !.at = "again", !.tok = minted + 1])
       ELSE Moves(w, c, [calls[w][c] EXCEPT !.at = "drops"]) /\ UNCHANGED <<stored, live, good, minted>>
    /\ UNCHANGED <<mode, pending, shows, flight, trusted, faults, crossed>>

\* The attempt under way is shared, or one begins.
RefreshAccessTokenOnce(w, c) ==
    /\ At(w, c, "failed") /\ Moves(w, c, [calls[w][c] EXCEPT !.at = "waits"])
    /\ flight' = [flight EXCEPT ![w] = IF @ = NoFlight THEN [at |-> "reads", tok |-> calls[w][c].tok] ELSE @]
    /\ UNCHANGED <<mode, stored, pending, shows, serverVars, faults, crossed>>

\* An attempt that ends ends for all who wait for it: badly, or with the pair to try.
Ends(w, ended) == calls' = [calls EXCEPT ![w] = ended] /\ flight' = [flight EXCEPT ![w] = NoFlight]

Drops(w) ==
    Ends(w, [c \in Calls |-> IF At(w, c, "waits") THEN [calls[w][c] EXCEPT !.at = "drops"] ELSE calls[w][c]])

Tries(w, tok) ==
    Ends(w, [c \in Calls |-> IF At(w, c, "waits") THEN [calls[w][c] EXCEPT !.at = "again", !.tok = tok] ELSE calls[w][c]])

\* The attempt reads the storage again, without a look at lockAt: it may hold a newer
\* pair, or nothing.
ReadStored(w) ==
    /\ flight[w].at = "reads"
    /\ \/ stored.tok = 0 /\ Drops(w) /\ crossed' = crossed
       \/ stored.tok \notin {0, flight[w].tok} /\ Tries(w, stored.tok) /\ crossed' = crossed
       \/ /\ stored.tok # 0 /\ stored.tok = flight[w].tok
          /\ flight' = [flight EXCEPT ![w].at = "sent"] /\ calls' = calls
          /\ crossed' = (crossed \/ \E v \in Windows \ {w} : flight[v].at \in {"sent", "got"})
    /\ UNCHANGED <<mode, stored, pending, shows, serverVars, faults>>

\* The pair turns.  The server refuses a token it has already taken back.
Refresh(w) ==
    /\ flight[w].at = "sent" /\ flight[w].tok = live /\ Mint
    /\ flight' = [flight EXCEPT ![w] = [at |-> "got", tok |-> minted + 1]]
    /\ UNCHANGED <<mode, stored, pending, shows, calls, trusted, faults, crossed>>

\* Variant: the calls that wait for an attempt are not told that it failed.
RefreshFailsUntold(w) ==
    /\ flight[w].at = "sent" /\ flight[w].tok # live
    /\ flight' = [flight EXCEPT ![w] = NoFlight]
    /\ UNCHANGED <<mode, stored, pending, shows, calls, serverVars, faults, crossed>>

\* It is refused, or the answer is lost.
RefreshFails(w) ==
    /\ \/ flight[w].at = "sent" /\ flight[w].tok # live /\ faults' = faults
       \/ flight[w].at \in {"sent", "got"} /\ Fault
    /\ Drops(w)
    /\ UNCHANGED <<mode, stored, pending, shows, serverVars, crossed>>

Persist(w) ==
    /\ flight[w].at = "got"
    /\ stored' = [tok |-> flight[w].tok, late |-> FALSE]
    /\ Tries(w, flight[w].tok)
    /\ UNCHANGED <<mode, pending, shows, serverVars, faults, crossed>>

\* The second try.  Whatever goes wrong with it ends the session as a failed refresh does.
TriesAgain(w, c) ==
    /\ At(w, c, "again")
    /\ \/ calls[w][c].tok \in good /\ Moves(w, c, NoCall) /\ faults' = faults
       \/ calls[w][c].tok \notin good /\ Moves(w, c, [calls[w][c] EXCEPT !.at = "drops"]) /\ faults' = faults
       \/ Moves(w, c, [calls[w][c] EXCEPT !.at = "drops"]) /\ Fault
    /\ UNCHANGED <<mode, stored, pending, shows, flight, serverVars, crossed>>

ClearStored(w, c) ==
    /\ At(w, c, "drops") /\ stored' = NoStored /\ Moves(w, c, NoCall)
    /\ UNCHANGED <<mode, pending, shows, flight, serverVars, faults, crossed>>

----------------------------------------------------------------------------
Next ==
    \/ \E n \in Pairs : Expires(n)
    \/ Revoked \/ Lapses \/ OpenPopup
    \/ \E w \in Windows :
        \/ Closes(w) \/ App(w) \/ LoginScreen(w) \/ TfaScreen(w) \/ Logout(w) \/ LoggedOut(w)
        \/ ReadStored(w) \/ Refresh(w) \/ RefreshFails(w) \/ Persist(w)
        \/ \E c \in Calls :
            \/ GetActiveSession(w, c) \/ ClearOver(w, c) \/ WriteStored(w, c) \/ AuthorizedRequest(w, c)
            \/ RefreshAccessTokenOnce(w, c) \/ TriesAgain(w, c) \/ ClearStored(w, c)

Spec == Init /\ [][Next]_vars

----------------------------------------------------------------------------
(* Properties.                                                             *)

\* The session is dropped without a word to the person only when the server honours it no
\* more, unless an answer was lost, a call wrote over a newer session, outlived the end
\* of one or clears one that was open again, or two windows asked for a pair at once
\* (session.ts, refreshAccessTokenOnce).
DroppedForCause ==
    [][stored.tok # 0 /\ stored.tok = live /\ ~ stored.late /\ stored'.tok = 0 =>
        \/ crossed' \/ faults > 0
        \/ \E w \in Windows : shows[w] = "leaving"]_vars

\* A session that was left or locked comes back only through a sign-in, or a call that had
\* read it while it was open (session.ts, getActiveSession).
StaysLocked ==
    [][(stored.tok = 0 \/ stored.late) /\ stored'.tok # 0 /\ ~ stored'.late =>
        \/ \E w \in Windows : shows[w] \in {"login", "tfa"} /\ shows'[w] # shows[w]
        \/ \E w \in Windows, c \in Calls : calls[w][c].open]_vars

\* No call waits for nothing: an attempt it shares is under way, in its own window, whoever
\* started it and however the last one ended (session.ts, refreshInFlight).
WaitsEnd == \A w \in Windows : (\E c \in Calls : At(w, c, "waits")) => flight[w].at # "none"

\* session.ts: « garantissant qu'UN SEUL appel réseau part », « Deux courses sont couvertes »:
\* the popup never asks for the master password again while the server honours the session.
KeptWhileHonoured ==
    [][stored.tok # 0 /\ stored.tok = live /\ ~ stored.late /\ stored'.tok = 0 =>
        \E w \in Windows : shows[w] = "leaving"]_vars
=============================================================================
