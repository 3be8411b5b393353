------------------------------ MODULE Session ------------------------------
(***************************************************************************)
(* The sessions of one account: sign-in on a trusted device, rotation of   *)
(* the refresh token, sign-out, revocation of a device and of everything,  *)
(* and the client that holds the tokens.                                   *)
(*                                                                         *)
(* A grant is what one answer of login or refresh carries: a refresh token *)
(* (single use, stored by the server) and an access token (not stored, and *)
(* refused when it was issued no later than the last revocation).  login   *)
(* runs statement by statement, without a transaction; refresh and the two *)
(* revocations are one transaction each.  The client keeps its tokens in   *)
(* memory only, and its calls overlap: a sign-out, a refresh and the end   *)
(* of a sign-in may be in progress at once.                                *)
(***************************************************************************)
EXTENDS Naturals, FiniteSets

CONSTANTS
    Devices,   \* installations of the client, each with a device_id
    Tokens,    \* bound: the grants a behaviour issues (random, never reused)
    MaxTime,   \* bound: seconds
    MaxBusy,   \* bound: clients with calls in progress, sockets with an event
    NoToken, Refused

ASSUME SessionAssumption ==
    /\ MaxTime \in Nat \ {0}
    /\ NoToken \notin Tokens /\ Refused \notin Tokens /\ NoToken # Refused
    /\ NoToken \notin Devices

VARIABLES
    clock,                \* seconds: CURRENT_TIMESTAMP, and the iat of a JWT
    trusted_devices,      \* table trusted_devices
    sessions_revoked_at,  \* the later of password_changed_at and this column
    grants,               \* table refresh_tokens, and the logins in progress
    client,               \* per device: AuthContext
    event                 \* the devices whose socket carries a SESSION_REVOKED

server == <<clock, trusted_devices, sessions_revoked_at, grants>>
vars == <<clock, trusted_devices, sessions_revoked_at, grants, client, event>>

(***************************************************************************)
(* A login in progress found its device trusted (checked), then deleted    *)
(* the tokens of the device (cleared); its grant is stored, then exchanged *)
(* for another by a refresh (rotated) or deleted (ended).  Ghosts: login   *)
(* is the grant of the sign-in it descends from; late says that a          *)
(* revocation came between that sign-in's check and its INSERT; revoked    *)
(* that all sessions were ended after the access token was issued.  Once   *)
(* the row is deleted only the access token is left of a grant.            *)
(***************************************************************************)
Grant == [stage : {"unused", "checked", "cleared", "stored", "rotated", "ended"},
          device : Devices \cup {NoToken}, iat : 0 .. MaxTime,
          login : Tokens \cup {NoToken}, late : BOOLEAN, revoked : BOOLEAN]

BlankGrant == [stage |-> "unused", device |-> NoToken, iat |-> 0,
               login |-> NoToken, late |-> FALSE, revoked |-> FALSE]

Over(g, stage) == [BlankGrant EXCEPT !.stage = stage, !.iat = g.iat, !.revoked = g.revoked]

At(stage) == {t \in Tokens : grants[t].stage = stage}
Entering == At("checked") \cup At("cleared")

(***************************************************************************)
(* The client: the tokens it shows itself signed in with (holds), the      *)
(* sign-in it awaits (signing), the tokens it will set again once GET /me  *)
(* answered (welcome), the refresh in flight (asks, answer), the sign-out  *)
(* in flight (leaving).  The ghost restored says that what it holds was    *)
(* set over newer tokens.                                                  *)
(***************************************************************************)
Client == [holds : Tokens \cup {NoToken}, signing : Tokens \cup {NoToken},
           welcome : Tokens \cup {NoToken}, asks : Tokens \cup {NoToken},
           answer : Tokens \cup {NoToken, Refused}, leaving : Tokens \cup {NoToken},
           restored : BOOLEAN]

BlankClient == [holds |-> NoToken, signing |-> NoToken, welcome |-> NoToken,
                asks |-> NoToken, answer |-> NoToken, leaving |-> NoToken,
                restored |-> FALSE]

TypeOK ==
    /\ clock \in 1 .. MaxTime
    /\ trusted_devices \subseteq Devices
    /\ sessions_revoked_at \in 0 .. MaxTime
    /\ grants \in [Tokens -> Grant]
    /\ client \in [Devices -> Client]
    /\ event \subseteq Devices

Init ==
    /\ clock = 1
    /\ trusted_devices = {}
    /\ sessions_revoked_at = 0
    /\ grants = [t \in Tokens |-> BlankGrant]
    /\ client = [d \in Devices |-> BlankClient]
    /\ event = {}

\* A client with a sign-in, a refresh or a sign-out in progress.
Busy(d) == \E f \in {"signing", "welcome", "asks", "answer", "leaving"} :
               client[d][f] # NoToken
MayCall(d) == Cardinality({c \in Devices : Busy(c)} \cup {d}) <= MaxBusy

\* Variant: a token of the very second of the revocation is accepted.
AcceptsSameSecond(t) == grants[t].iat >= sessions_revoked_at

\* The AuthUser check of an access token that has not expired by itself.
Accepts(t) == grants[t].iat > sessions_revoked_at

\* A second in which nothing was issued or revoked is like the next one.
Tick ==
    /\ clock < MaxTime
    /\ clock = sessions_revoked_at \/ \E t \in Tokens : grants[t].iat = clock
    /\ clock' = clock + 1
    /\ UNCHANGED <<trusted_devices, sessions_revoked_at, grants, client, event>>

\* verify_2fa_and_register_device, with the right code: the transaction.
TrustDevice(d) ==
    /\ d \notin trusted_devices
    /\ trusted_devices' = trusted_devices \cup {d}
    /\ UNCHANGED <<clock, sessions_revoked_at, grants, client, event>>

-----------------------------------------------------------------------------
(* login on a trusted device: four steps of the server, one of the client. *)

\* The client signs in; the server finds the device trusted and makes the JWT.
SignIn(d, t) ==
    /\ d \in trusted_devices /\ grants[t].stage = "unused"
    /\ client[d].signing = NoToken /\ MayCall(d)
    /\ grants' = [grants EXCEPT ![t] = [stage |-> "checked", device |-> d, iat |-> clock,
                                        login |-> t, late |-> FALSE, revoked |-> FALSE]]
    /\ client' = [client EXCEPT ![d].signing = t]
    /\ UNCHANGED <<clock, trusted_devices, sessions_revoked_at, event>>

\* DELETE FROM refresh_tokens of this device.
LoginClear(t) ==
    /\ grants[t].stage = "checked"
    /\ grants' = [x \in Tokens |->
                    IF x = t THEN [grants[x] EXCEPT !.stage = "cleared"]
                    ELSE IF x \in At("stored") /\ grants[x].device = grants[t].device
                         THEN Over(grants[x], "ended") ELSE grants[x]]
    /\ UNCHANGED <<clock, trusted_devices, sessions_revoked_at, client, event>>

\* INSERT INTO refresh_tokens, and the answer.
LoginStore(t) ==
    /\ grants[t].stage = "cleared"
    /\ grants' = [grants EXCEPT ![t].stage = "stored"]
    /\ UNCHANGED <<clock, trusted_devices, sessions_revoked_at, client, event>>

\* establishSession: setTokens, then GET /me, which may answer if it is accepted.
Established(d) ==
    LET t == client[d].signing IN
    /\ t # NoToken
    /\ grants[t].stage \in {"stored", "ended"}
    /\ client' = [client EXCEPT ![d].holds = t, ![d].signing = NoToken,
                                ![d].welcome = IF Accepts(t) THEN t ELSE NoToken,
                                ![d].restored = FALSE]
    /\ UNCHANGED <<server, event>>

\* The answer of login is lost, or the server stops between two statements.
SignInFails(d) ==
    LET t == client[d].signing IN
    /\ t # NoToken
    /\ client' = [client EXCEPT ![d].signing = NoToken]
    /\ UNCHANGED <<server, event>>

\* GET /me answered: setTokens with the tokens captured at sign-in.
Welcome(d) ==
    /\ client[d].welcome # NoToken
    /\ client' = [client EXCEPT ![d].holds = client[d].welcome, ![d].welcome = NoToken,
                                ![d].restored = client[d].holds # client[d].welcome]
    /\ UNCHANGED <<server, event>>

\* GET /me failed: the tokens stay what they are.
NoWelcome(d) ==
    /\ client[d].welcome # NoToken
    /\ client' = [client EXCEPT ![d].welcome = NoToken]
    /\ UNCHANGED <<server, event>>

-----------------------------------------------------------------------------
(* refreshSession, shared by the requests that were answered 401. *)

InFlight(d) == client[d].asks # NoToken \/ client[d].answer # NoToken

StartRefresh(d) ==
    /\ client[d].holds # NoToken /\ ~ InFlight(d) /\ MayCall(d)
    /\ client' = [client EXCEPT ![d].asks = client[d].holds]
    /\ UNCHANGED <<server, event>>

\* Variant: the row is read and left in the table.
ServeRefreshReads(d, n) ==
    LET t == client[d].asks IN
    /\ t # NoToken /\ grants[t].stage = "stored" /\ grants[n].stage = "unused"
    /\ grants' = [grants EXCEPT ![n] = [grants[t] EXCEPT !.iat = clock]]
    /\ client' = [client EXCEPT ![d].asks = NoToken, ![d].answer = n]
    /\ UNCHANGED <<clock, trusted_devices, sessions_revoked_at, event>>

\* refresh: the row found, consumed and replaced in one transaction.
ServeRefresh(d, n) ==
    LET t == client[d].asks IN
    /\ t # NoToken /\ grants[t].stage = "stored" /\ grants[n].stage = "unused"
    /\ grants' = [grants EXCEPT ![t] = Over(@, "rotated"),
                                ![n] = [stage |-> "stored", device |-> grants[t].device,
                                        iat |-> clock, login |-> grants[t].login,
                                        late |-> grants[t].late, revoked |-> FALSE]]
    /\ client' = [client EXCEPT ![d].asks = NoToken, ![d].answer = n]
    /\ UNCHANGED <<clock, trusted_devices, sessions_revoked_at, event>>

RefuseRefresh(d) ==
    LET t == client[d].asks IN
    /\ t # NoToken /\ grants[t].stage # "stored"
    /\ client' = [client EXCEPT ![d].asks = NoToken, ![d].answer = Refused]
    /\ UNCHANGED <<server, event>>

\* Variant: the status of the answer is not looked at.
RefreshedAnyway(d) ==
    /\ client[d].answer # NoToken
    /\ client' = [client EXCEPT ![d].holds = client[d].answer, ![d].answer = NoToken,
                                ![d].restored = FALSE]
    /\ UNCHANGED <<server, event>>

Refreshed(d) ==
    /\ client[d].answer \in Tokens
    /\ client' = [client EXCEPT ![d].holds = client[d].answer, ![d].answer = NoToken,
                                ![d].restored = FALSE]
    /\ UNCHANGED <<server, event>>

\* Variant: an error of the network leaves the tokens as they are.
RefreshFailsQuietly(d) ==
    /\ InFlight(d)
    /\ client' = [client EXCEPT ![d].asks = NoToken, ![d].answer = NoToken]
    /\ UNCHANGED <<server, event>>

\* Refused, or no answer at all: forceLocalLogout, which closes the socket too.
RefreshFails(d) ==
    /\ InFlight(d)
    /\ client' = [client EXCEPT ![d].holds = NoToken, ![d].asks = NoToken,
                                ![d].answer = NoToken, ![d].restored = FALSE]
    /\ event' = event \ {d}
    /\ UNCHANGED server

-----------------------------------------------------------------------------
(* Signing out, and the end of sessions. *)

\* logout(), called by the user or on a SESSION_REVOKED event.
Leave(d) ==
    /\ client[d].holds # NoToken /\ client[d].leaving = NoToken /\ MayCall(d)
    /\ client' = [client EXCEPT ![d].leaving = client[d].holds]
    /\ UNCHANGED server

SignOut(d) == Leave(d) /\ UNCHANGED event

HearRevocation(d) == d \in event /\ event' = event \ {d} /\ Leave(d)

\* POST /auth/logout: DELETE of the token it carries, which may not arrive.
ServeLogout(d) ==
    /\ client[d].leaving # NoToken
    /\ grants[client[d].leaving].stage = "stored"
    /\ grants' = [grants EXCEPT ![client[d].leaving] = Over(@, "ended")]
    /\ UNCHANGED <<clock, trusted_devices, sessions_revoked_at, client, event>>

\* Answered or not, the tokens are forgotten and the socket closed.
SignedOut(d) ==
    /\ client[d].leaving # NoToken
    /\ client' = [client EXCEPT ![d].holds = NoToken, ![d].leaving = NoToken,
                                ![d].restored = FALSE]
    /\ event' = event \ {d}
    /\ UNCHANGED server

\* The program is closed: tokens are in memory only.
Quit(d) ==
    /\ client[d] # BlankClient
    /\ client' = [client EXCEPT ![d] = BlankClient]
    /\ event' = event \ {d}
    /\ UNCHANGED server

\* expires_at of a refresh token passes.
Expire(t) ==
    /\ grants[t].stage = "stored"
    /\ grants' = [grants EXCEPT ![t] = Over(@, "ended")]
    /\ UNCHANGED <<clock, trusted_devices, sessions_revoked_at, client, event>>

\* The sockets of the account carry the event; one that lags or is closed does not.
Broadcast ==
    \E sockets \in SUBSET {d \in Devices : client[d].holds # NoToken} :
        /\ Cardinality(event \cup sockets) <= MaxBusy
        /\ event' = event \cup sockets

\* Variant: the refresh tokens of the device are left.
RevokeDeviceOnly(d) ==
    /\ d \in trusted_devices /\ At("unused") # Tokens
    /\ trusted_devices' = trusted_devices \ {d}
    /\ Broadcast
    /\ UNCHANGED <<clock, sessions_revoked_at, grants, client>>

\* revoke_device: the device, its refresh tokens, the event.
RevokeDevice(d) ==
    /\ d \in trusted_devices /\ At("unused") # Tokens
    /\ trusted_devices' = trusted_devices \ {d}
    /\ grants' = [t \in Tokens |->
                    IF grants[t].device # d THEN grants[t]
                    ELSE IF t \in At("stored") THEN Over(grants[t], "ended")
                    ELSE IF t \in Entering THEN [grants[t] EXCEPT !.late = TRUE]
                    ELSE grants[t]]
    /\ Broadcast
    /\ UNCHANGED <<clock, sessions_revoked_at, client>>

\* logout_all_devices: every refresh token, the time of revocation, the event.
LogoutAll ==
    /\ At("unused") # Tokens
    /\ sessions_revoked_at' = clock
    /\ grants' = [t \in Tokens |->
                    IF t \in At("unused") THEN grants[t]
                    ELSE IF t \in Entering
                         THEN [grants[t] EXCEPT !.late = TRUE, !.revoked = TRUE]
                    ELSE [Over(grants[t], "ended") EXCEPT
                            !.stage = IF t \in At("rotated") THEN "rotated" ELSE "ended",
                            !.revoked = TRUE]]
    /\ Broadcast
    /\ UNCHANGED <<clock, trusted_devices, client>>

Next ==
    \/ Tick
    \/ \E d \in Devices :
        \/ TrustDevice(d)
        \/ \E t \in Tokens : SignIn(d, t) \/ ServeRefresh(d, t)
        \/ Established(d)
        \/ SignInFails(d)
        \/ Welcome(d)
        \/ NoWelcome(d)
        \/ StartRefresh(d)
        \/ RefuseRefresh(d)
        \/ Refreshed(d)
        \/ RefreshFails(d)
        \/ SignOut(d)
        \/ HearRevocation(d)
        \/ ServeLogout(d)
        \/ SignedOut(d)
        \/ Quit(d)
        \/ RevokeDevice(d)
    \/ \E t \in Tokens : LoginClear(t) \/ LoginStore(t) \/ Expire(t)
    \/ LogoutAll

Spec == Init /\ [][Next]_vars

-----------------------------------------------------------------------------
\* An access token issued before the last end of all sessions is refused, even
\* one of the same second (the comparison of whole seconds in AuthUser).
RevokedRefused == \A t \in Tokens : grants[t].revoked => ~ Accepts(t)

\* A sign-in never has two live refresh tokens: a refresh consumes one for each
\* it issues, whoever retries or repeats it.
OneTokenPerLogin ==
    \A t, u \in At("stored") : grants[t].login = grants[u].login => t = u

\* A stored refresh token belongs to a trusted device and is no older than the
\* last end of all sessions, but for a sign-in the revocation overtook.
RevocationEnds ==
    \A t \in At("stored") :
        grants[t].late \/ (grants[t].device \in trusted_devices /\ ~ grants[t].revoked)

\* With no refresh in flight, a client never holds a token it has exchanged
\* (its next refresh would end a live session), but for one set again by the
\* end of a sign-in.
HoldsFresh ==
    \A d \in Devices :
        client[d].holds \in At("rotated") => client[d].restored \/ InFlight(d)

\* A client that is signed out is signed in again by the answer of a sign-in
\* and by nothing else (logout and forceLocalLogout forget the tokens).
SignedOutStays ==
    [][\A d \in Devices :
          client[d].holds = NoToken /\ client'[d].holds # NoToken
             => client[d].signing = client'[d].holds]_vars

\* A SESSION_REVOKED event signs out no client whose session goes on.
EventSparesLive ==
    [][\A d \in Devices : HearRevocation(d) => client[d].holds \notin At("stored")]_vars
=============================================================================
