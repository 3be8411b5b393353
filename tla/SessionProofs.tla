--------------------------- MODULE SessionProofs ---------------------------
(***************************************************************************)
(* The revocations of Session end what they say they end, for any devices, *)
(* any number of tokens and any time.                                      *)
(*                                                                         *)
(* The invariant speaks of every login that has not failed, not only of    *)
(* the refresh tokens stored: a login in progress will store its token     *)
(* without a look at what happened since it began.                         *)
(***************************************************************************)
EXTENDS Session, TLAPS

\* The grants whose refresh token is stored, or about to be.
Standing == Entering \cup At("stored")

\* Tokens are issued in the past, and the revoked ones before the revocation.
TimeInv ==
    /\ sessions_revoked_at <= clock
    /\ \A t \in Tokens : /\ grants[t].iat <= clock
                         /\ grants[t].revoked => grants[t].iat <= sessions_revoked_at

\* Each standing grant descends from a sign-in of its own.
LoginInv ==
    /\ \A t \in Standing : grants[t].login \in Tokens \ At("unused")
    /\ \A t, u \in Standing : grants[t].login = grants[u].login => t = u

\* A standing grant is late, or of a trusted device and not revoked.
StandingInv ==
    \A t \in Standing :
        grants[t].late \/ (grants[t].device \in trusted_devices /\ ~ grants[t].revoked)

IInv == TypeOK /\ TimeInv /\ LoginInv /\ StandingInv

USE DEF Standing, Entering, At

-----------------------------------------------------------------------------
\* A grant that is over is a grant.
LEMMA OverType ==
    ASSUME TypeOK, NEW t \in Tokens, NEW stage \in {"rotated", "ended"}
    PROVE  /\ Over(grants[t], stage) \in Grant
           /\ Over(grants[t], stage).stage = stage
           /\ Over(grants[t], stage).iat = grants[t].iat
           /\ Over(grants[t], stage).revoked = grants[t].revoked
  BY SessionAssumption DEF TypeOK, Over, BlankGrant, Grant

\* The first state has the invariant.
LEMMA InitInv == Init => IInv
  BY SessionAssumption DEF Init, IInv, TypeOK, TimeInv, LoginInv, StandingInv,
     BlankGrant, Grant, BlankClient, Client

\* The steps of a client alone keep its type and leave the server as it is.
LEMMA ClientStep ==
    ASSUME TypeOK, NEW d \in Devices,
           \/ Established(d) \/ SignInFails(d) \/ Welcome(d) \/ NoWelcome(d)
           \/ StartRefresh(d) \/ RefuseRefresh(d) \/ Refreshed(d) \/ RefreshFails(d)
           \/ SignOut(d) \/ HearRevocation(d) \/ SignedOut(d) \/ Quit(d)
    PROVE  TypeOK' /\ UNCHANGED server
<1> USE SessionAssumption DEF TypeOK, Client, server
<1>1. CASE Established(d)
    BY <1>1 DEF Established
<1>2. CASE SignInFails(d)
    BY <1>2 DEF SignInFails
<1>3. CASE Welcome(d)
    BY <1>3 DEF Welcome
<1>4. CASE NoWelcome(d)
    BY <1>4 DEF NoWelcome
<1>5. CASE StartRefresh(d)
    BY <1>5 DEF StartRefresh
<1>6. CASE RefuseRefresh(d)
  <2>1. client' = [client EXCEPT ![d] = [client[d] EXCEPT !.asks = NoToken,
                                                          !.answer = Refused]]
      BY <1>6 DEF RefuseRefresh
  <2> QED
      BY <1>6, <2>1 DEF RefuseRefresh
<1>7. CASE Refreshed(d)
    BY <1>7 DEF Refreshed
<1>8. CASE RefreshFails(d)
  <2>1. client' = [client EXCEPT ![d] = [client[d] EXCEPT !.holds = NoToken, !.asks = NoToken,
                                           !.answer = NoToken, !.restored = FALSE]]
      BY <1>8 DEF RefreshFails
  <2> QED
      BY <1>8, <2>1 DEF RefreshFails
<1>9. CASE SignOut(d)
    BY <1>9 DEF SignOut, Leave
<1>10. CASE HearRevocation(d)
    BY <1>10 DEF HearRevocation, Leave
<1>11. CASE SignedOut(d)
    BY <1>11 DEF SignedOut
<1>12. CASE Quit(d)
    BY <1>12 DEF Quit, BlankClient
<1> QED
    BY <1>1, <1>2, <1>3, <1>4, <1>5, <1>6, <1>7, <1>8, <1>9, <1>10, <1>11, <1>12

\* A step that leaves the server as it is keeps what is said of the server.
LEMMA ServerSame ==
    ASSUME IInv, TypeOK', UNCHANGED server PROVE IInv'
  BY DEF IInv, TimeInv, LoginInv, StandingInv, server

\* A step that ends some standing grants, and changes no other, keeps it too.
Ends(ended) ==
    /\ UNCHANGED <<clock, trusted_devices, sessions_revoked_at>>
    /\ grants' = [t \in Tokens |-> IF t \in ended THEN Over(grants[t], "ended")
                                                  ELSE grants[t]]

LEMMA EndsKeep ==
    ASSUME IInv, NEW ended \in SUBSET At("stored"), Ends(ended),
           client' \in [Devices -> Client], event' \subseteq Devices
    PROVE  IInv'
<1>1. \A t \in ended : /\ grants'[t] \in Grant /\ grants'[t].stage = "ended"
                       /\ grants'[t].iat = grants[t].iat
                       /\ grants'[t].revoked = grants[t].revoked
    BY OverType DEF IInv, Ends
<1>2. \A t \in Tokens \ ended : grants'[t] = grants[t]
    BY DEF Ends
<1>3. TypeOK'
  <2>1. grants' \in [Tokens -> Grant]
      BY <1>1, <1>2 DEF IInv, TypeOK, Ends
  <2> QED
      BY <2>1 DEF IInv, TypeOK, Ends
<1>4. Standing' \subseteq Standing /\ At("unused")' = At("unused")
    BY <1>1, <1>2
<1>5. \A t \in Standing' : grants'[t] = grants[t]
    BY <1>1, <1>2
<1>6. TimeInv'
    BY <1>1, <1>2 DEF IInv, TimeInv, Ends
<1> HIDE DEF Standing, Entering, At
<1>7. LoginInv'
    BY <1>4, <1>5 DEF IInv, LoginInv
<1>8. StandingInv'
    BY <1>4, <1>5 DEF IInv, StandingInv, Ends
<1> QED
    BY <1>3, <1>6, <1>7, <1>8 DEF IInv

\* The DELETE of logout, and of the passing of time.
LEMMA DeleteStep ==
    ASSUME IInv, (\E d \in Devices : ServeLogout(d)) \/ (\E t \in Tokens : Expire(t))
    PROVE  IInv'
<1>1. ASSUME NEW t \in Tokens, grants[t].stage = "stored",
             grants' = [grants EXCEPT ![t] = Over(@, "ended")],
             UNCHANGED <<clock, trusted_devices, sessions_revoked_at, client, event>>
      PROVE  IInv'
  <2>1. Ends({t})
      BY <1>1 DEF Ends, IInv, TypeOK
  <2>2. {t} \in SUBSET At("stored")
      BY <1>1
  <2>3. client' \in [Devices -> Client] /\ event' \subseteq Devices
      BY <1>1 DEF IInv, TypeOK
  <2> QED
      BY <2>1, <2>2, <2>3, EndsKeep
<1>2. ASSUME NEW d \in Devices, ServeLogout(d) PROVE IInv'
  <2>1. client[d].leaving \in Tokens
      BY <1>2 DEF ServeLogout, IInv, TypeOK, Client
  <2> QED
      BY <1>1, <1>2, <2>1 DEF ServeLogout
<1>3. ASSUME NEW t \in Tokens, Expire(t) PROVE IInv'
    BY <1>1, <1>3 DEF Expire
<1> QED
    BY <1>2, <1>3

\* The first statement of login makes a standing grant, of a trusted device.
LEMMA SignInStep ==
    ASSUME IInv, NEW d \in Devices, NEW t \in Tokens, SignIn(d, t)
    PROVE  IInv'
<1> DEFINE g == [stage |-> "checked", device |-> d, iat |-> clock,
                 login |-> t, late |-> FALSE, revoked |-> FALSE]
<1>1. g \in Grant
    BY DEF IInv, TypeOK, Grant
<1>2. /\ grants'[t] = g /\ \A u \in Tokens \ {t} : grants'[u] = grants[u]
      /\ grants' \in [Tokens -> Grant]
    BY <1>1 DEF SignIn, IInv, TypeOK
<1>3. /\ Standing' = Standing \cup {t} /\ t \notin Standing
      /\ At("unused")' = At("unused") \ {t} /\ t \in At("unused")
    BY <1>2 DEF SignIn
<1>4. client' \in [Devices -> Client]
    BY SessionAssumption DEF SignIn, IInv, TypeOK, Client
<1>5. TypeOK'
    BY <1>2, <1>4 DEF SignIn, IInv, TypeOK
<1>6. TimeInv'
    BY <1>2 DEF SignIn, IInv, TypeOK, TimeInv
<1>7. d \in trusted_devices'
    BY DEF SignIn
<1>8. trusted_devices' = trusted_devices
    BY DEF SignIn
<1> HIDE DEF Standing, Entering, At
<1>9. LoginInv'
  <2>1. \A u \in Standing : grants'[u].login = grants[u].login /\ grants[u].login # t
      BY <1>2, <1>3 DEF IInv, LoginInv, Standing, Entering, At
  <2>2. grants'[t].login = t
      BY <1>2
  <2> QED
      BY <1>3, <2>1, <2>2 DEF IInv, LoginInv
<1>10. StandingInv'
  <2>1. \A u \in Standing : grants'[u] = grants[u]
      BY <1>2, <1>3 DEF Standing, Entering, At
  <2>2. grants'[t].device = d /\ ~ grants'[t].revoked
      BY <1>2
  <2> QED
      BY <1>3, <1>7, <1>8, <2>1, <2>2 DEF IInv, StandingInv
<1> QED
    BY <1>5, <1>6, <1>9, <1>10 DEF IInv

\* The DELETE of login ends grants; its INSERT lets the grant stand.
LEMMA LoginStep ==
    ASSUME IInv, NEW t \in Tokens, LoginClear(t) \/ LoginStore(t)
    PROVE  IInv'
<1>1. ASSUME NEW stage \in {"cleared", "stored"}, t \in Standing,
             NEW ended \in SUBSET (At("stored") \ {t}),
             \A u \in Tokens \ (ended \cup {t}) : grants'[u] = grants[u],
             \A u \in ended : grants'[u] = Over(grants[u], "ended"),
             grants'[t] = [grants[t] EXCEPT !.stage = stage],
             grants' \in [Tokens -> Grant],
             UNCHANGED <<clock, trusted_devices, sessions_revoked_at, client, event>>
      PROVE  IInv'
  <2>1. \A u \in ended : /\ grants'[u].stage = "ended"
                         /\ grants'[u].iat = grants[u].iat
                         /\ grants'[u].revoked = grants[u].revoked
      BY <1>1, OverType DEF IInv
  <2>2. /\ grants'[t].stage = stage /\ grants'[t].iat = grants[t].iat
        /\ grants'[t].login = grants[t].login /\ grants'[t].late = grants[t].late
        /\ grants'[t].device = grants[t].device /\ grants'[t].revoked = grants[t].revoked
      BY <1>1 DEF IInv, TypeOK, Grant
  <2>3. Standing' = Standing \ ended /\ At("unused")' = At("unused")
    <3>1. \A u \in ended : u \in Standing /\ u \notin Standing' /\ u \notin At("unused")
                           /\ u \notin At("unused")'
        BY <1>1, <2>1
    <3>2. t \in Standing' /\ t \notin ended /\ t \notin At("unused") /\ t \notin At("unused")'
        BY <1>1, <2>2
    <3>3. \A u \in Tokens \ (ended \cup {t}) :
             (u \in Standing' <=> u \in Standing) /\ (u \in At("unused")' <=> u \in At("unused"))
        BY <1>1
    <3>4. /\ Standing \subseteq Tokens /\ Standing' \subseteq Tokens
          /\ At("unused") \subseteq Tokens /\ At("unused")' \subseteq Tokens
        OBVIOUS
    <3> HIDE DEF Standing, Entering, At
    <3> QED
        BY <1>1, <3>1, <3>2, <3>3, <3>4
  <2>4. \A u \in Standing' : /\ grants'[u].login = grants[u].login
                             /\ grants'[u].late = grants[u].late
                             /\ grants'[u].device = grants[u].device
                             /\ grants'[u].revoked = grants[u].revoked
      BY <1>1, <2>2, <2>3
  <2>5. TypeOK'
      BY <1>1 DEF IInv, TypeOK
  <2>6. TimeInv'
      BY <1>1, <2>1, <2>2, ZenonT(30) DEF IInv, TimeInv
  <2>7. trusted_devices' = trusted_devices
      BY <1>1
  <2> HIDE DEF Standing, Entering, At
  <2>8. LoginInv'
      BY <2>3, <2>4 DEF IInv, LoginInv
  <2>9. StandingInv'
      BY <2>3, <2>4, <2>7 DEF IInv, StandingInv
  <2> QED
      BY <2>5, <2>6, <2>8, <2>9 DEF IInv
<1>2. CASE LoginStore(t)
  <2>1. /\ t \in Standing /\ grants' = [grants EXCEPT ![t].stage = "stored"]
        /\ UNCHANGED <<clock, trusted_devices, sessions_revoked_at, client, event>>
      BY <1>2 DEF LoginStore
  <2>2. /\ grants'[t] = [grants[t] EXCEPT !.stage = "stored"]
        /\ \A u \in Tokens \ {t} : grants'[u] = grants[u]
        /\ grants' \in [Tokens -> Grant]
      BY <2>1 DEF IInv, TypeOK, Grant
  <2>3. PICK none \in SUBSET (At("stored") \ {t}) : none = {}
      OBVIOUS
  <2> QED
      BY <1>1, <2>1, <2>2, <2>3
<1>3. CASE LoginClear(t)
  <2> DEFINE ended == {u \in At("stored") : grants[u].device = grants[t].device}
  <2>1. /\ t \in Standing /\ t \notin ended /\ ended \in SUBSET (At("stored") \ {t})
        /\ UNCHANGED <<clock, trusted_devices, sessions_revoked_at, client, event>>
      BY <1>3 DEF LoginClear
  <2>2. /\ grants'[t] = [grants[t] EXCEPT !.stage = "cleared"]
        /\ \A u \in ended : grants'[u] = Over(grants[u], "ended")
        /\ \A u \in Tokens \ (ended \cup {t}) : grants'[u] = grants[u]
        /\ grants' = [u \in Tokens |-> grants'[u]]
      BY <1>3, <2>1 DEF LoginClear
  <2>3. [grants[t] EXCEPT !.stage = "cleared"] \in Grant
      BY DEF IInv, TypeOK, Grant
  <2>4. \A u \in ended : Over(grants[u], "ended") \in Grant
      BY OverType DEF IInv
  <2>5. \A u \in Tokens : grants[u] \in Grant
      BY DEF IInv, TypeOK
  <2> HIDE DEF ended
  <2>6. \A u \in Tokens : grants'[u] \in Grant
      BY <2>2, <2>3, <2>4, <2>5
  <2>7. grants' \in [Tokens -> Grant]
      BY <2>2, <2>6
  <2> QED
      BY <1>1, <2>1, <2>2, <2>7
<1> QED
    BY <1>2, <1>3
\* refresh replaces a standing grant by one that stands for the same sign-in.
LEMMA RefreshStep ==
    ASSUME IInv, NEW d \in Devices, NEW n \in Tokens, ServeRefresh(d, n)
    PROVE  IInv'
<1> DEFINE t == client[d].asks
           g == [stage |-> "stored", device |-> grants[t].device, iat |-> clock,
                 login |-> grants[t].login, late |-> grants[t].late, revoked |-> FALSE]
<1>1. t \in Tokens /\ t # n /\ t \in At("stored") /\ n \in At("unused")
    BY DEF ServeRefresh, IInv, TypeOK, Client
<1>2. g \in Grant
    BY <1>1 DEF IInv, TypeOK, Grant
<1>3. /\ grants'[n] = g /\ grants'[t] = Over(grants[t], "rotated")
      /\ \A u \in Tokens \ {t, n} : grants'[u] = grants[u]
    BY <1>1 DEF ServeRefresh, IInv, TypeOK
<1>4. /\ grants'[t] \in Grant /\ grants'[t].stage = "rotated"
      /\ grants'[t].iat = grants[t].iat /\ grants'[t].revoked = grants[t].revoked
    BY <1>1, <1>3, OverType DEF IInv
<1>5. UNCHANGED <<clock, trusted_devices, sessions_revoked_at, event>>
    BY DEF ServeRefresh
<1>6. client' \in [Devices -> Client]
  <2>1. client[d] \in Client /\ client \in [Devices -> Client]
      BY DEF IInv, TypeOK
  <2>2. [client[d] EXCEPT !.asks = NoToken, !.answer = n] \in Client
      BY <2>1 DEF Client
  <2>3. client' = [client EXCEPT ![d] = [@ EXCEPT !.asks = NoToken, !.answer = n]]
      BY DEF ServeRefresh
  <2> QED
      BY <2>1, <2>2, <2>3
<1>7. TypeOK'
  <2>1. \A u \in Tokens : grants'[u] \in Grant
      BY <1>2, <1>3, <1>4 DEF IInv, TypeOK
  <2>2. grants' = [u \in Tokens |-> grants'[u]]
      BY DEF ServeRefresh, IInv, TypeOK
  <2> QED
      BY <1>5, <1>6, <2>1, <2>2 DEF IInv, TypeOK
<1>8. /\ grants'[n].stage = "stored" /\ grants'[n].iat = clock /\ ~ grants'[n].revoked
      /\ grants'[n].login = grants[t].login /\ grants'[n].late = grants[t].late
      /\ grants'[n].device = grants[t].device
    BY <1>3
<1> HIDE DEF g, t
<1>9. TimeInv'
    BY <1>3, <1>4, <1>5, <1>8 DEF IInv, TypeOK, TimeInv
<1>10. /\ t \in Standing /\ n \notin Standing
       /\ Standing' = (Standing \ {t}) \cup {n}
       /\ At("unused")' = At("unused") \ {n}
  <2>1. t \in Standing /\ n \notin Standing /\ t \notin Standing' /\ n \in Standing'
        /\ n \notin At("unused")' /\ t \notin At("unused")' /\ t \notin At("unused")
      BY <1>1, <1>4, <1>8
  <2>2. \A u \in Tokens \ {t, n} :
           (u \in Standing' <=> u \in Standing) /\ (u \in At("unused")' <=> u \in At("unused"))
      BY <1>3
  <2>3. /\ Standing \subseteq Tokens /\ Standing' \subseteq Tokens
        /\ At("unused") \subseteq Tokens /\ At("unused")' \subseteq Tokens
      OBVIOUS
  <2>4. t \in Tokens /\ t # n
      BY <1>1
  <2> HIDE DEF Standing, Entering, At
  <2> QED
      BY <2>1, <2>2, <2>3, <2>4
<1>11. n \in At("unused") /\ Standing \subseteq Tokens
    BY <1>1
<1> HIDE DEF Standing, Entering, At
<1>12. LoginInv'
  <2>1. \A u \in Standing \ {t} : grants'[u] = grants[u] /\ grants[u].login # grants[t].login
      BY <1>3, <1>10, <1>11 DEF IInv, LoginInv
  <2>2. \A u \in Standing' : grants'[u].login \in Tokens \ At("unused")
      BY <1>8, <1>10, <2>1 DEF IInv, LoginInv
  <2>3. \A u, v \in Standing' : grants'[u].login = grants'[v].login => u = v
      BY <1>8, <1>10, <2>1 DEF IInv, LoginInv
  <2> QED
      BY <1>10, <2>2, <2>3 DEF LoginInv
<1>13. StandingInv'
  <2>1. \A u \in Standing \ {t} : grants'[u] = grants[u]
      BY <1>3, <1>10, <1>11
  <2>2. trusted_devices' = trusted_devices
      BY <1>5
  <2> QED
      BY <1>8, <1>10, <2>1, <2>2 DEF IInv, StandingInv
<1> QED
    BY <1>7, <1>9, <1>12, <1>13 DEF IInv

\* What the two revocations have in common: every stored grant they are about
\* is ended, every login in progress they are about becomes late.
LEMMA RevocationKeeps ==
    ASSUME IInv, NEW about \in SUBSET Tokens,
           grants' \in [Tokens -> Grant],
           \A t \in Tokens \ about : grants'[t] = grants[t],
           \A t \in about \cap At("stored") : grants'[t].stage = "ended",
           \A t \in about \cap Entering :
              /\ grants'[t].stage = grants[t].stage /\ grants'[t].late
              /\ grants'[t].login = grants[t].login,
           \A t \in about \ Standing :
              (grants[t].stage = "unused" <=> grants'[t].stage = "unused")
              /\ grants'[t].stage \notin {"checked", "cleared", "stored"},
           \A t \in Standing \ about : grants[t].device \in trusted_devices =>
                                         grants[t].device \in trusted_devices'
    PROVE  LoginInv' /\ StandingInv'
<1>1. Standing' \subseteq Standing /\ At("unused")' = At("unused")
  <2>1. \A t \in about : (t \in Standing' => t \in Standing)
                         /\ (t \in At("unused")' <=> t \in At("unused"))
      BY DEF Grant
  <2>2. \A t \in Tokens \ about : (t \in Standing' <=> t \in Standing)
                                  /\ (t \in At("unused")' <=> t \in At("unused"))
      OBVIOUS
  <2>3. /\ Standing \subseteq Tokens /\ Standing' \subseteq Tokens
        /\ At("unused") \subseteq Tokens /\ At("unused")' \subseteq Tokens
      OBVIOUS
  <2> HIDE DEF Standing, Entering, At
  <2> QED
      BY <2>1, <2>2, <2>3
<1>2. \A t \in Standing' : /\ grants'[t].login = grants[t].login
                           /\ t \in about => grants'[t].late
                           /\ t \notin about => grants'[t] = grants[t]
    BY <1>1
<1>3. \A t \in Standing' : t \notin about /\ grants[t].device \in trusted_devices =>
                              grants[t].device \in trusted_devices'
    BY <1>1
<1> HIDE DEF Standing, Entering, At
<1>4. LoginInv'
    BY <1>1, <1>2 DEF IInv, LoginInv
<1>5. StandingInv'
    BY <1>1, <1>2, <1>3 DEF IInv, StandingInv
<1> QED
    BY <1>4, <1>5
\* revoke_device keeps the invariant: only logins in progress escape it.
LEMMA RevokeStep ==
    ASSUME IInv, NEW d \in Devices, RevokeDevice(d)
    PROVE  IInv'
<1> DEFINE about == {t \in Tokens : grants[t].device = d}
<1>1. /\ \A t \in Tokens \ about : grants'[t] = grants[t]
      /\ \A t \in about \cap At("stored") : grants'[t] = Over(grants[t], "ended")
      /\ \A t \in about \cap Entering : grants'[t] = [grants[t] EXCEPT !.late = TRUE]
      /\ \A t \in about \ Standing : grants'[t] = grants[t]
      /\ grants' = [t \in Tokens |-> grants'[t]]
    BY DEF RevokeDevice
<1>2. \A t \in about \cap At("stored") : /\ grants'[t] \in Grant /\ grants'[t].stage = "ended"
                                         /\ grants'[t].iat = grants[t].iat
                                         /\ grants'[t].revoked = grants[t].revoked
    BY <1>1, OverType DEF IInv
<1>3. \A t \in about \cap Entering : /\ grants'[t] \in Grant /\ grants'[t].late
                                     /\ grants'[t].stage = grants[t].stage
                                     /\ grants'[t].iat = grants[t].iat
                                     /\ grants'[t].revoked = grants[t].revoked
                                     /\ grants'[t].login = grants[t].login
    BY <1>1, ZenonT(30) DEF IInv, TypeOK, Grant
<1>4. \A t \in Tokens : /\ grants'[t] \in Grant /\ grants'[t].iat = grants[t].iat
                        /\ grants'[t].revoked = grants[t].revoked
    BY <1>1, <1>2, <1>3 DEF IInv, TypeOK
<1>5. grants' \in [Tokens -> Grant]
    BY <1>1, <1>4
<1>6. /\ trusted_devices' = trusted_devices \ {d}
      /\ UNCHANGED <<clock, sessions_revoked_at, client>>
    BY DEF RevokeDevice
<1>7. TypeOK'
    BY <1>5, <1>6 DEF RevokeDevice, Broadcast, IInv, TypeOK
<1>8. TimeInv'
    BY <1>4, <1>6 DEF IInv, TimeInv
<1>9. \A t \in Standing \ about : grants[t].device \in trusted_devices =>
                                     grants[t].device \in trusted_devices'
    BY <1>6
<1>10. \A t \in about \ Standing :
          (grants[t].stage = "unused" <=> grants'[t].stage = "unused")
          /\ grants'[t].stage \notin {"checked", "cleared", "stored"}
    BY <1>1
<1>11. about \in SUBSET Tokens
    OBVIOUS
<1> HIDE DEF about, Standing, Entering, At
<1>12. LoginInv' /\ StandingInv'
    BY <1>1, <1>2, <1>3, <1>5, <1>9, <1>10, <1>11, RevocationKeeps
<1> QED
    BY <1>7, <1>8, <1>12 DEF IInv

\* Two fields of a grant changed at once.
LEMMA LateAndRevoked ==
    ASSUME NEW g \in Grant, NEW x, x = [g EXCEPT !.late = TRUE, !.revoked = TRUE]
    PROVE  x \in Grant /\ x.late /\ x.stage = g.stage /\ x.iat = g.iat /\ x.login = g.login
<1>1. PICK l : l = [g EXCEPT !.late = TRUE]
    OBVIOUS
<1>2. l \in Grant /\ l.late /\ l.stage = g.stage /\ l.iat = g.iat /\ l.login = g.login
    BY <1>1 DEF Grant
<1>3. x = [l EXCEPT !.revoked = TRUE]
    BY <1>1
<1> QED
    BY <1>2, <1>3 DEF Grant

\* The same, of a grant that is over.
LEMMA OverAndRevoked ==
    ASSUME NEW g \in Grant, NEW stage \in {"rotated", "ended"},
           NEW x, x = [g EXCEPT !.stage = stage, !.revoked = TRUE]
    PROVE  x \in Grant /\ x.stage = stage /\ x.iat = g.iat
<1>1. PICK o : o = [g EXCEPT !.stage = stage]
    OBVIOUS
<1>2. o \in Grant /\ o.stage = stage /\ o.iat = g.iat
    BY <1>1 DEF Grant
<1>3. x = [o EXCEPT !.revoked = TRUE]
    BY <1>1
<1> QED
    BY <1>2, <1>3 DEF Grant

\* logout_all_devices keeps it, and moves the time of revocation to now.
LEMMA LogoutAllStep ==
    ASSUME IInv, LogoutAll
    PROVE  IInv'
<1>1. /\ \A t \in At("unused") : grants'[t] = grants[t]
      /\ \A t \in Entering : grants'[t] = [grants[t] EXCEPT !.late = TRUE, !.revoked = TRUE]
      /\ \A t \in At("rotated") :
           grants'[t] = [Over(grants[t], "ended") EXCEPT !.stage = "rotated", !.revoked = TRUE]
      /\ \A t \in Tokens \ (At("unused") \cup Entering \cup At("rotated")) :
           grants'[t] = [Over(grants[t], "ended") EXCEPT !.stage = "ended", !.revoked = TRUE]
      /\ grants' = [t \in Tokens |-> grants'[t]]
    BY DEF LogoutAll
<1>2. \A t \in At("unused") : grants'[t] \in Grant /\ grants'[t].iat = grants[t].iat
    BY <1>1 DEF IInv, TypeOK
<1>3. \A t \in Entering : /\ grants'[t] \in Grant /\ grants'[t].late
                          /\ grants'[t].stage = grants[t].stage
                          /\ grants'[t].iat = grants[t].iat
                          /\ grants'[t].login = grants[t].login
  <2>1. SUFFICES ASSUME NEW t \in Entering
                 PROVE  /\ grants'[t] \in Grant /\ grants'[t].late
                        /\ grants'[t].stage = grants[t].stage
                        /\ grants'[t].iat = grants[t].iat
                        /\ grants'[t].login = grants[t].login
      OBVIOUS
  <2>2. PICK g \in Grant : g = grants[t]
      BY DEF IInv, TypeOK
  <2>3. grants'[t] = [g EXCEPT !.late = TRUE, !.revoked = TRUE]
      BY <1>1, <2>2
  <2> QED
      BY <2>2, <2>3, LateAndRevoked
<1>4. \A t \in At("rotated") : /\ grants'[t] \in Grant /\ grants'[t].stage = "rotated"
                               /\ grants'[t].iat = grants[t].iat
  <2>1. SUFFICES ASSUME NEW t \in At("rotated")
                 PROVE  /\ grants'[t] \in Grant /\ grants'[t].stage = "rotated"
                        /\ grants'[t].iat = grants[t].iat
      OBVIOUS
  <2>2. PICK g \in Grant : g = Over(grants[t], "ended") /\ g.iat = grants[t].iat
      BY OverType DEF IInv
  <2>3. PICK x : x = grants'[t]
      OBVIOUS
  <2>4. x = [g EXCEPT !.stage = "rotated", !.revoked = TRUE]
      BY <1>1, <2>2, <2>3
  <2>5. x \in Grant /\ x.stage = "rotated" /\ x.iat = g.iat
      BY <2>4, OverAndRevoked
  <2> QED
      BY <2>2, <2>3, <2>5
<1>5. \A t \in Tokens \ (At("unused") \cup Entering \cup At("rotated")) :
         grants'[t] \in Grant /\ grants'[t].stage = "ended" /\ grants'[t].iat = grants[t].iat
  <2>1. SUFFICES ASSUME NEW t \in Tokens \ (At("unused") \cup Entering \cup At("rotated"))
                 PROVE  /\ grants'[t] \in Grant /\ grants'[t].stage = "ended"
                        /\ grants'[t].iat = grants[t].iat
      OBVIOUS
  <2>2. PICK g \in Grant : g = Over(grants[t], "ended") /\ g.iat = grants[t].iat
      BY OverType DEF IInv
  <2>3. grants'[t] = [g EXCEPT !.stage = "ended", !.revoked = TRUE]
      BY <1>1, <2>1, <2>2
  <2> QED
      BY <2>2, <2>3, OverAndRevoked, ZenonT(30)
<1>6. \A t \in Tokens : grants'[t] \in Grant /\ grants'[t].iat = grants[t].iat
    BY <1>2, <1>3, <1>4, <1>5
<1>7. grants' \in [Tokens -> Grant]
    BY <1>1, <1>6
<1>8. /\ sessions_revoked_at' = clock
      /\ UNCHANGED <<clock, trusted_devices, client>>
    BY DEF LogoutAll
<1>9. TypeOK'
  <2>1. sessions_revoked_at' \in 0 .. MaxTime
      BY <1>8, SessionAssumption DEF IInv, TypeOK
  <2>2. event' \subseteq Devices
      BY DEF LogoutAll, Broadcast, IInv, TypeOK
  <2> QED
      BY <1>7, <1>8, <2>1, <2>2 DEF IInv, TypeOK
<1>10. TimeInv'
    BY <1>6, <1>8 DEF IInv, TypeOK, TimeInv
<1>11. LoginInv' /\ StandingInv'
  <2>1. \A t \in Tokens \cap At("stored") : grants'[t].stage = "ended"
      BY <1>5
  <2>2. \A t \in Tokens \ Standing :
           (grants[t].stage = "unused" <=> grants'[t].stage = "unused")
           /\ grants'[t].stage \notin {"checked", "cleared", "stored"}
      BY <1>1, <1>4, <1>5
  <2>3. PICK about \in SUBSET Tokens : about = Tokens
      OBVIOUS
  <2>4. about \cap Entering = Entering /\ Standing \ about = {}
      BY <2>3
  <2> HIDE DEF Standing, Entering, At
  <2> QED
      BY <1>3, <1>7, <2>1, <2>2, <2>3, <2>4, RevocationKeeps
<1> QED
    BY <1>9, <1>10, <1>11 DEF IInv

-----------------------------------------------------------------------------
\* Every step keeps the invariant.
LEMMA StepInv == IInv /\ [Next]_vars => IInv'
<1> SUFFICES ASSUME IInv, [Next]_vars PROVE IInv'
    OBVIOUS
<1>1. CASE Tick
  <2>1. /\ clock' \in 1 .. MaxTime /\ clock <= clock'
        /\ UNCHANGED <<trusted_devices, sessions_revoked_at, grants, client, event>>
      BY <1>1, SessionAssumption DEF Tick, IInv, TypeOK
  <2>2. TypeOK'
      BY <2>1 DEF IInv, TypeOK
  <2>3. TimeInv'
    <3>1. \A t \in Tokens : grants[t].iat \in Nat
        BY SessionAssumption DEF IInv, TypeOK, Grant
    <3> QED
        BY <2>1, <3>1, SessionAssumption DEF IInv, TypeOK, TimeInv
  <2> QED
      BY <2>1, <2>2, <2>3 DEF IInv, LoginInv, StandingInv
<1>2. ASSUME NEW d \in Devices, TrustDevice(d) PROVE IInv'
    BY <1>2 DEF TrustDevice, IInv, TypeOK, TimeInv, LoginInv, StandingInv
<1>3. ASSUME NEW d \in Devices,
             \/ Established(d) \/ SignInFails(d) \/ Welcome(d) \/ NoWelcome(d)
             \/ StartRefresh(d) \/ RefuseRefresh(d) \/ Refreshed(d) \/ RefreshFails(d)
             \/ SignOut(d) \/ HearRevocation(d) \/ SignedOut(d) \/ Quit(d)
      PROVE IInv'
  <2>1. TypeOK' /\ UNCHANGED server
      BY <1>3, ClientStep DEF IInv
  <2> QED
      BY <2>1, ServerSame
<1>4. ASSUME NEW d \in Devices, NEW t \in Tokens, SignIn(d, t) PROVE IInv'
    BY <1>4, SignInStep
<1>5. ASSUME NEW d \in Devices, NEW t \in Tokens, ServeRefresh(d, t) PROVE IInv'
    BY <1>5, RefreshStep
<1>6. ASSUME NEW d \in Devices, ServeLogout(d) PROVE IInv'
    BY <1>6, DeleteStep
<1>7. ASSUME NEW d \in Devices, RevokeDevice(d) PROVE IInv'
    BY <1>7, RevokeStep
<1>8. ASSUME NEW t \in Tokens, LoginClear(t) \/ LoginStore(t) PROVE IInv'
    BY <1>8, LoginStep
<1>9. ASSUME NEW t \in Tokens, Expire(t) PROVE IInv'
    BY <1>9, DeleteStep
<1>10. CASE LogoutAll
    BY <1>10, LogoutAllStep
<1>11. CASE UNCHANGED vars
  <2>1. UNCHANGED server /\ TypeOK'
      BY <1>11 DEF vars, server, IInv, TypeOK
  <2> QED
      BY <2>1, ServerSame
<1> QED
    BY <1>1, <1>2, <1>3, <1>4, <1>5, <1>6, <1>7, <1>8, <1>9, <1>10, <1>11 DEF Next

\* The invariant holds throughout.
LEMMA Invariance == Spec => []IInv
  BY InitInv, StepInv, PTL DEF Spec

\* The tables, the logins in progress and the clients keep their types.
THEOREM SessionTypes == Spec => []TypeOK
<1>1. IInv => TypeOK
    BY DEF IInv
<1> QED
    BY <1>1, Invariance, PTL

\* No access token issued before the last end of all sessions is accepted,
\* though both times are whole seconds.
THEOREM RevokedAreRefused == Spec => []RevokedRefused
<1>1. IInv => RevokedRefused
  <2> SUFFICES ASSUME IInv, NEW t \in Tokens, grants[t].revoked PROVE ~ Accepts(t)
      BY DEF RevokedRefused
  <2>1. grants[t].iat \in Nat /\ sessions_revoked_at \in Nat
      BY SessionAssumption DEF IInv, TypeOK, Grant
  <2> QED
      BY <2>1 DEF IInv, TimeInv, Accepts
<1> QED
    BY <1>1, Invariance, PTL

\* However its refreshes are repeated, a sign-in has one live token at most.
THEOREM RotationNeverForks == Spec => []OneTokenPerLogin
<1>1. IInv => OneTokenPerLogin
    BY DEF IInv, LoginInv, OneTokenPerLogin
<1> QED
    BY <1>1, Invariance, PTL

\* A live refresh token belongs to a trusted device and was issued after the
\* last end of all sessions, unless its sign-in was overtaken by a revocation.
THEOREM RevocationsEnd == Spec => []RevocationEnds
<1>1. IInv => RevocationEnds
    BY DEF IInv, StandingInv, RevocationEnds
<1> QED
    BY <1>1, Invariance, PTL

-----------------------------------------------------------------------------
(***************************************************************************)
(* HoldsFresh.  A token is exchanged by the one client that has it         *)
(* (Refs), which has a refresh in flight at that time, and the answer of a *)
(* refresh is a token nobody has exchanged.                                *)
(***************************************************************************)
Refs(d) ==
    {client[d].holds, client[d].signing, client[d].welcome, client[d].asks,
     client[d].answer, client[d].leaving} \cap Tokens

\* Of a client alone: it awaits one answer at a time, and what it will set
\* again once welcomed is not yet set over anything.
CallsInv(d) ==
    /\ client[d].asks # NoToken => client[d].answer = NoToken
    /\ client[d].answer \notin At("rotated")
    /\ client[d].welcome # NoToken => ~ client[d].restored
    /\ client[d].holds \in At("rotated") => client[d].restored \/ InFlight(d)

HolderInv ==
    /\ \A d \in Devices : Refs(d) \cap At("unused") = {}
    /\ \A d, e \in Devices : d # e => Refs(d) \cap Refs(e) = {}
    /\ \A d \in Devices : CallsInv(d)

\* A step of one client, the tables unchanged.
LEMMA HolderClient ==
    ASSUME TypeOK, HolderInv, NEW d \in Devices,
           \/ Established(d) \/ SignInFails(d) \/ Welcome(d) \/ NoWelcome(d)
           \/ StartRefresh(d) \/ RefuseRefresh(d) \/ Refreshed(d) \/ RefreshFails(d)
           \/ SignOut(d) \/ HearRevocation(d) \/ SignedOut(d) \/ Quit(d)
    PROVE  HolderInv'
<1> DEFINE Changed ==
             /\ \A e \in Devices \ {d} : client'[e] = client[e]
             /\ Refs(d)' \subseteq Refs(d)
             /\ CallsInv(d)'
<1>1. UNCHANGED grants
    BY ClientStep DEF server
<1>2. client[d] \in Client /\ CallsInv(d)
    BY DEF TypeOK, HolderInv
<1>3. CASE Changed
  <2>1. \A e \in Devices \ {d} : Refs(e)' = Refs(e)
    BY <1>3 DEF Refs
  <2>2. \A e \in Devices \ {d} : CallsInv(e)'
    BY <1>1, <1>3 DEF HolderInv, CallsInv, InFlight
  <2>3. \A e \in Devices : Refs(e)' \subseteq Refs(e)
    BY <1>3, <2>1
  <2>4. \A e \in Devices : CallsInv(e)'
    BY <1>3, <2>2
  <2>5. \A e \in Devices : Refs(e)' \cap At("unused")' = {}
    BY <1>1, <2>3 DEF HolderInv
  <2>6. \A c, e \in Devices : c # e => Refs(c)' \cap Refs(e)' = {}
    BY <2>3 DEF HolderInv
  <2> QED
    BY <2>4, <2>5, <2>6 DEF HolderInv
<1> USE SessionAssumption DEF TypeOK, Client, CallsInv, InFlight, Refs
<1>4. CASE Established(d)
    BY <1>1, <1>2, <1>3, <1>4 DEF Established
<1>5. CASE SignInFails(d)
    BY <1>1, <1>2, <1>3, <1>5 DEF SignInFails
<1>6. CASE Welcome(d)
    BY <1>1, <1>2, <1>3, <1>6 DEF Welcome
<1>7. CASE NoWelcome(d)
    BY <1>1, <1>2, <1>3, <1>7 DEF NoWelcome
<1>8. CASE StartRefresh(d)
    BY <1>1, <1>2, <1>3, <1>8 DEF StartRefresh
<1>9. CASE RefuseRefresh(d)
    BY <1>1, <1>2, <1>3, <1>9 DEF RefuseRefresh
<1>10. CASE Refreshed(d)
    BY <1>1, <1>2, <1>3, <1>10 DEF Refreshed
<1>11. CASE RefreshFails(d)
    BY <1>1, <1>2, <1>3, <1>11 DEF RefreshFails
<1>12. CASE SignOut(d) \/ HearRevocation(d)
    BY <1>1, <1>2, <1>3, <1>12 DEF SignOut, HearRevocation, Leave
<1>13. CASE SignedOut(d)
    BY <1>1, <1>2, <1>3, <1>13 DEF SignedOut
<1>14. CASE Quit(d)
    BY <1>1, <1>2, <1>3, <1>14 DEF Quit, BlankClient
<1> QED
    BY <1>4, <1>5, <1>6, <1>7, <1>8, <1>9, <1>10, <1>11, <1>12, <1>13, <1>14

\* A step of the server that neither issues nor exchanges a token.
LEMMA HolderServer ==
    ASSUME HolderInv, UNCHANGED client,
           \A t \in Tokens : /\ t \in At("unused")' => t \in At("unused")
                             /\ t \in At("rotated")' => t \in At("rotated")
    PROVE  HolderInv'
<1>1. \A d \in Devices : Refs(d)' = Refs(d)
    BY DEF Refs
<1>2. At("unused")' \subseteq At("unused") /\ At("rotated")' \subseteq At("rotated")
    OBVIOUS
<1>3. ASSUME NEW d \in Devices PROVE CallsInv(d)'
    BY <1>2 DEF HolderInv, CallsInv, InFlight
<1> QED
    BY <1>1, <1>2, <1>3 DEF HolderInv

\* A token issued is one that no client had, and has one client.
LEMMA HolderSignIn ==
    ASSUME TypeOK, HolderInv, NEW d \in Devices, NEW t \in Tokens, SignIn(d, t)
    PROVE  HolderInv'
<1>1. \A e \in Devices : client'[e] = IF e = d THEN [client[d] EXCEPT !.signing = t] ELSE client[e]
    BY DEF SignIn, TypeOK
<1>2. At("unused")' = At("unused") \ {t} /\ At("rotated")' = At("rotated") /\ t \in At("unused")
    BY DEF SignIn, TypeOK, Grant
<1>3. ASSUME NEW e \in Devices
      PROVE  Refs(e)' \subseteq IF e = d THEN Refs(e) \cup {t} ELSE Refs(e)
    BY <1>1 DEF Refs, TypeOK, Client
<1>4. ASSUME NEW e \in Devices PROVE t \notin Refs(e)
    BY <1>2 DEF HolderInv
<1>5. ASSUME NEW e \in Devices PROVE CallsInv(e)'
  <2>1. CallsInv(e) /\ client[e] \in Client
    BY DEF HolderInv, TypeOK
  <2> QED
    BY <1>1, <1>2, <2>1 DEF CallsInv, InFlight, Client
<1>6. \A e \in Devices : Refs(e)' \cap At("unused")' = {}
    BY <1>2, <1>3 DEF HolderInv
<1>7. \A c, e \in Devices : c # e => Refs(c)' \cap Refs(e)' = {}
    BY <1>3, <1>4 DEF HolderInv
<1> QED
    BY <1>5, <1>6, <1>7 DEF HolderInv

\* The token exchanged is one its client awaits the answer for, and no other
\* client has it.
LEMMA HolderRefresh ==
    ASSUME TypeOK, HolderInv, NEW d \in Devices, NEW n \in Tokens, ServeRefresh(d, n)
    PROVE  HolderInv'
<1> DEFINE t == client[d].asks
<1>1. \A e \in Devices :
        client'[e] = IF e = d THEN [client[d] EXCEPT !.asks = NoToken, !.answer = n] ELSE client[e]
    BY DEF ServeRefresh, TypeOK
<1>2. client[d] \in Client /\ t \in Tokens
    BY DEF ServeRefresh, TypeOK, Client
<1>3. /\ At("unused")' = At("unused") \ {n} /\ n \in At("unused")
      /\ At("rotated")' = At("rotated") \cup {t} /\ n # t /\ n \notin At("rotated")
    BY <1>2 DEF ServeRefresh, TypeOK, Over, BlankGrant, Grant
<1>4. ASSUME NEW e \in Devices
      PROVE  Refs(e)' \subseteq IF e = d THEN Refs(e) \cup {n} ELSE Refs(e)
  <2>1. CASE e = d
    <3>1. /\ client'[d].holds = client[d].holds /\ client'[d].signing = client[d].signing
          /\ client'[d].welcome = client[d].welcome /\ client'[d].leaving = client[d].leaving
          /\ client'[d].asks = NoToken /\ client'[d].answer = n
      BY <1>1, <1>2 DEF Client
    <3> QED
      BY <2>1, <3>1, SessionAssumption DEF Refs
  <2>2. CASE e # d
    BY <1>1, <2>2 DEF Refs
  <2> QED
    BY <2>1, <2>2
<1>5. ASSUME NEW e \in Devices PROVE n \notin Refs(e)
    BY <1>3 DEF HolderInv
<1>6. ASSUME NEW e \in Devices \ {d} PROVE t \notin Refs(e)
  <2>1. t \in Refs(d)
    BY <1>2 DEF Refs
  <2> QED
    BY <2>1 DEF HolderInv
<1>7. CallsInv(d)'
  <2>1. CallsInv(d) /\ client'[d] = [client[d] EXCEPT !.asks = NoToken, !.answer = n]
    BY <1>1 DEF HolderInv
  <2> QED
    BY <1>2, <1>3, <2>1, SessionAssumption DEF CallsInv, InFlight, Client
<1>8. ASSUME NEW e \in Devices \ {d} PROVE CallsInv(e)'
  <2>1. CallsInv(e) /\ client'[e] = client[e] /\ client[e] \in Client
    BY <1>1 DEF HolderInv, TypeOK
  <2>2. client[e].answer # t /\ client[e].holds # t
    BY <1>2, <1>6 DEF Refs
  <2> QED
    BY <1>3, <2>1, <2>2 DEF CallsInv, InFlight
<1>9. \A e \in Devices : Refs(e)' \cap At("unused")' = {}
    BY <1>3, <1>4 DEF HolderInv
<1>10. \A c, e \in Devices : c # e => Refs(c)' \cap Refs(e)' = {}
    BY <1>4, <1>5 DEF HolderInv
<1> QED
    BY <1>7, <1>8, <1>9, <1>10 DEF HolderInv

LEMMA HolderStep == TypeOK /\ HolderInv /\ [Next]_vars => HolderInv'
<1> SUFFICES ASSUME TypeOK, HolderInv, [Next]_vars PROVE HolderInv'
    OBVIOUS
<1>1. ASSUME UNCHANGED <<grants, client>> PROVE HolderInv'
    BY <1>1, HolderServer
<1>2. CASE Tick
    BY <1>1, <1>2 DEF Tick
<1>3. ASSUME NEW d \in Devices, TrustDevice(d) PROVE HolderInv'
    BY <1>1, <1>3 DEF TrustDevice
<1>4. ASSUME NEW d \in Devices, NEW t \in Tokens, SignIn(d, t) PROVE HolderInv'
    BY <1>4, HolderSignIn
<1>5. ASSUME NEW d \in Devices, NEW t \in Tokens, ServeRefresh(d, t) PROVE HolderInv'
    BY <1>5, HolderRefresh
<1>6. ASSUME NEW d \in Devices,
             \/ Established(d) \/ SignInFails(d) \/ Welcome(d) \/ NoWelcome(d)
             \/ StartRefresh(d) \/ RefuseRefresh(d) \/ Refreshed(d) \/ RefreshFails(d)
             \/ SignOut(d) \/ HearRevocation(d) \/ SignedOut(d) \/ Quit(d)
      PROVE  HolderInv'
    BY <1>6, HolderClient
<1>7. ASSUME NEW d \in Devices, ServeLogout(d) PROVE HolderInv'
    BY <1>7, HolderServer DEF ServeLogout, TypeOK, Over, BlankGrant, Grant
<1>8. ASSUME NEW t \in Tokens, Expire(t) PROVE HolderInv'
    BY <1>8, HolderServer DEF Expire, TypeOK, Over, BlankGrant, Grant
<1>9. ASSUME NEW t \in Tokens, LoginStore(t) PROVE HolderInv'
    BY <1>9, HolderServer DEF LoginStore, TypeOK, Grant
<1>10. ASSUME NEW t \in Tokens, LoginClear(t) PROVE HolderInv'
  <2>1. \A x \in Tokens : grants[x] \in Grant
    BY DEF TypeOK
  <2> QED
    BY <1>10, <2>1, HolderServer DEF LoginClear, Over, BlankGrant, Grant
<1>11. ASSUME NEW d \in Devices, RevokeDevice(d) PROVE HolderInv'
  <2>1. \A x \in Tokens : grants[x] \in Grant
    BY DEF TypeOK
  <2> QED
    BY <1>11, <2>1, HolderServer DEF RevokeDevice, Over, BlankGrant, Grant
<1>12. CASE LogoutAll
  <2>1. \A x \in Tokens : grants[x] \in Grant
    BY DEF TypeOK
  <2> QED
    BY <1>12, <2>1, HolderServer DEF LogoutAll, Over, BlankGrant, Grant
<1>13. CASE UNCHANGED vars
    BY <1>1, <1>13 DEF vars
<1> QED
    BY <1>2, <1>3, <1>4, <1>5, <1>6, <1>7, <1>8, <1>9, <1>10, <1>11, <1>12, <1>13 DEF Next

\* With no refresh in flight a client holds no token it has exchanged, but for
\* one set again at the end of a sign-in.
THEOREM TokensHeldAreFresh == Spec => []HoldsFresh
<1>1. Init => HolderInv
    BY SessionAssumption DEF Init, HolderInv, CallsInv, Refs, BlankClient, BlankGrant
<1>2. HolderInv => HoldsFresh
    BY DEF HolderInv, CallsInv, HoldsFresh
<1> QED
    BY SessionTypes, HolderStep, <1>1, <1>2, PTL DEF Spec
=============================================================================
