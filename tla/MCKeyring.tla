----------------------------- MODULE MCKeyring -----------------------------
(***************************************************************************)
(* Two accounts with a desktop and an extension each; a desktop has two    *)
(* handlers at work at most, an extension one.  Besides the empty tables,  *)
(* the run starts a few operations later: the owner shows the dialogs of   *)
(* an entry and the recipient has no pair yet (Fresh), or has one and was  *)
(* sent everything once (Warm), with or without a handler left at work by  *)
(* a page since closed.                                                    *)
(***************************************************************************)
EXTENDS Keyring

CONSTANTS o, r, o1, o2, r1, r2, e1, b1, co1, cx1, co2, cr1, cy1, cr2

MCUserOf == [d \in Devices |-> IF d \in {o1, o2} THEN o ELSE r]
MCDeviceOf == [c \in Lanes |-> CASE c \in {co1, cx1} -> o1 [] c = co2 -> o2 [] c = cr2 -> r2 [] OTHER -> r1]
MCOwnerOf == [e \in Entries |-> o]
MCTrusted == {<<o, r>>}

Quiet ==
    /\ key = [u \in Users |-> 1]
    /\ entries = [e \in Entries |-> [st |-> "active", version |-> 1]]
    /\ tasks = {} /\ held = [d \in Desktops |-> None] /\ spent = 0
    /\ given = [b \in Blinds |-> 0] /\ spoiled = {} /\ replaced = {}

Page1(page) == [Blank EXCEPT !.page = page, !.on = e1, !.shows = 1]

Fresh ==
    /\ Quiet
    /\ pairs = [u \in Users |-> NoPair] /\ made = 0
    /\ shares = [e \in Entries |-> [u \in Users |-> NoShare]] /\ ids = 0
    /\ blinds = [b \in Blinds |-> NoBlind]
    /\ seeds = [p \in Trusted |-> [pub |-> 0, of |-> 0]]
    /\ screen = [d \in Devices |-> CASE d = o1 -> Page1("share") [] d = o2 -> Page1("blind") [] OTHER -> Blank]
    /\ op = [c \in Lanes |-> Idle]

\* A handler whose page was left before its first answer came.
LeftBehind(call) == [call EXCEPT !.left = TRUE]

Warm ==
    /\ Quiet
    /\ pairs = [u \in Users |-> IF u = r THEN [pub |-> 1, under |-> 1] ELSE NoPair] /\ made = 1
    /\ shares = [e \in Entries |-> [u \in Users |->
                    IF u = r THEN [id |-> 1, pub |-> 1, says |-> 1] ELSE NoShare]] /\ ids = 1
    /\ blinds = [b \in Blinds |-> [st |-> "live", e |-> e1, to |-> r, pub |-> 1, left |-> 1, max |-> 1]]
    /\ seeds = [p \in Trusted |-> [pub |-> 1, of |-> 1]]
    /\ screen = [d \in Devices |->
           CASE d = o1 -> [Page1("share") EXCEPT !.ids = {1}]
             [] d = o2 -> [Page1("blind") EXCEPT !.blinds = {<<b1, 1>>}]
             [] OTHER  -> [Blank EXCEPT !.page = "received", !.ids = {1}, !.blinds = {<<b1, 1>>}]]
    /\ \E work \in {<<cx1, Idle>>,
                    <<cx1, LeftBehind([Call("share", "publicKey", e1, r) EXCEPT !.says = 1])>>,
                    <<cy1, LeftBehind(Call("emergency", "fetch", <<o, r>>, None))>>} :
           op = [c \in Lanes |-> IF c = work[1] THEN work[2] ELSE Idle]

MCSpec == (Init \/ Fresh \/ Warm) /\ [][Next]_vars /\ Fairness
============================================================================
