--------------------------- MODULE MCSharedVault ---------------------------
(***************************************************************************)
(* A desktop of one account and an extension of another.  The run starts   *)
(* with empty tables, or with one vault, created by either, both of them   *)
(* in it, one entry, and a page of it on each device, its edit open.       *)
(***************************************************************************)
EXTENDS SharedVault

CONSTANTS a, b, a1, b1, v1, e1

MCUserOf == [d \in Devices |-> IF d = a1 THEN a ELSE b]

Warm ==
    /\ vaults \in [Vaults -> {None, a, b}] /\ \A v \in Vaults : vaults[v] = None <=> v # v1
    /\ members = [v \in Vaults |-> IF v = v1 THEN Users ELSE {}]
    /\ entries = [e \in EntryIds |-> IF e = e1 THEN [v |-> v1, version |-> 1] ELSE NoEntry]
    /\ page = [d \in Devices |->
          [NoPage EXCEPT !.at = "detail", !.v = v1, !.vault = TRUE, !.mine = UserOf[d] = vaults[v1],
                         !.ents = [e \in EntryIds |-> entries[e].version], !.mems = Users,
                         !.form = [on |-> e1, expected |-> 1]]]
    /\ loads = {} /\ reqs = {} /\ signal = {} /\ online = Desktops /\ spent = 0
    /\ missed = {} /\ removed = {} /\ lost = {}

MCSpec == (Init \/ Warm) /\ [][Next]_vars /\ Fairness
=============================================================================
