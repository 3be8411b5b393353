------------------------------ MODULE MCClient ------------------------------
(***************************************************************************)
(* A desktop and an extension of one account, on an empty vault being read *)
(* or on two entries both devices show, one of them a favourite: the form  *)
(* of the first is open on both, or the desktop has both ticked.           *)
(***************************************************************************)
EXTENDS Client

Warm ==
    /\ vault = [e \in Ids |-> IF e > 2 THEN NoRow ELSE [state |-> "active", version |-> 1, fav |-> e = 2,
                                        folder |-> IF e = 2 THEN "home" ELSE ""]]
    /\ \E ticks \in BOOLEAN :
        page = [d \in Devices |-> [NoPage EXCEPT !.shown = {View(e) : e \in Active},
                  !.form = IF ticks /\ d \in Desktops THEN NoForm ELSE View(1),
                  !.sel = IF ticks /\ d \in Desktops THEN {1, 2} ELSE {}]]
    /\ loads = {} /\ reqs = {} /\ job = [d \in Devices |-> NoJob] /\ signal = {} /\ online = Desktops
    /\ spent = 0 /\ behind = {} /\ lost = {}

MCSpec == (Init \/ Warm) /\ [][Next]_vars /\ Fairness
=============================================================================
