---------------------------- MODULE MCJsonStore ----------------------------
(* Model values for JsonStore: the settings, the admin user, a node that   *)
(* needs an address and an integration that needs nothing; two handlers    *)
(* that hold the lock in turn, one stream task.                            *)
EXTENDS JsonStore

CONSTANTS settings, admin, a, b, v, w, h1, h2, s1

MCNames == {settings, admin, a, b}
MCName == {settings, admin, a}
MCSorts == [n \in MCNames |->
  CASE n = settings -> "settings" [] n = admin -> "user"
    [] n = a -> "custom" [] n = b -> "integration"]
MCSort == [n \in MCName |-> MCSorts[n]]
MCValue == {v, w}
MCHandlers == {h1, h2}
MCHandler == {h1}
MCStream == {s1}
MCNone == {}
=============================================================================
