----------------------------- MODULE MCMultiHal -----------------------------
(***************************************************************************)
(* Two sub-HALs.  Both know a sensor by local handle 7, the first one also *)
(* by 3; local handle 9 is nobody's.                                       *)
(***************************************************************************)
EXTENDS MultiHal

MCSensorList == <<FullHandle(1, 3), FullHandle(1, 7), FullHandle(2, 7)>>

Data(h) == [type |-> "DATA", handle |-> h]
Meta(h) == [type |-> "META_DATA", handle |-> h]

GoodKinds == {Data(7)}
AllKinds  == {Data(7), Data(9), Meta(7)}
=============================================================================
