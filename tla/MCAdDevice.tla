----------------------------- MODULE MCAdDevice -----------------------------
(* AdDevice with two chips of different names, which the driver sets up differently. *)
EXTENDS AdDevice, TLC

CONSTANTS p1, p2, phy0, phy1

MCPath == {p1, p2}
MCTag == {phy0, phy1}
MCNameFile == p1 :> phy0 @@ p2 :> phy1
MCPreset ==
    [p \in MCPath |->
        [f \in File |-> CASE f = "0xFA" -> IF p = p1 THEN M_AUTO ELSE M_HANDLE
                          [] f \in {"0x109", "0x73"} -> IF p = p1 THEN 70 ELSE 40
                          [] OTHER -> IF p = p1 THEN 2 ELSE 3]]
=============================================================================
