------------------------------ MODULE MCTraces ------------------------------
(* Two domains, a bus of three lanes whose RTL side is rotated and active   *)
(* low, and a contract that is right or maps two lanes to one.              *)
EXTENDS Traces, TLC

CONSTANTS a, b

BothOrOne == {<<a, b>>, <<b>>}

Straight == [l \in Lanes |-> l]
Rotated == 0 :> 1 @@ 1 :> 2 @@ 2 :> 0
Merged == 0 :> 1 @@ 1 :> 1 @@ 2 :> 0
Contracts == {"mame" :> Straight @@ "rtl" :> Rotated, "mame" :> Straight @@ "rtl" :> Merged}

RtlLow == {"rtl"}

Byte(l, t) == [data |-> [k \in Lanes |-> IF k = l THEN 1 ELSE 0], enabled |-> {l}, time |-> t]
TwoEvents == {Byte(0, 0), Byte(1, 1)}
=============================================================================
