------------------------------- MODULE MCAnomaly ------------------------------
(* MCWindows are a single call, two calls, one of them nested 22 deep, and   *)
(* two with a delay of 22 ms that goes back in time, for histories of ten    *)
(* windows.  ColdWindows have the empty one too.                             *)
EXTENDS Anomaly

CONSTANT p1

MCPrograms == {p1}

Call(id, depth, ts) == [id |-> id, depth |-> depth, ts |-> ts]

MCWindows ==
  {<<Call(LOG, 1, 1)>>, <<Call(SHA256, 22, 1), Call(LOG, 1, 2)>>,
   <<Call(CLOCK, 0, 25), Call(CLOCK, 0, 3)>>}

ColdWindows == MCWindows \cup {<<>>}

(* Logarithms.  For x in [2^e, 2^(e + 1)) the places of the binary logarithm *)
(* are found by squaring x / 2^e, here in units of 2^-14, place after place. *)
RECURSIVE Exponent(_)
Exponent(x) == IF x = 1 THEN 0 ELSE 1 + Exponent(x \div 2)

RECURSIVE Places(_, _)
Places(y, k) ==
  IF k = 0 THEN 0
  ELSE LET z == (y * y) \div 2^14
       IN  IF z >= 2^15 THEN 2^(k - 1) + Places(z \div 2, k - 1) ELSE Places(z, k - 1)

\* In thousandths: the binary logarithm with twelve places, times ln 2 = 0.6931.
LnTable ==
  [x \in 1 .. Unit |->
     LET e == Exponent(x)
     IN  ((e * 2^12 + Places((x * 2^14) \div 2^e, 12)) * 6931) \div (10 * 2^12)]
===============================================================================
