----------------------------- MODULE MCFailover -----------------------------
(* Instances of Failover for TLC.                                          *)
EXTENDS Failover

TwoGroups == [x \in {"g", "h"} |-> IF x = "g" THEN <<"a", "b">> ELSE <<"b", "a">>]
GThenH == <<"g", "h">>
AnyThenFallback ==
  {[x \in {"g", "h"} |-> IF x = "g" THEN p ELSE "fallback"] : p \in {"urltest", "fallback", "selector"}}
ThreeQuarters(p) == (3 * p) \div 4
============================================================================
