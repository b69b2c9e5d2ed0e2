------------------------------- MODULE MCStore -------------------------------
(* Instances of Store for TLC.                                             *)
EXTENDS Store

On(kind) == [on |-> TRUE, kind |-> kind]
Off(kind) == [on |-> FALSE, kind |-> kind]
ListTo(out, via) == [out |-> out, via |-> via, on |-> TRUE, scope |-> {"d"}, src |-> "x", cache |-> "x"]
Plane(detour, asks) ==
  [srv |-> Put([s \in {"s"} |-> [on |-> TRUE, to |-> detour]], "v", [on |-> asks # None, to |-> asks]),
   rule |-> [q \in {"q"} |-> [srv |-> "v", off |-> asks = None, set |-> "l"]], final |-> "s"]

One(k, S) == {[x \in {k} |-> v] : v \in S}

Profiles ==
  {p \in [ep : {[e \in {"a", "b"} |-> IF e = "a" THEN On("vpn") ELSE b] : b \in {On("vpn"), Off("vpn")}},
          grp : {Put([x \in {"g"} |-> {"a"}], "h", {"g"}), Put([x \in {"g"} |-> {"a", "b"}], "h", {"b"})}
                \cup One("g", {{"a", Direct}}),
          rule : One("r", {[out |-> "g", off |-> FALSE]}),
          list : One("l", {ListTo("a", None), ListTo("h", "a")}),
          dev : {{"d"}},
          dns : {Plane("a", "a"), Plane("g", None)}] :
     Validate(p) /\ (p.list["l"].out = "h" <=> "h" \in DOMAIN p.grp)}

Groups == {{"a"}, {"b", "g"}, {}}
Rules == {[out |-> o, off |-> FALSE] : o \in {"b", "g"}}
Lists == {[ListTo("b", None) EXCEPT !.src = "y", !.cache = None], [ListTo("a", "g") EXCEPT !.cache = None]}
Planes == {NoDNS, Plane("b", "b"), Plane(None, None)}
=============================================================================
