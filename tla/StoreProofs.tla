----------------------------- MODULE StoreProofs -----------------------------
(* Proofs about Store: the shape of the profile, what is never stored, and   *)
(* what the writers that read first may overwrite, and that a removal leaves *)
(* a profile that can be applied.                                            *)
EXTENDS Store, TLAPS

-----------------------------------------------------------------------------
(* Partial functions                                                         *)

\* A partial function from S to T is a function on a part of S.
LEMMA PartialDef ==
  ASSUME NEW S, NEW T, NEW f
  PROVE  f \in Partial(S, T) <=> DOMAIN f \subseteq S /\ f \in [DOMAIN f -> T]
<1>1. ASSUME f \in Partial(S, T) PROVE DOMAIN f \subseteq S /\ f \in [DOMAIN f -> T]
  <2>1. PICK D \in SUBSET S : f \in [D -> T]
    BY <1>1 DEF Partial
  <2> QED
    BY <2>1
<1>2. ASSUME DOMAIN f \subseteq S, f \in [DOMAIN f -> T] PROVE f \in Partial(S, T)
  BY <1>2 DEF Partial
<1> QED
  BY <1>1, <1>2

LEMMA PutValues ==
  ASSUME NEW f, NEW k, NEW v
  PROVE  /\ DOMAIN Put(f, k, v) = DOMAIN f \cup {k} /\ Put(f, k, v)[k] = v
         /\ \A x \in DOMAIN f : x # k => Put(f, k, v)[x] = f[x]
BY DEF Put

LEMMA PutIn ==
  ASSUME NEW S, NEW T, NEW f \in Partial(S, T), NEW k \in S, NEW v \in T
  PROVE  Put(f, k, v) \in Partial(S, T)
<1>1. DOMAIN f \subseteq S /\ f \in [DOMAIN f -> T]
  BY PartialDef
<1>2. Put(f, k, v) \in [DOMAIN f \cup {k} -> T]
  BY <1>1 DEF Put
<1> QED
  BY <1>1, <1>2, PutValues, PartialDef

LEMMA DropValues ==
  ASSUME NEW f, NEW k
  PROVE  /\ DOMAIN Drop(f, k) = DOMAIN f \ {k}
         /\ \A x \in DOMAIN f \ {k} : Drop(f, k)[x] = f[x]
BY DEF Drop, Restrict

LEMMA DropIn ==
  ASSUME NEW S, NEW T, NEW f \in Partial(S, T), NEW k
  PROVE  Drop(f, k) \in Partial(S, T)
<1>1. DOMAIN f \subseteq S /\ f \in [DOMAIN f -> T]
  BY PartialDef
<1>2. Drop(f, k) \in [DOMAIN f \ {k} -> T]
  BY <1>1 DEF Drop, Restrict
<1> QED
  BY <1>1, <1>2, DropValues, PartialDef

\* A function with the domain of a partial one and values in T is partial too.
LEMMA SameDomain ==
  ASSUME NEW S, NEW T, NEW f \in Partial(S, T), NEW g, g \in [DOMAIN f -> T]
  PROVE  g \in Partial(S, T) /\ DOMAIN g = DOMAIN f
BY PartialDef

-----------------------------------------------------------------------------
(* The parts of a profile                                                    *)

LEMMA Parts ==
  ASSUME NEW p \in Profile
  PROVE  /\ p.ep \in Partial(Endpoint, EndpointForm) /\ p.grp \in Partial(Group, GroupForm)
         /\ p.rule \in Partial(Rule, RuleForm) /\ p.list \in Partial(List, ListForm)
         /\ p.dev \in SUBSET DevGroup /\ p.dns \in DnsPlane
         /\ p.dns.srv \in Partial(Resolver \cup VpnResolver, ServerForm)
         /\ p.dns.rule \in Partial(DnsRule, DnsRuleForm)
         /\ \A e \in DOMAIN p.ep : e \in Endpoint /\ p.ep[e] \in EndpointForm
         /\ \A g \in DOMAIN p.grp : g \in Group /\ p.grp[g] \in GroupForm
         /\ \A r \in DOMAIN p.rule : r \in Rule /\ p.rule[r] \in RuleForm
         /\ \A l \in DOMAIN p.list : l \in List /\ p.list[l] \in ListForm
         /\ \A s \in DOMAIN p.dns.srv : s \in Resolver \cup VpnResolver /\ p.dns.srv[s] \in ServerForm
         /\ \A q \in DOMAIN p.dns.rule : q \in DnsRule /\ p.dns.rule[q] \in DnsRuleForm
<1>1. /\ p.ep \in Partial(Endpoint, EndpointForm) /\ p.grp \in Partial(Group, GroupForm)
      /\ p.rule \in Partial(Rule, RuleForm) /\ p.list \in Partial(List, ListForm)
      /\ p.dev \in SUBSET DevGroup /\ p.dns \in DnsPlane
  BY DEF Profile
<1>2. /\ p.dns.srv \in Partial(Resolver \cup VpnResolver, ServerForm)
      /\ p.dns.rule \in Partial(DnsRule, DnsRuleForm)
  BY <1>1 DEF DnsPlane
<1>3. \A S, T, f : f \in Partial(S, T) => \A x \in DOMAIN f : x \in S /\ f[x] \in T
  BY PartialDef
<1> QED
  BY <1>1, <1>2, <1>3

\* Replacing one part of a profile.
LEMMA Replace ==
  ASSUME NEW p \in Profile
  PROVE  /\ \A x \in Partial(Endpoint, EndpointForm) :
              LET q == [p EXCEPT !.ep = x]
              IN q \in Profile /\ q.ep = x /\ q.grp = p.grp /\ q.rule = p.rule /\ q.list = p.list /\ q.dev = p.dev /\ q.dns = p.dns
         /\ \A x \in Partial(Group, GroupForm) :
              LET q == [p EXCEPT !.grp = x]
              IN q \in Profile /\ q.ep = p.ep /\ q.grp = x /\ q.rule = p.rule /\ q.list = p.list /\ q.dev = p.dev /\ q.dns = p.dns
         /\ \A x \in Partial(Rule, RuleForm) :
              LET q == [p EXCEPT !.rule = x]
              IN q \in Profile /\ q.ep = p.ep /\ q.grp = p.grp /\ q.rule = x /\ q.list = p.list /\ q.dev = p.dev /\ q.dns = p.dns
         /\ \A x \in Partial(List, ListForm) :
              LET q == [p EXCEPT !.list = x]
              IN q \in Profile /\ q.ep = p.ep /\ q.grp = p.grp /\ q.rule = p.rule /\ q.list = x /\ q.dev = p.dev /\ q.dns = p.dns
         /\ \A x \in DnsPlane :
              LET q == [p EXCEPT !.dns = x]
              IN q \in Profile /\ q.ep = p.ep /\ q.grp = p.grp /\ q.rule = p.rule /\ q.list = p.list /\ q.dev = p.dev /\ q.dns = x
BY DEF Profile

-----------------------------------------------------------------------------
(* What the changes of a profile keep                                        *)

\* The changed profile is one, and no worse than the one it was made from.
Keeps(p, q) ==
  /\ q \in Profile
  /\ CachesMatch(p) => CachesMatch(q)
  /\ EndpointsLoad(p) => EndpointsLoad(q)

LEMMA KeepsIf ==
  ASSUME NEW p \in Profile, NEW q \in Profile,
         \A e \in DOMAIN q.ep : e \in DOMAIN p.ep /\ (q.ep[e] = p.ep[e] \/ ~q.ep[e].on),
         \A l \in DOMAIN q.list :
            l \in DOMAIN p.list /\ q.list[l].cache = p.list[l].cache /\ q.list[l].src = p.list[l].src
  PROVE  Keeps(p, q)
BY DEF Keeps, CachesMatch, FromItsSource, EndpointsLoad

LEMMA KeepsTrans ==
  ASSUME NEW p, NEW q, NEW r, Keeps(p, q), Keeps(q, r)
  PROVE  Keeps(p, r)
BY DEF Keeps

\* Switching resolvers and their rules off keeps a DNS plane a plane.
LEMMA ParkResolversIn ==
  ASSUME NEW dns \in DnsPlane, NEW tags
  PROVE  ParkResolvers(dns, tags) \in DnsPlane
<1> DEFINE srv == [s \in DOMAIN dns.srv |-> IF s \in tags THEN [dns.srv[s] EXCEPT !.on = FALSE] ELSE dns.srv[s]]
           rule == [q \in DOMAIN dns.rule |->
                      IF dns.rule[q].srv \in tags THEN [dns.rule[q] EXCEPT !.off = TRUE] ELSE dns.rule[q]]
<1>1. /\ dns.srv \in Partial(Resolver \cup VpnResolver, ServerForm)
      /\ dns.rule \in Partial(DnsRule, DnsRuleForm)
  BY DEF DnsPlane
<1>2. /\ \A s \in DOMAIN dns.srv : dns.srv[s] \in ServerForm
      /\ \A q \in DOMAIN dns.rule : dns.rule[q] \in DnsRuleForm
  BY <1>1, PartialDef
<1>3. srv \in Partial(Resolver \cup VpnResolver, ServerForm)
  <2>1. \A x \in ServerForm : [x EXCEPT !.on = FALSE] \in ServerForm
    BY DEF ServerForm
  <2>2. srv \in [DOMAIN dns.srv -> ServerForm]
    BY <1>2, <2>1
  <2> QED
    BY <1>1, <2>2, SameDomain
<1>4. rule \in Partial(DnsRule, DnsRuleForm)
  <2>1. \A x \in DnsRuleForm : [x EXCEPT !.off = TRUE] \in DnsRuleForm
    BY DEF DnsRuleForm
  <2>2. rule \in [DOMAIN dns.rule -> DnsRuleForm]
    BY <1>2, <2>1
  <2> QED
    BY <1>1, <2>2, SameDomain
<1>5. ParkResolvers(dns, tags) = [dns EXCEPT !.srv = srv, !.rule = rule]
  BY DEF ParkResolvers
<1> HIDE DEF srv, rule
<1> QED
  BY <1>3, <1>4, <1>5 DEF DnsPlane

\* So does moving its detours.
LEMMA MoveDetoursIn ==
  ASSUME NEW dns \in DnsPlane, NEW id, NEW to \in Outbound \cup {None}
  PROVE  MoveDetours(dns, id, to) \in DnsPlane /\ DOMAIN MoveDetours(dns, id, to).srv = DOMAIN dns.srv
<1> DEFINE srv == [s \in DOMAIN dns.srv |->
                     IF s \in Resolver /\ dns.srv[s].to = id THEN [dns.srv[s] EXCEPT !.to = to] ELSE dns.srv[s]]
<1>1. dns.srv \in Partial(Resolver \cup VpnResolver, ServerForm)
  BY DEF DnsPlane
<1>2. \A s \in DOMAIN dns.srv : dns.srv[s] \in ServerForm
  BY <1>1, PartialDef
<1>3. srv \in Partial(Resolver \cup VpnResolver, ServerForm) /\ DOMAIN srv = DOMAIN dns.srv
  <2>1. \A x \in ServerForm : [x EXCEPT !.to = to] \in ServerForm
    BY DEF ServerForm
  <2>2. srv \in [DOMAIN dns.srv -> ServerForm]
    BY <1>2, <2>1
  <2> QED
    BY <1>1, <2>2, SameDomain
<1>4. MoveDetours(dns, id, to) = [dns EXCEPT !.srv = srv]
  BY DEF MoveDetours
<1> HIDE DEF srv
<1> QED
  BY <1>3, <1>4 DEF DnsPlane

LEMMA RepointResolversIn ==
  ASSUME NEW p \in Profile, NEW id, NEW to \in Outbound
  PROVE  RepointResolvers(p, id, to) \in DnsPlane
<1> DEFINE dns == MoveDetours(p.dns, id, to)
<1>1. dns \in DnsPlane /\ DOMAIN dns.srv = DOMAIN p.dns.srv
  BY Parts, MoveDetoursIn
<1> HIDE DEF dns
<1>2. CASE Asks(p, id) # {} /\ Serves(p, to) /\ Asks(p, to) = {}
  <2> DEFINE taker == CHOOSE s \in Asks(p, id) : TRUE
             srv == [dns.srv EXCEPT ![taker].to = to]
  <2>1. taker \in Asks(p, id)
    BY <1>2
  <2>2. taker \in DOMAIN dns.srv
    BY <1>1, <2>1 DEF Asks
  <2> HIDE DEF taker
  <2>3. dns.srv \in Partial(Resolver \cup VpnResolver, ServerForm)
    BY <1>1 DEF DnsPlane
  <2>4. dns.srv \in [DOMAIN dns.srv -> ServerForm]
    BY <2>3, PartialDef
  <2>5. [dns.srv[taker] EXCEPT !.to = to] \in ServerForm
    BY <2>2, <2>4 DEF ServerForm
  <2>6. srv \in [DOMAIN dns.srv -> ServerForm]
    BY <2>2, <2>4, <2>5
  <2>7. srv \in Partial(Resolver \cup VpnResolver, ServerForm)
    BY <2>3, <2>6, SameDomain
  <2> HIDE DEF srv
  <2>8. [dns EXCEPT !.srv = srv] \in DnsPlane
    BY <1>1, <2>7 DEF DnsPlane
  <2>9. RepointResolvers(p, id, to) = ParkResolvers([dns EXCEPT !.srv = srv], Asks(p, id) \ {taker})
    BY <1>2 DEF RepointResolvers, dns, taker, srv
  <2> QED
    BY <2>8, <2>9, ParkResolversIn
<1>3. CASE ~(Asks(p, id) # {} /\ Serves(p, to) /\ Asks(p, to) = {})
  <2>1. RepointResolvers(p, id, to) = ParkResolvers(dns, Asks(p, id))
    BY <1>3 DEF RepointResolvers, dns
  <2> QED
    BY <1>1, <2>1, ParkResolversIn
<1> QED
  BY <1>2, <1>3

\* Repointing the dependents of a connection.
LEMMA RepointKeeps ==
  ASSUME NEW p \in Profile, NEW id, NEW to \in Outbound
  PROVE  LET q == RepointDependents(p, id, to)
         IN Keeps(p, q) /\ q.ep = p.ep /\ q.grp = p.grp
<1> DEFINE R == [r \in DOMAIN p.rule |-> IF p.rule[r].out = id THEN [p.rule[r] EXCEPT !.out = to] ELSE p.rule[r]]
           L == [l \in DOMAIN p.list |-> RepointedList(p.list[l], id, to)]
<1>1. R \in [DOMAIN p.rule -> RuleForm]
  <2>1. \A x \in RuleForm : [x EXCEPT !.out = to] \in RuleForm
    BY DEF RuleForm
  <2> QED
    BY <2>1, Parts
<1>2. \A x \in ListForm : LET y == RepointedList(x, id, to)
                          IN y \in ListForm /\ y.cache = x.cache /\ y.src = x.src
  BY DEF ListForm, RepointedList
<1>3. \A l \in DOMAIN p.list : p.list[l] \in ListForm
  BY Parts
<1>4. /\ L \in [DOMAIN p.list -> ListForm]
      /\ \A l \in DOMAIN p.list : L[l].cache = p.list[l].cache /\ L[l].src = p.list[l].src
  BY <1>2, <1>3
<1>5. RepointDependents(p, id, to) = [p EXCEPT !.rule = R, !.list = L, !.dns = RepointResolvers(p, id, to)]
  BY DEF RepointDependents
<1> HIDE DEF R, L
<1>6. RepointResolvers(p, id, to) \in DnsPlane
  BY RepointResolversIn
<1> DEFINE q == RepointDependents(p, id, to)
<1> HIDE DEF q
<1>7. q = [p EXCEPT !.rule = R, !.list = L, !.dns = RepointResolvers(p, id, to)]
  BY <1>5 DEF q
<1>8. R \in Partial(Rule, RuleForm) /\ L \in Partial(List, ListForm) /\ DOMAIN L = DOMAIN p.list
  <2>1. p.rule \in Partial(Rule, RuleForm) /\ p.list \in Partial(List, ListForm)
    BY Parts
  <2>2. R \in Partial(Rule, RuleForm)
    BY <1>1, <2>1, SameDomain
  <2>3. L \in Partial(List, ListForm) /\ DOMAIN L = DOMAIN p.list
    BY <1>4, <2>1, SameDomain
  <2> QED
    BY <2>2, <2>3
<1>9. q \in Profile /\ q.ep = p.ep /\ q.grp = p.grp /\ q.list = L
  <2>1. q \in Profile
    BY <1>6, <1>7, <1>8 DEF Profile
  <2> QED
    BY <1>7, <2>1 DEF Profile
<1>10. Keeps(p, q)
  <2>1. /\ \A e \in DOMAIN q.ep : e \in DOMAIN p.ep /\ (q.ep[e] = p.ep[e] \/ ~q.ep[e].on)
        /\ \A l \in DOMAIN q.list :
              l \in DOMAIN p.list /\ q.list[l].cache = p.list[l].cache /\ q.list[l].src = p.list[l].src
    BY <1>4, <1>8, <1>9
  <2> QED
    BY <1>9, <2>1, KeepsIf
<1> QED
  BY <1>9, <1>10 DEF q

\* Parking them.
LEMMA ParkKeeps ==
  ASSUME NEW p \in Profile, NEW id
  PROVE  LET q == ParkDependents(p, id)
         IN Keeps(p, q) /\ q.ep = p.ep /\ q.grp = p.grp
<1> DEFINE R == [r \in DOMAIN p.rule |-> IF p.rule[r].out = id THEN [out |-> Direct, off |-> TRUE] ELSE p.rule[r]]
           L == [l \in DOMAIN p.list |-> ParkedList(p.list[l], id)]
           D == ParkResolvers(MoveDetours(p.dns, id, None), Asks(p, id))
<1>0. Direct \in Outbound
  BY DEF Outbound, Builtin
<1>1. R \in [DOMAIN p.rule -> RuleForm]
  <2>1. [out |-> Direct, off |-> TRUE] \in RuleForm
    BY <1>0 DEF RuleForm
  <2> QED
    BY <2>1, Parts
<1>2. \A x \in ListForm : LET y == ParkedList(x, id)
                          IN y \in ListForm /\ y.cache = x.cache /\ y.src = x.src
  BY <1>0 DEF ListForm, ParkedList
<1>3. \A l \in DOMAIN p.list : p.list[l] \in ListForm
  BY Parts
<1>4. /\ L \in [DOMAIN p.list -> ListForm]
      /\ \A l \in DOMAIN p.list : L[l].cache = p.list[l].cache /\ L[l].src = p.list[l].src
  BY <1>2, <1>3
<1>5. D \in DnsPlane
  BY Parts, MoveDetoursIn, ParkResolversIn
<1>6. ParkDependents(p, id) = [p EXCEPT !.rule = R, !.list = L, !.dns = D]
  BY DEF ParkDependents
<1> HIDE DEF R, L, D
<1> DEFINE q == ParkDependents(p, id)
<1> HIDE DEF q
<1>7. q = [p EXCEPT !.rule = R, !.list = L, !.dns = D]
  BY <1>6 DEF q
<1>8. R \in Partial(Rule, RuleForm) /\ L \in Partial(List, ListForm) /\ DOMAIN L = DOMAIN p.list
  <2>1. p.rule \in Partial(Rule, RuleForm) /\ p.list \in Partial(List, ListForm)
    BY Parts
  <2>2. R \in Partial(Rule, RuleForm)
    BY <1>1, <2>1, SameDomain
  <2>3. L \in Partial(List, ListForm) /\ DOMAIN L = DOMAIN p.list
    BY <1>4, <2>1, SameDomain
  <2> QED
    BY <2>2, <2>3
<1>9. q \in Profile /\ q.ep = p.ep /\ q.grp = p.grp /\ q.list = L
  <2>1. q \in Profile
    BY <1>5, <1>7, <1>8 DEF Profile
  <2> QED
    BY <1>7, <2>1 DEF Profile
<1>10. Keeps(p, q)
  <2>1. /\ \A e \in DOMAIN q.ep : e \in DOMAIN p.ep /\ (q.ep[e] = p.ep[e] \/ ~q.ep[e].on)
        /\ \A l \in DOMAIN q.list :
              l \in DOMAIN p.list /\ q.list[l].cache = p.list[l].cache /\ q.list[l].src = p.list[l].src
    BY <1>4, <1>8, <1>9
  <2> QED
    BY <1>9, <2>1, KeepsIf
<1> QED
  BY <1>9, <1>10 DEF q

\* Taking a connection or a group out of the groups.
LEMMA PruneKeeps ==
  ASSUME NEW p \in Profile, NEW id
  PROVE  Keeps(p, Prune(p, id)) /\ Prune(p, id).ep = p.ep
<1> DEFINE G == [g \in DOMAIN p.grp |-> p.grp[g] \ {id}]
<1>1. G \in Partial(Group, GroupForm)
  <2>1. G \in [DOMAIN p.grp -> GroupForm]
    BY Parts DEF GroupForm
  <2> QED
    BY <2>1, Parts, SameDomain
<1>2. Prune(p, id) = [p EXCEPT !.grp = G]
  BY DEF Prune
<1> HIDE DEF G
<1>3. Prune(p, id) \in Profile /\ Prune(p, id).ep = p.ep /\ Prune(p, id).list = p.list
  BY <1>1, <1>2, Replace
<1> QED
  BY <1>3, KeepsIf

\* Any other change of the groups.
LEMMA GroupsKeep ==
  ASSUME NEW p \in Profile, NEW G \in Partial(Group, GroupForm)
  PROVE  Keeps(p, [p EXCEPT !.grp = G]) /\ [p EXCEPT !.grp = G].ep = p.ep
<1> DEFINE q == [p EXCEPT !.grp = G]
<1>1. q \in Profile /\ q.ep = p.ep /\ q.list = p.list
  BY Replace
<1> HIDE DEF q
<1>2. Keeps(p, q)
  BY <1>1, KeepsIf
<1> QED
  BY <1>1, <1>2 DEF q

LEMMA RemoveKeeps ==
  ASSUME NEW p \in Profile, NEW id
  PROVE  Keeps(p, RemoveEndpoint(p, id))
<1> DEFINE a == Prune(p, id)
<1>1. a \in Profile /\ Keeps(p, a) /\ a.ep \in Partial(Endpoint, EndpointForm)
  BY PruneKeeps, Parts DEF Keeps
<1> HIDE DEF a
<1> DEFINE E == Drop(a.ep, id)
<1>2. /\ E \in Partial(Endpoint, EndpointForm) /\ DOMAIN E = DOMAIN a.ep \ {id}
      /\ \A x \in DOMAIN a.ep \ {id} : E[x] = a.ep[x]
  <2>1. E \in Partial(Endpoint, EndpointForm)
    BY <1>1, DropIn, Zenon
  <2> QED
    BY <2>1, DropValues
<1> HIDE DEF E
<1> DEFINE q == [a EXCEPT !.ep = E]
<1>3. q \in Profile /\ q.ep = E /\ q.list = a.list
  BY <1>1, <1>2, Replace
<1>4. RemoveEndpoint(p, id) = q
  BY DEF RemoveEndpoint, a, E
<1> HIDE DEF q
<1>5. Keeps(a, q)
  BY <1>1, <1>2, <1>3, KeepsIf
<1> QED
  BY <1>1, <1>4, <1>5, KeepsTrans

\* Switching a connection off.
LEMMA SwitchedOffKeeps ==
  ASSUME NEW p \in Profile, NEW id \in DOMAIN p.ep, NEW kind \in EndpointKind
  PROVE  Keeps(p, SwitchedOff(p, id, kind)) /\ SwitchedOff(p, id, kind).grp = p.grp
<1> DEFINE E == [p.ep EXCEPT ![id] = [on |-> FALSE, kind |-> kind]]
           q == [p EXCEPT !.ep = E]
<1>1. p.ep \in [DOMAIN p.ep -> EndpointForm]
  BY Parts, PartialDef
<1>2. [on |-> FALSE, kind |-> kind] \in EndpointForm
  BY DEF EndpointForm
<1>3. /\ E \in [DOMAIN p.ep -> EndpointForm] /\ E[id].on = FALSE
      /\ \A x \in DOMAIN p.ep : x # id => E[x] = p.ep[x]
  BY <1>1, <1>2
<1> HIDE DEF E
<1>4. E \in Partial(Endpoint, EndpointForm) /\ DOMAIN E = DOMAIN p.ep
  <2>1. p.ep \in Partial(Endpoint, EndpointForm)
    BY Parts
  <2> QED
    BY <1>3, <2>1, SameDomain
<1>5. q \in Profile /\ q.ep = E /\ q.list = p.list /\ q.grp = p.grp
  BY <1>4, Replace
<1>6. SwitchedOff(p, id, kind) = q
  BY DEF SwitchedOff, E
<1> HIDE DEF q
<1>7. Keeps(p, q)
  BY <1>3, <1>4, <1>5, KeepsIf
<1> QED
  BY <1>5, <1>6, <1>7

\* Other connections: each is one of the profile's, or may run.
LEMMA EndpointsKeep ==
  ASSUME NEW p \in Profile, NEW E \in Partial(Endpoint, EndpointForm),
         EndpointsLoad(p) => \A e \in DOMAIN E : E[e].on => E[e].kind # "draft"
  PROVE  Keeps(p, [p EXCEPT !.ep = E])
<1> DEFINE q == [p EXCEPT !.ep = E]
<1>1. q \in Profile /\ q.ep = E /\ q.list = p.list
  BY Replace
<1> HIDE DEF q
<1>2. Keeps(p, q)
  BY <1>1 DEF Keeps, CachesMatch, EndpointsLoad
<1> QED
  BY <1>2 DEF q

\* Other lists: each carries nothing, or its source's feed.
LEMMA ListsKeep ==
  ASSUME NEW p \in Profile, NEW L \in Partial(List, ListForm),
         CachesMatch(p) => \A l \in DOMAIN L : FromItsSource(L[l])
  PROVE  Keeps(p, [p EXCEPT !.list = L])
<1> DEFINE q == [p EXCEPT !.list = L]
<1>1. q \in Profile /\ q.ep = p.ep /\ q.list = L
  BY Replace
<1> HIDE DEF q
<1>2. Keeps(p, q)
  BY <1>1 DEF Keeps, CachesMatch, EndpointsLoad
<1> QED
  BY <1>2 DEF q

\* Other rules, another DNS plane.
LEMMA RulesKeep ==
  ASSUME NEW p \in Profile, NEW R \in Partial(Rule, RuleForm)
  PROVE  Keeps(p, [p EXCEPT !.rule = R])
<1> DEFINE q == [p EXCEPT !.rule = R]
<1>1. q \in Profile /\ q.ep = p.ep /\ q.list = p.list
  BY Replace
<1> HIDE DEF q
<1>2. Keeps(p, q)
  BY <1>1 DEF Keeps, CachesMatch, EndpointsLoad
<1> QED
  BY <1>2 DEF q

LEMMA DnsKeeps ==
  ASSUME NEW p \in Profile, NEW D \in DnsPlane
  PROVE  Keeps(p, [p EXCEPT !.dns = D])
<1> DEFINE q == [p EXCEPT !.dns = D]
<1>1. q \in Profile /\ q.ep = p.ep /\ q.list = p.list
  BY Replace
<1> HIDE DEF q
<1>2. Keeps(p, q)
  BY <1>1 DEF Keeps, CachesMatch, EndpointsLoad
<1> QED
  BY <1>2 DEF q

\* A stored connection that may run, whoever brings it in.
LEMMA PutEndpointKeeps ==
  ASSUME NEW p \in Profile, NEW id \in Endpoint, NEW x \in EndpointForm, x.on = MayRun(x.on, x.kind)
  PROVE  Keeps(p, [p EXCEPT !.ep = Put(p.ep, id, x)])
<1> DEFINE E == Put(p.ep, id, x)
<1>1. p.ep \in Partial(Endpoint, EndpointForm)
  BY Parts
<1>2. E \in Partial(Endpoint, EndpointForm)
  BY <1>1, PutIn
<1>3. /\ DOMAIN E = DOMAIN p.ep \cup {id} /\ E[id] = x
      /\ \A e \in DOMAIN p.ep : e # id => E[e] = p.ep[e]
  BY DEF Put
<1> HIDE DEF E
<1>4. EndpointsLoad(p) => \A e \in DOMAIN E : E[e].on => E[e].kind # "draft"
  BY <1>3 DEF EndpointsLoad, MayRun
<1>5. Keeps(p, [p EXCEPT !.ep = E])
  BY <1>2, <1>4, EndpointsKeep
<1> QED
  BY <1>5 DEF E

\* A list that carries nothing, or its source's feed, once the store has settled its cache.
LEMMA WithListKeeps ==
  ASSUME NEW p \in Profile, NEW l \in List, NEW form \in ListForm,
         CachesMatch(p) => FromItsSource(IF l \in DOMAIN p.list THEN KeepCache(p.list[l], form) ELSE form)
  PROVE  Keeps(p, WithList(p, l, form))
<1> DEFINE x == IF l \in DOMAIN p.list THEN KeepCache(p.list[l], form) ELSE form
           L == Put(p.list, l, x)
<1>1. x \in ListForm
  <2>1. \A y \in ListForm : KeepCache(y, form) \in ListForm
    BY DEF ListForm, KeepCache
  <2> QED
    BY <2>1, Parts
<1>2. CachesMatch(p) => FromItsSource(x)
  OBVIOUS
<1> HIDE DEF x
<1>3. p.list \in Partial(List, ListForm)
  BY Parts
<1>4. L \in Partial(List, ListForm)
  BY <1>1, <1>3, PutIn
<1>5. /\ DOMAIN L = DOMAIN p.list \cup {l} /\ L[l] = x
      /\ \A m \in DOMAIN p.list : m # l => L[m] = p.list[m]
  BY DEF Put
<1> HIDE DEF L
<1>6. CachesMatch(p) => \A m \in DOMAIN L : FromItsSource(L[m])
  BY <1>2, <1>5 DEF CachesMatch
<1>7. Keeps(p, [p EXCEPT !.list = L])
  BY <1>4, <1>6, ListsKeep
<1> QED
  BY <1>7 DEF WithList, L, x

-----------------------------------------------------------------------------
(* The writers that answer at once                                           *)

\* Every delete, move and detach publishes a profile that keeps what this one has.
LEMMA StructuralKeeps ==
  ASSUME profile \in Profile, Structural
  PROVE  Write(profile') /\ Keeps(profile, profile')
<1>1. ASSUME NEW q, Write(q), Keeps(profile, q)
      PROVE  Write(profile') /\ Keeps(profile, profile')
  BY <1>1 DEF Write, Publish
<1>2. ASSUME NEW id \in Endpoint, DeleteEndpoint(id)
      PROVE  Write(profile') /\ Keeps(profile, profile')
  BY <1>1, <1>2, RemoveKeeps DEF DeleteEndpoint
<1>3. ASSUME NEW id \in Endpoint, DetachEndpointDependents(id)
      PROVE  Write(profile') /\ Keeps(profile, profile')
  <2> DEFINE a == ParkDependents(profile, id)
             q == RemoveEndpoint(a, id)
  <2>1. Keeps(profile, a) /\ a \in Profile
    BY ParkKeeps DEF Keeps
  <2> HIDE DEF a
  <2>2. Keeps(a, q)
    BY <2>1, RemoveKeeps
  <2>3. Keeps(profile, q)
    BY <2>1, <2>2, KeepsTrans
  <2>4. Write(q)
    BY <1>3 DEF DetachEndpointDependents, a
  <2> HIDE DEF q
  <2> QED
    BY <1>1, <2>3, <2>4
<1>4. ASSUME NEW id \in Endpoint, NEW kind \in EndpointKind, SetEndpointDisabledDetaching(id, kind)
      PROVE  Write(profile') /\ Keeps(profile, profile')
  <2> DEFINE a == SwitchedOff(profile, id, kind)
             b == ParkDependents(a, id)
             q == Prune(b, id)
  <2>1. Keeps(profile, a) /\ a \in Profile
    BY <1>4, SwitchedOffKeeps DEF Keeps, SetEndpointDisabledDetaching
  <2> HIDE DEF a
  <2>2. Keeps(a, b) /\ b \in Profile
    BY <2>1, ParkKeeps DEF Keeps
  <2> HIDE DEF b
  <2>3. Keeps(b, q)
    BY <2>2, PruneKeeps
  <2>4. Write(q)
    BY <1>4 DEF SetEndpointDisabledDetaching, a, b
  <2> HIDE DEF q
  <2>5. Keeps(profile, q)
    BY <2>1, <2>2, <2>3, KeepsTrans
  <2> QED
    BY <1>1, <2>4, <2>5
<1>5. ASSUME NEW id \in Endpoint, NEW to \in Outbound, DeleteEndpointReplacing(id, to)
      PROVE  Write(profile') /\ Keeps(profile, profile')
  <2> DEFINE a == RepointDependents(profile, id, to)
             b == RemoveEndpoint(a, id)
             G == [g \in DOMAIN b.grp |-> IF b.grp[g] = {} THEN {to} ELSE b.grp[g]]
             c == [b EXCEPT !.grp = G]
             q == IF to \in DOMAIN profile.ep THEN c ELSE b
  <2>1. Keeps(profile, a) /\ a \in Profile
    BY RepointKeeps DEF Keeps
  <2>2. Write(q)
    BY <1>5 DEF DeleteEndpointReplacing
  <2> HIDE DEF a
  <2>3. Keeps(a, b) /\ b \in Profile
    BY <2>1, RemoveKeeps DEF Keeps
  <2> HIDE DEF b
  <2>4. CASE to \in DOMAIN profile.ep
    <3>1. {to} \in GroupForm
      BY <2>4, Parts, StoreAssumption DEF GroupForm, Outbound, Builtin
    <3>2. \A g \in DOMAIN b.grp : b.grp[g] \in GroupForm
      BY <2>3, Parts
    <3>3. G \in [DOMAIN b.grp -> GroupForm]
      BY <3>1, <3>2
    <3>4. b.grp \in Partial(Group, GroupForm)
      BY <2>3, Parts
    <3>5. G \in Partial(Group, GroupForm)
      BY <3>3, <3>4, SameDomain
    <3> HIDE DEF G
    <3>6. Keeps(b, c)
      BY <2>3, <3>5, GroupsKeep
    <3>7. Keeps(profile, c)
      BY <2>1, <2>3, <3>6, KeepsTrans
    <3>8. Write(c)
      BY <2>2, <2>4
    <3> HIDE DEF c
    <3> QED
      BY <1>1, <3>7, <3>8
  <2>5. CASE to \notin DOMAIN profile.ep
    <3>1. Keeps(profile, b)
      BY <2>1, <2>3, KeepsTrans
    <3>2. Write(b)
      BY <2>2, <2>5
    <3> QED
      BY <1>1, <3>1, <3>2
  <2> QED
    BY <2>4, <2>5
<1>6. ASSUME NEW id \in Endpoint, NEW kind \in EndpointKind, NEW to \in Outbound,
             SetEndpointDisabledReplacing(id, kind, to)
      PROVE  Write(profile') /\ Keeps(profile, profile')
  <2> DEFINE a == SwitchedOff(profile, id, kind)
             G == [g \in DOMAIN a.grp |-> IF id \in a.grp[g] THEN (a.grp[g] \ {id}) \cup {to} ELSE a.grp[g]]
             b == [a EXCEPT !.grp = G]
             q == RepointDependents(b, id, to)
  <2>1. Keeps(profile, a) /\ a \in Profile /\ a.grp = profile.grp
    BY <1>6, SwitchedOffKeeps DEF Keeps, SetEndpointDisabledReplacing
  <2>2. Write(q)
    BY <1>6 DEF SetEndpointDisabledReplacing
  <2>3. \A g \in DOMAIN a.grp : a.grp[g] \in GroupForm /\ (id \in a.grp[g] => to \in Known(profile))
    BY <1>6, <2>1, Parts DEF SetEndpointDisabledReplacing
  <2> HIDE DEF a
  <2>4. to \in Known(profile) => to \in Outbound \ {Block}
    BY Parts, StoreAssumption DEF Known, Outbound, Builtin
  <2>5. G \in [DOMAIN a.grp -> GroupForm]
    BY <2>3, <2>4 DEF GroupForm
  <2>6. a.grp \in Partial(Group, GroupForm)
    BY <2>1, Parts
  <2>7. G \in Partial(Group, GroupForm)
    BY <2>5, <2>6, SameDomain
  <2> HIDE DEF G
  <2>8. Keeps(a, b) /\ b \in Profile
    BY <2>1, <2>7, GroupsKeep DEF Keeps
  <2> HIDE DEF b
  <2>9. Keeps(b, q)
    BY <2>8, RepointKeeps
  <2> HIDE DEF q
  <2>10. Keeps(profile, q)
    BY <2>1, <2>8, <2>9, KeepsTrans
  <2> QED
    BY <1>1, <2>2, <2>10
<1>7. ASSUME NEW g \in Group, DeleteGroup(g)
      PROVE  Write(profile') /\ Keeps(profile, profile')
  <2> DEFINE G == Drop(profile.grp, g)
             a == [profile EXCEPT !.grp = G]
             q == Prune(a, g)
  <2>1. Write(q)
    BY <1>7 DEF DeleteGroup
  <2>2. profile.grp \in Partial(Group, GroupForm)
    BY Parts
  <2>3. G \in Partial(Group, GroupForm)
    BY <2>2, DropIn, Zenon
  <2> HIDE DEF G
  <2>4. Keeps(profile, a) /\ a \in Profile
    BY <2>3, GroupsKeep DEF Keeps
  <2> HIDE DEF a
  <2>5. Keeps(a, q)
    BY <2>4, PruneKeeps
  <2> HIDE DEF q
  <2>6. Keeps(profile, q)
    BY <2>4, <2>5, KeepsTrans
  <2> QED
    BY <1>1, <2>1, <2>6
<1>8. ASSUME NEW l \in List, DeleteRoutingList(l)
      PROVE  Write(profile') /\ Keeps(profile, profile')
  <2> DEFINE L == Drop(profile.list, l)
             q == [profile EXCEPT !.list = L]
  <2>1. Write(q)
    BY <1>8 DEF DeleteRoutingList
  <2>2. profile.list \in Partial(List, ListForm)
    BY Parts
  <2>3. L \in Partial(List, ListForm)
    BY <2>2, DropIn, Zenon
  <2>4. \A m \in DOMAIN L : m \in DOMAIN profile.list /\ L[m] = profile.list[m]
    BY DEF Drop, Restrict
  <2> HIDE DEF L
  <2>5. Keeps(profile, q)
    BY <2>3, <2>4, ListsKeep DEF CachesMatch
  <2> HIDE DEF q
  <2> QED
    BY <1>1, <2>1, <2>5
<1>9. ASSUME NEW r \in Rule, DeleteRule(r)
      PROVE  Write(profile') /\ Keeps(profile, profile')
  <2> DEFINE R == Drop(profile.rule, r)
             q == [profile EXCEPT !.rule = R]
  <2>1. Write(q)
    BY <1>9 DEF DeleteRule
  <2>2. profile.rule \in Partial(Rule, RuleForm)
    BY Parts
  <2>3. R \in Partial(Rule, RuleForm)
    BY <2>2, DropIn, Zenon
  <2> HIDE DEF R
  <2>4. Keeps(profile, q)
    BY <2>3, RulesKeep
  <2> HIDE DEF q
  <2> QED
    BY <1>1, <2>1, <2>4
<1>10. ASSUME NEW d \in DevGroup, DeleteDeviceGroup(d)
       PROVE  Write(profile') /\ Keeps(profile, profile')
  <2> DEFINE L == [l \in DOMAIN profile.list |->
                     [profile.list[l] EXCEPT !.scope = profile.list[l].scope \ {d}]]
             q == [profile EXCEPT !.dev = profile.dev \ {d}, !.list = L]
  <2>1. Write(q)
    BY <1>10 DEF DeleteDeviceGroup
  <2>2. \A x \in ListForm : LET y == [x EXCEPT !.scope = x.scope \ {d}]
                           IN y \in ListForm /\ y.cache = x.cache /\ y.src = x.src
    BY DEF ListForm
  <2>3. \A l \in DOMAIN profile.list : profile.list[l] \in ListForm
    BY Parts
  <2>4. /\ L \in [DOMAIN profile.list -> ListForm]
        /\ \A l \in DOMAIN profile.list :
              L[l].cache = profile.list[l].cache /\ L[l].src = profile.list[l].src
    BY <2>2, <2>3
  <2> HIDE DEF L
  <2>5. profile.list \in Partial(List, ListForm)
    BY Parts
  <2>6. L \in Partial(List, ListForm) /\ DOMAIN L = DOMAIN profile.list
    BY <2>4, <2>5, SameDomain
  <2>7. q \in Profile
    BY <2>6 DEF Profile
  <2>8. q.ep = profile.ep /\ q.list = L
    BY DEF Profile
  <2> HIDE DEF q
  <2>9. Keeps(profile, q)
    <3>1. /\ \A e \in DOMAIN q.ep : e \in DOMAIN profile.ep /\ (q.ep[e] = profile.ep[e] \/ ~q.ep[e].on)
          /\ \A l \in DOMAIN q.list :
                /\ l \in DOMAIN profile.list
                /\ q.list[l].cache = profile.list[l].cache /\ q.list[l].src = profile.list[l].src
      BY <2>4, <2>6, <2>8
    <3> QED
      BY <2>7, <3>1, KeepsIf
  <2> QED
    BY <1>1, <2>1, <2>9
<1> QED
  BY <1>2, <1>3, <1>4, <1>5, <1>6, <1>7, <1>8, <1>9, <1>10 DEF Structural

\* So does every form that is saved at once.
LEMMA EditKeeps ==
  ASSUME profile \in Profile, Edit
  PROVE  Write(profile') /\ Keeps(profile, profile')
<1>1. ASSUME NEW q, Write(q), Keeps(profile, q)
      PROVE  Write(profile') /\ Keeps(profile, profile')
  BY <1>1 DEF Write, Publish
<1>2. ASSUME NEW id \in Endpoint, NEW form \in EndpointForm, UpsertEndpoint(id, form)
      PROVE  Write(profile') /\ Keeps(profile, profile')
  BY <1>1, <1>2, PutEndpointKeeps DEF UpsertEndpoint
<1>3. ASSUME NEW g \in Group, NEW form \in GroupForms, UpsertGroup(g, form)
      PROVE  Write(profile') /\ Keeps(profile, profile')
  <2> DEFINE G == Put(profile.grp, g, form)
             q == [profile EXCEPT !.grp = G]
  <2>1. Write(q)
    BY <1>3 DEF UpsertGroup
  <2>2. profile.grp \in Partial(Group, GroupForm) /\ form \in GroupForm
    BY Parts, FormsAssumption
  <2>3. G \in Partial(Group, GroupForm)
    BY <2>2, PutIn
  <2> HIDE DEF G
  <2>4. Keeps(profile, q)
    BY <2>3, GroupsKeep
  <2> HIDE DEF q
  <2> QED
    BY <1>1, <2>1, <2>4
<1>4. ASSUME NEW r \in Rule, NEW form \in RuleForms, UpsertRule(r, form)
      PROVE  Write(profile') /\ Keeps(profile, profile')
  <2> DEFINE R == Put(profile.rule, r, form)
             q == [profile EXCEPT !.rule = R]
  <2>1. Write(q)
    BY <1>4 DEF UpsertRule
  <2>2. profile.rule \in Partial(Rule, RuleForm) /\ form \in RuleForm
    BY Parts, FormsAssumption
  <2>3. R \in Partial(Rule, RuleForm)
    BY <2>2, PutIn
  <2> HIDE DEF R
  <2>4. Keeps(profile, q)
    BY <2>3, RulesKeep
  <2> HIDE DEF q
  <2> QED
    BY <1>1, <2>1, <2>4
<1>5. ASSUME NEW l \in List, NEW form \in ListForms, UpsertRoutingList(l, form)
      PROVE  Write(profile') /\ Keeps(profile, profile')
  <2>1. form \in ListForm /\ FromItsSource(form)
    BY FormsAssumption
  <2>2. CachesMatch(profile)
          => FromItsSource(IF l \in DOMAIN profile.list THEN KeepCache(profile.list[l], form) ELSE form)
    BY <2>1, Parts DEF CachesMatch, FromItsSource, KeepCache, ListForm
  <2>3. Keeps(profile, WithList(profile, l, form))
    BY <2>1, <2>2, WithListKeeps
  <2> QED
    BY <1>1, <1>5, <2>3 DEF UpsertRoutingList
<1>6. ASSUME NEW d \in DevGroup, UpsertDeviceGroup(d)
      PROVE  Write(profile') /\ Keeps(profile, profile')
  <2> DEFINE q == [profile EXCEPT !.dev = profile.dev \cup {d}]
  <2>1. Write(q)
    BY <1>6 DEF UpsertDeviceGroup
  <2>2. q \in Profile /\ q.ep = profile.ep /\ q.list = profile.list
    BY DEF Profile
  <2> HIDE DEF q
  <2>3. Keeps(profile, q)
    BY <2>2 DEF Keeps, CachesMatch, EndpointsLoad
  <2> QED
    BY <1>1, <2>1, <2>3
<1> QED
  BY <1>2, <1>3, <1>4, <1>5, <1>6 DEF Edit

-----------------------------------------------------------------------------
(* The writers that read first                                               *)

\* What each job holds.
LEMMA JobParts ==
  ASSUME job \in Job
  PROVE  /\ job.kind = "form" => job.id \in List /\ job.copy \in ListForm
         /\ job.kind = "switch" =>
              job.id \in Endpoint /\ job.copy \in EndpointForm /\ job.on \in BOOLEAN /\ job.attempt \in 0..2
         /\ job.kind = "dns" =>
              job.gen \in Generation /\ job.plane \in DnsPlane /\ job.next \in DnsPlane /\ job.checked \in BOOLEAN
         /\ job.kind = "import" =>
              /\ job.id \in Endpoint /\ job.gen \in Generation
              /\ job.have \in SUBSET EndpointForm /\ job.attempt \in 0..2
         /\ job.kind = "fetch" => job.id \in List /\ job.src \in Source
         /\ job.kind = "subscription" => job.id \in Endpoint
BY DEF Job, NoJob, None

\* A commit moves the generation past every one that a job may hold.
LEMMA PublishCounts ==
  ASSUME TypeOK, NEW q, Publish(q)
  PROVE  /\ profile' = q /\ gen' \in Generation /\ gen'[2] <= writes' /\ writes' \in 0..MaxWrites
         /\ \A g \in Generation : Earlier(g, gen) => Earlier(g, gen') /\ g # gen'
<1>1. gen \in Generation /\ gen[2] <= writes /\ writes \in 0..MaxWrites /\ writes < MaxWrites
      /\ gen' = <<gen[1], gen[2] + 1>> /\ writes' = writes + 1
  BY DEF TypeOK, Publish
<1>2. gen[1] \in 0..MaxRestarts /\ gen[2] \in 0..MaxWrites
  BY <1>1 DEF Generation
<1>3. gen'[1] = gen[1] /\ gen'[2] = gen[2] + 1
  BY <1>1
<1>4. gen[2] + 1 \in 0..MaxWrites /\ writes + 1 \in 0..MaxWrites
  BY <1>1, <1>2, StoreAssumption
<1>5. gen' \in Generation
  BY <1>1, <1>2, <1>4 DEF Generation
<1>6. \A g \in Generation : g[1] \in Nat /\ g[2] \in Nat
  BY StoreAssumption DEF Generation
<1>7. \A g \in Generation : Earlier(g, gen) => Earlier(g, gen') /\ g # gen'
  BY <1>2, <1>3, <1>6 DEF Earlier
<1> QED
  BY <1>1, <1>2, <1>3, <1>4, <1>5, <1>7, StoreAssumption DEF Publish

\* A commit of a profile whose connections load, while the job waits or ends.
LEMMA PublishKeeps ==
  ASSUME StoreInv, NEW q \in Profile, Publish(q), EndpointsLoad(profile) => EndpointsLoad(q),
         job' = job \/ job' = NoJob
  PROVE  StoreInv'
<1>1. /\ profile' = q /\ gen' \in Generation /\ gen'[2] <= writes' /\ writes' \in 0..MaxWrites
      /\ \A g \in Generation : Earlier(g, gen) => Earlier(g, gen') /\ g # gen'
  BY PublishCounts DEF StoreInv
<1>2. job' \in Job
  BY DEF StoreInv, TypeOK, Job
<1>3. TypeOK'
  BY <1>1, <1>2 DEF TypeOK
<1>4. NothingUnloadableIsOn'
  <2>1. EndpointsLoad(q)
    BY DEF StoreInv, NothingUnloadableIsOn
  <2> QED
    BY <1>1, <2>1 DEF NothingUnloadableIsOn, EndpointsLoad
<1>5. JobFresh'
  <2>1. CASE job' = NoJob
    BY <2>1 DEF JobFresh, NoJob, None
  <2>2. CASE job' = job
    <3>1. job.kind \in {"dns", "import"} => job.gen \in Generation /\ Earlier(job.gen, gen)
      BY JobParts DEF StoreInv, TypeOK, JobFresh
    <3>2. job.kind \in {"dns", "import"} => Earlier(job.gen, gen') /\ job.gen # gen'
      BY <1>1, <3>1
    <3> QED
      BY <2>2, <3>2 DEF JobFresh
  <2> QED
    BY <2>1, <2>2
<1> QED
  BY <1>3, <1>4, <1>5 DEF StoreInv

\* A job that starts, or reads again: nothing else changes.
LEMMA ReadKeeps ==
  ASSUME StoreInv, UNCHANGED <<profile, gen, writes>>, job' \in Job, JobFresh'
  PROVE  StoreInv'
BY DEF StoreInv, TypeOK, NothingUnloadableIsOn, EndpointsLoad

\* What a switch, the DNS page, an import, a feed and a subscription commit.
LEMMA SlowCommits ==
  ASSUME profile \in Profile, job \in Job,
         \/ SwitchSaves \/ SetDNSIfGen \/ SetRoutingListCaches
         \/ \E kind \in EndpointKind : ImportSaves(kind) \/ SubscriptionSaves(kind)
  PROVE  Publish(profile') /\ Keeps(profile, profile') /\ job' = NoJob
<1>1. ASSUME NEW q, Publish(q), Keeps(profile, q), End
      PROVE  Publish(profile') /\ Keeps(profile, profile') /\ job' = NoJob
  BY <1>1 DEF Publish, End
<1>2. CASE SwitchSaves
  <2> DEFINE x == [job.copy EXCEPT !.on = job.on]
             E == [profile.ep EXCEPT ![job.id] = x]
             q == [profile EXCEPT !.ep = E]
  <2>1. Publish(q) /\ End
    BY <1>2 DEF SwitchSaves
  <2>2. job.id \in DOMAIN profile.ep
    BY <1>2 DEF SwitchSaves, StoredEndpoint
  <2>3. job.copy \in EndpointForm /\ job.on \in BOOLEAN
    BY <1>2, JobParts DEF SwitchSaves
  <2>4. x \in EndpointForm
    BY <2>3 DEF EndpointForm
  <2>5. x.on = job.on /\ x.kind = job.copy.kind
    BY <2>3 DEF EndpointForm
  <2>6. x.on => x.kind # "draft"
    BY <1>2, <2>5 DEF SwitchSaves, MayRun
  <2> HIDE DEF x
  <2>7. profile.ep \in Partial(Endpoint, EndpointForm)
    BY Parts
  <2>8. profile.ep \in [DOMAIN profile.ep -> EndpointForm]
    BY <2>7, PartialDef
  <2>9. /\ E \in [DOMAIN profile.ep -> EndpointForm] /\ E[job.id] = x
        /\ \A e \in DOMAIN profile.ep : e # job.id => E[e] = profile.ep[e]
    BY <2>2, <2>4, <2>8
  <2> HIDE DEF E
  <2>10. E \in Partial(Endpoint, EndpointForm) /\ DOMAIN E = DOMAIN profile.ep
    BY <2>7, <2>9, SameDomain
  <2>11. EndpointsLoad(profile) => \A e \in DOMAIN E : E[e].on => E[e].kind # "draft"
    BY <2>6, <2>9, <2>10 DEF EndpointsLoad
  <2>12. Keeps(profile, q)
    BY <2>10, <2>11, EndpointsKeep
  <2> HIDE DEF q
  <2> QED
    BY <1>1, <2>1, <2>12
<1>3. CASE SetDNSIfGen
  <2>1. job.next \in DnsPlane
    BY <1>3, JobParts DEF SetDNSIfGen
  <2>2. Keeps(profile, [profile EXCEPT !.dns = job.next])
    BY <2>1, DnsKeeps
  <2> QED
    BY <1>1, <1>3, <2>2 DEF SetDNSIfGen
<1>4. CASE SetRoutingListCaches
  <2> DEFINE x == [profile.list[job.id] EXCEPT !.cache = job.src]
             L == [profile.list EXCEPT ![job.id] = x]
             q == [profile EXCEPT !.list = L]
  <2>1. Publish(q) /\ End
    BY <1>4 DEF SetRoutingListCaches
  <2>2. job.id \in DOMAIN profile.list /\ profile.list[job.id].src = job.src
    BY <1>4 DEF SetRoutingListCaches, SameSource
  <2>3. profile.list[job.id] \in ListForm /\ job.src \in Source
    BY <1>4, <2>2, Parts, JobParts DEF SetRoutingListCaches
  <2>4. x \in ListForm
    BY <2>3 DEF ListForm
  <2>5. FromItsSource(x)
    BY <2>2, <2>3 DEF ListForm, FromItsSource
  <2> HIDE DEF x
  <2>6. profile.list \in Partial(List, ListForm)
    BY Parts
  <2>7. profile.list \in [DOMAIN profile.list -> ListForm]
    BY <2>6, PartialDef
  <2>8. /\ L \in [DOMAIN profile.list -> ListForm] /\ L[job.id] = x
        /\ \A l \in DOMAIN profile.list : l # job.id => L[l] = profile.list[l]
    BY <2>2, <2>4, <2>7
  <2> HIDE DEF L
  <2>9. L \in Partial(List, ListForm) /\ DOMAIN L = DOMAIN profile.list
    BY <2>6, <2>8, SameDomain
  <2>10. CachesMatch(profile) => \A l \in DOMAIN L : FromItsSource(L[l])
    BY <2>5, <2>8, <2>9 DEF CachesMatch
  <2>11. Keeps(profile, q)
    BY <2>9, <2>10, ListsKeep
  <2> HIDE DEF q
  <2> QED
    BY <1>1, <2>1, <2>11
<1>5. ASSUME NEW on \in BOOLEAN, NEW kind \in EndpointKind, job.id \in Endpoint, End,
             Publish([profile EXCEPT !.ep = Put(profile.ep, job.id, [on |-> MayRun(on, kind), kind |-> kind])])
      PROVE  Publish(profile') /\ Keeps(profile, profile') /\ job' = NoJob
  <2> DEFINE x == [on |-> MayRun(on, kind), kind |-> kind]
  <2>1. x \in EndpointForm
    BY DEF EndpointForm, MayRun
  <2>2. x.on = MayRun(x.on, x.kind)
    BY DEF MayRun
  <2>3. Publish([profile EXCEPT !.ep = Put(profile.ep, job.id, x)])
    BY <1>5
  <2> HIDE DEF x
  <2>4. Keeps(profile, [profile EXCEPT !.ep = Put(profile.ep, job.id, x)])
    BY <1>5, <2>1, <2>2, PutEndpointKeeps
  <2> QED
    BY <1>1, <1>5, <2>3, <2>4
<1>6. ASSUME NEW kind \in EndpointKind, ImportSaves(kind)
      PROVE  Publish(profile') /\ Keeps(profile, profile') /\ job' = NoJob
  <2>1. job.id \in Endpoint /\ job.have \in SUBSET EndpointForm /\ End
    BY <1>6, JobParts DEF ImportSaves
  <2>2. PICK on \in {x.on : x \in IF job.have = {} THEN {[on |-> TRUE]} ELSE job.have} :
          Publish([profile EXCEPT !.ep = Put(profile.ep, job.id, [on |-> MayRun(on, kind), kind |-> kind])])
    BY <1>6 DEF ImportSaves
  <2>3. on \in BOOLEAN
    <3>1. \A x \in EndpointForm : x.on \in BOOLEAN
      BY DEF EndpointForm
    <3>2. PICK x \in IF job.have = {} THEN {[on |-> TRUE]} ELSE job.have : on = x.on
      BY <2>2
    <3>3. CASE job.have = {}
      <4>1. x = [on |-> TRUE]
        BY <3>2, <3>3
      <4> QED
        BY <3>2, <4>1
    <3>4. CASE job.have # {}
      BY <2>1, <3>1, <3>2, <3>4
    <3> QED
      BY <3>3, <3>4
  <2> QED
    BY <1>5, <2>1, <2>2, <2>3
<1>7. ASSUME NEW kind \in EndpointKind, SubscriptionSaves(kind)
      PROVE  Publish(profile') /\ Keeps(profile, profile') /\ job' = NoJob
  <2>1. job.id \in Endpoint
    BY <1>7, JobParts DEF SubscriptionSaves
  <2> QED
    BY <1>5, <1>7, <2>1 DEF SubscriptionSaves
<1> QED
  BY <1>2, <1>3, <1>4, <1>6, <1>7

OtherThanLists(p, q) ==
  q.ep = p.ep /\ q.grp = p.grp /\ q.rule = p.rule /\ q.dev = p.dev /\ q.dns = p.dns

\* A saved form leaves the connections alone; At a revision, the list's cache is its source's.
LEMMA FormCommits ==
  ASSUME profile \in Profile, job \in Job,
         NEW src \in Source, NEW out \in Outbound, NEW echo \in BOOLEAN, SaveForm(src, out, echo)
  PROVE  /\ Publish(profile') /\ profile' \in Profile /\ profile'.ep = profile.ep /\ job' = NoJob
         /\ OtherThanLists(profile, profile')
         /\ SendsRev => /\ DOMAIN profile'.list = DOMAIN profile.list
                        /\ \A m \in DOMAIN profile.list : m # job.id => profile'.list[m] = profile.list[m]
         /\ SendsRev /\ FromItsSource(job.copy) => Keeps(profile, profile')
         /\ SendsRev => /\ job.id \in DOMAIN profile.list
                        /\ \A f \in {"via", "on", "scope"} : profile'.list[job.id][f] = profile.list[job.id][f]
<1> DEFINE form == [job.copy EXCEPT !.src = src, !.out = out, !.cache = IF echo THEN job.copy.cache ELSE None]
<1>1. /\ job.kind = "form" /\ AtRev(StoredListRev(job.id), ListRev(job.copy))
      /\ Publish(WithList(profile, job.id, form)) /\ job' = NoJob
  BY DEF SaveForm, End
<1>2. job.id \in List /\ job.copy \in ListForm
  BY <1>1, JobParts
<1>4. form \in ListForm
  BY <1>2 DEF ListForm
<1>5. /\ form.src = src /\ form.cache \in {job.copy.cache, None}
      /\ form.via = job.copy.via /\ form.on = job.copy.on /\ form.scope = job.copy.scope
  BY <1>2 DEF ListForm
<1> HIDE DEF form
<1> DEFINE x == IF job.id \in DOMAIN profile.list THEN KeepCache(profile.list[job.id], form) ELSE form
           L == Put(profile.list, job.id, x)
           q == [profile EXCEPT !.list = L]
<1>6. x \in ListForm /\ x.via = form.via /\ x.on = form.on /\ x.scope = form.scope
  <2>1. \A y \in ListForm : LET z == KeepCache(y, form)
                           IN z \in ListForm /\ z.via = form.via /\ z.on = form.on /\ z.scope = form.scope
    BY <1>4 DEF ListForm, KeepCache
  <2> QED
    BY <1>4, <2>1, Parts
<1>7. Publish(q)
  BY <1>1 DEF WithList
<1>8. SendsRev => /\ job.id \in DOMAIN profile.list
                  /\ ListRev(profile.list[job.id]) = ListRev(job.copy)
  BY <1>1 DEF AtRev, StoredListRev
<1>9. ASSUME SendsRev
      PROVE  LET y == profile.list[job.id]
             IN y \in ListForm /\ y.src = job.copy.src /\ y.via = job.copy.via /\ y.on = job.copy.on /\ y.scope = job.copy.scope
  <2> DEFINE y == profile.list[job.id]
  <2>1. y \in ListForm /\ ListRev(y) = ListRev(job.copy)
    BY <1>8, <1>9, Parts
  <2> HIDE DEF y
  <2>2. y.src = job.copy.src /\ y.via = job.copy.via /\ y.on = job.copy.on /\ y.scope = job.copy.scope
    <3>1. \A z \in ListForm : LET r == ListRev(z)
                              IN r.src = z.src /\ r.via = z.via /\ r.on = z.on /\ r.scope = z.scope
      BY DEF ListForm, ListRev
    <3> QED
      BY <1>2, <2>1, <3>1
  <2> QED
    BY <2>1, <2>2 DEF y
<1>10. SendsRev /\ FromItsSource(job.copy) /\ CachesMatch(profile) => FromItsSource(x)
  <2> SUFFICES ASSUME SendsRev, FromItsSource(job.copy), CachesMatch(profile)
               PROVE  FromItsSource(x)
    OBVIOUS
  <2> DEFINE y == profile.list[job.id]
  <2>1. x = KeepCache(y, form) /\ FromItsSource(y)
    BY <1>8 DEF CachesMatch
  <2>2. y \in ListForm /\ y.src = job.copy.src
    BY <1>9
  <2> HIDE DEF x, y
  <2> QED
    BY <1>2, <1>4, <1>5, <2>1, <2>2 DEF FromItsSource, KeepCache, ListForm
<1> HIDE DEF x
<1>11. profile.list \in Partial(List, ListForm)
  BY Parts
<1>12. L \in Partial(List, ListForm)
  BY <1>2, <1>6, <1>11, PutIn
<1>13. /\ DOMAIN L = DOMAIN profile.list \cup {job.id} /\ L[job.id] = x
       /\ \A m \in DOMAIN profile.list : m # job.id => L[m] = profile.list[m]
  BY DEF Put
<1> HIDE DEF L
<1>14. q \in Profile /\ OtherThanLists(profile, q) /\ q.list = L
  BY <1>12, Replace DEF OtherThanLists
<1>15. SendsRev /\ FromItsSource(job.copy) => Keeps(profile, q)
  <2>1. SendsRev /\ FromItsSource(job.copy) /\ CachesMatch(profile) => \A m \in DOMAIN L : FromItsSource(L[m])
    BY <1>10, <1>13 DEF CachesMatch
  <2> QED
    BY <1>12, <2>1, ListsKeep
<1> HIDE DEF q
<1>16. profile' = q
  BY <1>7 DEF Publish
<1>17. SendsRev => \A f \in {"via", "on", "scope"} : q.list[job.id][f] = profile.list[job.id][f]
  BY <1>5, <1>6, <1>9, <1>13, <1>14
<1> QED
  <2>1. SendsRev => /\ DOMAIN q.list = DOMAIN profile.list
                    /\ \A m \in DOMAIN profile.list : m # job.id => q.list[m] = profile.list[m]
    BY <1>8, <1>13, <1>14
  <2>2. q.ep = profile.ep
    BY <1>14 DEF OtherThanLists
  <2> QED
    BY <1>1, <1>7, <1>8, <1>14, <1>15, <1>16, <1>17, <2>1, <2>2

\* What a job starts with, or reads again, is the published profile's.
LEMMA ReadersFresh ==
  ASSUME StoreInv,
         \/ \E l \in List : OpenForm(l) \/ OpenFetch(l)
         \/ \E id \in Endpoint, on \in BOOLEAN : OpenSwitch(id, on)
         \/ \E id \in Endpoint : OpenImport(id) \/ OpenSubscription(id)
         \/ OpenDNS \/ SwitchRetries \/ ImportRetries \/ Give
         \/ \E plane \in DnsForms : CheckDNS(plane)
  PROVE  UNCHANGED <<profile, gen, writes>> /\ job' \in Job /\ JobFresh'
<1>1. profile \in Profile /\ gen \in Generation /\ job \in Job /\ JobFresh
  BY DEF StoreInv, TypeOK
<1>2. gen[1] \in Nat /\ gen[2] \in Nat /\ Earlier(gen, gen)
  BY <1>1, StoreAssumption DEF Generation, Earlier
<1>3. CASE \E l \in List : OpenForm(l) \/ OpenFetch(l)
  <2>1. PICK l \in List : OpenForm(l) \/ OpenFetch(l)
    BY <1>3
  <2>2. CASE OpenForm(l)
    <3>1. profile.list[l] \in ListForm
      BY <1>1, <2>2, Parts DEF OpenForm
    <3>2. [kind |-> "form", id |-> l, copy |-> profile.list[l]] \in Job
      BY <3>1 DEF Job
    <3> QED
      BY <2>2, <3>2 DEF OpenForm, Begin, JobFresh
  <2>3. CASE OpenFetch(l)
    <3>1. profile.list[l].src \in Source
      BY <1>1, <2>3, Parts DEF OpenFetch, ListForm
    <3>2. [kind |-> "fetch", id |-> l, src |-> profile.list[l].src] \in Job
      BY <3>1 DEF Job
    <3> QED
      BY <2>3, <3>2 DEF OpenFetch, Begin, JobFresh
  <2> QED
    BY <2>1, <2>2, <2>3
<1>4. CASE \E id \in Endpoint, on \in BOOLEAN : OpenSwitch(id, on)
  <2>1. PICK id \in Endpoint, on \in BOOLEAN : OpenSwitch(id, on)
    BY <1>4
  <2>2. profile.ep[id] \in EndpointForm
    BY <1>1, <2>1, Parts DEF OpenSwitch
  <2>3. [kind |-> "switch", id |-> id, copy |-> profile.ep[id], on |-> on, attempt |-> 0] \in Job
    BY <2>2 DEF Job
  <2> QED
    BY <2>1, <2>3 DEF OpenSwitch, Begin, JobFresh
<1>5. \A id : StoredEndpoint(id) \in SUBSET EndpointForm
  BY <1>1, Parts DEF StoredEndpoint
<1>6. CASE \E id \in Endpoint : OpenImport(id) \/ OpenSubscription(id)
  <2>1. PICK id \in Endpoint : OpenImport(id) \/ OpenSubscription(id)
    BY <1>6
  <2>2. CASE OpenImport(id)
    <3> DEFINE j == [kind |-> "import", id |-> id, gen |-> gen, have |-> StoredEndpoint(id), attempt |-> 0]
    <3>1. j \in Job
      BY <1>1, <1>5 DEF Job
    <3>2. j.kind = "import" /\ j.id = id /\ j.gen = gen /\ j.have = StoredEndpoint(id)
      OBVIOUS
    <3>3. job' = j /\ UNCHANGED <<profile, gen, writes>>
      BY <2>2 DEF OpenImport, Begin
    <3> HIDE DEF j
    <3>4. StoredEndpoint(id)' = StoredEndpoint(id) /\ Earlier(gen, gen)'
      BY <1>2, <3>3 DEF StoredEndpoint, Earlier
    <3> QED
      BY <3>1, <3>2, <3>3, <3>4 DEF JobFresh, StoredEndpoint, Earlier
  <2>3. CASE OpenSubscription(id)
    <3>1. [kind |-> "subscription", id |-> id] \in Job
      BY DEF Job
    <3> QED
      BY <2>3, <3>1 DEF OpenSubscription, Begin, JobFresh
  <2> QED
    BY <2>1, <2>2, <2>3
<1>7. CASE OpenDNS
  <2> DEFINE j == [kind |-> "dns", gen |-> gen, plane |-> profile.dns, next |-> NoDNS, checked |-> FALSE]
  <2>1. NoDNS \in DnsPlane
    <3>1. \A S, T : [x \in {} |-> None] \in Partial(S, T)
      BY DEF Partial
    <3> QED
      BY <3>1 DEF NoDNS, DnsPlane
  <2>2. profile.dns \in DnsPlane
    BY <1>1, Parts
  <2>3. j \in Job
    BY <1>1, <2>1, <2>2 DEF Job
  <2>4. j.kind = "dns" /\ j.gen = gen /\ j.plane = profile.dns /\ ~j.checked
    OBVIOUS
  <2>5. job' = j /\ UNCHANGED <<profile, gen, writes>>
    BY <1>7 DEF OpenDNS, Begin
  <2> HIDE DEF j
  <2> QED
    BY <1>2, <2>3, <2>4, <2>5 DEF JobFresh, Earlier
<1>8. CASE SwitchRetries
  <2> DEFINE j == [job EXCEPT !.copy = profile.ep[job.id], !.attempt = job.attempt + 1]
  <2>1. job \in [kind : {"switch"}, id : Endpoint, copy : EndpointForm, on : BOOLEAN, attempt : 0..2]
    BY <1>1, <1>8 DEF SwitchRetries, Job, NoJob, None
  <2>2. profile.ep[job.id] \in EndpointForm /\ job.attempt + 1 \in 0..2
    BY <1>1, <1>8, <2>1, Parts DEF SwitchRetries
  <2>3. j \in Job
    BY <2>1, <2>2 DEF Job
  <2>4. j.kind = "switch"
    BY <2>1
  <2>5. job' = j /\ UNCHANGED <<profile, gen, writes>>
    BY <1>8 DEF SwitchRetries
  <2> HIDE DEF j
  <2> QED
    BY <2>3, <2>4, <2>5 DEF JobFresh
<1>9. CASE ImportRetries
  <2> DEFINE j == [job EXCEPT !.gen = gen, !.have = StoredEndpoint(job.id), !.attempt = job.attempt + 1]
  <2>1. job \in [kind : {"import"}, id : Endpoint, gen : Generation, have : SUBSET EndpointForm, attempt : 0..2]
    BY <1>1, <1>9 DEF ImportRetries, Job, NoJob, None
  <2>2. job.attempt + 1 \in 0..2
    BY <1>9, <2>1 DEF ImportRetries
  <2>3. j \in Job
    BY <1>1, <1>5, <2>1, <2>2 DEF Job
  <2>4. j.kind = "import" /\ j.id = job.id /\ j.gen = gen /\ j.have = StoredEndpoint(job.id)
    BY <2>1
  <2>5. job' = j /\ UNCHANGED <<profile, gen, writes>>
    BY <1>9 DEF ImportRetries
  <2> HIDE DEF j
  <2>6. j.have = {profile'.ep[e] : e \in {j.id} \cap DOMAIN profile'.ep}
    BY <2>4, <2>5 DEF StoredEndpoint
  <2> QED
    BY <1>2, <2>3, <2>4, <2>5, <2>6 DEF JobFresh, StoredEndpoint, Earlier
<1>10. CASE Give
  BY <1>10 DEF Give, End, Job, JobFresh, NoJob, None
<1>11. CASE \E plane \in DnsForms : CheckDNS(plane)
  <2>1. PICK plane \in DnsForms : CheckDNS(plane)
    BY <1>11
  <2> DEFINE j == [job EXCEPT !.next = plane, !.checked = TRUE]
  <2>2. job \in [kind : {"dns"}, gen : Generation, plane : DnsPlane, next : DnsPlane, checked : BOOLEAN]
    <3>1. job.kind = "dns"
      BY <2>1 DEF CheckDNS
    <3> QED
      BY <1>1, <3>1 DEF Job, NoJob, None
  <2>3. plane \in DnsPlane
    BY FormsAssumption
  <2>4. j \in Job
    BY <2>2, <2>3 DEF Job
  <2>5. j.kind = "dns" /\ j.gen = job.gen /\ j.plane = job.plane /\ j.next = plane
    BY <2>2
  <2>6. job' = j /\ UNCHANGED <<profile, gen, writes>> /\ ValidateDNS([profile EXCEPT !.dns = plane])
    BY <2>1 DEF CheckDNS
  <2>7. job.kind = "dns" /\ Earlier(job.gen, gen) /\ (job.gen = gen => profile.dns = job.plane)
    BY <1>1, <2>2 DEF JobFresh
  <2> HIDE DEF j
  <2>8. ValidateDNS([profile' EXCEPT !.dns = j.next])
    BY <2>5, <2>6
  <2> QED
    BY <2>4, <2>5, <2>6, <2>7, <2>8 DEF JobFresh, Earlier
<1> QED
  BY <1>3, <1>4, <1>6, <1>7, <1>8, <1>9, <1>10, <1>11

\* A restart opens a generation that no page holds.
LEMMA RestartKeeps ==
  ASSUME StoreInv, Restart
  PROVE  StoreInv' /\ (job' = job \/ job' = NoJob)
<1>1. /\ gen \in Generation /\ writes \in 0..MaxWrites /\ job \in Job /\ profile' = profile /\ writes' = writes
      /\ gen[1] < MaxRestarts /\ gen' = <<gen[1] + 1, 0>> /\ (job' = job \/ job' = NoJob)
  BY DEF StoreInv, TypeOK, Restart
<1>2. gen[1] \in 0..MaxRestarts /\ gen[2] \in 0..MaxWrites
  BY <1>1 DEF Generation
<1>3. gen'[1] = gen[1] + 1 /\ gen'[2] = 0
  BY <1>1
<1>4. gen' \in Generation
  BY <1>1, <1>2, StoreAssumption DEF Generation
<1>5. \A g \in Generation : Earlier(g, gen) => Earlier(g, gen') /\ g # gen'
  <2>1. \A g \in Generation : g[1] \in Nat /\ g[2] \in Nat
    BY StoreAssumption DEF Generation
  <2> QED
    BY <1>2, <1>3, <2>1 DEF Earlier
<1>6. TypeOK'
  BY <1>1, <1>3, <1>4 DEF StoreInv, TypeOK, Job
<1>7. NothingUnloadableIsOn'
  BY <1>1 DEF StoreInv, NothingUnloadableIsOn, EndpointsLoad
<1>8. JobFresh'
  <2>1. CASE job' = NoJob
    BY <2>1 DEF JobFresh, NoJob, None
  <2>2. CASE job' = job
    <3>1. job.kind \in {"dns", "import"} => job.gen \in Generation /\ Earlier(job.gen, gen)
      BY JobParts DEF StoreInv, TypeOK, JobFresh
    <3>2. job.kind \in {"dns", "import"} => Earlier(job.gen, gen') /\ job.gen # gen'
      BY <1>5, <3>1
    <3> QED
      BY <2>2, <3>2 DEF JobFresh
  <2> QED
    BY <1>1, <2>1, <2>2
<1> QED
  BY <1>1, <1>6, <1>7, <1>8 DEF StoreInv

-----------------------------------------------------------------------------
(* The inductive invariants                                                  *)

LEMMA StoreInit == Init => StoreInv /\ SourceInv
<1> SUFFICES ASSUME Init PROVE StoreInv /\ SourceInv
  OBVIOUS
<1>1. profile \in Profile /\ CachesMatch(profile) /\ EndpointsLoad(profile)
  BY FormsAssumption DEF Init
<1>2. <<0, 0>> \in Generation /\ 0 \in 0..MaxWrites
  BY StoreAssumption DEF Generation
<1>3. gen = <<0, 0>> /\ gen[2] = 0 /\ job = NoJob /\ writes = 0
  BY DEF Init
<1>4. TypeOK
  BY <1>1, <1>2, <1>3 DEF TypeOK, Job
<1>5. JobFresh /\ SourceInv
  BY <1>1, <1>3 DEF JobFresh, SourceInv, CacheMatchesSource, NoJob, None
<1> QED
  BY <1>1, <1>4, <1>5 DEF StoreInv, NothingUnloadableIsOn

LEMMA StoreStep == StoreInv /\ [Next]_storeVars => StoreInv'
<1> SUFFICES ASSUME StoreInv, [Next]_storeVars PROVE StoreInv'
  OBVIOUS
<1>1. profile \in Profile /\ job \in Job
  BY DEF StoreInv, TypeOK
<1>2. CASE Structural \/ Edit
  <2>1. Write(profile') /\ Keeps(profile, profile')
    BY <1>1, <1>2, StructuralKeeps, EditKeeps
  <2> QED
    BY <2>1, PublishKeeps DEF Write, Keeps
<1>3. CASE SlowWriter
  <2>1. CASE \/ \E l \in List : OpenForm(l) \/ OpenFetch(l)
             \/ \E id \in Endpoint, on \in BOOLEAN : OpenSwitch(id, on)
             \/ \E id \in Endpoint : OpenImport(id) \/ OpenSubscription(id)
             \/ OpenDNS \/ SwitchRetries \/ ImportRetries \/ Give
             \/ \E plane \in DnsForms : CheckDNS(plane)
    BY <2>1, ReadersFresh, ReadKeeps
  <2>2. CASE \/ SwitchSaves \/ SetDNSIfGen \/ SetRoutingListCaches
             \/ \E kind \in EndpointKind : ImportSaves(kind) \/ SubscriptionSaves(kind)
    <3>1. Publish(profile') /\ Keeps(profile, profile') /\ job' = NoJob
      BY <1>1, <2>2, SlowCommits
    <3> QED
      BY <3>1, PublishKeeps DEF Keeps
  <2>3. CASE \E src \in Source, out \in Outbound, echo \in BOOLEAN : SaveForm(src, out, echo)
    <3>1. Publish(profile') /\ profile' \in Profile /\ profile'.ep = profile.ep /\ job' = NoJob
      BY <1>1, <2>3, FormCommits
    <3>2. EndpointsLoad(profile) => EndpointsLoad(profile')
      BY <3>1 DEF EndpointsLoad
    <3> QED
      BY <3>1, <3>2, PublishKeeps
  <2> QED
    BY <1>3, <2>1, <2>2, <2>3 DEF SlowWriter
<1>4. CASE Restart
  BY <1>4, RestartKeeps
<1>5. CASE UNCHANGED storeVars
  BY <1>5 DEF storeVars, StoreInv, TypeOK, NothingUnloadableIsOn, EndpointsLoad, JobFresh, Earlier, StoredEndpoint
<1> QED
  BY <1>2, <1>3, <1>4, <1>5 DEF Next

LEMMA SourceStep ==
  ASSUME SendsRev
  PROVE  StoreInv /\ SourceInv /\ [Next]_storeVars => SourceInv'
<1> SUFFICES ASSUME StoreInv, SourceInv, [Next]_storeVars PROVE SourceInv'
  OBVIOUS
<1>1. profile \in Profile /\ job \in Job /\ CachesMatch(profile)
  BY DEF StoreInv, TypeOK, SourceInv, CacheMatchesSource
<1>2. ASSUME Keeps(profile, profile'), job' = job \/ job' = NoJob
      PROVE  SourceInv'
  <2>1. CacheMatchesSource'
    BY <1>1, <1>2 DEF Keeps, CacheMatchesSource
  <2>2. (job.kind = "form" => FromItsSource(job.copy))'
    BY <1>2 DEF SourceInv, NoJob, None
  <2> QED
    BY <2>1, <2>2 DEF SourceInv
<1>3. CASE Structural \/ Edit
  BY <1>1, <1>2, <1>3, StructuralKeeps, EditKeeps DEF Write
<1>4. CASE SlowWriter
  <2>1. ASSUME NEW l \in List, OpenForm(l) PROVE SourceInv'
    <3>1. profile' = profile /\ job' = [kind |-> "form", id |-> l, copy |-> profile.list[l]] /\ l \in DOMAIN profile.list
      BY <2>1 DEF OpenForm, Begin
    <3>2. FromItsSource(profile.list[l])
      BY <1>1, <3>1 DEF CachesMatch
    <3>3. job'.copy = profile.list[l]
      BY <3>1
    <3>4. FromItsSource(job'.copy)
      BY <3>2, <3>3
    <3> QED
      BY <1>1, <3>1, <3>4 DEF SourceInv, CacheMatchesSource
  <2>2. ASSUME profile' = profile, job'.kind # "form" PROVE SourceInv'
    BY <1>1, <2>2 DEF SourceInv, CacheMatchesSource
  <2>3. CASE \/ \E l \in List : OpenFetch(l)
             \/ \E id \in Endpoint, on \in BOOLEAN : OpenSwitch(id, on)
             \/ \E id \in Endpoint : OpenImport(id) \/ OpenSubscription(id)
             \/ OpenDNS \/ Give
    BY <2>2, <2>3 DEF OpenFetch, OpenSwitch, OpenImport, OpenSubscription, OpenDNS, Begin, Give, End, NoJob, None
  <2>4. CASE SwitchRetries
    <3>1. job \in [kind : {"switch"}, id : Endpoint, copy : EndpointForm, on : BOOLEAN, attempt : 0..2]
      BY <1>1, <2>4 DEF SwitchRetries, Job, NoJob, None
    <3>2. job'.kind = "switch" /\ profile' = profile
      BY <2>4, <3>1 DEF SwitchRetries
    <3> QED
      BY <2>2, <3>2
  <2>5. CASE ImportRetries
    <3>1. job \in [kind : {"import"}, id : Endpoint, gen : Generation, have : SUBSET EndpointForm, attempt : 0..2]
      BY <1>1, <2>5 DEF ImportRetries, Job, NoJob, None
    <3>2. job'.kind = "import" /\ profile' = profile
      BY <2>5, <3>1 DEF ImportRetries
    <3> QED
      BY <2>2, <3>2
  <2>6. CASE \E plane \in DnsForms : CheckDNS(plane)
    <3>1. PICK plane \in DnsForms : CheckDNS(plane)
      BY <2>6
    <3>2. job.kind = "dns"
      BY <3>1 DEF CheckDNS
    <3>3. job \in [kind : {"dns"}, gen : Generation, plane : DnsPlane, next : DnsPlane, checked : BOOLEAN]
      BY <1>1, <3>2 DEF Job, NoJob, None
    <3>4. job'.kind = "dns" /\ profile' = profile
      BY <3>1, <3>3 DEF CheckDNS
    <3> QED
      BY <2>2, <3>4
  <2>7. CASE \/ SwitchSaves \/ SetDNSIfGen \/ SetRoutingListCaches
             \/ \E kind \in EndpointKind : ImportSaves(kind) \/ SubscriptionSaves(kind)
    BY <1>1, <1>2, <2>7, SlowCommits
  <2>8. CASE \E src \in Source, out \in Outbound, echo \in BOOLEAN : SaveForm(src, out, echo)
    <3>1. job.kind = "form"
      BY <2>8 DEF SaveForm
    <3>2. FromItsSource(job.copy)
      BY <3>1 DEF SourceInv
    <3> QED
      BY <1>1, <1>2, <2>8, <3>2, FormCommits
  <2> QED
    BY <1>4, <2>1, <2>3, <2>4, <2>5, <2>6, <2>7, <2>8 DEF SlowWriter
<1>5. CASE Restart
  <2>1. profile' = profile /\ (job' = job \/ job' = NoJob)
    BY <1>5 DEF Restart
  <2>2. Keeps(profile, profile')
    BY <1>1, <2>1 DEF Keeps
  <2> QED
    BY <1>2, <2>1, <2>2
<1>6. CASE UNCHANGED storeVars
  <2>1. profile' = profile /\ job' = job
    BY <1>6 DEF storeVars
  <2> QED
    BY <1>1, <1>2, <2>1 DEF Keeps
<1> QED
  BY <1>3, <1>4, <1>5, <1>6 DEF Next

-----------------------------------------------------------------------------
(* What the store promises                                                   *)

(* The inductive invariant of the store: shapes, no connection on that the   *)
(* core cannot load, and jobs whose generation, once passed, never returns.  *)
THEOREM StoreCorrect == Spec => []StoreInv
<1>1. Init => StoreInv
  BY StoreInit
<1>2. StoreInv /\ [Next]_storeVars => StoreInv'
  BY StoreStep
<1> QED
  BY <1>1, <1>2, PTL DEF Spec

(* A profile keeps its shape through every writer, and the generation of an  *)
(* open counts no more commits than there were (store.go, publish).          *)
THEOREM StoreTypes == Spec => []TypeOK
<1>1. StoreInv => TypeOK
  BY DEF StoreInv
<1> QED
  BY <1>1, StoreCorrect, PTL

(* When forms send the revision they were loaded at, no list ever carries    *)
(* the networks of a feed that is not its source (SetRoutingListCaches).     *)
THEOREM CachesFollowSources == SendsRev => (Spec => []CacheMatchesSource)
<1> SUFFICES ASSUME SendsRev PROVE Spec => []CacheMatchesSource
  OBVIOUS
<1>1. Init => StoreInv /\ SourceInv
  BY StoreInit
<1>2. (StoreInv /\ SourceInv) /\ [Next]_storeVars => (StoreInv /\ SourceInv)'
  BY StoreStep, SourceStep
<1>3. SourceInv => CacheMatchesSource
  BY DEF SourceInv
<1> QED
  BY <1>1, <1>2, <1>3, PTL DEF Spec

-----------------------------------------------------------------------------
(* What a commit of the job may change                                       *)

\* The job ends with a commit only by its own last step.
LEMMA CommitIsTheJobs ==
  ASSUME StoreInv, [Next]_storeVars, NEW kind, kind # None, JobCommits(kind)
  PROVE  /\ kind = "form" => \E src \in Source, out \in Outbound, echo \in BOOLEAN : SaveForm(src, out, echo)
         /\ kind = "switch" => SwitchSaves
         /\ kind = "dns" => SetDNSIfGen
         /\ kind = "import" => \E k \in EndpointKind : ImportSaves(k)
         /\ \/ kind \in {"form", "switch", "dns", "import"}
            \/ SetRoutingListCaches
            \/ \E k \in EndpointKind : SubscriptionSaves(k)
<1>1. job.kind = kind /\ job' = NoJob /\ job # NoJob /\ profile' # profile
  BY DEF JobCommits, NoJob, None
<1>2. profile \in Profile
  BY DEF StoreInv, TypeOK
<1>3. ~(Structural \/ Edit)
  BY <1>1, <1>2, StructuralKeeps, EditKeeps DEF Write
<1>4. SlowWriter
  BY <1>1, <1>3 DEF Next, Restart, storeVars
<1>5. ~ \/ \E l \in List : OpenForm(l) \/ OpenFetch(l)
        \/ \E id \in Endpoint, on \in BOOLEAN : OpenSwitch(id, on)
        \/ \E id \in Endpoint : OpenImport(id) \/ OpenSubscription(id)
        \/ OpenDNS \/ SwitchRetries \/ ImportRetries \/ Give
        \/ \E plane \in DnsForms : CheckDNS(plane)
  BY <1>1, ReadersFresh
<1>6. CASE \E src \in Source, out \in Outbound, echo \in BOOLEAN : SaveForm(src, out, echo)
  BY <1>1, <1>6 DEF SaveForm
<1>7. CASE SwitchSaves \/ SetDNSIfGen \/ SetRoutingListCaches
  BY <1>1, <1>7 DEF SwitchSaves, SetDNSIfGen, SetRoutingListCaches
<1>8. CASE \E k \in EndpointKind : ImportSaves(k) \/ SubscriptionSaves(k)
  BY <1>1, <1>8 DEF ImportSaves, SubscriptionSaves
<1> QED
  BY <1>4, <1>5, <1>6, <1>7, <1>8 DEF SlowWriter

(* The DNS page replaces the plane it showed, and what it installs is valid  *)
(* in the profile it is installed into: the generation it compares stands    *)
(* for both, across restarts too (handleSetDNS, SetDNSIfGen).                *)
THEOREM DnsPageSawItsPlane == Spec => DnsWriteSawItsPlane
<1>1. ASSUME StoreInv, [Next]_storeVars, JobCommits("dns")
      PROVE  profile.dns = job.plane /\ ValidateDNS(profile')
  <2>1. SetDNSIfGen
    BY <1>1, CommitIsTheJobs DEF None
  <2>2. job.kind = "dns" /\ job.checked /\ gen = job.gen /\ profile' = [profile EXCEPT !.dns = job.next]
    BY <2>1 DEF SetDNSIfGen, Publish
  <2>3. profile.dns = job.plane /\ ValidateDNS([profile EXCEPT !.dns = job.next])
    BY <1>1, <2>2 DEF StoreInv, JobFresh
  <2> QED
    BY <2>2, <2>3
<1>2. StoreInv /\ [Next]_storeVars
        => [JobCommits("dns") => profile.dns = job.plane /\ ValidateDNS(profile')]_storeVars
  BY <1>1
<1> QED
  BY <1>2, StoreCorrect, PTL DEF Spec, DnsWriteSawItsPlane

\* A switch keeps the kind of the connection it flips.
LEMMA SwitchKeepsKind ==
  ASSUME StoreInv, [Next]_storeVars, JobCommits("switch")
  PROVE  profile'.ep[job.id].kind = profile.ep[job.id].kind
<1>1. SwitchSaves /\ job.kind = "switch"
  BY CommitIsTheJobs DEF JobCommits, None
<1> DEFINE x == [job.copy EXCEPT !.on = job.on]
           E == [profile.ep EXCEPT ![job.id] = x]
<1>2. job.id \in DOMAIN profile.ep /\ profile.ep[job.id] = job.copy
  BY <1>1 DEF SwitchSaves, StoredEndpoint
<1>3. profile' = [profile EXCEPT !.ep = E]
  BY <1>1 DEF SwitchSaves, Publish
<1>4. job.copy \in EndpointForm /\ profile \in Profile
  BY <1>1, JobParts DEF StoreInv, TypeOK
<1>5. x.kind = job.copy.kind
  BY <1>4 DEF EndpointForm
<1> HIDE DEF x
<1>6. E[job.id] = x
  BY <1>2
<1> HIDE DEF E
<1>7. profile'.ep = E
  BY <1>3, <1>4 DEF Profile
<1> QED
  BY <1>2, <1>5, <1>6, <1>7

\* A re-imported connection keeps the switch it has, unless it could not run.
LEMMA ImportKeepsSwitch ==
  ASSUME StoreInv, [Next]_storeVars, JobCommits("import"), job.id \in DOMAIN profile.ep
  PROVE  profile'.ep[job.id].on = MayRun(profile.ep[job.id].on, profile'.ep[job.id].kind)
<1>1. PICK kind \in EndpointKind : ImportSaves(kind)
  BY CommitIsTheJobs DEF None
<1>2. job.kind = "import" /\ gen = job.gen
  BY <1>1 DEF ImportSaves
<1>3. job.have = {profile.ep[job.id]}
  BY <1>2 DEF StoreInv, JobFresh, StoredEndpoint
<1>4. PICK on \in {x.on : x \in IF job.have = {} THEN {[on |-> TRUE]} ELSE job.have} :
        Publish([profile EXCEPT !.ep = Put(profile.ep, job.id, [on |-> MayRun(on, kind), kind |-> kind])])
  BY <1>1 DEF ImportSaves
<1>5. on = profile.ep[job.id].on
  BY <1>3, <1>4
<1> DEFINE x == [on |-> MayRun(on, kind), kind |-> kind]
           E == Put(profile.ep, job.id, x)
<1>6. x.on = MayRun(on, x.kind)
  OBVIOUS
<1>7. profile' = [profile EXCEPT !.ep = E]
  BY <1>4 DEF Publish
<1> HIDE DEF x
<1>8. E[job.id] = x
  BY DEF Put
<1> HIDE DEF E
<1>9. profile \in Profile
  BY DEF StoreInv, TypeOK
<1>10. profile'.ep = E
  BY <1>7, <1>9 DEF Profile
<1> QED
  BY <1>5, <1>6, <1>8, <1>10

(* A switch and an import, and a form that sends its revision, change what   *)
(* their user changed and put back nothing that another tab saved while they *)
(* were open (QA-152: checkRev, bulkImport).                                 *)
THEOREM NoLostEdits == SendsRev => (Spec => EditsSurvive)
<1> SUFFICES ASSUME SendsRev PROVE Spec => EditsSurvive
  OBVIOUS
<1> DEFINE Survives ==
      /\ JobCommits("switch") => profile'.ep[job.id].kind = profile.ep[job.id].kind
      /\ JobCommits("import") /\ job.id \in DOMAIN profile.ep
           => profile'.ep[job.id].on = MayRun(profile.ep[job.id].on, profile'.ep[job.id].kind)
      /\ JobCommits("form") =>
           /\ job.id \in DOMAIN profile.list
           /\ \A f \in {"via", "on", "scope"} : profile'.list[job.id][f] = profile.list[job.id][f]
<1>1. ASSUME StoreInv, [Next]_storeVars, JobCommits("form")
      PROVE  /\ job.id \in DOMAIN profile.list
             /\ \A f \in {"via", "on", "scope"} : profile'.list[job.id][f] = profile.list[job.id][f]
  <2>1. PICK src \in Source, out \in Outbound, echo \in BOOLEAN : SaveForm(src, out, echo)
    BY <1>1, CommitIsTheJobs DEF None
  <2>2. profile \in Profile /\ job \in Job
    BY <1>1 DEF StoreInv, TypeOK
  <2> QED
    BY <2>1, <2>2, FormCommits
<1>2. StoreInv /\ [Next]_storeVars => Survives
  BY <1>1, SwitchKeepsKind, ImportKeepsSwitch
<1>3. StoreInv /\ [Next]_storeVars => [Survives]_storeVars
  BY <1>2
<1>4. Spec => [][Survives]_storeVars
  <2> HIDE DEF Survives
  <2> QED
    BY <1>3, StoreCorrect, PTL DEF Spec
<1> QED
  BY <1>4 DEF EditsSurvive

-----------------------------------------------------------------------------
(* What a removal leaves                                                     *)

\* Plane e is plane d with resolvers parked and servers moved: the addressed
\* resolvers are on as they were, and no live rule lost its server.
Calmer(d, e) ==
  /\ DOMAIN e.srv = DOMAIN d.srv /\ DOMAIN e.rule = DOMAIN d.rule /\ e.final = d.final
  /\ \A s \in DOMAIN d.srv : /\ e.srv[s].on => d.srv[s].on
                             /\ s \notin VpnResolver => (e.srv[s].on <=> d.srv[s].on)
  /\ \A q \in DOMAIN d.rule :
       /\ e.rule[q].srv = d.rule[q].srv /\ e.rule[q].set = d.rule[q].set
       /\ ~e.rule[q].off => /\ ~d.rule[q].off
                            /\ d.rule[q].srv \in DOMAIN d.srv /\ d.srv[d.rule[q].srv].on
                                 => e.srv[d.rule[q].srv].on

\* No reference of q is to id; one that p does not have is to a member of ok.
Moved(p, q, id, ok) ==
  /\ DOMAIN q.rule = DOMAIN p.rule
  /\ \A r \in DOMAIN p.rule :
       \/ q.rule[r].off
       \/ ~p.rule[r].off /\ q.rule[r].out \in ({p.rule[r].out} \ {id}) \cup ok
  /\ q.dev = p.dev /\ DOMAIN q.list = DOMAIN p.list
  /\ \A l \in DOMAIN p.list :
       /\ q.list[l].scope = p.list[l].scope
       /\ {q.list[l].out, q.list[l].via} \subseteq ({p.list[l].out, p.list[l].via} \ {id}) \cup ok \cup {None}
  /\ Calmer(p.dns, q.dns)
  /\ OneAsksEach(p) => OneAsksEach(q)

SameRefs(p, q) == q.rule = p.rule /\ q.list = p.list /\ q.dev = p.dev /\ q.dns = p.dns

LEMMA CalmerDns ==
  ASSUME NEW p \in Profile, NEW q \in Profile, Calmer(p.dns, q.dns), DOMAIN q.list = DOMAIN p.list,
         DefaultValid(p), DnsRulesValid(p)
  PROVE  DefaultValid(q) /\ DnsRulesValid(q)
<1>1. \A s \in DOMAIN p.dns.srv : s \in Resolver => s \notin VpnResolver
  BY StoreAssumption
<1>2. OnServers(q) \subseteq OnServers(p) /\ OnServers(q) \cap Resolver = OnServers(p) \cap Resolver
  BY <1>1 DEF Calmer, OnServers
<1>3. DefaultValid(q)
  BY <1>2 DEF DefaultValid, Calmer
<1>4. DnsRulesValid(q)
  BY DEF DnsRulesValid, Calmer, OnServers
<1> QED BY <1>3, <1>4

\* A write from a valid profile that moves or parks every reference to what it
\* removes, and that publish accepts, leaves the profile valid.
LEMMA MovedIsValid ==
  ASSUME NEW p \in Profile, NEW q \in Profile, NEW id, NEW ok,
         Validate(p), Validate(p) => ~OnlyDisabledRef(q), Stranded(q) \subseteq Stranded(p),
         Moved(p, q, id, ok), ok \subseteq Builtin \cup Known(q), Known(p) \ {id} \subseteq Known(q),
         FieldsValid(q), EndpointsLoad(q), GroupsFilled(q), MembersResolve(q), Acyclic(q)
  PROVE  RoutesValid(q) /\ DnsPlaneValid(q)
<1>1. /\ RulesResolve(p) /\ ListsResolve(p) /\ Stranded(p) = {} /\ OneAsksEach(p)
      /\ DefaultValid(p) /\ DnsRulesValid(p)
  BY DEF Validate, RoutesValid, ValidateDNS, DnsPlaneValid
<1>2. RulesResolve(q)
  BY <1>1 DEF Moved, RulesResolve, LiveRules
<1>3. ListsResolve(q)
  BY <1>1 DEF Moved, ListsResolve, ListRefs
<1>4. MembersOn(q) /\ RulesOn(q) /\ ListsOn(q)
  BY <1>2, <1>3 DEF OnlyDisabledRef
<1>5. DefaultValid(q) /\ DnsRulesValid(q) /\ OneAsksEach(q)
  BY <1>1, CalmerDns DEF Moved
<1> QED BY <1>1, <1>2, <1>3, <1>4, <1>5 DEF RoutesValid, DnsPlaneValid

\* Groups that only lose members, or take connections for them, stay acyclic.
LEMMA FewerStayAcyclic ==
  ASSUME NEW p \in Profile, NEW q \in Profile, Acyclic(p), DOMAIN q.grp \subseteq DOMAIN p.grp,
         \A g \in DOMAIN q.grp : q.grp[g] \subseteq p.grp[g] \cup Endpoint
  PROVE  Acyclic(q)
<1> SUFFICES ASSUME NEW C \in SUBSET DOMAIN q.grp \ {{}}
             PROVE  \E g \in C : q.grp[g] \cap C = {}
  BY DEF Acyclic
<1>1. PICK g \in C : p.grp[g] \cap C = {}
  BY DEF Acyclic
<1>2. \A x \in C : x \notin Endpoint
  BY Parts, StoreAssumption
<1> QED BY <1>1, <1>2

\* So do groups that take `to` for id, when `to` does not reach id.
LEMMA TakingOverStaysAcyclic ==
  ASSUME NEW p \in Profile, NEW q, NEW id \in Endpoint, NEW to, Acyclic(p), DOMAIN q.grp = DOMAIN p.grp,
         ~GroupReaches(p, to, id),
         \A g \in DOMAIN p.grp : /\ q.grp[g] \subseteq p.grp[g] \cup {to}
                                 /\ id \notin p.grp[g] => q.grp[g] = p.grp[g]
  PROVE  Acyclic(q)
<1> SUFFICES ASSUME NEW C \in SUBSET DOMAIN p.grp \ {{}}
             PROVE  \E g \in C : q.grp[g] \cap C = {}
  BY DEF Acyclic
<1>1. CASE to \notin C
  <2>1. PICK g \in C : p.grp[g] \cap C = {}
    BY DEF Acyclic
  <2> QED BY <1>1, <2>1
<1>2. CASE to \in C
  <2>1. PICK D \in SUBSET DOMAIN p.grp :
          /\ to \in D /\ \A g \in D : p.grp[g] \cap DOMAIN p.grp \subseteq D
          /\ \A g \in D : id \notin p.grp[g]
    BY <1>2 DEF GroupReaches
  <2>2. C \cap D \in SUBSET DOMAIN p.grp \ {{}}
    BY <1>2, <2>1
  <2>3. PICK g \in C \cap D : p.grp[g] \cap (C \cap D) = {}
    BY <2>2 DEF Acyclic
  <2>4. p.grp[g] \cap C = {} /\ q.grp[g] = p.grp[g]
    BY <2>1, <2>3
  <2> QED BY <2>3, <2>4
<1> QED BY <1>1, <1>2

\* What parking resolvers and moving detours do, server by server.
LEMMA ParkResolversDo ==
  ASSUME NEW dns \in DnsPlane, NEW tags
  PROVE  LET e == ParkResolvers(dns, tags)
         IN /\ DOMAIN e.srv = DOMAIN dns.srv /\ DOMAIN e.rule = DOMAIN dns.rule /\ e.final = dns.final
            /\ \A s \in DOMAIN dns.srv :
                 e.srv[s].to = dns.srv[s].to /\ (e.srv[s].on <=> dns.srv[s].on /\ s \notin tags)
            /\ \A q \in DOMAIN dns.rule :
                 /\ e.rule[q].srv = dns.rule[q].srv /\ e.rule[q].set = dns.rule[q].set
                 /\ e.rule[q].off <=> dns.rule[q].off \/ dns.rule[q].srv \in tags
<1> DEFINE srv == [s \in DOMAIN dns.srv |-> IF s \in tags THEN [dns.srv[s] EXCEPT !.on = FALSE] ELSE dns.srv[s]]
           rule == [q \in DOMAIN dns.rule |->
                      IF dns.rule[q].srv \in tags THEN [dns.rule[q] EXCEPT !.off = TRUE] ELSE dns.rule[q]]
           e == ParkResolvers(dns, tags)
<1>1. e = [dns EXCEPT !.srv = srv, !.rule = rule]
  BY DEF ParkResolvers
<1>2. /\ dns.srv \in Partial(Resolver \cup VpnResolver, ServerForm)
      /\ dns.rule \in Partial(DnsRule, DnsRuleForm)
  BY DEF DnsPlane
<1>3. /\ \A s \in DOMAIN dns.srv : dns.srv[s] \in ServerForm
      /\ \A q \in DOMAIN dns.rule : dns.rule[q] \in DnsRuleForm
  BY <1>2, PartialDef
<1>4. \A x \in ServerForm : [x EXCEPT !.on = FALSE].to = x.to /\ ~[x EXCEPT !.on = FALSE].on
  BY DEF ServerForm
<1>5. \A x \in DnsRuleForm : LET y == [x EXCEPT !.off = TRUE]
                             IN y.srv = x.srv /\ y.set = x.set /\ y.off
  BY DEF DnsRuleForm
<1>6. \A s \in DOMAIN dns.srv :
        srv[s].to = dns.srv[s].to /\ (srv[s].on <=> dns.srv[s].on /\ s \notin tags)
  BY <1>3, <1>4
<1>7. \A q \in DOMAIN dns.rule :
        /\ rule[q].srv = dns.rule[q].srv /\ rule[q].set = dns.rule[q].set
        /\ rule[q].off <=> dns.rule[q].off \/ dns.rule[q].srv \in tags
  BY <1>3, <1>5
<1>8. DOMAIN srv = DOMAIN dns.srv /\ DOMAIN rule = DOMAIN dns.rule
  OBVIOUS
<1> HIDE DEF srv, rule, e
<1>9. e.srv = srv /\ e.rule = rule /\ e.final = dns.final
  BY <1>1 DEF DnsPlane
<1> QED BY <1>6, <1>7, <1>8, <1>9 DEF e

LEMMA MoveDetoursDo ==
  ASSUME NEW dns \in DnsPlane, NEW id, NEW to
  PROVE  LET e == MoveDetours(dns, id, to)
         IN /\ DOMAIN e.srv = DOMAIN dns.srv /\ e.rule = dns.rule /\ e.final = dns.final
            /\ \A s \in DOMAIN dns.srv : /\ e.srv[s].on = dns.srv[s].on
                                         /\ s \notin Resolver => e.srv[s].to = dns.srv[s].to
<1> DEFINE srv == [s \in DOMAIN dns.srv |->
                     IF s \in Resolver /\ dns.srv[s].to = id THEN [dns.srv[s] EXCEPT !.to = to] ELSE dns.srv[s]]
           e == MoveDetours(dns, id, to)
<1>1. e = [dns EXCEPT !.srv = srv]
  BY DEF MoveDetours
<1>2. dns.srv \in Partial(Resolver \cup VpnResolver, ServerForm)
  BY DEF DnsPlane
<1>3. \A s \in DOMAIN dns.srv : dns.srv[s] \in ServerForm
  BY <1>2, PartialDef
<1>4. \A x \in ServerForm : [x EXCEPT !.to = to].on = x.on
  BY DEF ServerForm
<1>5. /\ DOMAIN srv = DOMAIN dns.srv
      /\ \A s \in DOMAIN dns.srv : srv[s].on = dns.srv[s].on /\ (s \notin Resolver => srv[s].to = dns.srv[s].to)
  BY <1>3, <1>4
<1> HIDE DEF srv, e
<1>6. e.srv = srv /\ e.rule = dns.rule /\ e.final = dns.final
  BY <1>1 DEF DnsPlane
<1> QED BY <1>5, <1>6 DEF e

\* Parking the resolvers that ask id, after the detours were moved.
LEMMA ParkedIsCalmer ==
  ASSUME NEW p \in Profile, NEW id, NEW to \in Outbound \cup {None}, NEW q,
         q.dns = ParkResolvers(MoveDetours(p.dns, id, to), Asks(p, id))
  PROVE  Calmer(p.dns, q.dns) /\ (OneAsksEach(p) => OneAsksEach(q))
<1> DEFINE d == MoveDetours(p.dns, id, to)
           tags == Asks(p, id)
<1>1. p.dns \in DnsPlane /\ d \in DnsPlane
  BY Parts, MoveDetoursIn
<1>2. tags \subseteq DOMAIN p.dns.srv \cap VpnResolver
  BY DEF Asks
<1>3. /\ DOMAIN d.srv = DOMAIN p.dns.srv /\ d.rule = p.dns.rule /\ d.final = p.dns.final
      /\ \A s \in DOMAIN p.dns.srv : /\ d.srv[s].on = p.dns.srv[s].on
                                     /\ s \notin Resolver => d.srv[s].to = p.dns.srv[s].to
  BY <1>1, MoveDetoursDo
<1> DEFINE e == ParkResolvers(d, tags)
<1> HIDE DEF d, tags
<1>4. /\ DOMAIN e.srv = DOMAIN d.srv /\ DOMAIN e.rule = DOMAIN d.rule /\ e.final = d.final
      /\ \A s \in DOMAIN d.srv : e.srv[s].to = d.srv[s].to /\ (e.srv[s].on <=> d.srv[s].on /\ s \notin tags)
      /\ \A x \in DOMAIN d.rule :
           /\ e.rule[x].srv = d.rule[x].srv /\ e.rule[x].set = d.rule[x].set
           /\ e.rule[x].off <=> d.rule[x].off \/ d.rule[x].srv \in tags
  BY <1>1, ParkResolversDo
<1>5. q.dns = e
  BY DEF d, tags
<1> HIDE DEF e
<1>6. Calmer(p.dns, e)
  BY <1>2, <1>3, <1>4 DEF Calmer
<1>7. \A s \in VpnResolver : s \notin Resolver
  BY StoreAssumption
<1>8. \A s \in DOMAIN e.srv \cap VpnResolver :
        s \in DOMAIN p.dns.srv /\ (e.srv[s].on => p.dns.srv[s].on) /\ e.srv[s].to = p.dns.srv[s].to
  BY <1>3, <1>4, <1>7
<1>9. \A x : Asks(q, x) \subseteq Asks(p, x)
  BY <1>5, <1>8 DEF Asks
<1> QED BY <1>5, <1>6, <1>9 DEF OneAsksEach

\* Moving one of them to a connection that serves it, and parking the others.
LEMMA RepointedIsCalmer ==
  ASSUME NEW p \in Profile, NEW id, NEW to \in Outbound, NEW q,
         q.dns = RepointResolvers(p, id, to)
  PROVE  Calmer(p.dns, q.dns) /\ (OneAsksEach(p) => OneAsksEach(q))
<1> DEFINE dns == MoveDetours(p.dns, id, to)
<1>1. CASE ~(Asks(p, id) # {} /\ Serves(p, to) /\ Asks(p, to) = {})
  <2>1. q.dns = ParkResolvers(dns, Asks(p, id))
    BY <1>1 DEF RepointResolvers
  <2> QED BY <2>1, ParkedIsCalmer
<1>2. CASE Asks(p, id) # {} /\ Serves(p, to) /\ Asks(p, to) = {}
  <2> DEFINE taker == CHOOSE s \in Asks(p, id) : TRUE
             srv == [dns.srv EXCEPT ![taker].to = to]
             d == [dns EXCEPT !.srv = srv]
             tags == Asks(p, id) \ {taker}
             e == ParkResolvers(d, tags)
  <2>1. q.dns = e
    BY <1>2 DEF RepointResolvers
  <2>2. taker \in DOMAIN p.dns.srv \cap VpnResolver
    BY <1>2 DEF Asks
  <2>3. tags \subseteq DOMAIN p.dns.srv \cap VpnResolver
    BY DEF Asks
  <2> HIDE DEF taker
  <2>4. /\ dns \in DnsPlane /\ DOMAIN dns.srv = DOMAIN p.dns.srv
        /\ dns.rule = p.dns.rule /\ dns.final = p.dns.final
        /\ \A s \in DOMAIN p.dns.srv : /\ dns.srv[s].on = p.dns.srv[s].on
                                       /\ s \notin Resolver => dns.srv[s].to = p.dns.srv[s].to
    BY Parts, MoveDetoursIn, MoveDetoursDo
  <2> HIDE DEF dns, tags
  <2>5. dns.srv \in Partial(Resolver \cup VpnResolver, ServerForm)
    BY <2>4 DEF DnsPlane
  <2>6. dns.srv \in [DOMAIN dns.srv -> ServerForm]
    BY <2>5, PartialDef
  <2>7. LET x == [dns.srv[taker] EXCEPT !.to = to]
        IN x \in ServerForm /\ x.on = dns.srv[taker].on /\ x.to = to
    BY <2>2, <2>4, <2>6 DEF ServerForm
  <2>8. /\ srv \in [DOMAIN dns.srv -> ServerForm]
        /\ srv[taker].on = dns.srv[taker].on /\ srv[taker].to = to
        /\ \A s \in DOMAIN dns.srv : s # taker => srv[s] = dns.srv[s]
    BY <2>2, <2>4, <2>6, <2>7
  <2> HIDE DEF srv
  <2>9. srv \in Partial(Resolver \cup VpnResolver, ServerForm) /\ DOMAIN srv = DOMAIN dns.srv
    BY <2>5, <2>8, SameDomain
  <2>10. d \in DnsPlane /\ d.srv = srv /\ d.rule = dns.rule /\ d.final = dns.final
    BY <2>4, <2>9 DEF DnsPlane
  <2> HIDE DEF d
  <2>11. /\ DOMAIN e.srv = DOMAIN d.srv /\ DOMAIN e.rule = DOMAIN d.rule /\ e.final = d.final
         /\ \A s \in DOMAIN d.srv : e.srv[s].to = d.srv[s].to /\ (e.srv[s].on <=> d.srv[s].on /\ s \notin tags)
         /\ \A x \in DOMAIN d.rule :
              /\ e.rule[x].srv = d.rule[x].srv /\ e.rule[x].set = d.rule[x].set
              /\ e.rule[x].off <=> d.rule[x].off \/ d.rule[x].srv \in tags
    BY <2>10, ParkResolversDo
  <2> HIDE DEF e
  <2>12. \A s \in DOMAIN p.dns.srv : d.srv[s].on = p.dns.srv[s].on
    BY <2>4, <2>8, <2>10
  <2>13. DOMAIN d.srv = DOMAIN p.dns.srv
    BY <2>4, <2>9, <2>10
  <2>14. Calmer(p.dns, e)
    BY <2>3, <2>4, <2>10, <2>11, <2>12, <2>13 DEF Calmer
  <2>15. \A s \in VpnResolver : s \notin Resolver
    BY StoreAssumption
  <2>16. \A s \in DOMAIN p.dns.srv \cap VpnResolver :
           /\ e.srv[s].on => p.dns.srv[s].on
           /\ e.srv[s].to = IF s = taker THEN to ELSE p.dns.srv[s].to
    BY <2>4, <2>8, <2>10, <2>11, <2>12, <2>13, <2>15
  <2>17. \A x : Asks(q, x) \subseteq IF x = to THEN {taker} ELSE Asks(p, x)
    <3> SUFFICES ASSUME NEW x, NEW s \in Asks(q, x)
                 PROVE  s \in IF x = to THEN {taker} ELSE Asks(p, x)
      OBVIOUS
    <3>1. s \in DOMAIN p.dns.srv \cap VpnResolver /\ e.srv[s].on /\ e.srv[s].to = x
      BY <2>1, <2>11, <2>13 DEF Asks
    <3>2. CASE s = taker
      BY <2>16, <3>1, <3>2
    <3>3. CASE s # taker
      <4>1. s \in Asks(p, x)
        BY <2>16, <3>1, <3>3 DEF Asks
      <4> QED BY <1>2, <4>1
    <3> QED BY <3>2, <3>3
  <2>18. OneAsksEach(p) => OneAsksEach(q)
    BY <2>17 DEF OneAsksEach
  <2> QED BY <2>1, <2>14, <2>18
<1> QED BY <1>1, <1>2

\* What repointing and parking do to the references.
LEMMA RepointMoves ==
  ASSUME NEW p \in Profile, NEW id, NEW to \in Outbound, to # id
  PROVE  Moved(p, RepointDependents(p, id, to), id, {to})
<1> DEFINE R == [r \in DOMAIN p.rule |-> IF p.rule[r].out = id THEN [p.rule[r] EXCEPT !.out = to] ELSE p.rule[r]]
           L == [l \in DOMAIN p.list |-> RepointedList(p.list[l], id, to)]
           q == RepointDependents(p, id, to)
<1>1. q = [p EXCEPT !.rule = R, !.list = L, !.dns = RepointResolvers(p, id, to)]
  BY DEF RepointDependents
<1>2. \A x \in RuleForm : [x EXCEPT !.out = to].out = to /\ [x EXCEPT !.out = to].off = x.off
  BY DEF RuleForm
<1>3. \A x \in ListForm : LET y == RepointedList(x, id, to)
                          IN /\ y.scope = x.scope
                             /\ y.out = IF x.out = id THEN to ELSE x.out
                             /\ y.via = IF x.via = id THEN to ELSE x.via
  BY DEF ListForm, RepointedList
<1>4. /\ DOMAIN R = DOMAIN p.rule
      /\ \A r \in DOMAIN p.rule : /\ R[r].off = p.rule[r].off
                                  /\ R[r].out = IF p.rule[r].out = id THEN to ELSE p.rule[r].out
  BY <1>2, Parts
<1>5. /\ DOMAIN L = DOMAIN p.list
      /\ \A l \in DOMAIN p.list : /\ L[l].scope = p.list[l].scope
                                  /\ L[l].out = IF p.list[l].out = id THEN to ELSE p.list[l].out
                                  /\ L[l].via = IF p.list[l].via = id THEN to ELSE p.list[l].via
  BY <1>3, Parts
<1> HIDE DEF R, L, q
<1>6. q.rule = R /\ q.list = L /\ q.dev = p.dev /\ q.dns = RepointResolvers(p, id, to)
  BY <1>1 DEF Profile
<1>7. Calmer(p.dns, q.dns) /\ (OneAsksEach(p) => OneAsksEach(q))
  BY <1>6, RepointedIsCalmer
<1>8. Moved(p, q, id, {to})
  BY <1>4, <1>5, <1>6, <1>7 DEF Moved
<1> QED BY <1>8 DEF q

LEMMA ParkMoves ==
  ASSUME NEW p \in Profile, NEW id \in Endpoint
  PROVE  Moved(p, ParkDependents(p, id), id, {Direct})
<1> DEFINE R == [r \in DOMAIN p.rule |-> IF p.rule[r].out = id THEN [out |-> Direct, off |-> TRUE] ELSE p.rule[r]]
           L == [l \in DOMAIN p.list |-> ParkedList(p.list[l], id)]
           D == ParkResolvers(MoveDetours(p.dns, id, None), Asks(p, id))
           q == ParkDependents(p, id)
<1>1. q = [p EXCEPT !.rule = R, !.list = L, !.dns = D]
  BY DEF ParkDependents
<1>2. \A x \in ListForm : LET y == ParkedList(x, id)
                          IN /\ y.scope = x.scope
                             /\ y.out = IF x.out = id THEN Direct ELSE x.out
                             /\ y.via = IF x.via = id THEN None ELSE x.via
  BY DEF ListForm, ParkedList
<1>3. /\ DOMAIN R = DOMAIN p.rule
      /\ \A r \in DOMAIN p.rule : R[r].off \/ (R[r] = p.rule[r] /\ p.rule[r].out # id)
  OBVIOUS
<1>4. /\ DOMAIN L = DOMAIN p.list
      /\ \A l \in DOMAIN p.list : /\ L[l].scope = p.list[l].scope
                                  /\ L[l].out = IF p.list[l].out = id THEN Direct ELSE p.list[l].out
                                  /\ L[l].via = IF p.list[l].via = id THEN None ELSE p.list[l].via
  BY <1>2, Parts
<1> HIDE DEF R, L, q
<1>5. q.rule = R /\ q.list = L /\ q.dev = p.dev /\ q.dns = D
  BY <1>1 DEF Profile
<1>6. Calmer(p.dns, q.dns) /\ (OneAsksEach(p) => OneAsksEach(q))
  BY <1>5, ParkedIsCalmer
<1> HIDE DEF D
<1>7. Moved(p, q, id, {Direct})
  BY <1>3, <1>4, <1>5, <1>6 DEF Moved
<1> QED BY <1>7 DEF q

\* Changes of the connections and the groups leave the references alone.
LEMMA SameRefsMoved ==
  ASSUME NEW p, NEW a, NEW q, NEW id, NEW ok
  PROVE  /\ Moved(p, a, id, ok) /\ SameRefs(a, q) => Moved(p, q, id, ok)
         /\ SameRefs(p, a) /\ Moved(a, q, id, ok) => Moved(p, q, id, ok)
BY DEF Moved, SameRefs, OneAsksEach, Asks

LEMMA UnusedMoved ==
  ASSUME NEW p \in Profile, NEW q, NEW id, SameRefs(p, q), ~RuleUses(p, id),
         id = None \/ ~ListUses(p, id)
  PROVE  Moved(p, q, id, {Direct})
<1>1. Calmer(p.dns, q.dns) /\ (OneAsksEach(p) => OneAsksEach(q))
  BY DEF SameRefs, Calmer, OneAsksEach, Asks
<1> QED BY <1>1 DEF Moved, SameRefs, RuleUses, ListUses

LEMMA PruneDoes ==
  ASSUME NEW p \in Profile, NEW id
  PROVE  LET q == Prune(p, id)
         IN /\ q \in Profile /\ SameRefs(p, q) /\ q.ep = p.ep /\ DOMAIN q.grp = DOMAIN p.grp
            /\ \A g \in DOMAIN p.grp : q.grp[g] = p.grp[g] \ {id}
<1> DEFINE G == [g \in DOMAIN p.grp |-> p.grp[g] \ {id}]
<1>1. G \in Partial(Group, GroupForm)
  <2>1. G \in [DOMAIN p.grp -> GroupForm]
    BY Parts DEF GroupForm
  <2> QED BY <2>1, Parts, SameDomain
<1>2. Prune(p, id) = [p EXCEPT !.grp = G]
  BY DEF Prune
<1>3. DOMAIN G = DOMAIN p.grp /\ \A g \in DOMAIN p.grp : G[g] = p.grp[g] \ {id}
  OBVIOUS
<1> HIDE DEF G
<1> QED BY <1>1, <1>2, <1>3, Replace DEF SameRefs

LEMMA RemoveDoes ==
  ASSUME NEW p \in Profile, NEW id
  PROVE  LET q == RemoveEndpoint(p, id)
         IN /\ q \in Profile /\ SameRefs(p, q) /\ DOMAIN q.ep = DOMAIN p.ep \ {id}
            /\ DOMAIN q.grp = DOMAIN p.grp /\ \A g \in DOMAIN p.grp : q.grp[g] = p.grp[g] \ {id}
<1> DEFINE a == Prune(p, id)
           E == Drop(a.ep, id)
           q == [a EXCEPT !.ep = E]
<1>1. /\ a \in Profile /\ SameRefs(p, a) /\ a.ep = p.ep /\ DOMAIN a.grp = DOMAIN p.grp
      /\ \A g \in DOMAIN p.grp : a.grp[g] = p.grp[g] \ {id}
  BY PruneDoes
<1>2. RemoveEndpoint(p, id) = q
  BY DEF RemoveEndpoint
<1> HIDE DEF a
<1>3. E \in Partial(Endpoint, EndpointForm)
  <2>1. a.ep \in Partial(Endpoint, EndpointForm)
    BY <1>1, Parts
  <2> QED BY <2>1, DropIn, Zenon
<1>4. DOMAIN E = DOMAIN p.ep \ {id}
  BY <1>1, DropValues
<1> HIDE DEF E
<1>5. q \in Profile /\ q.ep = E /\ q.grp = a.grp /\ SameRefs(a, q)
  BY <1>1, <1>3, Replace DEF SameRefs
<1> HIDE DEF q
<1> QED BY <1>1, <1>2, <1>4, <1>5 DEF SameRefs

LEMMA SwitchedOffDoes ==
  ASSUME NEW p \in Profile, NEW id \in DOMAIN p.ep, NEW kind \in EndpointKind
  PROVE  LET q == SwitchedOff(p, id, kind)
         IN q \in Profile /\ SameRefs(p, q) /\ DOMAIN q.ep = DOMAIN p.ep /\ q.grp = p.grp
<1> DEFINE E == [p.ep EXCEPT ![id] = [on |-> FALSE, kind |-> kind]]
           q == [p EXCEPT !.ep = E]
<1>1. SwitchedOff(p, id, kind) \in Profile
  BY SwitchedOffKeeps DEF Keeps
<1>2. SwitchedOff(p, id, kind) = q
  BY DEF SwitchedOff
<1>3. DOMAIN E = DOMAIN p.ep
  OBVIOUS
<1> HIDE DEF E
<1>4. q.ep = E /\ q.grp = p.grp /\ q.rule = p.rule /\ q.list = p.list /\ q.dev = p.dev /\ q.dns = p.dns
  BY DEF Profile
<1> HIDE DEF q
<1> QED BY <1>1, <1>2, <1>3, <1>4 DEF SameRefs

\* Taking id out of the groups leaves them valid if none had it alone.
LEMMA PrunedGroups ==
  ASSUME NEW p \in Profile, NEW q \in Profile, NEW id,
         GroupsFilled(p), MembersResolve(p), Acyclic(p),
         DOMAIN q.grp \subseteq DOMAIN p.grp, \A g \in DOMAIN q.grp : q.grp[g] = p.grp[g] \ {id},
         \A g \in DOMAIN q.grp : p.grp[g] # {id}, Known(p) \ {id} \subseteq Known(q)
  PROVE  GroupsFilled(q) /\ MembersResolve(q) /\ Acyclic(q)
<1>1. GroupsFilled(q)
  BY DEF GroupsFilled
<1>2. MembersResolve(q)
  BY DEF MembersResolve
<1>3. Acyclic(q)
  BY FewerStayAcyclic
<1> QED BY <1>1, <1>2, <1>3

\* What RemovalKeepsApplicable says of the profile a step leaves.
Applicable(p) == RoutesValid(p) /\ DnsPlaneValid(p)

LEMMA PublishedIsValid ==
  ASSUME profile \in Profile, Validate(profile), NEW q \in Profile, Publish(q), NEW id, NEW ok,
         Moved(profile, q, id, ok), ok \subseteq Builtin \cup Known(q), Known(profile) \ {id} \subseteq Known(q),
         FieldsValid(q), EndpointsLoad(q), GroupsFilled(q), MembersResolve(q), Acyclic(q)
  PROVE  profile' = q /\ Applicable(q)
<1>1. profile' = q /\ (Validate(profile) => ~OnlyDisabledRef(q)) /\ Stranded(q) \subseteq Stranded(profile)
  BY DEF Publish, Accepts
<1> QED BY <1>1, MovedIsValid DEF Applicable

\* The deletes, moves and detaches that remove or switch off a target.
LEMMA RemovalIsApplicable ==
  ASSUME profile \in Profile, Validate(profile), FieldsValid(profile'),
         \/ \E id \in Endpoint :
              \/ DeleteEndpoint(id) \/ DetachEndpointDependents(id)
              \/ \E kind \in EndpointKind : SetEndpointDisabledDetaching(id, kind)
              \/ \E to \in Outbound :
                   \/ DeleteEndpointReplacing(id, to)
                   \/ \E kind \in EndpointKind : SetEndpointDisabledReplacing(id, kind, to)
         \/ \E g \in Group : DeleteGroup(g)
  PROVE  Applicable(profile')
<1> DEFINE p == profile
<1>1. /\ EndpointsLoad(p) /\ GroupsFilled(p) /\ MembersResolve(p) /\ Acyclic(p)
      /\ \A e \in DOMAIN p.ep : e \in Endpoint /\ e \notin DOMAIN p.grp
      /\ \A g \in DOMAIN p.grp : g \in Group /\ g \notin DOMAIN p.ep
  BY Parts, StoreAssumption DEF Validate, RoutesValid
<1>2. Keeps(profile, profile')
  BY StructuralKeeps DEF Structural
<1>3. ASSUME NEW q, Write(q)
      PROVE  Publish(q) /\ profile' = q /\ q \in Profile /\ FieldsValid(q) /\ EndpointsLoad(q)
  BY <1>1, <1>2, <1>3 DEF Write, Publish, Keeps
<1>4. Direct \in Builtin
  BY DEF Builtin
<1>5. ASSUME NEW id \in Endpoint, DeleteEndpoint(id) PROVE Applicable(profile')
  <2> DEFINE q == RemoveEndpoint(p, id)
  <2>1. /\ id \in DOMAIN p.ep /\ ~RuleUses(p, id) /\ ~ListUses(p, id) /\ ~SoleMember(p, id) /\ Write(q)
    BY <1>5 DEF DeleteEndpoint
  <2>2. /\ q \in Profile /\ SameRefs(p, q) /\ DOMAIN q.ep = DOMAIN p.ep \ {id}
        /\ DOMAIN q.grp = DOMAIN p.grp /\ \A g \in DOMAIN p.grp : q.grp[g] = p.grp[g] \ {id}
    BY RemoveDoes
  <2> HIDE DEF q
  <2>3. Moved(p, q, id, {Direct})
    BY <2>1, <2>2, UnusedMoved
  <2>4. Known(p) \ {id} \subseteq Known(q)
    BY <2>2 DEF Known
  <2>5. GroupsFilled(q) /\ MembersResolve(q) /\ Acyclic(q)
    BY <1>1, <2>1, <2>2, <2>4, PrunedGroups DEF SoleMember
  <2> QED BY <1>3, <1>4, <2>1, <2>3, <2>4, <2>5, PublishedIsValid
<1>6. ASSUME NEW id \in Endpoint, DetachEndpointDependents(id) PROVE Applicable(profile')
  <2> DEFINE a == ParkDependents(p, id)
             q == RemoveEndpoint(a, id)
  <2>1. id \in DOMAIN p.ep /\ ~SoleMember(p, id) /\ Write(q)
    BY <1>6 DEF DetachEndpointDependents
  <2>2. a \in Profile /\ a.ep = p.ep /\ a.grp = p.grp /\ Moved(p, a, id, {Direct})
    BY ParkKeeps, ParkMoves DEF Keeps
  <2> HIDE DEF a
  <2>3. /\ q \in Profile /\ SameRefs(a, q) /\ DOMAIN q.ep = DOMAIN p.ep \ {id}
        /\ DOMAIN q.grp = DOMAIN p.grp /\ \A g \in DOMAIN p.grp : q.grp[g] = p.grp[g] \ {id}
    BY <2>2, RemoveDoes
  <2> HIDE DEF q
  <2>4. Moved(p, q, id, {Direct})
    BY <2>2, <2>3, SameRefsMoved
  <2>5. Known(p) \ {id} \subseteq Known(q)
    BY <2>3 DEF Known
  <2>6. GroupsFilled(q) /\ MembersResolve(q) /\ Acyclic(q)
    BY <1>1, <2>1, <2>3, <2>5, PrunedGroups DEF SoleMember
  <2> QED BY <1>3, <1>4, <2>1, <2>4, <2>5, <2>6, PublishedIsValid
<1>7. ASSUME NEW id \in Endpoint, NEW kind \in EndpointKind, SetEndpointDisabledDetaching(id, kind)
      PROVE  Applicable(profile')
  <2> DEFINE a == SwitchedOff(p, id, kind)
             b == ParkDependents(a, id)
             q == Prune(b, id)
  <2>1. id \in DOMAIN p.ep /\ ~SoleMember(p, id) /\ Write(q)
    BY <1>7 DEF SetEndpointDisabledDetaching
  <2>2. a \in Profile /\ SameRefs(p, a) /\ DOMAIN a.ep = DOMAIN p.ep /\ a.grp = p.grp
    BY <2>1, SwitchedOffDoes
  <2> HIDE DEF a
  <2>3. b \in Profile /\ b.ep = a.ep /\ b.grp = a.grp /\ Moved(a, b, id, {Direct})
    BY <2>2, ParkKeeps, ParkMoves DEF Keeps
  <2> HIDE DEF b
  <2>4. /\ q \in Profile /\ SameRefs(b, q) /\ q.ep = b.ep /\ DOMAIN q.grp = DOMAIN b.grp
        /\ \A g \in DOMAIN b.grp : q.grp[g] = b.grp[g] \ {id}
    BY <2>3, PruneDoes
  <2> HIDE DEF q
  <2>5. Moved(p, q, id, {Direct})
    BY <2>2, <2>3, <2>4, SameRefsMoved
  <2>6. Known(p) \ {id} \subseteq Known(q)
    BY <2>2, <2>3, <2>4 DEF Known
  <2>7. GroupsFilled(q) /\ MembersResolve(q) /\ Acyclic(q)
    BY <1>1, <2>1, <2>2, <2>3, <2>4, <2>6, PrunedGroups DEF SoleMember
  <2> QED BY <1>3, <1>4, <2>1, <2>5, <2>6, <2>7, PublishedIsValid
<1>8. ASSUME NEW id \in Endpoint, NEW to \in Outbound, DeleteEndpointReplacing(id, to)
      PROVE  Applicable(profile')
  <2> DEFINE a == RepointDependents(p, id, to)
             b == RemoveEndpoint(a, id)
             G == [g \in DOMAIN b.grp |-> IF b.grp[g] = {} THEN {to} ELSE b.grp[g]]
             q == IF to \in DOMAIN p.ep THEN [b EXCEPT !.grp = G] ELSE b
  <2>1. /\ id \in DOMAIN p.ep /\ to # id /\ OutboundExists(p, to) /\ Write(q)
        /\ to \notin DOMAIN p.ep => ~SoleMember(p, id)
    BY <1>8 DEF DeleteEndpointReplacing
  <2>2. a \in Profile /\ a.ep = p.ep /\ a.grp = p.grp /\ Moved(p, a, id, {to})
    BY <2>1, RepointKeeps, RepointMoves DEF Keeps
  <2> HIDE DEF a
  <2>3. /\ b \in Profile /\ SameRefs(a, b) /\ DOMAIN b.ep = DOMAIN p.ep \ {id}
        /\ DOMAIN b.grp = DOMAIN p.grp /\ \A g \in DOMAIN p.grp : b.grp[g] = p.grp[g] \ {id}
    BY <2>2, RemoveDoes
  <2> HIDE DEF b
  <2>4. /\ DOMAIN G = DOMAIN p.grp
        /\ \A g \in DOMAIN p.grp : G[g] = IF b.grp[g] = {} THEN {to} ELSE b.grp[g]
    BY <2>3
  <2> HIDE DEF G
  <2>5. q \in Profile
    BY <1>3, <2>1
  <2>6. /\ SameRefs(b, q) /\ q.ep = b.ep
        /\ q.grp = IF to \in DOMAIN p.ep THEN G ELSE b.grp
    BY <2>3 DEF SameRefs, Profile
  <2> HIDE DEF q
  <2>7. Moved(p, q, id, {to})
    BY <2>2, <2>3, <2>6, SameRefsMoved
  <2>8. Known(q) = Known(p) \ {id} /\ to \in Builtin \cup Known(q)
    BY <1>1, <2>1, <2>3, <2>4, <2>6 DEF Known, OutboundExists
  <2>9. GroupsFilled(q) /\ MembersResolve(q) /\ Acyclic(q)
    <3>1. CASE to \notin DOMAIN p.ep
      BY <1>1, <2>1, <2>3, <2>5, <2>6, <2>8, <3>1, PrunedGroups DEF SoleMember
    <3>2. CASE to \in DOMAIN p.ep
      <4>1. DOMAIN q.grp = DOMAIN p.grp /\ \A g \in DOMAIN q.grp :
              q.grp[g] = IF p.grp[g] \ {id} = {} THEN {to} ELSE p.grp[g] \ {id}
        BY <2>3, <2>4, <2>6, <3>2
      <4>2. GroupsFilled(q)
        BY <4>1 DEF GroupsFilled
      <4>3. MembersResolve(q)
        <5> SUFFICES ASSUME NEW g \in DOMAIN q.grp, NEW m \in q.grp[g] \ {Direct}
                     PROVE  m \in Known(q) /\ m # g
          BY DEF MembersResolve
        <5>1. g \in DOMAIN p.grp /\ (m = to \/ m \in p.grp[g] \ {id})
          BY <4>1
        <5>2. CASE m = to
          <6>1. m \in Known(p) \ {id} /\ m # g
            BY <1>1, <2>1, <3>2, <5>1, <5>2 DEF Known
          <6> QED BY <2>8, <6>1
        <5>3. CASE m \in p.grp[g] \ {id}
          BY <1>1, <2>8, <5>1, <5>3 DEF MembersResolve
        <5> QED BY <5>1, <5>2, <5>3
      <4>4. Acyclic(q)
        <5>1. \A g \in DOMAIN q.grp : q.grp[g] \subseteq p.grp[g] \cup Endpoint
          BY <1>1, <3>2, <4>1
        <5> QED BY <1>1, <2>5, <4>1, <5>1, FewerStayAcyclic
      <4> QED BY <4>2, <4>3, <4>4
    <3> QED BY <3>1, <3>2
  <2> QED BY <1>3, <2>1, <2>7, <2>8, <2>9, PublishedIsValid
<1>9. ASSUME NEW id \in Endpoint, NEW kind \in EndpointKind, NEW to \in Outbound,
             SetEndpointDisabledReplacing(id, kind, to)
      PROVE  Applicable(profile')
  <2> DEFINE a == SwitchedOff(p, id, kind)
             G == [g \in DOMAIN a.grp |-> IF id \in a.grp[g] THEN (a.grp[g] \ {id}) \cup {to} ELSE a.grp[g]]
             b == [a EXCEPT !.grp = G]
             q == RepointDependents(b, id, to)
  <2>1. /\ id \in DOMAIN p.ep /\ to # id /\ OutboundExists(p, to) /\ Write(q) /\ ~GroupReaches(p, to, id)
        /\ (\E g \in DOMAIN p.grp : id \in p.grp[g]) => to \in Known(p)
    BY <1>9 DEF SetEndpointDisabledReplacing
  <2>2. a \in Profile /\ SameRefs(p, a) /\ DOMAIN a.ep = DOMAIN p.ep /\ a.grp = p.grp
    BY <2>1, SwitchedOffDoes
  <2> HIDE DEF a
  <2>3. /\ DOMAIN G = DOMAIN p.grp
        /\ \A g \in DOMAIN p.grp : G[g] = IF id \in p.grp[g] THEN (p.grp[g] \ {id}) \cup {to} ELSE p.grp[g]
    BY <2>2
  <2>4. G \in Partial(Group, GroupForm)
    <3>1. \A g \in DOMAIN a.grp : a.grp[g] \in GroupForm /\ (id \in a.grp[g] => to \in Known(p))
      BY <2>1, <2>2, Parts
    <3>2. to \in Known(p) => to \in Outbound \ {Block}
      BY Parts, StoreAssumption DEF Known, Outbound, Builtin
    <3>3. G \in [DOMAIN a.grp -> GroupForm]
      BY <3>1, <3>2 DEF GroupForm
    <3>4. a.grp \in Partial(Group, GroupForm)
      BY <2>2, Parts
    <3> QED BY <3>3, <3>4, SameDomain
  <2> HIDE DEF G
  <2>5. b \in Profile /\ b.ep = a.ep /\ b.grp = G /\ SameRefs(a, b)
    BY <2>2, <2>4, Replace DEF SameRefs
  <2> HIDE DEF b
  <2>6. q \in Profile /\ q.ep = b.ep /\ q.grp = b.grp /\ Moved(b, q, id, {to})
    BY <2>1, <2>5, RepointKeeps, RepointMoves DEF Keeps
  <2> HIDE DEF q
  <2>7. Moved(p, q, id, {to})
    BY <2>2, <2>5, <2>6, SameRefsMoved
  <2>8. Known(q) = Known(p) /\ to \in Builtin \cup Known(q)
    BY <2>1, <2>2, <2>3, <2>5, <2>6 DEF Known, OutboundExists
  <2>9. GroupsFilled(q)
    BY <1>1, <2>3, <2>5, <2>6 DEF GroupsFilled
  <2>10. \A g \in DOMAIN p.grp : id \in p.grp[g] => to # g
    BY <2>1 DEF GroupReaches
  <2>11. MembersResolve(q)
    <3> SUFFICES ASSUME NEW g \in DOMAIN q.grp, NEW m \in q.grp[g] \ {Direct}
                 PROVE  m \in Known(q) /\ m # g
      BY DEF MembersResolve
    <3>1. /\ g \in DOMAIN p.grp
          /\ q.grp[g] = IF id \in p.grp[g] THEN (p.grp[g] \ {id}) \cup {to} ELSE p.grp[g]
      BY <2>3, <2>5, <2>6
    <3>2. CASE m \in p.grp[g]
      BY <1>1, <2>8, <3>1, <3>2 DEF MembersResolve
    <3>3. CASE id \in p.grp[g] /\ m = to
      BY <2>1, <2>8, <2>10, <3>1, <3>3
    <3> QED BY <3>1, <3>2, <3>3
  <2>12. Acyclic(q)
    BY <1>1, <2>1, <2>3, <2>5, <2>6, TakingOverStaysAcyclic
  <2> QED BY <1>3, <2>1, <2>7, <2>8, <2>9, <2>11, <2>12, PublishedIsValid
<1>10. ASSUME NEW id \in Group, DeleteGroup(id) PROVE Applicable(profile')
  <2> DEFINE G == Drop(p.grp, id)
             a == [p EXCEPT !.grp = G]
             q == Prune(a, id)
  <2>1. /\ id \in DOMAIN p.grp /\ ~RuleUses(p, id) /\ ~ListUses(p, id) /\ ~SoleMember(p, id) /\ Write(q)
    BY <1>10 DEF DeleteGroup
  <2>2. DOMAIN G = DOMAIN p.grp \ {id} /\ \A g \in DOMAIN p.grp \ {id} : G[g] = p.grp[g]
    BY DropValues
  <2>3. G \in Partial(Group, GroupForm)
    <3>1. p.grp \in Partial(Group, GroupForm)
      BY Parts
    <3> QED BY <3>1, DropIn, Zenon
  <2> HIDE DEF G
  <2>4. a \in Profile /\ a.ep = p.ep /\ a.grp = G /\ SameRefs(p, a)
    BY <2>3, Replace DEF SameRefs
  <2> HIDE DEF a
  <2>5. /\ q \in Profile /\ SameRefs(a, q) /\ q.ep = p.ep /\ DOMAIN q.grp = DOMAIN p.grp \ {id}
        /\ \A g \in DOMAIN q.grp : q.grp[g] = p.grp[g] \ {id}
    BY <2>2, <2>4, PruneDoes
  <2> HIDE DEF q
  <2>6. Moved(p, q, id, {Direct})
    BY <2>1, <2>4, <2>5, UnusedMoved DEF SameRefs
  <2>7. Known(p) \ {id} \subseteq Known(q)
    BY <2>5 DEF Known
  <2>8. GroupsFilled(q) /\ MembersResolve(q) /\ Acyclic(q)
    BY <1>1, <2>1, <2>5, <2>7, PrunedGroups DEF SoleMember
  <2> QED BY <1>3, <1>4, <2>1, <2>6, <2>7, <2>8, PublishedIsValid
<1> QED BY <1>5, <1>6, <1>7, <1>8, <1>9, <1>10

\* A connection that is stored, whoever brings it in, removes no id.
LEMMA StoringIsApplicable ==
  ASSUME profile \in Profile, Validate(profile), FieldsValid(profile'), NEW E, DOMAIN profile.ep \subseteq DOMAIN E,
         Publish([profile EXCEPT !.ep = E]), Keeps(profile, profile')
  PROVE  Applicable(profile')
<1> DEFINE q == [profile EXCEPT !.ep = E]
<1>1. q.ep = E /\ q.grp = profile.grp /\ SameRefs(profile, q)
  BY DEF Profile, SameRefs
<1>2. Publish(q)
  OBVIOUS
<1> HIDE DEF q
<1>3. /\ profile' = q /\ q \in Profile /\ FieldsValid(q) /\ EndpointsLoad(q)
      /\ GroupsFilled(profile) /\ MembersResolve(profile) /\ Acyclic(profile)
  BY <1>2 DEF Publish, Keeps, Validate, RoutesValid
<1>4. ~RuleUses(profile, None)
  BY Parts, StoreAssumption DEF RuleUses, RuleForm
<1>5. Moved(profile, q, None, {Direct})
  BY <1>1, <1>4, UnusedMoved
<1>6. Known(profile) \subseteq Known(q)
  BY <1>1 DEF Known
<1>7. GroupsFilled(q) /\ MembersResolve(q) /\ Acyclic(q)
  BY <1>1, <1>3, <1>6 DEF GroupsFilled, MembersResolve, Acyclic
<1> QED BY <1>2, <1>3, <1>5, <1>6, <1>7, PublishedIsValid DEF Builtin

LEMMA StoredConnection ==
  ASSUME profile \in Profile, job \in Job, Validate(profile), FieldsValid(profile'),
         SwitchSaves \/ \E kind \in EndpointKind : ImportSaves(kind) \/ SubscriptionSaves(kind)
  PROVE  Applicable(profile')
<1>1. Keeps(profile, profile')
  BY SlowCommits
<1>2. \E E : DOMAIN profile.ep \subseteq DOMAIN E /\ Publish([profile EXCEPT !.ep = E])
  <2>1. CASE SwitchSaves
    <3> DEFINE E == [profile.ep EXCEPT ![job.id] = [job.copy EXCEPT !.on = job.on]]
    <3>1. Publish([profile EXCEPT !.ep = E])
      BY <2>1 DEF SwitchSaves
    <3>2. DOMAIN profile.ep \subseteq DOMAIN E
      OBVIOUS
    <3> HIDE DEF E
    <3> QED BY <3>1, <3>2
  <2>2. ASSUME NEW kind \in EndpointKind, ImportSaves(kind) \/ SubscriptionSaves(kind)
        PROVE  \E x : Publish([profile EXCEPT !.ep = Put(profile.ep, job.id, x)])
    BY <2>2 DEF ImportSaves, SubscriptionSaves
  <2>3. \A x : DOMAIN profile.ep \subseteq DOMAIN Put(profile.ep, job.id, x)
    BY DEF Put
  <2> QED BY <2>1, <2>2, <2>3
<1> QED BY <1>1, <1>2, StoringIsApplicable

\* The writes of rules, lists, groups, device groups and the DNS plane.
LEMMA RemovesNothing ==
  ASSUME profile' = profile \/ (profile'.ep = profile.ep /\ DOMAIN profile.grp \subseteq DOMAIN profile'.grp)
  PROVE  EnabledTarget(profile) \subseteq EnabledTarget(profile')
BY DEF EnabledTarget

LEMMA RemovalStep ==
  ASSUME StoreInv, [Next]_storeVars, Validate(profile), FieldsValid(profile'),
         ~(EnabledTarget(profile) \subseteq EnabledTarget(profile'))
  PROVE  Applicable(profile')
<1>1. profile \in Profile /\ job \in Job
  BY DEF StoreInv, TypeOK
<1>2. ~(profile' = profile \/ (profile'.ep = profile.ep /\ DOMAIN profile.grp \subseteq DOMAIN profile'.grp))
  BY RemovesNothing
<1>3. ASSUME NEW x, \/ profile' = [profile EXCEPT !.list = x] \/ profile' = [profile EXCEPT !.rule = x]
                    \/ profile' = [profile EXCEPT !.dev = x] \/ profile' = [profile EXCEPT !.dns = x]
      PROVE  FALSE
  <2>1. profile'.ep = profile.ep /\ profile'.grp = profile.grp
    BY <1>1, <1>3 DEF Profile
  <2> QED BY <1>2, <2>1
<1>4. CASE Structural
  <2>1. \A l \in List : ~DeleteRoutingList(l)
    <3> SUFFICES ASSUME NEW l \in List, DeleteRoutingList(l) PROVE FALSE
      OBVIOUS
    <3>1. profile' = [profile EXCEPT !.list = Drop(profile.list, l)]
      BY DEF DeleteRoutingList, Write, Publish
    <3> QED BY <1>3, <3>1
  <2>2. \A r \in Rule : ~DeleteRule(r)
    <3> SUFFICES ASSUME NEW r \in Rule, DeleteRule(r) PROVE FALSE
      OBVIOUS
    <3>1. profile' = [profile EXCEPT !.rule = Drop(profile.rule, r)]
      BY DEF DeleteRule, Write, Publish
    <3> QED BY <1>3, <3>1
  <2>3. \A d \in DevGroup : ~DeleteDeviceGroup(d)
    <3> SUFFICES ASSUME NEW d \in DevGroup, DeleteDeviceGroup(d) PROVE FALSE
      OBVIOUS
    <3> DEFINE L == [l \in DOMAIN profile.list |->
                       [profile.list[l] EXCEPT !.scope = profile.list[l].scope \ {d}]]
    <3>1. profile' = [profile EXCEPT !.dev = profile.dev \ {d}, !.list = L]
      BY DEF DeleteDeviceGroup, Write, Publish
    <3> HIDE DEF L
    <3>2. profile'.ep = profile.ep /\ profile'.grp = profile.grp
      BY <1>1, <3>1 DEF Profile
    <3> QED BY <1>2, <3>2
  <2> QED BY <1>1, <1>4, <2>1, <2>2, <2>3, RemovalIsApplicable DEF Structural
<1>5. CASE Edit
  <2>1. Keeps(profile, profile')
    BY <1>1, <1>5, EditKeeps
  <2>2. ASSUME NEW id \in Endpoint, NEW form \in EndpointForm, UpsertEndpoint(id, form)
        PROVE  Applicable(profile')
    <3>1. DOMAIN profile.ep \subseteq DOMAIN Put(profile.ep, id, form)
      BY DEF Put
    <3>2. Publish([profile EXCEPT !.ep = Put(profile.ep, id, form)])
      BY <2>2 DEF UpsertEndpoint, Write
    <3> QED BY <1>1, <2>1, <3>1, <3>2, StoringIsApplicable
  <2>3. \A g \in Group, form \in GroupForms : ~UpsertGroup(g, form)
    <3> SUFFICES ASSUME NEW g \in Group, NEW form \in GroupForms, UpsertGroup(g, form) PROVE FALSE
      OBVIOUS
    <3>1. profile' = [profile EXCEPT !.grp = Put(profile.grp, g, form)]
      BY DEF UpsertGroup, Write, Publish
    <3>2. DOMAIN profile.grp \subseteq DOMAIN Put(profile.grp, g, form)
      BY DEF Put
    <3>3. profile'.ep = profile.ep /\ profile'.grp = Put(profile.grp, g, form)
      BY <1>1, <3>1 DEF Profile
    <3> QED BY <1>2, <3>2, <3>3
  <2>4. \A r \in Rule, form \in RuleForms : ~UpsertRule(r, form)
    <3> SUFFICES ASSUME NEW r \in Rule, NEW form \in RuleForms, UpsertRule(r, form) PROVE FALSE
      OBVIOUS
    <3>1. profile' = [profile EXCEPT !.rule = Put(profile.rule, r, form)]
      BY DEF UpsertRule, Write, Publish
    <3> QED BY <1>3, <3>1
  <2>5. \A l \in List, form \in ListForms : ~UpsertRoutingList(l, form)
    <3> SUFFICES ASSUME NEW l \in List, NEW form \in ListForms, UpsertRoutingList(l, form) PROVE FALSE
      OBVIOUS
    <3>1. \E x : profile' = [profile EXCEPT !.list = x]
      BY DEF UpsertRoutingList, WithList, Write, Publish
    <3> QED BY <1>3, <3>1
  <2>6. \A d \in DevGroup : ~UpsertDeviceGroup(d)
    <3> SUFFICES ASSUME NEW d \in DevGroup, UpsertDeviceGroup(d) PROVE FALSE
      OBVIOUS
    <3>1. profile' = [profile EXCEPT !.dev = profile.dev \cup {d}]
      BY DEF UpsertDeviceGroup, Write, Publish
    <3> QED BY <1>3, <3>1
  <2> QED BY <1>5, <2>2, <2>3, <2>4, <2>5, <2>6 DEF Edit
<1>6. CASE SlowWriter
  <2>1. ~ \/ \E l \in List : OpenForm(l) \/ OpenFetch(l)
          \/ \E id \in Endpoint, on \in BOOLEAN : OpenSwitch(id, on)
          \/ \E id \in Endpoint : OpenImport(id) \/ OpenSubscription(id)
          \/ OpenDNS \/ SwitchRetries \/ ImportRetries \/ Give
          \/ \E plane \in DnsForms : CheckDNS(plane)
    BY <1>2, ReadersFresh
  <2>2. \A src \in Source, out \in Outbound, echo \in BOOLEAN : ~SaveForm(src, out, echo)
    <3> SUFFICES ASSUME NEW src \in Source, NEW out \in Outbound, NEW echo \in BOOLEAN, SaveForm(src, out, echo) PROVE FALSE
      OBVIOUS
    <3>1. \E x : profile' = [profile EXCEPT !.list = x]
      BY DEF SaveForm, WithList, Publish
    <3> QED BY <1>3, <3>1
  <2>3. ~SetDNSIfGen
    <3> SUFFICES ASSUME SetDNSIfGen PROVE FALSE
      OBVIOUS
    <3>1. profile' = [profile EXCEPT !.dns = job.next]
      BY DEF SetDNSIfGen, Publish
    <3> QED BY <1>3, <3>1
  <2>4. ~SetRoutingListCaches
    <3> SUFFICES ASSUME SetRoutingListCaches PROVE FALSE
      OBVIOUS
    <3>1. \E x : profile' = [profile EXCEPT !.list = x]
      BY DEF SetRoutingListCaches, Publish
    <3> QED BY <1>3, <3>1
  <2>5. CASE SwitchSaves \/ \E kind \in EndpointKind : ImportSaves(kind) \/ SubscriptionSaves(kind)
    BY <1>1, <2>5, StoredConnection
  <2> QED BY <1>6, <2>1, <2>2, <2>3, <2>4, <2>5 DEF SlowWriter
<1>7. CASE Restart \/ UNCHANGED storeVars
  BY <1>2, <1>7 DEF Restart, storeVars
<1> QED BY <1>4, <1>5, <1>6, <1>7 DEF Next

(* A step from a valid profile that removes a target or switches it off      *)
(* leaves groups, rules, lists and the DNS plane valid, detours excepted,    *)
(* for every profile and whatever was saved while the writer was open        *)
(* (DeleteEndpoint, DeleteGroup, repointDependents, parkDependents, publish),*)
(* unless it brings in an endpoint field out of range, which Validate names  *)
(* before any reference.                                                     *)
THEOREM RemovalsLeaveItApplicable == Spec => RemovalKeepsApplicable
<1>1. StoreInv /\ [Next]_storeVars =>
        [Validate(profile) /\ FieldsValid(profile') /\ ~(EnabledTarget(profile) \subseteq EnabledTarget(profile'))
           => RoutesValid(profile') /\ DnsPlaneValid(profile')]_storeVars
  BY RemovalStep DEF Applicable
<1> QED
  BY <1>1, StoreCorrect, PTL DEF Spec, RemovalKeepsApplicable

-----------------------------------------------------------------------------
(* What a slow writer leaves                                                 *)

\* A write that changes lists only, none of whose new references is missing.
LEMMA ListWriteIsValid ==
  ASSUME profile \in Profile, Validate(profile), NEW q \in Profile, Publish(q),
         OtherThanLists(profile, q), NEW ok, ok \subseteq Builtin \cup Known(profile),
         DOMAIN q.list = DOMAIN profile.list,
         \A l \in DOMAIN profile.list :
            /\ q.list[l].scope = profile.list[l].scope /\ q.list[l].via = profile.list[l].via
            /\ q.list[l].out \in {profile.list[l].out} \cup ok
  PROVE  profile' = q /\ Validate(q)
<1>1. /\ FieldsValid(profile) /\ EndpointsLoad(profile) /\ GroupsFilled(profile) /\ MembersResolve(profile)
      /\ Acyclic(profile) /\ DetoursValid(profile)
  BY DEF Validate, RoutesValid, ValidateDNS
<1>2. /\ FieldsValid(q) /\ EndpointsLoad(q) /\ GroupsFilled(q) /\ MembersResolve(q)
      /\ Acyclic(q) /\ DetoursValid(q) /\ Known(q) = Known(profile)
  BY <1>1 DEF OtherThanLists, FieldsValid, EndpointsLoad, GroupsFilled, MembersResolve, Acyclic,
              DetoursValid, EnabledTarget, Known
<1>3. Calmer(profile.dns, q.dns) /\ (OneAsksEach(profile) => OneAsksEach(q))
  BY DEF OtherThanLists, Calmer, OneAsksEach, Asks
<1>4. \A r \in DOMAIN profile.rule : profile.rule[r].out # None
  BY Parts, StoreAssumption DEF RuleForm
<1>5. \A l \in DOMAIN profile.list : profile.list[l].out # None
  BY Parts, StoreAssumption DEF ListForm
<1>6. Moved(profile, q, None, ok)
  BY <1>3, <1>4, <1>5 DEF Moved, OtherThanLists
<1>7. profile' = q /\ Applicable(q)
  BY <1>2, <1>6, PublishedIsValid
<1> QED
  BY <1>2, <1>7 DEF Applicable, Validate, ValidateDNS

LEMMA SlowStep ==
  ASSUME SendsRev, StoreInv, [Next]_storeVars, Validate(profile), FieldsValid(profile'),
         EnabledTarget(profile) \subseteq EnabledTarget(profile'), job # NoJob, JobCommits(job.kind),
         job.kind = "form" => OutboundExists(profile, profile'.list[job.id].out)
  PROVE  Validate(profile')
<1>1. profile \in Profile /\ job \in Job /\ job.kind # None
  <2>1. profile \in Profile /\ job \in Job
    BY DEF StoreInv, TypeOK
  <2> QED
    BY <2>1 DEF Job, None
<1>2. CASE job.kind = "form"
  <2>1. PICK src \in Source, out \in Outbound, echo \in BOOLEAN : SaveForm(src, out, echo)
    BY <1>1, <1>2, CommitIsTheJobs
  <2>2. PICK q : q = profile'
    OBVIOUS
  <2>3. /\ Publish(q) /\ q \in Profile /\ OtherThanLists(profile, q)
        /\ DOMAIN q.list = DOMAIN profile.list /\ job.id \in DOMAIN profile.list
        /\ \A m \in DOMAIN profile.list : m # job.id => q.list[m] = profile.list[m]
        /\ \A f \in {"via", "on", "scope"} : q.list[job.id][f] = profile.list[job.id][f]
    BY <1>1, <2>1, <2>2, FormCommits
  <2>4. q.list[job.id].via = profile.list[job.id].via /\ q.list[job.id].scope = profile.list[job.id].scope
    BY <2>3
  <2> DEFINE ok == {q.list[job.id].out}
  <2>5. ok \subseteq Builtin \cup Known(profile)
    BY <1>2, <2>2 DEF OutboundExists
  <2>6. \A l \in DOMAIN profile.list :
            /\ q.list[l].scope = profile.list[l].scope /\ q.list[l].via = profile.list[l].via
            /\ q.list[l].out \in {profile.list[l].out} \cup ok
    BY <2>3, <2>4
  <2> HIDE DEF ok
  <2> QED
    BY <1>1, <2>3, <2>5, <2>6, ListWriteIsValid
<1>3. CASE job.kind = "dns"
  <2>1. SetDNSIfGen
    BY <1>1, <1>3, CommitIsTheJobs
  <2>2. job.checked /\ gen = job.gen /\ profile' = [profile EXCEPT !.dns = job.next]
    BY <2>1 DEF SetDNSIfGen, Publish
  <2>3. ValidateDNS(profile')
    BY <1>3, <2>2 DEF StoreInv, JobFresh
  <2>4. /\ profile'.ep = profile.ep /\ profile'.grp = profile.grp /\ profile'.rule = profile.rule
        /\ profile'.list = profile.list /\ profile'.dev = profile.dev
    BY <1>1, <2>2 DEF Profile
  <2>5. RoutesValid(profile')
    BY <2>4 DEF Validate, RoutesValid, FieldsValid, EndpointsLoad, GroupsFilled, MembersResolve, MembersOn,
                Acyclic, RulesResolve, RulesOn, LiveRules, ListsResolve, ListsOn, ListRefs, EnabledTarget, Known
  <2> QED
    BY <2>3, <2>5 DEF Validate
<1>4. CASE SetRoutingListCaches
  <2> DEFINE x == [profile.list[job.id] EXCEPT !.cache = job.src]
             L == [profile.list EXCEPT ![job.id] = x]
  <2>1. Publish([profile EXCEPT !.list = L]) /\ job.id \in DOMAIN profile.list
    BY <1>4 DEF SetRoutingListCaches, SameSource
  <2>2. x.out = profile.list[job.id].out /\ x.via = profile.list[job.id].via /\ x.scope = profile.list[job.id].scope
    BY <1>1, <2>1, Parts DEF ListForm
  <2> HIDE DEF x
  <2>3. /\ DOMAIN L = DOMAIN profile.list /\ L[job.id] = x
        /\ \A l \in DOMAIN profile.list : l # job.id => L[l] = profile.list[l]
    BY <2>1
  <2> HIDE DEF L
  <2>4. PICK q : q = [profile EXCEPT !.list = L]
    OBVIOUS
  <2>5. Publish(q) /\ profile' = q /\ q.list = L /\ OtherThanLists(profile, q)
    BY <1>1, <2>1, <2>4 DEF Publish, OtherThanLists, Profile
  <2>6. q \in Profile
    BY <1>1, <1>4, <2>5, SlowCommits DEF Keeps
  <2>7. \A l \in DOMAIN profile.list :
            /\ q.list[l].scope = profile.list[l].scope /\ q.list[l].via = profile.list[l].via
            /\ q.list[l].out \in {profile.list[l].out} \cup {Direct}
    BY <2>2, <2>3, <2>5
  <2> QED
    BY <1>1, <2>3, <2>5, <2>6, <2>7, ListWriteIsValid DEF Builtin
<1>5. CASE SwitchSaves \/ \E kind \in EndpointKind : ImportSaves(kind) \/ SubscriptionSaves(kind)
  <2>1. Applicable(profile')
    BY <1>1, <1>5, StoredConnection
  <2>2. profile'.dns = profile.dns
    BY <1>1, <1>5 DEF SwitchSaves, ImportSaves, SubscriptionSaves, Publish, Profile
  <2>3. DetoursValid(profile')
    BY <2>2 DEF Validate, ValidateDNS, DetoursValid
  <2> QED
    BY <2>1, <2>3 DEF Applicable, Validate, ValidateDNS
<1> QED
  BY <1>1, <1>2, <1>3, <1>4, <1>5, CommitIsTheJobs

(* When forms send the revision they were loaded at, the write of a form, a  *)
(* switch, the DNS page, an import, a feed or a subscription leaves an       *)
(* applicable profile applicable whatever was saved while it was under way,  *)
(* as long as it brings no field out of range, names no outbound that is     *)
(* gone and takes no target away (checkRev, SetDNSIfGen, bulkImport,         *)
(* SetRoutingListCaches, publish).                                           *)
THEOREM SlowWritersLeaveItApplicable == SendsRev => (Spec => SlowWriteKeepsApplicable)
<1> SUFFICES ASSUME SendsRev PROVE Spec => SlowWriteKeepsApplicable
  OBVIOUS
<1> DEFINE Stays ==
      Validate(profile) /\ FieldsValid(profile') /\ EnabledTarget(profile) \subseteq EnabledTarget(profile')
        /\ job # NoJob /\ JobCommits(job.kind)
        /\ (job.kind = "form" => OutboundExists(profile, profile'.list[job.id].out))
        => Validate(profile')
<1>1. StoreInv /\ [Next]_storeVars => [Stays]_storeVars
  BY SlowStep
<1>2. Spec => [][Stays]_storeVars
  <2> HIDE DEF Stays
  <2> QED
    BY <1>1, StoreCorrect, PTL DEF Spec
<1> QED
  BY <1>2 DEF SlowWriteKeepsApplicable
=============================================================================
