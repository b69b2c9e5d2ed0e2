------------------------------- MODULE Store -------------------------------
(***************************************************************************)
(* The profile store and the writers that race on it (internal/store, the  *)
(* validation of internal/model, and the handlers of internal/server that  *)
(* read the profile, take their time, and write).                          *)
(*                                                                         *)
(* A write holds wmu: it clones the published profile, changes the clone,  *)
(* and publish refuses it, fails to persist it, or installs it together    *)
(* with the next generation: one action.  What takes time is between a     *)
(* reader's load and its write: an open form, a switch that passes the     *)
(* capability gate, the DNS page, a bulk import, a feed that is being      *)
(* fetched, a subscription.  `job` is that reader; every other writer is   *)
(* an action of its own, so each of them may commit while the job waits.   *)
(*                                                                         *)
(* Objects are what references, revisions and the two checks on an         *)
(* endpoint can tell apart: it is on or off, its protocol pushes resolvers *)
(* or not, it may be a draft that the core cannot load, and a field may be *)
(* out of range.  A feed's cache is the source it was fetched from; a      *)
(* revision (a hash of the object) is the object without its feed cache.   *)
(***************************************************************************)
EXTENDS Naturals, Functions

CONSTANTS
  Endpoint, Group, Rule, List, DevGroup,  \* ids
  Resolver,       \* DNS servers with an address, a detour and a list's rules
  VpnResolver,    \* DNS servers that ask a connection's pushed resolvers
  DnsRule,
  Source,         \* feed URLs
  Start,          \* the profiles the daemon may find on disk
  GroupForms, RuleForms, ListForms, DnsForms,  \* what clients submit
  MaxWrites,      \* bound: commits
  MaxRestarts,    \* bound: restarts of the daemon
  SendsRev        \* TRUE: a form sends the revision its copy was loaded at

None == "none"
Direct == "direct"
Block == "block"
Builtin == {Direct, Block}
Outbound == Builtin \cup Endpoint \cup Group

ASSUME StoreAssumption ==
  /\ None \notin Outbound /\ Endpoint \cap Group = {} /\ Builtin \cap (Endpoint \cup Group) = {}
  /\ Resolver \cap VpnResolver = {}
  /\ MaxWrites \in Nat /\ MaxRestarts \in Nat /\ SendsRev \in BOOLEAN

VARIABLES
  profile,   \* the published profile; the file on disk holds the same one
  gen,       \* the published generation: <<which Open, commits since it>>
  job,       \* the slow reader-then-writer
  writes

storeVars == <<profile, gen, job, writes>>

-----------------------------------------------------------------------------
(* Profiles                                                                *)

Partial(S, T) == UNION {[D -> T] : D \in SUBSET S}

\* A draft lacks what its protocol needs to load.  A misfilled one has a field that Validate
\* refuses and that no path asks about when it stores the connection (port 70000, no server).
Misfilled == {"vpn_misfilled", "plain_misfilled"}
EndpointKind == {"vpn", "plain", "draft"} \cup Misfilled
EndpointForm == [on : BOOLEAN, kind : EndpointKind]
GroupForm == SUBSET (Outbound \ {Block})
RuleForm == [out : Outbound, off : BOOLEAN]
ListForm == [out : Outbound, via : Outbound \cup {None}, on : BOOLEAN, scope : SUBSET DevGroup,
             src : Source, cache : Source \cup {None}]
ServerForm == [on : BOOLEAN, to : Outbound \cup {None}]
DnsRuleForm == [srv : Resolver \cup VpnResolver, off : BOOLEAN, set : List \cup {None}]
NoDNS == [srv |-> [s \in {} |-> None], rule |-> [q \in {} |-> None], final |-> None]
DnsPlane == [srv : Partial(Resolver \cup VpnResolver, ServerForm), rule : Partial(DnsRule, DnsRuleForm),
             final : Resolver \cup {None}]

Profile ==
  [ep : Partial(Endpoint, EndpointForm), grp : Partial(Group, GroupForm), rule : Partial(Rule, RuleForm),
   list : Partial(List, ListForm), dev : SUBSET DevGroup, dns : DnsPlane]

Drop(f, k) == Restrict(f, DOMAIN f \ {k})
Put(f, k, v) == [x \in DOMAIN f \cup {k} |-> IF x = k THEN v ELSE f[x]]

-----------------------------------------------------------------------------
(* Profile.Validate: the checks on references, in the order it makes them. *)
(* Its first error decides, so the checks are grouped into phases.         *)

EnabledTarget(p) == {e \in DOMAIN p.ep : p.ep[e].on} \cup DOMAIN p.grp
Known(p) == DOMAIN p.ep \cup DOMAIN p.grp

\* The range checks on an endpoint's fields, made whether it is on or off.
FieldsValid(p) == \A e \in DOMAIN p.ep : p.ep[e].kind \notin Misfilled

\* An enabled endpoint must load: the core reads one configuration, all or nothing.
EndpointsLoad(p) == \A e \in DOMAIN p.ep : p.ep[e].on => p.ep[e].kind # "draft"

GroupsFilled(p) == \A g \in DOMAIN p.grp : p.grp[g] # {}
MembersResolve(p) ==
  \A g \in DOMAIN p.grp : \A m \in p.grp[g] \ {Direct} : m \in Known(p) /\ m # g
MembersOn(p) == \A g \in DOMAIN p.grp : p.grp[g] \cap DOMAIN p.ep \subseteq EnabledTarget(p)

\* A set of groups each of which has a member in the set holds a cycle.
Acyclic(p) ==
  \A C \in SUBSET DOMAIN p.grp \ {{}} : \E g \in C : p.grp[g] \cap C = {}

LiveRules(p) == {r \in DOMAIN p.rule : ~p.rule[r].off}
RulesResolve(p) == \A r \in LiveRules(p) : p.rule[r].out \in Builtin \cup Known(p)
RulesOn(p) == \A r \in LiveRules(p) : p.rule[r].out \in DOMAIN p.ep => p.ep[p.rule[r].out].on

ListRefs(p, l) == {p.list[l].out, p.list[l].via} \ (Builtin \cup {None})
ListsResolve(p) ==
  \A l \in DOMAIN p.list : ListRefs(p, l) \subseteq Known(p) /\ p.list[l].scope \subseteq p.dev
ListsOn(p) == \A l \in DOMAIN p.list : ListRefs(p, l) \cap DOMAIN p.ep \subseteq EnabledTarget(p)

DetoursValid(p) ==
  \A s \in DOMAIN p.dns.srv \cap Resolver :
     p.dns.srv[s].to \in {None, Direct} \cup EnabledTarget(p)

\* usesVPNResolvers, StrandedVPNResolvers
Asks(p, e) == {s \in DOMAIN p.dns.srv \cap VpnResolver : p.dns.srv[s].on /\ p.dns.srv[s].to = e}
Serves(p, e) == e \in DOMAIN p.ep /\ p.ep[e].on /\ p.ep[e].kind \in {"vpn", "vpn_misfilled"}
Stranded(p) ==
  {s \in DOMAIN p.dns.srv \cap VpnResolver : p.dns.srv[s].on /\ ~Serves(p, p.dns.srv[s].to)}
OneAsksEach(p) == \A e \in Endpoint : \A s, t \in Asks(p, e) : s = t

OnServers(p) == {s \in DOMAIN p.dns.srv : p.dns.srv[s].on}

\* DefaultServer: the final, or the first server that is emitted.
DefaultValid(p) ==
  IF p.dns.final = None THEN OnServers(p) = {} \/ OnServers(p) \cap Resolver # {}
  ELSE p.dns.final \in OnServers(p) \cap Resolver

DnsRulesValid(p) ==
  \A q \in DOMAIN p.dns.rule : ~p.dns.rule[q].off =>
     /\ p.dns.rule[q].srv \in OnServers(p)
     /\ p.dns.rule[q].set \in DOMAIN p.list \cup {None}

DnsPlaneValid(p) == Stranded(p) = {} /\ OneAsksEach(p) /\ DefaultValid(p) /\ DnsRulesValid(p)
ValidateDNS(p) == DetoursValid(p) /\ DnsPlaneValid(p)

RoutesValid(p) ==
  /\ FieldsValid(p) /\ EndpointsLoad(p)
  /\ GroupsFilled(p) /\ MembersResolve(p) /\ MembersOn(p) /\ Acyclic(p)
  /\ RulesResolve(p) /\ RulesOn(p) /\ ListsResolve(p) /\ ListsOn(p)

Validate(p) == RoutesValid(p) /\ ValidateDNS(p)

(* Whether Validate's error may be a DisabledRefError and nothing else: a  *)
(* phase before it passed, and in its own phase nothing else failed (which *)
(* of several comes first is the order of the slices, left open).          *)
OnlyDisabledRef(p) ==
  /\ FieldsValid(p) /\ EndpointsLoad(p) /\ GroupsFilled(p) /\ MembersResolve(p)
  /\ \/ ~MembersOn(p)
     \/ Acyclic(p) /\ RulesResolve(p)
        /\ \/ ~RulesOn(p)
           \/ ListsResolve(p) /\ ~ListsOn(p)

-----------------------------------------------------------------------------
(* Store.publish: refuse what strands a live reference, persist, install.  *)
(* A write that fails on a full flash, or is refused, changes nothing.     *)

Accepts(p) ==
  /\ Validate(profile) => ~OnlyDisabledRef(p)
  /\ Stranded(p) \subseteq Stranded(profile)

Publish(p) ==
  /\ writes < MaxWrites
  /\ Accepts(p)
  /\ profile' = p
  /\ gen' = <<gen[1], gen[2] + 1>>
  /\ writes' = writes + 1

Write(p) == Publish(p) /\ UNCHANGED job

-----------------------------------------------------------------------------
(* Dependents: what Delete and the switch-off paths refuse, move or park.  *)

RuleUses(p, id) == \E r \in DOMAIN p.rule : p.rule[r].out = id
ListUses(p, id) == \E l \in DOMAIN p.list : id \in {p.list[l].out, p.list[l].via}
DetourUses(p, id) == \E s \in DOMAIN p.dns.srv \cap Resolver : p.dns.srv[s].to = id
SoleMember(p, id) == \E g \in DOMAIN p.grp \ {id} : p.grp[g] = {id}

OutboundExists(p, to) == to \in Builtin \cup Known(p)

MutParkResolvers(dns, tags) ==   \* mutant: the rules that name a parked resolver stay on
  [dns EXCEPT !.srv = [s \in DOMAIN @ |-> IF s \in tags THEN [@[s] EXCEPT !.on = FALSE] ELSE @[s]]]

ParkResolvers(dns, tags) ==
  [dns EXCEPT !.srv = [s \in DOMAIN @ |-> IF s \in tags THEN [@[s] EXCEPT !.on = FALSE] ELSE @[s]],
              !.rule = [q \in DOMAIN @ |-> IF @[q].srv \in tags THEN [@[q] EXCEPT !.off = TRUE] ELSE @[q]]]

MoveDetours(dns, id, to) ==
  [dns EXCEPT !.srv = [s \in DOMAIN @ |->
     IF s \in Resolver /\ @[s].to = id THEN [@[s] EXCEPT !.to = to] ELSE @[s]]]

\* A server that asks id's resolvers moves to a connection that can serve it, or is parked.
RepointResolvers(p, id, to) ==
  LET dns == MoveDetours(p.dns, id, to)
  IN IF Asks(p, id) # {} /\ Serves(p, to) /\ Asks(p, to) = {}
     THEN LET taker == CHOOSE s \in Asks(p, id) : TRUE
          IN ParkResolvers([dns EXCEPT !.srv[taker].to = to], Asks(p, id) \ {taker})
     ELSE ParkResolvers(dns, Asks(p, id))

RepointedList(x, id, to) ==
  [x EXCEPT !.out = IF @ = id THEN to ELSE @, !.via = IF @ = id THEN to ELSE @]

RepointDependents(p, id, to) ==
  [p EXCEPT
     !.rule = [r \in DOMAIN @ |-> IF @[r].out = id THEN [@[r] EXCEPT !.out = to] ELSE @[r]],
     !.list = [l \in DOMAIN @ |-> RepointedList(@[l], id, to)],
     !.dns = RepointResolvers(p, id, to)]

MutParkDependents(p, id) ==   \* mutant: a parked list's outbound is blanked
  [p EXCEPT !.list = [l \in DOMAIN @ |-> [@[l] EXCEPT !.out = IF @ = id THEN None ELSE @]]]

ParkedList(x, id) ==
  [x EXCEPT !.out = IF @ = id THEN Direct ELSE @, !.on = @ /\ x.out # id,
            !.via = IF @ = id THEN None ELSE @]

ParkDependents(p, id) ==
  [p EXCEPT
     !.rule = [r \in DOMAIN @ |-> IF @[r].out = id THEN [out |-> Direct, off |-> TRUE] ELSE @[r]],
     !.list = [l \in DOMAIN @ |-> ParkedList(@[l], id)],
     !.dns = ParkResolvers(MoveDetours(p.dns, id, None), Asks(p, id))]

Prune(p, id) == [p EXCEPT !.grp = [g \in DOMAIN @ |-> @[g] \ {id}]]
RemoveEndpoint(p, id) == [Prune(p, id) EXCEPT !.ep = Drop(@, id)]

\* Every set of groups that holds `from` and its nested groups has one with member id.
GroupReaches(p, from, id) ==
  /\ from \in DOMAIN p.grp
  /\ \A C \in SUBSET DOMAIN p.grp :
       (from \in C /\ \A g \in C : p.grp[g] \cap DOMAIN p.grp \subseteq C) => \E g \in C : id \in p.grp[g]

-----------------------------------------------------------------------------
(* The writers that answer at once                                         *)

DeleteEndpoint(id) ==
  /\ id \in DOMAIN profile.ep
  /\ ~RuleUses(profile, id) /\ ~SoleMember(profile, id) /\ ~ListUses(profile, id)
  /\ ~DetourUses(profile, id) /\ Asks(profile, id) = {}
  /\ Write(RemoveEndpoint(profile, id))

DeleteEndpointReplacing(id, to) ==
  /\ id \in DOMAIN profile.ep /\ to # id /\ OutboundExists(profile, to)
  /\ to \notin DOMAIN profile.ep => ~SoleMember(profile, id)
  /\ LET p == RemoveEndpoint(RepointDependents(profile, id, to), id)
     IN Write(IF to \in DOMAIN profile.ep
              THEN [p EXCEPT !.grp = [g \in DOMAIN @ |-> IF @[g] = {} THEN {to} ELSE @[g]]]
              ELSE p)

DetachEndpointDependents(id) ==
  /\ id \in DOMAIN profile.ep /\ ~SoleMember(profile, id)
  /\ Write(RemoveEndpoint(ParkDependents(profile, id), id))

\* putEndpoint: the submitted endpoint, edited as it may be, which these two paths require to be off.
SwitchedOff(p, id, kind) == [p EXCEPT !.ep[id] = [on |-> FALSE, kind |-> kind]]

SetEndpointDisabledReplacing(id, kind, to) ==
  /\ id \in DOMAIN profile.ep /\ to # id /\ OutboundExists(profile, to)
  /\ ~GroupReaches(profile, to, id)
  /\ (\E g \in DOMAIN profile.grp : id \in profile.grp[g]) => to \in Known(profile)
  /\ LET p == SwitchedOff(profile, id, kind)
         q == [p EXCEPT !.grp = [g \in DOMAIN @ |-> IF id \in @[g] THEN (@[g] \ {id}) \cup {to} ELSE @[g]]]
     IN Write(RepointDependents(q, id, to))

SetEndpointDisabledDetaching(id, kind) ==
  /\ id \in DOMAIN profile.ep /\ ~SoleMember(profile, id)
  /\ Write(Prune(ParkDependents(SwitchedOff(profile, id, kind), id), id))

DeleteGroup(g) ==
  /\ g \in DOMAIN profile.grp
  /\ ~RuleUses(profile, g) /\ ~SoleMember(profile, g) /\ ~ListUses(profile, g) /\ ~DetourUses(profile, g)
  /\ Write(Prune([profile EXCEPT !.grp = Drop(@, g)], g))

\* Refused while an enabled DNS rule names the list.
DeleteRoutingList(l) ==
  /\ l \in DOMAIN profile.list
  /\ \A q \in DOMAIN profile.dns.rule : profile.dns.rule[q].set = l => profile.dns.rule[q].off
  /\ Write([profile EXCEPT !.list = Drop(@, l)])

DeleteRule(r) == r \in DOMAIN profile.rule /\ Write([profile EXCEPT !.rule = Drop(@, r)])

\* A list left with no group in its scope goes back to all clients.
DeleteDeviceGroup(d) ==
  /\ d \in profile.dev
  /\ Write([profile EXCEPT !.dev = @ \ {d},
                           !.list = [l \in DOMAIN @ |-> [@[l] EXCEPT !.scope = profile.list[l].scope \ {d}]]])

UpsertDeviceGroup(d) == d \notin profile.dev /\ Write([profile EXCEPT !.dev = @ \cup {d}])
UpsertGroup(g, form) == Write([profile EXCEPT !.grp = Put(@, g, form)])
UpsertRule(r, form) == Write([profile EXCEPT !.rule = Put(@, r, form)])

\* The feed cache follows the source: dropped when the source changes, kept when the form omits it.
KeepCache(old, form) ==
  [form EXCEPT !.cache = IF form.src # old.src THEN None ELSE IF @ = None THEN old.cache ELSE @]

WithList(p, l, form) ==
  [p EXCEPT !.list = Put(@, l, IF l \in DOMAIN p.list THEN KeepCache(p.list[l], form) ELSE form)]

\* The switch as it may be stored: a connection that cannot load is refused, or stored off.
\* Every path asks EndpointParamProblem and nothing else of the endpoint's fields.
MayRun(on, kind) == on /\ kind # "draft"

UpsertEndpoint(id, form) == form.on = MayRun(form.on, form.kind) /\ Write([profile EXCEPT !.ep = Put(@, id, form)])
UpsertRoutingList(l, form) == Write(WithList(profile, l, form))

-----------------------------------------------------------------------------
(* The writers that read first                                             *)

NoJob == [kind |-> None]
Idle == job = NoJob
Begin(j) == Idle /\ writes < MaxWrites /\ job' = j /\ UNCHANGED <<profile, gen, writes>>
End == job' = NoJob
Give == job # NoJob /\ End /\ UNCHANGED <<profile, gen, writes>>

\* A revision leaves the feed cache out (model.RoutingListRev).
ListRev(x) == [x EXCEPT !.cache = None]

MutAtRev(cur, copy) == TRUE   \* mutant: the revision is not compared

\* checkRev: a write made At a revision needs the object to exist and still have it.
AtRev(cur, copy) == ~SendsRev \/ cur = {copy}

StoredEndpoint(id) == {profile.ep[e] : e \in {id} \cap DOMAIN profile.ep}
StoredListRev(l) == {ListRev(profile.list[x]) : x \in {l} \cap DOMAIN profile.list}

OpenForm(l) == l \in DOMAIN profile.list /\ Begin([kind |-> "form", id |-> l, copy |-> profile.list[l]])

\* The form changes the list's source or outbound (one its page offered, which may be gone by
\* now); the feed cache is echoed or left out.
SaveForm(src, out, echo) ==
  /\ job.kind = "form"
  /\ AtRev(StoredListRev(job.id), ListRev(job.copy))
  /\ LET form == [job.copy EXCEPT !.src = src, !.out = out, !.cache = IF echo THEN @ ELSE None]
     IN Publish(WithList(profile, job.id, form))
  /\ End

\* handlePatchEndpoint: read, pass the capability gate, save At the revision read; three attempts.
OpenSwitch(id, on) ==
  id \in DOMAIN profile.ep
  /\ Begin([kind |-> "switch", id |-> id, copy |-> profile.ep[id], on |-> on, attempt |-> 0])

SwitchSaves ==
  /\ job.kind = "switch"
  /\ StoredEndpoint(job.id) = {job.copy}
  /\ job.on = MayRun(job.on, job.copy.kind)
  /\ Publish([profile EXCEPT !.ep[job.id] = [job.copy EXCEPT !.on = job.on]])
  /\ End

SwitchRetries ==
  /\ job.kind = "switch" /\ job.attempt < 2
  /\ StoredEndpoint(job.id) # {job.copy} /\ job.id \in DOMAIN profile.ep
  /\ job' = [job EXCEPT !.copy = profile.ep[job.id], !.attempt = @ + 1]
  /\ UNCHANGED <<profile, gen, writes>>

\* The DNS page: the plane and the generation from one load, validated, then compared and set.
OpenDNS == Begin([kind |-> "dns", gen |-> gen, plane |-> profile.dns, next |-> NoDNS, checked |-> FALSE])

CheckDNS(plane) ==
  /\ job.kind = "dns" /\ ~job.checked
  /\ ValidateDNS([profile EXCEPT !.dns = plane])
  /\ job' = [job EXCEPT !.next = plane, !.checked = TRUE]
  /\ UNCHANGED <<profile, gen, writes>>

MutSetDNSIfGen ==   \* mutant: the plane is installed whatever was saved since it was checked
  /\ job.kind = "dns" /\ job.checked
  /\ Publish([profile EXCEPT !.dns = job.next])
  /\ End

SetDNSIfGen ==
  /\ job.kind = "dns" /\ job.checked
  /\ gen = job.gen
  /\ Publish([profile EXCEPT !.dns = job.next])
  /\ End

\* bulkImport: a re-imported link is merged into the stored connection (whose switch is the
\* user's), written only while the profile is at the generation it was merged from.
OpenImport(id) ==
  Begin([kind |-> "import", id |-> id, gen |-> gen, have |-> StoredEndpoint(id), attempt |-> 0])

ImportSaves(kind) ==
  /\ job.kind = "import"
  /\ gen = job.gen
  /\ \A x \in job.have : x.kind # kind
  /\ \E on \in {x.on : x \in IF job.have = {} THEN {[on |-> TRUE]} ELSE job.have} :
          Publish([profile EXCEPT !.ep = Put(@, job.id, [on |-> MayRun(on, kind), kind |-> kind])])
  /\ End

ImportRetries ==
  /\ job.kind = "import" /\ gen # job.gen /\ job.attempt < 2
  /\ job' = [job EXCEPT !.gen = gen, !.have = StoredEndpoint(job.id), !.attempt = @ + 1]
  /\ UNCHANGED <<profile, gen, writes>>

\* A feed is fetched from the source the list had, and written only if it still has it.
OpenFetch(l) ==
  l \in DOMAIN profile.list /\ Begin([kind |-> "fetch", id |-> l, src |-> profile.list[l].src])

MutSameSource(l) == l \in DOMAIN profile.list   \* mutant: written whatever the source is now

SameSource(l) == l \in DOMAIN profile.list /\ profile.list[l].src = job.src

SetRoutingListCaches ==
  /\ job.kind = "fetch" /\ SameSource(job.id)
  /\ Publish([profile EXCEPT !.list[job.id].cache = job.src])
  /\ End

\* refreshSubscriptionOnce: connections no stored one matches, added without a generation.
OpenSubscription(id) ==
  id \notin DOMAIN profile.ep /\ Begin([kind |-> "subscription", id |-> id])

SubscriptionSaves(kind) ==
  /\ job.kind = "subscription"
  /\ Publish([profile EXCEPT !.ep = Put(@, job.id, [on |-> MayRun(TRUE, kind), kind |-> kind])])
  /\ End

MutRestart ==   \* mutant: every Open starts at the same generation
  /\ gen # <<0, 0>> /\ gen' = <<0, 0>>
  /\ job' = IF job.kind \in {"dns", "form"} THEN job ELSE NoJob
  /\ UNCHANGED <<profile, writes>>

\* The daemon restarts: workers are gone, a browser's DNS page is not; Open starts a generation
\* that no page holds.
Restart ==
  /\ gen[1] < MaxRestarts
  /\ gen' = <<gen[1] + 1, 0>>
  /\ job' = IF job.kind \in {"dns", "form"} THEN job ELSE NoJob
  /\ UNCHANGED <<profile, writes>>

-----------------------------------------------------------------------------
Init == profile \in Start /\ gen = <<0, 0>> /\ job = NoJob /\ writes = 0

Structural ==
  \/ \E id \in Endpoint :
       \/ DeleteEndpoint(id) \/ DetachEndpointDependents(id)
       \/ \E kind \in EndpointKind : SetEndpointDisabledDetaching(id, kind)
       \/ \E to \in Outbound :
            \/ DeleteEndpointReplacing(id, to)
            \/ \E kind \in EndpointKind : SetEndpointDisabledReplacing(id, kind, to)
  \/ \E g \in Group : DeleteGroup(g)
  \/ \E l \in List : DeleteRoutingList(l)
  \/ \E r \in Rule : DeleteRule(r)
  \/ \E d \in DevGroup : DeleteDeviceGroup(d)

Edit ==
  \/ \E id \in Endpoint, form \in EndpointForm : UpsertEndpoint(id, form)
  \/ \E g \in Group, form \in GroupForms : UpsertGroup(g, form)
  \/ \E r \in Rule, form \in RuleForms : UpsertRule(r, form)
  \/ \E l \in List, form \in ListForms : UpsertRoutingList(l, form)
  \/ \E d \in DevGroup : UpsertDeviceGroup(d)

SlowWriter ==
  \/ \E l \in List : OpenForm(l) \/ OpenFetch(l)
  \/ \E id \in Endpoint, on \in BOOLEAN : OpenSwitch(id, on)
  \/ \E id \in Endpoint : OpenImport(id) \/ OpenSubscription(id)
  \/ OpenDNS \/ SwitchSaves \/ SwitchRetries \/ SetDNSIfGen \/ ImportRetries
  \/ SetRoutingListCaches \/ Give
  \/ \E src \in Source, out \in Outbound, echo \in BOOLEAN : SaveForm(src, out, echo)
  \/ \E plane \in DnsForms : CheckDNS(plane)
  \/ \E kind \in EndpointKind : ImportSaves(kind) \/ SubscriptionSaves(kind)

Next == Structural \/ Edit \/ SlowWriter \/ Restart

Spec == Init /\ [][Next]_storeVars

-----------------------------------------------------------------------------
(* What the store promises                                                 *)

Generation == (0..MaxRestarts) \X (0..MaxWrites)

Job ==
  {NoJob}
  \cup [kind : {"form"}, id : List, copy : ListForm]
  \cup [kind : {"switch"}, id : Endpoint, copy : EndpointForm, on : BOOLEAN, attempt : 0..2]
  \cup [kind : {"dns"}, gen : Generation, plane : DnsPlane, next : DnsPlane, checked : BOOLEAN]
  \cup [kind : {"import"}, id : Endpoint, gen : Generation, have : SUBSET EndpointForm, attempt : 0..2]
  \cup [kind : {"fetch"}, id : List, src : Source]
  \cup [kind : {"subscription"}, id : Endpoint]

\* A profile keeps its shape; the generation counts the commits since Open.
TypeOK ==
  /\ profile \in Profile
  /\ gen \in Generation /\ gen[2] <= writes
  /\ job \in Job
  /\ writes \in 0..MaxWrites

(* "A dangling outbound fails Validate() and blocks every Apply": a step   *)
(* from a valid profile that removes a target or switches it off (a        *)
(* delete, a move, a detach, a form, a switch, an import) leaves groups,   *)
(* rules, lists and the DNS plane valid, detours excepted.  Excepted too   *)
(* is a write that brings a field out of range: Validate names that first, *)
(* publish lets a plain error pass, and a reference may dangle behind it.  *)
RemovalKeepsApplicable ==
  [][Validate(profile) /\ FieldsValid(profile') /\ ~(EnabledTarget(profile) \subseteq EnabledTarget(profile'))
       => RoutesValid(profile') /\ DnsPlaneValid(profile')]_storeVars

FromItsSource(x) == x.cache \in {None, x.src}
CachesMatch(p) == \A l \in DOMAIN p.list : FromItsSource(p.list[l])

\* A list never carries the networks of a feed that is not its source (CacheUpdate).
CacheMatchesSource == CachesMatch(profile)

JobCommits(kind) == job.kind = kind /\ job' = NoJob /\ profile' # profile

(* A form, a switch and an import change what their user changed, and put  *)
(* back nothing that another tab saved while they were open (QA-152).      *)
EditsSurvive ==
  [][/\ JobCommits("switch") => profile'.ep[job.id].kind = profile.ep[job.id].kind
     /\ JobCommits("import") /\ job.id \in DOMAIN profile.ep
          => profile'.ep[job.id].on = MayRun(profile.ep[job.id].on, profile'.ep[job.id].kind)
     /\ JobCommits("form") =>
          /\ job.id \in DOMAIN profile.list
          /\ \A f \in {"via", "on", "scope"} : profile'.list[job.id][f] = profile.list[job.id][f]]_storeVars

(* The DNS page replaces the plane it showed, and what it installs is      *)
(* valid in the profile it is installed into (handleSetDNS).               *)
DnsWriteSawItsPlane ==
  [][JobCommits("dns") => profile.dns = job.plane /\ ValidateDNS(profile')]_storeVars

(* What a slow writer read may be gone when it writes: a device group of a *)
(* form's scope, an exit of the DNS page, the connection of an import, a   *)
(* switch or a subscription.  Its write still leaves an applicable profile *)
(* applicable.  Excepted: it brings a field out of range, its form names   *)
(* an outbound that is not there, or it takes a target away (above).       *)
SlowWriteKeepsApplicable ==
  [][Validate(profile) /\ FieldsValid(profile') /\ EnabledTarget(profile) \subseteq EnabledTarget(profile')
       /\ job # NoJob /\ JobCommits(job.kind)
       /\ (job.kind = "form" => OutboundExists(profile, profile'.list[job.id].out))
       => Validate(profile')]_storeVars

-----------------------------------------------------------------------------
(* The assumptions and the inductive invariant of the proofs                *)

\* Whatever the path, a draft is never stored switched on.
NothingUnloadableIsOn == EndpointsLoad(profile)

\* What is on disk was written by this daemon, and a client that submits a feed
\* cache at all submits its source's.
ASSUME FormsAssumption ==
  /\ \A p \in Start : p \in Profile /\ CachesMatch(p) /\ EndpointsLoad(p)
  /\ GroupForms \subseteq GroupForm /\ RuleForms \subseteq RuleForm /\ DnsForms \subseteq DnsPlane
  /\ \A f \in ListForms : f \in ListForm /\ FromItsSource(f)

\* A generation that is no longer the published one never is again.
Earlier(g, h) == g[1] < h[1] \/ (g[1] = h[1] /\ g[2] <= h[2])

\* What a job still holds of the profile while the generation it read is the published one.
JobFresh ==
  /\ job.kind \in {"dns", "import"} => Earlier(job.gen, gen)
  /\ job.kind = "dns" /\ job.gen = gen =>
       /\ profile.dns = job.plane
       /\ job.checked => ValidateDNS([profile EXCEPT !.dns = job.next])
  /\ job.kind = "import" /\ job.gen = gen => job.have = StoredEndpoint(job.id)

StoreInv == TypeOK /\ NothingUnloadableIsOn /\ JobFresh

\* The copy in an open form was a list of the profile, so its cache is its source's too.
SourceInv == CacheMatchesSource /\ (job.kind = "form" => FromItsSource(job.copy))
=============================================================================
