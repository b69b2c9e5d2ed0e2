--------------------------- MODULE MCKernelPlane ---------------------------
(* An instance of KernelPlane for TLC: an endpoint, a group with the kill   *)
(* switch, and two profiles that give one table number to a block and to    *)
(* the endpoint, one of them with IPv6.                                     *)
EXTENDS KernelPlane

List(out, dst) == [on |-> TRUE, rule |-> FALSE, out |-> out, dst |-> dst, scope |-> "all", devices |-> {}]

MCMembers == [auto |-> <<"b", "c">>]
MCTags == <<"auto", Block, "z">>
MCNames == <<"x", "y">>

\* blocks: a block everywhere but on the NAS, also of what a list sends to the
\* group.  device: the TV's own tunnel for every destination but that list's; the
\* TV is known by its MAC, the NAS by its address.
MCEntries ==
  [blocks |-> [x |-> [List(Block, {<<4, "d1">>, <<4, "d2">>}) EXCEPT !.scope = "except", !.devices = {"nas"}],
               y |-> List("auto", {<<4, "d1">>})],
   device |-> [x |-> [List("z", {}) EXCEPT !.rule = TRUE, !.scope = "only", !.devices = {"tv"}],
               y |-> List("auto", {<<4, "d1">>})]]

MCFlow == {[dev |-> "pc", fam |-> 4, dst |-> d] : d \in {"d1", "d2"}}

ASSUME CompileAssumption == CompilesRight
============================================================================
