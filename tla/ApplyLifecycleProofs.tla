------------------------ MODULE ApplyLifecycleProofs ------------------------
(***************************************************************************)
(* Proofs about the life of an applied configuration.                      *)
(*                                                                         *)
(* The first part says what one execution may do to the router, whatever   *)
(* step it stops at: Touches for every outcome, Reached for a run that     *)
(* went through.  The second shows the record invariants from them.        *)
(***************************************************************************)
EXTENDS ApplyLifecycle, SequenceTheorems, TLAPS

-----------------------------------------------------------------------------
(* What one execution does                                                 *)

Steps == {"native_prepare", "core", "kernel", "native_commit", "postcheck"}

\* All a run of m that found router r may have left of the core and the rules.
Touches(r, m, x) ==
  /\ x \in Router
  /\ x.core \in {r.core, 0} \cup (IF m.core THEN {m.id} ELSE {})
  /\ x.file \in {r.file} \cup (IF m.core THEN {m.id} ELSE {})
  /\ x.desired => r.desired \/ (m.core /\ x.file = m.id)
  /\ x.rules \subseteq r.rules \cup Retired(m)

\* The core is as m asks for it.
Reached(m, x) ==
  /\ x.core = IF m.core THEN m.id ELSE 0
  /\ x.desired <=> m.core
  /\ m.core => x.file = m.id

\* A concatenation has the elements of both its parts.
Has(s, e) == \E i \in 1 .. Len(s) : s[i] = e

LEMMA Concat ==
  ASSUME NEW S, NEW s \in Seq(S), NEW t \in Seq(S), NEW e
  PROVE  /\ s \o t \in Seq(S)
         /\ Len(s \o t) = Len(s) + Len(t)
         /\ Has(s, e) \/ Has(t, e) => Has(s \o t, e)
<1>1. /\ s \o t \in Seq(S) /\ Len(s \o t) = Len(s) + Len(t)
      /\ Len(s) \in Nat /\ Len(t) \in Nat
  OBVIOUS
<1>2. ASSUME NEW i \in 1 .. Len(s), s[i] = e
      PROVE  Has(s \o t, e)
  <2>1. i \in 1 .. Len(s \o t) /\ (s \o t)[i] = s[i]
    BY <1>1
  <2> QED BY <2>1, <1>2 DEF Has
<1>3. ASSUME NEW i \in 1 .. Len(t), t[i] = e
      PROVE  Has(s \o t, e)
  <2>1. i + Len(s) \in 1 .. Len(s \o t) /\ (s \o t)[i + Len(s)] = t[i]
    BY <1>1
  <2> QED BY <2>1, <1>3 DEF Has
<1> QED BY <1>1, <1>2, <1>3 DEF Has

\* executeMaterialization always has a core and a kernel step, and prepares and
\* commits the interfaces exactly when m has any.
LEMMA ProgramSteps ==
  ASSUME NEW m \in Revision, NEW S, {"core", "kernel", "postcheck"} \subseteq S,
         m.native => {"native_prepare", "native_commit"} \subseteq S
  PROVE  /\ Program(m) \in Seq(S) /\ Len(Program(m)) >= 1
         /\ Has(Program(m), "core") /\ Has(Program(m), "kernel")
         /\ m.native => Has(Program(m), "native_prepare") /\ Has(Program(m), "native_commit")
<1> DEFINE only(c, s) == IF c THEN <<s>> ELSE <<>>
           a == only(m.native, "native_prepare")
           b == only(m.core, "core")
           c == only(m.kernel, "kernel")
           d == only(~m.core, "core")
           e == only(~m.kernel, "kernel")
           f == only(m.native, "native_commit")
           g == <<"postcheck">>
           ab == a \o b
           abc == ab \o c
           abcd == abc \o d
           abcde == abcd \o e
           abcdef == abcde \o f
<1>1. Program(m) = abcdef \o g
  BY Zenon DEF Program
<1>2. ASSUME NEW x, NEW s, x => s \in S
      PROVE  /\ only(x, s) \in Seq(S)
             /\ x => Has(only(x, s), s)
  <2>1. CASE x
    <3>1. s \in S
      BY <1>2, <2>1
    <3>2. <<s>> \in Seq(S) /\ Len(<<s>>) = 1 /\ <<s>>[1] = s
      BY <3>1
    <3>3. Has(<<s>>, s)
      BY <3>2 DEF Has
    <3> QED BY <2>1, <3>2, <3>3
  <2>2. CASE ~x
    BY <2>2
  <2> QED BY <2>1, <2>2
<1>3. g \in Seq(S) /\ Len(g) = 1
  <2>1. "postcheck" \in S
    OBVIOUS
  <2> QED BY <2>1
<1>4. /\ a \in Seq(S) /\ b \in Seq(S) /\ c \in Seq(S)
      /\ d \in Seq(S) /\ e \in Seq(S) /\ f \in Seq(S)
      /\ m.native => Has(a, "native_prepare") /\ Has(f, "native_commit")
      /\ m.core => Has(b, "core")
      /\ ~m.core => Has(d, "core")
      /\ m.kernel => Has(c, "kernel")
      /\ ~m.kernel => Has(e, "kernel")
  <2>1. /\ m.native => "native_prepare" \in S
        /\ m.native => "native_commit" \in S
        /\ "core" \in S /\ "kernel" \in S
    OBVIOUS
  <2> HIDE DEF only
  <2> QED BY <1>2, <2>1
<1> HIDE DEF a, b, c, d, e, f, g
<1>5. ab \in Seq(S) /\ (m.native => Has(ab, "native_prepare")) /\ (m.core => Has(ab, "core"))
  BY <1>4, Concat
<1> HIDE DEF ab
<1>6. /\ abc \in Seq(S) /\ (m.native => Has(abc, "native_prepare"))
      /\ (m.core => Has(abc, "core")) /\ (m.kernel => Has(abc, "kernel"))
  BY <1>4, <1>5, Concat
<1> HIDE DEF abc
<1>7. /\ abcd \in Seq(S) /\ (m.native => Has(abcd, "native_prepare"))
      /\ Has(abcd, "core") /\ (m.kernel => Has(abcd, "kernel"))
  BY <1>4, <1>6, Concat
<1> HIDE DEF abcd
<1>8. /\ abcde \in Seq(S) /\ (m.native => Has(abcde, "native_prepare"))
      /\ Has(abcde, "core") /\ Has(abcde, "kernel")
  BY <1>4, <1>7, Concat
<1> HIDE DEF abcde
<1>9. /\ abcdef \in Seq(S) /\ Has(abcdef, "core") /\ Has(abcdef, "kernel")
      /\ m.native => Has(abcdef, "native_prepare") /\ Has(abcdef, "native_commit")
  BY <1>4, <1>8, Concat
<1> HIDE DEF abcdef
<1>10. /\ abcdef \o g \in Seq(S) /\ Len(abcdef \o g) = Len(abcdef) + Len(g)
       /\ Has(abcdef \o g, "core") /\ Has(abcdef \o g, "kernel")
       /\ m.native => Has(abcdef \o g, "native_prepare") /\ Has(abcdef \o g, "native_commit")
  BY <1>3, <1>9, Concat
<1>11. Len(abcdef) \in Nat
  BY <1>9
<1> QED BY <1>1, <1>3, <1>10, <1>11

\* A successful prefix of the program.
LEMMA InstalledTouches ==
  ASSUME NEW r \in Router, NEW m \in Revision, NEW retire \in SUBSET Id,
         NEW removals \in SUBSET Id, NEW done
  PROVE  /\ Touches(r, m, Installed(r, m, retire, removals, done))
         /\ "core" \in done => Reached(m, Installed(r, m, retire, removals, done))
<1> DEFINE x == Installed(r, m, retire, removals, done)
<1>1. 0 \in Id /\ Retired(m) \in SUBSET Id /\ m.id \in Id /\ m.core \in BOOLEAN /\ m.kernel \in BOOLEAN
  BY RouterAssumption DEF Id, Revision, Retired
<1>2. x \in Router
  <2> DEFINE n == (r.native \cup (IF "native_prepare" \in done THEN {m.id} ELSE {}))
                  \ (IF "native_commit" \in done THEN removals ELSE {})
             c == IF "core" \notin done THEN r.core ELSE IF m.core THEN m.id ELSE 0
             f == IF "core" \in done /\ m.core THEN m.id ELSE r.file
             d == IF "core" \in done THEN m.core ELSE r.desired
             p == IF "kernel" \notin done THEN r.plane
                  ELSE IF m.kernel THEN m.id
                  ELSE IF retire # {} THEN 0 ELSE r.plane
             l == r.lost /\ ~("kernel" \in done /\ (m.kernel \/ retire # {}))
             u == IF "kernel" \notin done THEN r.rules ELSE (r.rules \ retire) \cup Retired(m)
  <2>1. x = [r EXCEPT !.native = n, !.core = c, !.file = f, !.desired = d,
                      !.plane = p, !.lost = l, !.rules = u]
    BY DEF Installed
  <2>2. /\ r.native \in SUBSET Id /\ r.core \in Id /\ r.file \in Id /\ r.desired \in BOOLEAN
        /\ r.plane \in Id \cup {Broken} /\ r.rules \in SUBSET Id
    BY DEF Router
  <2>3. n \in SUBSET Id /\ u \in SUBSET Id
    BY <1>1, <2>2
  <2>4. c \in Id /\ f \in Id /\ p \in Id \cup {Broken}
    BY <1>1, <2>2
  <2>5. d \in BOOLEAN
    BY <1>1, <2>2, Zenon
  <2>6. l \in BOOLEAN
    BY Zenon
  <2> HIDE DEF n, c, f, d, p, l, u, x
  <2> QED BY <2>1, <2>3, <2>4, <2>5, <2>6 DEF Router
<1>3. /\ x.core = IF "core" \notin done THEN r.core ELSE IF m.core THEN m.id ELSE 0
      /\ x.file = IF "core" \in done /\ m.core THEN m.id ELSE r.file
      /\ x.desired = IF "core" \in done THEN m.core ELSE r.desired
      /\ x.rules = IF "kernel" \notin done THEN r.rules ELSE (r.rules \ retire) \cup Retired(m)
  BY DEF Installed, Router
<1> HIDE DEF x
<1>4. Touches(r, m, x)
  BY <1>1, <1>2, <1>3 DEF Touches
<1>5. "core" \in done => Reached(m, x)
  BY <1>1, <1>3 DEF Reached
<1> QED BY <1>4, <1>5 DEF x

\* And what the step that failed after it left.
LEMMA DamageTouches ==
  ASSUME NEW r \in Router, NEW m \in Revision, NEW retire \in SUBSET Id,
         NEW removals \in SUBSET Id, NEW s \in Steps,
         NEW x, Touches(r, m, x), NEW d \in Damage(x, m, retire, removals, s)
  PROVE  Touches(r, m, d)
<1>1. 0 \in Id /\ Retired(m) \in SUBSET Id /\ m.id \in Id /\ m.core \in BOOLEAN /\ m.kernel \in BOOLEAN
  BY RouterAssumption DEF Id, Revision, Retired
<1>2. x \in Router
  BY DEF Touches
<1>3. CASE s = "native_prepare"
  <2>1. d \in {x, [x EXCEPT !.native = @ \cup {m.id}]}
    BY <1>3 DEF Damage
  <2>2. d \in Router /\ d.core = x.core /\ d.file = x.file /\ d.desired = x.desired /\ d.rules = x.rules
    BY <2>1, <1>1, <1>2 DEF Router
  <2> QED BY <2>2 DEF Touches
<1>4. CASE s = "core"
  <2>1. d \in CoreDamage(x, m)
    BY <1>4 DEF Damage
  <2>2. CASE m.core
    <3>1. \/ d = x
          \/ d = [x EXCEPT !.file = m.id]
          \/ d = [x EXCEPT !.file = m.id, !.core = 0, !.desired = TRUE]
      BY <2>1, <2>2 DEF CoreDamage
    <3>2. d \in Router /\ d.core \in {x.core, 0} /\ d.rules = x.rules
      BY <3>1, <1>1, <1>2 DEF Router
    <3>3. \/ d = x
          \/ d.file = m.id
      BY <3>1, <1>2 DEF Router
    <3> QED BY <2>2, <3>2, <3>3 DEF Touches
  <2>3. CASE ~m.core
    <3>1. \/ d = x
          \/ d = [x EXCEPT !.desired = FALSE]
          \/ d = [x EXCEPT !.desired = FALSE, !.core = 0]
      BY <2>1, <2>3 DEF CoreDamage
    <3>2. d \in Router /\ d.core \in {x.core, 0} /\ d.file = x.file /\ d.rules = x.rules
      BY <3>1, <1>1, <1>2 DEF Router
    <3>3. d.desired => x.desired
      BY <3>1, <1>2 DEF Router
    <3> QED BY <2>3, <3>2, <3>3 DEF Touches
  <2> QED BY <2>2, <2>3
<1>5. CASE s = "kernel"
  <2>1. d \in KernelDamage(x, m, retire)
    BY <1>5 DEF Damage
  <2>2. CASE d = x
    BY <2>2
  <2>3. CASE d # x
    <3>1. PICK gone \in SUBSET retire, new \in SUBSET Retired(m) : d = HalfReplaced(x, m, gone, new)
      BY <2>1, <2>3 DEF KernelDamage
    <3>2. d \in Router
      BY <3>1, <1>1, <1>2 DEF Router, HalfReplaced
    <3>3. d.core = x.core /\ d.file = x.file /\ d.desired = x.desired
          /\ d.rules \subseteq x.rules \cup Retired(m)
      BY <3>1, <1>2 DEF Router, HalfReplaced
    <3> QED BY <3>2, <3>3 DEF Touches
  <2> QED BY <2>2, <2>3
<1>6. CASE s = "native_commit"
  <2>1. PICK gone \in SUBSET removals : d = [x EXCEPT !.native = @ \ gone]
    BY <1>6 DEF Damage
  <2>2. d \in Router /\ d.core = x.core /\ d.file = x.file /\ d.desired = x.desired /\ d.rules = x.rules
    BY <2>1, <1>2 DEF Router
  <2> QED BY <2>2 DEF Touches
<1>7. CASE s = "postcheck"
  BY <1>7 DEF Damage
<1> QED BY <1>3, <1>4, <1>5, <1>6, <1>7 DEF Steps

\* executeMaterialization: every outcome of a run.
LEMMA ExecuteTouches ==
  ASSUME NEW r \in Router, NEW m \in Revision, NEW retire \in SUBSET Id,
         NEW removals \in SUBSET Id, NEW o \in Execute(r, m, retire, removals)
  PROVE  /\ Touches(r, m, o.r)
         /\ o.ok \in BOOLEAN /\ o.mutated \in BOOLEAN /\ o.plane \in KernelPlane
         /\ o.ok => Reached(m, o.r)
         /\ ~o.mutated => o.r = r
<1> DEFINE prog == Program(m)
           upto(k) == {prog[i] : i \in 1 .. k}
           full == Len(prog)
           good(k, gone) == Installed(r, m, gone, removals, upto(k))
           failing(k, gone) ==
             {[r |-> d, ok |-> FALSE, mutated |-> TRUE,
               plane |-> KernelPlaneAfter(upto(k), prog[k + 1])] :
                d \in Damage(good(k, gone), m, retire, removals, prog[k + 1])}
<1>1. \/ \E gone \in MayRetire(m, retire) :
           o = [r |-> good(full, gone), ok |-> TRUE, mutated |-> TRUE, plane |-> "committed"]
      \/ o = [r |-> r, ok |-> FALSE, mutated |-> FALSE, plane |-> KernelPlaneAfter({}, prog[1])]
      \/ \E gone \in MayRetire(m, retire) : \E k \in 0 .. full - 1 : o \in failing(k, gone)
  <2>1. o \in {[r |-> good(full, gone), ok |-> TRUE, mutated |-> TRUE, plane |-> "committed"] :
                  gone \in MayRetire(m, retire)}
               \cup {[r |-> r, ok |-> FALSE, mutated |-> FALSE, plane |-> KernelPlaneAfter({}, prog[1])]}
               \cup UNION {UNION {failing(k, gone) : k \in 0 .. full - 1} : gone \in MayRetire(m, retire)}
    BY Zenon DEF Execute
  <2> HIDE DEF prog, upto, full, good, failing
  <2> QED BY <2>1
<1>2. MayRetire(m, retire) \subseteq SUBSET Id
  BY DEF MayRetire
<1>3. prog \in Seq(Steps) /\ full \in Nat /\ full >= 1 /\ "core" \in upto(full)
  <2>1. prog \in Seq(Steps) /\ full >= 1 /\ Has(prog, "core")
    <3>1. {"core", "kernel", "postcheck", "native_prepare", "native_commit"} \subseteq Steps
      BY DEF Steps
    <3> QED BY <3>1, ProgramSteps
  <2>2. full \in Nat
    BY <2>1
  <2> QED BY <2>1, <2>2 DEF Has
<1>4. \A done, s : KernelPlaneAfter(done, s) \in KernelPlane
  BY DEF KernelPlaneAfter, KernelPlane
<1>5. \A k, gone : gone \in SUBSET Id =>
        Touches(r, m, good(k, gone)) /\ ("core" \in upto(k) => Reached(m, good(k, gone)))
  BY InstalledTouches
<1>6. \A k \in 0 .. full - 1 : prog[k + 1] \in Steps
  BY <1>3
<1>7. Touches(r, m, r)
  BY DEF Touches
<1> HIDE DEF prog, upto, full, good
<1>8. CASE \E gone \in MayRetire(m, retire) :
             o = [r |-> good(full, gone), ok |-> TRUE, mutated |-> TRUE, plane |-> "committed"]
  <2>1. PICK gone \in MayRetire(m, retire) :
          o = [r |-> good(full, gone), ok |-> TRUE, mutated |-> TRUE, plane |-> "committed"]
    BY <1>8
  <2>2. o.r = good(full, gone) /\ o.ok = TRUE /\ o.mutated = TRUE /\ o.plane = "committed"
    BY <2>1
  <2> QED BY <2>2, <1>2, <1>3, <1>5 DEF KernelPlane
<1>9. CASE o = [r |-> r, ok |-> FALSE, mutated |-> FALSE, plane |-> KernelPlaneAfter({}, prog[1])]
  <2>1. o.r = r /\ o.ok = FALSE /\ o.mutated = FALSE /\ o.plane = KernelPlaneAfter({}, prog[1])
    BY <1>9
  <2> QED BY <2>1, <1>4, <1>7
<1>10. CASE \E gone \in MayRetire(m, retire) : \E k \in 0 .. full - 1 : o \in failing(k, gone)
  <2>1. PICK k \in 0 .. full - 1, gone \in MayRetire(m, retire) : o \in failing(k, gone)
    BY <1>10
  <2>2. PICK d \in Damage(good(k, gone), m, retire, removals, prog[k + 1]) :
          o = [r |-> d, ok |-> FALSE, mutated |-> TRUE, plane |-> KernelPlaneAfter(upto(k), prog[k + 1])]
    BY <2>1
  <2>3. o.r = d /\ o.ok = FALSE /\ o.mutated = TRUE /\ o.plane = KernelPlaneAfter(upto(k), prog[k + 1])
    BY <2>2
  <2>4. Touches(r, m, d)
    BY <1>2, <1>5, <1>6, DamageTouches
  <2> QED BY <2>3, <2>4, <1>4
<1> QED BY <1>1, <1>8, <1>9, <1>10

\* A revision's rules, and the values every run takes.
LEMMA Basics ==
  /\ 0 \in Id /\ Nil \in Revision /\ Retired(Nil) = {}
  /\ \A m \in Revision : Retired(m) \in SUBSET Id /\ {m.id} \in SUBSET Id
  /\ {} \in SUBSET Id
BY RouterAssumption DEF Id, Nil, Revision, Retired

\* What a rollback reports.
Outcome == [r : Router, plane : KernelPlane, err : {"none", "leftover", "failed"}]

\* teardownMaterialization: the core is not wanted any more, and stopped when
\* it reports no error.
LEMMA TeardownTouches ==
  ASSUME NEW r \in Router, NEW m \in Revision, NEW b \in TeardownMaterialization(r, m)
  PROVE  /\ Touches(r, Nil, b.r)
         /\ b \in Outcome
         /\ b.err # "failed" => Reached(Nil, b.r)
<1> DEFINE Went == [stopped : BOOLEAN, aborted : {TRUE, ~m.native},
                    torn : IF m.kernel THEN {"all", "half", "not"} ELSE {"all"}]
<1>1. PICK went \in Went : b = TornDown(r, m, went)
  BY Zenon DEF TeardownMaterialization
<1> DEFINE x == b.r
<1>2. b.plane \in KernelPlane /\ b.err \in {"none", "leftover", "failed"}
      /\ (b.err # "failed" => went.stopped)
  BY <1>1 DEF TornDown, KernelPlane
<1>3. x \in Router
  <2> DEFINE c == IF went.stopped THEN 0 ELSE r.core
             p == IF ~m.kernel \/ went.torn = "not" THEN r.plane ELSE IF went.torn = "half" THEN Broken ELSE 0
             l == r.lost /\ (~m.kernel \/ went.torn = "not")
             u == IF went.torn = "all" THEN r.rules \ Retired(m) ELSE r.rules
             n == IF went.aborted /\ m.native THEN r.native \ {m.id} ELSE r.native
  <2>1. x = [r EXCEPT !.core = c, !.desired = FALSE, !.plane = p, !.lost = l, !.rules = u, !.native = n]
    BY <1>1 DEF TornDown
  <2>2. /\ r.native \in SUBSET Id /\ r.core \in Id
        /\ r.plane \in Id \cup {Broken} /\ r.rules \in SUBSET Id
    BY DEF Router
  <2>3. n \in SUBSET Id /\ u \in SUBSET Id
    BY <2>2
  <2>4. c \in Id /\ p \in Id \cup {Broken}
    BY <2>2, Basics
  <2>5. l \in BOOLEAN
    BY Zenon
  <2> HIDE DEF n, c, p, l, u, x
  <2> QED BY <2>1, <2>3, <2>4, <2>5 DEF Router
<1>4. /\ x.core = IF went.stopped THEN 0 ELSE r.core
      /\ x.file = r.file /\ x.desired = FALSE /\ x.rules \subseteq r.rules
  BY <1>1 DEF TornDown, Router
<1> HIDE DEF x
<1>5. Touches(r, Nil, x)
  BY <1>3, <1>4 DEF Touches, Nil
<1>6. went.stopped => Reached(Nil, x)
  BY <1>4 DEF Reached, Nil
<1>7. b \in [r : {x}, plane : {b.plane}, err : {b.err}]
  BY <1>1 DEF TornDown, x
<1>8. b \in Outcome
  BY <1>2, <1>3, <1>7 DEF Outcome
<1> QED BY <1>2, <1>5, <1>6, <1>8 DEF x

\* rollbackTo: every outcome of a rollback to base.
LEMMA RollbackTouches ==
  ASSUME NEW r \in Router, NEW base \in Revision, NEW failed \in Revision,
         NEW b \in RollbackTo(r, base, failed)
  PROVE  /\ Touches(r, base, b.r)
         /\ b \in Outcome
         /\ b.err # "failed" => Reached(base, b.r)
<1>1. CASE base = Nil
  BY <1>1, TeardownTouches DEF RollbackTo
<1>2. CASE base # Nil
  <2>1. PICK p \in RollbackMaterialization(r, base, failed) :
          b \in {[r |-> o.r, plane |-> o.plane,
                  err |-> IF ~o.ok THEN "failed" ELSE IF p.left THEN "leftover" ELSE "none"] :
                    o \in Execute(p.r, base, Retired(failed), p.removals)}
    BY <1>2, Zenon DEF RollbackTo
  <2>2. PICK o \in Execute(p.r, base, Retired(failed), p.removals) :
          b = [r |-> o.r, plane |-> o.plane,
               err |-> IF ~o.ok THEN "failed" ELSE IF p.left THEN "leftover" ELSE "none"]
    BY <2>1
  <2>3. /\ p.r \in {r, [r EXCEPT !.native = @ \ {failed.id}]}
        /\ p.removals \in {{}, {failed.id}}
    <3>1. \/ p = [r |-> [r EXCEPT !.native = @ \ {failed.id}], removals |-> {}, left |-> FALSE]
          \/ p = [r |-> r, removals |-> {}, left |-> TRUE]
          \/ p = [r |-> r, removals |-> {}, left |-> FALSE]
          \/ p = [r |-> r, removals |-> {failed.id}, left |-> FALSE]
      BY Zenon DEF RollbackMaterialization
    <3> QED BY <3>1
  <2>4. /\ p.r \in Router
        /\ p.r.core = r.core /\ p.r.file = r.file /\ p.r.desired = r.desired /\ p.r.rules = r.rules
    BY <2>3 DEF Router
  <2>5. p.removals \in SUBSET Id /\ Retired(failed) \in SUBSET Id
    BY <2>3, Basics
  <2>6. /\ Touches(p.r, base, o.r)
        /\ o.ok \in BOOLEAN /\ o.plane \in KernelPlane
        /\ o.ok => Reached(base, o.r)
    BY <2>4, <2>5, ExecuteTouches
  <2>7. b.r = o.r /\ b.plane = o.plane /\ b.err \in {"none", "leftover", "failed"}
        /\ (b.err # "failed" => o.ok)
    BY <2>2
  <2>8. Touches(r, base, o.r)
    BY <2>4, <2>6 DEF Touches
  <2>9. o.r \in Router
    BY <2>6 DEF Touches
  <2>10. b \in Outcome
    BY <2>2, <2>6, <2>9 DEF Outcome
  <2> QED BY <2>6, <2>7, <2>8, <2>10
<1> QED BY <1>1, <1>2

\* persist keeps everything but the startup configuration.
LEMMA SavedKeeps ==
  ASSUME NEW r \in Router
  PROVE  /\ Saved(r) \in Router
         /\ Saved(r).core = r.core /\ Saved(r).file = r.file /\ Saved(r).desired = r.desired
         /\ Saved(r).rules = r.rules /\ Saved(r).native = r.native
         /\ Saved(r).plane = r.plane /\ Saved(r).lost = r.lost
BY DEF Saved, Router

\* removeRouting: the core is not wanted any more; without an error it is
\* stopped and every named revision's rules are gone.
LEMMA RemoveTouches ==
  ASSUME NEW r \in Router, NEW revs \in SUBSET Revision, NEW o \in RemoveRouting(r, revs)
  PROVE  /\ Touches(r, Nil, o.r) /\ ~o.r.desired
         /\ o.ok \in BOOLEAN
         /\ o.ok => o.r.core = 0 /\ \A v \in revs : v.kernel => v.id \notin o.r.rules
<1> DEFINE planes == UNION {Retired(v) : v \in revs}
<1> DEFINE Went == [stopped : BOOLEAN, gone : SUBSET planes, lowered : BOOLEAN,
                    half : {FALSE, planes # {}}, saved : {FALSE, \E v \in revs : v.native}]
<1>1. PICK went \in Went :
        o = [r |-> IF went.saved THEN Saved(Removed(r, planes, went)) ELSE Removed(r, planes, went),
             ok |-> went.stopped /\ went.gone = planes /\ went.lowered]
  BY Zenon DEF RemoveRouting
<1> DEFINE x == Removed(r, planes, went)
<1>2. planes \in SUBSET Id
  BY Basics
<1>3. \A v \in revs : v.kernel => v.id \in planes
  BY DEF Retired
<1> HIDE DEF planes
<1>4. x \in Router
  <2> DEFINE c == IF went.stopped THEN 0 ELSE r.core
             p == IF went.half /\ went.gone # planes THEN Broken ELSE IF went.gone = {} THEN r.plane ELSE 0
             l == r.lost /\ went.gone = {} /\ ~went.half
             u == r.rules \ went.gone
  <2>1. x = [r EXCEPT !.core = c, !.desired = FALSE, !.plane = p, !.lost = l, !.rules = u]
    BY DEF Removed
  <2>2. /\ r.core \in Id /\ r.plane \in Id \cup {Broken} /\ r.rules \in SUBSET Id
    BY DEF Router
  <2>3. u \in SUBSET Id
    BY <2>2
  <2>4. c \in Id /\ p \in Id \cup {Broken}
    BY <2>2, Basics
  <2>5. l \in BOOLEAN
    BY Zenon
  <2> HIDE DEF c, p, l, u, x
  <2> QED BY <2>1, <2>3, <2>4, <2>5 DEF Router
<1>5. /\ x.core = IF went.stopped THEN 0 ELSE r.core
      /\ x.file = r.file /\ x.desired = FALSE /\ x.rules = r.rules \ went.gone
  BY DEF Removed, Router
<1> HIDE DEF x
<1>6. /\ o.r \in {x, Saved(x)}
      /\ o.ok = (went.stopped /\ went.gone = planes /\ went.lowered)
  BY <1>1 DEF x
<1>7. /\ o.r \in Router /\ o.r.core = x.core /\ o.r.file = x.file
      /\ o.r.desired = x.desired /\ o.r.rules = x.rules
  BY <1>4, <1>6, SavedKeeps
<1>8. Touches(r, Nil, o.r) /\ ~o.r.desired
  BY <1>5, <1>7 DEF Touches, Nil
<1>9. o.ok \in BOOLEAN
  BY <1>6, Zenon
<1>10. o.ok => o.r.core = 0 /\ \A v \in revs : v.kernel => v.id \notin o.r.rules
  BY <1>3, <1>5, <1>6, <1>7
<1> QED BY <1>8, <1>9, <1>10

\* The daemon's death stops the core.
LEMMA DownTouches ==
  ASSUME NEW r \in Router
  PROVE  /\ AfterRestart(r) \in Router /\ AfterReboot(r) \in Router
         /\ AfterRestart(r).core = 0 /\ ~AfterRestart(r).desired
         /\ AfterReboot(r).core = 0 /\ ~AfterReboot(r).desired
         /\ AfterRestart(r).rules \subseteq r.rules /\ AfterReboot(r).rules \subseteq r.rules
<1>1. /\ AfterRestart(r) \in Router
      /\ AfterRestart(r).core = 0 /\ ~AfterRestart(r).desired /\ AfterRestart(r).rules = r.rules
  BY Basics DEF AfterRestart, Router
<1> DEFINE x == AfterRestart(r)
<1> HIDE DEF x
<1>2. AfterReboot(r) = [x EXCEPT !.plane = 0, !.lost = FALSE, !.rules = {},
                                 !.native = IF Keenetic THEN r.saved ELSE @]
  BY DEF AfterReboot, x
<1>3. x \in Router /\ x.core = 0 /\ ~x.desired
  BY <1>1 DEF x
<1>4. r.saved \in SUBSET Id
  BY DEF Router
<1>5. AfterReboot(r) \in Router
  BY <1>2, <1>3, <1>4, Basics DEF Router
<1>6. AfterReboot(r).core = x.core /\ AfterReboot(r).desired = x.desired /\ AfterReboot(r).rules = {}
  BY <1>2, <1>3 DEF Router
<1> QED BY <1>1, <1>3, <1>5, <1>6

-----------------------------------------------------------------------------
(* The record                                                              *)

\* Every write of applyState keeps the record's shape.
LEMMA RecordTypes ==
  ASSUME rec \in Record
  PROVE  /\ AppliedBaseline \in Revision /\ RollbackTarget \in Revision
         /\ \A rev \in Revision : \A save \in BOOLEAN : RecordApplied(save, rev) \in Record
         /\ RecordCommit \in Record /\ RecordRollback \in Record
         /\ \A live \in Revision, plane \in KernelPlane : NoteRollbackFailed(live, plane) \in Record
         /\ \A r \in Record, rev \in Revision, plane \in KernelPlane : NoteLiveOutstanding(r, rev, plane) \in Record
         /\ \A err \in BOOLEAN : SwitchedOff(err) \in Record
<1>1. /\ rec.committed \in Revision /\ rec.live \in Revision /\ rec.off.leftover \in Revision
      /\ rec.mark.plane \in KernelPlane /\ rec.sameBoot \in BOOLEAN
  BY DEF Record
<1>2. NoMark \in [id : Id, plane : KernelPlane]
  BY Basics DEF NoMark, KernelPlane
<1>3. AppliedBaseline \in Revision /\ RollbackTarget \in Revision
  BY <1>1 DEF AppliedBaseline, RollbackTarget
<1>4. ASSUME NEW rev \in Revision, NEW save \in BOOLEAN
      PROVE  RecordApplied(save, rev) \in Record
  <2>1. CASE save
    BY <2>1, <1>2, Basics DEF RecordApplied, Record
  <2>2. CASE ~save
    BY <2>2, <1>2, Basics DEF RecordApplied, Record
  <2> QED BY <2>1, <2>2
<1>5. RecordCommit \in Record /\ RecordRollback \in Record
  BY <1>1, <1>2, Basics DEF RecordCommit, RecordRollback, Record
<1>6. ASSUME NEW live \in Revision, NEW plane \in KernelPlane
      PROVE  NoteRollbackFailed(live, plane) \in Record
  <2>1. live.id \in Id
    BY DEF Revision
  <2>2. (IF RollbackOutstanding /\ plane = "tested" THEN rec.mark.plane ELSE plane) \in KernelPlane
    BY <1>1
  <2> QED BY <2>1, <2>2 DEF NoteRollbackFailed, Record
<1>7. ASSUME NEW r \in Record, NEW rev \in Revision, NEW plane \in KernelPlane
      PROVE  NoteLiveOutstanding(r, rev, plane) \in Record
  <2>1. rev.id \in Id
    BY DEF Revision
  <2> QED BY <2>1 DEF NoteLiveOutstanding, Record
<1>8. ASSUME NEW err \in BOOLEAN PROVE SwitchedOff(err) \in Record
  BY <1>1, <1>2, Basics DEF SwitchedOff, Record
<1> QED BY <1>3, <1>4, <1>5, <1>6, <1>7, <1>8

\* The rollback after a failed Apply, one run or two.
LEMMA RecoveryTouches ==
  ASSUME rec \in Record, NEW m \in Revision, NEW o, o.r \in Router, NEW b \in Recovery(m, o)
  PROVE  /\ b \in Outcome
         /\ b.r.rules \subseteq o.r.rules \cup Retired(RollbackTarget)
         /\ b.err # "failed" => Reached(RollbackTarget, b.r)
<1> DEFINE t == RollbackTarget
<1>1. t \in Revision /\ rec.live \in Revision
  BY RecordTypes DEF Record
<1>2. ASSUME NEW x \in RollbackTo(o.r, t, m)
      PROVE  /\ x \in Outcome
             /\ x.r.rules \subseteq o.r.rules \cup Retired(t)
             /\ x.err # "failed" => Reached(t, x.r)
  BY <1>1, RollbackTouches DEF Touches
<1>3. ASSUME NEW x \in RollbackTo(o.r, t, m), NEW y \in RollbackTo(x.r, t, rec.live)
      PROVE  /\ y \in Outcome
             /\ y.r.rules \subseteq o.r.rules \cup Retired(t)
             /\ y.err # "failed" => Reached(t, y.r)
  <2>1. x.r \in Router /\ x.r.rules \subseteq o.r.rules \cup Retired(t)
    BY <1>2 DEF Outcome
  <2> QED BY <2>1, <1>1, RollbackTouches DEF Touches
<1>4. CASE ~RollbackOutstanding
  BY <1>2, <1>4 DEF Recovery
<1>5. CASE RollbackOutstanding
  <2>1. CASE b \in RollbackTo(o.r, t, m)
    BY <1>2, <2>1
  <2>2. CASE b \notin RollbackTo(o.r, t, m)
    <3>1. PICK x \in RollbackTo(o.r, t, m) :
            b \in {[y EXCEPT !.plane = IF @ = "tested" THEN "committed" ELSE @] :
                     y \in RollbackTo(x.r, t, rec.live)}
      BY <1>5, <2>2, Zenon DEF Recovery
    <3>2. PICK y \in RollbackTo(x.r, t, rec.live) :
            b = [y EXCEPT !.plane = IF @ = "tested" THEN "committed" ELSE @]
      BY <3>1
    <3>3. y \in Outcome
      BY <1>3
    <3>4. b \in Outcome /\ b.r = y.r /\ b.err = y.err
      BY <3>2, <3>3 DEF Outcome, KernelPlane
    <3> QED BY <3>4, <1>3
  <2> QED BY <2>1, <2>2
<1> QED BY <1>4, <1>5

\* What each write of the record leaves in it.
LEMMA RecordFields ==
  ASSUME rec \in Record
  PROVE  /\ \A rev, save : /\ RecordApplied(save, rev).committed = IF save THEN rev ELSE rec.committed
                           /\ RecordApplied(save, rev).live = IF save THEN Nil ELSE rev
                           /\ RecordApplied(save, rev).mark = NoMark
                           /\ RecordApplied(save, rev).off = rec.off
         /\ /\ RecordCommit.committed = rec.live /\ RecordCommit.live = Nil
            /\ RecordCommit.mark = NoMark /\ RecordCommit.off = rec.off
         /\ /\ RecordRollback.committed = rec.committed /\ RecordRollback.live = Nil
            /\ RecordRollback.mark = NoMark /\ RecordRollback.off = rec.off
         /\ \A live, plane : /\ NoteRollbackFailed(live, plane).committed = rec.committed
                             /\ NoteRollbackFailed(live, plane).live = rec.live
                             /\ NoteRollbackFailed(live, plane).off = rec.off
                             /\ rec.live.id = live.id => NoteRollbackFailed(live, plane).mark.id = live.id
         /\ \A r \in Record : \A rev, plane :
              /\ NoteLiveOutstanding(r, rev, plane).committed = r.committed
              /\ NoteLiveOutstanding(r, rev, plane).live = rev
              /\ NoteLiveOutstanding(r, rev, plane).off = r.off
              /\ NoteLiveOutstanding(r, rev, plane).mark.id = rev.id
         /\ \A err : /\ SwitchedOff(err).committed = rec.committed
                     /\ SwitchedOff(err).live = Nil
                     /\ SwitchedOff(err).mark = NoMark
                     /\ SwitchedOff(err).off.on = TRUE
                     /\ SwitchedOff(err).off.err = err
                     /\ SwitchedOff(err).off.leftover = IF rec.live # Nil THEN rec.live ELSE rec.off.leftover
<1>1. \A rev, save : /\ RecordApplied(save, rev).committed = IF save THEN rev ELSE rec.committed
                     /\ RecordApplied(save, rev).live = IF save THEN Nil ELSE rev
                     /\ RecordApplied(save, rev).mark = NoMark
                     /\ RecordApplied(save, rev).off = rec.off
  BY DEF RecordApplied, Record
<1>2. /\ RecordCommit.committed = rec.live /\ RecordCommit.live = Nil
      /\ RecordCommit.mark = NoMark /\ RecordCommit.off = rec.off
  BY DEF RecordCommit, Record
<1>3. /\ RecordRollback.committed = rec.committed /\ RecordRollback.live = Nil
      /\ RecordRollback.mark = NoMark /\ RecordRollback.off = rec.off
  BY DEF RecordRollback, Record
<1>4. \A live, plane : /\ NoteRollbackFailed(live, plane).committed = rec.committed
                       /\ NoteRollbackFailed(live, plane).live = rec.live
                       /\ NoteRollbackFailed(live, plane).off = rec.off
                       /\ rec.live.id = live.id => NoteRollbackFailed(live, plane).mark.id = live.id
  BY DEF NoteRollbackFailed, Record
<1>5. \A r \in Record : \A rev, plane :
        /\ NoteLiveOutstanding(r, rev, plane).committed = r.committed
        /\ NoteLiveOutstanding(r, rev, plane).live = rev
        /\ NoteLiveOutstanding(r, rev, plane).off = r.off
        /\ NoteLiveOutstanding(r, rev, plane).mark.id = rev.id
  BY DEF NoteLiveOutstanding, Record
<1>6. \A err : /\ SwitchedOff(err).committed = rec.committed
               /\ SwitchedOff(err).live = Nil
               /\ SwitchedOff(err).mark = NoMark
               /\ SwitchedOff(err).off.on = TRUE
               /\ SwitchedOff(err).off.err = err
               /\ SwitchedOff(err).off.leftover = IF rec.live # Nil THEN rec.live ELSE rec.off.leftover
  BY DEF SwitchedOff, Record
<1> QED BY <1>1, <1>2, <1>3, <1>4, <1>5, <1>6

\* applyFailed: the record always ends with a rollback outstanding.
Marked(m, x) ==
  /\ x \in Record /\ x.committed = rec.committed /\ x.off = rec.off
  /\ x.live \in {rec.live, m} /\ x.live # Nil /\ x.mark.id = x.live.id

LEMMA MarkAfterFields ==
  ASSUME rec \in Record, NEW m \in Revision, m.id # 0, NEW o, o.plane \in KernelPlane,
         NEW b \in Outcome
  PROVE  Marked(m, MarkAfter(m, o, b))
<1> DEFINE x == MarkAfter(m, o, b)
<1>1. b.plane \in KernelPlane /\ rec.live \in Revision /\ m # Nil
  BY DEF Outcome, Record, Nil
<1>2. ASSUME rec.live # Nil, NEW p \in KernelPlane
      PROVE  Marked(m, NoteRollbackFailed(rec.live, p))
  <2> DEFINE y == NoteRollbackFailed(rec.live, p)
  <2>1. y \in Record
    BY <1>1, RecordTypes, Zenon
  <2>2. /\ y.committed = rec.committed /\ y.live = rec.live /\ y.off = rec.off
        /\ y.mark.id = rec.live.id
    BY RecordFields
  <2> HIDE DEF y
  <2>3. Marked(m, y)
    BY <1>2, <2>1, <2>2 DEF Marked
  <2> QED BY <2>3 DEF y
<1>3. CASE rec.live # Nil
  <2>1. PICK p \in KernelPlane : x = NoteRollbackFailed(rec.live, p)
    <3>1. CASE RollbackOutstanding
      BY <1>1, <3>1 DEF MarkAfter, KernelPlane
    <3>2. CASE ~RollbackOutstanding
      BY <1>1, <1>3, <3>2 DEF MarkAfter, KernelPlane
    <3> QED BY <3>1, <3>2
  <2> HIDE DEF x
  <2> QED BY <2>1, <1>2, <1>3 DEF x
<1>4. CASE rec.live = Nil
  <2>1. PICK p \in KernelPlane : x = NoteLiveOutstanding(rec, m, p)
    <3> DEFINE p == IF b.plane # "tested" THEN b.plane
                    ELSE CASE o.plane = "tested"    -> "committed"
                           [] o.plane = "unknown"   -> "unknown"
                           [] o.plane = "committed" -> "tested"
    <3>1. x = NoteLiveOutstanding(rec, m, p)
      BY <1>4, Zenon DEF MarkAfter, RollbackOutstanding
    <3>2. p \in KernelPlane
      BY <1>1 DEF KernelPlane
    <3> HIDE DEF p
    <3> QED BY <3>1, <3>2
  <2>2. Marked(m, NoteLiveOutstanding(rec, m, p))
    <3> DEFINE y == NoteLiveOutstanding(rec, m, p)
    <3>1. y \in Record
      BY RecordTypes, Zenon
    <3>2. y.committed = rec.committed /\ y.live = m /\ y.off = rec.off /\ y.mark.id = m.id
      BY RecordFields
    <3> HIDE DEF y
    <3>3. Marked(m, y)
      BY <1>1, <3>1, <3>2 DEF Marked
    <3> QED BY <3>3 DEF y
  <2> QED BY <2>1, <2>2
<1> QED BY <1>3, <1>4

-----------------------------------------------------------------------------
(* Types, ids and windows                                                  *)

RecordInv == TypeOK /\ IdInv /\ ClosureInv

\* Every change of epoch leaves the same closures, none of them current.
LEMMA StaleClosures ==
  ASSUME flight \subseteq [rev : Revision, current : BOOLEAN]
  PROVE  /\ Stale \subseteq [rev : Revision, current : BOOLEAN]
         /\ \A g \in Stale : ~g.current /\ \E f \in flight : g.rev = f.rev
         /\ \A f \in flight : \E g \in Stale : g.rev = f.rev
<1>1. ASSUME NEW f \in flight
      PROVE  /\ [f EXCEPT !.current = FALSE] \in [rev : Revision, current : BOOLEAN]
             /\ ~[f EXCEPT !.current = FALSE].current
             /\ [f EXCEPT !.current = FALSE].rev = f.rev
  OBVIOUS
<1> QED BY <1>1 DEF Stale

\* The revision an Apply makes is new, and where the daemon holds only
\* revisions it held before or that one, ids still name them.
Fresh(m) ==
  \/ m = Nil /\ seq' = seq
  \/ m.id = seq + 1 /\ seq' = seq + 1

LEMMA IdsKept ==
  ASSUME TypeOK, IdInv, NEW m \in Revision, Fresh(m), NEW v \in Held,
         rec'.committed \in Held \cup {m}, rec'.live \in Held \cup {m},
         rec'.off.leftover \in Held \cup {m}, boot'.rev \in Held \cup {m},
         win'.rev \in Held \cup {m},
         \A g \in flight' : g.rev \in Held \cup {m},
         router'.rules \subseteq router.rules \cup Retired(m) \cup Retired(v)
  PROVE  IdInv'
<1>1. Nil \in Held
  BY DEF Held
<1>2. Held' \subseteq Held \cup {m}
  BY <1>1 DEF Held
<1>3. /\ \A x \in Held : x \in Revision /\ x.id <= seq /\ x.id \in Nat
      /\ \A x, y \in Held : x.id = y.id => x = y
      /\ \A x \in Held : x.id \in router.rules => x.kernel
      /\ router.rules \subseteq 1 .. seq
      /\ seq \in Nat /\ seq' \in Nat
  BY DEF IdInv, TypeOK, Revision, Id, Fresh
<1> HIDE DEF Held
<1>4. CASE m = Nil /\ seq' = seq
  <2>1. Held' \subseteq Held /\ router'.rules \subseteq router.rules \cup Retired(v)
    BY <1>1, <1>2, <1>4, Basics
  <2>2. router'.rules \subseteq 1 .. seq'
    <3>1. v.kernel => v.id \in 1 .. seq
      <4>1. v.kernel => v # Nil
        BY DEF Nil
      <4>2. v.id = 0 => v = Nil
        BY <1>1, <1>3 DEF Nil
      <4> QED BY <4>1, <4>2, <1>3
    <3> QED BY <2>1, <3>1, <1>3, <1>4 DEF Retired
  <2>3. \A x \in Held' : x.id \in router'.rules => x.kernel
    BY <2>1, <1>3 DEF Retired
  <2> QED BY <2>1, <2>2, <2>3, <1>3, <1>4 DEF IdInv
<1>5. CASE m.id = seq + 1 /\ seq' = seq + 1
  <2>1. \A x \in Held : x.id # m.id
    BY <1>3, <1>5
  <2>2. router'.rules \subseteq 1 .. seq'
    <3>1. v.kernel => v.id \in 1 .. seq
      <4>1. v.kernel => v # Nil
        BY DEF Nil
      <4>2. v.id = 0 => v = Nil
        BY <1>1, <1>3 DEF Nil
      <4> QED BY <4>1, <4>2, <1>3
    <3> QED BY <3>1, <1>3, <1>5 DEF Retired
  <2>3. \A x \in Held' : x.id \in router'.rules => x.kernel
    BY <2>1, <1>2, <1>3, <1>5 DEF Retired
  <2>4. \A x, y \in Held' : x.id = y.id => x = y
    BY <2>1, <1>2, <1>3
  <2>5. \A x \in Held' : x \in Revision /\ x.id <= seq'
    BY <1>2, <1>3, <1>5
  <2> QED BY <2>2, <2>3, <2>4, <2>5 DEF IdInv
<1> QED BY <1>4, <1>5 DEF Fresh

\* The types of what the actions read.
LEMMA Held1 ==
  ASSUME TypeOK
  PROVE  /\ Nil \in Held /\ rec.committed \in Held /\ rec.live \in Held
         /\ rec.off.leftover \in Held /\ boot.rev \in Held /\ win.rev \in Held
         /\ \A f \in flight : f.rev \in Held
         /\ AppliedBaseline \in Held /\ RollbackTarget \in Held
         /\ Held \subseteq Revision
<1>1. /\ rec.committed \in Revision /\ rec.live \in Revision /\ rec.off.leftover \in Revision
      /\ boot.rev \in Revision /\ win.rev \in Revision /\ \A f \in flight : f.rev \in Revision
  BY DEF TypeOK, Record
<1> QED BY <1>1, Basics DEF Held, AppliedBaseline, RollbackTarget

Grew(m, v) ==
  /\ router' \in Router
  /\ router'.rules \subseteq router.rules \cup Retired(m) \cup Retired(v)

\* A rollback of live, as the record sees it.
LEMMA LiveRolledBack ==
  ASSUME TypeOK, NEW live \in Revision, RollBackLive(live)
  PROVE  /\ Grew(Nil, rec.committed)
         /\ rec' \in Record /\ rec'.committed = rec.committed /\ rec'.off = rec.off
         /\ \/ rec'.live = Nil /\ Reached(rec.committed, router')
            \/ rec'.live = rec.live /\ (rec.live.id = live.id => rec'.mark.id = rec.live.id)
<1>1. PICK b \in RollbackTo(router, rec.committed, live) :
        /\ router' = b.r
        /\ rec' = IF b.err = "none" THEN RecordRollback ELSE NoteRollbackFailed(live, b.plane)
  BY DEF RollBackLive
<1>2. router \in Router /\ rec \in Record /\ rec.committed \in Revision
  BY DEF TypeOK, Record
<1>3. /\ Touches(router, rec.committed, b.r) /\ b \in Outcome
      /\ b.err # "failed" => Reached(rec.committed, b.r)
  BY <1>2, RollbackTouches
<1>4. Grew(Nil, rec.committed)
  BY <1>1, <1>3 DEF Grew, Touches
<1>5. CASE b.err = "none"
  <2>1. rec' = RecordRollback
    BY <1>1, <1>5
  <2>2. rec' \in Record
    BY <2>1, <1>2, RecordTypes
  <2>3. rec'.committed = rec.committed /\ rec'.off = rec.off /\ rec'.live = Nil
    BY <2>1, <1>2, RecordFields
  <2> QED BY <1>1, <1>3, <1>4, <1>5, <2>2, <2>3
<1>6. CASE b.err # "none"
  <2>1. rec' = NoteRollbackFailed(live, b.plane) /\ b.plane \in KernelPlane
    BY <1>1, <1>3, <1>6 DEF Outcome
  <2>2. rec' \in Record
    BY <2>1, <1>2, RecordTypes, Zenon
  <2>3. rec'.committed = rec.committed /\ rec'.off = rec.off /\ rec'.live = rec.live
        /\ (rec.live.id = live.id => rec'.mark.id = rec.live.id)
    BY <2>1, <1>2, RecordFields
  <2> QED BY <1>4, <2>2, <2>3
<1> QED BY <1>5, <1>6

\* The ways an Apply ends.
Succeeded(m) ==
  /\ seq' = seq + 1 /\ Grew(m, Nil) /\ Reached(m, router')
  /\ \E save \in BOOLEAN : /\ rec' = RecordApplied(save, m)
                           /\ IF save THEN Close("committed") ELSE Arm(m)

RolledBackAgain(m) ==
  /\ seq' = seq + 1 /\ Grew(m, RollbackTarget) /\ Reached(RollbackTarget, router')
  /\ IF RollbackOutstanding THEN rec' = RecordRollback ELSE rec' = rec
  /\ Close("rolled_back") \/ UNCHANGED <<win, flight>>

NotRolledBack(m) ==
  /\ seq' = seq + 1 /\ Grew(m, RollbackTarget)
  /\ Marked(m, rec')
  /\ UNCHANGED <<win, flight>>

LEMMA ApplyEnds ==
  ASSUME TypeOK, NEW sh \in Shapes, Apply(sh)
  PROVE  /\ Next1(sh) \in Revision /\ Next1(sh).id = seq + 1 /\ Next1(sh) # Nil
         /\ seq + 1 \in Id /\ ~rec.off.on
         /\ \/ Succeeded(Next1(sh))
            \/ UNCHANGED <<router, rec, win, flight, seq>>
            \/ RolledBackAgain(Next1(sh))
            \/ NotRolledBack(Next1(sh))
         /\ UNCHANGED <<keeping, boot, crashes, mishaps, scheduled>>
<1> DEFINE m == Next1(sh)
<1>1. m \in Revision /\ m.id = seq + 1 /\ seq + 1 \in Id /\ m # Nil
  <2>1. seq \in 0 .. MaxRev /\ seq < MaxRev /\ MaxRev \in Nat
    BY RouterAssumption DEF TypeOK, Id, Apply
  <2>2. sh.native \in BOOLEAN /\ sh.core \in BOOLEAN /\ sh.kernel \in BOOLEAN
    BY RouterAssumption
  <2> QED BY <2>1, <2>2 DEF Next1, Revision, Id, Nil
<1>2. /\ ~rec.off.on /\ UNCHANGED <<keeping, boot, crashes, mishaps, scheduled>>
  BY DEF Apply
<1>3. PICK o \in Forward(m) :
        \/ seq' = seq + 1 /\ \E save \in BOOLEAN : ApplySucceeds(m, o, save)
        \/ ApplyRefused(o)
        \/ /\ ~o.ok /\ o.mutated
           /\ seq' = seq + 1
           /\ \E b \in Recovery(m, o) : ApplyRolledBack(b) \/ ApplyNotRolledBack(m, o, b)
  BY Zenon DEF Apply
<1> HIDE DEF m
<1>4. router \in Router /\ rec \in Record
  BY DEF TypeOK
<1>5. /\ Touches(router, m, o.r) /\ o.plane \in KernelPlane
      /\ o.ok => Reached(m, o.r)
  <2>1. AppliedBaseline \in Revision /\ rec.committed \in Revision
    BY <1>4, RecordTypes DEF Record
  <2>2. Retired(AppliedBaseline) \in SUBSET Id /\ Removals \in SUBSET Id
    BY <2>1, Basics DEF Removals
  <2> QED BY <1>1, <1>4, <2>2, ExecuteTouches DEF Forward
<1>6. o.r \in Router /\ o.r.rules \subseteq router.rules \cup Retired(m)
  BY <1>5 DEF Touches
<1>7. CASE seq' = seq + 1 /\ \E save \in BOOLEAN : ApplySucceeds(m, o, save)
  <2>1. PICK save \in BOOLEAN : ApplySucceeds(m, o, save)
    BY <1>7
  <2>2. /\ o.ok /\ router' \in {o.r, Saved(o.r)} /\ rec' = RecordApplied(save, m)
        /\ IF save THEN Close("committed") ELSE Arm(m)
    BY <2>1 DEF ApplySucceeds
  <2>3. /\ router' \in Router /\ router'.rules = o.r.rules /\ router'.core = o.r.core
        /\ router'.file = o.r.file /\ router'.desired = o.r.desired
    BY <2>2, <1>6, SavedKeeps
  <2>4. Grew(m, Nil)
    BY <2>3, <1>6 DEF Grew
  <2>5. Reached(m, router')
    BY <2>2, <2>3, <1>5 DEF Reached
  <2> QED BY <1>1, <1>2, <1>7, <2>2, <2>4, <2>5 DEF Succeeded, m
<1>8. CASE ApplyRefused(o)
  BY <1>1, <1>2, <1>8 DEF ApplyRefused, m
<1>9. CASE /\ seq' = seq + 1
           /\ \E b \in Recovery(m, o) : ApplyRolledBack(b) \/ ApplyNotRolledBack(m, o, b)
  <2>1. PICK b \in Recovery(m, o) : ApplyRolledBack(b) \/ ApplyNotRolledBack(m, o, b)
    BY <1>9
  <2>2. /\ b \in Outcome
        /\ b.r.rules \subseteq o.r.rules \cup Retired(RollbackTarget)
        /\ b.err # "failed" => Reached(RollbackTarget, b.r)
    BY <1>1, <1>4, <1>6, RecoveryTouches
  <2>3. router' = b.r
    BY <2>1 DEF ApplyRolledBack, ApplyNotRolledBack
  <2>4. Grew(m, RollbackTarget)
    BY <2>2, <2>3, <1>6 DEF Grew, Outcome
  <2>5. CASE ApplyRolledBack(b)
    <3>1. Reached(RollbackTarget, router')
      BY <2>2, <2>3, <2>5 DEF ApplyRolledBack
    <3>2. /\ IF RollbackOutstanding THEN rec' = RecordRollback ELSE rec' = rec
          /\ Close("rolled_back") \/ UNCHANGED <<win, flight>>
      BY <2>5 DEF ApplyRolledBack
    <3> QED BY <1>1, <1>2, <1>9, <2>4, <3>1, <3>2 DEF RolledBackAgain, m
  <2>6. CASE ApplyNotRolledBack(m, o, b)
    <3>1. rec' = MarkAfter(m, o, b) /\ UNCHANGED <<win, flight>>
      BY <2>6 DEF ApplyNotRolledBack
    <3>2. m.id # 0
      BY <1>1 DEF TypeOK, Id
    <3>3. Marked(m, rec')
      BY <3>1, <3>2, <1>1, <1>4, <1>5, <2>2, MarkAfterFields
    <3> QED BY <1>1, <1>2, <1>9, <2>4, <3>1, <3>3 DEF NotRolledBack, m
  <2> QED BY <2>1, <2>5, <2>6
<1> QED BY <1>3, <1>7, <1>8, <1>9

\* Closing a window, whatever the phase; the closures stay, stale.
LEMMA Closing ==
  ASSUME TypeOK, NEW phase \in WindowPhase, Close(phase)
  PROVE  /\ win' \in [rev : Revision, current : BOOLEAN, phase : WindowPhase]
         /\ flight' \subseteq [rev : Revision, current : BOOLEAN]
         /\ win'.rev = win.rev /\ ~win'.current
         /\ \A g \in flight' : ~g.current /\ g.rev \in Held
         /\ ClosureInv'
<1>1. /\ win \in [rev : Revision, current : BOOLEAN, phase : WindowPhase]
      /\ flight \subseteq [rev : Revision, current : BOOLEAN]
  BY DEF TypeOK
<1>2. /\ win' = [win EXCEPT !.current = FALSE, !.phase = phase] /\ flight' = Stale
  BY DEF Close
<1>3. /\ win' \in [rev : Revision, current : BOOLEAN, phase : WindowPhase]
      /\ win'.rev = win.rev /\ ~win'.current
  BY <1>1, <1>2
<1>4. /\ flight' \subseteq [rev : Revision, current : BOOLEAN]
      /\ \A g \in flight' : ~g.current /\ \E f \in flight : g.rev = f.rev
  BY <1>1, <1>2, StaleClosures
<1>5. \A g \in flight' : g.rev \in Held
  BY <1>4, Held1
<1>6. ClosureInv'
  BY <1>3, <1>4 DEF ClosureInv
<1> QED BY <1>3, <1>4, <1>5, <1>6

\* The window and its closures are as they were.
LEMMA WindowKept ==
  ASSUME TypeOK, ClosureInv, UNCHANGED <<win, flight>>
  PROVE  /\ ClosureInv'
         /\ win'.rev \in Held /\ \A g \in flight' : g.rev \in Held
<1>1. ClosureInv'
  BY DEF ClosureInv
<1>2. win'.rev \in Held /\ \A g \in flight' : g.rev \in Held
  BY Held1
<1> QED BY <1>1, <1>2

\* Apply.
LEMMA ApplyRecordInv ==
  ASSUME RecordInv, NEW sh \in Shapes, Apply(sh)
  PROVE  RecordInv'
<1> DEFINE m == Next1(sh)
<1>1. TypeOK /\ IdInv /\ ClosureInv
  BY DEF RecordInv
<1>2. /\ m \in Revision /\ m.id = seq + 1 /\ m # Nil /\ seq + 1 \in Id
      /\ UNCHANGED <<keeping, boot, crashes, mishaps, scheduled>>
      /\ \/ Succeeded(m)
         \/ UNCHANGED <<router, rec, win, flight, seq>>
         \/ RolledBackAgain(m)
         \/ NotRolledBack(m)
  BY <1>1, ApplyEnds
<1> HIDE DEF m
<1>3. rec \in Record /\ seq \in Nat /\ rec.off.leftover \in Held /\ boot'.rev \in Held
      /\ rec.committed \in Held /\ rec.live \in Held /\ Nil \in Held /\ RollbackTarget \in Held
  BY <1>1, <1>2, Held1 DEF TypeOK, Id
<1>4. ASSUME router' \in Router, rec' \in Record, seq' = seq + 1,
             win' \in [rev : Revision, current : BOOLEAN, phase : WindowPhase],
             flight' \subseteq [rev : Revision, current : BOOLEAN]
      PROVE  TypeOK'
  BY <1>1, <1>2, <1>4 DEF TypeOK
<1>5. CASE Succeeded(m)
  <2>1. PICK save \in BOOLEAN : /\ rec' = RecordApplied(save, m)
                               /\ IF save THEN Close("committed") ELSE Arm(m)
    BY <1>5 DEF Succeeded
  <2>2. seq' = seq + 1 /\ Grew(m, Nil)
    BY <1>5 DEF Succeeded
  <2>3. rec' \in Record
    BY <2>1, <1>2, <1>3, RecordTypes, Zenon
  <2>4. /\ rec'.committed \in Held \cup {m} /\ rec'.live \in Held \cup {m}
        /\ rec'.off.leftover \in Held \cup {m}
    BY <2>1, <1>3, RecordFields
  <2>5. /\ win' \in [rev : Revision, current : BOOLEAN, phase : WindowPhase]
        /\ flight' \subseteq [rev : Revision, current : BOOLEAN]
        /\ win'.rev \in Held \cup {m}
        /\ \A g \in flight' : g.rev \in Held \cup {m}
        /\ ClosureInv'
    <3>1. CASE Close("committed")
      BY <3>1, <1>1, Closing, Held1 DEF WindowPhase
    <3>2. CASE Arm(m)
      <4>1. /\ win' = [rev |-> m, current |-> TRUE, phase |-> "open"]
            /\ flight' = Stale
        BY <3>2 DEF Arm
      <4>2. flight \subseteq [rev : Revision, current : BOOLEAN]
        BY <1>1 DEF TypeOK
      <4>3. /\ flight' \subseteq [rev : Revision, current : BOOLEAN]
            /\ \A g \in flight' : ~g.current /\ \E f \in flight : g.rev = f.rev
        BY <4>1, <4>2, StaleClosures
      <4>4. \A g \in flight' : g.rev \in Held
        BY <4>3, <1>1, Held1
      <4>5. \A v \in Held : v # m
        BY <1>1, <1>2, <1>3 DEF IdInv, Revision, Id
      <4>6. ClosureInv'
        BY <4>1, <4>3, <4>4, <4>5, <1>2 DEF ClosureInv
      <4> QED BY <4>1, <4>3, <4>4, <4>6, <1>2 DEF WindowPhase
    <3> QED BY <2>1, <3>1, <3>2
  <2>6. TypeOK'
    BY <1>4, <2>2, <2>3, <2>5 DEF Grew
  <2>7. IdInv'
    BY <1>1, <1>2, <1>3, <2>2, <2>4, <2>5, IdsKept DEF Fresh, Grew
  <2> QED BY <2>5, <2>6, <2>7 DEF RecordInv
<1>6. CASE UNCHANGED <<router, rec, win, flight, seq>>
  <2>1. UNCHANGED vars
    BY <1>2, <1>6 DEF vars
  <2> QED BY <2>1 DEF RecordInv, TypeOK, IdInv, ClosureInv, Held, vars
<1>7. CASE RolledBackAgain(m)
  <2>1. /\ seq' = seq + 1 /\ Grew(m, RollbackTarget)
        /\ rec' \in {RecordRollback, rec}
        /\ Close("rolled_back") \/ UNCHANGED <<win, flight>>
    BY <1>7 DEF RolledBackAgain
  <2>2. rec' \in Record
    BY <2>1, <1>3, RecordTypes
  <2>3. /\ rec'.committed \in Held /\ rec'.live \in Held /\ rec'.off.leftover \in Held
    BY <2>1, <1>3, RecordFields
  <2>4. /\ win' \in [rev : Revision, current : BOOLEAN, phase : WindowPhase]
        /\ flight' \subseteq [rev : Revision, current : BOOLEAN]
        /\ win'.rev \in Held
        /\ \A g \in flight' : g.rev \in Held
        /\ ClosureInv'
    <3>1. CASE Close("rolled_back")
      BY <3>1, <1>1, Closing, Held1 DEF WindowPhase
    <3>2. CASE UNCHANGED <<win, flight>>
      BY <3>2, <1>1, WindowKept DEF TypeOK
    <3> QED BY <2>1, <3>1, <3>2
  <2>5. TypeOK'
    BY <1>4, <2>1, <2>2, <2>4 DEF Grew
  <2>6. IdInv'
    BY <1>1, <1>2, <1>3, <2>1, <2>3, <2>4, IdsKept DEF Fresh, Grew
  <2> QED BY <2>4, <2>5, <2>6 DEF RecordInv
<1>8. CASE NotRolledBack(m)
  <2>1. /\ seq' = seq + 1 /\ Grew(m, RollbackTarget)
        /\ rec' \in Record /\ rec'.committed = rec.committed /\ rec'.off = rec.off
        /\ rec'.live \in {rec.live, m}
        /\ UNCHANGED <<win, flight>>
    BY <1>8 DEF NotRolledBack, Marked
  <2>2. ClosureInv' /\ win'.rev \in Held /\ \A g \in flight' : g.rev \in Held
    BY <2>1, <1>1, WindowKept
  <2>3. TypeOK'
    BY <1>1, <1>4, <2>1 DEF Grew, TypeOK
  <2>4. IdInv'
    BY <1>1, <1>2, <1>3, <2>1, <2>2, IdsKept DEF Fresh, Grew
  <2> QED BY <2>2, <2>3, <2>4 DEF RecordInv
<1> QED BY <1>2, <1>5, <1>6, <1>7, <1>8

\* A step that makes no revision.
LEMMA Steady ==
  ASSUME RecordInv, seq' = seq, TypeOK', ClosureInv', NEW v \in Held, Grew(Nil, v),
         rec'.committed \in Held, rec'.live \in Held, rec'.off.leftover \in Held,
         boot'.rev \in Held, win'.rev \in Held, \A g \in flight' : g.rev \in Held
  PROVE  RecordInv'
<1>1. TypeOK /\ IdInv
  BY DEF RecordInv
<1>2. Fresh(Nil)
  BY DEF Fresh
<1>3. IdInv'
  BY <1>1, <1>2, Basics, IdsKept DEF Grew
<1> QED BY <1>3 DEF RecordInv

\* A step that only moves the router.
LEMMA RouterOnly ==
  ASSUME RecordInv, UNCHANGED <<rec, win, flight, keeping, boot, seq, crashes, mishaps>>,
         scheduled' \in BOOLEAN, NEW v \in Held, Grew(Nil, v)
  PROVE  RecordInv'
<1>1. TypeOK /\ ClosureInv
  BY DEF RecordInv
<1>2. TypeOK'
  BY <1>1 DEF TypeOK, Grew
<1>3. ClosureInv' /\ win'.rev \in Held /\ \A g \in flight' : g.rev \in Held
  BY <1>1, WindowKept
<1> QED BY <1>1, <1>2, <1>3, Held1, Steady

\* What Reconcile does to the router: the kernel plane only.
LEMMA KernelOnly ==
  ASSUME NEW r \in Router, NEW base \in Revision,
         NEW x \in KernelDamage(r, base, {}) \cup {Installed(r, base, {}, {}, {"kernel"})}
  PROVE  /\ x \in Router /\ x.core = r.core /\ x.file = r.file /\ x.desired = r.desired
         /\ x.rules \subseteq r.rules \cup Retired(base)
<1>1. Touches(r, base, r)
  BY DEF Touches
<1>2. CASE x = Installed(r, base, {}, {}, {"kernel"})
  <2>1. x \in Router /\ x.rules \subseteq r.rules \cup Retired(base)
    BY <1>2, InstalledTouches, Basics DEF Touches
  <2>2. x.core = r.core /\ x.file = r.file /\ x.desired = r.desired
    BY <1>2 DEF Installed, Router
  <2> QED BY <2>1, <2>2
<1>3. CASE x \in KernelDamage(r, base, {})
  <2>1. x \in Damage(r, base, {}, {}, "kernel")
    BY <1>3 DEF Damage
  <2>2. x \in Router /\ x.rules \subseteq r.rules \cup Retired(base)
    BY <2>1, <1>1, DamageTouches, Basics DEF Touches, Steps
  <2>3. \/ x = r
        \/ \E gone, new : x = HalfReplaced(r, base, gone, new)
    BY <1>3 DEF KernelDamage
  <2>4. x.core = r.core /\ x.file = r.file /\ x.desired = r.desired
    BY <2>3 DEF HalfReplaced, Router
  <2> QED BY <2>2, <2>4
<1> QED BY <1>2, <1>3

\* What switching routing on leaves, before the record is written.
LEMMA SwitchingOnTouches ==
  ASSUME TypeOK, NEW o \in SwitchingOn
  PROVE  /\ o \in Outcome /\ Touches(router, rec.committed, o.r)
         /\ o.err # "failed" =>
              Reached(rec.committed, o.r) \/ (rec.off.leftover = Nil /\ rec.committed = Nil /\ o.r = router)
         /\ o.err = "leftover" => rec.off.leftover # Nil
<1>1. router \in Router /\ rec.committed \in Revision /\ rec.off.leftover \in Revision
  BY DEF TypeOK, Record
<1>2. CASE rec.off.leftover # Nil
  <2>1. o \in RollbackTo(router, rec.committed, rec.off.leftover)
    BY <1>2 DEF SwitchingOn
  <2>2. /\ o \in Outcome /\ Touches(router, rec.committed, o.r)
        /\ o.err # "failed" => Reached(rec.committed, o.r)
    BY <2>1, <1>1, RollbackTouches
  <2> QED BY <2>2, <1>2, Zenon
<1>3. CASE rec.off.leftover = Nil /\ rec.committed # Nil
  <2>1. o \in {[r |-> y.r, plane |-> y.plane, err |-> IF y.ok THEN "none" ELSE "failed"] :
                y \in Converge(router, rec.committed)}
    BY <1>3 DEF SwitchingOn
  <2>2. PICK y \in Converge(router, rec.committed) :
          o = [r |-> y.r, plane |-> y.plane, err |-> IF y.ok THEN "none" ELSE "failed"]
    BY <2>1
  <2>3. /\ Touches(router, rec.committed, y.r) /\ y.plane \in KernelPlane /\ y.ok \in BOOLEAN
        /\ y.ok => Reached(rec.committed, y.r)
    BY <1>1, Basics, ExecuteTouches DEF Converge
  <2>4. o \in Outcome /\ o.r = y.r /\ o.err # "leftover" /\ (o.err # "failed" => y.ok)
    BY <2>2, <2>3 DEF Outcome, Touches
  <2> QED BY <2>3, <2>4, Zenon
<1>4. CASE rec.off.leftover = Nil /\ rec.committed = Nil
  <2>1. o = [r |-> router, plane |-> "committed", err |-> "none"]
    BY <1>4 DEF SwitchingOn
  <2>2. o \in Outcome /\ o.r = router /\ o.err = "none"
    BY <2>1, <1>1 DEF Outcome, KernelPlane
  <2>3. Touches(router, rec.committed, router)
    BY <1>1 DEF Touches
  <2> QED BY <1>4, <2>2, <2>3
<1> QED BY <1>2, <1>3, <1>4

\* A crash inside any operation.
LEMMA WentDown ==
  ASSUME RecordInv, NEW m \in Revision, Fresh(m), seq' \in Id, NEW v \in Held, NEW r \in Router,
         r.rules \subseteq router.rules \cup Retired(m) \cup Retired(v),
         NEW record \in Record, record.committed \in Held, record.live \in Held,
         record.off.leftover \in Held, NEW how \in Restarts, MayCrash,
         GoDown(r, record, how), NEW what \in SUBSET {"apply", "rollback"}, Suffer(what, how)
  PROVE  RecordInv'
<1>1. TypeOK /\ IdInv
  BY DEF RecordInv
<1>2. /\ router' = IF how = "reboot" THEN AfterReboot(r) ELSE AfterRestart(r)
      /\ rec' = [record EXCEPT !.sameBoot = @ /\ how # "reboot"]
      /\ boot' = Down /\ win' = NoWindow /\ flight' = {} /\ keeping' = FALSE /\ scheduled' = FALSE
      /\ crashes' = crashes + 1
  BY DEF GoDown
<1>3. router' \in Router /\ router'.rules \subseteq r.rules
  BY <1>2, DownTouches
<1>4. /\ rec' \in Record /\ rec'.committed = record.committed /\ rec'.live = record.live
      /\ rec'.off = record.off
  <2> DEFINE same == record.sameBoot /\ how # "reboot"
  <2>1. rec' = [record EXCEPT !.sameBoot = same] /\ same \in BOOLEAN
    BY <1>2
  <2> HIDE DEF same
  <2> QED BY <2>1 DEF Record
<1>5. crashes' \in 0 .. MaxCrash
  BY <1>1, <1>2, LifecycleAssumption DEF MayCrash, TypeOK
<1>6. mishaps' \subseteq {"apply", "rollback", "reboot"}
  BY <1>1 DEF Suffer, TypeOK
<1>7. /\ win' \in [rev : Revision, current : BOOLEAN, phase : WindowPhase] /\ win'.rev = Nil
      /\ ~win'.current
  BY <1>2, Basics DEF NoWindow, WindowPhase
<1>8. /\ boot' \in [pc : {"down", "start", "off", "rollback", "converge", "idle"},
                     rev : Revision, retry : BOOLEAN, moved : BOOLEAN, ok : BOOLEAN]
      /\ boot'.rev = Nil
  BY <1>2, Basics DEF Down
<1>9. TypeOK'
  BY <1>2, <1>3, <1>4, <1>5, <1>6, <1>7, <1>8 DEF TypeOK
<1>10. ClosureInv'
  BY <1>2, <1>7 DEF ClosureInv
<1>11. IdInv'
  BY <1>1, <1>2, <1>3, <1>4, <1>7, <1>8, Held1, IdsKept
<1> QED BY <1>9, <1>10, <1>11 DEF RecordInv

\* Keep, Roll back and the window.
LEMMA WindowRecordInv ==
  ASSUME RecordInv
  PROVE  /\ Keep => RecordInv'
         /\ KeepConfirms => RecordInv'
         /\ RollBack => RecordInv'
         /\ Dispatch => RecordInv'
         /\ WindowOver => RecordInv'
         /\ \A f \in flight : Closure(f) => RecordInv'
<1>1. TypeOK /\ IdInv /\ ClosureInv
  BY DEF RecordInv
<1>2. /\ router \in Router /\ rec \in Record /\ rec.live \in Revision
      /\ \A f \in flight : f \in [rev : Revision, current : BOOLEAN]
      /\ win \in [rev : Revision, current : BOOLEAN, phase : WindowPhase]
  BY <1>1 DEF TypeOK, Record
<1>3. /\ Nil \in Held /\ rec.committed \in Held /\ rec.live \in Held
      /\ rec.off.leftover \in Held /\ boot.rev \in Held /\ win.rev \in Held
      /\ \A f \in flight : f.rev \in Held
  BY <1>1, Held1
<1>4. Grew(Nil, Nil) <=> router' \in Router /\ router'.rules \subseteq router.rules
  BY Basics DEF Grew
<1>5. ASSUME Keep PROVE RecordInv'
  <2>1. /\ router' \in {router, Saved(router)} /\ rec' = RecordCommit /\ keeping' = TRUE
        /\ UNCHANGED <<win, flight, boot, seq, crashes, mishaps, scheduled>>
    BY <1>5 DEF Keep
  <2>2. Grew(Nil, Nil)
    BY <1>2, <1>4, <2>1, SavedKeeps
  <2>3. rec' \in Record
    BY <1>2, <2>1, RecordTypes
  <2>4. rec'.committed \in Held /\ rec'.live \in Held /\ rec'.off.leftover \in Held
    BY <1>2, <1>3, <2>1, RecordFields
  <2>5. ClosureInv' /\ win'.rev \in Held /\ \A g \in flight' : g.rev \in Held
    BY <1>1, <2>1, WindowKept
  <2>6. TypeOK'
    BY <1>1, <2>1, <2>2, <2>3 DEF TypeOK, Grew
  <2> QED BY <1>3, <2>1, <2>2, <2>4, <2>5, <2>6, Steady
<1>6. ASSUME KeepConfirms PROVE RecordInv'
  <2>1. /\ keeping' = FALSE /\ Close("committed")
        /\ UNCHANGED <<router, rec, boot, seq, crashes, mishaps, scheduled>>
    BY <1>6 DEF KeepConfirms
  <2>2. /\ win' \in [rev : Revision, current : BOOLEAN, phase : WindowPhase]
        /\ flight' \subseteq [rev : Revision, current : BOOLEAN]
        /\ win'.rev \in Held /\ (\A g \in flight' : g.rev \in Held) /\ ClosureInv'
    BY <1>1, <1>3, <2>1, Closing DEF WindowPhase
  <2>3. TypeOK'
    BY <1>1, <2>1, <2>2 DEF TypeOK
  <2>4. Grew(Nil, Nil)
    BY <1>2, <1>4, <2>1
  <2> QED BY <1>3, <2>1, <2>2, <2>3, <2>4, Steady
<1>7. ASSUME RollBack PROVE RecordInv'
  <2>1. /\ RollBackLive(rec.live)
        /\ UNCHANGED <<win, flight, keeping, boot, seq, crashes, mishaps, scheduled>>
    BY <1>7 DEF RollBack
  <2>2. /\ Grew(Nil, rec.committed)
        /\ rec' \in Record /\ rec'.committed = rec.committed /\ rec'.off = rec.off
        /\ rec'.live \in {Nil, rec.live}
    BY <1>1, <1>2, <2>1, LiveRolledBack
  <2>3. ClosureInv' /\ win'.rev \in Held /\ \A g \in flight' : g.rev \in Held
    BY <1>1, <2>1, WindowKept
  <2>4. TypeOK'
    BY <1>1, <2>1, <2>2 DEF TypeOK, Grew
  <2> QED BY <1>3, <2>1, <2>2, <2>3, <2>4, Steady
<1>8. ASSUME Dispatch PROVE RecordInv'
  <2>1. /\ win.current /\ flight' = flight \cup {[rev |-> win.rev, current |-> TRUE]}
        /\ UNCHANGED <<router, rec, win, keeping, boot, seq, crashes, mishaps, scheduled>>
    BY <1>8 DEF Dispatch
  <2>2. \A g \in flight' : g \in flight \/ (g.rev = win.rev /\ g.current = TRUE)
    BY <2>1
  <2>3. flight' \subseteq [rev : Revision, current : BOOLEAN]
    <3>1. win.rev \in Revision
      BY <1>2
    <3>2. [rev |-> win.rev, current |-> TRUE] \in [rev : Revision, current : BOOLEAN]
      BY <3>1
    <3> QED BY <1>2, <2>1, <3>2, Zenon
  <2>4. TypeOK'
    BY <1>1, <2>1, <2>3 DEF TypeOK
  <2>5. ClosureInv'
    BY <1>1, <2>1, <2>2 DEF ClosureInv
  <2>6. Grew(Nil, Nil) /\ (\A g \in flight' : g.rev \in Held) /\ win'.rev \in Held
    BY <1>2, <1>3, <1>4, <2>1, <2>2
  <2> QED BY <1>3, <2>1, <2>4, <2>5, <2>6, Steady
<1>9. ASSUME WindowOver PROVE RecordInv'
  <2>1. /\ win' = [win EXCEPT !.phase = "over"]
        /\ UNCHANGED <<router, rec, flight, keeping, boot, seq, crashes, mishaps, scheduled>>
    BY <1>9 DEF WindowOver
  <2>2. /\ win' \in [rev : Revision, current : BOOLEAN, phase : WindowPhase]
        /\ win'.rev = win.rev /\ win'.current = win.current
    BY <1>2, <2>1 DEF WindowPhase
  <2>3. TypeOK'
    BY <1>1, <2>1, <2>2 DEF TypeOK
  <2>4. ClosureInv'
    BY <1>1, <2>1, <2>2 DEF ClosureInv
  <2>5. Grew(Nil, Nil) /\ (\A g \in flight' : g.rev \in Held) /\ win'.rev \in Held
    BY <1>2, <1>3, <1>4, <2>1, <2>2
  <2> QED BY <1>3, <2>1, <2>3, <2>4, <2>5, Steady
<1>10. ASSUME NEW f \in flight, Closure(f) PROVE RecordInv'
  <2>1. /\ flight' = flight \ {f}
        /\ UNCHANGED <<keeping, boot, seq, crashes, mishaps, scheduled>>
    BY <1>10 DEF Closure
  <2>2. /\ win' \in [rev : Revision, current : BOOLEAN, phase : WindowPhase]
        /\ win'.rev = win.rev /\ win'.current = win.current
    <3>1. win' \in {win, [win EXCEPT !.phase = "rolled_back"]}
      BY <1>10 DEF Closure
    <3> QED BY <1>2, <3>1 DEF WindowPhase
  <2>3. /\ Grew(Nil, rec.committed)
        /\ rec' \in Record /\ rec'.committed = rec.committed /\ rec'.off = rec.off
        /\ rec'.live \in {Nil, rec.live}
    <3>1. CASE ClosureRuns(f)
      <4>1. RollBackLive(f.rev)
        BY <1>10, <3>1 DEF Closure
      <4> QED BY <1>1, <1>2, <4>1, LiveRolledBack
    <3>2. CASE ~ClosureRuns(f)
      <4>1. UNCHANGED <<router, rec, win>>
        BY <1>10, <3>2 DEF Closure
      <4> QED BY <1>2, <4>1 DEF Grew
    <3> QED BY <3>1, <3>2
  <2>4. TypeOK'
    BY <1>1, <2>1, <2>2, <2>3 DEF TypeOK, Grew
  <2>5. ClosureInv'
    BY <1>1, <2>1, <2>2 DEF ClosureInv
  <2>6. (\A g \in flight' : g.rev \in Held) /\ win'.rev \in Held
    BY <1>3, <2>1, <2>2
  <2> QED BY <1>3, <2>1, <2>3, <2>4, <2>5, <2>6, Steady
<1> QED BY <1>5, <1>6, <1>7, <1>8, <1>9, <1>10

\* The routing switch.
LEMMA SwitchRecordInv ==
  ASSUME RecordInv
  PROVE  /\ RoutingOff => RecordInv'
         /\ RoutingOn => RecordInv'
<1>1. TypeOK /\ IdInv /\ ClosureInv
  BY DEF RecordInv
<1>2. /\ router \in Router /\ rec \in Record
      /\ boot \in [pc : {"down", "start", "off", "rollback", "converge", "idle"},
                    rev : Revision, retry : BOOLEAN, moved : BOOLEAN, ok : BOOLEAN]
  BY <1>1 DEF TypeOK
<1>3. /\ Nil \in Held /\ rec.committed \in Held /\ rec.live \in Held
      /\ rec.off.leftover \in Held /\ boot.rev \in Held /\ win.rev \in Held
      /\ Held \subseteq Revision
  BY <1>1, Held1
<1>4. Grew(Nil, Nil) <=> router' \in Router /\ router'.rules \subseteq router.rules
  BY Basics DEF Grew
<1>5. \A v \in Held : Revs(v) \in SUBSET Revision
  BY <1>3 DEF Revs
<1>6. ASSUME RoutingOff PROVE RecordInv'
  <2>1. PICK o \in RemoveRouting(router, Revs(SwitchedOff(FALSE).off.leftover)) :
          router' = o.r /\ rec' = SwitchedOff(~o.ok)
    BY <1>6 DEF RoutingOff
  <2>2. /\ Close("idle") /\ boot' = [boot EXCEPT !.moved = TRUE]
        /\ UNCHANGED <<keeping, seq, crashes, mishaps, scheduled>>
    BY <1>6 DEF RoutingOff, Disarm
  <2>3. SwitchedOff(FALSE).off.leftover \in Held
    BY <1>2, <1>3, RecordFields
  <2>4. Touches(router, Nil, o.r) /\ o.ok \in BOOLEAN
    BY <1>2, <1>5, <2>3, RemoveTouches
  <2>5. Grew(Nil, Nil)
    BY <1>4, <2>1, <2>4, Basics DEF Touches
  <2>6. rec' \in Record
    <3>1. (~o.ok) \in BOOLEAN
      OBVIOUS
    <3> QED BY <1>2, <2>1, <3>1, RecordTypes, Zenon
  <2>7. rec'.committed \in Held /\ rec'.live \in Held /\ rec'.off.leftover \in Held
    BY <1>2, <1>3, <2>1, RecordFields
  <2>8. /\ win' \in [rev : Revision, current : BOOLEAN, phase : WindowPhase]
        /\ flight' \subseteq [rev : Revision, current : BOOLEAN]
        /\ win'.rev \in Held /\ (\A g \in flight' : g.rev \in Held) /\ ClosureInv'
    BY <1>1, <1>3, <2>2, Closing DEF WindowPhase
  <2>9. /\ boot' \in [pc : {"down", "start", "off", "rollback", "converge", "idle"},
                     rev : Revision, retry : BOOLEAN, moved : BOOLEAN, ok : BOOLEAN]
        /\ boot'.rev = boot.rev
    BY <1>2, <2>2
  <2>10. TypeOK'
    BY <1>1, <2>2, <2>5, <2>6, <2>8, <2>9 DEF TypeOK, Grew
  <2> QED BY <1>3, <2>2, <2>5, <2>7, <2>8, <2>9, <2>10, Steady
<1>7. ASSUME RoutingOn PROVE RecordInv'
  <2>1. PICK o \in SwitchingOn : SwitchesOn(o) \/ StaysOff(o)
    BY <1>7 DEF RoutingOn
  <2>2. UNCHANGED <<win, flight, keeping, boot, seq, crashes, mishaps, scheduled>>
    BY <1>7 DEF RoutingOn
  <2>3. o \in Outcome /\ Touches(router, rec.committed, o.r)
    BY <1>1, SwitchingOnTouches
  <2>4. o.r \in Router /\ o.r.rules \subseteq router.rules \cup Retired(rec.committed)
    BY <2>3 DEF Touches
  <2>5. Grew(Nil, rec.committed)
    <3>1. CASE SwitchesOn(o)
      <4>1. router' \in {o.r, Saved(o.r)}
        BY <3>1 DEF SwitchesOn
      <4> QED BY <2>4, <4>1, SavedKeeps DEF Grew
    <3>2. CASE StaysOff(o)
      <4>1. PICK x \in RemoveRouting(o.r, Revs(rec.off.leftover)) : router' = x.r
        BY <3>2 DEF StaysOff
      <4>2. Touches(o.r, Nil, x.r)
        BY <1>3, <1>5, <2>4, <4>1, RemoveTouches
      <4> QED BY <2>4, <4>1, <4>2, Basics DEF Touches, Grew
    <3> QED BY <2>1, <3>1, <3>2
  <2>6. /\ rec' \in Record /\ rec'.committed = rec.committed
        /\ rec'.live \in {rec.live, rec.off.leftover} /\ rec'.off.leftover \in {Nil, rec.off.leftover}
    <3>1. [rec EXCEPT !.off = NotOff] \in Record
      BY <1>2, Basics DEF Record, NotOff
    <3>2. /\ [rec EXCEPT !.off = NotOff].committed = rec.committed
          /\ [rec EXCEPT !.off = NotOff].live = rec.live
          /\ [rec EXCEPT !.off = NotOff].off.leftover = Nil
      BY <1>2 DEF Record, NotOff
    <3>3. CASE rec' = [rec EXCEPT !.off = NotOff]
      BY <3>1, <3>2, <3>3
    <3>4. CASE rec' = NoteLiveOutstanding([rec EXCEPT !.off = NotOff], rec.off.leftover, "committed")
      <4> DEFINE on == [rec EXCEPT !.off = NotOff]
      <4> HIDE DEF on
      <4>1. rec' = NoteLiveOutstanding(on, rec.off.leftover, "committed") /\ on \in Record
            /\ on.committed = rec.committed /\ on.off.leftover = Nil
        BY <3>1, <3>2, <3>4 DEF on
      <4>2. rec' \in Record
        <5>1. "committed" \in KernelPlane /\ rec.off.leftover \in Revision
          BY <1>3 DEF KernelPlane
        <5> QED BY <1>2, <4>1, <5>1, RecordTypes, Zenon
      <4>3. rec'.committed = on.committed /\ rec'.live = rec.off.leftover /\ rec'.off = on.off
        BY <1>2, <4>1, RecordFields
      <4> QED BY <4>1, <4>2, <4>3
    <3>5. CASE rec' = [rec EXCEPT !.off.err = TRUE]
      BY <1>2, <3>5 DEF Record
    <3> QED BY <2>1, <3>3, <3>4, <3>5 DEF SwitchesOn, StaysOff
  <2>7. ClosureInv' /\ win'.rev \in Held /\ \A g \in flight' : g.rev \in Held
    BY <1>1, <2>2, WindowKept
  <2>8. TypeOK'
    BY <1>1, <2>2, <2>5, <2>6 DEF TypeOK, Grew
  <2> QED BY <1>3, <2>2, <2>5, <2>6, <2>7, <2>8, Steady
<1> QED BY <1>6, <1>7

\* Supervision.
LEMMA SupervisionRecordInv ==
  ASSUME RecordInv
  PROVE  /\ FirmwareDrop => RecordInv'
         /\ Reconcile => RecordInv'
         /\ ConvergeAfterInstall => RecordInv'
         /\ CoreDies => RecordInv'
         /\ Watchdog => RecordInv'
         /\ CoreRestartDue => RecordInv'
         /\ RestartCoreOnSchedule => RecordInv'
<1>1. TypeOK
  BY DEF RecordInv
<1>2. router \in Router /\ rec \in Record /\ scheduled \in BOOLEAN
  BY <1>1 DEF TypeOK
<1>3. /\ Nil \in Held /\ rec.committed \in Held /\ rec.live \in Held /\ AppliedBaseline \in Held
      /\ Held \subseteq Revision
  BY <1>1, Held1
<1>4. Grew(Nil, Nil) <=> router' \in Router /\ router'.rules \subseteq router.rules
  BY Basics DEF Grew
<1>5. ASSUME FirmwareDrop PROVE RecordInv'
  <2>1. /\ router' = [router EXCEPT !.lost = TRUE]
        /\ UNCHANGED <<rec, win, flight, keeping, boot, seq, crashes, mishaps, scheduled>>
    BY <1>5 DEF FirmwareDrop
  <2>2. Grew(Nil, Nil)
    BY <1>2, <1>4, <2>1 DEF Router
  <2> QED BY <1>2, <1>3, <2>1, <2>2, RouterOnly
<1>6. ASSUME Reconcile PROVE RecordInv'
  <2> DEFINE base == SupervisedBaseline
  <2>1. /\ router' \in KernelDamage(router, base, {}) \cup {Installed(router, base, {}, {}, {"kernel"})}
        /\ UNCHANGED <<rec, win, flight, keeping, boot, seq, crashes, mishaps, scheduled>>
    BY <1>6 DEF Reconcile
  <2>2. base \in Held
    <3>1. rec.mark.plane \in KernelPlane
      BY <1>2 DEF Record
    <3> QED BY <1>3, <3>1 DEF SupervisedBaseline, KernelPlane
  <2> HIDE DEF base
  <2>3. Grew(Nil, base)
    BY <1>2, <1>3, <2>1, <2>2, KernelOnly DEF Grew
  <2> QED BY <1>2, <1>3, <2>1, <2>2, <2>3, RouterOnly
<1>7. ASSUME ConvergeAfterInstall PROVE RecordInv'
  <2>1. PICK o \in Converge(router, AppliedBaseline) : router' = o.r
    BY <1>7 DEF ConvergeAfterInstall
  <2>2. UNCHANGED <<rec, win, flight, keeping, boot, seq, crashes, mishaps, scheduled>>
    BY <1>7 DEF ConvergeAfterInstall
  <2>3. Grew(Nil, AppliedBaseline)
    BY <1>2, <1>3, <2>1, Basics, ExecuteTouches DEF Converge, Touches, Grew
  <2> QED BY <1>2, <1>3, <2>2, <2>3, RouterOnly
<1>8. ASSUME CoreDies PROVE RecordInv'
  <2>1. /\ router' = [router EXCEPT !.core = 0]
        /\ UNCHANGED <<rec, win, flight, keeping, boot, seq, crashes, mishaps, scheduled>>
    BY <1>8 DEF CoreDies
  <2>2. Grew(Nil, Nil)
    BY <1>2, <1>4, <2>1, Basics DEF Router
  <2> QED BY <1>2, <1>3, <2>1, <2>2, RouterOnly
<1>9. ASSUME Watchdog PROVE RecordInv'
  <2>1. /\ router' = [router EXCEPT !.core = router.file]
        /\ UNCHANGED <<rec, win, flight, keeping, boot, seq, crashes, mishaps, scheduled>>
    BY <1>9 DEF Watchdog
  <2>2. Grew(Nil, Nil)
    BY <1>2, <1>4, <2>1 DEF Router
  <2> QED BY <1>2, <1>3, <2>1, <2>2, RouterOnly
<1>10. ASSUME CoreRestartDue PROVE RecordInv'
  <2>1. /\ scheduled' = TRUE
        /\ UNCHANGED <<router, rec, win, flight, keeping, boot, seq, crashes, mishaps>>
    BY <1>10 DEF CoreRestartDue
  <2>2. Grew(Nil, Nil)
    BY <1>2, <1>4, <2>1
  <2> QED BY <1>3, <2>1, <2>2, RouterOnly
<1>11. ASSUME RestartCoreOnSchedule PROVE RecordInv'
  <2>1. /\ scheduled' = FALSE /\ router' \in Reload(router) \cup {router}
        /\ UNCHANGED <<rec, win, flight, keeping, boot, seq, crashes, mishaps>>
    BY <1>11 DEF RestartCoreOnSchedule
  <2>2. Grew(Nil, Nil)
    <3>1. \/ router' = router
          \/ \E c \in {router.core, 0, router.file} : router' = [router EXCEPT !.desired = TRUE, !.core = c]
      BY <2>1 DEF Reload
    <3>2. router.core \in Id /\ router.file \in Id /\ 0 \in Id
      BY <1>2, Basics DEF Router
    <3> QED BY <1>2, <1>4, <3>1, <3>2 DEF Router
  <2> QED BY <1>3, <2>1, <2>2, RouterOnly
<1> QED BY <1>5, <1>6, <1>7, <1>8, <1>9, <1>10, <1>11

\* Where the router and the record may be when the daemon dies inside an Apply.
LEMMA CrashedApply ==
  ASSUME TypeOK, NEW sh \in Shapes, seq < MaxRev,
         NEW r \in UNION {{o.r} \cup {b.r : b \in IF o.ok THEN {} ELSE Recovery(Next1(sh), o)} :
                            o \in Forward(Next1(sh))}
  PROVE  /\ Next1(sh) \in Revision /\ Next1(sh).id = seq + 1 /\ seq + 1 \in Id
         /\ r \in Router
         /\ r.rules \subseteq router.rules \cup Retired(Next1(sh)) \cup Retired(RollbackTarget)
<1> DEFINE m == Next1(sh)
<1>1. m \in Revision /\ m.id = seq + 1 /\ seq + 1 \in Id
  <2>1. seq \in 0 .. MaxRev /\ seq < MaxRev /\ MaxRev \in Nat
    BY RouterAssumption DEF TypeOK, Id
  <2>2. sh.native \in BOOLEAN /\ sh.core \in BOOLEAN /\ sh.kernel \in BOOLEAN
    BY RouterAssumption
  <2> QED BY <2>1, <2>2 DEF Next1, Revision, Id
<1>2. PICK o \in Forward(m) : r \in {o.r} \cup {b.r : b \in IF o.ok THEN {} ELSE Recovery(m, o)}
  BY Zenon
<1> HIDE DEF m
<1>3. router \in Router /\ rec \in Record
  BY DEF TypeOK
<1>4. Touches(router, m, o.r)
  <2>1. AppliedBaseline \in Revision /\ rec.committed \in Revision
    BY <1>3, RecordTypes DEF Record
  <2>2. Retired(AppliedBaseline) \in SUBSET Id /\ Removals \in SUBSET Id
    BY <2>1, Basics DEF Removals
  <2> QED BY <1>1, <1>3, <2>2, ExecuteTouches DEF Forward
<1>5. o.r \in Router /\ o.r.rules \subseteq router.rules \cup Retired(m)
  BY <1>4 DEF Touches
<1>6. CASE r = o.r
  BY <1>1, <1>5, <1>6 DEF m
<1>7. CASE r # o.r
  <2>1. PICK b \in Recovery(m, o) : r = b.r
    BY <1>2, <1>7
  <2>2. b \in Outcome /\ b.r.rules \subseteq o.r.rules \cup Retired(RollbackTarget)
    BY <1>1, <1>3, <1>5, RecoveryTouches
  <2> QED BY <1>1, <1>5, <2>1, <2>2 DEF Outcome, m
<1> QED BY <1>6, <1>7

\* Crashes.
LEMMA CrashRecordInv ==
  ASSUME RecordInv, NEW how \in Restarts
  PROVE  /\ Crash(how) => RecordInv'
         /\ CrashInRollback(how) => RecordInv'
         /\ CrashInRoutingOff(how) => RecordInv'
         /\ CrashInRoutingOn(how) => RecordInv'
         /\ \A sh \in Shapes : CrashInApply(sh, how) => RecordInv'
<1>1. TypeOK
  BY DEF RecordInv
<1>2. router \in Router /\ rec \in Record /\ seq \in Id /\ rec.committed \in Revision /\ rec.live \in Revision
  BY <1>1 DEF TypeOK, Record
<1>3. /\ Nil \in Held /\ rec.committed \in Held /\ rec.live \in Held
      /\ rec.off.leftover \in Held /\ RollbackTarget \in Held
      /\ Held \subseteq Revision
  BY <1>1, Held1
<1>4. ASSUME Crash(how) PROVE RecordInv'
  <2>1. MayCrash /\ GoDown(router, rec, how) /\ Suffer({}, how) /\ seq' = seq
    BY <1>4 DEF Crash
  <2> QED BY <1>2, <1>3, <2>1, Basics, WentDown DEF Fresh
<1>5. ASSUME CrashInRollback(how) PROVE RecordInv'
  <2>1. /\ MayCrash /\ Suffer({"rollback"}, how) /\ seq' = seq
        /\ \E r \in {b.r : b \in RollbackTo(router, rec.committed, rec.live)} : GoDown(r, rec, how)
    BY <1>5 DEF CrashInRollback
  <2>2. PICK b \in RollbackTo(router, rec.committed, rec.live) : GoDown(b.r, rec, how)
    BY <2>1
  <2>3. b.r \in Router /\ b.r.rules \subseteq router.rules \cup Retired(rec.committed)
    BY <1>2, RollbackTouches DEF Touches
  <2>4. b.r.rules \subseteq router.rules \cup Retired(Nil) \cup Retired(rec.committed)
    BY <2>3
  <2> QED BY <1>2, <1>3, <2>1, <2>2, <2>3, <2>4, Basics, WentDown DEF Fresh
<1>6. ASSUME CrashInRoutingOff(how) PROVE RecordInv'
  <2>1. /\ MayCrash /\ Suffer({}, how) /\ seq' = seq
        /\ \E r \in {o.r : o \in RemoveRouting(router, Revs(SwitchedOff(FALSE).off.leftover))} :
             GoDown(r, SwitchedOff(FALSE), how)
    BY <1>6 DEF CrashInRoutingOff
  <2>2. PICK o \in RemoveRouting(router, Revs(SwitchedOff(FALSE).off.leftover)) :
          GoDown(o.r, SwitchedOff(FALSE), how)
    BY <2>1
  <2>3. /\ SwitchedOff(FALSE) \in Record /\ SwitchedOff(FALSE).committed = rec.committed
        /\ SwitchedOff(FALSE).live = Nil /\ SwitchedOff(FALSE).off.leftover \in Held
    BY <1>2, <1>3, RecordTypes, RecordFields
  <2>4. Revs(SwitchedOff(FALSE).off.leftover) \in SUBSET Revision
    BY <1>3, <2>3 DEF Revs
  <2>5. Touches(router, Nil, o.r)
    BY <1>2, <2>4, RemoveTouches
  <2>6. o.r \in Router /\ o.r.rules \subseteq router.rules \cup Retired(Nil) \cup Retired(Nil)
    BY <2>5 DEF Touches
  <2> QED BY <1>2, <1>3, <2>1, <2>2, <2>3, <2>6, Basics, WentDown DEF Fresh
<1>7. ASSUME CrashInRoutingOn(how) PROVE RecordInv'
  <2>1. /\ MayCrash /\ Suffer({}, how) /\ seq' = seq
        /\ \E r \in {o.r : o \in SwitchingOn} : GoDown(r, rec, how)
    BY <1>7 DEF CrashInRoutingOn
  <2>2. PICK o \in SwitchingOn : GoDown(o.r, rec, how)
    BY <2>1
  <2>3. o.r \in Router /\ o.r.rules \subseteq router.rules \cup Retired(Nil) \cup Retired(rec.committed)
    BY <1>1, SwitchingOnTouches DEF Touches
  <2> QED BY <1>2, <1>3, <2>1, <2>2, <2>3, Basics, WentDown DEF Fresh
<1>8. ASSUME NEW sh \in Shapes, CrashInApply(sh, how) PROVE RecordInv'
  <2> DEFINE m == Next1(sh)
             record == [rec EXCEPT !.inflight = TRUE]
  <2>1. MayCrash /\ seq < MaxRev /\ seq' = seq + 1 /\ Suffer({"apply"}, how)
    BY <1>8 DEF CrashInApply
  <2>2. PICK r \in UNION {{o.r} \cup {b.r : b \in IF o.ok THEN {} ELSE Recovery(m, o)} :
                          o \in Forward(m)} : GoDown(r, record, how)
    BY <1>8, Zenon DEF CrashInApply
  <2>3. /\ m \in Revision /\ m.id = seq + 1 /\ seq + 1 \in Id
        /\ r \in Router
        /\ r.rules \subseteq router.rules \cup Retired(m) \cup Retired(RollbackTarget)
    BY <1>1, <2>1, <2>2, CrashedApply
  <2>4. /\ record \in Record /\ record.committed = rec.committed /\ record.live = rec.live
        /\ record.off = rec.off
    BY <1>2 DEF Record
  <2>5. Fresh(m)
    BY <2>1, <2>3 DEF Fresh
  <2> HIDE DEF m, record
  <2> QED BY <1>2, <1>3, <2>1, <2>2, <2>3, <2>4, <2>5, WentDown
<1> QED BY <1>4, <1>5, <1>6, <1>7, <1>8

BootState ==
  [pc : {"down", "start", "off", "rollback", "converge", "idle"},
   rev : Revision, retry : BOOLEAN, moved : BOOLEAN, ok : BOOLEAN]

\* How a boot attempt ends.
LEMMA BootStates ==
  ASSUME boot \in BootState, NEW done, BootGoesOn(done)
  PROVE  /\ boot' \in BootState /\ boot'.rev = boot.rev /\ boot'.pc \in {boot.pc, "idle"}
         /\ boot'.pc # "idle" => boot'.pc = boot.pc
<1>1. \/ boot' = [boot EXCEPT !.pc = "idle", !.ok = TRUE]
      \/ boot' = [boot EXCEPT !.pc = "idle"]
      \/ boot' = [boot EXCEPT !.retry = TRUE]
  BY DEF BootGoesOn
<1> QED BY <1>1 DEF BootState

\* What boot does to the router and the record.
LEMMA BootActs ==
  ASSUME RecordInv, ConvergeOnBootOnce \/ RollbackLiveOnBootOnce \/ ReassertRoutingOff
  PROVE  /\ (\E done : BootGoesOn(done)) /\ boot.pc \in {"converge", "rollback", "off"}
         /\ UNCHANGED <<win, flight, keeping, seq, crashes, mishaps, scheduled>>
         /\ \/ UNCHANGED <<router, rec>> /\ (boot.pc = "off" => ~rec.off.on)
            \/ /\ rec' = rec /\ ~rec.off.on /\ rec.live = Nil
               /\ \E o \in Converge(router, rec.committed) : router' = o.r
            \/ /\ ~rec.off.on /\ boot.pc = "rollback" /\ rec.live.id = boot.rev.id
               /\ RollBackLive(rec.live)
            \/ /\ boot.pc = "off" /\ rec.off.on
               /\ \E o \in RemoveRouting(router, Revs(rec.off.leftover)) :
                    /\ router' = o.r /\ rec' = [rec EXCEPT !.off.err = ~o.ok]
<1>1. TypeOK /\ IdInv
  BY DEF RecordInv
<1>2. boot.rev \in Held /\ rec.committed \in Held
  BY <1>1, Held1
<1>3. rec.committed.id = boot.rev.id => rec.committed = boot.rev
  BY <1>1, <1>2 DEF IdInv
<1>4. CASE ConvergeOnBootOnce
  <2>1. /\ boot.pc = "converge"
        /\ IF BootStillWants THEN BootConverges(boot.rev) ELSE BootSkips
        /\ UNCHANGED <<win, flight, keeping, seq, crashes, mishaps, scheduled>>
    BY <1>4 DEF ConvergeOnBootOnce
  <2>2. CASE BootStillWants
    <3>1. ~rec.off.on /\ rec.live = Nil /\ rec.committed = boot.rev
      BY <2>2, <1>3 DEF BootStillWants
    <3>2. /\ rec' = rec
          /\ \E o \in Converge(router, boot.rev) : router' = o.r /\ BootGoesOn(o.ok)
      BY <2>1, <2>2 DEF BootConverges
    <3> QED BY <2>1, <3>1, <3>2, Zenon
  <2>3. CASE ~BootStillWants
    <3>1. BootGoesOn(TRUE) /\ UNCHANGED <<router, rec>>
      BY <2>1, <2>3 DEF BootSkips
    <3> QED BY <2>1, <3>1
  <2> QED BY <2>2, <2>3
<1>5. CASE RollbackLiveOnBootOnce
  <2>1. /\ boot.pc = "rollback"
        /\ UNCHANGED <<win, flight, keeping, seq, crashes, mishaps, scheduled>>
    BY <1>5 DEF RollbackLiveOnBootOnce
  <2>2. CASE rec.off.on
    <3>1. BootGoesOn(TRUE) /\ UNCHANGED <<router, rec>>
      BY <1>5, <2>2 DEF RollbackLiveOnBootOnce, BootSkips
    <3> QED BY <2>1, <3>1
  <2>3. CASE ~rec.off.on /\ KeptMeanwhile
    <3>1. rec.live = Nil /\ rec.committed = boot.rev
      BY <2>3, <1>3 DEF KeptMeanwhile
    <3>2. /\ rec' = rec
          /\ \E o \in Converge(router, boot.rev) : router' = o.r /\ BootGoesOn(o.ok)
      BY <1>5, <2>3 DEF RollbackLiveOnBootOnce, BootConverges
    <3> QED BY <2>1, <2>3, <3>1, <3>2, Zenon
  <2>4. CASE ~rec.off.on /\ ~KeptMeanwhile /\ (boot.moved \/ rec.live.id # boot.rev.id)
    <3>1. BootGoesOn(TRUE) /\ UNCHANGED <<router, rec>>
      BY <1>5, <2>4 DEF RollbackLiveOnBootOnce, BootSkips
    <3> QED BY <2>1, <3>1
  <2>5. CASE ~rec.off.on /\ ~KeptMeanwhile /\ ~(boot.moved \/ rec.live.id # boot.rev.id)
    <3>1. RollBackLive(rec.live) /\ BootGoesOn(rec'.live = Nil)
      BY <1>5, <2>5 DEF RollbackLiveOnBootOnce
    <3> QED BY <2>1, <2>5, <3>1, Zenon
  <2> QED BY <2>2, <2>3, <2>4, <2>5
<1>6. CASE ReassertRoutingOff
  <2>1. /\ boot.pc = "off"
        /\ UNCHANGED <<win, flight, keeping, seq, crashes, mishaps, scheduled>>
    BY <1>6 DEF ReassertRoutingOff
  <2>2. CASE ~rec.off.on
    <3>1. BootGoesOn(TRUE) /\ UNCHANGED <<router, rec>>
      BY <1>6, <2>2 DEF ReassertRoutingOff, BootSkips
    <3> QED BY <2>1, <2>2, <3>1
  <2>3. CASE rec.off.on
    <3>1. \E o \in RemoveRouting(router, Revs(rec.off.leftover)) :
            /\ router' = o.r
            /\ rec' = [rec EXCEPT !.off.err = ~o.ok]
            /\ BootGoesOn(o.ok)
      BY <1>6, <2>3 DEF ReassertRoutingOff
    <3> QED BY <2>1, <2>3, <3>1, Zenon
  <2> QED BY <2>2, <2>3
<1> QED BY <1>4, <1>5, <1>6

\* The off record with another verdict.
LEMMA OffVerdict ==
  ASSUME rec \in Record, NEW e \in BOOLEAN
  PROVE  LET x == [rec EXCEPT !.off.err = e]
         IN /\ x \in Record /\ x.committed = rec.committed /\ x.live = rec.live /\ x.mark = rec.mark
            /\ x.off.leftover = rec.off.leftover /\ x.off.on = rec.off.on /\ x.off.err = e
BY DEF Record

\* Boot.
LEMMA BootRecordInv ==
  ASSUME RecordInv
  PROVE  /\ StartApply => RecordInv'
         /\ BootPicks => RecordInv'
         /\ ConvergeOnBootOnce \/ RollbackLiveOnBootOnce \/ ReassertRoutingOff => RecordInv'
<1>1. TypeOK /\ IdInv /\ ClosureInv
  BY DEF RecordInv
<1>2. router \in Router /\ rec \in Record /\ boot \in BootState
  BY <1>1 DEF TypeOK, BootState
<1>3. /\ Nil \in Held /\ rec.committed \in Held /\ rec.live \in Held
      /\ rec.off.leftover \in Held /\ boot.rev \in Held /\ Held \subseteq Revision
  BY <1>1, Held1
<1>4. Grew(Nil, Nil) <=> router' \in Router /\ router'.rules \subseteq router.rules
  BY Basics DEF Grew
<1>5. ASSUME StartApply PROVE RecordInv'
  <2>1. /\ boot' = [pc |-> "start", rev |-> IF LiveNeedsRollback THEN rec.live ELSE Nil,
                    retry |-> FALSE, moved |-> FALSE, ok |-> FALSE]
        /\ rec' \in {[rec EXCEPT !.inflight = FALSE], RecordRollback}
        /\ UNCHANGED <<router, win, flight, keeping, seq, crashes, mishaps, scheduled>>
    BY <1>5 DEF StartApply, DiscardLiveOnBoot
  <2>2. boot' \in BootState /\ boot'.rev \in Held
    BY <1>3, <2>1 DEF BootState
  <2>3. /\ rec' \in Record /\ rec'.committed = rec.committed /\ rec'.live \in {Nil, rec.live}
        /\ rec'.off = rec.off
    <3>1. CASE rec' = [rec EXCEPT !.inflight = FALSE]
      BY <1>2, <3>1 DEF Record
    <3>2. CASE rec' = RecordRollback
      BY <1>2, <3>2, RecordTypes, RecordFields
    <3> QED BY <2>1, <3>1, <3>2
  <2>4. ClosureInv' /\ win'.rev \in Held /\ \A g \in flight' : g.rev \in Held
    BY <1>1, <2>1, WindowKept
  <2>5. TypeOK'
    BY <1>1, <2>1, <2>2, <2>3 DEF TypeOK, BootState
  <2>6. Grew(Nil, Nil)
    BY <1>2, <1>4, <2>1
  <2> QED BY <1>3, <2>1, <2>2, <2>3, <2>4, <2>5, <2>6, Steady
<1>6. ASSUME BootPicks PROVE RecordInv'
  <2>1. /\ \/ boot' = [boot EXCEPT !.pc = "off"]
           \/ boot' = [boot EXCEPT !.pc = "rollback"]
           \/ boot' = [boot EXCEPT !.pc = "converge", !.rev = rec.committed]
           \/ boot' = [boot EXCEPT !.pc = "idle", !.ok = TRUE]
        /\ UNCHANGED <<router, rec, win, flight, keeping, seq, crashes, mishaps, scheduled>>
    BY <1>6 DEF BootPicks
  <2>2. boot' \in BootState /\ boot'.rev \in {boot.rev, rec.committed}
    BY <1>2, <1>3, <2>1 DEF BootState
  <2>3. ClosureInv' /\ win'.rev \in Held /\ \A g \in flight' : g.rev \in Held
    BY <1>1, <2>1, WindowKept
  <2>4. TypeOK'
    BY <1>1, <2>1, <2>2 DEF TypeOK, BootState
  <2>5. Grew(Nil, Nil)
    BY <1>2, <1>4, <2>1
  <2> QED BY <1>3, <2>1, <2>2, <2>3, <2>4, <2>5, Steady
<1>7. ASSUME ConvergeOnBootOnce \/ RollbackLiveOnBootOnce \/ ReassertRoutingOff PROVE RecordInv'
  <2>1. /\ (\E done : BootGoesOn(done))
        /\ UNCHANGED <<win, flight, keeping, seq, crashes, mishaps, scheduled>>
        /\ \/ UNCHANGED <<router, rec>>
           \/ /\ rec' = rec
              /\ \E o \in Converge(router, rec.committed) : router' = o.r
           \/ RollBackLive(rec.live)
           \/ \E o \in RemoveRouting(router, Revs(rec.off.leftover)) :
                /\ router' = o.r /\ rec' = [rec EXCEPT !.off.err = ~o.ok]
    BY <1>7, BootActs
  <2>2. boot' \in BootState /\ boot'.rev = boot.rev
    BY <1>2, <2>1, BootStates
  <2>3. ClosureInv' /\ win'.rev \in Held /\ \A g \in flight' : g.rev \in Held
    BY <1>1, <2>1, WindowKept
  <2>4. /\ Grew(Nil, rec.committed)
        /\ rec' \in Record /\ rec'.committed = rec.committed /\ rec'.live \in {Nil, rec.live}
        /\ rec'.off.leftover = rec.off.leftover
    <3>1. CASE UNCHANGED <<router, rec>>
      BY <1>2, <3>1 DEF Grew
    <3>2. CASE rec' = rec /\ \E o \in Converge(router, rec.committed) : router' = o.r
      <4>1. PICK o \in Converge(router, rec.committed) : router' = o.r
        BY <3>2
      <4>2. Touches(router, rec.committed, o.r)
        BY <1>2, <1>3, Basics, ExecuteTouches DEF Converge
      <4> QED BY <1>2, <3>2, <4>1, <4>2 DEF Touches, Grew
    <3>3. CASE RollBackLive(rec.live)
      BY <1>1, <1>3, <3>3, LiveRolledBack
    <3>4. CASE \E o \in RemoveRouting(router, Revs(rec.off.leftover)) :
                /\ router' = o.r /\ rec' = [rec EXCEPT !.off.err = ~o.ok]
      <4>1. PICK o \in RemoveRouting(router, Revs(rec.off.leftover)) :
              /\ router' = o.r /\ rec' = [rec EXCEPT !.off.err = ~o.ok]
        BY <3>4
      <4>2. Revs(rec.off.leftover) \in SUBSET Revision
        BY <1>3 DEF Revs
      <4>3. Touches(router, Nil, o.r) /\ o.ok \in BOOLEAN
        BY <1>2, <4>2, RemoveTouches
      <4>4. Grew(Nil, rec.committed)
        BY <4>1, <4>3 DEF Touches, Grew
      <4>5. PICK e \in BOOLEAN : e = ~o.ok
        OBVIOUS
      <4>6. rec' = [rec EXCEPT !.off.err = e]
        BY <4>1, <4>5
      <4>7. /\ rec' \in Record /\ rec'.committed = rec.committed /\ rec'.live = rec.live
            /\ rec'.off.leftover = rec.off.leftover
        BY <1>2, <4>6, OffVerdict
      <4> QED BY <4>4, <4>7
    <3> QED BY <2>1, <3>1, <3>2, <3>3, <3>4
  <2>5. TypeOK'
    BY <1>1, <2>1, <2>2, <2>4 DEF TypeOK, BootState, Grew
  <2> QED BY <1>3, <2>1, <2>2, <2>3, <2>4, <2>5, Steady
<1> QED BY <1>5, <1>6, <1>7

\* The record, the window and the boot goroutine keep their types, a revision
\* is known by its id wherever the daemon holds one, and the closures of the
\* armed window are told apart from older ones: applystate.go's pointer
\* comparisons and failsafe.go's epochs mean what they are used for.
THEOREM RecordCorrect == Spec => []RecordInv
<1>1. Init => RecordInv
  <2> SUFFICES ASSUME Init PROVE RecordInv
    OBVIOUS
  <2>1. /\ router = Bare /\ rec = EmptyRecord /\ win = NoWindow /\ flight = {} /\ keeping = FALSE
        /\ boot = [pc |-> "idle", rev |-> Nil, retry |-> FALSE, moved |-> FALSE, ok |-> TRUE]
        /\ seq = 0 /\ crashes = 0 /\ mishaps = {} /\ scheduled = FALSE
    BY DEF Init, Down
  <2>2. router \in Router /\ router.rules = {}
    BY <2>1, Basics DEF Bare, Router
  <2>3. /\ rec \in Record /\ rec.committed = Nil /\ rec.live = Nil /\ rec.off.leftover = Nil
    BY <2>1, Basics DEF EmptyRecord, NotOff, NoMark, Record, KernelPlane
  <2>4. /\ win \in [rev : Revision, current : BOOLEAN, phase : WindowPhase]
        /\ win.rev = Nil /\ ~win.current
    BY <2>1, Basics DEF NoWindow, WindowPhase
  <2>5. /\ boot \in [pc : {"down", "start", "off", "rollback", "converge", "idle"},
                     rev : Revision, retry : BOOLEAN, moved : BOOLEAN, ok : BOOLEAN]
        /\ boot.rev = Nil
    BY <2>1, Basics
  <2>6. TypeOK
    <3>1. keeping \in BOOLEAN /\ scheduled \in BOOLEAN
      BY <2>1, Zenon
    <3>2. 0 \in 0 .. MaxCrash
      BY LifecycleAssumption
    <3>3. flight = {} /\ seq \in Id /\ crashes \in 0 .. MaxCrash /\ mishaps = {}
      BY <2>1, <3>2, Basics
    <3> QED BY <2>2, <2>3, <2>4, <2>5, <3>1, <3>3 DEF TypeOK
  <2>7. Held = {Nil}
    BY <2>1, <2>3, <2>4, <2>5 DEF Held
  <2>8. IdInv
    BY <2>1, <2>2, <2>7, Basics DEF IdInv, Nil
  <2>9. ClosureInv
    BY <2>1, <2>4 DEF ClosureInv
  <2> QED BY <2>6, <2>8, <2>9 DEF RecordInv
<1>2. RecordInv /\ [Next]_vars => RecordInv'
  <2> SUFFICES ASSUME RecordInv, [Next]_vars PROVE RecordInv'
    OBVIOUS
  <2>1. CASE UNCHANGED vars
    BY <2>1 DEF RecordInv, TypeOK, IdInv, ClosureInv, Held, vars
  <2>2. ASSUME NEW sh \in Shapes, Apply(sh) PROVE RecordInv'
    BY <2>2, ApplyRecordInv
  <2>3. CASE Keep \/ KeepConfirms \/ RollBack \/ Dispatch \/ WindowOver \/ \E f \in flight : Closure(f)
    BY <2>3, WindowRecordInv
  <2>4. CASE RoutingOff \/ RoutingOn
    BY <2>4, SwitchRecordInv
  <2>5. CASE \/ FirmwareDrop \/ Reconcile \/ ConvergeAfterInstall \/ CoreDies \/ Watchdog
             \/ CoreRestartDue \/ RestartCoreOnSchedule
    BY <2>5, SupervisionRecordInv
  <2>6. ASSUME NEW how \in Restarts,
               \/ Crash(how) \/ CrashInRollback(how) \/ CrashInRoutingOff(how) \/ CrashInRoutingOn(how)
               \/ \E sh \in Shapes : CrashInApply(sh, how)
        PROVE  RecordInv'
    BY <2>6, CrashRecordInv
  <2>7. CASE StartApply \/ BootPicks \/ ConvergeOnBootOnce \/ RollbackLiveOnBootOnce \/ ReassertRoutingOff
    BY <2>7, BootRecordInv
  <2> QED BY <2>1, <2>2, <2>3, <2>4, <2>5, <2>6, <2>7 DEF Next
<1> QED BY <1>1, <1>2, PTL DEF Spec

\* The state of every applied configuration has its type, for any number of
\* Applies, crashes and shapes.
THEOREM LifecycleTypes == Spec => []TypeOK
<1>1. RecordInv => TypeOK
  BY DEF RecordInv
<1> QED BY <1>1, RecordCorrect, PTL

\* A closure is taken out of flight, with nothing else, only by itself: a
\* window that closes or is replaced turns closures stale and loses none.
LEMMA ClosuresStay ==
  ASSUME RecordInv, flight' = Stale, NEW f \in flight
  PROVE  flight' # flight \ {f}
<1>1. flight \subseteq [rev : Revision, current : BOOLEAN] /\ ClosureInv
  BY DEF RecordInv, TypeOK
<1>2. PICK g \in Stale : g.rev = f.rev
  BY <1>1, StaleClosures
<1>3. ~g.current /\ g \in [rev : Revision, current : BOOLEAN]
  BY <1>1, StaleClosures
<1>4. SUFFICES ASSUME flight' = flight \ {f} PROVE FALSE
  OBVIOUS
<1>5. g \in flight /\ g # f
  BY <1>2, <1>4
<1>6. CASE f.current
  BY <1>1, <1>2, <1>3, <1>5, <1>6 DEF ClosureInv
<1>7. CASE ~f.current
  <2>1. f \in [rev : Revision, current : BOOLEAN]
    BY <1>1
  <2>2. f.current = g.current
    BY <1>3, <1>7, <2>1
  <2>3. f = g
    BY <1>2, <1>3, <2>1, <2>2
  <2> QED BY <1>5, <2>3
<1> QED BY <1>6, <1>7

\* A rollback only ever undoes the Test the record still names: applyRollback
\* re-checks the record under applyMu, so a closure that waited for the lock
\* while its Test was kept, replaced or rolled back leaves the router alone.
THEOREM RollbacksUndoTheTest == Spec => RollbackUndoesTheTest
<1>1. RecordInv /\ [Next]_vars =>
        [\A f \in flight :
           (flight' = flight \ {f} /\ crashes' = crashes /\ rec.live.id # f.rev.id)
             => router' = router]_vars
  <2> SUFFICES ASSUME RecordInv, Next, NEW f \in flight,
                      flight' = flight \ {f}, crashes' = crashes, rec.live.id # f.rev.id
               PROVE  router' = router
    OBVIOUS
  <2>1. TypeOK /\ flight' # flight
    BY DEF RecordInv
  <2>2. ASSUME NEW phase, Close(phase) PROVE FALSE
    BY <2>2, ClosuresStay DEF Close
  <2>3. ASSUME NEW sh \in Shapes, Apply(sh) PROVE router' = router
    <3>1. \/ Succeeded(Next1(sh)) \/ UNCHANGED <<router, rec, win, flight, seq>>
          \/ RolledBackAgain(Next1(sh)) \/ NotRolledBack(Next1(sh))
      BY <2>1, <2>3, ApplyEnds
    <3>2. CASE Succeeded(Next1(sh))
      <4>1. flight' = Stale
        BY <3>2 DEF Succeeded, Close, Arm
      <4> QED BY <4>1, ClosuresStay
    <3>3. CASE RolledBackAgain(Next1(sh))
      BY <2>1, <2>2, <3>3 DEF RolledBackAgain
    <3>4. CASE NotRolledBack(Next1(sh))
      BY <2>1, <3>4 DEF NotRolledBack
    <3> QED BY <3>1, <3>2, <3>3, <3>4
  <2>4. CASE Keep \/ KeepConfirms \/ RollBack \/ WindowOver
    BY <2>1, <2>4 DEF Keep, KeepConfirms, RollBack, WindowOver
  <2>5. CASE Dispatch
    BY <2>5 DEF Dispatch
  <2>6. ASSUME NEW g \in flight, Closure(g) PROVE router' = router
    <3>1. flight' = flight \ {g}
      BY <2>6 DEF Closure
    <3>2. g = f
      BY <3>1
    <3>3. ~ClosureRuns(g)
      BY <3>2 DEF ClosureRuns
    <3> QED BY <2>6, <3>3 DEF Closure
  <2>7. CASE RoutingOff
    BY <2>2, <2>7 DEF RoutingOff, Disarm
  <2>8. CASE \/ RoutingOn \/ FirmwareDrop \/ Reconcile \/ ConvergeAfterInstall \/ CoreDies \/ Watchdog
             \/ CoreRestartDue \/ RestartCoreOnSchedule
    BY <2>1, <2>8 DEF RoutingOn, FirmwareDrop, Reconcile, ConvergeAfterInstall, CoreDies, Watchdog,
       CoreRestartDue, RestartCoreOnSchedule
  <2>9. ASSUME NEW how \in Restarts,
               \/ Crash(how) \/ CrashInRollback(how) \/ CrashInRoutingOff(how) \/ CrashInRoutingOn(how)
               \/ \E sh \in Shapes : CrashInApply(sh, how)
        PROVE  FALSE
    <3>1. crashes' = crashes + 1
      BY <2>9 DEF Crash, CrashInRollback, CrashInRoutingOff, CrashInRoutingOn, CrashInApply, GoDown
    <3>2. crashes \in Nat
      BY <2>1, LifecycleAssumption DEF TypeOK
    <3> QED BY <3>1, <3>2
  <2>10. CASE StartApply \/ BootPicks
    BY <2>1, <2>10 DEF StartApply, BootPicks
  <2>11. CASE ConvergeOnBootOnce \/ RollbackLiveOnBootOnce \/ ReassertRoutingOff
    BY <2>1, <2>11, BootActs
  <2> QED BY <2>3, <2>4, <2>5, <2>6, <2>7, <2>8, <2>9, <2>10, <2>11 DEF Next
<1> QED BY <1>1, RecordCorrect, PTL DEF Spec, RollbackUndoesTheTest

-----------------------------------------------------------------------------
(* The core follows the record                                             *)

CoreSafe == OffInv /\ CoreInv /\ OffStaysOff

\* The core runs base or nothing, and nothing else would be started.
Matches(base, r) ==
  /\ r.core \in {0, base.id}
  /\ r.desired => base.core /\ r.file = base.id

LEMMA ReachedMatches ==
  ASSUME NEW m, NEW x, Reached(m, x)
  PROVE  Matches(m, x)
BY DEF Reached, Matches

LEMMA TouchedMatches ==
  ASSUME NEW r, NEW m, NEW x, Touches(r, m, x), Matches(m, r)
  PROVE  Matches(m, x)
BY DEF Touches, Matches

\* A step that ends with routing on.
LEMMA RoutingIsOn ==
  ASSUME rec'.off = NotOff, boot'.pc # "down", ~scheduled',
         \/ rec'.live # Nil /\ rec'.mark.id = rec'.live.id
         \/ Matches(AppliedBaseline', router')
  PROVE  CoreSafe'
<1>1. ~rec'.off.on
  BY DEF NotOff
<1>2. OffInv'
  BY <1>1 DEF OffInv
<1>3. OffStaysOff'
  BY <1>1 DEF OffStaysOff
<1>4. CoreInv'
  BY <1>1 DEF CoreInv, Clean, RollbackOutstanding, Matches
<1> QED BY <1>2, <1>3, <1>4 DEF CoreSafe

\* A step of the router alone.
LEMMA RecordStands ==
  ASSUME CoreSafe, UNCHANGED <<rec, boot>>, ~scheduled',
         boot.pc = "down" => router'.core = 0 /\ ~router'.desired /\ flight' = {} /\ ~keeping',
         rec.off.on => ~router'.desired /\ router'.core \in {router.core, 0} /\ router'.rules \subseteq router.rules,
         Matches(AppliedBaseline, router) => Matches(AppliedBaseline, router')
  PROVE  CoreSafe'
<1>1. OffInv /\ CoreInv /\ OffStaysOff
  BY DEF CoreSafe
<1>2. OffInv'
  BY <1>1 DEF OffInv
<1>3. CoreInv'
  <2>1. AppliedBaseline' = AppliedBaseline /\ Clean' = Clean
    BY DEF AppliedBaseline, Clean, RollbackOutstanding
  <2> QED BY <1>1, <2>1 DEF CoreInv, Matches
<1>4. OffStaysOff'
  BY <1>1 DEF OffStaysOff
<1> QED BY <1>2, <1>3, <1>4 DEF CoreSafe

\* Apply, Keep, Roll back and the window's rollback.
LEMMA RequestsCoreSafe ==
  ASSUME RecordInv, CoreSafe
  PROVE  /\ \A sh \in Shapes : Apply(sh) => CoreSafe'
         /\ Keep => CoreSafe'
         /\ KeepConfirms => CoreSafe'
         /\ RollBack => CoreSafe'
         /\ Dispatch => CoreSafe'
         /\ WindowOver => CoreSafe'
         /\ \A f \in flight : Closure(f) => CoreSafe'
<1>1. TypeOK /\ IdInv /\ ClosureInv /\ OffInv /\ CoreInv
  BY DEF RecordInv, CoreSafe
<1>2. router \in Router /\ rec \in Record /\ rec.live \in Revision
  BY <1>1 DEF TypeOK, Record
<1>3. /\ ~rec.off.on => rec.off = NotOff
      /\ rec.live # Nil => ~rec.off.on
      /\ ~scheduled
  BY <1>1 DEF OffInv
<1>4. ASSUME NEW live \in Revision, RollBackLive(live), rec.live # Nil, rec.live.id = live.id,
             boot'.pc # "down", ~scheduled'
      PROVE  CoreSafe'
  <2>1. /\ rec'.committed = rec.committed /\ rec'.off = rec.off
        /\ \/ rec'.live = Nil /\ Reached(rec.committed, router')
           \/ rec'.live = rec.live /\ rec'.mark.id = rec.live.id
    BY <1>1, <1>4, LiveRolledBack
  <2>2. rec'.off = NotOff
    BY <1>3, <1>4, <2>1
  <2>3. CASE rec'.live = Nil /\ Reached(rec.committed, router')
    <3>1. AppliedBaseline' = rec.committed
      BY <2>1, <2>3 DEF AppliedBaseline
    <3> QED BY <1>4, <2>2, <2>3, <3>1, ReachedMatches, RoutingIsOn
  <2>4. CASE rec'.live = rec.live /\ rec'.mark.id = rec.live.id
    BY <1>4, <2>2, <2>4, RoutingIsOn
  <2> QED BY <2>1, <2>3, <2>4
<1>5. ASSUME NEW sh \in Shapes, Apply(sh) PROVE CoreSafe'
  <2> DEFINE m == Next1(sh)
  <2>1. /\ m # Nil /\ ~rec.off.on
        /\ \/ Succeeded(m) \/ UNCHANGED <<router, rec, win, flight, seq>>
           \/ RolledBackAgain(m) \/ NotRolledBack(m)
        /\ UNCHANGED <<keeping, boot, crashes, mishaps, scheduled>>
    BY <1>1, <1>5, ApplyEnds
  <2>2. boot'.pc # "down" /\ ~scheduled'
    BY <1>3, <1>5, <2>1 DEF Apply, Up
  <2> HIDE DEF m
  <2>3. CASE Succeeded(m)
    <3>1. PICK save \in BOOLEAN : rec' = RecordApplied(save, m)
      BY <2>3 DEF Succeeded
    <3>2. /\ rec'.off = NotOff
          /\ rec'.live = IF save THEN Nil ELSE m
          /\ rec'.committed = IF save THEN m ELSE rec.committed
      BY <1>2, <1>3, <2>1, <3>1, RecordFields
    <3>3. AppliedBaseline' = m
      BY <2>1, <3>2 DEF AppliedBaseline
    <3>4. Matches(m, router')
      BY <2>3, ReachedMatches DEF Succeeded
    <3> QED BY <2>2, <3>2, <3>3, <3>4, RoutingIsOn
  <2>4. CASE UNCHANGED <<router, rec, win, flight, seq>>
    <3>1. UNCHANGED vars
      BY <2>1, <2>4 DEF vars
    <3> QED BY <3>1 DEF CoreSafe, OffInv, CoreInv, OffStaysOff, Clean, RollbackOutstanding, AppliedBaseline, vars
  <2>5. CASE RolledBackAgain(m)
    <3>1. /\ Matches(RollbackTarget, router')
          /\ IF RollbackOutstanding THEN rec' = RecordRollback ELSE rec' = rec
      BY <2>5, ReachedMatches DEF RolledBackAgain
    <3>2. rec'.off = NotOff
      BY <1>2, <1>3, <2>1, <3>1, RecordFields
    <3>3. AppliedBaseline' = RollbackTarget
      <4>1. CASE RollbackOutstanding
        <5>1. rec'.live = Nil /\ rec'.committed = rec.committed
          BY <1>2, <3>1, <4>1, RecordFields
        <5> QED BY <4>1, <5>1 DEF AppliedBaseline, RollbackTarget
      <4>2. CASE ~RollbackOutstanding
        BY <3>1, <4>2 DEF AppliedBaseline, RollbackTarget
      <4> QED BY <4>1, <4>2
    <3> QED BY <2>2, <3>1, <3>2, <3>3, RoutingIsOn
  <2>6. CASE NotRolledBack(m)
    <3>1. rec'.off = rec.off /\ rec'.live # Nil /\ rec'.mark.id = rec'.live.id
      BY <2>6 DEF NotRolledBack, Marked
    <3> QED BY <1>3, <2>1, <2>2, <3>1, RoutingIsOn
  <2> QED BY <2>1, <2>3, <2>4, <2>5, <2>6
<1>6. ASSUME Keep PROVE CoreSafe'
  <2>1. /\ boot.pc # "down" /\ rec.live # Nil /\ ~RollbackOutstanding
        /\ router' \in {router, Saved(router)} /\ rec' = RecordCommit
        /\ UNCHANGED <<win, flight, boot, seq, crashes, mishaps, scheduled>>
    BY <1>6 DEF Keep, Up, MayKeep
  <2>2. rec'.committed = rec.live /\ rec'.live = Nil /\ rec'.off = NotOff
    BY <1>2, <1>3, <2>1, RecordFields
  <2>3. AppliedBaseline = rec.live /\ AppliedBaseline' = rec.live
    BY <2>1, <2>2 DEF AppliedBaseline
  <2>4. Matches(rec.live, router)
    BY <1>1, <1>3, <2>1, <2>3 DEF CoreInv, Clean, Matches
  <2>5. router'.core = router.core /\ router'.file = router.file /\ router'.desired = router.desired
    BY <1>2, <2>1, SavedKeeps
  <2>6. Matches(rec.live, router')
    BY <2>4, <2>5 DEF Matches
  <2> QED BY <1>3, <2>1, <2>2, <2>3, <2>6, RoutingIsOn
<1>7. ASSUME KeepConfirms \/ Dispatch \/ WindowOver PROVE CoreSafe'
  <2>1. UNCHANGED <<router, rec, boot, scheduled>>
    BY <1>7 DEF KeepConfirms, Dispatch, WindowOver
  <2>2. boot.pc = "down" => flight' = {} /\ ~keeping'
    BY <1>1, <1>7 DEF OffInv, KeepConfirms, Dispatch, WindowOver, Up
  <2>3. boot.pc = "down" => router.core = 0 /\ ~router.desired
    BY <1>1 DEF OffInv
  <2>4. rec.off.on => ~router.desired
    BY <1>1 DEF OffInv
  <2> QED BY <1>3, <2>1, <2>2, <2>3, <2>4, RecordStands
<1>8. ASSUME RollBack PROVE CoreSafe'
  <2>1. /\ boot'.pc # "down" /\ ~scheduled' /\ rec.live # Nil /\ RollBackLive(rec.live)
    BY <1>3, <1>8 DEF RollBack, Up
  <2> QED BY <1>2, <1>4, <2>1
<1>9. ASSUME NEW f \in flight, Closure(f) PROVE CoreSafe'
  <2>1. /\ UNCHANGED <<keeping, boot, seq, crashes, mishaps, scheduled>> /\ flight' = flight \ {f}
    BY <1>9 DEF Closure
  <2>2. boot.pc # "down"
    BY <1>1 DEF OffInv
  <2>3. CASE ClosureRuns(f)
    <3>1. RollBackLive(f.rev) /\ f.current /\ rec.live.id = f.rev.id
      BY <1>9, <2>3 DEF Closure, ClosureRuns
    <3>2. f.rev \in Held /\ rec.live \in Held /\ f.rev \in Revision
      BY <1>1, Held1
    <3>3. rec.live = f.rev /\ f.rev # Nil
      BY <1>1, <3>1, <3>2 DEF IdInv, ClosureInv
    <3> QED BY <1>3, <1>4, <2>1, <2>2, <3>1, <3>2, <3>3
  <2>4. CASE ~ClosureRuns(f)
    <3>1. UNCHANGED <<router, rec, win>>
      BY <1>9, <2>4 DEF Closure
    <3>2. rec.off.on => ~router.desired
      BY <1>1 DEF OffInv
    <3> QED BY <1>3, <2>1, <2>2, <3>1, <3>2, RecordStands
  <2> QED BY <2>3, <2>4
<1> QED BY <1>5, <1>6, <1>7, <1>8, <1>9

\* Routing that was removed without an error is gone.
LEMMA RemovedIsGone ==
  ASSUME RecordInv, NEW l \in Held, NEW o \in RemoveRouting(router, Revs(l)), o.ok
  PROVE  /\ o.r.core = 0 /\ ~o.r.desired
         /\ o.r.rules \cap {rec.committed.id, l.id} = {}
<1>1. TypeOK /\ IdInv
  BY DEF RecordInv
<1>2. router \in Router /\ rec.committed \in Held /\ Held \subseteq Revision
  BY <1>1, Held1 DEF TypeOK
<1>3. Revs(l) \in SUBSET Revision
  BY <1>2 DEF Revs
<1>4. /\ Touches(router, Nil, o.r) /\ ~o.r.desired
      /\ o.r.core = 0 /\ \A v \in Revs(l) : v.kernel => v.id \notin o.r.rules
  BY <1>2, <1>3, RemoveTouches
<1>5. o.r.rules \subseteq router.rules
  BY <1>4, Basics DEF Touches
<1>6. ASSUME NEW v \in {rec.committed, l} PROVE v.id \notin o.r.rules
  <2>1. CASE v = Nil
    BY <1>1, <1>5, <2>1 DEF IdInv, Nil, TypeOK, Id
  <2>2. CASE v # Nil /\ v.kernel
    BY <1>4, <2>2 DEF Revs
  <2>3. CASE ~v.kernel
    BY <1>1, <1>2, <1>5, <2>3 DEF IdInv
  <2> QED BY <2>1, <2>2, <2>3
<1> QED BY <1>4, <1>6

\* A step that ends with routing off.
LEMMA RoutingIsOff ==
  ASSUME rec'.off.on, rec'.live = Nil, boot'.pc # "down", ~scheduled', ~router'.desired,
         rec'.off.leftover = Nil => router'.core \in {0, rec'.committed.id},
         ~rec'.off.err => /\ router'.core = 0
                          /\ router'.rules \cap {rec'.committed.id, rec'.off.leftover.id} = {}
  PROVE  CoreSafe'
<1>1. OffInv'
  BY DEF OffInv
<1>2. OffStaysOff'
  BY DEF OffStaysOff
<1>3. CoreInv'
  BY DEF CoreInv, Clean, AppliedBaseline
<1> QED BY <1>1, <1>2, <1>3 DEF CoreSafe

\* The routing switch.
LEMMA SwitchCoreSafe ==
  ASSUME RecordInv, CoreSafe
  PROVE  /\ RoutingOff => CoreSafe'
         /\ RoutingOn => CoreSafe'
<1>1. TypeOK /\ IdInv /\ OffInv /\ CoreInv
  BY DEF RecordInv, CoreSafe
<1>2. router \in Router /\ rec \in Record /\ boot \in BootState
  BY <1>1 DEF TypeOK, BootState
<1>3. /\ ~rec.off.on => rec.off = NotOff
      /\ rec.off.on => rec.live = Nil /\ ~router.desired
      /\ ~scheduled
  BY <1>1 DEF OffInv
<1>4. /\ Nil \in Held /\ rec.committed \in Held /\ rec.live \in Held
      /\ rec.off.leftover \in Held /\ Held \subseteq Revision
  BY <1>1, Held1
<1>5. \A l \in Held : Revs(l) \in SUBSET Revision
  BY <1>4 DEF Revs
<1>6. (rec.live = Nil /\ rec.off.leftover = Nil) => router.core \in {0, rec.committed.id}
  BY <1>1 DEF CoreInv, Clean, RollbackOutstanding, AppliedBaseline
<1>7. ASSUME RoutingOff PROVE CoreSafe'
  <2> DEFINE l == SwitchedOff(FALSE).off.leftover
  <2>1. PICK o \in RemoveRouting(router, Revs(l)) : router' = o.r /\ rec' = SwitchedOff(~o.ok)
    BY <1>7 DEF RoutingOff
  <2>2. boot' = [boot EXCEPT !.moved = TRUE] /\ scheduled' = scheduled /\ boot.pc # "down"
    BY <1>7 DEF RoutingOff, Up
  <2>3. boot'.pc # "down"
    BY <1>2, <2>2 DEF BootState
  <2>4. l = IF rec.live # Nil THEN rec.live ELSE rec.off.leftover
    BY <1>2, RecordFields
  <2>5. /\ rec'.committed = rec.committed /\ rec'.live = Nil /\ rec'.off.on = TRUE
        /\ rec'.off.err = ~o.ok /\ rec'.off.leftover = l
    <3>1. PICK e \in BOOLEAN : e = ~o.ok
      OBVIOUS
    <3>2. rec' = SwitchedOff(e)
      BY <2>1, <3>1
    <3>3. /\ rec'.committed = rec.committed /\ rec'.live = Nil /\ rec'.off.on = TRUE
          /\ rec'.off.err = e
          /\ rec'.off.leftover = IF rec.live # Nil THEN rec.live ELSE rec.off.leftover
      BY <1>2, <3>2, RecordFields
    <3> HIDE DEF l
    <3> QED BY <2>4, <3>1, <3>3
  <2>6. l \in Held
    BY <1>4, <2>4
  <2> HIDE DEF l
  <2>7. Touches(router, Nil, o.r) /\ ~o.r.desired /\ o.ok \in BOOLEAN
    BY <1>2, <1>5, <2>6, RemoveTouches
  <2>8. o.r.core \in {router.core, 0}
    BY <2>7 DEF Touches, Nil
  <2>9. ~rec'.off.err => /\ router'.core = 0
                         /\ router'.rules \cap {rec'.committed.id, rec'.off.leftover.id} = {}
    BY <2>1, <2>5, <2>6, RemovedIsGone
  <2>10. rec'.off.leftover = Nil => router'.core \in {0, rec'.committed.id}
    BY <1>6, <2>1, <2>4, <2>5, <2>8
  <2> QED BY <1>3, <2>1, <2>2, <2>3, <2>5, <2>7, <2>9, <2>10, RoutingIsOff
<1>8. ASSUME RoutingOn PROVE CoreSafe'
  <2>1. PICK o \in SwitchingOn : SwitchesOn(o) \/ StaysOff(o)
    BY <1>8 DEF RoutingOn
  <2>2. boot'.pc # "down" /\ ~scheduled' /\ rec.off.on
    BY <1>3, <1>8 DEF RoutingOn, Up
  <2>3. rec.live = Nil /\ ~router.desired
    BY <1>3, <2>2
  <2>4. /\ o \in Outcome /\ Touches(router, rec.committed, o.r)
        /\ o.err # "failed" => Reached(rec.committed, o.r)
                              \/ (rec.off.leftover = Nil /\ rec.committed = Nil /\ o.r = router)
        /\ o.err = "leftover" => rec.off.leftover # Nil
    BY <1>1, SwitchingOnTouches
  <2>5. o.r \in Router
    BY <2>4 DEF Touches
  <2>6. CASE SwitchesOn(o)
    <3> DEFINE on == [rec EXCEPT !.off = NotOff]
    <3>1. /\ o.err # "failed" /\ router' \in {o.r, Saved(o.r)}
          /\ rec' = IF o.err = "none" THEN on ELSE NoteLiveOutstanding(on, rec.off.leftover, "committed")
      BY <2>6 DEF SwitchesOn
    <3>2. on \in Record /\ on.off = NotOff /\ on.live = Nil /\ on.committed = rec.committed
      BY <1>2, <2>3, Basics DEF Record, NotOff
    <3> HIDE DEF on
    <3>3. CASE o.err = "none"
      <4>1. rec' = on
        BY <3>1, <3>3
      <4>2. AppliedBaseline' = rec.committed
        BY <3>2, <4>1 DEF AppliedBaseline
      <4>3. Matches(rec.committed, o.r)
        <5>1. CASE Reached(rec.committed, o.r)
          BY <5>1, ReachedMatches
        <5>2. CASE rec.off.leftover = Nil /\ rec.committed = Nil /\ o.r = router
          BY <1>6, <2>3, <5>2 DEF Matches
        <5> QED BY <2>4, <3>1, <5>1, <5>2
      <4>4. router'.core = o.r.core /\ router'.file = o.r.file /\ router'.desired = o.r.desired
        BY <2>5, <3>1, SavedKeeps
      <4>5. Matches(rec.committed, router')
        BY <4>3, <4>4 DEF Matches
      <4>6. rec'.off = NotOff
        BY <3>2, <4>1
      <4> QED BY <2>2, <4>2, <4>5, <4>6, RoutingIsOn
    <3>4. CASE o.err # "none"
      <4>1. rec' = NoteLiveOutstanding(on, rec.off.leftover, "committed") /\ o.err = "leftover"
        BY <2>4, <3>1, <3>4 DEF Outcome
      <4>2. /\ rec'.live = rec.off.leftover /\ rec'.mark.id = rec.off.leftover.id /\ rec'.off = on.off
        BY <1>2, <3>2, <4>1, RecordFields
      <4> QED BY <2>2, <2>4, <3>2, <4>1, <4>2, RoutingIsOn
    <3> QED BY <3>3, <3>4
  <2>7. CASE StaysOff(o)
    <3>1. PICK x \in RemoveRouting(o.r, Revs(rec.off.leftover)) : router' = x.r
      BY <2>7 DEF StaysOff
    <3>2. rec' = [rec EXCEPT !.off.err = TRUE]
      BY <2>7 DEF StaysOff
    <3>3. /\ rec'.off.on = rec.off.on /\ rec'.off.err = TRUE /\ rec'.live = rec.live
          /\ rec'.committed = rec.committed /\ rec'.off.leftover = rec.off.leftover
      BY <1>2, <3>2, OffVerdict
    <3>4. Touches(o.r, Nil, x.r) /\ ~x.r.desired
      BY <1>4, <1>5, <2>5, <3>1, RemoveTouches
    <3>5. x.r.core \in {router.core, 0, rec.committed.id}
      BY <2>4, <3>4 DEF Touches, Nil
    <3>6. rec'.off.leftover = Nil => router'.core \in {0, rec'.committed.id}
      BY <1>6, <2>3, <3>1, <3>3, <3>5
    <3> QED BY <2>2, <2>3, <3>1, <3>3, <3>4, <3>6, RoutingIsOff
  <2> QED BY <2>1, <2>6, <2>7
<1> QED BY <1>7, <1>8

\* Supervision, when no restart of the core is scheduled.
LEMMA SupervisionCoreSafe ==
  ASSUME RecordInv, CoreSafe, ~CoreRestart
  PROVE  /\ FirmwareDrop => CoreSafe'
         /\ Reconcile => CoreSafe'
         /\ ConvergeAfterInstall => CoreSafe'
         /\ CoreDies => CoreSafe'
         /\ Watchdog => CoreSafe'
         /\ ~CoreRestartDue /\ ~RestartCoreOnSchedule
<1>1. TypeOK /\ OffInv /\ CoreInv
  BY DEF RecordInv, CoreSafe
<1>2. router \in Router /\ rec \in Record
  BY <1>1 DEF TypeOK
<1>3. /\ rec.off.on => ~router.desired
      /\ boot.pc = "down" => router.core = 0 /\ ~router.desired /\ flight = {} /\ ~keeping
      /\ ~scheduled
  BY <1>1 DEF OffInv
<1>4. /\ rec.committed \in Held /\ rec.live \in Held /\ AppliedBaseline \in Held /\ Nil \in Held
      /\ Held \subseteq Revision
  BY <1>1, Held1
<1>5. ~CoreRestartDue /\ ~RestartCoreOnSchedule
  BY <1>3 DEF CoreRestartDue, RestartCoreOnSchedule
<1>6. ASSUME FirmwareDrop PROVE CoreSafe'
  <2>1. /\ router' = [router EXCEPT !.lost = TRUE]
        /\ UNCHANGED <<rec, win, flight, keeping, boot, seq, crashes, mishaps, scheduled>>
    BY <1>6 DEF FirmwareDrop
  <2>2. /\ router'.core = router.core /\ router'.file = router.file
        /\ router'.desired = router.desired /\ router'.rules = router.rules
    BY <1>2, <2>1 DEF Router
  <2> QED BY <1>3, <2>1, <2>2, RecordStands DEF Matches
<1>7. ASSUME Reconcile PROVE CoreSafe'
  <2> DEFINE base == SupervisedBaseline
  <2>1. /\ router' \in KernelDamage(router, base, {}) \cup {Installed(router, base, {}, {}, {"kernel"})}
        /\ boot.pc = "idle" /\ ~rec.off.on
        /\ UNCHANGED <<rec, win, flight, keeping, boot, seq, crashes, mishaps, scheduled>>
    BY <1>7 DEF Reconcile
  <2>2. base \in Revision
    <3>1. rec.mark.plane \in KernelPlane
      BY <1>2 DEF Record
    <3> QED BY <1>4, <3>1 DEF SupervisedBaseline, KernelPlane
  <2> HIDE DEF base
  <2>3. router'.core = router.core /\ router'.file = router.file /\ router'.desired = router.desired
    BY <1>2, <2>1, <2>2, KernelOnly
  <2> QED BY <1>3, <2>1, <2>3, RecordStands DEF Matches
<1>8. ASSUME ConvergeAfterInstall PROVE CoreSafe'
  <2>1. PICK o \in Converge(router, AppliedBaseline) : router' = o.r
    BY <1>8 DEF ConvergeAfterInstall
  <2>2. /\ boot.pc # "down" /\ ~rec.off.on
        /\ UNCHANGED <<rec, win, flight, keeping, boot, seq, crashes, mishaps, scheduled>>
    BY <1>8 DEF ConvergeAfterInstall, Up
  <2>3. Touches(router, AppliedBaseline, o.r)
    BY <1>2, <1>4, Basics, ExecuteTouches DEF Converge
  <2>4. Matches(AppliedBaseline, router) => Matches(AppliedBaseline, router')
    BY <2>1, <2>3, TouchedMatches
  <2> QED BY <1>3, <2>2, <2>4, RecordStands
<1>9. ASSUME CoreDies PROVE CoreSafe'
  <2>1. /\ router' = [router EXCEPT !.core = 0]
        /\ UNCHANGED <<rec, win, flight, keeping, boot, seq, crashes, mishaps, scheduled>>
    BY <1>9 DEF CoreDies
  <2>2. /\ router'.core = 0 /\ router'.file = router.file
        /\ router'.desired = router.desired /\ router'.rules = router.rules
    BY <1>2, <2>1 DEF Router
  <2> QED BY <1>3, <2>1, <2>2, RecordStands DEF Matches
<1>10. ASSUME Watchdog PROVE CoreSafe'
  <2>1. /\ router.desired /\ router' = [router EXCEPT !.core = router.file]
        /\ UNCHANGED <<rec, win, flight, keeping, boot, seq, crashes, mishaps, scheduled>>
    BY <1>10 DEF Watchdog
  <2>2. /\ router'.core = router.file /\ router'.file = router.file
        /\ router'.desired = router.desired /\ router'.rules = router.rules
    BY <1>2, <2>1 DEF Router
  <2>3. Matches(AppliedBaseline, router) => Matches(AppliedBaseline, router')
    BY <2>1, <2>2 DEF Matches
  <2> QED BY <1>3, <2>1, <2>2, <2>3, RecordStands
<1> QED BY <1>5, <1>6, <1>7, <1>8, <1>9, <1>10

\* Crashes: the core is down with the daemon.
LEMMA DownIsSafe ==
  ASSUME RecordInv, CoreSafe, NEW how \in Restarts, NEW r \in Router, NEW record \in Record,
         ~record.off.on => record.off = NotOff, record.off.on => record.live = Nil,
         GoDown(r, record, how)
  PROVE  CoreSafe'
<1>1. /\ router' = IF how = "reboot" THEN AfterReboot(r) ELSE AfterRestart(r)
      /\ rec' = [record EXCEPT !.sameBoot = @ /\ how # "reboot"]
      /\ boot' = Down /\ flight' = {} /\ keeping' = FALSE /\ scheduled' = FALSE
  BY DEF GoDown
<1>2. router'.core = 0 /\ ~router'.desired
  BY <1>1, DownTouches
<1>3. rec'.live = record.live /\ rec'.off = record.off
  <2> DEFINE same == record.sameBoot /\ how # "reboot"
  <2>1. rec' = [record EXCEPT !.sameBoot = same]
    BY <1>1
  <2> HIDE DEF same
  <2> QED BY <2>1 DEF Record
<1>4. boot'.pc = "down"
  BY <1>1 DEF Down
<1>5. OffInv'
  BY <1>1, <1>2, <1>3, <1>4 DEF OffInv
<1>6. CoreInv'
  BY <1>2 DEF CoreInv
<1>7. OffStaysOff'
  BY <1>4 DEF OffStaysOff
<1> QED BY <1>5, <1>6, <1>7 DEF CoreSafe

LEMMA CrashCoreSafe ==
  ASSUME RecordInv, CoreSafe, NEW how \in Restarts
  PROVE  /\ Crash(how) => CoreSafe'
         /\ CrashInRollback(how) => CoreSafe'
         /\ CrashInRoutingOff(how) => CoreSafe'
         /\ CrashInRoutingOn(how) => CoreSafe'
         /\ \A sh \in Shapes : CrashInApply(sh, how) => CoreSafe'
<1>1. TypeOK /\ OffInv
  BY DEF RecordInv, CoreSafe
<1>2. router \in Router /\ rec \in Record /\ rec.committed \in Revision /\ rec.live \in Revision
  BY <1>1 DEF TypeOK, Record
<1>3. (~rec.off.on => rec.off = NotOff) /\ (rec.off.on => rec.live = Nil)
  BY <1>1 DEF OffInv
<1>4. ASSUME Crash(how) PROVE CoreSafe'
  BY <1>2, <1>3, <1>4, DownIsSafe DEF Crash
<1>5. ASSUME CrashInRollback(how) PROVE CoreSafe'
  <2>1. \E r \in {b.r : b \in RollbackTo(router, rec.committed, rec.live)} : GoDown(r, rec, how)
    BY <1>5 DEF CrashInRollback
  <2>2. PICK b \in RollbackTo(router, rec.committed, rec.live) : GoDown(b.r, rec, how)
    BY <2>1
  <2>3. b.r \in Router
    BY <1>2, RollbackTouches DEF Touches
  <2> QED BY <1>2, <1>3, <2>2, <2>3, DownIsSafe
<1>6. ASSUME CrashInRoutingOff(how) PROVE CoreSafe'
  <2> DEFINE record == SwitchedOff(FALSE)
  <2>1. \E r \in {o.r : o \in RemoveRouting(router, Revs(record.off.leftover))} : GoDown(r, record, how)
    BY <1>6 DEF CrashInRoutingOff
  <2>2. PICK o \in RemoveRouting(router, Revs(record.off.leftover)) : GoDown(o.r, record, how)
    BY <2>1
  <2>3. record \in Record /\ record.off.on = TRUE /\ record.live = Nil
    BY <1>2, RecordTypes, RecordFields
  <2> HIDE DEF record
  <2>4. Revs(record.off.leftover) \in SUBSET Revision
    BY <1>2, <2>3 DEF Revs, Record
  <2>5. o.r \in Router
    BY <1>2, <2>4, RemoveTouches DEF Touches
  <2> QED BY <2>2, <2>3, <2>5, DownIsSafe
<1>7. ASSUME CrashInRoutingOn(how) PROVE CoreSafe'
  <2>1. \E r \in {o.r : o \in SwitchingOn} : GoDown(r, rec, how)
    BY <1>7 DEF CrashInRoutingOn
  <2>2. PICK o \in SwitchingOn : GoDown(o.r, rec, how)
    BY <2>1
  <2>3. o.r \in Router
    BY <1>1, SwitchingOnTouches DEF Touches
  <2> QED BY <1>2, <1>3, <2>2, <2>3, DownIsSafe
<1>8. ASSUME NEW sh \in Shapes, CrashInApply(sh, how) PROVE CoreSafe'
  <2> DEFINE m == Next1(sh)
             record == [rec EXCEPT !.inflight = TRUE]
  <2>1. PICK r \in UNION {{o.r} \cup {b.r : b \in IF o.ok THEN {} ELSE Recovery(m, o)} :
                          o \in Forward(m)} : GoDown(r, record, how)
    BY <1>8, Zenon DEF CrashInApply
  <2>2. seq < MaxRev
    BY <1>8 DEF CrashInApply
  <2>3. r \in Router
    BY <1>1, <2>1, <2>2, CrashedApply
  <2>4. record \in Record /\ record.live = rec.live /\ record.off = rec.off
    BY <1>2 DEF Record
  <2> HIDE DEF m, record
  <2> QED BY <1>3, <2>1, <2>3, <2>4, DownIsSafe
<1> QED BY <1>4, <1>5, <1>6, <1>7, <1>8

\* Boot.
LEMMA BootCoreSafe ==
  ASSUME RecordInv, TaskInv, CoreSafe
  PROVE  /\ StartApply => CoreSafe'
         /\ BootPicks => CoreSafe'
         /\ ConvergeOnBootOnce \/ RollbackLiveOnBootOnce \/ ReassertRoutingOff => CoreSafe'
<1>1. TypeOK /\ IdInv /\ OffInv /\ CoreInv /\ OffStaysOff
  BY DEF RecordInv, CoreSafe
<1>2. router \in Router /\ rec \in Record /\ boot \in BootState
  BY <1>1 DEF TypeOK, BootState
<1>3. /\ ~rec.off.on => rec.off = NotOff
      /\ rec.off.on => rec.live = Nil /\ ~router.desired
      /\ boot.pc = "down" => router.core = 0 /\ ~router.desired
      /\ ~scheduled
  BY <1>1 DEF OffInv
<1>4. /\ Nil \in Held /\ rec.committed \in Held /\ rec.live \in Held
      /\ rec.off.leftover \in Held /\ boot.rev \in Held /\ Held \subseteq Revision
  BY <1>1, Held1
<1>5. ASSUME StartApply PROVE CoreSafe'
  <2>1. /\ boot.pc = "down" /\ boot'.pc = "start"
        /\ rec' \in {[rec EXCEPT !.inflight = FALSE], RecordRollback}
        /\ UNCHANGED <<router, scheduled>>
    BY <1>5 DEF StartApply, DiscardLiveOnBoot
  <2>2. rec'.live \in {Nil, rec.live} /\ rec'.off = rec.off
    <3>1. CASE rec' = [rec EXCEPT !.inflight = FALSE]
      BY <1>2, <3>1 DEF Record
    <3>2. CASE rec' = RecordRollback
      BY <1>2, <3>2, RecordFields
    <3> QED BY <2>1, <3>1, <3>2
  <2>3. OffInv'
    BY <1>3, <2>1, <2>2 DEF OffInv
  <2>4. CoreInv'
    BY <1>3, <2>1 DEF CoreInv
  <2>5. OffStaysOff'
    BY <2>1 DEF OffStaysOff
  <2> QED BY <2>3, <2>4, <2>5 DEF CoreSafe
<1>6. ASSUME BootPicks PROVE CoreSafe'
  <2>1. UNCHANGED <<router, rec, win, flight, keeping, seq, crashes, mishaps, scheduled>>
    BY <1>6 DEF BootPicks
  <2>2. boot'.pc # "down" /\ (rec.off.on => boot'.pc = "off")
    BY <1>2, <1>6 DEF BootPicks, BootState
  <2>3. OffInv'
    BY <1>1, <2>1, <2>2 DEF OffInv
  <2>4. CoreInv'
    BY <1>1, <2>1 DEF CoreInv, Clean, RollbackOutstanding, AppliedBaseline
  <2>5. OffStaysOff'
    BY <2>1, <2>2 DEF OffStaysOff
  <2> QED BY <2>3, <2>4, <2>5 DEF CoreSafe
<1>7. ASSUME ConvergeOnBootOnce \/ RollbackLiveOnBootOnce \/ ReassertRoutingOff PROVE CoreSafe'
  <2>1. /\ (\E done : BootGoesOn(done)) /\ boot.pc \in {"converge", "rollback", "off"}
        /\ UNCHANGED <<win, flight, keeping, seq, crashes, mishaps, scheduled>>
        /\ \/ UNCHANGED <<router, rec>> /\ (boot.pc = "off" => ~rec.off.on)
           \/ /\ rec' = rec /\ ~rec.off.on /\ rec.live = Nil
              /\ \E o \in Converge(router, rec.committed) : router' = o.r
           \/ /\ ~rec.off.on /\ boot.pc = "rollback" /\ rec.live.id = boot.rev.id
              /\ RollBackLive(rec.live)
           \/ /\ boot.pc = "off" /\ rec.off.on
              /\ \E o \in RemoveRouting(router, Revs(rec.off.leftover)) :
                   /\ router' = o.r /\ rec' = [rec EXCEPT !.off.err = ~o.ok]
    BY <1>7, BootActs
  <2>2. boot'.pc \in {boot.pc, "idle"} /\ boot'.pc # "down" /\ ~scheduled'
    BY <1>2, <1>3, <2>1, BootStates
  <2>3. CASE UNCHANGED <<router, rec>> /\ (boot.pc = "off" => ~rec.off.on)
    <3>1. OffInv'
      BY <1>1, <2>2, <2>3 DEF OffInv
    <3>2. CoreInv'
      BY <1>1, <2>3 DEF CoreInv, Clean, RollbackOutstanding, AppliedBaseline
    <3>3. OffStaysOff'
      BY <1>1, <2>1, <2>2, <2>3 DEF OffStaysOff
    <3> QED BY <3>1, <3>2, <3>3 DEF CoreSafe
  <2>4. CASE /\ rec' = rec /\ ~rec.off.on /\ rec.live = Nil
             /\ \E o \in Converge(router, rec.committed) : router' = o.r
    <3>1. PICK o \in Converge(router, rec.committed) : router' = o.r
      BY <2>4
    <3>2. Touches(router, rec.committed, o.r)
      BY <1>2, <1>4, Basics, ExecuteTouches DEF Converge
    <3>3. AppliedBaseline = rec.committed /\ AppliedBaseline' = rec.committed
      BY <2>4 DEF AppliedBaseline
    <3>4. Matches(rec.committed, router)
      BY <1>1, <2>4, <3>3 DEF CoreInv, Clean, RollbackOutstanding, Matches
    <3>5. Matches(rec.committed, router')
      BY <3>1, <3>2, <3>4, TouchedMatches
    <3> QED BY <1>3, <2>2, <2>4, <3>3, <3>5, RoutingIsOn
  <2>5. CASE /\ ~rec.off.on /\ boot.pc = "rollback" /\ rec.live.id = boot.rev.id
             /\ RollBackLive(rec.live)
    <3>1. /\ rec'.committed = rec.committed /\ rec'.off = rec.off
          /\ \/ rec'.live = Nil /\ Reached(rec.committed, router')
             \/ rec'.live = rec.live /\ rec'.mark.id = rec.live.id
      BY <1>1, <1>4, <2>5, LiveRolledBack
    <3>2. CASE rec'.live = Nil /\ Reached(rec.committed, router')
      <4>1. AppliedBaseline' = rec.committed
        BY <3>1, <3>2 DEF AppliedBaseline
      <4> QED BY <1>3, <2>2, <2>5, <3>1, <3>2, <4>1, ReachedMatches, RoutingIsOn
    <3>3. boot.rev # Nil
      BY <2>5 DEF TaskInv
    <3>4. rec.live = boot.rev
      BY <1>1, <1>4, <2>5 DEF IdInv
    <3>5. CASE rec'.live = rec.live /\ rec'.mark.id = rec.live.id
      BY <1>3, <2>2, <2>5, <3>1, <3>3, <3>4, <3>5, RoutingIsOn
    <3> QED BY <3>1, <3>2, <3>5
  <2>6. CASE /\ boot.pc = "off" /\ rec.off.on
             /\ \E o \in RemoveRouting(router, Revs(rec.off.leftover)) :
                  /\ router' = o.r /\ rec' = [rec EXCEPT !.off.err = ~o.ok]
    <3>1. PICK o \in RemoveRouting(router, Revs(rec.off.leftover)) :
            /\ router' = o.r /\ rec' = [rec EXCEPT !.off.err = ~o.ok]
      BY <2>6
    <3>2. Revs(rec.off.leftover) \in SUBSET Revision
      BY <1>4 DEF Revs
    <3>3. Touches(router, Nil, o.r) /\ ~o.r.desired /\ o.ok \in BOOLEAN
      BY <1>2, <3>2, RemoveTouches
    <3>4. PICK e \in BOOLEAN : e = ~o.ok
      OBVIOUS
    <3>5. rec' = [rec EXCEPT !.off.err = e]
      BY <3>1, <3>4
    <3>6. /\ rec'.committed = rec.committed /\ rec'.live = rec.live /\ rec'.off.on = rec.off.on
          /\ rec'.off.leftover = rec.off.leftover /\ rec'.off.err = e
      BY <1>2, <3>5, OffVerdict
    <3>7. ~rec'.off.err => /\ router'.core = 0
                           /\ router'.rules \cap {rec'.committed.id, rec'.off.leftover.id} = {}
      BY <1>4, <3>1, <3>3, <3>4, <3>6, RemovedIsGone
    <3>8. o.r.core \in {router.core, 0}
      BY <3>3 DEF Touches, Nil
    <3>9. rec'.off.leftover = Nil => router'.core \in {0, rec'.committed.id}
      BY <1>1, <1>3, <2>6, <3>1, <3>6, <3>8 DEF CoreInv, AppliedBaseline
    <3> QED BY <1>3, <2>2, <2>6, <3>1, <3>3, <3>6, <3>7, <3>9, RoutingIsOff
  <2> QED BY <2>1, <2>3, <2>4, <2>5, <2>6
<1> QED BY <1>5, <1>6, <1>7

\* Boot's task.
LEMMA TaskKept ==
  ASSUME RecordInv, TaskInv, [Next]_vars
  PROVE  TaskInv'
<1>1. TypeOK
  BY DEF RecordInv
<1>2. boot \in BootState
  BY <1>1 DEF TypeOK, BootState
<1>3. CASE boot' = boot
  BY <1>3 DEF TaskInv
<1>4. CASE boot' = [boot EXCEPT !.moved = TRUE]
  <2>1. boot'.pc = boot.pc /\ boot'.rev = boot.rev
    BY <1>2, <1>4 DEF BootState
  <2> QED BY <2>1 DEF TaskInv
<1>5. ASSUME NEW done, BootGoesOn(done) PROVE TaskInv'
  BY <1>2, <1>5, BootStates DEF TaskInv
<1>6. CASE BootPicks
  BY <1>2, <1>6 DEF BootPicks, BootState, TaskInv
<1>7. CASE StartApply
  BY <1>7 DEF StartApply, TaskInv
<1>8. CASE boot' = Down
  BY <1>8 DEF Down, TaskInv
<1>9. ASSUME NEW how \in Restarts, NEW sh \in Shapes, CrashInApply(sh, how) PROVE boot' = Down
  BY <1>9 DEF CrashInApply, GoDown
<1>10. ASSUME NEW how \in Restarts,
              Crash(how) \/ CrashInRollback(how) \/ CrashInRoutingOff(how) \/ CrashInRoutingOn(how)
       PROVE  boot' = Down
  BY <1>10 DEF Crash, CrashInRollback, CrashInRoutingOff, CrashInRoutingOn, GoDown
<1>11. ASSUME NEW sh \in Shapes, Apply(sh) PROVE boot' = boot
  BY <1>11 DEF Apply
<1>12. ASSUME NEW f \in flight, Closure(f) PROVE boot' = boot
  BY <1>12 DEF Closure
<1>13. CASE \/ Keep \/ KeepConfirms \/ RollBack \/ Dispatch \/ WindowOver \/ RoutingOn
            \/ FirmwareDrop \/ Reconcile \/ ConvergeAfterInstall \/ CoreDies \/ Watchdog
            \/ CoreRestartDue \/ RestartCoreOnSchedule \/ UNCHANGED vars
  BY <1>3, <1>13 DEF Keep, KeepConfirms, RollBack, Dispatch, WindowOver, RoutingOn, FirmwareDrop,
     Reconcile, ConvergeAfterInstall, CoreDies, Watchdog, CoreRestartDue, RestartCoreOnSchedule, vars
<1>14. CASE RoutingOff
  BY <1>4, <1>14 DEF RoutingOff
<1>15. CASE ConvergeOnBootOnce \/ RollbackLiveOnBootOnce \/ ReassertRoutingOff
  BY <1>5, <1>15, BootActs
<1> QED BY <1>3, <1>6, <1>7, <1>8, <1>9, <1>10, <1>11, <1>12, <1>13, <1>14, <1>15 DEF Next

\* With no restart of the core on a schedule: a core the record does not name
\* is neither running nor wanted, and routing that is off stays off.
THEOREM CoreCorrect == ~CoreRestart => (Spec => [](TaskInv /\ CoreSafe))
<1> SUFFICES ASSUME ~CoreRestart PROVE Spec => [](TaskInv /\ CoreSafe)
  OBVIOUS
<1>1. Init => TaskInv /\ CoreSafe
  <2> SUFFICES ASSUME Init PROVE TaskInv /\ CoreSafe
    OBVIOUS
  <2>1. /\ router.core = 0 /\ ~router.desired /\ ~scheduled /\ boot.pc = "idle"
        /\ rec.off = NotOff
    BY DEF Init, Bare, EmptyRecord, Down
  <2>2. ~rec.off.on
    BY <2>1 DEF NotOff
  <2> QED BY <2>1, <2>2 DEF TaskInv, CoreSafe, OffInv, CoreInv, OffStaysOff
<1>2. RecordInv /\ TaskInv /\ CoreSafe /\ [Next]_vars => (TaskInv /\ CoreSafe)'
  <2> SUFFICES ASSUME RecordInv, TaskInv, CoreSafe, [Next]_vars PROVE CoreSafe'
    BY TaskKept
  <2>1. CASE UNCHANGED vars
    BY <2>1 DEF CoreSafe, OffInv, CoreInv, OffStaysOff, Clean, RollbackOutstanding, AppliedBaseline, vars
  <2>2. ASSUME NEW sh \in Shapes, Apply(sh) PROVE CoreSafe'
    BY <2>2, RequestsCoreSafe
  <2>3. CASE Keep \/ KeepConfirms \/ RollBack \/ Dispatch \/ WindowOver \/ \E f \in flight : Closure(f)
    BY <2>3, RequestsCoreSafe
  <2>4. CASE RoutingOff \/ RoutingOn
    BY <2>4, SwitchCoreSafe
  <2>5. CASE \/ FirmwareDrop \/ Reconcile \/ ConvergeAfterInstall \/ CoreDies \/ Watchdog
             \/ CoreRestartDue \/ RestartCoreOnSchedule
    BY <2>5, SupervisionCoreSafe
  <2>6. ASSUME NEW how \in Restarts,
               \/ Crash(how) \/ CrashInRollback(how) \/ CrashInRoutingOff(how) \/ CrashInRoutingOn(how)
               \/ \E sh \in Shapes : CrashInApply(sh, how)
        PROVE  CoreSafe'
    BY <2>6, CrashCoreSafe
  <2>7. CASE StartApply \/ BootPicks \/ ConvergeOnBootOnce \/ RollbackLiveOnBootOnce \/ ReassertRoutingOff
    BY <2>7, BootCoreSafe
  <2> QED BY <2>1, <2>2, <2>3, <2>4, <2>5, <2>6, <2>7 DEF Next
<1> QED BY <1>1, <1>2, RecordCorrect, PTL DEF Spec

\* While the record is clean, sing-box runs the configuration the record names
\* or none, and the watchdog would start no other: after any sequence of failed
\* Applies, failed rollbacks, crashes, reboots and uses of the routing switch.
THEOREM OnlyTheRecordedRuns == ~CoreRestart => (Spec => []OnlyRecordedRuns)
<1>1. CoreSafe => OnlyRecordedRuns
  BY DEF CoreSafe, CoreInv, OnlyRecordedRuns
<1> QED BY <1>1, CoreCorrect, PTL

\* Once routing is off and its removal reported no error, the core is down,
\* nothing wants it, and the kernel carries no rule of the committed
\* configuration or of the Test the switch took over.
THEOREM RoutingStaysOff == ~CoreRestart => (Spec => []OffStaysOff)
<1>1. CoreSafe => OffStaysOff
  BY DEF CoreSafe
<1> QED BY <1>1, CoreCorrect, PTL

=============================================================================
