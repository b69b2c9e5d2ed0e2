------------------------- MODULE ApplyRouterProofs -------------------------
(***************************************************************************)
(* Proofs about what the router carries: its kernel plane, its interfaces, *)
(* and the configuration boot leaves running.                              *)
(*                                                                         *)
(* The first part says what a run does to them beyond what Touches says:   *)
(* Ran for one execution, Undid for a rollback, one run or two.  The       *)
(* second shows how a step moves the record; the others prove the plane    *)
(* supervision puts back, boot, and the interfaces.                        *)
(***************************************************************************)
EXTENDS ApplyLifecycleProofs

-----------------------------------------------------------------------------
(* What one execution does to the plane and the interfaces                 *)

NativeOf(m) == IF m.native THEN {m.id} ELSE {}

\* A run of m that found router r: the verdict on the kernel plane is true, a
\* plane or a core config that is m's already stays, interfaces are only added
\* for m and only taken as removals, and a run that went through did it all.
Ran(r, m, removals, o) ==
  /\ o.plane = "tested" => o.r.plane = r.plane
  /\ o.plane = "committed" /\ m.kernel => o.r.plane = m.id
  /\ m.kernel /\ r.plane = m.id => o.r.plane = m.id
  /\ m.core /\ r.desired /\ r.file = m.id => o.r.desired /\ o.r.file = m.id
  /\ o.r.native \subseteq r.native \cup NativeOf(m)
  /\ r.native \ removals \subseteq o.r.native
  /\ o.ok => o.plane = "committed"
  /\ o.ok /\ m.native => o.r.native = (r.native \cup {m.id}) \ removals

\* The router after the steps in done, field by field.
LEMMA InstalledFields ==
  ASSUME NEW r \in Router, NEW m, NEW retire, NEW removals, NEW done
  PROVE  LET x == Installed(r, m, retire, removals, done)
         IN /\ x.native = (r.native \cup (IF "native_prepare" \in done THEN {m.id} ELSE {}))
                          \ (IF "native_commit" \in done THEN removals ELSE {})
            /\ x.file = IF "core" \in done /\ m.core THEN m.id ELSE r.file
            /\ x.desired = IF "core" \in done THEN m.core ELSE r.desired
            /\ x.plane = IF "kernel" \notin done THEN r.plane
                         ELSE IF m.kernel THEN m.id
                         ELSE IF retire # {} THEN 0 ELSE r.plane
BY DEF Installed, Router

\* What a failed step keeps.
LEMMA DamageKeeps ==
  ASSUME NEW x \in Router, NEW m \in Revision, NEW retire, NEW removals, NEW s \in Steps,
         NEW d \in Damage(x, m, retire, removals, s)
  PROVE  /\ s # "kernel" => d.plane = x.plane
         /\ x.plane = m.id => d.plane = m.id
         /\ m.core /\ x.desired /\ x.file = m.id => d.desired /\ d.file = m.id
         /\ d.native \subseteq x.native \cup (IF s = "native_prepare" THEN {m.id} ELSE {})
         /\ x.native \ removals \subseteq d.native
<1>1. CASE s = "native_prepare"
  <2>1. d \in {x, [x EXCEPT !.native = @ \cup {m.id}]}
    BY <1>1 DEF Damage
  <2>2. /\ d.plane = x.plane /\ d.desired = x.desired /\ d.file = x.file
        /\ d.native \in {x.native, x.native \cup {m.id}}
    BY <2>1 DEF Router
  <2> QED BY <1>1, <2>2
<1>2. CASE s = "core"
  <2>1. d \in CoreDamage(x, m)
    BY <1>2 DEF Damage
  <2>2. d.plane = x.plane /\ d.native = x.native
    BY <2>1 DEF CoreDamage, Router
  <2>3. ASSUME m.core, x.desired, x.file = m.id
        PROVE  d.desired /\ d.file = m.id
    BY <2>1, <2>3 DEF CoreDamage, Router
  <2> QED BY <1>2, <2>2, <2>3
<1>3. CASE s = "kernel"
  <2>1. d \in KernelDamage(x, m, retire)
    BY <1>3 DEF Damage
  <2>2. \/ d = x
        \/ \E gone \in SUBSET retire, new \in SUBSET Retired(m) : d = HalfReplaced(x, m, gone, new)
    BY <2>1 DEF KernelDamage
  <2>3. /\ d.desired = x.desired /\ d.file = x.file /\ d.native = x.native
        /\ x.plane = m.id => d.plane = m.id
    BY <2>2 DEF HalfReplaced, Router
  <2> QED BY <1>3, <2>3
<1>4. CASE s = "native_commit"
  <2>1. PICK gone \in SUBSET removals : d = [x EXCEPT !.native = @ \ gone]
    BY <1>4 DEF Damage
  <2>2. /\ d.plane = x.plane /\ d.desired = x.desired /\ d.file = x.file
        /\ d.native = x.native \ gone
    BY <2>1 DEF Router
  <2> QED BY <2>2
<1>5. CASE s = "postcheck"
  BY <1>5 DEF Damage
<1> QED BY <1>1, <1>2, <1>3, <1>4, <1>5 DEF Steps

\* executeMaterialization.
LEMMA ExecuteRan ==
  ASSUME NEW r \in Router, NEW m \in Revision, NEW retire \in SUBSET Id,
         NEW removals \in SUBSET Id, NEW o \in Execute(r, m, retire, removals)
  PROVE  Ran(r, m, removals, o)
<1> DEFINE prog == Program(m)
           upto(k) == {prog[i] : i \in 1 .. k}
           full == Len(prog)
           good(k, gone) == Installed(r, m, gone, removals, upto(k))
           failing(k, gone) ==
             {[r |-> d, ok |-> FALSE, mutated |-> TRUE,
               plane |-> KernelPlaneAfter(upto(k), prog[k + 1])] :
                d \in Damage(good(k, gone), m, retire, removals, prog[k + 1])}
           S == {"core", "kernel", "postcheck"}
                \cup (IF m.native THEN {"native_prepare", "native_commit"} ELSE {})
<1>1. \/ \E gone \in MayRetire(m, retire) :
           o = [r |-> good(full, gone), ok |-> TRUE, mutated |-> TRUE, plane |-> "committed"]
      \/ o = [r |-> r, ok |-> FALSE, mutated |-> FALSE, plane |-> KernelPlaneAfter({}, prog[1])]
      \/ \E gone \in MayRetire(m, retire) : \E k \in 0 .. full - 1 : o \in failing(k, gone)
  <2>1. o \in {[r |-> good(full, gone), ok |-> TRUE, mutated |-> TRUE, plane |-> "committed"] :
                  gone \in MayRetire(m, retire)}
               \cup {[r |-> r, ok |-> FALSE, mutated |-> FALSE, plane |-> KernelPlaneAfter({}, prog[1])]}
               \cup UNION {UNION {failing(k, gone) : k \in 0 .. full - 1} : gone \in MayRetire(m, retire)}
    BY Zenon DEF Execute
  <2> HIDE DEF prog, upto, full, good, failing
  <2> QED BY <2>1
<1>2. MayRetire(m, retire) \subseteq SUBSET Id
  BY DEF MayRetire
<1>3. /\ prog \in Seq(S) /\ full \in Nat /\ full >= 1
      /\ "kernel" \in upto(full) /\ "core" \in upto(full)
      /\ m.native => "native_prepare" \in upto(full) /\ "native_commit" \in upto(full)
  <2>1. /\ prog \in Seq(S) /\ full >= 1
        /\ Has(prog, "core") /\ Has(prog, "kernel")
        /\ m.native => Has(prog, "native_prepare") /\ Has(prog, "native_commit")
    <3>1. /\ {"core", "kernel", "postcheck"} \subseteq S
          /\ m.native => {"native_prepare", "native_commit"} \subseteq S
      OBVIOUS
    <3> HIDE DEF S
    <3> QED BY <3>1, ProgramSteps
  <2>2. full \in Nat
    BY <2>1
  <2> QED BY <2>1, <2>2 DEF Has
<1>4. \A k \in 0 .. full - 1 : prog[k + 1] \in S
  <2> HIDE DEF S
  <2> QED BY <1>3
<1>5. \A k \in 0 .. full : upto(k) \subseteq S
  <2> HIDE DEF S
  <2> QED BY <1>3
<1>6. S \subseteq Steps /\ ("native_prepare" \in S => m.native)
  BY DEF Steps
<1> HIDE DEF S
<1>7. ASSUME NEW k \in 0 .. full, NEW gone \in SUBSET Id
      PROVE  LET x == good(k, gone)
             IN /\ x \in Router
                /\ x.plane = IF "kernel" \notin upto(k) THEN r.plane
                             ELSE IF m.kernel THEN m.id
                             ELSE IF gone # {} THEN 0 ELSE r.plane
                /\ x.file = IF "core" \in upto(k) /\ m.core THEN m.id ELSE r.file
                /\ x.desired = IF "core" \in upto(k) THEN m.core ELSE r.desired
                /\ x.native = (r.native \cup (IF "native_prepare" \in upto(k) THEN {m.id} ELSE {}))
                              \ (IF "native_commit" \in upto(k) THEN removals ELSE {})
  <2> HIDE DEF upto
  <2>1. good(k, gone) \in Router
    BY InstalledTouches DEF Touches
  <2> QED BY <2>1, InstalledFields
<1> HIDE DEF prog, upto, full, good
<1>8. CASE \E gone \in MayRetire(m, retire) :
             o = [r |-> good(full, gone), ok |-> TRUE, mutated |-> TRUE, plane |-> "committed"]
  <2>1. PICK gone \in MayRetire(m, retire) :
          o = [r |-> good(full, gone), ok |-> TRUE, mutated |-> TRUE, plane |-> "committed"]
    BY <1>8
  <2> DEFINE x == good(full, gone)
  <2>2. o.r = x /\ o.plane = "committed"
    BY <2>1
  <2>3. full \in 0 .. full /\ gone \in SUBSET Id
    BY <1>2, <1>3
  <2>4. /\ m.kernel => x.plane = m.id
        /\ m.core => x.desired /\ x.file = m.id
    BY <1>3, <1>7, <2>3
  <2>5. /\ x.native \subseteq r.native \cup NativeOf(m)
        /\ r.native \ removals \subseteq x.native
        /\ m.native => x.native = (r.native \cup {m.id}) \ removals
    BY <1>3, <1>5, <1>6, <1>7, <2>3 DEF NativeOf
  <2> HIDE DEF x
  <2> QED BY <2>2, <2>4, <2>5 DEF Ran
<1>9. CASE o = [r |-> r, ok |-> FALSE, mutated |-> FALSE, plane |-> KernelPlaneAfter({}, prog[1])]
  <2>1. o.r = r /\ o.ok = FALSE /\ o.plane # "committed"
    BY <1>9 DEF KernelPlaneAfter
  <2> QED BY <2>1 DEF Ran
<1>10. CASE \E gone \in MayRetire(m, retire) : \E k \in 0 .. full - 1 : o \in failing(k, gone)
  <2>1. PICK k \in 0 .. full - 1, gone \in MayRetire(m, retire) : o \in failing(k, gone)
    BY <1>10
  <2>2. PICK d \in Damage(good(k, gone), m, retire, removals, prog[k + 1]) :
          o = [r |-> d, ok |-> FALSE, mutated |-> TRUE, plane |-> KernelPlaneAfter(upto(k), prog[k + 1])]
    BY <2>1
  <2> DEFINE x == good(k, gone)
             s == prog[k + 1]
             done == upto(k)
  <2>3. o.r = d /\ o.ok = FALSE /\ o.plane = KernelPlaneAfter(done, s)
    BY <2>2
  <2>4. k \in 0 .. full /\ gone \in SUBSET Id
    BY <1>2, <1>3
  <2>5. s \in Steps /\ (s = "native_prepare" => m.native)
    BY <1>4, <1>6
  <2>6. "native_prepare" \in done => m.native
    BY <1>5, <1>6, <2>4
  <2>7. /\ x \in Router
        /\ x.plane = IF "kernel" \notin done THEN r.plane
                     ELSE IF m.kernel THEN m.id
                     ELSE IF gone # {} THEN 0 ELSE r.plane
        /\ x.file = IF "core" \in done /\ m.core THEN m.id ELSE r.file
        /\ x.desired = IF "core" \in done THEN m.core ELSE r.desired
        /\ x.native = (r.native \cup (IF "native_prepare" \in done THEN {m.id} ELSE {}))
                      \ (IF "native_commit" \in done THEN removals ELSE {})
    BY <1>7, <2>4
  <2>8. d \in Damage(x, m, retire, removals, s)
    BY <2>2
  <2> HIDE DEF x, s, done
  <2>9. /\ s # "kernel" => d.plane = x.plane
        /\ x.plane = m.id => d.plane = m.id
        /\ m.core /\ x.desired /\ x.file = m.id => d.desired /\ d.file = m.id
        /\ d.native \subseteq x.native \cup (IF s = "native_prepare" THEN {m.id} ELSE {})
        /\ x.native \ removals \subseteq d.native
    BY <2>5, <2>7, <2>8, DamageKeeps
  <2>10. /\ o.plane = "tested" => "kernel" \notin done /\ s # "kernel"
         /\ o.plane = "committed" => "kernel" \in done
    BY <2>3 DEF KernelPlaneAfter
  <2>11. /\ o.plane = "tested" => d.plane = r.plane
         /\ o.plane = "committed" /\ m.kernel => d.plane = m.id
         /\ m.kernel /\ r.plane = m.id => d.plane = m.id
    BY <2>7, <2>9, <2>10
  <2>12. m.core /\ r.desired /\ r.file = m.id => d.desired /\ d.file = m.id
    BY <2>7, <2>9
  <2>13. /\ d.native \subseteq r.native \cup NativeOf(m)
         /\ r.native \ removals \subseteq d.native
    BY <2>5, <2>6, <2>7, <2>9 DEF NativeOf
  <2> QED BY <2>3, <2>11, <2>12, <2>13 DEF Ran
<1> QED BY <1>1, <1>8, <1>9, <1>10

\* A run of m over a router where m stands already, and one that went through.
LEMMA RanStands ==
  ASSUME NEW r, NEW m, NEW removals, NEW o, Ran(r, m, removals, o), m.id \notin removals
  PROVE  /\ Stands(m, r) => Stands(m, o.r)
         /\ o.ok /\ Reached(m, o.r) => Stands(m, o.r)
<1>1. ASSUME Stands(m, r) PROVE Stands(m, o.r)
  BY <1>1 DEF Ran, Stands
<1>2. ASSUME o.ok, Reached(m, o.r) PROVE Stands(m, o.r)
  BY <1>2 DEF Ran, Stands, Reached
<1> QED BY <1>1, <1>2

\* A rollback of failed to base that found router r.
Undid(r, base, failed, b) ==
  /\ b.plane = "tested" => b.r.plane = r.plane
  /\ b.plane = "committed" /\ base.kernel => b.r.plane = base.id
  /\ b.r.native \subseteq r.native \cup NativeOf(base)
  /\ b.err = "none" /\ failed.native => failed.id \notin b.r.native
  /\ b.err # "failed" => b.plane = "committed" /\ Stands(base, b.r)

\* rollbackTo: whatever it reports about the plane is true, and when only the
\* interfaces were left behind the baseline stands.
LEMMA RollbackUndid ==
  ASSUME NEW r \in Router, NEW base \in Revision, NEW failed \in Revision,
         base # Nil => base.id # failed.id, NEW b \in RollbackTo(r, base, failed)
  PROVE  Undid(r, base, failed, b)
<1>1. CASE base = Nil
  <2> DEFINE Went == [stopped : BOOLEAN, aborted : {TRUE, ~failed.native},
                      torn : IF failed.kernel THEN {"all", "half", "not"} ELSE {"all"}]
  <2>1. b \in TeardownMaterialization(r, failed)
    BY <1>1 DEF RollbackTo
  <2>2. PICK went \in Went : b = TornDown(r, failed, went)
    BY <2>1, Zenon DEF TeardownMaterialization
  <2>3. ~base.kernel /\ ~base.native /\ ~base.core
    BY <1>1 DEF Nil
  <2>4. b.r.native = IF went.aborted /\ failed.native THEN r.native \ {failed.id} ELSE r.native
    BY <2>2 DEF TornDown, Router
  <2>5. /\ b.plane # "tested"
        /\ b.err # "failed" => b.plane = "committed"
        /\ b.err = "none" => went.aborted
    BY <2>2 DEF TornDown
  <2> QED BY <2>3, <2>4, <2>5 DEF Undid, Stands
<1>2. CASE base # Nil
  <2>1. PICK p \in RollbackMaterialization(r, base, failed) :
          b \in {[r |-> o.r, plane |-> o.plane,
                  err |-> IF ~o.ok THEN "failed" ELSE IF p.left THEN "leftover" ELSE "none"] :
                   o \in Execute(p.r, base, Retired(failed), p.removals)}
    BY <1>2, Zenon DEF RollbackTo
  <2>2. PICK o \in Execute(p.r, base, Retired(failed), p.removals) :
          b = [r |-> o.r, plane |-> o.plane,
               err |-> IF ~o.ok THEN "failed" ELSE IF p.left THEN "leftover" ELSE "none"]
    BY <2>1
  <2>3. \/ /\ p = [r |-> r, removals |-> {}, left |-> FALSE]
           /\ ~failed.native
        \/ p = [r |-> [r EXCEPT !.native = @ \ {failed.id}], removals |-> {}, left |-> FALSE]
        \/ p = [r |-> r, removals |-> {}, left |-> TRUE]
        \/ /\ p = [r |-> r, removals |-> {failed.id}, left |-> FALSE]
           /\ base.native
    BY <2>1 DEF RollbackMaterialization
  <2>4. /\ p.r \in Router /\ p.r.plane = r.plane
        /\ p.r.native \subseteq r.native
        /\ p.removals \in SUBSET {failed.id}
        /\ ~p.left /\ failed.native =>
             failed.id \notin p.r.native \/ (base.native /\ p.removals = {failed.id})
    BY <2>3 DEF Router
  <2>5. p.removals \in SUBSET Id /\ Retired(failed) \in SUBSET Id
    BY <2>4, Basics
  <2>6. Ran(p.r, base, p.removals, o)
    BY <2>4, <2>5, ExecuteRan
  <2>7. o.ok => Reached(base, o.r)
    BY <2>4, <2>5, ExecuteTouches
  <2>8. o.ok => Stands(base, o.r)
    <3>1. base.id \notin p.removals
      BY <1>2, <2>4
    <3> QED BY <2>6, <2>7, <3>1, RanStands
  <2>9. /\ b.r = o.r /\ b.plane = o.plane
        /\ b.err # "failed" => o.ok
        /\ b.err = "none" => o.ok /\ ~p.left
    BY <2>2
  <2>10. ASSUME b.err = "none", failed.native PROVE failed.id \notin b.r.native
    <3>1. failed.id # base.id
      BY <1>2
    <3> QED BY <2>4, <2>6, <2>9, <2>10, <3>1 DEF Ran, NativeOf
  <2> QED BY <2>4, <2>6, <2>8, <2>9, <2>10 DEF Ran, Undid
<1> QED BY <1>1, <1>2

\* The rollback after a failed Apply, one run or two.
LEMMA RecoveryUndid ==
  ASSUME rec \in Record, NEW m \in Revision, NEW o, o.r \in Router, NEW b \in Recovery(m, o),
         RollbackTarget.id # m.id, RollbackOutstanding => rec.committed.id # rec.live.id
  PROVE  /\ Undid(o.r, RollbackTarget, m, b)
         /\ RollbackOutstanding /\ b.err = "none" /\ rec.live.native => rec.live.id \notin b.r.native
<1> DEFINE t == RollbackTarget
<1>1. t \in Revision /\ rec.live \in Revision
  BY RecordTypes DEF Record
<1>2. \A x \in RollbackTo(o.r, t, m) : Undid(o.r, t, m, x) /\ x \in Outcome
  BY <1>1, RollbackUndid, RollbackTouches
<1>3. CASE ~RollbackOutstanding
  BY <1>2, <1>3 DEF Recovery
<1>4. CASE RollbackOutstanding
  <2>1. CASE b \in {x \in RollbackTo(o.r, t, m) : x.err # "none"}
    BY <1>2, <2>1
  <2>2. CASE b \notin {x \in RollbackTo(o.r, t, m) : x.err # "none"}
    <3>1. PICK x \in {z \in RollbackTo(o.r, t, m) : z.err = "none"} :
            b \in {[y EXCEPT !.plane = IF @ = "tested" THEN "committed" ELSE @] :
                     y \in RollbackTo(x.r, t, rec.live)}
      BY <1>4, <2>2, Zenon DEF Recovery
    <3>2. PICK y \in RollbackTo(x.r, t, rec.live) :
            b = [y EXCEPT !.plane = IF @ = "tested" THEN "committed" ELSE @]
      BY <3>1
    <3>3. Undid(o.r, t, m, x) /\ x.r \in Router /\ x.err = "none"
      BY <1>2, <3>1 DEF Outcome
    <3>4. t = rec.committed
      BY <1>4 DEF RollbackTarget
    <3>5. Undid(x.r, t, rec.live, y) /\ y \in Outcome
      BY <1>1, <1>4, <3>3, <3>4, RollbackUndid, RollbackTouches
    <3>6. /\ b.r = y.r /\ b.err = y.err
          /\ b.plane = IF y.plane = "tested" THEN "committed" ELSE y.plane
      BY <3>2, <3>5 DEF Outcome
    <3> HIDE DEF t
    <3>7. b.plane # "tested"
      BY <3>6
    <3>8. b.plane = "committed" /\ t.kernel => b.r.plane = t.id
      BY <3>3, <3>5, <3>6 DEF Undid, Stands
    <3>9. b.r.native \subseteq o.r.native \cup NativeOf(t)
      BY <3>3, <3>5, <3>6 DEF Undid
    <3>10. b.err = "none" /\ m.native => m.id \notin b.r.native
      <4>1. t.id # m.id
        BY DEF t
      <4> QED BY <3>3, <3>5, <3>6, <4>1 DEF Undid, NativeOf
    <3>11. b.err # "failed" => b.plane = "committed" /\ Stands(t, b.r)
      BY <3>5, <3>6 DEF Undid
    <3>12. b.err = "none" /\ rec.live.native => rec.live.id \notin b.r.native
      BY <3>5, <3>6 DEF Undid
    <3>13. Undid(o.r, t, m, b)
      BY <3>7, <3>8, <3>9, <3>10, <3>11 DEF Undid
    <3> QED BY <3>12, <3>13 DEF t
  <2> QED BY <2>1, <2>2
<1> QED BY <1>3, <1>4

\* removeRouting and a death of the daemon leave the interfaces alone.
LEMMA RemoveKeeps ==
  ASSUME NEW r \in Router, NEW revs, NEW o \in RemoveRouting(r, revs)
  PROVE  o.r.native = r.native
<1> DEFINE planes == UNION {Retired(v) : v \in revs}
           Went == [stopped : BOOLEAN, gone : SUBSET planes, lowered : BOOLEAN,
                    half : {FALSE, planes # {}}, saved : {FALSE, \E v \in revs : v.native}]
<1>1. PICK went \in Went :
        o = [r |-> IF went.saved THEN Saved(Removed(r, planes, went)) ELSE Removed(r, planes, went),
             ok |-> went.stopped /\ went.gone = planes /\ went.lowered]
  BY Zenon DEF RemoveRouting
<1> DEFINE x == Removed(r, planes, went)
<1> HIDE DEF planes
<1>2. x.native = r.native /\ Saved(x).native = x.native
  BY DEF Removed, Saved, Router
<1> HIDE DEF x
<1>3. o.r \in {x, Saved(x)}
  BY <1>1 DEF x
<1> QED BY <1>2, <1>3

LEMMA DownKeeps ==
  ASSUME NEW r \in Router
  PROVE  /\ AfterRestart(r).native = r.native /\ AfterRestart(r).plane = r.plane
         /\ ~Keenetic => AfterReboot(r).native = r.native
BY DEF AfterRestart, AfterReboot, Router

-----------------------------------------------------------------------------
(* How a step moves the record                                             *)

Sound == SwitchInv /\ ApartInv /\ SameBootInv

\* Neither the committed revision nor the Test changes; only a reboot makes a
\* Test one of an earlier boot.
Kept ==
  /\ rec'.committed = rec.committed /\ rec'.live = rec.live
  /\ rec'.off.on = rec.off.on /\ rec'.off.leftover = rec.off.leftover
  /\ ~rec.off.on => rec'.off = rec.off
  /\ rec.live # Nil /\ rec.sameBoot => rec'.sameBoot \/ "reboot" \in mishaps'

\* The Apply of m is saved, or m is a Test.
Became(m) ==
  /\ seq < MaxRev /\ ~rec.off.on /\ rec'.off = rec.off
  /\ \/ rec'.committed = m /\ rec'.live = Nil
     \/ rec'.committed = rec.committed /\ rec'.live = m /\ rec'.sameBoot

\* The Test is over: kept or rolled back.
Settled ==
  /\ rec'.live = Nil /\ rec'.off = rec.off
  /\ rec'.committed = rec.committed \/ (rec.live # Nil /\ rec'.committed = rec.live)

TurnedOff ==
  /\ rec'.committed = rec.committed /\ rec'.live = Nil /\ rec'.off.on
  /\ rec'.off.leftover = IF rec.live # Nil THEN rec.live ELSE rec.off.leftover

TurnedOn ==
  /\ rec.off.on /\ rec'.committed = rec.committed /\ rec'.off = NotOff
  /\ \/ rec'.live = rec.live
     \/ rec.off.leftover # Nil /\ rec'.live = rec.off.leftover /\ rec'.sameBoot

Moves == Kept \/ Settled \/ TurnedOff \/ TurnedOn \/ \E sh \in Shapes : Became(Next1(sh))

History ==
  /\ mishaps \subseteq mishaps'
  /\ "reboot" \in mishaps' => "reboot" \in mishaps \cup Restarts

\* An Apply's revision is new.
LEMMA NewRevision ==
  ASSUME RecordInv, NEW sh \in Shapes, seq < MaxRev
  PROVE  /\ Next1(sh) \in Revision /\ Next1(sh).id = seq + 1 /\ Next1(sh) # Nil
         /\ Next1(sh).native = sh.native
         /\ \A v \in Held : v.id # Next1(sh).id
<1>1. seq \in 0 .. MaxRev /\ MaxRev \in Nat
  BY RouterAssumption DEF RecordInv, TypeOK, Id
<1>2. sh.native \in BOOLEAN /\ sh.core \in BOOLEAN /\ sh.kernel \in BOOLEAN
  BY RouterAssumption
<1>3. /\ Next1(sh) \in Revision /\ Next1(sh).id = seq + 1 /\ Next1(sh) # Nil
      /\ Next1(sh).native = sh.native
  BY <1>1, <1>2 DEF Next1, Revision, Id, Nil
<1>4. \A v \in Held : v.id <= seq /\ v.id \in Nat
  BY DEF RecordInv, IdInv, Revision, Id
<1> QED BY <1>1, <1>3, <1>4

LEMMA MovesKeepSound ==
  ASSUME RecordInv, Sound, Moves, History
  PROVE  Sound'
<1>1. /\ rec.committed \in Held /\ rec.live \in Held /\ rec.off.leftover \in Held
  BY Held1 DEF RecordInv
<1>2. ~rec.off.on => rec.off.leftover = Nil
  BY DEF Sound, SwitchInv, NotOff
<1>3. ~NotOff.on /\ NotOff.leftover = Nil
  BY DEF NotOff
<1>4. "reboot" \in mishaps' => "reboot" \in Restarts
  BY DEF Sound, SameBootInv, History
<1>5. CASE Kept
  <2>1. SwitchInv' /\ ApartInv'
    BY <1>5 DEF Kept, Sound, SwitchInv, ApartInv
  <2>2. SameBootInv'
    BY <1>4, <1>5 DEF Kept, Sound, SameBootInv, History
  <2> QED BY <2>1, <2>2 DEF Sound
<1>6. CASE Settled
  <2>1. SwitchInv'
    BY <1>6 DEF Settled, Sound, SwitchInv
  <2>2. ApartInv'
    BY <1>2, <1>6 DEF Settled, Sound, SwitchInv, ApartInv
  <2>3. SameBootInv'
    BY <1>4, <1>6 DEF Settled, SameBootInv
  <2> QED BY <2>1, <2>2, <2>3 DEF Sound
<1>7. CASE TurnedOff
  <2>1. SwitchInv'
    BY <1>7 DEF TurnedOff, SwitchInv
  <2>2. ApartInv'
    BY <1>7 DEF TurnedOff, Sound, ApartInv
  <2>3. SameBootInv'
    BY <1>4, <1>7 DEF TurnedOff, SameBootInv
  <2> QED BY <2>1, <2>2, <2>3 DEF Sound
<1>8. CASE TurnedOn
  <2>1. rec.live = Nil
    BY <1>8 DEF TurnedOn, Sound, SwitchInv
  <2>2. SwitchInv'
    BY <1>3, <1>8 DEF TurnedOn, SwitchInv
  <2>3. ApartInv'
    BY <1>3, <1>8, <2>1 DEF TurnedOn, Sound, ApartInv
  <2>4. SameBootInv'
    BY <1>4, <1>8, <2>1 DEF TurnedOn, SameBootInv
  <2> QED BY <2>2, <2>3, <2>4 DEF Sound
<1>9. ASSUME NEW sh \in Shapes, Became(Next1(sh)) PROVE Sound'
  <2>1. /\ \A v \in Held : v.id # Next1(sh).id
        /\ Next1(sh) # Nil
    BY <1>9, NewRevision DEF Became
  <2>2. SwitchInv'
    BY <1>9 DEF Became, Sound, SwitchInv
  <2>3. ApartInv'
    BY <1>1, <1>2, <1>9, <2>1 DEF Became, Sound, ApartInv
  <2>4. SameBootInv'
    BY <1>4, <1>9 DEF Became, SameBootInv
  <2> QED BY <2>2, <2>3, <2>4 DEF Sound
<1> QED BY <1>5, <1>6, <1>7, <1>8, <1>9 DEF Moves

\* What each write leaves of the mark and of the Test's boot.
LEMMA RecordMarks ==
  ASSUME rec \in Record
  PROVE  /\ \A rev, save : RecordApplied(save, rev).sameBoot = IF save THEN rec.sameBoot ELSE TRUE
         /\ \A live, plane :
              /\ NoteRollbackFailed(live, plane).sameBoot = rec.sameBoot
              /\ rec.live.id = live.id =>
                   NoteRollbackFailed(live, plane).mark.plane =
                     IF RollbackOutstanding /\ plane = "tested" THEN rec.mark.plane ELSE plane
         /\ \A r \in Record : \A rev, plane :
              /\ NoteLiveOutstanding(r, rev, plane).sameBoot
              /\ NoteLiveOutstanding(r, rev, plane).mark.plane = plane
<1>1. \A rev, save : RecordApplied(save, rev).sameBoot = IF save THEN rec.sameBoot ELSE TRUE
  BY DEF RecordApplied, Record
<1>2. \A live, plane :
        /\ NoteRollbackFailed(live, plane).sameBoot = rec.sameBoot
        /\ rec.live.id = live.id =>
             NoteRollbackFailed(live, plane).mark.plane =
               IF RollbackOutstanding /\ plane = "tested" THEN rec.mark.plane ELSE plane
  BY DEF NoteRollbackFailed, Record
<1>3. \A r \in Record : \A rev, plane :
        /\ NoteLiveOutstanding(r, rev, plane).sameBoot
        /\ NoteLiveOutstanding(r, rev, plane).mark.plane = plane
  BY DEF NoteLiveOutstanding, Record
<1> QED BY <1>1, <1>2, <1>3

-----------------------------------------------------------------------------
(* What a step does to the router, next to what it does to the record      *)

\* The plane is the one supervision would put back, if it was before the step.
Paired ==
  \/ rec'.off.on
  \/ /\ ~rec.off.on /\ SupervisedBaseline' = SupervisedBaseline
     /\ SupervisedBaseline.kernel /\ router.plane = SupervisedBaseline.id =>
          router'.plane = SupervisedBaseline.id
  \/ SupervisedBaseline'.kernel => router'.plane = SupervisedBaseline'.id

\* A clean record: what it names stands, or the record was clean before, names
\* the same revision, and what stood still does.
Standing ==
  Clean' =>
    \/ Stands(AppliedBaseline, router)'
    \/ /\ Clean
       /\ Stands(AppliedBaseline, router) => Stands(AppliedBaseline, router)'
       /\ \/ rec'.committed = rec.committed /\ rec'.live = rec.live
          \/ rec.live # Nil /\ rec'.live = Nil /\ rec'.committed = rec.live

\* What NoInterfaceLeft needs of the constants: rollbacks of failed Applies
\* succeed, every configuration has a native plan, and KeeneticOS does not boot
\* from a startup configuration older than the record.
Tracked ==
  /\ ApplyRecovers
  /\ \A sh \in Shapes : sh.native
  /\ Keenetic => "reboot" \notin Restarts

Natives == \A v \in {rec.committed, rec.live, rec.off.leftover} : v = Nil \/ v.native

Left == \A n \in router.native : \E v \in Accounted \ {Nil} : v.id = n

Effect ==
  /\ Moves /\ Paired /\ Standing
  /\ Tracked /\ Natives /\ Left => Left'

\* A step that leaves the record, the plane and the interfaces alone.
Quiet ==
  /\ rec'.committed = rec.committed /\ rec'.live = rec.live /\ rec'.mark = rec.mark
  /\ rec'.off = rec.off /\ rec'.sameBoot = rec.sameBoot
  /\ router'.plane = router.plane /\ router'.native = router.native
  /\ router'.file = router.file /\ (router.desired => router'.desired)

LEMMA QuietEffect ==
  ASSUME TypeOK, Quiet
  PROVE  Effect
<1>1. /\ AppliedBaseline' = AppliedBaseline /\ (RollbackOutstanding' <=> RollbackOutstanding)
      /\ (Clean' <=> Clean)
  BY DEF Quiet, AppliedBaseline, RollbackOutstanding, Clean
<1>2. SupervisedBaseline' = SupervisedBaseline
  <2>1. rec.mark.plane \in {"tested", "committed", "unknown"}
    BY DEF TypeOK, Record, KernelPlane
  <2> QED BY <1>1, <2>1 DEF Quiet, SupervisedBaseline
<1>3. Moves
  BY DEF Quiet, Moves, Kept
<1>4. Paired
  BY <1>2 DEF Quiet, Paired
<1>5. Stands(AppliedBaseline, router) => Stands(AppliedBaseline, router)'
  BY <1>1 DEF Quiet, Stands
<1>6. Standing
  BY <1>1, <1>5 DEF Quiet, Standing
<1>7. Accounted' = Accounted
  BY <1>1 DEF Quiet, Accounted
<1>8. Left => Left'
  BY <1>7 DEF Quiet, Left
<1> QED BY <1>3, <1>4, <1>6, <1>8 DEF Effect

\* The record names base, is clean, and base stands.
LEMMA StandsEffect ==
  ASSUME NEW base, Stands(base, router'), ~rec'.off.on,
         \/ rec'.live = Nil /\ rec'.committed = base
         \/ rec'.live = base /\ rec'.live # Nil /\ rec'.mark.id # base.id
  PROVE  /\ Paired /\ Standing
         /\ AppliedBaseline' = base /\ Clean' /\ Accounted' = {base}
<1>1. AppliedBaseline' = base /\ ~RollbackOutstanding' /\ Clean' /\ Accounted' = {base}
  BY DEF AppliedBaseline, RollbackOutstanding, Clean, Accounted
<1>2. SupervisedBaseline' = base
  BY <1>1 DEF SupervisedBaseline
<1>3. Paired
  BY <1>2 DEF Paired, Stands
<1>4. Standing
  BY <1>1 DEF Standing
<1> QED BY <1>1, <1>3, <1>4

\* The record ends with the rollback of its Test outstanding.
LEMMA OutstandingEffect ==
  ASSUME rec'.live # Nil, rec'.mark.id = rec'.live.id, ~rec'.off.on
  PROVE  /\ ~Clean' /\ Standing /\ RollbackOutstanding'
         /\ Accounted' = {rec'.live, rec'.committed}
         /\ rec'.mark.plane = "tested" => SupervisedBaseline' = rec'.live
         /\ rec'.mark.plane = "committed" => SupervisedBaseline' = rec'.committed
         /\ rec'.mark.plane = "unknown" => SupervisedBaseline' = Nil
<1>1. RollbackOutstanding' /\ ~Clean'
  BY DEF RollbackOutstanding, Clean
<1>2. Standing /\ Accounted' = {rec'.live, rec'.committed}
  BY <1>1 DEF Standing, Accounted
<1>3. /\ rec'.mark.plane = "tested" => SupervisedBaseline' = rec'.live
      /\ rec'.mark.plane = "committed" => SupervisedBaseline' = rec'.committed
      /\ rec'.mark.plane = "unknown" => SupervisedBaseline' = Nil
  BY <1>1 DEF SupervisedBaseline
<1> QED BY <1>1, <1>2, <1>3

\* The revisions the record names.
LEMMA Names ==
  ASSUME RecordInv, Sound
  PROVE  /\ rec \in Record /\ router \in Router
         /\ rec.committed \in Revision /\ rec.live \in Revision /\ rec.off.leftover \in Revision
         /\ rec.committed \in Held /\ rec.live \in Held /\ rec.off.leftover \in Held
         /\ AppliedBaseline \in Held /\ RollbackTarget \in Held /\ Held \subseteq Revision
         /\ rec.mark.plane \in {"tested", "committed", "unknown"}
         /\ rec.live # Nil => rec.live.id # rec.committed.id /\ ~rec.off.on
         /\ ~rec.off.on => rec.off.leftover = Nil
         /\ \A v \in Held : v.id = 0 => v = Nil
<1>1. TypeOK /\ IdInv
  BY DEF RecordInv
<1>2. /\ rec \in Record /\ router \in Router
      /\ rec.committed \in Revision /\ rec.live \in Revision /\ rec.off.leftover \in Revision
      /\ rec.mark.plane \in {"tested", "committed", "unknown"}
  BY <1>1 DEF TypeOK, Record, KernelPlane
<1>3. /\ rec.live # Nil => rec.live.id # rec.committed.id /\ ~rec.off.on
      /\ ~rec.off.on => rec.off.leftover = Nil
  BY DEF Sound, SwitchInv, ApartInv, NotOff
<1>4. \A v \in Held : v.id = 0 => v = Nil
  <2>1. Nil \in Held /\ Nil.id = 0
    BY DEF Held, Nil
  <2> QED BY <1>1, <2>1 DEF IdInv
<1> QED BY <1>1, <1>2, <1>3, <1>4, Held1

\* Interfaces an Apply or a rollback removed, or added for a revision on record.
LEMMA StillLeft ==
  ASSUME Left, NEW base, NEW gone, router'.native \subseteq (router.native \cup NativeOf(base)) \ gone,
         base.native => base # Nil /\ base \in Accounted',
         \A v \in Accounted \ {Nil} : v \in Accounted' \/ v.id \in gone
  PROVE  Left'
<1> SUFFICES ASSUME NEW n \in router'.native
             PROVE  \E v \in Accounted' \ {Nil} : v.id = n
  BY DEF Left
<1>1. n \notin gone /\ (n \in router.native \/ n \in NativeOf(base))
  OBVIOUS
<1>2. CASE n \in NativeOf(base)
  BY <1>2 DEF NativeOf
<1>3. CASE n \in router.native
  <2>1. PICK v \in Accounted \ {Nil} : v.id = n
    BY <1>3 DEF Left
  <2> QED BY <1>1, <2>1
<1> QED BY <1>1, <1>2, <1>3

\* The record a failed Apply whose rollback failed too leaves, in full.
LEMMA StuckEffect ==
  ASSUME RecordInv, Sound, NEW m \in Revision, m # Nil, m.id # 0, ~rec.off.on,
         NEW o, o.plane \in KernelPlane, NEW b \in Outcome,
         Undid(o.r, RollbackTarget, m, b), Ran(router, m, Removals, o),
         router' = b.r, rec' = MarkAfter(m, o, b)
  PROVE  /\ Paired /\ Standing
         /\ \/ Kept
            \/ /\ rec'.committed = rec.committed /\ rec'.live = m /\ rec'.sameBoot
               /\ rec'.off = rec.off
<1>1. rec \in Record /\ rec.live \in Revision
      /\ rec.mark.plane \in {"tested", "committed", "unknown"}
  BY Names
<1>2. b.plane \in {"tested", "committed", "unknown"} /\ o.plane \in {"tested", "committed", "unknown"}
  BY DEF Outcome, KernelPlane
<1>3. /\ b.plane = "tested" /\ o.plane = "tested" => router'.plane = router.plane
      /\ b.plane = "committed" /\ RollbackTarget.kernel => router'.plane = RollbackTarget.id
      /\ b.plane = "tested" /\ o.plane = "committed" /\ m.kernel => router'.plane = m.id
  BY DEF Undid, Ran
<1>4. CASE rec.live # Nil
  <2>1. PICK q \in KernelPlane :
          /\ rec' = NoteRollbackFailed(rec.live, q)
          /\ q = IF RollbackOutstanding
                 THEN IF b.plane = "tested" /\ o.plane # "tested" THEN "unknown" ELSE b.plane
                 ELSE IF b.plane = "committed" \/ (b.plane = "tested" /\ o.plane = "tested")
                      THEN "tested" ELSE "unknown"
    <3> DEFINE q == IF RollbackOutstanding
                    THEN IF b.plane = "tested" /\ o.plane # "tested" THEN "unknown" ELSE b.plane
                    ELSE IF b.plane = "committed" \/ (b.plane = "tested" /\ o.plane = "tested")
                         THEN "tested" ELSE "unknown"
    <3>1. q \in KernelPlane
      BY <1>2 DEF KernelPlane
    <3>2. rec' = NoteRollbackFailed(rec.live, q)
      <4>1. CASE RollbackOutstanding
        BY <4>1, Zenon DEF MarkAfter
      <4>2. CASE ~RollbackOutstanding
        BY <1>4, <4>2, Zenon DEF MarkAfter
      <4> QED BY <4>1, <4>2
    <3> QED BY <3>1, <3>2
  <2>2. /\ rec'.committed = rec.committed /\ rec'.live = rec.live /\ rec'.off = rec.off
        /\ rec'.mark.id = rec.live.id
    BY <1>1, <2>1, RecordFields
  <2>3. /\ rec'.sameBoot = rec.sameBoot
        /\ rec'.mark.plane = IF RollbackOutstanding /\ q = "tested" THEN rec.mark.plane ELSE q
    BY <1>1, <2>1, RecordMarks
  <2>4. Kept
    BY <2>2, <2>3 DEF Kept
  <2>5. /\ Standing
        /\ rec'.mark.plane = "tested" => SupervisedBaseline' = rec.live
        /\ rec'.mark.plane = "committed" => SupervisedBaseline' = rec.committed
        /\ rec'.mark.plane = "unknown" => SupervisedBaseline' = Nil
    BY <1>4, <2>2, OutstandingEffect
  <2>6. ~Nil.kernel
    BY DEF Nil
  <2>7. CASE RollbackOutstanding
    <3>1. RollbackTarget = rec.committed
      BY <2>7 DEF RollbackTarget
    <3>2. CASE q = "tested"
      <4>1. SupervisedBaseline' = SupervisedBaseline
        <5>1. rec'.mark.plane = rec.mark.plane
          BY <2>3, <2>7, <3>2
        <5> QED BY <1>1, <2>5, <2>7, <5>1 DEF SupervisedBaseline
      <4>2. router'.plane = router.plane
        BY <1>3, <2>1, <2>7, <3>2
      <4>3. Paired
        BY <4>1, <4>2 DEF Paired
      <4> QED BY <2>4, <2>5, <4>3
    <3>3. CASE q = "committed"
      <4>1. SupervisedBaseline' = rec.committed
        BY <2>3, <2>5, <3>3
      <4>2. Paired
        BY <1>3, <2>1, <2>7, <3>1, <3>3, <4>1 DEF Paired
      <4> QED BY <2>4, <2>5, <4>2
    <3>4. CASE q = "unknown"
      <4>1. SupervisedBaseline' = Nil
        BY <2>3, <2>5, <3>4
      <4>2. Paired
        BY <2>6, <4>1 DEF Paired
      <4> QED BY <2>4, <2>5, <4>2
    <3> QED BY <3>2, <3>3, <3>4 DEF KernelPlane
  <2>8. CASE ~RollbackOutstanding
    <3>1. RollbackTarget = rec.live /\ SupervisedBaseline = rec.live
      BY <1>4, <2>8 DEF RollbackTarget, AppliedBaseline, SupervisedBaseline
    <3>2. rec'.mark.plane = q
      BY <2>3, <2>8
    <3>3. CASE q = "tested"
      <4>1. SupervisedBaseline' = rec.live
        BY <2>5, <3>2, <3>3
      <4>2. \/ b.plane = "committed"
            \/ b.plane = "tested" /\ o.plane = "tested"
        BY <2>1, <2>8, <3>3
      <4>3. Paired
        BY <1>3, <3>1, <4>1, <4>2 DEF Paired
      <4> QED BY <2>4, <2>5, <4>3
    <3>4. CASE q = "unknown"
      <4>1. Paired
        BY <2>5, <2>6, <3>2, <3>4 DEF Paired
      <4> QED BY <2>4, <2>5, <4>1
    <3> QED BY <2>1, <2>8, <3>3, <3>4
  <2> QED BY <2>7, <2>8
<1>5. CASE rec.live = Nil
  <2> DEFINE q == IF b.plane # "tested" THEN b.plane
                  ELSE CASE o.plane = "tested"    -> "committed"
                         [] o.plane = "unknown"   -> "unknown"
                         [] o.plane = "committed" -> "tested"
  <2>1. rec' = NoteLiveOutstanding(rec, m, q)
    BY <1>5, Zenon DEF MarkAfter, RollbackOutstanding
  <2>2. \/ q = "unknown"
        \/ q = "committed" /\ (b.plane = "committed" \/ (b.plane = "tested" /\ o.plane = "tested"))
        \/ q = "tested" /\ b.plane = "tested" /\ o.plane = "committed"
    BY <1>2
  <2> HIDE DEF q
  <2>3. /\ rec'.committed = rec.committed /\ rec'.live = m /\ rec'.off = rec.off
        /\ rec'.mark.id = m.id
    BY <1>1, <2>1, RecordFields
  <2>4. rec'.sameBoot /\ rec'.mark.plane = q
    BY <1>1, <2>1, RecordMarks
  <2>5. /\ Standing
        /\ q = "tested" => SupervisedBaseline' = m
        /\ q = "committed" => SupervisedBaseline' = rec.committed
        /\ q = "unknown" => SupervisedBaseline' = Nil
    BY <2>3, <2>4, OutstandingEffect
  <2>6. RollbackTarget = rec.committed /\ SupervisedBaseline = rec.committed
    BY <1>5 DEF RollbackTarget, AppliedBaseline, RollbackOutstanding, SupervisedBaseline
  <2>7. ~Nil.kernel
    BY DEF Nil
  <2>8. Paired
    BY <1>3, <2>2, <2>5, <2>6, <2>7 DEF Paired
  <2> QED BY <2>3, <2>4, <2>5, <2>8
<1> QED BY <1>4, <1>5

\* Apply.
LEMMA ApplyEffect ==
  ASSUME RecordInv, Sound, NEW sh \in Shapes, Apply(sh)
  PROVE  Effect
<1> DEFINE m == Next1(sh)
<1>1. seq < MaxRev /\ ~rec.off.on
  BY DEF Apply
<1>2. /\ m \in Revision /\ m # Nil /\ m.id # 0 /\ m.native = sh.native
      /\ \A v \in Held : v.id # m.id
  <2>1. /\ m \in Revision /\ m.id = seq + 1 /\ m # Nil /\ m.native = sh.native
        /\ \A v \in Held : v.id # m.id
    BY <1>1, NewRevision
  <2>2. seq \in Nat
    BY DEF RecordInv, TypeOK, Id
  <2> QED BY <2>1, <2>2
<1>3. PICK o \in Forward(m) :
        \/ seq' = seq + 1 /\ \E save \in BOOLEAN : ApplySucceeds(m, o, save)
        \/ ApplyRefused(o)
        \/ /\ ~o.ok /\ o.mutated
           /\ seq' = seq + 1
           /\ \E b \in Recovery(m, o) : ApplyRolledBack(b) \/ ApplyNotRolledBack(m, o, b)
  BY Zenon DEF Apply
<1> HIDE DEF m
<1>4. /\ rec \in Record /\ router \in Router
      /\ rec.committed \in Held /\ rec.live \in Held
      /\ AppliedBaseline \in Held /\ RollbackTarget \in Held /\ Held \subseteq Revision
      /\ rec.live # Nil => rec.live.id # rec.committed.id
      /\ \A v \in Held : v.id = 0 => v = Nil
  BY Names
<1>5. /\ Touches(router, m, o.r) /\ o.plane \in KernelPlane
      /\ o.ok => Reached(m, o.r)
      /\ Ran(router, m, Removals, o)
  <2>1. AppliedBaseline \in Revision /\ rec.committed \in Revision
    BY <1>4
  <2>2. Retired(AppliedBaseline) \in SUBSET Id /\ Removals \in SUBSET Id
    BY <2>1, Basics DEF Removals
  <2> QED BY <1>2, <1>4, <2>2, ExecuteTouches, ExecuteRan DEF Forward
<1>6. o.r \in Router
  BY <1>5 DEF Touches
<1>7. m.id \notin Removals
  BY <1>2, <1>4 DEF Removals
<1>8. CASE seq' = seq + 1 /\ \E save \in BOOLEAN : ApplySucceeds(m, o, save)
  <2>1. PICK save \in BOOLEAN : ApplySucceeds(m, o, save)
    BY <1>8
  <2>2. o.ok /\ router' \in {o.r, Saved(o.r)} /\ rec' = RecordApplied(save, m)
    BY <2>1 DEF ApplySucceeds
  <2>3. /\ router'.native = o.r.native /\ router'.plane = o.r.plane
        /\ router'.file = o.r.file /\ router'.desired = o.r.desired
    BY <1>6, <2>2, SavedKeeps
  <2>4. Stands(m, o.r)
    BY <1>5, <1>7, <2>2, RanStands
  <2>5. Stands(m, router')
    BY <2>3, <2>4 DEF Stands
  <2>6. /\ rec'.committed = IF save THEN m ELSE rec.committed
        /\ rec'.live = IF save THEN Nil ELSE m
        /\ rec'.mark = NoMark /\ rec'.off = rec.off
        /\ rec'.sameBoot = IF save THEN rec.sameBoot ELSE TRUE
    <3>1. /\ rec'.committed = IF save THEN m ELSE rec.committed
          /\ rec'.live = IF save THEN Nil ELSE m
          /\ rec'.mark = NoMark /\ rec'.off = rec.off
      BY <1>4, <2>2 DEF RecordApplied, Record
    <3>2. rec'.sameBoot = IF save THEN rec.sameBoot ELSE TRUE
      BY <1>4, <2>2, RecordMarks, Zenon
    <3> QED BY <3>1, <3>2
  <2>7. Moves
    <3>1. Became(m)
      BY <1>1, <2>6 DEF Became
    <3> QED BY <3>1 DEF Moves, m
  <2>8. Paired /\ Standing /\ Accounted' = {m}
    <3>1. rec'.mark.id # m.id /\ ~rec'.off.on
      BY <1>1, <1>2, <2>6 DEF NoMark
    <3> QED BY <1>2, <2>5, <2>6, <3>1, StandsEffect
  <2>9. ASSUME Tracked, Natives, Left PROVE Left'
    <3>1. m.native
      BY <1>2, <2>9 DEF Tracked
    <3>2. router'.native \subseteq (router.native \cup NativeOf(m)) \ Removals
      BY <1>5, <2>2, <2>3, <3>1 DEF Ran, NativeOf
    <3>3. ASSUME NEW n \in router'.native PROVE n = m.id
      <4>1. CASE n \in NativeOf(m)
        BY <4>1 DEF NativeOf
      <4>2. CASE n \in router.native
        <5>1. PICK v \in Accounted \ {Nil} : v.id = n
          BY <2>9, <4>2 DEF Left
        <5>2. v \in {AppliedBaseline} \cup (IF RollbackOutstanding THEN {rec.committed} ELSE {})
          BY <1>1, <5>1 DEF Accounted, RollbackOutstanding, AppliedBaseline
        <5>3. v.native
          BY <2>9, <5>1, <5>2 DEF Natives, AppliedBaseline
        <5>4. n \in Removals
          BY <4>2, <5>1, <5>2, <5>3 DEF Removals
        <5> QED BY <3>2, <5>4
      <4> QED BY <3>2, <4>1, <4>2
    <3> QED BY <1>2, <2>8, <3>3 DEF Left
  <2> QED BY <2>7, <2>8, <2>9 DEF Effect
<1>9. CASE ApplyRefused(o)
  <2>1. UNCHANGED <<router, rec>>
    BY <1>9 DEF ApplyRefused
  <2>2. Quiet
    BY <2>1 DEF Quiet
  <2> QED BY <2>2, QuietEffect DEF RecordInv
<1>10. CASE \E b \in Recovery(m, o) : ApplyRolledBack(b) \/ ApplyNotRolledBack(m, o, b)
  <2>1. PICK b \in Recovery(m, o) : ApplyRolledBack(b) \/ ApplyNotRolledBack(m, o, b)
    BY <1>10
  <2>2. RollbackTarget.id # m.id /\ (RollbackOutstanding => rec.committed.id # rec.live.id)
    BY <1>2, <1>4 DEF RollbackOutstanding
  <2>3. /\ Undid(o.r, RollbackTarget, m, b)
        /\ RollbackOutstanding /\ b.err = "none" /\ rec.live.native => rec.live.id \notin b.r.native
        /\ b \in Outcome
    BY <1>2, <1>4, <1>6, <2>2, RecoveryUndid, RecoveryTouches
  <2>4. CASE ApplyRolledBack(b)
    <3>1. /\ b.err = "none" /\ router' = b.r
          /\ IF RollbackOutstanding THEN rec' = RecordRollback ELSE rec' = rec
      BY <2>4 DEF ApplyRolledBack
    <3>2. Stands(RollbackTarget, router')
      BY <2>3, <3>1 DEF Undid
    <3>3. /\ rec'.committed = rec.committed /\ rec'.off = rec.off /\ ~rec'.off.on
          /\ RollbackOutstanding => rec'.live = Nil
          /\ ~RollbackOutstanding => rec' = rec
      BY <1>1, <1>4, <3>1, RecordFields
    <3>4. \/ rec'.live = Nil /\ rec'.committed = RollbackTarget
          \/ rec'.live = RollbackTarget /\ rec'.live # Nil /\ rec'.mark.id # RollbackTarget.id
      BY <3>3 DEF RollbackTarget, RollbackOutstanding, AppliedBaseline
    <3>5. Paired /\ Standing /\ Accounted' = {RollbackTarget}
      BY <3>2, <3>3, <3>4, StandsEffect
    <3>6. Moves
      BY <3>3 DEF Moves, Settled, Kept
    <3>7. ASSUME Tracked, Natives, Left PROVE Left'
      <4> DEFINE gone == {m.id} \cup (IF RollbackOutstanding THEN {rec.live.id} ELSE {})
      <4>1. m.native /\ (RollbackOutstanding => rec.live.native)
        BY <1>2, <3>7 DEF Tracked, Natives, RollbackOutstanding
      <4>2. router'.native \subseteq router.native \cup {m.id} \cup NativeOf(RollbackTarget)
        BY <1>5, <2>3, <3>1 DEF Undid, Ran, NativeOf
      <4>3. router'.native \cap gone = {}
        BY <2>3, <3>1, <4>1 DEF Undid
      <4>4. router'.native \subseteq (router.native \cup NativeOf(RollbackTarget)) \ gone
        BY <4>2, <4>3
      <4>5. RollbackTarget.native => RollbackTarget # Nil /\ RollbackTarget \in Accounted'
        BY <3>5 DEF Nil
      <4>6. \A v \in Accounted \ {Nil} : v \in Accounted' \/ v.id \in gone
        <5>1. \A v \in Accounted : v = RollbackTarget \/ v.id \in gone
          BY <1>1 DEF Accounted, RollbackTarget
        <5> QED BY <3>5, <5>1
      <4> HIDE DEF gone
      <4> QED BY <3>7, <4>4, <4>5, <4>6, StillLeft
    <3> QED BY <3>5, <3>6, <3>7 DEF Effect
  <2>5. CASE ApplyNotRolledBack(m, o, b)
    <3>1. router' = b.r /\ rec' = MarkAfter(m, o, b) /\ ~ApplyRecovers
      BY <2>5 DEF ApplyNotRolledBack
    <3>2. /\ Paired /\ Standing
          /\ \/ Kept
             \/ /\ rec'.committed = rec.committed /\ rec'.live = m /\ rec'.sameBoot
                /\ rec'.off = rec.off
      BY <1>1, <1>2, <1>5, <2>3, <3>1, StuckEffect
    <3>3. Kept \/ Became(m)
      BY <1>1, <3>2 DEF Became
    <3>4. Moves
      BY <3>3 DEF Moves, m
    <3> QED BY <3>1, <3>2, <3>4 DEF Effect, Tracked
  <2> QED BY <2>1, <2>4, <2>5
<1> QED BY <1>3, <1>8, <1>9, <1>10

\* A rollback of the recorded Test.
LEMMA UndoneEffect ==
  ASSUME RecordInv, Sound, rec.live # Nil, RollBackLive(rec.live)
  PROVE  /\ Effect
         /\ rec'.live = Nil => /\ Stands(rec.committed, router')
                               /\ rec'.committed = rec.committed /\ rec'.off = rec.off
         /\ rec'.live # Nil => ~Clean'
<1>1. PICK b \in RollbackTo(router, rec.committed, rec.live) :
        /\ router' = b.r
        /\ rec' = IF b.err = "none" THEN RecordRollback ELSE NoteRollbackFailed(rec.live, b.plane)
  BY DEF RollBackLive
<1>2. /\ rec \in Record /\ router \in Router
      /\ rec.committed \in Revision /\ rec.live \in Revision
      /\ rec.live.id # rec.committed.id /\ ~rec.off.on
      /\ rec.mark.plane \in {"tested", "committed", "unknown"}
  BY Names
<1>3. Undid(router, rec.committed, rec.live, b)
  BY <1>2, RollbackUndid
<1>4. b \in Outcome
  BY <1>2, RollbackTouches
<1>5. rec.committed.native => rec.committed # Nil
  BY DEF Nil
<1>6. Accounted \subseteq {rec.live, rec.committed}
  BY <1>2 DEF Accounted, AppliedBaseline
<1>7. CASE b.err = "none"
  <2>1. rec' = RecordRollback /\ Stands(rec.committed, router')
    BY <1>1, <1>3, <1>7 DEF Undid
  <2>2. rec'.committed = rec.committed /\ rec'.live = Nil /\ rec'.off = rec.off /\ ~rec'.off.on
    BY <1>2, <2>1, RecordFields
  <2>3. Paired /\ Standing /\ Accounted' = {rec.committed}
    BY <2>1, <2>2, StandsEffect
  <2>4. Moves
    BY <2>2 DEF Moves, Settled
  <2>5. ASSUME Natives, Left PROVE Left'
    <3>1. rec.live.native
      BY <2>5 DEF Natives
    <3>2. router'.native \subseteq (router.native \cup NativeOf(rec.committed)) \ {rec.live.id}
      BY <1>1, <1>3, <1>7, <3>1 DEF Undid
    <3>3. \A v \in Accounted \ {Nil} : v \in Accounted' \/ v.id \in {rec.live.id}
      BY <1>6, <2>3
    <3>4. rec.committed.native => rec.committed # Nil /\ rec.committed \in Accounted'
      BY <1>5, <2>3
    <3> QED BY <2>5, <3>2, <3>3, <3>4, StillLeft
  <2> QED BY <2>1, <2>2, <2>3, <2>4, <2>5 DEF Effect
<1>8. CASE b.err # "none"
  <2>1. rec' = NoteRollbackFailed(rec.live, b.plane)
    BY <1>1, <1>8
  <2>2. /\ rec'.committed = rec.committed /\ rec'.live = rec.live /\ rec'.off = rec.off
        /\ rec'.mark.id = rec.live.id
    BY <1>2, <2>1, RecordFields
  <2>3. /\ rec'.sameBoot = rec.sameBoot
        /\ rec'.mark.plane = IF RollbackOutstanding /\ b.plane = "tested" THEN rec.mark.plane ELSE b.plane
    BY <1>2, <2>1, RecordMarks
  <2>4. /\ Standing /\ ~Clean' /\ Accounted' = {rec.live, rec.committed}
        /\ rec'.mark.plane = "tested" => SupervisedBaseline' = rec.live
        /\ rec'.mark.plane = "committed" => SupervisedBaseline' = rec.committed
        /\ rec'.mark.plane = "unknown" => SupervisedBaseline' = Nil
    BY <1>2, <2>2, OutstandingEffect
  <2>5. Moves
    BY <2>2, <2>3 DEF Moves, Kept
  <2>6. Paired
    <3>1. CASE b.plane = "tested"
      <4>1. router'.plane = router.plane
        BY <1>1, <1>3, <3>1 DEF Undid
      <4>2. SupervisedBaseline' = SupervisedBaseline
        <5>1. CASE RollbackOutstanding
          BY <1>2, <2>3, <2>4, <3>1, <5>1 DEF SupervisedBaseline
        <5>2. CASE ~RollbackOutstanding
          BY <2>3, <2>4, <3>1, <5>2 DEF SupervisedBaseline, AppliedBaseline
        <5> QED BY <5>1, <5>2
      <4> QED BY <2>2, <4>1, <4>2 DEF Paired
    <3>2. CASE b.plane = "committed"
      BY <1>1, <1>3, <2>3, <2>4, <3>2 DEF Paired, Undid
    <3>3. CASE b.plane = "unknown"
      BY <2>3, <2>4, <3>3 DEF Paired, Nil
    <3> QED BY <1>4, <3>1, <3>2, <3>3 DEF Outcome, KernelPlane
  <2>7. ASSUME Left PROVE Left'
    <3>1. router'.native \subseteq (router.native \cup NativeOf(rec.committed)) \ {}
      BY <1>1, <1>3 DEF Undid
    <3>2. \A v \in Accounted \ {Nil} : v \in Accounted'
      BY <1>6, <2>4
    <3>3. rec.committed.native => rec.committed # Nil /\ rec.committed \in Accounted'
      BY <1>5, <2>4
    <3> QED BY <2>7, <3>1, <3>2, <3>3, StillLeft
  <2> QED BY <2>2, <2>4, <2>5, <2>6, <2>7 DEF Effect
<1> QED BY <1>7, <1>8

\* The recorded configuration is executed again, adding only.
LEMMA ConvergedEffect ==
  ASSUME RecordInv, Sound, Clean,
         NEW o \in Converge(router, AppliedBaseline), router' = o.r, UNCHANGED rec
  PROVE  /\ Effect
         /\ o.ok => Stands(AppliedBaseline, router)'
<1> DEFINE base == AppliedBaseline
<1>1. router \in Router /\ base \in Revision
  BY Names
<1>2. Ran(router, base, {}, o) /\ (o.ok => Reached(base, o.r))
  BY <1>1, Basics, ExecuteRan, ExecuteTouches DEF Converge
<1>3. /\ Stands(base, router) => Stands(base, router')
      /\ o.ok => Stands(base, router')
  BY <1>2, RanStands
<1>4. AppliedBaseline' = base /\ Clean' /\ Accounted' = {base} /\ Accounted = {base}
  BY DEF AppliedBaseline, Clean, RollbackOutstanding, Accounted
<1>5. SupervisedBaseline = base /\ SupervisedBaseline' = base
  BY <1>4 DEF Clean, SupervisedBaseline
<1> HIDE DEF base
<1>6. Moves
  BY DEF Moves, Kept
<1>7. Paired
  BY <1>2, <1>5 DEF Paired, Ran
<1>8. Stands(AppliedBaseline, router)' <=> Stands(base, router')
  BY <1>4 DEF Stands
<1>9. Standing
  BY <1>3, <1>8 DEF Standing, base
<1>10. ASSUME Left PROVE Left'
  <2>1. router'.native \subseteq (router.native \cup NativeOf(base)) \ {}
    BY <1>2 DEF Ran
  <2>2. base.native => base # Nil /\ base \in Accounted'
    BY <1>4 DEF Nil
  <2>3. \A v \in Accounted \ {Nil} : v \in Accounted'
    BY <1>4
  <2> QED BY <1>10, <2>1, <2>2, <2>3, StillLeft
<1> QED BY <1>3, <1>6, <1>7, <1>8, <1>9, <1>10 DEF Effect

\* Keep.
LEMMA KeepEffect ==
  ASSUME RecordInv, Sound, Keep
  PROVE  Effect
<1>1. /\ rec.live # Nil /\ ~RollbackOutstanding
      /\ router' \in {router, Saved(router)} /\ rec' = RecordCommit
  BY DEF Keep, MayKeep
<1>2. rec \in Record /\ router \in Router /\ ~rec.off.on
  BY <1>1, Names
<1>3. rec'.committed = rec.live /\ rec'.live = Nil /\ rec'.off = rec.off
  BY <1>1, <1>2, RecordFields
<1>4. /\ router'.native = router.native /\ router'.plane = router.plane
      /\ router'.file = router.file /\ router'.desired = router.desired
  BY <1>1, <1>2, SavedKeeps
<1>5. /\ AppliedBaseline = rec.live /\ AppliedBaseline' = rec.live /\ Clean
      /\ ~RollbackOutstanding' /\ Accounted = {rec.live} /\ Accounted' = {rec.live}
  BY <1>1, <1>2, <1>3 DEF AppliedBaseline, RollbackOutstanding, Clean, Accounted
<1>6. SupervisedBaseline' = SupervisedBaseline
  BY <1>1, <1>5 DEF SupervisedBaseline
<1>7. Moves
  BY <1>1, <1>3 DEF Moves, Settled
<1>8. Paired
  BY <1>2, <1>4, <1>6 DEF Paired
<1>9. Standing
  <2>1. Stands(AppliedBaseline, router) => Stands(AppliedBaseline, router)'
    BY <1>4, <1>5 DEF Stands
  <2> QED BY <1>1, <1>3, <1>5, <2>1 DEF Standing
<1>10. Left => Left'
  BY <1>4, <1>5 DEF Left
<1> QED BY <1>7, <1>8, <1>9, <1>10 DEF Effect

\* The window's rollback.
LEMMA ClosureEffect ==
  ASSUME RecordInv, Sound, NEW f \in flight, Closure(f)
  PROVE  Effect
<1>1. CASE ClosureRuns(f)
  <2>1. RollBackLive(f.rev) /\ f.current /\ rec.live.id = f.rev.id
    BY <1>1 DEF Closure, ClosureRuns
  <2>2. win.current /\ f.rev = win.rev /\ f.rev # Nil
    BY <2>1 DEF RecordInv, ClosureInv
  <2>3. f.rev \in Held /\ rec.live \in Held
    BY Held1 DEF RecordInv
  <2>4. rec.live = f.rev
    BY <2>1, <2>3 DEF RecordInv, IdInv
  <2> QED BY <2>1, <2>2, <2>4, UndoneEffect
<1>2. CASE ~ClosureRuns(f)
  <2>1. UNCHANGED <<router, rec>>
    BY <1>2 DEF Closure
  <2>2. Quiet
    BY <2>1 DEF Quiet
  <2> QED BY <2>2, QuietEffect DEF RecordInv
<1> QED BY <1>1, <1>2

\* Routing is off and stays off.
LEMMA OffEffect ==
  ASSUME RecordInv, Sound, rec.off.on, Kept,
         router'.native \subseteq router.native \cup NativeOf(rec.committed)
  PROVE  Effect
<1>1. rec'.off.on /\ ~Clean'
  BY DEF Kept, Clean
<1>2. Accounted' = Accounted /\ rec.committed \in Accounted
  BY <1>1 DEF Accounted, Kept
<1>3. rec.committed.native => rec.committed # Nil
  BY DEF Nil
<1>4. ASSUME Left PROVE Left'
  <2>1. router'.native \subseteq (router.native \cup NativeOf(rec.committed)) \ {}
    OBVIOUS
  <2>2. \A v \in Accounted \ {Nil} : v \in Accounted'
    BY <1>2
  <2>3. rec.committed.native => rec.committed # Nil /\ rec.committed \in Accounted'
    BY <1>2, <1>3
  <2> QED BY <1>4, <2>1, <2>2, <2>3, StillLeft
<1> QED BY <1>1, <1>4 DEF Effect, Moves, Paired, Standing

\* Switching off hands the Test over.
LEMMA SwitchedOffEffect ==
  ASSUME RecordInv, Sound, TurnedOff, router'.native = router.native
  PROVE  Effect
<1>1. rec'.off.on /\ ~Clean'
  BY DEF TurnedOff, Clean
<1>2. ASSUME Left PROVE Left'
  <2>1. router'.native \subseteq (router.native \cup NativeOf(Nil)) \ {}
    OBVIOUS
  <2>2. \A v \in Accounted \ {Nil} : v \in Accounted'
    <3>1. Accounted' = {rec.committed, IF rec.live # Nil THEN rec.live ELSE rec.off.leftover}
      BY <1>1 DEF Accounted, TurnedOff
    <3>2. rec.off.on => rec.live = Nil
      BY DEF Sound, SwitchInv
    <3> QED BY <3>1, <3>2 DEF Accounted, AppliedBaseline, RollbackOutstanding
  <2>3. ~Nil.native
    BY DEF Nil
  <2> QED BY <1>2, <2>1, <2>2, <2>3, StillLeft
<1> QED BY <1>1, <1>2 DEF Effect, Moves, Paired, Standing

LEMMA RoutingOffEffect ==
  ASSUME RecordInv, Sound, RoutingOff
  PROVE  Effect /\ ~Clean'
<1>1. PICK o \in RemoveRouting(router, Revs(SwitchedOff(FALSE).off.leftover)) :
        router' = o.r /\ rec' = SwitchedOff(~o.ok)
  BY DEF RoutingOff
<1>2. rec \in Record /\ router \in Router
  BY Names
<1>3. router'.native = router.native
  BY <1>1, <1>2, RemoveKeeps
<1>4. TurnedOff
  <2> DEFINE e == ~o.ok
  <2>1. rec' = SwitchedOff(e)
    BY <1>1
  <2> HIDE DEF e
  <2> QED BY <1>2, <2>1, RecordFields DEF TurnedOff
<1> QED BY <1>3, <1>4, SwitchedOffEffect DEF TurnedOff, Clean

\* What switching on executes.
LEMMA SwitchingOnDoes ==
  ASSUME RecordInv, Sound, rec.off.on, NEW o \in SwitchingOn
  PROVE  /\ o.r \in Router
         /\ o.r.native \subseteq router.native \cup NativeOf(rec.committed)
         /\ o.err # "failed" => Stands(rec.committed, o.r)
         /\ o.err = "leftover" => rec.off.leftover # Nil
         /\ o.err = "none" /\ rec.off.leftover.native => rec.off.leftover.id \notin o.r.native
         /\ o.err \in {"none", "leftover", "failed"}
<1>1. router \in Router /\ rec.committed \in Revision /\ rec.off.leftover \in Revision
  BY Names
<1>2. /\ o.r \in Router /\ (o.err = "leftover" => rec.off.leftover # Nil)
      /\ o.err \in {"none", "leftover", "failed"}
  BY SwitchingOnTouches DEF RecordInv, Outcome
<1>3. ~Nil.native /\ ~Nil.core /\ ~Nil.kernel
  BY DEF Nil
<1>4. CASE rec.off.leftover # Nil
  <2>1. o \in RollbackTo(router, rec.committed, rec.off.leftover)
    BY <1>4 DEF SwitchingOn
  <2>2. rec.off.leftover.id # rec.committed.id
    BY <1>4 DEF Sound, ApartInv
  <2>3. Undid(router, rec.committed, rec.off.leftover, o)
    BY <1>1, <2>1, <2>2, RollbackUndid
  <2> QED BY <1>2, <2>3 DEF Undid
<1>5. CASE rec.off.leftover = Nil /\ rec.committed # Nil
  <2>1. o \in {[r |-> y.r, plane |-> y.plane, err |-> IF y.ok THEN "none" ELSE "failed"] :
                y \in Converge(router, rec.committed)}
    BY <1>5 DEF SwitchingOn
  <2>2. PICK y \in Converge(router, rec.committed) :
          o = [r |-> y.r, plane |-> y.plane, err |-> IF y.ok THEN "none" ELSE "failed"]
    BY <2>1
  <2>3. Ran(router, rec.committed, {}, y) /\ (y.ok => Reached(rec.committed, y.r))
    BY <1>1, Basics, ExecuteRan, ExecuteTouches DEF Converge
  <2>4. y.ok => Stands(rec.committed, y.r)
    BY <2>3, RanStands
  <2>5. o.r = y.r /\ (o.err # "failed" => y.ok)
    BY <2>2
  <2> QED BY <1>2, <1>3, <1>5, <2>3, <2>4, <2>5 DEF Ran
<1>6. CASE rec.off.leftover = Nil /\ rec.committed = Nil
  <2>1. o.r = router
    BY <1>6 DEF SwitchingOn
  <2> QED BY <1>2, <1>3, <1>6, <2>1 DEF Stands
<1> QED BY <1>4, <1>5, <1>6

LEMMA RoutingOnEffect ==
  ASSUME RecordInv, Sound, RoutingOn
  PROVE  Effect
<1>1. PICK o \in SwitchingOn : SwitchesOn(o) \/ StaysOff(o)
  BY DEF RoutingOn
<1>2. rec.off.on
  BY DEF RoutingOn
<1>3. /\ rec \in Record /\ router \in Router /\ rec.live = Nil
      /\ rec.committed \in Revision /\ rec.off.leftover \in Revision
  BY <1>2, Names DEF Sound, SwitchInv
<1>4. /\ o.r \in Router
      /\ o.r.native \subseteq router.native \cup NativeOf(rec.committed)
      /\ o.err # "failed" => Stands(rec.committed, o.r)
      /\ o.err = "leftover" => rec.off.leftover # Nil
      /\ o.err = "none" /\ rec.off.leftover.native => rec.off.leftover.id \notin o.r.native
      /\ o.err \in {"none", "leftover", "failed"}
  BY <1>2, SwitchingOnDoes
<1>5. rec.committed.native => rec.committed # Nil
  BY DEF Nil
<1>6. Accounted = {rec.committed, rec.off.leftover}
  BY <1>2 DEF Accounted
<1> DEFINE on == [rec EXCEPT !.off = NotOff]
<1>7. /\ on \in Record /\ on.committed = rec.committed /\ on.live = Nil /\ on.off = NotOff
      /\ ~NotOff.on
  BY <1>3, Basics DEF Record, NotOff
<1> HIDE DEF on
<1>8. CASE SwitchesOn(o)
  <2>1. /\ o.err # "failed" /\ router' \in {o.r, Saved(o.r)}
        /\ rec' = IF o.err = "none" THEN on
                  ELSE NoteLiveOutstanding(on, rec.off.leftover, "committed")
    BY <1>8 DEF SwitchesOn, on
  <2>2. /\ router'.native = o.r.native /\ router'.plane = o.r.plane
        /\ router'.file = o.r.file /\ router'.desired = o.r.desired
    BY <1>4, <2>1, SavedKeeps
  <2>3. Stands(rec.committed, router')
    BY <1>4, <2>1, <2>2 DEF Stands
  <2>4. CASE o.err = "none"
    <3>1. rec'.committed = rec.committed /\ rec'.live = Nil /\ rec'.off = NotOff /\ ~rec'.off.on
      BY <1>7, <2>1, <2>4
    <3>2. Paired /\ Standing /\ Accounted' = {rec.committed}
      BY <2>3, <3>1, StandsEffect
    <3>3. Moves
      BY <1>2, <1>3, <3>1 DEF Moves, TurnedOn
    <3>4. ASSUME Natives, Left PROVE Left'
      <4> DEFINE gone == NativeOf(rec.off.leftover)
      <4>1. router'.native \subseteq (router.native \cup NativeOf(rec.committed)) \ gone
        BY <1>4, <2>2, <2>4 DEF NativeOf
      <4>2. \A v \in Accounted \ {Nil} : v \in Accounted' \/ v.id \in gone
        BY <1>6, <3>2, <3>4 DEF Natives, NativeOf
      <4>3. rec.committed.native => rec.committed # Nil /\ rec.committed \in Accounted'
        BY <1>5, <3>2
      <4> HIDE DEF gone
      <4> QED BY <3>4, <4>1, <4>2, <4>3, StillLeft
    <3> QED BY <3>2, <3>3, <3>4 DEF Effect
  <2>5. CASE o.err = "leftover"
    <3>1. rec' = NoteLiveOutstanding(on, rec.off.leftover, "committed") /\ rec.off.leftover # Nil
      BY <1>4, <2>1, <2>5
    <3>2. /\ rec'.committed = rec.committed /\ rec'.live = rec.off.leftover
          /\ rec'.off = NotOff /\ rec'.mark.id = rec.off.leftover.id
      BY <1>3, <1>7, <3>1, RecordFields
    <3>3. rec'.sameBoot /\ rec'.mark.plane = "committed"
      BY <1>3, <1>7, <3>1, RecordMarks
    <3>4. /\ Standing /\ Accounted' = {rec.off.leftover, rec.committed}
          /\ SupervisedBaseline' = rec.committed
      BY <1>7, <3>1, <3>2, <3>3, OutstandingEffect
    <3>5. Paired
      BY <2>3, <3>4 DEF Paired, Stands
    <3>6. Moves
      BY <1>2, <3>1, <3>2, <3>3 DEF Moves, TurnedOn
    <3>7. ASSUME Left PROVE Left'
      <4>1. router'.native \subseteq (router.native \cup NativeOf(rec.committed)) \ {}
        BY <1>4, <2>2
      <4>2. \A v \in Accounted \ {Nil} : v \in Accounted'
        BY <1>6, <3>4
      <4>3. rec.committed.native => rec.committed # Nil /\ rec.committed \in Accounted'
        BY <1>5, <3>4
      <4> QED BY <3>7, <4>1, <4>2, <4>3, StillLeft
    <3> QED BY <3>4, <3>5, <3>6, <3>7 DEF Effect
  <2> QED BY <1>4, <2>1, <2>4, <2>5
<1>9. CASE StaysOff(o)
  <2>1. PICK x \in RemoveRouting(o.r, Revs(rec.off.leftover)) : router' = x.r
    BY <1>9 DEF StaysOff
  <2>2. router'.native = o.r.native
    BY <1>4, <2>1, RemoveKeeps
  <2>3. rec' = [rec EXCEPT !.off.err = TRUE]
    BY <1>9 DEF StaysOff
  <2>4. Kept
    BY <1>2, <1>3, <2>3 DEF Kept, Record
  <2> QED BY <1>2, <1>4, <2>2, <2>4, OffEffect
<1> QED BY <1>1, <1>8, <1>9

\* The supervision loops.
LEMMA SupervisionEffect ==
  ASSUME RecordInv, Sound,
         \/ FirmwareDrop \/ Reconcile \/ ConvergeAfterInstall \/ CoreDies \/ Watchdog
         \/ CoreRestartDue \/ RestartCoreOnSchedule
  PROVE  Effect
<1>1. TypeOK /\ router \in Router /\ rec \in Record
  BY DEF RecordInv, TypeOK
<1>2. CASE FirmwareDrop \/ CoreDies \/ Watchdog
  <2>1. /\ \/ router' = [router EXCEPT !.lost = TRUE]
           \/ router' = [router EXCEPT !.core = 0]
           \/ router' = [router EXCEPT !.core = router.file]
        /\ rec' = rec
    BY <1>2 DEF FirmwareDrop, CoreDies, Watchdog
  <2>2. Quiet
    BY <1>1, <2>1 DEF Quiet, Router
  <2> QED BY <1>1, <2>2, QuietEffect
<1>3. CASE CoreRestartDue \/ RestartCoreOnSchedule
  <2>1. rec' = rec /\ (router' = router \/ router' \in Reload(router))
    BY <1>3 DEF CoreRestartDue, RestartCoreOnSchedule
  <2>2. /\ router'.plane = router.plane /\ router'.native = router.native
        /\ router'.file = router.file /\ (router.desired => router'.desired)
    BY <1>1, <2>1 DEF Reload, Router
  <2>3. Quiet
    BY <2>1, <2>2 DEF Quiet
  <2> QED BY <1>1, <2>3, QuietEffect
<1>4. CASE Reconcile
  <2> DEFINE base == SupervisedBaseline
  <2>1. /\ ~rec.off.on /\ base.kernel /\ rec' = rec
        /\ router' \in KernelDamage(router, base, {}) \cup {Installed(router, base, {}, {}, {"kernel"})}
    BY <1>4 DEF Reconcile
  <2>2. AppliedBaseline' = AppliedBaseline /\ SupervisedBaseline' = base /\ (Clean' <=> Clean)
        /\ Accounted' = Accounted
    BY <2>1 DEF AppliedBaseline, SupervisedBaseline, Clean, RollbackOutstanding, Accounted
  <2>3. Clean => base = AppliedBaseline
    BY DEF Clean, SupervisedBaseline
  <2> HIDE DEF base
  <2>4. /\ router'.file = router.file /\ router'.desired = router.desired
        /\ router'.native = router.native
        /\ router.plane = base.id => router'.plane = base.id
    <3>1. CASE router' = Installed(router, base, {}, {}, {"kernel"})
      BY <1>1, <2>1, <3>1 DEF Installed, Router
    <3>2. CASE router' \in KernelDamage(router, base, {})
      <4>1. \/ router' = router
            \/ \E gone, new : router' = HalfReplaced(router, base, gone, new)
        BY <3>2 DEF KernelDamage
      <4> QED BY <1>1, <4>1 DEF HalfReplaced, Router
    <3> QED BY <2>1, <3>1, <3>2
  <2>5. Moves
    BY <2>1 DEF Moves, Kept
  <2>6. Paired
    BY <2>1, <2>2, <2>4 DEF Paired, base
  <2>7. Standing
    <3>1. Clean /\ Stands(AppliedBaseline, router) => Stands(AppliedBaseline, router)'
      BY <2>1, <2>2, <2>3, <2>4 DEF Stands
    <3> QED BY <2>1, <2>2, <3>1 DEF Standing
  <2>8. Left => Left'
    BY <2>2, <2>4 DEF Left
  <2> QED BY <2>5, <2>6, <2>7, <2>8 DEF Effect
<1>5. CASE ConvergeAfterInstall
  <2>1. Clean /\ rec' = rec
    BY <1>5 DEF ConvergeAfterInstall, Clean
  <2>2. PICK o \in Converge(router, AppliedBaseline) : router' = o.r
    BY <1>5 DEF ConvergeAfterInstall
  <2> QED BY <2>1, <2>2, ConvergedEffect
<1> QED BY <1>2, <1>3, <1>4, <1>5

\* A process that went down, seen from the router and the record it left.
LEMMA DownLeaves ==
  ASSUME RecordInv, NEW r \in Router, NEW record \in Record, NEW how \in Restarts,
         GoDown(r, record, how), NEW what, what \subseteq {"apply", "rollback"}, Suffer(what, how)
  PROVE  /\ rec'.committed = record.committed /\ rec'.live = record.live /\ rec'.off = record.off
         /\ rec'.mark = record.mark
         /\ record.sameBoot => rec'.sameBoot \/ "reboot" \in mishaps'
         /\ History /\ boot' = Down /\ what \subseteq mishaps'
         /\ mishaps' = {} => router'.plane = r.plane
         /\ Tracked => router'.native = r.native
<1>1. /\ router' = IF how = "reboot" THEN AfterReboot(r) ELSE AfterRestart(r)
      /\ rec' = [record EXCEPT !.sameBoot = @ /\ how # "reboot"]
      /\ boot' = Down
  BY DEF GoDown
<1>2. mishaps' = mishaps \cup what \cup ({how} \cap {"reboot"})
  BY DEF Suffer
<1>3. /\ rec'.committed = record.committed /\ rec'.live = record.live /\ rec'.off = record.off
      /\ rec'.mark = record.mark
      /\ rec'.sameBoot = (record.sameBoot /\ how # "reboot")
  <2> DEFINE same == record.sameBoot /\ how # "reboot"
  <2>1. rec' = [record EXCEPT !.sameBoot = same]
    BY <1>1
  <2> HIDE DEF same
  <2>2. /\ rec'.committed = record.committed /\ rec'.live = record.live /\ rec'.off = record.off
        /\ rec'.mark = record.mark /\ rec'.sameBoot = same
    BY <2>1 DEF Record
  <2> QED BY <2>2 DEF same
<1>4. how = "reboot" => "reboot" \in mishaps'
  BY <1>2
<1>5. record.sameBoot => rec'.sameBoot \/ "reboot" \in mishaps'
  BY <1>3, <1>4
<1>6. History /\ what \subseteq mishaps'
  BY <1>2 DEF History
<1>7. mishaps' = {} => router'.plane = r.plane
  BY <1>1, <1>4, DownKeeps
<1>8. Tracked => router'.native = r.native
  BY <1>1, DownKeeps, RouterAssumption DEF Tracked
<1> QED BY <1>1, <1>3, <1>5, <1>6, <1>7, <1>8

\* What holds after a crash in place of Effect.
Crashed ==
  /\ Moves /\ History /\ boot' = Down
  /\ mishaps' = {} => Paired
  /\ Tracked /\ Natives /\ Left /\ mishaps' \subseteq {"reboot"} => Left'

LEMMA CrashEffect ==
  ASSUME RecordInv, Sound, NEW how \in Restarts,
         \/ Crash(how) \/ CrashInRollback(how) \/ CrashInRoutingOff(how) \/ CrashInRoutingOn(how)
         \/ \E sh \in Shapes : CrashInApply(sh, how)
  PROVE  Crashed
<1>1. /\ router \in Router /\ rec \in Record
      /\ rec.committed \in Revision /\ rec.live \in Revision /\ rec.off.leftover \in Revision
  BY Names
<1>2. TypeOK
  BY DEF RecordInv
<1>3. {} \subseteq {"apply", "rollback"} /\ {"apply"} \subseteq {"apply", "rollback"}
      /\ {"rollback"} \subseteq {"apply", "rollback"}
  OBVIOUS
<1>4. CASE Crash(how)
  <2>1. GoDown(router, rec, how) /\ Suffer({}, how)
    BY <1>4 DEF Crash
  <2>2. /\ rec'.committed = rec.committed /\ rec'.live = rec.live /\ rec'.off = rec.off
        /\ rec'.mark = rec.mark
        /\ rec.sameBoot => rec'.sameBoot \/ "reboot" \in mishaps'
        /\ History /\ boot' = Down
        /\ mishaps' = {} => router'.plane = router.plane
        /\ Tracked => router'.native = router.native
    BY <1>1, <1>3, <2>1, DownLeaves
  <2>3. Moves
    BY <2>2 DEF Moves, Kept
  <2>4. /\ AppliedBaseline' = AppliedBaseline /\ (RollbackOutstanding' <=> RollbackOutstanding)
    BY <2>2 DEF AppliedBaseline, RollbackOutstanding
  <2>5. SupervisedBaseline' = SupervisedBaseline
    <3>1. rec.mark.plane \in {"tested", "committed", "unknown"}
      BY Names
    <3> QED BY <2>2, <2>4, <3>1 DEF SupervisedBaseline
  <2>6. mishaps' = {} => Paired
    BY <2>2, <2>5 DEF Paired
  <2>7. Accounted' = Accounted
    BY <2>2, <2>4 DEF Accounted
  <2>8. Tracked /\ Left => Left'
    BY <2>2, <2>7 DEF Left
  <2> QED BY <2>2, <2>3, <2>6, <2>8 DEF Crashed
<1>5. CASE CrashInRollback(how)
  <2>1. PICK b \in RollbackTo(router, rec.committed, rec.live) :
          GoDown(b.r, rec, how) /\ Suffer({"rollback"}, how)
    BY <1>5 DEF CrashInRollback
  <2>2. b.r \in Router
    BY <1>1, <2>1, RollbackTouches DEF Outcome
  <2>3. /\ rec'.committed = rec.committed /\ rec'.live = rec.live /\ rec'.off = rec.off
        /\ rec.sameBoot => rec'.sameBoot \/ "reboot" \in mishaps'
        /\ History /\ boot' = Down /\ {"rollback"} \subseteq mishaps'
    BY <1>1, <1>3, <2>1, <2>2, DownLeaves
  <2>4. Moves
    BY <2>3 DEF Moves, Kept
  <2> QED BY <2>3, <2>4 DEF Crashed
<1>6. CASE CrashInRoutingOff(how)
  <2>1. PICK o \in RemoveRouting(router, Revs(SwitchedOff(FALSE).off.leftover)) :
          GoDown(o.r, SwitchedOff(FALSE), how) /\ Suffer({}, how)
    BY <1>6 DEF CrashInRoutingOff
  <2> DEFINE record == SwitchedOff(FALSE)
  <2>2. /\ record \in Record /\ record.committed = rec.committed /\ record.live = Nil
        /\ record.off.on
        /\ record.off.leftover = IF rec.live # Nil THEN rec.live ELSE rec.off.leftover
    <3>1. record \in Record
      <4>1. FALSE \in BOOLEAN
        OBVIOUS
      <4> QED BY <1>1, <4>1, RecordTypes, Zenon
    <3> QED BY <1>1, <3>1, RecordFields
  <2>3. o.r \in Router /\ o.r.native = router.native
    <3>1. Revs(record.off.leftover) \in SUBSET Revision
      BY <1>1, <2>2 DEF Revs
    <3> QED BY <1>1, <2>1, <3>1, RemoveTouches, RemoveKeeps DEF Touches
  <2> HIDE DEF record
  <2>4. GoDown(o.r, record, how)
    BY <2>1 DEF record
  <2>5. /\ rec'.committed = record.committed /\ rec'.live = record.live /\ rec'.off = record.off
        /\ History /\ boot' = Down
        /\ Tracked => router'.native = o.r.native
    BY <1>3, <2>1, <2>2, <2>3, <2>4, DownLeaves
  <2>6. TurnedOff
    BY <2>2, <2>5 DEF TurnedOff
  <2>7. Tracked => Effect
    BY <2>3, <2>5, <2>6, SwitchedOffEffect
  <2>8. Moves /\ Paired
    BY <2>6 DEF Moves, Paired, TurnedOff
  <2> QED BY <2>5, <2>7, <2>8 DEF Crashed, Effect
<1>7. CASE CrashInRoutingOn(how)
  <2>1. rec.off.on
    BY <1>7 DEF CrashInRoutingOn
  <2>2. PICK o \in SwitchingOn : GoDown(o.r, rec, how) /\ Suffer({}, how)
    BY <1>7 DEF CrashInRoutingOn
  <2>3. o.r \in Router /\ o.r.native \subseteq router.native \cup NativeOf(rec.committed)
    BY <2>1, SwitchingOnDoes
  <2>4. /\ rec'.committed = rec.committed /\ rec'.live = rec.live /\ rec'.off = rec.off
        /\ rec.sameBoot => rec'.sameBoot \/ "reboot" \in mishaps'
        /\ History /\ boot' = Down
        /\ Tracked => router'.native = o.r.native
    BY <1>1, <1>3, <2>2, <2>3, DownLeaves
  <2>5. Kept
    BY <2>4 DEF Kept
  <2>6. Tracked => Effect
    BY <2>1, <2>3, <2>4, <2>5, OffEffect
  <2>7. Moves /\ Paired
    BY <2>1, <2>4, <2>5 DEF Moves, Paired
  <2> QED BY <2>4, <2>6, <2>7 DEF Crashed, Effect
<1>8. ASSUME NEW sh \in Shapes, CrashInApply(sh, how) PROVE Crashed
  <2>1. PICK r \in UNION {{o.r} \cup {b.r : b \in IF o.ok THEN {} ELSE Recovery(Next1(sh), o)} :
                            o \in Forward(Next1(sh))} :
          GoDown(r, [rec EXCEPT !.inflight = TRUE], how)
    BY <1>8, Zenon DEF CrashInApply
  <2>2. seq < MaxRev /\ Suffer({"apply"}, how)
    BY <1>8 DEF CrashInApply
  <2>3. r \in Router
    BY <1>2, <2>1, <2>2, CrashedApply
  <2> DEFINE record == [rec EXCEPT !.inflight = TRUE]
  <2>4. /\ record \in Record /\ record.committed = rec.committed /\ record.live = rec.live
        /\ record.off = rec.off /\ record.sameBoot = rec.sameBoot
    BY <1>1 DEF Record
  <2> HIDE DEF record
  <2>5. GoDown(r, record, how)
    BY <2>1 DEF record
  <2>6. /\ rec'.committed = record.committed /\ rec'.live = record.live /\ rec'.off = record.off
        /\ record.sameBoot => rec'.sameBoot \/ "reboot" \in mishaps'
        /\ History /\ boot' = Down /\ {"apply"} \subseteq mishaps'
    BY <1>3, <2>2, <2>3, <2>4, <2>5, DownLeaves
  <2>7. Moves
    BY <2>4, <2>6 DEF Moves, Kept
  <2> QED BY <2>6, <2>7 DEF Crashed
<1> QED BY <1>4, <1>5, <1>6, <1>7, <1>8

\* The next process forgets a Test only when the router rebooted under it.
Started ==
  /\ Moves
  /\ mishaps' = {} => Paired
  /\ Tracked /\ Left => Left'

LEMMA StartEffect ==
  ASSUME RecordInv, Sound, StartApply
  PROVE  Started
<1>1. /\ rec \in Record /\ UNCHANGED <<router, mishaps>>
      /\ rec' = DiscardLiveOnBoot(LiveNeedsRollback)
  BY Names DEF StartApply
<1>2. CASE LiveNeedsRollback
  <2>1. rec' = [rec EXCEPT !.inflight = FALSE]
    BY <1>1, <1>2 DEF DiscardLiveOnBoot
  <2>2. /\ rec'.committed = rec.committed /\ rec'.live = rec.live /\ rec'.off = rec.off
        /\ rec'.mark = rec.mark /\ rec'.sameBoot = rec.sameBoot
    BY <1>1, <2>1 DEF Record
  <2>3. Moves
    BY <2>2 DEF Moves, Kept
  <2>4. /\ AppliedBaseline' = AppliedBaseline /\ (RollbackOutstanding' <=> RollbackOutstanding)
    BY <2>2 DEF AppliedBaseline, RollbackOutstanding
  <2>5. SupervisedBaseline' = SupervisedBaseline
    <3>1. rec.mark.plane \in {"tested", "committed", "unknown"}
      BY Names
    <3> QED BY <2>2, <2>4, <3>1 DEF SupervisedBaseline
  <2>6. Paired
    BY <1>1, <2>2, <2>5 DEF Paired
  <2>7. Accounted' = Accounted
    BY <2>2, <2>4 DEF Accounted
  <2> QED BY <1>1, <2>3, <2>6, <2>7 DEF Started, Left
<1>3. CASE ~LiveNeedsRollback
  <2>1. rec' = RecordRollback
    BY <1>1, <1>3 DEF DiscardLiveOnBoot
  <2>2. rec'.committed = rec.committed /\ rec'.live = Nil /\ rec'.off = rec.off
    BY <1>1, <2>1, RecordFields
  <2>3. Moves
    BY <2>2 DEF Moves, Settled
  <2>4. \/ rec.live = Nil
        \/ Keenetic /\ "reboot" \in mishaps /\ "reboot" \in Restarts
    BY <1>3 DEF LiveNeedsRollback, Sound, SwitchInv, SameBootInv
  <2>5. ASSUME rec.live = Nil PROVE Paired /\ (Left => Left')
    <3>1. /\ SupervisedBaseline' = rec.committed /\ SupervisedBaseline = rec.committed
          /\ Accounted' = Accounted
      BY <2>2, <2>5 DEF SupervisedBaseline, AppliedBaseline, RollbackOutstanding, Accounted
    <3>2. Paired
      BY <1>1, <2>2, <3>1 DEF Paired
    <3> QED BY <1>1, <3>1, <3>2 DEF Left
  <2> QED BY <1>1, <2>3, <2>4, <2>5 DEF Started, Tracked
<1> QED BY <1>2, <1>3

\* How a boot attempt that is not over ends.
LEMMA BootGoes ==
  ASSUME boot \in BootState, ~boot.ok, NEW done, BootGoesOn(done)
  PROVE  /\ boot'.rev = boot.rev /\ boot'.moved = boot.moved
         /\ boot'.pc \in {boot.pc, "idle"}
         /\ boot'.pc # "idle" => ~boot'.ok
         /\ boot'.ok => done
         /\ done => boot'.pc = "idle"
<1>1. \/ done /\ boot' = [boot EXCEPT !.pc = "idle", !.ok = TRUE]
      \/ ~done /\ boot' = [boot EXCEPT !.pc = "idle"]
      \/ ~done /\ boot' = [boot EXCEPT !.retry = TRUE]
  BY DEF BootGoesOn
<1>2. CASE done /\ boot' = [boot EXCEPT !.pc = "idle", !.ok = TRUE]
  BY <1>2 DEF BootState
<1>3. CASE ~done /\ (boot' = [boot EXCEPT !.pc = "idle"] \/ boot' = [boot EXCEPT !.retry = TRUE])
  BY <1>3 DEF BootState
<1> QED BY <1>1, <1>2, <1>3

\* One attempt of boot.  An attempt that reports success leaves what the record
\* names standing, whoever changed the record since boot read it.
LEMMA AttemptEffect ==
  ASSUME RecordInv, Sound, BootInv,
         ConvergeOnBootOnce \/ RollbackLiveOnBootOnce \/ ReassertRoutingOff
  PROVE  /\ Effect /\ BootInv'
         /\ boot.pc # "off" /\ boot'.pc = "idle" /\ boot'.ok /\ Clean' =>
              Stands(AppliedBaseline, router)'
<1>1. /\ boot \in BootState /\ rec \in Record /\ router \in Router /\ TypeOK /\ IdInv
      /\ rec.committed \in Held /\ rec.live \in Held /\ boot.rev \in Held /\ Nil \in Held
  BY Names, Held1 DEF RecordInv, TypeOK, BootState
<1>2. boot.pc \in {"converge", "rollback", "off"} /\ ~boot.ok
  BY DEF ConvergeOnBootOnce, RollbackLiveOnBootOnce, ReassertRoutingOff, BootInv
<1>3. boot.pc = "rollback" => boot.rev # Nil
  BY DEF BootInv, TaskInv
<1>4. ASSUME NEW done, BootGoesOn(done)
      PROVE  /\ boot'.rev = boot.rev /\ boot'.moved = boot.moved
             /\ boot'.pc \in {boot.pc, "idle"}
             /\ boot'.pc # "idle" => ~boot'.ok
             /\ boot'.ok => done
             /\ done => boot'.pc = "idle"
  BY <1>1, <1>2, <1>4, BootGoes
<1>5. ASSUME NEW done, BootGoesOn(done), boot'.pc # "idle" => ~Clean' \/ boot.pc = "off"
      PROVE  BootInv'
  BY <1>2, <1>3, <1>4, <1>5 DEF BootInv, TaskInv
<1>6. ASSUME BootSkips PROVE /\ Effect /\ BootInv' /\ Clean' = Clean
                             /\ Stands(AppliedBaseline, router) <=> Stands(AppliedBaseline, router)'
  <2>1. BootGoesOn(TRUE) /\ rec' = rec /\ router' = router
    BY <1>6 DEF BootSkips
  <2>2. Quiet
    BY <2>1 DEF Quiet
  <2>3. Effect
    BY <1>1, <2>2, QuietEffect
  <2>4. BootInv'
    BY <1>4, <1>5, <2>1
  <2> QED BY <2>1, <2>3, <2>4 DEF Clean, RollbackOutstanding, Stands, AppliedBaseline
<1>7. ASSUME ~rec.off.on, rec.live = Nil, rec.committed.id = boot.rev.id, BootConverges(boot.rev),
             boot.pc = "converge" \/ (boot.pc = "rollback" /\ ~boot.moved)
      PROVE  /\ Effect /\ BootInv'
             /\ boot'.ok => Stands(AppliedBaseline, router)'
  <2>1. rec.committed = boot.rev
    BY <1>1, <1>7 DEF IdInv
  <2>2. Clean /\ AppliedBaseline = boot.rev
    BY <1>7, <2>1 DEF Clean, RollbackOutstanding, AppliedBaseline
  <2>3. PICK o \in Converge(router, boot.rev) : router' = o.r /\ BootGoesOn(o.ok)
    BY <1>7 DEF BootConverges
  <2>4. rec' = rec
    BY <1>7 DEF BootConverges
  <2>5. Effect /\ (o.ok => Stands(AppliedBaseline, router)')
    BY <2>2, <2>3, <2>4, ConvergedEffect
  <2>6. PICK done : done = o.ok
    OBVIOUS
  <2>7. /\ boot'.rev = boot.rev /\ boot'.moved = boot.moved
        /\ boot'.pc \in {boot.pc, "idle"}
        /\ boot'.pc # "idle" => ~boot'.ok
        /\ boot'.ok => o.ok
    BY <1>4, <2>3, <2>6
  <2>8. BootInv'
    <3>1. rec'.live = Nil /\ rec'.committed = boot'.rev
      BY <1>7, <2>1, <2>4, <2>7
    <3>2. boot'.pc # "idle" => boot'.pc = "converge" \/ ToRollBack'
      BY <1>7, <2>7, <3>1 DEF ToRollBack
    <3> QED BY <1>2, <1>3, <2>7, <3>1, <3>2 DEF BootInv, TaskInv
  <2> QED BY <2>5, <2>7, <2>8
<1>8. CASE ConvergeOnBootOnce
  <2>1. /\ boot.pc = "converge"
        /\ IF BootStillWants THEN BootConverges(boot.rev) ELSE BootSkips
    BY <1>8 DEF ConvergeOnBootOnce
  <2>2. CASE BootStillWants
    BY <1>7, <2>1, <2>2 DEF BootStillWants
  <2>3. CASE ~BootStillWants
    <3>1. Clean => Stands(AppliedBaseline, router)
      BY <2>1, <2>3 DEF BootInv, BootStillWants, Clean
    <3> QED BY <1>6, <2>1, <2>3, <3>1
  <2> QED BY <2>2, <2>3
<1>9. CASE RollbackLiveOnBootOnce
  <2>1. boot.pc = "rollback"
    BY <1>9 DEF RollbackLiveOnBootOnce
  <2>2. CASE rec.off.on
    <3>1. BootSkips
      BY <1>9, <2>2 DEF RollbackLiveOnBootOnce
    <3> QED BY <1>6, <2>2, <3>1 DEF Clean
  <2>3. CASE ~rec.off.on /\ KeptMeanwhile
    <3>1. BootConverges(boot.rev)
      BY <1>9, <2>3 DEF RollbackLiveOnBootOnce
    <3> QED BY <1>7, <2>1, <2>3, <3>1 DEF KeptMeanwhile
  <2>4. CASE ~rec.off.on /\ ~KeptMeanwhile /\ (boot.moved \/ rec.live.id # boot.rev.id)
    <3>1. BootSkips
      BY <1>9, <2>4 DEF RollbackLiveOnBootOnce
    <3>2. Clean => Stands(AppliedBaseline, router)
      BY <2>1, <2>4 DEF BootInv, ToRollBack, KeptMeanwhile
    <3> QED BY <1>6, <3>1, <3>2
  <2>5. CASE ~rec.off.on /\ ~KeptMeanwhile /\ ~(boot.moved \/ rec.live.id # boot.rev.id)
    <3>1. RollBackLive(rec.live) /\ BootGoesOn(rec'.live = Nil)
      BY <1>9, <2>5 DEF RollbackLiveOnBootOnce
    <3>2. rec.live # Nil
      BY <1>1, <1>3, <2>1, <2>5 DEF IdInv
    <3>3. /\ Effect
          /\ rec'.live = Nil => /\ Stands(rec.committed, router')
                                /\ rec'.committed = rec.committed /\ rec'.off = rec.off
          /\ rec'.live # Nil => ~Clean'
      BY <3>1, <3>2, UndoneEffect
    <3>4. PICK done : done = (rec'.live = Nil)
      OBVIOUS
    <3>5. BootGoesOn(done)
      BY <3>1, <3>4
    <3>6. /\ boot'.pc # "idle" => rec'.live # Nil
          /\ boot'.ok => rec'.live = Nil
      BY <1>4, <3>4, <3>5
    <3>7. BootInv'
      BY <1>5, <3>3, <3>5, <3>6
    <3>8. rec'.live = Nil => Stands(AppliedBaseline, router)'
      BY <3>3 DEF Stands, AppliedBaseline
    <3> QED BY <3>3, <3>6, <3>7, <3>8
  <2> QED BY <2>2, <2>3, <2>4, <2>5
<1>10. CASE ReassertRoutingOff
  <2>1. boot.pc = "off"
    BY <1>10 DEF ReassertRoutingOff
  <2>2. CASE ~rec.off.on
    <3>1. BootSkips
      BY <1>10, <2>2 DEF ReassertRoutingOff
    <3> QED BY <1>6, <2>1, <3>1
  <2>3. CASE rec.off.on
    <3>1. PICK o \in RemoveRouting(router, Revs(rec.off.leftover)) :
            router' = o.r /\ rec' = [rec EXCEPT !.off.err = ~o.ok] /\ BootGoesOn(o.ok)
      BY <1>10, <2>3 DEF ReassertRoutingOff
    <3>2. router'.native = router.native
      BY <1>1, <3>1, RemoveKeeps
    <3>3. Kept
      <4> DEFINE e == ~o.ok
      <4>1. rec' = [rec EXCEPT !.off.err = e]
        BY <3>1
      <4> HIDE DEF e
      <4> QED BY <1>1, <2>3, <4>1 DEF Kept, Record
    <3>4. Effect
      BY <2>3, <3>2, <3>3, OffEffect
    <3>5. BootInv'
      <4>1. PICK done : done = o.ok
        OBVIOUS
      <4> QED BY <1>5, <2>1, <3>1, <4>1
    <3> QED BY <2>1, <3>4, <3>5
  <2> QED BY <2>2, <2>3
<1> QED BY <1>8, <1>9, <1>10

\* Everything else a boot waits through.
LEMMA WaitingKeeps ==
  ASSUME RecordInv, BootInv, Standing, boot' = boot
  PROVE  BootInv'
<1>1. (boot.pc # "idle" => ~boot.ok) /\ TaskInv
  BY DEF BootInv
<1>2. CASE ~Clean'
  BY <1>1, <1>2 DEF BootInv, TaskInv
<1>3. CASE Stands(AppliedBaseline, router)'
  BY <1>1, <1>3 DEF BootInv, TaskInv
<1>4. CASE /\ Clean
           /\ Stands(AppliedBaseline, router) => Stands(AppliedBaseline, router)'
           /\ rec'.committed = rec.committed /\ rec'.live = rec.live
  BY <1>1, <1>4 DEF BootInv, TaskInv, ToRollBack
<1>5. CASE /\ Clean
           /\ Stands(AppliedBaseline, router) => Stands(AppliedBaseline, router)'
           /\ rec.live # Nil /\ rec'.live = Nil /\ rec'.committed = rec.live
  BY <1>1, <1>5 DEF BootInv, TaskInv, ToRollBack
<1> QED BY <1>2, <1>3, <1>4, <1>5 DEF Standing

-----------------------------------------------------------------------------
(* Every step                                                              *)

LEMMA StepEffect ==
  ASSUME RecordInv, Sound, BootInv, [Next]_vars
  PROVE  /\ Moves /\ History /\ BootInv'
         /\ mishaps' = {} => Paired
         /\ Tracked /\ Natives /\ Left /\ mishaps' \subseteq {"reboot"} => Left'
         /\ boot.pc \in {"converge", "rollback"} /\ boot'.pc = "idle" /\ boot'.ok /\ Clean' =>
              Stands(AppliedBaseline, router)'
<1>1. TypeOK /\ boot \in BootState
  BY DEF RecordInv, TypeOK, BootState
<1>2. mishaps' = mishaps => History
  BY DEF History
<1>3. ASSUME Effect, boot' = boot, mishaps' = mishaps
      PROVE  /\ Moves /\ History /\ BootInv'
             /\ mishaps' = {} => Paired
             /\ Tracked /\ Natives /\ Left /\ mishaps' \subseteq {"reboot"} => Left'
             /\ boot.pc \in {"converge", "rollback"} => boot'.pc # "idle"
  BY <1>2, <1>3, WaitingKeeps DEF Effect
<1>4. CASE UNCHANGED vars
  <2>1. UNCHANGED <<router, rec, boot, mishaps>>
    BY <1>4 DEF vars
  <2>2. Effect
    BY <1>1, <2>1, QuietEffect DEF Quiet
  <2> QED BY <1>3, <2>1, <2>2
<1>5. ASSUME NEW sh \in Shapes, Apply(sh)
      PROVE  Effect /\ boot' = boot /\ mishaps' = mishaps
  BY <1>5, ApplyEffect DEF Apply
<1>6. CASE Keep \/ RollBack \/ \E f \in flight : Closure(f)
  <2>1. boot' = boot /\ mishaps' = mishaps
    BY <1>6 DEF Keep, RollBack, Closure
  <2>2. Effect
    <3>1. CASE Keep
      BY <3>1, KeepEffect
    <3>2. CASE RollBack
      BY <3>2, UndoneEffect DEF RollBack
    <3>3. CASE \E f \in flight : Closure(f)
      BY <3>3, ClosureEffect
    <3> QED BY <1>6, <3>1, <3>2, <3>3
  <2> QED BY <1>3, <2>1, <2>2
<1>7. CASE KeepConfirms \/ Dispatch \/ WindowOver
  <2>1. UNCHANGED <<router, rec, boot, mishaps>>
    BY <1>7 DEF KeepConfirms, Dispatch, WindowOver
  <2>2. Effect
    BY <1>1, <2>1, QuietEffect DEF Quiet
  <2> QED BY <1>3, <2>1, <2>2
<1>8. CASE RoutingOff
  <2>1. Effect /\ ~Clean' /\ mishaps' = mishaps /\ boot' = [boot EXCEPT !.moved = TRUE]
    BY <1>8, RoutingOffEffect DEF RoutingOff
  <2>2. boot'.pc = boot.pc /\ boot'.ok = boot.ok /\ boot'.rev = boot.rev
    BY <1>1, <2>1 DEF BootState
  <2>3. BootInv'
    BY <2>1, <2>2 DEF BootInv, TaskInv
  <2> QED BY <1>2, <2>1, <2>3 DEF Effect
<1>9. CASE RoutingOn
  BY <1>3, <1>9, RoutingOnEffect DEF RoutingOn
<1>10. CASE \/ FirmwareDrop \/ Reconcile \/ ConvergeAfterInstall \/ CoreDies \/ Watchdog
            \/ CoreRestartDue \/ RestartCoreOnSchedule
  <2>1. boot' = boot /\ mishaps' = mishaps
    BY <1>10 DEF FirmwareDrop, Reconcile, ConvergeAfterInstall, CoreDies, Watchdog,
       CoreRestartDue, RestartCoreOnSchedule
  <2> QED BY <1>3, <1>10, <2>1, SupervisionEffect
<1>11. ASSUME NEW how \in Restarts,
              \/ Crash(how) \/ CrashInRollback(how) \/ CrashInRoutingOff(how) \/ CrashInRoutingOn(how)
              \/ \E sh \in Shapes : CrashInApply(sh, how)
       PROVE  Crashed
  BY <1>11, CrashEffect
<1>12. CASE Crashed
  <2>1. boot'.pc = "down" /\ ~boot'.ok
    BY <1>12 DEF Crashed, Down
  <2>2. BootInv'
    BY <2>1 DEF BootInv, TaskInv
  <2> QED BY <1>12, <2>1, <2>2 DEF Crashed
<1>13. CASE StartApply
  <2>1. Started /\ mishaps' = mishaps
    BY <1>13, StartEffect DEF StartApply
  <2>2. /\ boot.pc = "down" /\ boot'.pc = "start" /\ ~boot'.ok /\ ~boot'.moved
        /\ boot'.rev = IF LiveNeedsRollback THEN rec.live ELSE Nil
        /\ rec' = DiscardLiveOnBoot(LiveNeedsRollback)
    BY <1>13 DEF StartApply
  <2>3. BootInv'
    <3>1. CASE LiveNeedsRollback
      <4>1. rec' = [rec EXCEPT !.inflight = FALSE] /\ rec.live # Nil /\ boot'.rev = rec.live
        BY <2>2, <3>1 DEF DiscardLiveOnBoot, LiveNeedsRollback
      <4>2. rec'.live = rec.live
        BY <1>1, <4>1 DEF TypeOK, Record
      <4> QED BY <2>2, <4>1, <4>2 DEF BootInv, TaskInv, ToRollBack
    <3>2. CASE ~LiveNeedsRollback
      <4>1. rec' = RecordRollback /\ boot'.rev = Nil
        BY <2>2, <3>2 DEF DiscardLiveOnBoot
      <4>2. rec'.live = Nil
        BY <1>1, <4>1, RecordFields DEF TypeOK
      <4> QED BY <2>2, <4>1, <4>2 DEF BootInv, TaskInv
    <3> QED BY <3>1, <3>2
  <2> QED BY <1>2, <2>1, <2>2, <2>3 DEF Started
<1>14. CASE BootPicks
  <2>1. UNCHANGED <<router, rec, mishaps>> /\ boot.pc = "start"
    BY <1>14 DEF BootPicks
  <2>2. Effect
    BY <1>1, <2>1, QuietEffect DEF Quiet
  <2>3. /\ AppliedBaseline' = AppliedBaseline /\ (Clean' <=> Clean)
        /\ Stands(AppliedBaseline, router)' <=> Stands(AppliedBaseline, router)
    BY <2>1 DEF AppliedBaseline, Clean, RollbackOutstanding, Stands
  <2>4. \/ rec.off.on /\ boot' = [boot EXCEPT !.pc = "off"]
        \/ boot.rev # Nil /\ boot' = [boot EXCEPT !.pc = "rollback"]
        \/ boot.rev = Nil /\ boot' = [boot EXCEPT !.pc = "converge", !.rev = rec.committed]
        \/ boot' = [boot EXCEPT !.pc = "idle", !.ok = TRUE]
    BY <1>14 DEF BootPicks
  <2>5. \/ boot'.pc = "off" /\ boot'.ok = boot.ok
        \/ /\ boot.rev # Nil /\ boot'.pc = "rollback" /\ boot'.rev = boot.rev
           /\ boot'.moved = boot.moved /\ boot'.ok = boot.ok
        \/ /\ boot.rev = Nil /\ boot'.pc = "converge" /\ boot'.rev = rec.committed
           /\ boot'.ok = boot.ok
        \/ boot'.pc = "idle"
    BY <1>1, <2>4 DEF BootState
  <2>6. BootInv'
    BY <2>1, <2>3, <2>5 DEF BootInv, TaskInv, ToRollBack
  <2> QED BY <1>2, <2>1, <2>2, <2>6 DEF Effect
<1>15. CASE ConvergeOnBootOnce \/ RollbackLiveOnBootOnce \/ ReassertRoutingOff
  <2>1. mishaps' = mishaps
    BY <1>15 DEF ConvergeOnBootOnce, RollbackLiveOnBootOnce, ReassertRoutingOff
  <2>2. /\ Effect /\ BootInv'
        /\ boot.pc # "off" /\ boot'.pc = "idle" /\ boot'.ok /\ Clean' =>
             Stands(AppliedBaseline, router)'
    BY <1>15, AttemptEffect
  <2> QED BY <1>2, <2>1, <2>2 DEF Effect
<1> QED BY <1>3, <1>4, <1>5, <1>6, <1>7, <1>8, <1>9, <1>10, <1>11, <1>12, <1>13, <1>14, <1>15 DEF Next

\* The record moves only in the ways that keep it sound, and boot's task stays
\* about the record: for every number of Applies, crashes and shapes.
THEOREM RecordSound == Spec => [](Sound /\ BootInv)
<1>1. Init => Sound /\ BootInv
  <2> SUFFICES ASSUME Init PROVE Sound /\ BootInv
    OBVIOUS
  <2>1. /\ rec.live = Nil /\ rec.off = NotOff /\ ~rec.off.on /\ rec.off.leftover = Nil
        /\ mishaps = {} /\ boot.pc = "idle"
    BY DEF Init, EmptyRecord, NotOff, Down
  <2> QED BY <2>1 DEF Sound, SwitchInv, ApartInv, SameBootInv, BootInv, TaskInv
<1>2. RecordInv /\ Sound /\ BootInv /\ [Next]_vars => (Sound /\ BootInv)'
  BY StepEffect, MovesKeepSound
<1> QED BY <1>1, <1>2, RecordCorrect, PTL DEF Spec

\* As long as no crash fell inside an Apply or a rollback and the router did
\* not reboot, the plane the reconcile loop would put back is the one the
\* router carries.
THEOREM SupervisionIsPaired == Spec => []SupervisionPairs
<1>1. Init => SupervisionPairs
  <2> SUFFICES ASSUME Init PROVE SupervisionPairs
    OBVIOUS
  <2>1. rec.live = Nil /\ rec.committed = Nil
    BY DEF Init, EmptyRecord
  <2> QED BY <2>1 DEF SupervisionPairs, SupervisedBaseline, RollbackOutstanding, AppliedBaseline, Nil
<1>2. RecordInv /\ (Sound /\ BootInv) /\ SupervisionPairs /\ [Next]_vars => SupervisionPairs'
  <2> SUFFICES ASSUME RecordInv, Sound, BootInv, SupervisionPairs, [Next]_vars,
                      ~rec'.off.on, mishaps' = {}, SupervisedBaseline'.kernel
               PROVE  router'.plane = SupervisedBaseline'.id
    BY DEF SupervisionPairs
  <2>1. Paired /\ History /\ Moves
    BY StepEffect
  <2>2. mishaps = {}
    BY <2>1 DEF History
  <2>3. CASE SupervisedBaseline'.kernel => router'.plane = SupervisedBaseline'.id
    BY <2>3
  <2>4. CASE /\ ~rec.off.on /\ SupervisedBaseline' = SupervisedBaseline
             /\ SupervisedBaseline.kernel /\ router.plane = SupervisedBaseline.id =>
                  router'.plane = SupervisedBaseline.id
    BY <2>2, <2>4 DEF SupervisionPairs
  <2> QED BY <2>1, <2>3, <2>4 DEF Paired
<1> QED BY <1>1, <1>2, RecordCorrect, RecordSound, PTL DEF Spec

\* Boot ends with the recorded configuration running, for every number of
\* Applies, crashes and restarts, in every order with the operator, the
\* window, the switch and the core.
THEOREM BootEndsWithTheRecordRunning == Spec => BootEndsRunning
<1>1. RecordInv /\ (Sound /\ BootInv) /\ [Next]_vars =>
        [(boot.pc \in {"converge", "rollback"} /\ boot'.pc = "idle" /\ boot'.ok /\ Clean')
           => Runs(AppliedBaseline)']_vars
  <2> SUFFICES ASSUME RecordInv, Sound, BootInv, [Next]_vars,
                      boot.pc \in {"converge", "rollback"}, boot'.pc = "idle", boot'.ok, Clean'
               PROVE  Runs(AppliedBaseline)'
    OBVIOUS
  <2>1. Stands(AppliedBaseline, router)'
    BY StepEffect
  <2> QED BY <2>1 DEF Stands, Runs
<1> QED BY <1>1, RecordCorrect, RecordSound, PTL DEF Spec, BootEndsRunning

-----------------------------------------------------------------------------
(* The interfaces                                                          *)

\* Every configuration on record has a native plan.
LEMMA NativesKept ==
  ASSUME Tracked, RecordInv, Natives, Moves
  PROVE  Natives'
<1>1. NotOff.leftover = Nil
  BY DEF NotOff
<1>2. CASE Kept
  BY <1>2 DEF Kept, Natives
<1>3. CASE Settled
  BY <1>3 DEF Settled, Natives
<1>4. CASE TurnedOff
  BY <1>4 DEF TurnedOff, Natives
<1>5. CASE TurnedOn
  BY <1>1, <1>5 DEF TurnedOn, Natives
<1>6. ASSUME NEW sh \in Shapes, Became(Next1(sh)) PROVE Natives'
  <2>1. Next1(sh).native
    BY <1>6, NewRevision DEF Became, Tracked
  <2> QED BY <1>6, <2>1 DEF Became, Natives
<1> QED BY <1>2, <1>3, <1>4, <1>5, <1>6 DEF Moves

\* A clean record accounts for every interface on the router, through failed
\* rollbacks, retries, restarts and the routing switch, where Tracked holds of
\* the constants.  A crash inside an Apply or a rollback is excepted.
THEOREM InterfacesAreAccounted ==
  ASSUME Tracked
  PROVE  Spec => []NoInterfaceLeft
<1>1. Init => Natives /\ LeftInv
  <2> SUFFICES ASSUME Init PROVE Natives /\ LeftInv
    OBVIOUS
  <2>1. /\ rec.committed = Nil /\ rec.live = Nil /\ rec.off.leftover = Nil
        /\ router.native = {}
    BY DEF Init, EmptyRecord, NotOff, Bare
  <2> QED BY <2>1 DEF Natives, LeftInv
<1>2. RecordInv /\ (Sound /\ BootInv) /\ (Natives /\ LeftInv) /\ [Next]_vars =>
        (Natives /\ LeftInv)'
  <2> SUFFICES ASSUME RecordInv, Sound, BootInv, Natives, LeftInv, [Next]_vars
               PROVE  Natives' /\ LeftInv'
    OBVIOUS
  <2>1. /\ Moves /\ mishaps \subseteq mishaps'
        /\ Left /\ mishaps' \subseteq {"reboot"} => Left'
    BY StepEffect DEF History
  <2>2. ASSUME mishaps' \subseteq {"reboot"} PROVE Left'
    BY <2>1, <2>2 DEF LeftInv, Left
  <2> QED BY <2>1, <2>2, NativesKept DEF LeftInv, Left
<1>3. Natives /\ LeftInv => NoInterfaceLeft
  <2> SUFFICES ASSUME LeftInv, Clean, mishaps \subseteq {"reboot"}
               PROVE  router.native \subseteq {AppliedBaseline.id}
    BY DEF NoInterfaceLeft
  <2>1. Accounted = {AppliedBaseline}
    BY DEF Clean, Accounted
  <2> QED BY <2>1 DEF LeftInv
<1> QED BY <1>1, <1>2, <1>3, RecordCorrect, RecordSound, PTL DEF Spec

=============================================================================
