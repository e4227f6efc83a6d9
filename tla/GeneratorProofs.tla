--------------------------- MODULE GeneratorProofs ---------------------------
(* The generator of test programs: whatever list it draws, whatever streams *)
(* it inserts and wherever its branches go, the program is whole.           *)
EXTENDS EnvironmentProofs, FiniteSetTheorems

-----------------------------------------------------------------------------
(* An instruction of the list; what those of a stream have in common: an    *)
(* instruction with a number for label is of a stream of jumps, a name is   *)
(* the stream's own.                                                        *)
Entry ==
  [kind : {"op", "branch", "jump", "init_counter", "update_counter", "bne_limit", "bne_zero"},
   stream : Nat, pos : Nat, atomic : BOOLEAN, has_label : BOOLEAN, label : Int,
   numeric : BOOLEAN, target : Int, dir : {"f", "b"}]

Member(e, kind, s, q) ==
  /\ e \in Entry /\ e.stream = s /\ e.pos = q /\ e.atomic /\ ~e.numeric /\ e.kind # "branch"
  /\ e.has_label => e.label = -1 - s \/ (kind = "jal" /\ e.label >= 0)
Members(new, kind, s) ==
  /\ new \in Seq(Entry) /\ Len(new) \in 1 .. JumpCnt + 7
  /\ \A q \in 1 .. Len(new) : Member(new[q], kind, s, q)

(* What the members but the jumps and a loop's branch are.                  *)
LEMMA InstrIsEntry ==
  ASSUME NEW s \in Nat, NEW q \in Nat,
         NEW kind \in {"op", "branch", "jump", "init_counter", "update_counter",
                       "bne_limit", "bne_zero"}
  PROVE  /\ Generate!Instr(kind, s, q) \in Entry
         /\ Generate!AtomicInstr(kind, s, q) \in Entry
<1>1. Generate!NoLabel \in Int
  BY DEF Generate!NoLabel
<1>2. Generate!Instr(kind, s, q) \in Entry
  BY <1>1 DEF Generate!Instr, Entry
<1>3. Generate!AtomicInstr(kind, s, q) \in Entry
  BY <1>2 DEF Generate!AtomicInstr, Entry
<1> QED BY <1>2, <1>3

LEMMA OrderOnto ==
  ASSUME NEW order \in Generate!Orders
  PROVE  /\ \A t \in 0 .. JumpCnt - 1 : \E m \in 1 .. JumpCnt : order[m] = t
         /\ \A l, m \in 1 .. JumpCnt : order[l] = order[m] => l = m
         /\ \A m \in 1 .. JumpCnt : order[m] \in 0 .. JumpCnt - 1
<1>0. JumpCnt \in Nat \ {0}
  BY GeneratorAssumption
<1>1. /\ order \in [1 .. JumpCnt -> 0 .. JumpCnt - 1]
      /\ \A l, m \in 1 .. JumpCnt : order[l] = order[m] => l = m
  BY DEF Generate!Orders, Generate!IsInjective
<1>2. order \in Injection(1 .. JumpCnt, 0 .. JumpCnt - 1)
  BY <1>1 DEF Injection, IsInjective
<1>3. /\ IsFiniteSet(0 .. JumpCnt - 1)
      /\ Cardinality(1 .. JumpCnt) = JumpCnt /\ Cardinality(0 .. JumpCnt - 1) = JumpCnt
  BY <1>0, FS_Interval
<1>4. order \in Surjection(1 .. JumpCnt, 0 .. JumpCnt - 1)
  BY <1>2, <1>3, FS_Injection
<1> QED BY <1>1, <1>4 DEF Surjection

(* A stream of jumps: the q-th of its instructions, of which the first has  *)
(* the stream's name and the others a number; where they go.                *)
JumpTarget(order, q) ==
  IF q = 1 THEN order[1]
  ELSE Generate!NextJump(order, CHOOSE m \in 1 .. JumpCnt : order[m] = q - 2)
JumpLabel(s, q) == IF q = 1 THEN -1 - s ELSE q - 2
JumpDir(order, q) == IF JumpTarget(order, q) + 2 > q THEN "f" ELSE "b"

LEMMA NextTarget ==
  ASSUME NEW order \in Generate!Orders, NEW m \in 1 .. JumpCnt
  PROVE  /\ JumpTarget(order, order[m] + 2) = IF m = JumpCnt THEN JumpCnt ELSE order[m + 1]
         /\ JumpTarget(order, order[m] + 2) \in 0 .. JumpCnt
         /\ JumpTarget(order, order[m] + 2) # order[m]
<1>0. JumpCnt \in Nat \ {0} /\ m \in Int
  BY GeneratorAssumption
<1>1. /\ \A l, k \in 1 .. JumpCnt : order[l] = order[k] => l = k
      /\ \A k \in 1 .. JumpCnt : order[k] \in 0 .. JumpCnt - 1
  BY OrderOnto
<1>2. order[m] + 2 # 1 /\ (order[m] + 2) - 2 = order[m] /\ order[m] \in 0 .. JumpCnt - 1
  BY <1>0, <1>1
<1>3. (CHOOSE k \in 1 .. JumpCnt : order[k] = order[m]) = m
  BY <1>1
<1>4. JumpTarget(order, order[m] + 2) = IF m = JumpCnt THEN JumpCnt ELSE order[m + 1]
  <2>1. JumpTarget(order, order[m] + 2) = Generate!NextJump(order, m)
    BY <1>2, <1>3 DEF JumpTarget
  <2> QED BY <2>1 DEF Generate!NextJump
<1>5. CASE m = JumpCnt
  BY <1>0, <1>2, <1>4, <1>5
<1>6. CASE m # JumpCnt
  <2>1. m + 1 \in 1 .. JumpCnt /\ m + 1 # m
    BY <1>0, <1>6
  <2>2. order[m + 1] \in 0 .. JumpCnt - 1 /\ order[m + 1] # order[m]
    BY <1>1, <2>1
  <2> QED BY <1>0, <1>4, <1>6, <2>2
<1> QED BY <1>5, <1>6

LEMMA EachTarget ==
  ASSUME NEW order \in Generate!Orders, NEW q \in 1 .. JumpCnt + 1
  PROVE  JumpTarget(order, q) \in 0 .. JumpCnt /\ JumpTarget(order, q) + 2 # q
<1>0. JumpCnt \in Nat \ {0}
  BY GeneratorAssumption
<1>1. CASE q = 1
  BY <1>0, <1>1, OrderOnto DEF JumpTarget
<1>2. CASE q # 1
  <2>1. q - 2 \in 0 .. JumpCnt - 1
    BY <1>0, <1>2
  <2>2. PICK m \in 1 .. JumpCnt : order[m] = q - 2
    BY <2>1, OrderOnto
  <2>3. order[m] + 2 = q
    BY <2>2
  <2> QED BY <2>1, <2>2, <2>3, NextTarget
<1> QED BY <1>1, <1>2

JalMember(e, s, order, q) ==
  /\ e.stream = s /\ e.pos = q /\ e.atomic /\ ~e.numeric
  /\ e.has_label /\ e.label = JumpLabel(s, q)
  /\ e.kind = IF q = JumpCnt + 2 THEN "op" ELSE "jump"
  /\ q # JumpCnt + 2 => e.target = JumpTarget(order, q) /\ e.dir = JumpDir(order, q)
  /\ q = JumpCnt + 2 => e.target = -1

LEMMA JalShape ==
  ASSUME NEW s \in Nat \ {0}, NEW order \in Generate!Orders,
         NEW new, new = Generate!Jal(s, order)
  PROVE  /\ Len(new) = JumpCnt + 2 /\ new \in Seq(Entry)
         /\ \A q \in 1 .. JumpCnt + 2 : JalMember(new[q], s, order, q)
<1>0. JumpCnt \in Nat \ {0}
  BY GeneratorAssumption
<1> DEFINE J(q) == Generate!Jump(s, q, JumpLabel(s, q), JumpTarget(order, q))
           last == [Generate!AtomicInstr("op", s, JumpCnt + 2) EXCEPT !.label = JumpCnt]
<1>1. new = <<J(1)>> \o [k \in 1 .. JumpCnt |-> J(k + 1)] \o <<last>>
  <2>1. J(1) = Generate!Jump(s, 1, Generate!Named(s), order[1])
    BY DEF JumpLabel, JumpTarget, Generate!Named
  <2>2. \A k \in 1 .. JumpCnt :
          J(k + 1) = Generate!Jump(s, k + 1, k - 1,
            Generate!NextJump(order, CHOOSE m \in 1 .. JumpCnt : order[m] = k - 1))
    <3> TAKE k \in 1 .. JumpCnt
    <3>1. k + 1 # 1 /\ (k + 1) - 2 = k - 1
      BY <1>0
    <3> QED BY <3>1 DEF JumpLabel, JumpTarget
  <2> HIDE DEF J, last
  <2>3. [k \in 1 .. JumpCnt |-> J(k + 1)] =
          [k \in 1 .. JumpCnt |-> Generate!Jump(s, k + 1, k - 1,
            Generate!NextJump(order, CHOOSE m \in 1 .. JumpCnt : order[m] = k - 1))]
    BY <2>2
  <2> QED BY <2>1, <2>3 DEF Generate!Jal, last
<1>2. ASSUME NEW q \in 1 .. JumpCnt + 1
      PROVE  /\ J(q) \in Entry /\ J(q).stream = s /\ J(q).pos = q /\ J(q).atomic
             /\ ~J(q).numeric /\ J(q).has_label /\ J(q).label = JumpLabel(s, q)
             /\ J(q).kind = "jump" /\ J(q).target = JumpTarget(order, q)
             /\ J(q).dir = JumpDir(order, q)
  <2>1. JumpTarget(order, q) \in 0 .. JumpCnt /\ q \in Nat
    BY <1>0, EachTarget
  <2>2. JumpTarget(order, q) \in Int /\ JumpLabel(s, q) \in Int
        /\ (JumpTarget(order, q) > JumpLabel(s, q) <=> JumpTarget(order, q) + 2 > q)
    BY <1>0, <2>1 DEF JumpLabel
  <2> QED BY <2>1, <2>2 DEF Generate!Jump, Generate!AtomicInstr, Generate!Instr,
                            Generate!NoLabel, Entry, JumpDir
<1>3. /\ last \in Entry /\ last.stream = s /\ last.pos = JumpCnt + 2 /\ last.atomic
      /\ ~last.numeric /\ last.has_label /\ last.label = JumpLabel(s, JumpCnt + 2)
      /\ last.kind = "op" /\ last.target = -1
  <2>1. JumpLabel(s, JumpCnt + 2) = JumpCnt /\ JumpCnt + 2 \in Nat /\ JumpCnt \in Int
    BY <1>0 DEF JumpLabel
  <2>2. Generate!AtomicInstr("op", s, JumpCnt + 2) \in Entry
    BY <2>1, InstrIsEntry
  <2>3. last \in Entry
    BY <2>1, <2>2 DEF Entry
  <2> QED BY <2>1, <2>3 DEF Generate!AtomicInstr, Generate!Instr, Generate!NoLabel
<1> HIDE DEF J, last
<1> DEFINE mid == [k \in 1 .. JumpCnt |-> J(k + 1)]
<1>4. mid \in Seq(Entry) /\ Len(mid) = JumpCnt
      /\ \A k \in 1 .. JumpCnt : mid[k] = J(k + 1)
  <2>1. \A k \in 1 .. JumpCnt : J(k + 1) \in Entry
    BY <1>0, <1>2
  <2> QED BY <1>0, <2>1
<1>5. J(1) \in Entry
  BY <1>0, <1>2
<1> HIDE DEF mid
<1>6. /\ new \in Seq(Entry) /\ Len(new) = JumpCnt + 2
      /\ \A q \in 1 .. JumpCnt + 2 :
           new[q] = IF q = JumpCnt + 2 THEN last ELSE IF q = 1 THEN J(1) ELSE mid[q - 1]
  BY <1>0, <1>1, <1>3, <1>4, <1>5 DEF mid
<1>7. \A q \in 1 .. JumpCnt + 2 : new[q] = IF q = JumpCnt + 2 THEN last ELSE J(q)
  <2> TAKE q \in 1 .. JumpCnt + 2
  <2>1. CASE q = JumpCnt + 2 \/ q = 1
    BY <1>0, <1>6, <2>1
  <2>2. CASE q # JumpCnt + 2 /\ q # 1
    <3>1. q - 1 \in 1 .. JumpCnt /\ (q - 1) + 1 = q
      BY <1>0, <2>2
    <3>2. mid[q - 1] = J(q)
      BY <1>4, <3>1
    <3> QED BY <1>6, <2>2, <3>2
  <2> QED BY <2>1, <2>2
<1> QED
  <2>1. ASSUME NEW q \in 1 .. JumpCnt + 2, q # JumpCnt + 2
        PROVE  q \in 1 .. JumpCnt + 1
    BY <1>0, <2>1
  <2>2. ASSUME NEW q \in 1 .. JumpCnt + 2 PROVE JalMember(new[q], s, order, q)
    BY <1>2, <1>3, <1>7, <2>1 DEF JalMember
  <2> QED BY <1>6, <2>2

LEMMA JoinThreeFour ==
  ASSUME NEW e1 \in Entry, NEW e2 \in Entry, NEW e3 \in Entry, NEW e4 \in Entry,
         NEW e5 \in Entry, NEW e6 \in Entry, NEW e7 \in Entry
  PROVE  LET new == <<e1, e2, e3>> \o <<e4, e5, e6, e7>>
         IN  new \in Seq(Entry) /\ Len(new) = 7 /\ new[1] = e1 /\ new[2] = e2 /\ new[3] = e3
             /\ new[4] = e4 /\ new[5] = e5 /\ new[6] = e6 /\ new[7] = e7
OBVIOUS

(* A stream with a loop: its branch, the sixth, goes back to the third.     *)
LEMMA LoopShape ==
  ASSUME NEW s \in Nat \ {0}, NEW new \in Generate!StreamsOf("loop", s)
  PROVE  /\ Members(new, "loop", s) /\ Len(new) = 7
         /\ \A q \in 1 .. 7 : q # 6 => new[q].target = -1
         /\ new[6].target = -1 - s /\ new[6].dir = "b"
         /\ new[3].has_label /\ new[3].label = -1 - s
<1> PICK rs2 \in {"bne_limit", "bne_zero"}, late \in BOOLEAN :
      new = Generate!Loop(s, rs2, late)
  BY DEF Generate!StreamsOf
<1> DEFINE At(e, q) == /\ Member(e, "loop", s, q)
                       /\ e.kind # "jump" /\ (q # 6 => e.target = -1)
                       /\ (q = 6 => e.target = -1 - s /\ e.dir = "b")
                       /\ (q = 3 => e.has_label /\ e.label = -1 - s)
           target == [Generate!AtomicInstr("op", s, 3) EXCEPT !.label = Generate!Named(s)]
           branch == [Generate!Without(Generate!AtomicInstr(rs2, s, 6)) EXCEPT
                        !.target = Generate!Named(s), !.dir = "b"]
           other(kind, q) == Generate!Without(Generate!AtomicInstr(kind, s, q))
<1>0. -1 - s \in Int /\ Generate!Named(s) = -1 - s /\ Generate!NoLabel = -1 /\ s \in Nat
  BY DEF Generate!Named, Generate!NoLabel
<1>1. At(target, 3)
  <2>1. Generate!AtomicInstr("op", s, 3) \in Entry
    BY <1>0, InstrIsEntry
  <2>2. target \in Entry
    BY <1>0, <2>1 DEF Entry
  <2> QED BY <1>0, <2>2 DEF Member, Generate!AtomicInstr, Generate!Instr
<1>2. At(branch, 6)
  <2>1. Generate!AtomicInstr(rs2, s, 6) \in Entry
    BY <1>0, InstrIsEntry
  <2>2. branch \in Entry
    BY <1>0, <2>1 DEF Entry, Generate!Without
  <2> QED BY <1>0, <2>2 DEF Member, Generate!AtomicInstr, Generate!Instr, Generate!Without
<1>3. ASSUME NEW kind \in {"op", "init_counter", "update_counter"},
             NEW q \in {1, 2, 4, 5, 7}
      PROVE  At(other(kind, q), q)
  <2>1. Generate!AtomicInstr(kind, s, q) \in Entry
    BY <1>0, InstrIsEntry
  <2>2. other(kind, q) \in Entry
    BY <2>1 DEF Entry, Generate!Without
  <2> QED BY <1>0, <2>2 DEF Member, Generate!AtomicInstr, Generate!Instr, Generate!Without
<1> DEFINE e4 == IF late THEN other("op", 4) ELSE other("update_counter", 4)
           e5 == IF late THEN other("update_counter", 5) ELSE other("init_counter", 5)
           e7 == IF late THEN other("init_counter", 7) ELSE other("op", 7)
<1>4. At(e4, 4) /\ At(e5, 5) /\ At(e7, 7)
  BY <1>3
<1>5. At(other("init_counter", 1), 1) /\ At(other("op", 2), 2)
  BY <1>3
<1>6. new = <<other("init_counter", 1), other("op", 2), target>> \o <<e4, e5, branch, e7>>
  BY DEF Generate!Loop
<1> HIDE DEF other, target, branch, e4, e5, e7
<1>7. /\ other("init_counter", 1) \in Entry /\ other("op", 2) \in Entry /\ target \in Entry
      /\ e4 \in Entry /\ e5 \in Entry /\ branch \in Entry /\ e7 \in Entry
  BY <1>1, <1>2, <1>4, <1>5 DEF Member
<1>8. /\ new \in Seq(Entry) /\ Len(new) = 7
      /\ new[1] = other("init_counter", 1) /\ new[2] = other("op", 2) /\ new[3] = target
      /\ new[4] = e4 /\ new[5] = e5 /\ new[6] = branch /\ new[7] = e7
  BY <1>6, <1>7, JoinThreeFour
<1>9. \A q \in 1 .. 7 : At(new[q], q)
  <2> HIDE DEF At
  <2> QED BY <1>1, <1>2, <1>4, <1>5, <1>8
<1>10. Members(new, "loop", s)
  BY <1>8, <1>9, GeneratorAssumption DEF Members
<1> QED BY <1>8, <1>9, <1>10

LEMMA PlainShape ==
  ASSUME NEW s \in Nat \ {0}, NEW new, new = Generate!Plain(s)
  PROVE  Members(new, "plain", s) /\ Len(new) = 2 /\ \A q \in 1 .. 2 : new[q].target = -1
<1> DEFINE op(q) == Generate!Without(Generate!AtomicInstr("op", s, q))
<1>1. ASSUME NEW q \in {1, 2} PROVE Member(op(q), "plain", s, q) /\ op(q).target = -1
  <2>1. Generate!AtomicInstr("op", s, q) \in Entry
    BY InstrIsEntry
  <2>2. op(q) \in Entry
    BY <2>1 DEF Entry, Generate!Without
  <2> QED BY <2>2 DEF Member, Generate!AtomicInstr, Generate!Instr, Generate!Without,
                      Generate!NoLabel
<1>2. new = <<op(1), op(2)>>
  BY DEF Generate!Plain
<1> HIDE DEF op
<1>3. op(1) \in Entry /\ op(2) \in Entry
  BY <1>1 DEF Member
<1>4. new \in Seq(Entry) /\ Len(new) = 2 /\ new[1] = op(1) /\ new[2] = op(2)
  BY <1>2, <1>3
<1>5. Len(new) \in 1 .. JumpCnt + 7
  BY <1>4, GeneratorAssumption
<1> QED BY <1>1, <1>4, <1>5 DEF Members

LEMMA StreamMembers ==
  ASSUME NEW kind \in Kinds, NEW s \in Nat \ {0}, NEW new \in Generate!StreamsOf(kind, s)
  PROVE  Members(new, kind, s)
<1>1. CASE kind = "plain"
  BY <1>1, PlainShape DEF Generate!StreamsOf
<1>2. CASE kind = "loop"
  BY <1>2, LoopShape
<1>3. CASE kind = "jal"
  <2>1. PICK order \in Generate!Orders : new = Generate!Jal(s, order)
    BY <1>3 DEF Generate!StreamsOf
  <2>2. JumpCnt \in Nat \ {0}
    BY GeneratorAssumption
  <2>3. Len(new) = JumpCnt + 2 /\ new \in Seq(Entry)
    BY <2>1, JalShape
  <2>4. ASSUME NEW q \in 1 .. Len(new) PROVE Member(new[q], kind, s, q)
    <3>1. /\ new[q].stream = s /\ new[q].pos = q /\ new[q].atomic /\ ~new[q].numeric
          /\ new[q].label = JumpLabel(s, q) /\ new[q].kind # "branch"
      BY <2>1, <2>3, <2>4, JalShape DEF JalMember
    <3>2. new[q].label = -1 - s \/ new[q].label >= 0
      BY <2>2, <2>3, <3>1 DEF JumpLabel
    <3> QED BY <1>3, <2>3, <3>1, <3>2 DEF Member
  <2> QED BY <2>2, <2>3, <2>4 DEF Members
<1> QED BY <1>1, <1>2, <1>3, GeneratorAssumption

-----------------------------------------------------------------------------
(* The list. A stream is in it in one piece, from position base + 1 on; the    *)
(* first instruction of the finished program has the program's label.       *)
Titled(e) == [e EXCEPT !.has_label = TRUE, !.label = -1]
Laid(l, base, new, title) ==
  /\ base \in Nat /\ base + Len(new) <= Len(l)
  /\ \A q \in 1 .. Len(new) :
       l[base + q] = IF base + q = title THEN Titled(new[q]) ELSE new[q]
Pieces(l, ss, title) ==
  \A k \in 1 .. Len(l) : l[k].stream # 0 =>
    /\ l[k].stream \in 1 .. Len(ss)
    /\ \E new \in Generate!StreamsOf(ss[l[k].stream], l[k].stream) :
         l[k].pos \in 1 .. Len(new) /\ Laid(l, k - l[k].pos, new, title)
OnePiece(l) ==
  \A k, m \in 1 .. Len(l) :
    l[k].stream = l[m].stream /\ l[k].stream # 0 => k - l[k].pos = m - l[m].pos

(* The others are random instructions; the last of them is no branch.       *)
Randoms(l) ==
  \A k \in 1 .. Len(l) : l[k].stream = 0 =>
    /\ ~l[k].atomic /\ l[k].dir = "f" /\ l[k].kind \in {"op", "branch"}
    /\ l[k].kind = "op" => l[k].target = -1
    /\ l[k].kind = "branch" => \E m \in k + 1 .. Len(l) : l[m].stream = 0
Whole(l, ss, title) ==
  /\ l \in Seq(Entry) /\ Len(l) > 0 /\ ss \in Seq(Kinds)
  /\ Pieces(l, ss, title) /\ OnePiece(l) /\ Randoms(l)

(* Before labels are assigned.                                              *)
Fresh(l) ==
  \A k \in 1 .. Len(l) : l[k].stream = 0 => l[k].has_label /\ l[k].target = -1

LEMMA PoppedList ==
  ASSUME NEW list \in Seq(Entry), \A k \in 1 .. Len(list) : list[k].kind \in {"op", "branch"},
         NEW l, l = Generate!Popped(list), l # <<>>
  PROVE  /\ l \in Seq(Entry) /\ Len(l) \in 1 .. Len(list)
         /\ \A k \in 1 .. Len(l) : l[k] = list[k]
         /\ l[Len(l)].kind = "op"
<1> DEFINE I == {k \in 1 .. Len(list) : list[k].kind # "branch"}
           last == IF I # {} THEN Generate!Max(I) ELSE 0
<1>1. l = SubSeq(list, 1, last)
  BY DEF Generate!Popped, Generate!SelectLastInSeq
<1>2. I # {}
  BY <1>1
<1>3. Generate!Max(I) \in I
  <2>1. PICK m \in I : \A k \in I : k <= m
    <3> DEFINE T == {Len(list) - k : k \in I}
    <3>1. T \subseteq Nat /\ T # {}
      BY <1>2
    <3>2. PICK t \in T : \A k \in T : t <= k
      <4> HIDE DEF T
      <4> QED BY <3>1, LeastElement
    <3>3. PICK m \in I : t = Len(list) - m
      BY <3>2
    <3>4. ASSUME NEW k \in I PROVE k <= m
      <4>1. Len(list) - m <= Len(list) - k
        BY <3>2, <3>3
      <4>2. Len(list) \in Int /\ k \in Int /\ m \in Int
        OBVIOUS
      <4> QED BY <4>1, <4>2
    <3> QED BY <3>4
  <2> QED BY <2>1 DEF Generate!Max
<1>4. last \in 1 .. Len(list) /\ list[last].kind = "op"
  BY <1>2, <1>3
<1> HIDE DEF last
<1> QED BY <1>1, <1>4

LEMMA StartWhole ==
  ASSUME Generate!Init
  PROVE  Whole(instr_list, streams, 0) /\ Fresh(instr_list)
<1> DEFINE List(f) == [k \in 1 .. InstrCnt |-> Generate!Instr(f[k], 0, k)]
<1>1. PICK f \in [1 .. InstrCnt -> {"op", "branch"}] :
        instr_list = Generate!Popped(List(f)) /\ instr_list # <<>>
  BY DEF Generate!Init, Generate!RandomLists
<1>2. ASSUME NEW k \in 1 .. InstrCnt
      PROVE  /\ List(f)[k] \in Entry
             /\ List(f)[k].kind \in {"op", "branch"} /\ List(f)[k].stream = 0
             /\ ~List(f)[k].atomic /\ List(f)[k].dir = "f" /\ List(f)[k].target = -1
             /\ List(f)[k].has_label
  <2>1. List(f)[k] = Generate!Instr(f[k], 0, k) /\ f[k] \in {"op", "branch"} /\ k \in Nat
    OBVIOUS
  <2>2. List(f)[k] \in Entry
    BY <2>1, InstrIsEntry
  <2> QED BY <2>1, <2>2 DEF Generate!Instr, Generate!NoLabel
<1>3. InstrCnt \in Nat
  BY GeneratorAssumption
<1>4. List(f) \in Seq(Entry) /\ Len(List(f)) = InstrCnt
  BY <1>2, <1>3
<1> HIDE DEF List
<1>5. /\ instr_list \in Seq(Entry) /\ Len(instr_list) \in 1 .. InstrCnt
      /\ \A k \in 1 .. Len(instr_list) : instr_list[k] = List(f)[k]
      /\ instr_list[Len(instr_list)].kind = "op"
  BY <1>1, <1>2, <1>4, PoppedList
<1>6. \A k \in 1 .. Len(instr_list) :
        /\ instr_list[k].kind \in {"op", "branch"} /\ instr_list[k].stream = 0
        /\ ~instr_list[k].atomic /\ instr_list[k].dir = "f" /\ instr_list[k].target = -1
        /\ instr_list[k].has_label
  BY <1>2, <1>3, <1>5
<1>7. Randoms(instr_list)
  <2> SUFFICES ASSUME NEW k \in 1 .. Len(instr_list), instr_list[k].kind = "branch"
               PROVE  \E m \in k + 1 .. Len(instr_list) : instr_list[m].stream = 0
    BY <1>6 DEF Randoms
  <2>1. k # Len(instr_list)
    BY <1>5
  <2>2. Len(instr_list) \in k + 1 .. Len(instr_list)
    BY <1>3, <1>5, <2>1
  <2> QED BY <1>5, <1>6, <2>2
<1>8. streams \in Seq(Kinds)
  BY DEF Generate!Init
<1>9. Pieces(instr_list, streams, 0) /\ OnePiece(instr_list) /\ Fresh(instr_list)
  BY <1>6 DEF Pieces, OnePiece, Fresh
<1>10. Len(instr_list) > 0
  BY <1>3, <1>5
<1> QED BY <1>5, <1>7, <1>8, <1>9, <1>10 DEF Whole

(* What is at a place of a piece, and the piece an instruction is of.       *)
LEMMA PieceMember ==
  ASSUME NEW l \in Seq(Entry), NEW base, NEW new, NEW title \in {0, 1}, NEW kind, NEW s \in Nat,
         Members(new, kind, s), Laid(l, base, new, title), NEW q \in 1 .. Len(new)
  PROVE  /\ base + q \in 1 .. Len(l) /\ base \in Nat
         /\ l[base + q].stream = s /\ l[base + q].pos = q /\ l[base + q].atomic
         /\ ~l[base + q].numeric /\ l[base + q].kind = new[q].kind /\ l[base + q].kind # "branch"
         /\ l[base + q].target = new[q].target /\ l[base + q].dir = new[q].dir
         /\ IF base + q = title
              THEN l[base + q].has_label /\ l[base + q].label = -1
              ELSE l[base + q].has_label = new[q].has_label /\ l[base + q].label = new[q].label
<1>1. /\ base \in Nat /\ base + Len(new) <= Len(l) /\ q \in Nat /\ q >= 1 /\ q <= Len(new)
      /\ Len(new) \in Nat /\ Len(l) \in Nat
  BY DEF Laid, Members
<1>2. base + q \in 1 .. Len(l)
  BY <1>1
<1>3. /\ Member(new[q], kind, s, q)
      /\ l[base + q] = IF base + q = title THEN Titled(new[q]) ELSE new[q]
  BY DEF Laid, Members
<1>4. CASE base + q = title
  <2>1. l[base + q] = Titled(new[q]) /\ new[q] \in Entry
    BY <1>3, <1>4 DEF Member
  <2>2. /\ Titled(new[q]).stream = new[q].stream /\ Titled(new[q]).pos = new[q].pos
        /\ Titled(new[q]).atomic = new[q].atomic /\ Titled(new[q]).numeric = new[q].numeric
        /\ Titled(new[q]).kind = new[q].kind /\ Titled(new[q]).target = new[q].target
        /\ Titled(new[q]).dir = new[q].dir
        /\ Titled(new[q]).has_label /\ Titled(new[q]).label = -1
    BY <2>1 DEF Titled, Entry
  <2> QED BY <1>1, <1>2, <1>3, <1>4, <2>1, <2>2 DEF Member
<1>5. CASE ~(base + q = title)
  <2>1. l[base + q] = new[q]
    BY <1>3, <1>5
  <2> QED BY <1>1, <1>2, <1>3, <1>5, <2>1 DEF Member
<1> QED BY <1>4, <1>5

LEMMA PieceLabel ==
  ASSUME NEW l \in Seq(Entry), NEW base, NEW new, NEW title \in {0, 1}, NEW kind, NEW s \in Nat,
         Members(new, kind, s), Laid(l, base, new, title), NEW q \in 1 .. Len(new),
         base + q # title
  PROVE  l[base + q].has_label = new[q].has_label /\ l[base + q].label = new[q].label
BY PieceMember

LEMMA PieceOf ==
  ASSUME NEW l, NEW ss, NEW title \in {0, 1}, Whole(l, ss, title),
         NEW k \in 1 .. Len(l), l[k].stream # 0
  PROVE  /\ l[k].stream \in 1 .. Len(ss) /\ ss[l[k].stream] \in Kinds
         /\ \E new \in Generate!StreamsOf(ss[l[k].stream], l[k].stream), base \in Nat :
              /\ l[k].pos \in 1 .. Len(new) /\ k = base + l[k].pos
              /\ Members(new, ss[l[k].stream], l[k].stream) /\ Laid(l, base, new, title)
<1> DEFINE s == l[k].stream
<1>1. l \in Seq(Entry) /\ ss \in Seq(Kinds) /\ s \in 1 .. Len(ss)
  BY DEF Whole, Pieces
<1>2. s \in Nat \ {0} /\ ss[s] \in Kinds
  BY <1>1
<1>3. PICK new \in Generate!StreamsOf(ss[s], s) :
        l[k].pos \in 1 .. Len(new) /\ Laid(l, k - l[k].pos, new, title)
  BY DEF Whole, Pieces
<1>4. Members(new, ss[s], s)
  BY <1>2, <1>3, StreamMembers
<1>5. k - l[k].pos \in Nat /\ k = (k - l[k].pos) + l[k].pos
  BY <1>3 DEF Laid
<1> QED BY <1>1, <1>2, <1>3, <1>4, <1>5

LEMMA AtomicInStream ==
  ASSUME NEW l, NEW ss, NEW title \in {0, 1}, Whole(l, ss, title), NEW k \in 1 .. Len(l)
  PROVE  /\ l[k].atomic <=> l[k].stream # 0
         /\ l[k].stream # 0 => ~l[k].numeric /\ l[k].kind # "branch"
<1>1. CASE l[k].stream = 0
  BY <1>1 DEF Whole, Randoms
<1>2. CASE l[k].stream # 0
  <2>1. PICK new \in Generate!StreamsOf(ss[l[k].stream], l[k].stream), base \in Nat :
          /\ l[k].pos \in 1 .. Len(new) /\ k = base + l[k].pos
          /\ Members(new, ss[l[k].stream], l[k].stream) /\ Laid(l, base, new, title)
    BY <1>2, PieceOf
  <2>2. l \in Seq(Entry) /\ l[k].stream \in Nat
    BY <1>2, PieceOf DEF Whole
  <2>3. /\ l[base + l[k].pos].atomic /\ ~l[base + l[k].pos].numeric
        /\ l[base + l[k].pos].kind # "branch"
    BY <2>1, <2>2, PieceMember
  <2> QED BY <1>2, <2>1, <2>3
<1> QED BY <1>1, <1>2

LEMMA JoinedBehind ==
  ASSUME NEW S, NEW s \in Seq(S), NEW t \in Seq(S)
  PROVE  \A k \in 1 .. Len(t) : (s \o t)[Len(s) + k] = t[k]
<1> SUFFICES ASSUME NEW k \in 1 .. Len(t) PROVE (s \o t)[Len(s) + k] = t[k]
  OBVIOUS
<1>1. /\ Len(s) + k \in Int /\ Len(s) < Len(s) + k /\ Len(s) + k <= Len(s) + Len(t)
      /\ (Len(s) + k) - Len(s) = k
  OBVIOUS
<1> QED BY <1>1, JoinedEnd

(* Where an insertion of n instructions at a position moves the others.     *)
Shifted(at, n, k) == IF k < at THEN k ELSE k + n

SplitAt(l, new, at, l2) ==
  /\ l2 \in Seq(Entry) /\ Len(l2) = ((at - 1) + Len(new)) + (Len(l) - at + 1)
  /\ \A k \in 1 .. at - 1 : l2[k] = l[k]
  /\ \A q \in 1 .. Len(new) : l2[(at - 1) + q] = new[q]
  /\ \A k \in 1 .. Len(l) - at + 1 : l2[((at - 1) + Len(new)) + k] = l[at + k - 1]

LEMMA InsertedParts ==
  ASSUME NEW l \in Seq(Entry), NEW new \in Seq(Entry), NEW at \in 1 .. Len(l), NEW l2,
         SplitAt(l, new, at, l2)
  PROVE  /\ l2 \in Seq(Entry) /\ Len(l2) = Len(l) + Len(new)
         /\ \A k \in 1 .. Len(l) : l2[Shifted(at, Len(new), k)] = l[k]
         /\ \A q \in 1 .. Len(new) : l2[(at - 1) + q] = new[q]
         /\ \A k \in 1 .. Len(l2) :
              \/ \E m \in 1 .. Len(l) : k = Shifted(at, Len(new), m)
              \/ \E q \in 1 .. Len(new) : k = (at - 1) + q
<1> DEFINE n == Len(new)
<1> USE DEF SplitAt
<1>0. n \in Nat /\ Len(l) \in Nat /\ at \in Int /\ at >= 1 /\ at <= Len(l)
  OBVIOUS
<1>1. ASSUME NEW k \in 1 .. Len(l) PROVE l2[Shifted(at, n, k)] = l[k]
  <2>1. CASE k < at
    <3>1. k \in 1 .. at - 1
      BY <1>0, <2>1
    <3>2. l2[k] = l[k]
      BY <3>1
    <3> QED BY <2>1, <3>2 DEF Shifted
  <2>2. CASE ~(k < at)
    <3>1. k - at + 1 \in 1 .. Len(l) - at + 1 /\ ((at - 1) + n) + (k - at + 1) = k + n
          /\ at + (k - at + 1) - 1 = k
      BY <1>0, <2>2
    <3>2. l2[((at - 1) + n) + (k - at + 1)] = l[at + (k - at + 1) - 1]
      BY <3>1
    <3>3. Shifted(at, n, k) = k + n
      BY <2>2 DEF Shifted
    <3> QED BY <3>1, <3>2, <3>3
  <2> QED BY <2>1, <2>2
<1>2. ASSUME NEW k \in 1 .. Len(l2)
      PROVE  \/ \E m \in 1 .. Len(l) : k = Shifted(at, n, m)
             \/ \E q \in 1 .. n : k = (at - 1) + q
  <2>1. CASE k < at
    BY <1>0, <2>1 DEF Shifted
  <2>2. CASE k >= at /\ k < at + n
    <3>1. k - (at - 1) \in 1 .. n /\ k = (at - 1) + (k - (at - 1))
      BY <1>0, <2>2
    <3> QED BY <3>1
  <2>3. CASE k >= at + n
    <3>1. k - n \in 1 .. Len(l) /\ ~(k - n < at) /\ k = (k - n) + n
      BY <1>0, <2>3
    <3> QED BY <3>1 DEF Shifted
  <2> QED BY <1>0, <2>1, <2>2, <2>3
<1>3. /\ l2 \in Seq(Entry) /\ Len(l2) = Len(l) + n
      /\ \A q \in 1 .. n : l2[(at - 1) + q] = new[q]
  BY <1>0
<1>4. \A k \in 1 .. Len(l) : l2[Shifted(at, n, k)] = l[k]
  BY <1>1
<1>5. \A k \in 1 .. Len(l2) : \/ \E m \in 1 .. Len(l) : k = Shifted(at, n, m)
                               \/ \E q \in 1 .. n : k = (at - 1) + q
  BY <1>2
<1> HIDE DEF SplitAt
<1> QED BY <1>3, <1>4, <1>5

WithInserted(l, new, at) == SubSeq(l, 1, at - 1) \o new \o SubSeq(l, at, Len(l))

LEMMA InsertedAt ==
  ASSUME NEW l \in Seq(Entry), NEW new \in Seq(Entry), NEW at \in 1 .. Len(l), NEW l2,
         l2 = WithInserted(l, new, at)
  PROVE  /\ l2 \in Seq(Entry) /\ Len(l2) = Len(l) + Len(new)
         /\ \A k \in 1 .. Len(l) : l2[Shifted(at, Len(new), k)] = l[k]
         /\ \A q \in 1 .. Len(new) : l2[(at - 1) + q] = new[q]
         /\ \A k \in 1 .. Len(l2) :
              \/ \E m \in 1 .. Len(l) : k = Shifted(at, Len(new), m)
              \/ \E q \in 1 .. Len(new) : k = (at - 1) + q
<1> DEFINE n == Len(new)
           before == SubSeq(l, 1, at - 1)
           after == SubSeq(l, at, Len(l))
           front == before \o new
<1>0. n \in Nat /\ Len(l) \in Nat /\ at \in Int /\ at >= 1 /\ at <= Len(l)
  OBVIOUS
<1>1. before \in Seq(Entry) /\ Len(before) = at - 1 /\ \A k \in 1 .. at - 1 : before[k] = l[k]
  BY <1>0
<1>2. /\ after \in Seq(Entry) /\ Len(after) = Len(l) - at + 1
      /\ \A k \in 1 .. Len(l) - at + 1 : after[k] = l[at + k - 1]
  BY <1>0
<1>3. l2 = front \o after
  BY DEF WithInserted
<1>4. front = before \o new
  OBVIOUS
<1> HIDE DEF before, after, front
<1>5. /\ front \in Seq(Entry) /\ Len(front) = Len(before) + n
      /\ \A k \in 1 .. Len(before) : front[k] = before[k]
      /\ \A q \in 1 .. n : front[Len(before) + q] = new[q]
  <2>1. /\ before \o new \in Seq(Entry) /\ Len(before \o new) = Len(before) + n
        /\ \A k \in 1 .. Len(before) : (before \o new)[k] = before[k]
    BY <1>1, Joined
  <2>2. \A k \in 1 .. n : (before \o new)[Len(before) + k] = new[k]
    BY <1>1, JoinedBehind
  <2> QED BY <1>4, <2>1, <2>2
<1>6. /\ l2 \in Seq(Entry) /\ Len(l2) = Len(front) + Len(after)
      /\ \A k \in 1 .. Len(front) : l2[k] = front[k]
      /\ \A k \in 1 .. Len(after) : l2[Len(front) + k] = after[k]
  <2>1. /\ front \o after \in Seq(Entry) /\ Len(front \o after) = Len(front) + Len(after)
        /\ \A k \in 1 .. Len(front) : (front \o after)[k] = front[k]
    <3>1. front \in Seq(Entry) /\ after \in Seq(Entry)
      BY <1>2, <1>5
    <3> QED BY <3>1, Joined
  <2>2. \A k \in 1 .. Len(after) : (front \o after)[Len(front) + k] = after[k]
    <3>1. front \in Seq(Entry) /\ after \in Seq(Entry)
      BY <1>2, <1>5
    <3> QED BY <3>1, JoinedBehind
  <2> QED BY <1>3, <2>1, <2>2
<1>7. \A k \in 1 .. at - 1 : k \in 1 .. Len(front) /\ l2[k] = l[k]
  BY <1>0, <1>1, <1>5, <1>6
<1>8. ASSUME NEW q \in 1 .. n PROVE l2[(at - 1) + q] = new[q]
  <2>1. (at - 1) + q \in 1 .. Len(front)
    BY <1>0, <1>1, <1>5
  <2>2. l2[(at - 1) + q] = front[(at - 1) + q]
    BY <1>6, <2>1
  <2>3. front[Len(before) + q] = new[q]
    BY <1>5
  <2> QED BY <1>1, <2>2, <2>3
<1>9. Len(front) = (at - 1) + n
  BY <1>1, <1>5
<1>10. \A k \in 1 .. Len(l) - at + 1 : l2[((at - 1) + n) + k] = l[at + k - 1]
  BY <1>2, <1>6, <1>9
<1>11. Len(l2) = ((at - 1) + n) + (Len(l) - at + 1)
  BY <1>2, <1>6, <1>9
<1>12. SplitAt(l, new, at, l2)
  BY <1>6, <1>7, <1>8, <1>10, <1>11 DEF SplitAt
<1> QED BY <1>12, InsertedParts

(* Inserting a stream before a random instruction: the pieces stay whole,   *)
(* since that instruction is in none of them.                               *)
LEMMA PieceAside ==
  ASSUME NEW l, NEW ss, Whole(l, ss, 0), NEW at \in 1 .. Len(l), l[at].stream = 0,
         NEW new, NEW base, NEW kind, NEW s \in Nat \ {0}, Members(new, kind, s),
         Laid(l, base, new, 0)
  PROVE  base + Len(new) < at \/ at <= base
<1> SUFFICES ASSUME ~(base + Len(new) < at), ~(at <= base) PROVE FALSE
  OBVIOUS
<1>1. base \in Nat /\ l \in Seq(Entry) /\ Len(new) \in Nat /\ Len(l) \in Nat /\ at \in Nat
  BY DEF Laid, Members, Whole
<1>2. at - base \in 1 .. Len(new) /\ base + (at - base) = at
  BY <1>1
<1>3. PICK q \in 1 .. Len(new) : base + q = at
  BY <1>2
<1>4. l[base + q].stream = s
  <2>1. l \in Seq(Entry) /\ s \in Nat
    BY <1>1
  <2> QED BY <2>1, PieceMember
<1> QED BY <1>3, <1>4

Put(at, n, base) == IF at <= base THEN base + n ELSE base

LEMMA PieceShifts ==
  ASSUME NEW l \in Seq(Entry), NEW new \in Seq(Entry), NEW at \in 1 .. Len(l), NEW l2,
         l2 = WithInserted(l, new, at), NEW piece, NEW base, Laid(l, base, piece, 0),
         Len(piece) \in Nat, base + Len(piece) < at \/ at <= base
  PROVE  /\ Laid(l2, Put(at, Len(new), base), piece, 0)
         /\ \A q \in 1 .. Len(piece) :
              Shifted(at, Len(new), base + q) = Put(at, Len(new), base) + q
<1> DEFINE n == Len(new)
           base2 == Put(at, n, base)
<1>1. /\ base \in Nat /\ base + Len(piece) <= Len(l) /\ n \in Nat /\ Len(l) \in Nat /\ at \in Nat
      /\ \A q \in 1 .. Len(piece) : l[base + q] = piece[q]
  <2>1. /\ base \in Nat /\ base + Len(piece) <= Len(l)
        /\ \A q \in 1 .. Len(piece) : base + q # 0 => l[base + q] = piece[q]
    BY DEF Laid
  <2>2. \A q \in 1 .. Len(piece) : base + q # 0
    BY <2>1
  <2> QED BY <2>1, <2>2
<1>2. /\ Len(l2) = Len(l) + n
      /\ \A k \in 1 .. Len(l) : l2[Shifted(at, n, k)] = l[k]
  <2>1. l \in Seq(Entry) /\ new \in Seq(Entry) /\ at \in 1 .. Len(l)
    OBVIOUS
  <2> QED BY <2>1, InsertedAt
<1>3. ASSUME NEW q \in 1 .. Len(piece)
      PROVE  Shifted(at, n, base + q) = base2 + q /\ l2[base2 + q] = piece[q]
  <2>1. base + q \in 1 .. Len(l)
    BY <1>1
  <2>2. Shifted(at, n, base + q) = base2 + q
    BY <1>1 DEF Shifted, Put
  <2>3. l2[Shifted(at, n, base + q)] = l[base + q]
    BY <1>2, <2>1
  <2> QED BY <1>1, <2>2, <2>3
<1>4. base2 \in Nat /\ base2 + Len(piece) <= Len(l2)
  BY <1>1, <1>2 DEF Put
<1> HIDE DEF base2
<1>5. Laid(l2, base2, piece, 0)
  BY <1>3, <1>4 DEF Laid
<1> QED BY <1>3, <1>5 DEF base2

LEMMA InsertWhole ==
  ASSUME NEW l, NEW ss, Whole(l, ss, 0), Fresh(l), NEW kind \in Kinds,
         NEW new \in Generate!StreamsOf(kind, Len(ss) + 1),
         NEW at \in 1 .. Len(l), ~l[at].atomic, NEW l2, l2 = WithInserted(l, new, at)
  PROVE  Whole(l2, Append(ss, kind), 0) /\ Fresh(l2)
<1> DEFINE n == Len(new)
           s == Len(ss) + 1
           ss2 == Append(ss, kind)
<1>1. /\ l \in Seq(Entry) /\ ss \in Seq(Kinds) /\ Len(ss) \in Nat /\ s \in Nat \ {0}
      /\ Len(l) \in Nat /\ at \in Nat /\ at >= 1 /\ at <= Len(l)
  BY DEF Whole
<1>2. /\ ss2 \in Seq(Kinds) /\ Len(ss2) = s /\ ss2[s] = kind
      /\ \A t \in 1 .. Len(ss) : ss2[t] = ss[t]
  BY <1>1
<1>3. Members(new, kind, s) /\ new \in Seq(Entry) /\ n \in Nat /\ n >= 1
  <2>1. Members(new, kind, s)
    BY <1>1, StreamMembers
  <2> QED BY <2>1 DEF Members
<1>4. l[at].stream = 0
  BY AtomicInStream
<1> HIDE DEF ss2, s
<1>5. /\ l2 \in Seq(Entry) /\ Len(l2) = Len(l) + n
      /\ \A k \in 1 .. Len(l) : l2[Shifted(at, n, k)] = l[k]
      /\ \A q \in 1 .. n : l2[(at - 1) + q] = new[q]
      /\ \A k \in 1 .. Len(l2) :
           \/ \E m \in 1 .. Len(l) : k = Shifted(at, n, m)
           \/ \E q \in 1 .. n : k = (at - 1) + q
  BY <1>1, <1>3, InsertedAt
<1>6. \A q \in 1 .. n : /\ new[q].stream = s /\ new[q].pos = q
  BY <1>3 DEF Members, Member
<1>7. Laid(l2, at - 1, new, 0)
  BY <1>1, <1>3, <1>5 DEF Laid
<1>17. ASSUME NEW q \in 1 .. n, NEW k, k = (at - 1) + q
       PROVE  l2[k].stream = s /\ l2[k].pos = q /\ k - q = at - 1
  <2>1. l2[k] = new[q]
    BY <1>5, <1>17
  <2>2. k - q = at - 1
    BY <1>1, <1>17
  <2> QED BY <1>6, <2>1, <2>2
(* An instruction that was there before: its piece, and where that is now.  *)
<1>8. ASSUME NEW m \in 1 .. Len(l), l[m].stream # 0
      PROVE  /\ l[m].stream \in 1 .. Len(ss)
             /\ \E piece \in Generate!StreamsOf(ss[l[m].stream], l[m].stream) :
                  /\ l[m].pos \in 1 .. Len(piece)
                  /\ Laid(l2, Shifted(at, n, m) - l[m].pos, piece, 0)
             /\ Shifted(at, n, m) - l[m].pos = Put(at, n, m - l[m].pos)
  <2> DEFINE t == l[m].stream
  <2>1. t \in 1 .. Len(ss) /\ t \in Nat \ {0}
    <3>1. t \in 1 .. Len(ss)
      BY <1>8, PieceOf
    <3> QED BY <1>1, <3>1
  <2>2. PICK piece \in Generate!StreamsOf(ss[t], t), base \in Nat :
          /\ l[m].pos \in 1 .. Len(piece) /\ m = base + l[m].pos
          /\ Members(piece, ss[t], t) /\ Laid(l, base, piece, 0)
    BY <1>8, PieceOf
  <2>3. base + Len(piece) < at \/ at <= base
    BY <1>4, <2>1, <2>2, PieceAside
  <2>4. Len(piece) \in Nat
    BY <2>2 DEF Members
  <2>5. /\ Laid(l2, Put(at, n, base), piece, 0)
        /\ \A q \in 1 .. Len(piece) :
             Shifted(at, n, base + q) = Put(at, n, base) + q
    <3>1. l \in Seq(Entry) /\ new \in Seq(Entry)
      BY <1>1, <1>3
    <3> QED BY <2>2, <2>3, <2>4, <3>1, PieceShifts
  <2>6. l[m].pos \in Int /\ base \in Int /\ n \in Int /\ m - l[m].pos = base
    BY <1>3, <2>2
  <2>7. Shifted(at, n, m) - l[m].pos = Put(at, n, base)
    <3>1. Shifted(at, n, m) = Put(at, n, base) + l[m].pos
      BY <2>2, <2>5
    <3>2. Put(at, n, base) \in Int
      BY <2>6 DEF Put
    <3> QED BY <2>6, <3>1, <3>2
  <2> QED BY <2>1, <2>2, <2>5, <2>6, <2>7
<1>9. ASSUME NEW m \in 1 .. Len(l) PROVE Shifted(at, n, m) \in 1 .. Len(l2)
  BY <1>1, <1>3, <1>5 DEF Shifted
<1>10. Pieces(l2, ss2, 0)
  <2> SUFFICES ASSUME NEW k \in 1 .. Len(l2), l2[k].stream # 0
               PROVE  /\ l2[k].stream \in 1 .. Len(ss2)
                      /\ \E piece \in Generate!StreamsOf(ss2[l2[k].stream], l2[k].stream) :
                           /\ l2[k].pos \in 1 .. Len(piece)
                           /\ Laid(l2, k - l2[k].pos, piece, 0)
    BY DEF Pieces
  <2>1. CASE \E m \in 1 .. Len(l) : k = Shifted(at, n, m)
    <3>1. PICK m \in 1 .. Len(l) : k = Shifted(at, n, m)
      BY <2>1
    <3>2. l2[k] = l[m] /\ l[m].stream # 0
      BY <1>5, <3>1
    <3>3. l[m].stream \in 1 .. Len(ss) /\ l[m].stream \in 1 .. Len(ss2)
          /\ ss2[l[m].stream] = ss[l[m].stream]
      <4>1. l[m].stream \in 1 .. Len(ss)
        BY <1>8, <3>2
      <4> QED BY <1>1, <1>2, <4>1 DEF s
    <3> QED BY <1>8, <3>1, <3>2, <3>3
  <2>2. CASE \E q \in 1 .. n : k = (at - 1) + q
    <3>1. PICK q \in 1 .. n : k = (at - 1) + q
      BY <2>2
    <3>2. l2[k].stream = s /\ l2[k].pos = q /\ k - q = at - 1
      BY <1>17, <3>1
    <3>3. s \in 1 .. Len(ss2) /\ ss2[s] = kind
      BY <1>1, <1>2
    <3> QED BY <1>7, <3>1, <3>2, <3>3 DEF s
  <2> QED BY <1>5, <2>1, <2>2
<1>11. OnePiece(l2)
  <2> SUFFICES ASSUME NEW k \in 1 .. Len(l2), NEW m \in 1 .. Len(l2),
                      l2[k].stream = l2[m].stream, l2[k].stream # 0
               PROVE  k - l2[k].pos = m - l2[m].pos
    BY DEF OnePiece
  <2>1. ASSUME NEW r \in 1 .. Len(l2), l2[r].stream # 0
        PROVE  \/ /\ l2[r].stream = s /\ r - l2[r].pos = at - 1
               \/ \E w \in 1 .. Len(l) :
                    /\ l2[r] = l[w] /\ l[w].stream # 0 /\ l2[r].stream # s
                    /\ r - l2[r].pos = Put(at, n, w - l[w].pos)
    <3>1. CASE \E w \in 1 .. Len(l) : r = Shifted(at, n, w)
      <4>1. PICK w \in 1 .. Len(l) : r = Shifted(at, n, w)
        BY <3>1
      <4>2. l2[r] = l[w] /\ l[w].stream # 0
        BY <1>5, <2>1, <4>1
      <4>3. l2[r].stream # s
        <5>1. l[w].stream \in 1 .. Len(ss)
          BY <1>8, <4>2
        <5> QED BY <1>1, <4>2, <5>1 DEF s
      <4> QED BY <1>8, <4>1, <4>2, <4>3
    <3>2. CASE \E q \in 1 .. n : r = (at - 1) + q
      <4>1. PICK q \in 1 .. n : r = (at - 1) + q
        BY <3>2
      <4>2. l2[r].stream = s /\ l2[r].pos = q /\ r - q = at - 1
        BY <1>17, <4>1
      <4> QED BY <4>2
    <3> QED BY <1>5, <3>1, <3>2
  <2>2. CASE l2[k].stream = s
    BY <2>1, <2>2
  <2>3. CASE l2[k].stream # s
    <3>1. PICK v \in 1 .. Len(l) :
            /\ l2[k] = l[v] /\ l[v].stream # 0
            /\ k - l2[k].pos = Put(at, n, v - l[v].pos)
      BY <2>1, <2>3
    <3>2. PICK w \in 1 .. Len(l) :
            /\ l2[m] = l[w] /\ l[w].stream # 0
            /\ m - l2[m].pos = Put(at, n, w - l[w].pos)
      BY <2>1, <2>3
    <3>3. v - l[v].pos = w - l[w].pos
      BY <3>1, <3>2 DEF Whole, OnePiece
    <3> QED BY <3>1, <3>2, <3>3
  <2> QED BY <2>2, <2>3
<1>12. ASSUME NEW k \in 1 .. Len(l2), l2[k].stream = 0
       PROVE  \E m \in 1 .. Len(l) : k = Shifted(at, n, m) /\ l2[k] = l[m]
  <2>1. ASSUME NEW q \in 1 .. n PROVE k # (at - 1) + q
    <3>1. s # 0
      BY <1>1
    <3>2. k = (at - 1) + q => l2[k].stream = s
      BY <1>17
    <3> QED BY <1>12, <3>1, <3>2
  <2> QED BY <1>5, <2>1
<1>13. Randoms(l2)
  <2> SUFFICES ASSUME NEW k \in 1 .. Len(l2), l2[k].stream = 0
               PROVE  /\ ~l2[k].atomic /\ l2[k].dir = "f" /\ l2[k].kind \in {"op", "branch"}
                      /\ l2[k].kind = "op" => l2[k].target = -1
                      /\ l2[k].kind = "branch" => \E m \in k + 1 .. Len(l2) : l2[m].stream = 0
    BY DEF Randoms
  <2>1. PICK m \in 1 .. Len(l) : k = Shifted(at, n, m) /\ l2[k] = l[m]
    BY <1>12
  <2>2. /\ ~l[m].atomic /\ l[m].dir = "f" /\ l[m].kind \in {"op", "branch"}
        /\ l[m].kind = "op" => l[m].target = -1
        /\ l[m].kind = "branch" => \E w \in m + 1 .. Len(l) : l[w].stream = 0
    BY <2>1 DEF Whole, Randoms
  <2>3. ASSUME NEW w \in m + 1 .. Len(l), l[w].stream = 0
        PROVE  Shifted(at, n, w) \in k + 1 .. Len(l2) /\ l2[Shifted(at, n, w)].stream = 0
    <3>1. w \in 1 .. Len(l)
      BY <1>1
    <3>2. Shifted(at, n, w) \in k + 1 .. Len(l2)
      BY <1>1, <1>3, <1>5, <2>1, <3>1 DEF Shifted
    <3> QED BY <1>5, <2>3, <3>1, <3>2
  <2> QED BY <2>1, <2>2, <2>3
<1>14. Fresh(l2)
  BY <1>12 DEF Fresh
<1>15. Len(l2) > 0
  BY <1>1, <1>3, <1>5
<1>16. Whole(l2, ss2, 0)
  BY <1>2, <1>5, <1>10, <1>11, <1>13, <1>15 DEF Whole
<1> QED BY <1>14, <1>16 DEF ss2

-----------------------------------------------------------------------------
(* Labels. How many random instructions there are up to a position: that is *)
(* the label of the next one, and every number below the last is a label.   *)
Number(l, k) == Cardinality({m \in 1 .. k : l[m].stream = 0})

LEMMA NumberFinite ==
  ASSUME NEW l, NEW k \in Nat
  PROVE  IsFiniteSet({m \in 1 .. k : l[m].stream = 0}) /\ Number(l, k) \in Nat
<1> DEFINE S == {m \in 1 .. k : l[m].stream = 0}
<1>1. IsFiniteSet(1 .. k) /\ S \in SUBSET (1 .. k)
  BY FS_Interval
<1> HIDE DEF S
<1>2. IsFiniteSet(S)
  BY <1>1, FS_Subset
<1>3. Cardinality(S) \in Nat
  BY <1>2, FS_CardinalityType
<1> QED BY <1>2, <1>3 DEF S, Number

LEMMA NumberSteps ==
  ASSUME NEW l, NEW k \in Nat \ {0}
  PROVE  Number(l, k) = Number(l, k - 1) + (IF l[k].stream = 0 THEN 1 ELSE 0)
<1> DEFINE S == {m \in 1 .. k - 1 : l[m].stream = 0}
           T == {m \in 1 .. k : l[m].stream = 0}
<1>1. k - 1 \in Nat /\ k \notin S /\ T = IF l[k].stream = 0 THEN S \cup {k} ELSE S
  OBVIOUS
<1>2. IsFiniteSet(S) /\ Number(l, k - 1) = Cardinality(S) /\ Number(l, k) = Cardinality(T)
  BY <1>1, NumberFinite DEF Number
<1> HIDE DEF S, T
<1>3. Cardinality(S \cup {k}) = Cardinality(S) + 1
  BY <1>1, <1>2, FS_AddElement
<1>4. Number(l, k - 1) \in Nat
  BY <1>1, NumberFinite
<1> QED BY <1>1, <1>2, <1>3, <1>4

LEMMA NumberGrows ==
  ASSUME NEW l, NEW k \in Nat, NEW m \in Nat, k <= m
  PROVE  Number(l, k) <= Number(l, m)
<1> DEFINE S == {r \in 1 .. k : l[r].stream = 0}
           T == {r \in 1 .. m : l[r].stream = 0}
<1>1. IsFiniteSet(T) /\ Number(l, m) = Cardinality(T) /\ Number(l, k) = Cardinality(S)
  BY NumberFinite DEF Number
<1>2. S \in SUBSET T
  OBVIOUS
<1> HIDE DEF S, T
<1>3. Cardinality(S) <= Cardinality(T)
  BY <1>1, <1>2, FS_Subset
<1> QED BY <1>1, <1>3

(* A random instruction before another one has the smaller number.          *)
LEMMA NumberOrder ==
  ASSUME NEW l, NEW k \in Nat \ {0}, NEW m \in Nat \ {0}, l[k].stream = 0
  PROVE  /\ k < m => Number(l, k - 1) < Number(l, m - 1)
         /\ m <= k => Number(l, m - 1) <= Number(l, k - 1)
<1>1. k - 1 \in Nat /\ m - 1 \in Nat
  OBVIOUS
<1>2. Number(l, k - 1) \in Nat /\ Number(l, m - 1) \in Nat /\ Number(l, k) \in Nat
  BY <1>1, NumberFinite
<1>3. Number(l, k) = Number(l, k - 1) + 1
  BY NumberSteps
<1>4. k < m => Number(l, k) <= Number(l, m - 1)
  <2> SUFFICES ASSUME k < m PROVE Number(l, k) <= Number(l, m - 1)
    OBVIOUS
  <2>1. k \in Nat /\ k <= m - 1
    OBVIOUS
  <2> QED BY <1>1, <2>1, NumberGrows
<1>5. m <= k => Number(l, m - 1) <= Number(l, k - 1)
  <2> SUFFICES ASSUME m <= k PROVE Number(l, m - 1) <= Number(l, k - 1)
    OBVIOUS
  <2>1. m - 1 <= k - 1
    OBVIOUS
  <2> QED BY <1>1, <2>1, NumberGrows
<1> QED BY <1>2, <1>3, <1>4, <1>5

LEMMA EachNumber ==
  ASSUME NEW l, NEW n \in Nat, NEW t \in 0 .. Number(l, n) - 1
  PROVE  \E m \in 1 .. n : l[m].stream = 0 /\ Number(l, m - 1) = t
<1> DEFINE T == {k \in 0 .. n : Number(l, k) > t}
<1>0. Number(l, n) \in Nat /\ Number(l, n) > t /\ t \in Nat
  <2>1. Number(l, n) \in Nat
    BY NumberFinite
  <2> QED BY <2>1
<1>1. T \subseteq Nat /\ n \in T
  BY <1>0
<1>2. PICK m \in T : \A k \in T : m <= k
  <2> HIDE DEF T
  <2> QED BY <1>1, LeastElement
<1>3. m # 0
  <2>1. Number(l, 0) = 0
    <3>1. {k \in 1 .. 0 : l[k].stream = 0} = {}
      OBVIOUS
    <3> QED BY <3>1, FS_EmptySet DEF Number
  <2> QED BY <1>0, <1>2, <2>1
<1>4. m \in 1 .. n /\ m \in Nat \ {0} /\ m - 1 \in 0 .. n /\ m - 1 \in Nat /\ ~(m <= m - 1)
  BY <1>2, <1>3
<1>5. m - 1 \notin T
  <2> HIDE DEF T
  <2> QED BY <1>2, <1>4
<1>6. Number(l, m) \in Nat /\ Number(l, m - 1) \in Nat
  BY <1>4, NumberFinite
<1>7. Number(l, m) > t /\ ~(Number(l, m - 1) > t)
  BY <1>2, <1>4, <1>5
<1>8. Number(l, m) = Number(l, m - 1) + (IF l[m].stream = 0 THEN 1 ELSE 0)
  BY <1>4, NumberSteps
<1>9. l[m].stream = 0 /\ Number(l, m - 1) = t
  BY <1>0, <1>6, <1>7, <1>8
<1> QED BY <1>4, <1>9

(* What is edited of the list later leaves the streams as they are.         *)
Edited(l, l2) ==
  /\ l2 \in Seq(Entry) /\ Len(l2) = Len(l)
  /\ \A k \in 1 .. Len(l) :
       /\ l[k].stream # 0 => l2[k] = l[k]
       /\ l[k].stream = 0 =>
            /\ l2[k].stream = 0 /\ ~l2[k].atomic /\ l2[k].dir = l[k].dir
            /\ l2[k].kind = l[k].kind
            /\ l[k].kind = "op" => l2[k].target = l[k].target

LEMMA EditedWhole ==
  ASSUME NEW l, NEW ss, Whole(l, ss, 0), NEW l2, Edited(l, l2)
  PROVE  /\ Whole(l2, ss, 0)
         /\ \A k \in 0 .. Len(l) : Number(l2, k) = Number(l, k)
<1>1. Len(l) \in Nat /\ l2 \in Seq(Entry) /\ Len(l2) = Len(l) /\ Len(l) > 0 /\ ss \in Seq(Kinds)
  BY DEF Whole, Edited
<1>2. \A k \in 1 .. Len(l) : /\ l[k].stream = 0 <=> l2[k].stream = 0
                             /\ l[k].stream # 0 => l2[k] = l[k]
  BY DEF Edited
<1>3. Pieces(l2, ss, 0)
  <2> SUFFICES ASSUME NEW k \in 1 .. Len(l2), l2[k].stream # 0
               PROVE  /\ l2[k].stream \in 1 .. Len(ss)
                      /\ \E new \in Generate!StreamsOf(ss[l2[k].stream], l2[k].stream) :
                           l2[k].pos \in 1 .. Len(new) /\ Laid(l2, k - l2[k].pos, new, 0)
    BY DEF Pieces
  <2>1. k \in 1 .. Len(l) /\ l[k].stream # 0 /\ l2[k] = l[k]
    BY <1>1, <1>2
  <2> DEFINE s == l[k].stream
  <2>2. s \in 1 .. Len(ss)
    BY <2>1, PieceOf
  <2>3. PICK new \in Generate!StreamsOf(ss[s], s), base \in Nat :
          /\ l[k].pos \in 1 .. Len(new) /\ k = base + l[k].pos
          /\ Members(new, ss[s], s) /\ Laid(l, base, new, 0)
    BY <2>1, PieceOf
  <2>4. k - l[k].pos = base
    BY <2>3
  <2>5. ASSUME NEW q \in 1 .. Len(new)
        PROVE  l2[base + q] = IF base + q = 0 THEN Titled(new[q]) ELSE new[q]
    <3>1. s \in Nat /\ l \in Seq(Entry)
      BY <2>2 DEF Whole
    <3>2. base + q \in 1 .. Len(l) /\ l[base + q].stream = s
      BY <2>3, <3>1, PieceMember
    <3>3. l2[base + q] = l[base + q]
      BY <1>2, <2>1, <3>2
    <3> QED BY <2>3, <3>3 DEF Laid
  <2>6. Laid(l2, base, new, 0)
    BY <1>1, <2>3, <2>5 DEF Laid
  <2> QED BY <2>1, <2>2, <2>3, <2>4, <2>6
<1>4. OnePiece(l2)
  BY <1>1, <1>2 DEF Whole, OnePiece
<1>5. Randoms(l2)
  <2> SUFFICES ASSUME NEW k \in 1 .. Len(l2), l2[k].stream = 0
               PROVE  /\ ~l2[k].atomic /\ l2[k].dir = "f" /\ l2[k].kind \in {"op", "branch"}
                      /\ l2[k].kind = "op" => l2[k].target = -1
                      /\ l2[k].kind = "branch" => \E m \in k + 1 .. Len(l2) : l2[m].stream = 0
    BY DEF Randoms
  <2>1. k \in 1 .. Len(l) /\ l[k].stream = 0
    BY <1>1, <1>2
  <2>2. /\ l[k].dir = "f" /\ l[k].kind \in {"op", "branch"}
        /\ l[k].kind = "op" => l[k].target = -1
        /\ l[k].kind = "branch" => \E m \in k + 1 .. Len(l) : l[m].stream = 0
    BY <2>1 DEF Whole, Randoms
  <2>3. /\ ~l2[k].atomic /\ l2[k].dir = l[k].dir /\ l2[k].kind = l[k].kind
        /\ l[k].kind = "op" => l2[k].target = l[k].target
    BY <2>1 DEF Edited
  <2>4. \A m \in k + 1 .. Len(l) : m \in 1 .. Len(l) /\ (l[m].stream = 0 => l2[m].stream = 0)
    BY <1>1, <1>2
  <2> QED BY <1>1, <2>2, <2>3, <2>4
<1>6. ASSUME NEW k \in 0 .. Len(l) PROVE Number(l2, k) = Number(l, k)
  <2>1. \A m \in 1 .. k : m \in 1 .. Len(l)
    BY <1>1
  <2>2. {m \in 1 .. k : l2[m].stream = 0} = {m \in 1 .. k : l[m].stream = 0}
    BY <1>2, <2>1
  <2> QED BY <2>2 DEF Number
<1> QED BY <1>1, <1>3, <1>4, <1>5, <1>6 DEF Whole

(* The labels the random instructions have while those that no branch goes  *)
(* to are removed, jj being the next one to look at: an instruction that is *)
(* a target has its number, and a branch goes to the number of a later one. *)
(* The first instruction's is gone once it has the program's label.         *)
Labels(l, n, targets, jj, title) ==
  /\ n = Number(l, Len(l)) /\ targets \subseteq 0 .. n - 1 /\ jj \in Nat \ {0}
  /\ \A k \in 1 .. Len(l) : l[k].stream = 0 =>
       /\ l[k].numeric
       /\ k # title => l[k].label = Number(l, k - 1)
       /\ k >= jj \/ Number(l, k - 1) \in targets => l[k].has_label
       /\ l[k].target # -1 =>
            /\ l[k].kind = "branch" /\ l[k].target \in targets
            /\ l[k].target > Number(l, k - 1)

WithLabel(e, v) == [e EXCEPT !.label = v, !.numeric = TRUE]
WithKept(e, h) == [e EXCEPT !.has_label = h]
WithTarget(e, t, h) == [e EXCEPT !.target = t, !.has_label = h]

LEMMA EntryLabelled ==
  ASSUME NEW e \in Entry, NEW v \in Int
  PROVE  /\ WithLabel(e, v) \in Entry /\ WithLabel(e, v).label = v /\ WithLabel(e, v).numeric
         /\ WithLabel(e, v).stream = e.stream /\ WithLabel(e, v).atomic = e.atomic
         /\ WithLabel(e, v).dir = e.dir /\ WithLabel(e, v).kind = e.kind
         /\ WithLabel(e, v).target = e.target /\ WithLabel(e, v).has_label = e.has_label
BY DEF Entry, WithLabel

LEMMA EntryKept ==
  ASSUME NEW e \in Entry, NEW h \in BOOLEAN
  PROVE  /\ WithKept(e, h) \in Entry /\ WithKept(e, e.has_label) = e
         /\ WithKept(e, h).has_label = h /\ WithKept(e, h).label = e.label
         /\ WithKept(e, h).stream = e.stream /\ WithKept(e, h).atomic = e.atomic
         /\ WithKept(e, h).dir = e.dir /\ WithKept(e, h).kind = e.kind
         /\ WithKept(e, h).target = e.target /\ WithKept(e, h).numeric = e.numeric
BY DEF Entry, WithKept

LEMMA EntryTargeted ==
  ASSUME NEW e \in Entry, NEW v \in Int, NEW h \in BOOLEAN
  PROVE  /\ WithTarget(e, v, h) \in Entry
         /\ WithTarget(e, v, h).has_label = h /\ WithTarget(e, v, h).label = e.label
         /\ WithTarget(e, v, h).stream = e.stream /\ WithTarget(e, v, h).atomic = e.atomic
         /\ WithTarget(e, v, h).dir = e.dir /\ WithTarget(e, v, h).kind = e.kind
         /\ WithTarget(e, v, h).target = v /\ WithTarget(e, v, h).numeric = e.numeric
BY DEF Entry, WithTarget

Relabelled(l) ==
  [k \in 1 .. Len(l) |->
     IF l[k].stream = 0 THEN WithLabel(l[k], Number(l, k - 1)) ELSE l[k]]

LEMMA LabelsAssigned ==
  ASSUME NEW l, NEW ss, Whole(l, ss, 0), Fresh(l), NEW l2, l2 = Relabelled(l)
  PROVE  /\ Whole(l2, ss, 0)
         /\ Labels(l2, Number(l, Len(l)), {}, 1, 0)
<1>1. Len(l) \in Nat /\ l \in Seq(Entry)
  BY DEF Whole
<1>2. ASSUME NEW k \in 1 .. Len(l)
      PROVE  /\ l[k] \in Entry /\ Number(l, k - 1) \in Nat /\ k \in Nat /\ l2[k] \in Entry
             /\ l2[k] = IF l[k].stream = 0 THEN WithLabel(l[k], Number(l, k - 1)) ELSE l[k]
  <2>1. l[k] \in Entry /\ k - 1 \in Nat
    BY <1>1
  <2>2. Number(l, k - 1) \in Nat
    BY <2>1, NumberFinite
  <2>3. l2[k] = IF l[k].stream = 0 THEN WithLabel(l[k], Number(l, k - 1)) ELSE l[k]
    BY DEF Relabelled
  <2>4. WithLabel(l[k], Number(l, k - 1)) \in Entry
    <3>1. Number(l, k - 1) \in Int
      BY <2>2
    <3> QED BY <2>1, <3>1, EntryLabelled
  <2> QED BY <2>1, <2>2, <2>3, <2>4
<1>3. l2 \in Seq(Entry) /\ Len(l2) = Len(l)
  BY <1>1, <1>2 DEF Relabelled
<1>4. ASSUME NEW k \in 1 .. Len(l), l[k].stream = 0
      PROVE  /\ l2[k].stream = 0 /\ l2[k].numeric /\ l2[k].label = Number(l, k - 1)
             /\ l2[k].atomic = l[k].atomic /\ l2[k].dir = l[k].dir /\ l2[k].kind = l[k].kind
             /\ l2[k].target = -1 /\ l[k].target = -1 /\ l2[k].has_label /\ ~l[k].atomic
  <2>1. l2[k] = WithLabel(l[k], Number(l, k - 1)) /\ l[k] \in Entry /\ Number(l, k - 1) \in Int
    BY <1>2, <1>4
  <2>2. l[k].target = -1 /\ l[k].has_label /\ ~l[k].atomic
    BY <1>4, AtomicInStream DEF Fresh
  <2>3. /\ l2[k].stream = l[k].stream /\ l2[k].numeric /\ l2[k].label = Number(l, k - 1)
        /\ l2[k].atomic = l[k].atomic /\ l2[k].dir = l[k].dir /\ l2[k].kind = l[k].kind
        /\ l2[k].target = l[k].target /\ l2[k].has_label = l[k].has_label
    <3>1. PICK e \in Entry, v \in Int : e = l[k] /\ v = Number(l, k - 1) /\ l2[k] = WithLabel(e, v)
      BY <2>1
    <3>2. /\ WithLabel(e, v).stream = e.stream /\ WithLabel(e, v).numeric
          /\ WithLabel(e, v).atomic = e.atomic /\ WithLabel(e, v).dir = e.dir
          /\ WithLabel(e, v).kind = e.kind /\ WithLabel(e, v).target = e.target
          /\ WithLabel(e, v).has_label = e.has_label /\ WithLabel(e, v).label = v
      BY EntryLabelled
    <3> QED BY <3>1, <3>2
  <2> QED BY <1>4, <2>2, <2>3
<1>5. Edited(l, l2)
  BY <1>2, <1>3, <1>4 DEF Edited
<1>6. Whole(l2, ss, 0) /\ \A k \in 0 .. Len(l) : Number(l2, k) = Number(l, k)
  BY <1>5, EditedWhole
<1>7. Number(l2, Len(l2)) = Number(l, Len(l))
  BY <1>1, <1>3, <1>6
<1>8. ASSUME NEW k \in 1 .. Len(l2), l2[k].stream = 0
      PROVE  /\ l2[k].numeric /\ l2[k].label = Number(l2, k - 1)
             /\ l2[k].has_label /\ l2[k].target = -1
  <2>1. k \in 1 .. Len(l) /\ k - 1 \in 0 .. Len(l) /\ l[k].stream = 0
    BY <1>1, <1>2, <1>3, <1>8
  <2> QED BY <1>4, <1>6, <2>1
<1>9. \A k \in 1 .. Len(l2) : l2[k].stream = 0 =>
        /\ l2[k].numeric
        /\ k # 0 => l2[k].label = Number(l2, k - 1)
        /\ k >= 1 \/ Number(l2, k - 1) \in {} => l2[k].has_label
        /\ l2[k].target # -1 =>
             /\ l2[k].kind = "branch" /\ l2[k].target \in {}
             /\ l2[k].target > Number(l2, k - 1)
  BY <1>8
<1>10. Labels(l2, Number(l, Len(l)), {}, 1, 0)
  <2>1. {} \subseteq 0 .. Number(l, Len(l)) - 1 /\ 1 \in Nat \ {0}
    OBVIOUS
  <2> QED BY <1>7, <1>9, <2>1 DEF Labels
<1> QED BY <1>6, <1>10

(* A branch goes to a number above its own: it is not the last of the       *)
(* random instructions.                                                     *)
LEMMA BranchAhead ==
  ASSUME NEW l, NEW ss, Whole(l, ss, 0), NEW k \in 1 .. Len(l), l[k].kind = "branch"
  PROVE  l[k].stream = 0 /\ Number(l, k - 1) + 1 < Number(l, Len(l))
<1>1. l[k].stream = 0
  BY AtomicInStream
<1>2. PICK m \in k + 1 .. Len(l) : l[m].stream = 0
  BY <1>1 DEF Whole, Randoms
<1>3. Len(l) \in Nat
  BY DEF Whole
<1>4. k \in Nat \ {0} /\ m \in Nat \ {0} /\ k < m /\ k - 1 \in Nat /\ m - 1 \in Nat /\ m <= Len(l)
  BY <1>2, <1>3
<1>5. Number(l, k - 1) < Number(l, m - 1)
  BY <1>1, <1>4, NumberOrder
<1>6. Number(l, m) = Number(l, m - 1) + 1
  BY <1>2, <1>4, NumberSteps
<1>7. Number(l, m) <= Number(l, Len(l))
  BY <1>3, <1>4, NumberGrows
<1>8. /\ Number(l, k - 1) \in Nat /\ Number(l, m - 1) \in Nat /\ Number(l, m) \in Nat
      /\ Number(l, Len(l)) \in Nat
  BY <1>3, <1>4, NumberFinite
<1> QED BY <1>1, <1>5, <1>6, <1>7, <1>8

(* The turn for one instruction: the targets are those before and, of a     *)
(* branch, its own, which is further on than any label looked at.           *)
Turn(l, n, targets, jj, e, t, targets2) ==
  /\ e \in Entry /\ targets2 \subseteq 0 .. n - 1 /\ targets \subseteq targets2
  /\ \A v \in targets2 : v \in targets \/ v > Number(l, jj - 1)
  /\ l[jj].stream # 0 => e = l[jj]
  /\ l[jj].stream = 0 =>
       /\ e.stream = 0 /\ e.atomic = l[jj].atomic /\ e.dir = l[jj].dir
       /\ e.kind = l[jj].kind /\ e.label = l[jj].label /\ e.numeric
       /\ e.has_label <=> l[jj].label \in targets2
       /\ e.target = t
       /\ l[jj].kind = "op" => t = l[jj].target
       /\ t # -1 => l[jj].kind = "branch" /\ t \in targets2 /\ t > Number(l, jj - 1)

LEMMA TurnTaken ==
  ASSUME NEW l, NEW ss, Whole(l, ss, 0), NEW n, NEW targets, NEW jj \in 1 .. Len(l),
         Labels(l, n, targets, jj, 0), NEW e, NEW t, NEW targets2,
         Turn(l, n, targets, jj, e, t, targets2), NEW l2, l2 = [l EXCEPT ![jj] = e]
  PROVE  Whole(l2, ss, 0) /\ Labels(l2, n, targets2, jj + 1, 0)
<1> USE DEF Turn
<1>1. Len(l) \in Nat /\ l \in Seq(Entry) /\ jj \in Nat
  BY DEF Whole
<1>2. /\ l2 \in Seq(Entry) /\ Len(l2) = Len(l) /\ l2[jj] = e
      /\ \A k \in 1 .. Len(l) : k # jj => l2[k] = l[k]
  BY <1>1
<1>3. \A k \in 1 .. Len(l) : ~(l[k].stream = 0 /\ l[k].atomic)
  BY AtomicInStream
<1>4. Edited(l, l2)
  BY <1>2, <1>3 DEF Edited
<1>5. Whole(l2, ss, 0) /\ \A k \in 0 .. Len(l) : Number(l2, k) = Number(l, k)
  BY <1>4, EditedWhole
<1>6. Number(l2, Len(l2)) = n
  <2>1. Len(l2) \in 0 .. Len(l) /\ Len(l2) = Len(l) /\ n = Number(l, Len(l))
    BY <1>1, <1>2 DEF Labels
  <2> QED BY <1>5, <2>1
<1>7. ASSUME NEW k \in 1 .. Len(l2), l2[k].stream = 0
      PROVE  /\ l2[k].numeric /\ l2[k].label = Number(l2, k - 1)
             /\ k >= jj + 1 \/ Number(l2, k - 1) \in targets2 => l2[k].has_label
             /\ l2[k].target # -1 =>
                  /\ l2[k].kind = "branch" /\ l2[k].target \in targets2
                  /\ l2[k].target > Number(l2, k - 1)
  <2>1. /\ k \in 1 .. Len(l) /\ k - 1 \in 0 .. Len(l) /\ k - 1 \in Nat /\ jj - 1 \in Nat
        /\ Number(l2, k - 1) = Number(l, k - 1)
    <3>1. k \in 1 .. Len(l) /\ k - 1 \in 0 .. Len(l) /\ k - 1 \in Nat /\ jj - 1 \in Nat
      BY <1>1, <1>2
    <3> QED BY <1>5, <3>1
  <2>2. l[k].stream = 0
    BY <1>2, <1>7, <2>1
  <2>3. /\ l[k].numeric /\ l[k].label = Number(l, k - 1)
        /\ k >= jj \/ Number(l, k - 1) \in targets => l[k].has_label
        /\ l[k].target # -1 =>
             /\ l[k].kind = "branch" /\ l[k].target \in targets
             /\ l[k].target > Number(l, k - 1)
    <3>1. k # 0
      BY <2>1
    <3> QED BY <2>1, <2>2, <3>1 DEF Labels
  <2>4. CASE k = jj
    <3>1. k \in Nat /\ ~(k >= jj + 1)
      BY <1>1, <2>4
    <3> QED BY <1>2, <2>1, <2>2, <2>3, <2>4, <3>1
  <2>5. CASE k # jj
    <3>1. l2[k] = l[k]
      BY <1>2, <2>1, <2>5
    <3>2. k >= jj + 1 => k >= jj
      BY <1>1, <2>1
    <3>3. ASSUME k < jj, Number(l, k - 1) \in targets2 PROVE Number(l, k - 1) \in targets
      <4>1. Number(l, k - 1) <= Number(l, jj - 1)
        <5>1. k - 1 <= jj - 1
          BY <1>1, <2>1, <3>3
        <5> QED BY <2>1, <5>1, NumberGrows
      <4>2. Number(l, k - 1) \in Nat /\ Number(l, jj - 1) \in Nat
        BY <2>1, NumberFinite
      <4>3. ~(Number(l, k - 1) > Number(l, jj - 1))
        BY <4>1, <4>2
      <4> QED BY <3>3, <4>3
    <3>4. k < jj \/ k >= jj
      BY <1>1, <2>1
    <3> QED BY <2>1, <2>3, <3>1, <3>2, <3>3, <3>4
  <2> QED BY <2>4, <2>5
<1>8. jj + 1 \in Nat \ {0}
  BY <1>1
<1>9. \A k \in 1 .. Len(l2) : k # 0
  OBVIOUS
<1> QED BY <1>5, <1>6, <1>7, <1>8 DEF Labels

(* The program's label.                                                     *)
LEMMA FirstTitled ==
  ASSUME NEW l, NEW ss, Whole(l, ss, 0), NEW n, NEW targets, NEW jj,
         Labels(l, n, targets, jj, 0), NEW l2, l2 = [l EXCEPT ![1] = Titled(l[1])]
  PROVE  Whole(l2, ss, 1) /\ Labels(l2, n, targets, jj, 1)
<1>1. Len(l) \in Nat /\ l \in Seq(Entry) /\ 1 \in 1 .. Len(l) /\ ss \in Seq(Kinds)
  BY DEF Whole
<1>2. /\ Titled(l[1]) \in Entry
      /\ Titled(l[1]).stream = l[1].stream /\ Titled(l[1]).pos = l[1].pos
      /\ Titled(l[1]).atomic = l[1].atomic /\ Titled(l[1]).numeric = l[1].numeric
      /\ Titled(l[1]).kind = l[1].kind /\ Titled(l[1]).target = l[1].target
      /\ Titled(l[1]).dir = l[1].dir
      /\ Titled(l[1]).has_label /\ Titled(l[1]).label = -1
  <2>1. l[1] \in Entry /\ -1 \in Int
    BY <1>1
  <2> QED BY <2>1 DEF Titled, Entry
<1>3. /\ l2 \in Seq(Entry) /\ Len(l2) = Len(l)
      /\ \A k \in 1 .. Len(l) : l2[k] = IF k = 1 THEN Titled(l[1]) ELSE l[k]
  <2> HIDE DEF Titled
  <2> QED BY <1>1, <1>2
<1>4. \A k \in 1 .. Len(l) :
        /\ l2[k].stream = l[k].stream /\ l2[k].pos = l[k].pos /\ l2[k].atomic = l[k].atomic
        /\ l2[k].numeric = l[k].numeric /\ l2[k].kind = l[k].kind
        /\ l2[k].target = l[k].target /\ l2[k].dir = l[k].dir
        /\ l[k].has_label => l2[k].has_label
        /\ k # 1 => l2[k].label = l[k].label
  BY <1>2, <1>3
<1>5. Pieces(l2, ss, 1)
  <2> SUFFICES ASSUME NEW k \in 1 .. Len(l2), l2[k].stream # 0
               PROVE  /\ l2[k].stream \in 1 .. Len(ss)
                      /\ \E new \in Generate!StreamsOf(ss[l2[k].stream], l2[k].stream) :
                           l2[k].pos \in 1 .. Len(new) /\ Laid(l2, k - l2[k].pos, new, 1)
    BY DEF Pieces
  <2>1. k \in 1 .. Len(l) /\ l[k].stream # 0 /\ l2[k].stream = l[k].stream /\ l2[k].pos = l[k].pos
    BY <1>3, <1>4
  <2> DEFINE s == l[k].stream
  <2>2. s \in 1 .. Len(ss)
    BY <2>1, PieceOf
  <2>3. PICK new \in Generate!StreamsOf(ss[s], s), base \in Nat :
          /\ l[k].pos \in 1 .. Len(new) /\ k = base + l[k].pos
          /\ Members(new, ss[s], s) /\ Laid(l, base, new, 0)
    BY <2>1, PieceOf
  <2>4. k - l[k].pos = base
    BY <2>3
  <2>5. ASSUME NEW q \in 1 .. Len(new)
        PROVE  l2[base + q] = IF base + q = 1 THEN Titled(new[q]) ELSE new[q]
    <3>1. s \in Nat /\ l \in Seq(Entry)
      BY <1>1, <2>2
    <3>2. base + q \in 1 .. Len(l)
      BY <2>3, <3>1, PieceMember
    <3>3. l[base + q] = new[q]
      <4>1. base + q # 0
        BY <3>2
      <4> QED BY <2>3, <4>1 DEF Laid
    <3> QED BY <1>3, <3>2, <3>3
  <2>6. Laid(l2, base, new, 1)
    BY <1>3, <2>3, <2>5 DEF Laid
  <2> QED BY <2>1, <2>2, <2>3, <2>4, <2>6
<1>6. OnePiece(l2)
  BY <1>3, <1>4 DEF Whole, OnePiece
<1>7. Randoms(l2)
  BY <1>3, <1>4 DEF Whole, Randoms
<1>8. Whole(l2, ss, 1)
  BY <1>1, <1>3, <1>5, <1>6, <1>7 DEF Whole
<1>9. ASSUME NEW k \in 0 .. Len(l) PROVE Number(l2, k) = Number(l, k)
  <2>1. \A m \in 1 .. k : m \in 1 .. Len(l)
    BY <1>1
  <2>2. {m \in 1 .. k : l2[m].stream = 0} = {m \in 1 .. k : l[m].stream = 0}
    BY <1>4, <2>1
  <2> QED BY <2>2 DEF Number
<1>10. /\ n = Number(l2, Len(l2)) /\ targets \subseteq 0 .. n - 1 /\ jj \in Nat \ {0}
  <2>1. Len(l2) \in 0 .. Len(l) /\ Len(l2) = Len(l)
    BY <1>1, <1>3
  <2>2. n = Number(l, Len(l)) /\ targets \subseteq 0 .. n - 1 /\ jj \in Nat \ {0}
    BY DEF Labels
  <2> QED BY <1>9, <2>1, <2>2
<1>11. ASSUME NEW k \in 1 .. Len(l2), l2[k].stream = 0
       PROVE  /\ l2[k].numeric
              /\ k # 1 => l2[k].label = Number(l2, k - 1)
              /\ k >= jj \/ Number(l2, k - 1) \in targets => l2[k].has_label
              /\ l2[k].target # -1 =>
                   /\ l2[k].kind = "branch" /\ l2[k].target \in targets
                   /\ l2[k].target > Number(l2, k - 1)
  <2>1. k \in 1 .. Len(l) /\ k - 1 \in 0 .. Len(l) /\ l[k].stream = 0 /\ k # 0
    BY <1>1, <1>3, <1>4, <1>11
  <2>2. Number(l2, k - 1) = Number(l, k - 1)
    BY <1>9, <2>1
  <2>3. /\ l[k].numeric /\ l[k].label = Number(l, k - 1)
        /\ k >= jj \/ Number(l, k - 1) \in targets => l[k].has_label
        /\ l[k].target # -1 =>
             /\ l[k].kind = "branch" /\ l[k].target \in targets
             /\ l[k].target > Number(l, k - 1)
    BY <2>1 DEF Labels
  <2> QED BY <1>4, <2>1, <2>2, <2>3
<1>12. Labels(l2, n, targets, jj, 1)
  BY <1>10, <1>11 DEF Labels
<1> QED BY <1>8, <1>12

-----------------------------------------------------------------------------
(* The list while it is made and from then on.                              *)
Title == IF gen_phase \in {"run", "end"} THEN 1 ELSE 0
ListInv ==
  /\ gen_phase \in {"insert", "target", "run", "end"}
  /\ Whole(instr_list, streams, Title)
  /\ gen_phase = "insert" => Fresh(instr_list) /\ j = 1 /\ branch_target = {}
  /\ gen_phase # "insert" => Labels(instr_list, label_idx, branch_target, j, Title)

LEMMA ListInit == Generate!Init => ListInv
<1> SUFFICES ASSUME Generate!Init PROVE ListInv
  OBVIOUS
<1>1. Whole(instr_list, streams, 0) /\ Fresh(instr_list)
  BY StartWhole
<1>2. gen_phase = "insert" /\ j = 1 /\ branch_target = {}
  BY DEF Generate!Init
<1> QED BY <1>1, <1>2 DEF ListInv, Title

LEMMA ListInsert == ASSUME ListInv, Generate!InsertStream PROVE ListInv'
<1>1. gen_phase = "insert" /\ gen_phase' = "insert" /\ j' = j /\ branch_target' = branch_target
  BY DEF Generate!InsertStream
<1>2. Whole(instr_list, streams, 0) /\ Fresh(instr_list) /\ j = 1 /\ branch_target = {}
  BY <1>1 DEF ListInv, Title
<1>3. PICK kind \in Kinds, at \in Generate!Places(instr_list) :
        \E new \in Generate!StreamsOf(kind, Len(streams) + 1) :
          /\ instr_list' = WithInserted(instr_list, new, at)
          /\ streams' = Append(streams, kind)
  BY DEF Generate!InsertStream, WithInserted
<1>4. at \in 1 .. Len(instr_list) /\ ~instr_list[at].atomic
  <2>1. instr_list \in Seq(Entry)
    BY <1>2 DEF Whole
  <2> QED BY <2>1 DEF Generate!Places
<1>5. Whole(instr_list', streams', 0) /\ Fresh(instr_list')
  BY <1>2, <1>3, <1>4, InsertWhole
<1> QED BY <1>1, <1>2, <1>5 DEF ListInv, Title

LEMMA LabelsCounted ==
  ASSUME Whole(instr_list, streams, 0), Fresh(instr_list)
  PROVE  /\ DOMAIN instr_list = 1 .. Len(instr_list)
         /\ \A k \in 1 .. Len(instr_list) :
              Generate!Numbered(instr_list[k]) <=> instr_list[k].stream = 0
         /\ \A k \in 0 .. Len(instr_list) : Generate!LabelsUpTo(k) = Number(instr_list, k)
<1>1. instr_list \in Seq(Entry) /\ Len(instr_list) \in Nat
  BY DEF Whole
<1>2. ASSUME NEW k \in 1 .. Len(instr_list)
      PROVE  Generate!Numbered(instr_list[k]) <=> instr_list[k].stream = 0
  BY AtomicInStream DEF Generate!Numbered, Fresh
<1>3. ASSUME NEW k \in 0 .. Len(instr_list)
      PROVE  Generate!LabelsUpTo(k) = Number(instr_list, k)
  <2>1. \A m \in 1 .. k : m \in 1 .. Len(instr_list)
    BY <1>1
  <2>2. {m \in 1 .. k : Generate!Numbered(instr_list[m])}
          = {m \in 1 .. k : instr_list[m].stream = 0}
    BY <1>2, <2>1
  <2>3. Generate!LabelsUpTo(k) = Cardinality({m \in 1 .. k : Generate!Numbered(instr_list[m])})
    BY DEF Generate!LabelsUpTo, Generate!Cardinality, Cardinality, Generate!IsFiniteSet, IsFiniteSet
  <2>4. Number(instr_list, k) = Cardinality({m \in 1 .. k : instr_list[m].stream = 0})
    BY DEF Number
  <2> QED BY <2>2, <2>3, <2>4
<1>4. DOMAIN instr_list = 1 .. Len(instr_list)
  BY <1>1
<1> QED BY <1>2, <1>3, <1>4

LEMMA ListAssign == ASSUME ListInv, Generate!AssignLabels PROVE ListInv'
<1>1. /\ gen_phase = "insert" /\ gen_phase' = "target" /\ j' = j
      /\ branch_target' = branch_target /\ streams' = streams
  BY DEF Generate!AssignLabels
<1>2. Whole(instr_list, streams, 0) /\ Fresh(instr_list) /\ j = 1 /\ branch_target = {}
  BY <1>1 DEF ListInv, Title
<1>3. instr_list \in Seq(Entry) /\ Len(instr_list) \in Nat
  BY <1>2 DEF Whole
<1>4. instr_list' = Relabelled(instr_list)
  <2> DEFINE new(k) == IF Generate!Numbered(instr_list[k])
                         THEN [instr_list[k] EXCEPT !.label = Generate!LabelsUpTo(k - 1),
                                                    !.numeric = TRUE]
                         ELSE instr_list[k]
  <2>1. instr_list' = [k \in DOMAIN instr_list |-> new(k)]
    BY DEF Generate!AssignLabels
  <2>2. ASSUME NEW k \in 1 .. Len(instr_list)
        PROVE  new(k) = IF instr_list[k].stream = 0
                          THEN WithLabel(instr_list[k], Number(instr_list, k - 1))
                          ELSE instr_list[k]
    <3>1. k - 1 \in 0 .. Len(instr_list)
      BY <1>3
    <3>2. Generate!LabelsUpTo(k - 1) = Number(instr_list, k - 1)
      BY <1>2, <3>1, LabelsCounted
    <3>3. Generate!Numbered(instr_list[k]) <=> instr_list[k].stream = 0
      BY <1>2, LabelsCounted
    <3> QED BY <3>2, <3>3 DEF WithLabel
  <2> HIDE DEF new
  <2>3. DOMAIN instr_list = 1 .. Len(instr_list)
    BY <1>3
  <2> QED BY <2>1, <2>2, <2>3 DEF Relabelled
<1>5. label_idx' = Number(instr_list, Len(instr_list))
  <2>1. Len(instr_list) \in 0 .. Len(instr_list)
    BY <1>3
  <2>2. label_idx' = Generate!LabelsUpTo(Len(instr_list))
    BY DEF Generate!AssignLabels
  <2> QED BY <1>2, <2>1, <2>2, LabelsCounted
<1>6. /\ Whole(instr_list', streams, 0)
      /\ Labels(instr_list', Number(instr_list, Len(instr_list)), {}, 1, 0)
  BY <1>2, <1>4, LabelsAssigned
<1> QED BY <1>1, <1>2, <1>5, <1>6 DEF ListInv, Title

LEMMA ListTarget == ASSUME ListInv, Generate!AssignTarget PROVE ListInv'
<1> DEFINE l == instr_list
           e == instr_list[j]
<1>1. /\ gen_phase = "target" /\ gen_phase' = "target" /\ j' = j + 1 /\ j <= Len(l)
      /\ label_idx' = label_idx /\ streams' = streams
  BY DEF Generate!AssignTarget
<1>2. Whole(l, streams, 0) /\ Labels(l, label_idx, branch_target, j, 0)
  BY <1>1 DEF ListInv, Title
<1>3. /\ l \in Seq(Entry) /\ Len(l) \in Nat /\ j \in 1 .. Len(l) /\ j \in Nat \ {0} /\ e \in Entry
      /\ label_idx = Number(l, Len(l)) /\ branch_target \subseteq 0 .. label_idx - 1
  <2>1. l \in Seq(Entry) /\ j \in Nat \ {0} /\ Len(l) \in Nat
    BY <1>2 DEF Whole, Labels
  <2>2. label_idx = Number(l, Len(l)) /\ branch_target \subseteq 0 .. label_idx - 1
    BY <1>2 DEF Labels
  <2>3. j \in 1 .. Len(l)
    BY <1>1, <2>1
  <2> QED BY <2>1, <2>2, <2>3
<1>4. /\ Number(l, j - 1) \in Nat /\ label_idx \in Nat
  <2>1. j - 1 \in Nat
    BY <1>3
  <2> QED BY <1>3, <2>1, NumberFinite
<1>5. /\ e.stream # 0 => ~e.numeric /\ e.kind # "branch"
      /\ e.stream = 0 =>
           /\ e.numeric /\ e.label = Number(l, j - 1) /\ e.has_label
           /\ e.target # -1 =>
                /\ e.kind = "branch" /\ e.target \in branch_target /\ e.target > Number(l, j - 1)
  <2>1. e.stream # 0 => ~e.numeric /\ e.kind # "branch"
    BY <1>2, <1>3, AtomicInStream
  <2>2. j # 0 /\ j >= j
    BY <1>3
  <2> QED BY <1>2, <1>3, <2>1, <2>2 DEF Labels
<1>6. CASE e.kind = "branch"
  <2>1. PICK step \in 1 .. max_branch_step :
          LET target == IF e.label + step >= label_idx THEN label_idx - 1 ELSE e.label + step
          IN  /\ branch_target' = branch_target \cup {target}
              /\ instr_list' = [instr_list EXCEPT ![j].target = target,
                                  ![j].has_label = Generate!Kept(e, branch_target')]
    BY <1>6 DEF Generate!AssignTarget
  <2> DEFINE target == IF e.label + step >= label_idx THEN label_idx - 1 ELSE e.label + step
             kept == Generate!Kept(e, branch_target')
             new == WithTarget(e, target, kept)
  <2>2. e.stream = 0 /\ Number(l, j - 1) + 1 < label_idx
    BY <1>2, <1>3, <1>6, BranchAhead
  <2>3. target \in 0 .. label_idx - 1 /\ target > Number(l, j - 1) /\ target \in Int
    <3>1. step \in Nat /\ step >= 1
      BY GeneratorAssumption
    <3>2. e.label = Number(l, j - 1)
      BY <1>5, <2>2
    <3> QED BY <1>4, <2>2, <3>1, <3>2
  <2>4. branch_target' = branch_target \cup {target}
    BY <2>1
  <2> HIDE DEF target
  <2>5. kept \in BOOLEAN /\ (kept <=> e.label \in branch_target')
    BY <1>5, <2>2 DEF Generate!Kept
  <2>6. instr_list' = [l EXCEPT ![j] = new]
    <3>1. instr_list' = [l EXCEPT ![j].target = target, ![j].has_label = kept]
      BY <2>1 DEF target
    <3> HIDE DEF kept
    <3> QED BY <1>3, <3>1 DEF WithTarget
  <2> HIDE DEF kept
  <2>7. /\ new \in Entry /\ new.has_label = kept /\ new.label = e.label
        /\ new.stream = e.stream /\ new.atomic = e.atomic /\ new.dir = e.dir
        /\ new.kind = e.kind /\ new.target = target /\ new.numeric = e.numeric
    BY <1>3, <2>3, <2>5, EntryTargeted
  <2>8. branch_target' \in SUBSET (0 .. label_idx - 1)
    BY <1>3, <2>3, <2>4
  <2>9. /\ branch_target \subseteq branch_target' /\ target \in branch_target'
        /\ \A v \in branch_target' : v \in branch_target \/ v > Number(l, j - 1)
    BY <2>3, <2>4
  <2> HIDE DEF new
  <2>10. /\ e.stream = 0 => /\ new.stream = 0 /\ new.atomic = e.atomic /\ new.dir = e.dir
                             /\ new.kind = e.kind /\ new.label = e.label /\ new.numeric
                             /\ new.has_label <=> e.label \in branch_target'
                             /\ new.target = target
         /\ e.kind # "op"
    BY <1>5, <1>6, <2>2, <2>5, <2>7
  <2>12. Turn(l, label_idx, branch_target, j, new, target, branch_target')
    <3>1. /\ l[j].stream = 0 /\ l[j].kind = "branch" /\ new.target = target
          /\ new \in Entry /\ target > Number(l, j - 1) /\ target \in branch_target'
      BY <1>6, <2>2, <2>3, <2>7, <2>9
    <3>2. /\ new.stream = 0 /\ new.atomic = l[j].atomic /\ new.dir = l[j].dir
          /\ new.kind = l[j].kind /\ new.label = l[j].label /\ new.numeric
          /\ new.has_label <=> l[j].label \in branch_target'
      BY <1>5, <2>2, <2>5, <2>7
    <3> QED BY <2>8, <2>9, <3>1, <3>2 DEF Turn
  <2>11. /\ Whole(instr_list', streams, 0)
         /\ Labels(instr_list', label_idx, branch_target', j + 1, 0)
    BY <1>2, <1>3, <2>6, <2>12, TurnTaken
  <2> QED BY <1>1, <2>11 DEF ListInv, Title
<1>7. CASE e.kind # "branch"
  <2> DEFINE kept == Generate!Kept(e, branch_target)
             new == WithKept(e, kept)
  <2>1. /\ instr_list' = [l EXCEPT ![j].has_label = kept] /\ branch_target' = branch_target
    BY <1>7 DEF Generate!AssignTarget
  <2>2. /\ kept \in BOOLEAN
        /\ e.stream = 0 => (kept <=> e.label \in branch_target)
        /\ e.stream # 0 => kept = e.has_label
    <3>1. e.has_label \in BOOLEAN
      BY <1>3 DEF Entry
    <3> QED BY <1>5, <3>1 DEF Generate!Kept
  <2> HIDE DEF kept
  <2>3. instr_list' = [l EXCEPT ![j] = new]
    BY <1>3, <2>1 DEF WithKept
  <2>4. /\ new \in Entry /\ new.has_label = kept /\ new.label = e.label
        /\ new.stream = e.stream /\ new.atomic = e.atomic /\ new.dir = e.dir
        /\ new.kind = e.kind /\ new.target = e.target /\ new.numeric = e.numeric
        /\ e.stream # 0 => new = e
    BY <1>3, <2>2, EntryKept
  <2> HIDE DEF new
  <2>5. branch_target \in SUBSET (0 .. label_idx - 1) /\ e.target \in Int
    BY <1>3 DEF Entry
  <2>6. /\ e.stream = 0 => /\ new.stream = 0 /\ new.atomic = e.atomic /\ new.dir = e.dir
                            /\ new.kind = e.kind /\ new.label = e.label /\ new.numeric
                            /\ new.has_label <=> e.label \in branch_target
                            /\ new.target = e.target
    BY <1>5, <2>2, <2>4
  <2>8. Turn(l, label_idx, branch_target, j, new, e.target, branch_target)
    BY <1>5, <2>4, <2>5, <2>6 DEF Turn
  <2>7. /\ Whole(instr_list', streams, 0)
        /\ Labels(instr_list', label_idx, branch_target, j + 1, 0)
    BY <1>2, <1>3, <2>3, <2>8, TurnTaken
  <2> QED BY <1>1, <2>1, <2>7 DEF ListInv, Title
<1> QED BY <1>6, <1>7

LEMMA ListTitle == ASSUME ListInv, Generate!GenerateInstrStream PROVE ListInv'
<1>1. /\ gen_phase = "target" /\ gen_phase' = "run" /\ j' = j /\ label_idx' = label_idx
      /\ branch_target' = branch_target /\ streams' = streams
  BY DEF Generate!GenerateInstrStream
<1>2. Whole(instr_list, streams, 0) /\ Labels(instr_list, label_idx, branch_target, j, 0)
  BY <1>1 DEF ListInv, Title
<1>3. instr_list \in Seq(Entry) /\ 1 \in 1 .. Len(instr_list)
  BY <1>2 DEF Whole
<1>4. instr_list' = [instr_list EXCEPT ![1] = Titled(instr_list[1])]
  BY <1>3 DEF Generate!GenerateInstrStream, Generate!NoLabel, Titled
<1>5. /\ Whole(instr_list', streams, 1)
      /\ Labels(instr_list', label_idx, branch_target, j, 1)
  BY <1>2, <1>4, FirstTitled
<1> QED BY <1>1, <1>5 DEF ListInv, Title

LEMMA ListStays ==
  ASSUME ListInv, UNCHANGED <<instr_list, streams, j, label_idx, branch_target>>,
         gen_phase' = gen_phase \/ (gen_phase = "run" /\ gen_phase' = "end")
  PROVE  ListInv'
BY DEF ListInv, Title

LEMMA ListNext == ASSUME ListInv, Generate!Next PROVE ListInv'
<1>1. CASE Generate!InsertStream
  BY <1>1, ListInsert
<1>2. CASE Generate!AssignLabels
  BY <1>2, ListAssign
<1>3. CASE Generate!AssignTarget
  BY <1>3, ListTarget
<1>4. CASE Generate!GenerateInstrStream
  BY <1>4, ListTitle
<1>5. CASE Generate!Execute
  BY <1>5, ListStays DEF Generate!Execute
<1>6. CASE Generate!Finish
  BY <1>6, ListStays DEF Generate!Finish
<1>7. CASE Generate!Ended
  BY <1>7, ListStays DEF Generate!Ended, Generate!vars
<1> QED BY <1>1, <1>2, <1>3, <1>4, <1>5, <1>6, <1>7 DEF Generate!Next

-----------------------------------------------------------------------------
(* Where the assembler takes a target: not beyond a label that is there.    *)
LEMMA ResolveAfter ==
  ASSUME instr_list \in Seq(Entry), NEW k \in 1 .. Len(instr_list), instr_list[k].dir = "f",
         NEW m \in 1 .. Len(instr_list), k < m, instr_list[m].has_label,
         instr_list[m].label = instr_list[k].target
  PROVE  \E r \in 1 .. Len(instr_list) :
           /\ r = Generate!Resolve(k) /\ k < r /\ r <= m
           /\ instr_list[r].has_label /\ instr_list[r].label = instr_list[k].target
<1> DEFINE after == {n \in {m2 \in DOMAIN instr_list :
                       instr_list[m2].has_label /\ instr_list[m2].label = instr_list[k].target} :
                       n > k}
<1>1. DOMAIN instr_list = 1 .. Len(instr_list) /\ k \in Int /\ m \in Int
  OBVIOUS
<1>2. m \in after /\ after \subseteq Nat /\ after # {}
  BY <1>1
<1>3. \A n \in after : /\ n \in 1 .. Len(instr_list) /\ k < n /\ n \in Int
                       /\ instr_list[n].has_label /\ instr_list[n].label = instr_list[k].target
  BY <1>1
<1>4. Generate!Resolve(k) = CHOOSE n \in after : \A n2 \in after : n <= n2
  BY <1>2 DEF Generate!Resolve
<1> HIDE DEF after
<1>5. \E n \in after : \A n2 \in after : n <= n2
  BY <1>2, LeastElement
<1>6. Generate!Resolve(k) \in after /\ \A n2 \in after : Generate!Resolve(k) <= n2
  BY <1>4, <1>5
<1> QED BY <1>2, <1>3, <1>6

LEMMA ResolveBefore ==
  ASSUME instr_list \in Seq(Entry), NEW k \in 1 .. Len(instr_list), instr_list[k].dir = "b",
         NEW m \in 1 .. Len(instr_list), m <= k, instr_list[m].has_label,
         instr_list[m].label = instr_list[k].target
  PROVE  \E r \in 1 .. Len(instr_list) :
           /\ r = Generate!Resolve(k) /\ r <= k /\ m <= r
           /\ instr_list[r].has_label /\ instr_list[r].label = instr_list[k].target
<1> DEFINE before == {n \in {m2 \in DOMAIN instr_list :
                        instr_list[m2].has_label /\ instr_list[m2].label = instr_list[k].target} :
                        n <= k}
           T == {k - n : n \in before}
<1>1. DOMAIN instr_list = 1 .. Len(instr_list) /\ k \in Int /\ m \in Int
  OBVIOUS
<1>2. m \in before
  BY <1>1
<1>3. \A n \in before : /\ n \in 1 .. Len(instr_list) /\ n <= k /\ n \in Int
                        /\ instr_list[n].has_label /\ instr_list[n].label = instr_list[k].target
  BY <1>1
<1>4. Generate!Resolve(k) = CHOOSE n \in before : \A n2 \in before : n2 <= n
  <2>1. before # {} /\ instr_list[k].dir # "f"
    BY <1>2
  <2> QED BY <2>1 DEF Generate!Resolve
<1> HIDE DEF before
<1>5. \E n \in before : \A n2 \in before : n2 <= n
  <2>1. T \subseteq Nat /\ T # {}
    BY <1>1, <1>2, <1>3
  <2>2. PICK t \in T : \A t2 \in T : t <= t2
    <3> HIDE DEF T
    <3> QED BY <2>1, LeastElement
  <2>3. PICK n \in before : t = k - n
    BY <2>2
  <2>4. ASSUME NEW n2 \in before PROVE n2 <= n
    <3>1. k - n <= k - n2
      BY <2>2, <2>3
    <3> QED BY <1>1, <1>3, <3>1
  <2> QED BY <2>4
<1>6. Generate!Resolve(k) \in before /\ \A n2 \in before : n2 <= Generate!Resolve(k)
  BY <1>4, <1>5
<1> QED BY <1>2, <1>3, <1>6

(* A stream of jumps in the list: each goes where its order says.           *)
JumpAt(e, s, order, q) ==
  /\ e.stream = s /\ e.pos = q
  /\ e.kind = IF q = JumpCnt + 2 THEN "op" ELSE "jump"
  /\ q # 1 => e.has_label /\ e.label = q - 2
  /\ q # JumpCnt + 2 => e.target = JumpTarget(order, q) /\ e.dir = JumpDir(order, q)
  /\ q = JumpCnt + 2 => e.target = -1

LEMMA JalPiece ==
  ASSUME NEW l \in Seq(Entry), NEW base, NEW title \in {0, 1}, NEW s \in Nat \ {0},
         NEW order \in Generate!Orders, NEW new, new = Generate!Jal(s, order),
         Members(new, "jal", s), Laid(l, base, new, title)
  PROVE  /\ base \in Nat /\ Len(new) = JumpCnt + 2 /\ base + (JumpCnt + 2) <= Len(l)
         /\ \A q \in 1 .. JumpCnt + 2 :
              base + q \in 1 .. Len(l) /\ JumpAt(l[base + q], s, order, q)
<1>1. Len(new) = JumpCnt + 2
  BY JalShape
<1>2. base \in Nat /\ base + (JumpCnt + 2) <= Len(l)
  BY <1>1 DEF Laid
<1>3. ASSUME NEW q \in 1 .. JumpCnt + 2
      PROVE  base + q \in 1 .. Len(l) /\ JumpAt(l[base + q], s, order, q)
  <2>1. q \in 1 .. Len(new) /\ s \in Nat
    BY <1>1
  <2>2. /\ base + q \in 1 .. Len(l) /\ l[base + q].stream = s /\ l[base + q].pos = q
        /\ l[base + q].kind = new[q].kind /\ l[base + q].target = new[q].target
        /\ l[base + q].dir = new[q].dir
        /\ base + q # title =>
             l[base + q].has_label = new[q].has_label /\ l[base + q].label = new[q].label
    BY <2>1, PieceMember
  <2>3. JalMember(new[q], s, order, q)
    BY JalShape
  <2>4. q # 1 => base + q # title /\ JumpLabel(s, q) = q - 2
    BY <1>2 DEF JumpLabel
  <2> QED BY <2>2, <2>3, <2>4 DEF JalMember, JumpAt
<1> QED BY <1>1, <1>2, <1>3

LEMMA JumpResolves ==
  ASSUME instr_list \in Seq(Entry), NEW base, NEW title \in {0, 1}, NEW s \in Nat \ {0},
         NEW order \in Generate!Orders, NEW new, new = Generate!Jal(s, order),
         Members(new, "jal", s), Laid(instr_list, base, new, title),
         NEW q \in 1 .. JumpCnt + 1
  PROVE  Generate!Resolve(base + q) = base + (JumpTarget(order, q) + 2)
<1> DEFINE t == JumpTarget(order, q)
           l == instr_list
<1>1. JumpCnt \in Nat \ {0} /\ t \in 0 .. JumpCnt /\ t + 2 # q /\ t + 2 \in 1 .. JumpCnt + 2
      /\ q \in 1 .. JumpCnt + 2 /\ q # JumpCnt + 2 /\ t + 2 # 1 /\ (t + 2) - 2 = t
  <2>1. JumpCnt \in Nat \ {0} /\ t \in 0 .. JumpCnt /\ t + 2 # q
    BY EachTarget, GeneratorAssumption
  <2> HIDE DEF t
  <2> QED BY <2>1
<1>2. /\ base \in Nat
      /\ \A r \in 1 .. JumpCnt + 2 :
           /\ base + r \in 1 .. Len(l)
           /\ r # 1 => l[base + r].has_label /\ l[base + r].label = r - 2
      /\ l[base + q].target = t /\ l[base + q].dir = IF t + 2 > q THEN "f" ELSE "b"
  <2>1. /\ base \in Nat
        /\ \A r \in 1 .. JumpCnt + 2 :
             base + r \in 1 .. Len(l) /\ JumpAt(l[base + r], s, order, r)
    BY JalPiece
  <2> QED BY <1>1, <2>1 DEF JumpAt, JumpDir
<1> HIDE DEF t
<1>3. base + q \in 1 .. Len(l) /\ base + (t + 2) \in 1 .. Len(l)
      /\ l[base + (t + 2)].has_label /\ l[base + (t + 2)].label = t
  BY <1>1, <1>2
(* No other label of that number is between the two.                        *)
<1>4. ASSUME NEW r \in 1 .. Len(l), l[r].label = t,
             \/ base + q < r /\ r <= base + (t + 2)
             \/ base + (t + 2) <= r /\ r <= base + q
      PROVE  r = base + (t + 2)
  <2>1. /\ r - base \in 1 .. JumpCnt + 2 /\ r - base # 1 /\ base + (r - base) = r
    BY <1>1, <1>2, <1>4
  <2>2. l[base + (r - base)].label = (r - base) - 2
    BY <1>2, <2>1
  <2> QED BY <1>1, <1>2, <1>4, <2>1, <2>2
<1>5. CASE t + 2 > q
  <2>1. base + q < base + (t + 2) /\ l[base + q].dir = "f"
    BY <1>1, <1>2, <1>5
  <2>2. PICK r \in 1 .. Len(l) :
          /\ r = Generate!Resolve(base + q) /\ base + q < r /\ r <= base + (t + 2)
          /\ l[r].label = l[base + q].target
    BY <1>2, <1>3, <2>1, ResolveAfter
  <2> QED BY <1>2, <1>4, <2>2 DEF t
<1>6. CASE ~(t + 2 > q)
  <2>1. base + (t + 2) <= base + q /\ l[base + q].dir = "b"
    BY <1>1, <1>2, <1>6
  <2>2. PICK r \in 1 .. Len(l) :
          /\ r = Generate!Resolve(base + q) /\ r <= base + q /\ base + (t + 2) <= r
          /\ l[r].label = l[base + q].target
    BY <1>2, <1>3, <2>1, ResolveBefore
  <2> QED BY <1>2, <1>4, <2>2 DEF t
<1> QED BY <1>5, <1>6

(* The list of a finished program.                                          *)
Finished ==
  /\ Whole(instr_list, streams, 1)
  /\ \E n, targets, jj : Labels(instr_list, n, targets, jj, 1)

LEMMA BranchResolves ==
  ASSUME Finished, NEW k \in 1 .. Len(instr_list), instr_list[k].stream = 0,
         instr_list[k].target # -1
  PROVE  \E r \in 1 .. Len(instr_list) :
           /\ r = Generate!Resolve(k) /\ k < r /\ instr_list[k].kind = "branch"
           /\ ~instr_list[r].atomic \/ streams[instr_list[r].stream] = "jal"
<1> DEFINE l == instr_list
           t == l[k].target
<1>1. Whole(l, streams, 1) /\ l \in Seq(Entry) /\ Len(l) \in Nat /\ k \in Nat \ {0} /\ k - 1 \in Nat
  BY DEF Finished, Whole
<1>2. PICK n, targets, jj : Labels(l, n, targets, jj, 1)
  BY DEF Finished
<1>3. /\ l[k].kind = "branch" /\ t \in targets /\ t > Number(l, k - 1) /\ t \in 0 .. n - 1
      /\ n = Number(l, Len(l))
  BY <1>2 DEF Labels
<1>4. PICK m \in 1 .. Len(l) : l[m].stream = 0 /\ Number(l, m - 1) = t
  <2>1. t \in 0 .. Number(l, Len(l)) - 1
    BY <1>3
  <2> HIDE DEF t
  <2> QED BY <1>1, <2>1, EachNumber
<1>5. k < m /\ m # 1 /\ m \in Nat \ {0}
  <2>1. m \in Nat \ {0} /\ m - 1 \in Nat
    BY <1>1
  <2>2. m <= k => Number(l, m - 1) <= Number(l, k - 1)
    BY <1>1, <2>1, NumberOrder
  <2>3. Number(l, m - 1) \in Nat /\ Number(l, k - 1) \in Nat
    BY <1>1, <2>1, NumberFinite
  <2>4. ~(m <= k)
    BY <1>3, <1>4, <2>2, <2>3
  <2> QED BY <1>1, <2>1, <2>4
<1>6. l[m].has_label /\ l[m].label = t
  BY <1>2, <1>3, <1>4, <1>5 DEF Labels
<1>7. l[k].dir = "f"
  BY <1>1 DEF Whole, Randoms
<1>8. PICK r \in 1 .. Len(l) :
        /\ r = Generate!Resolve(k) /\ k < r /\ r <= m /\ l[r].has_label /\ l[r].label = t
  BY <1>1, <1>5, <1>6, <1>7, ResolveAfter
<1>9. CASE l[r].stream = 0
  <2>1. ~l[r].atomic
    BY <1>1, <1>9 DEF Whole, Randoms
  <2> QED BY <1>3, <1>8, <2>1
<1>10. CASE l[r].stream # 0
  <2> DEFINE s == l[r].stream
  <2>1. PICK new \in Generate!StreamsOf(streams[s], s), base \in Nat :
          /\ l[r].pos \in 1 .. Len(new) /\ r = base + l[r].pos
          /\ Members(new, streams[s], s) /\ Laid(l, base, new, 1)
    BY <1>1, <1>10, PieceOf
  <2>2. s \in 1 .. Len(streams) /\ Len(streams) \in Nat /\ s \in Nat
    BY <1>1, <1>10, PieceOf DEF Whole
  <2>3. PICK q \in 1 .. Len(new) : r = base + q
    BY <2>1
  <2>4. l[r].has_label = new[q].has_label /\ l[r].label = new[q].label
    <3>1. PICK title \in {0, 1} : title = 1
      OBVIOUS
    <3>3. base + q # title /\ Laid(l, base, new, title)
      BY <1>1, <1>8, <2>1, <2>3, <3>1
    <3>4. l \in Seq(Entry) /\ s \in Nat /\ Members(new, streams[s], s)
      BY <1>1, <2>1, <2>2
    <3> HIDE DEF s, t
    <3>2. l[base + q].has_label = new[q].has_label /\ l[base + q].label = new[q].label
      BY <2>3, <3>1, <3>3, <3>4, PieceLabel
    <3> QED BY <2>3, <3>2
  <2>5. t = -1 - s \/ (streams[s] = "jal" /\ t >= 0)
    BY <1>8, <2>1, <2>3, <2>4 DEF Members, Member
  <2>6. streams[s] = "jal"
    BY <1>3, <2>2, <2>5
  <2> QED BY <1>3, <1>8, <2>6
<1> QED BY <1>9, <1>10

(* The jumps and the branch of a stream stay in it.                         *)
LEMMA StreamResolves ==
  ASSUME Finished, NEW k \in 1 .. Len(instr_list), instr_list[k].stream # 0,
         instr_list[k].target # -1
  PROVE  \E r \in 1 .. Len(instr_list) :
           /\ r = Generate!Resolve(k) /\ instr_list[k].kind # "branch"
           /\ instr_list[r].stream = instr_list[k].stream
<1> DEFINE l == instr_list
           s == l[k].stream
           q == l[k].pos
<1>1. Whole(l, streams, 1) /\ l \in Seq(Entry) /\ Len(l) \in Nat /\ l[k].kind # "branch"
  BY AtomicInStream DEF Finished, Whole
<1>2. PICK new \in Generate!StreamsOf(streams[s], s), base \in Nat :
        /\ q \in 1 .. Len(new) /\ k = base + q
        /\ Members(new, streams[s], s) /\ Laid(l, base, new, 1)
  BY <1>1, PieceOf
<1>3. s \in Nat \ {0} /\ streams[s] \in {"plain", "jal", "loop"}
  <2>1. s \in 1 .. Len(streams) /\ streams[s] \in Kinds /\ Len(streams) \in Nat
    BY <1>1, PieceOf DEF Whole
  <2> QED BY <2>1, GeneratorAssumption
<1>4. l[k].target = new[q].target /\ l[k].dir = new[q].dir
  BY <1>1, <1>2, <1>3, PieceMember
<1>5. CASE streams[s] = "plain"
  <2>1. new = Generate!Plain(s)
    BY <1>2, <1>5 DEF Generate!StreamsOf
  <2> QED BY <1>2, <1>3, <1>4, <2>1, PlainShape
<1>6. CASE streams[s] = "jal"
  <2>1. PICK order \in Generate!Orders : new = Generate!Jal(s, order)
    BY <1>2, <1>6 DEF Generate!StreamsOf
  <2>2. /\ Len(new) = JumpCnt + 2
        /\ \A r \in 1 .. JumpCnt + 2 :
             base + r \in 1 .. Len(l) /\ JumpAt(l[base + r], s, order, r)
    BY <1>1, <1>2, <1>3, <1>6, <2>1, JalPiece
  <2>3. q \in 1 .. JumpCnt + 1 /\ JumpCnt \in Nat
    <3>1. q # JumpCnt + 2 /\ JumpCnt \in Nat
      BY <1>2, <2>2, GeneratorAssumption DEF JumpAt
    <3> QED BY <1>2, <2>2, <3>1
  <2>4. JumpTarget(order, q) + 2 \in 1 .. JumpCnt + 2
    <3>1. JumpTarget(order, q) \in 0 .. JumpCnt
      BY <2>3, EachTarget
    <3> QED BY <2>3, <3>1
  <2>5. Generate!Resolve(k) = base + (JumpTarget(order, q) + 2)
    <3>1. Members(new, "jal", s) /\ Laid(instr_list, base, new, 1) /\ instr_list \in Seq(Entry)
      BY <1>1, <1>2, <1>6
    <3> HIDE DEF s, q
    <3>2. Generate!Resolve(base + q) = base + (JumpTarget(order, q) + 2)
      BY <1>3, <2>1, <2>3, <3>1, JumpResolves
    <3> QED BY <1>2, <3>2
  <2> QED BY <1>1, <2>2, <2>4, <2>5 DEF JumpAt
<1>7. CASE streams[s] = "loop"
  <2>1. new \in Generate!StreamsOf("loop", s)
    BY <1>2, <1>7
  <2>2. /\ Len(new) = 7 /\ \A r \in 1 .. 7 : r # 6 => new[r].target = -1
        /\ new[6].target = -1 - s /\ new[6].dir = "b"
        /\ new[3].has_label /\ new[3].label = -1 - s
    BY <1>3, <2>1, LoopShape
  <2>3. q = 6 /\ l[k].target = -1 - s /\ l[k].dir = "b"
    BY <1>2, <1>4, <2>2
  <2>4. ASSUME NEW r \in 1 .. 7 PROVE base + r \in 1 .. Len(l) /\ l[base + r].stream = s
    <3>1. r \in 1 .. Len(new) /\ s \in Nat
      BY <1>3, <2>2
    <3> QED BY <1>1, <1>2, <3>1, PieceMember
  <2>5. 3 \in 1 .. 7 /\ base + 3 # 1 /\ base + 3 <= k /\ k = base + 6 /\ 3 \in 1 .. Len(new)
    BY <1>2, <2>2, <2>3
  <2>6. base + 3 \in 1 .. Len(l) /\ l[base + 3].has_label /\ l[base + 3].label = -1 - s
    <3>1. s \in Nat
      BY <1>3
    <3>2. l[base + 3].has_label = new[3].has_label /\ l[base + 3].label = new[3].label
      BY <1>1, <1>2, <2>5, <3>1, PieceLabel
    <3> QED BY <2>2, <2>4, <2>5, <3>2
  <2>7. PICK r \in 1 .. Len(l) : r = Generate!Resolve(k) /\ r <= k /\ base + 3 <= r
    BY <1>1, <2>3, <2>5, <2>6, ResolveBefore
  <2>8. r - base \in 1 .. 7 /\ base + (r - base) = r
    BY <2>5, <2>7
  <2>9. l[r].stream = s
    BY <2>4, <2>8
  <2> QED BY <1>1, <2>7, <2>9
<1> QED BY <1>3, <1>5, <1>6, <1>7

LEMMA ResolvesSafe ==
  ASSUME ListInv
  PROVE  Generate!TargetsResolve
<1> SUFFICES ASSUME Generate!Running, NEW k \in DOMAIN instr_list,
                    instr_list[k].target # Generate!NoLabel
             PROVE  /\ Generate!Resolve(k) # 0
                    /\ IF instr_list[k].kind = "branch"
                         THEN /\ Generate!Resolve(k) > k
                              /\ ~instr_list[Generate!Resolve(k)].atomic
                                   \/ streams[instr_list[Generate!Resolve(k)].stream] = "jal"
                         ELSE Generate!Same(k, Generate!Resolve(k))
  BY DEF Generate!TargetsResolve
<1>1. Finished
  BY DEF ListInv, Title, Finished, Generate!Running
<1>2. instr_list \in Seq(Entry) /\ k \in 1 .. Len(instr_list) /\ instr_list[k].target # -1
  BY <1>1 DEF Finished, Whole, Generate!NoLabel
<1>3. DOMAIN instr_list = 1 .. Len(instr_list) /\ k \in Int
  BY <1>2
<1>4. CASE instr_list[k].stream = 0
  <2>1. PICK r \in 1 .. Len(instr_list) :
          /\ r = Generate!Resolve(k) /\ k < r /\ instr_list[k].kind = "branch"
          /\ ~instr_list[r].atomic \/ streams[instr_list[r].stream] = "jal"
    BY <1>1, <1>2, <1>4, BranchResolves
  <2>2. r # 0 /\ r > k
    BY <1>3, <2>1
  <2> QED BY <2>1, <2>2
<1>5. CASE instr_list[k].stream # 0
  <2>1. PICK r \in 1 .. Len(instr_list) :
          /\ r = Generate!Resolve(k) /\ instr_list[k].kind # "branch"
          /\ instr_list[r].stream = instr_list[k].stream
    BY <1>1, <1>2, <1>5, StreamResolves
  <2>2. r # 0
    OBVIOUS
  <2> QED BY <1>2, <1>3, <1>5, <2>1, <2>2 DEF Generate!Same
<1> QED BY <1>4, <1>5

LEMMA StreamsSafe == ASSUME ListInv PROVE Generate!StreamsWhole
<1> DEFINE l == instr_list
<1> SUFFICES ASSUME NEW k \in 2 .. Len(l), l[k].stream # 0, l[k].pos > 1
             PROVE  Generate!Same(k - 1, k) /\ l[k - 1].pos = l[k].pos - 1
  BY DEF Generate!StreamsWhole
<1> DEFINE s == l[k].stream
<1>1. PICK title \in {0, 1} : Whole(l, streams, title)
  BY DEF ListInv, Title
<1>2. l \in Seq(Entry) /\ Len(l) \in Nat
  BY <1>1 DEF Whole
<1>3. k \in 1 .. Len(l) /\ k - 1 \in 1 .. Len(l) /\ DOMAIN l = 1 .. Len(l)
  BY <1>2
<1>4. PICK new \in Generate!StreamsOf(streams[s], s), base \in Nat :
        /\ l[k].pos \in 1 .. Len(new) /\ k = base + l[k].pos
        /\ Members(new, streams[s], s) /\ Laid(l, base, new, title)
  BY <1>1, <1>3, PieceOf
<1>5. s \in Nat /\ Len(new) \in Nat
  <2>1. l[k] \in Entry
    BY <1>2, <1>3
  <2>2. Len(new) \in 1 .. JumpCnt + 7 /\ JumpCnt \in Nat
    BY <1>4, GeneratorAssumption DEF Members
  <2>3. s \in Nat
    BY <2>1 DEF Entry
  <2> QED BY <2>2, <2>3
<1>6. PICK q \in 1 .. Len(new) : q = l[k].pos - 1 /\ base + q = k - 1
  <2>1. l[k].pos - 1 \in 1 .. Len(new) /\ base + (l[k].pos - 1) = k - 1
    BY <1>4, <1>5
  <2> QED BY <2>1
<1>7. ASSUME NEW r \in 1 .. Len(new) PROVE l[base + r].stream = s /\ l[base + r].pos = r
  <2> HIDE DEF s, l
  <2> QED BY <1>1, <1>2, <1>4, <1>5, PieceMember
<1>8. l[k - 1].stream = s /\ l[k - 1].pos = l[k].pos - 1
  <2>1. l[base + q].stream = s /\ l[base + q].pos = q
    BY <1>6, <1>7
  <2> QED BY <1>6, <2>1
<1> QED BY <1>3, <1>8 DEF Generate!Same

-----------------------------------------------------------------------------
(* The run. What was visited is of the stream that is executed. A stream of *)
(* jumps entered at its first one has taken those its order begins with.    *)
JalIn(s, order, base) ==
  /\ s \in 1 .. Len(streams) /\ streams[s] = "jal"
  /\ Laid(instr_list, base, Generate!Jal(s, order), 1)
OnTour(order, base) ==
  \E n \in 0 .. JumpCnt :
    /\ visited = {base + 1} \cup {base + (order[m] + 2) : m \in 1 .. n}
    /\ pc = base + ((IF n = JumpCnt THEN JumpCnt ELSE order[n + 1]) + 2)
InStream ==
  visited # {} =>
    /\ pc \in 1 .. Len(instr_list) /\ instr_list[pc].stream # 0
    /\ \A v \in visited :
         v \in 1 .. Len(instr_list) /\ instr_list[v].stream = instr_list[pc].stream
Tours ==
  \A s \in Nat \ {0} : \A order \in Generate!Orders : \A base \in Nat :
    JalIn(s, order, base) =>
      /\ pc = base + 1 => visited = {}
      /\ base + 1 \in visited => OnTour(order, base)
RunInv ==
  /\ pc \in Nat \ {0}
  /\ gen_phase \in {"insert", "target"} => visited = {}
  /\ gen_phase = "run" => InStream /\ Tours

LEMMA JalFacts ==
  ASSUME Whole(instr_list, streams, 1), NEW s \in Nat \ {0}, NEW order \in Generate!Orders,
         NEW base, JalIn(s, order, base)
  PROVE  /\ base \in Nat
         /\ \A q \in 1 .. JumpCnt + 2 :
              base + q \in 1 .. Len(instr_list) /\ JumpAt(instr_list[base + q], s, order, q)
         /\ \A q \in 1 .. JumpCnt + 1 :
              Generate!Resolve(base + q) = base + (JumpTarget(order, q) + 2)
         /\ \A k \in 1 .. Len(instr_list) :
              instr_list[k].stream = s => \E q \in 1 .. JumpCnt + 2 : k = base + q
<1>0. PICK new : new = Generate!Jal(s, order)
  OBVIOUS
<1>1. instr_list \in Seq(Entry) /\ streams \in Seq(Kinds) /\ JumpCnt \in Nat
  BY GeneratorAssumption DEF Whole
<1>2. s \in 1 .. Len(streams) /\ streams[s] = "jal" /\ Laid(instr_list, base, new, 1)
  BY <1>0 DEF JalIn
<1>3. "jal" \in Kinds /\ new \in Generate!StreamsOf("jal", s)
  BY <1>0, <1>1, <1>2 DEF Generate!StreamsOf
<1>4. Members(new, "jal", s)
  BY <1>3, StreamMembers
<1>5. /\ base \in Nat
      /\ \A q \in 1 .. JumpCnt + 2 :
           base + q \in 1 .. Len(instr_list) /\ JumpAt(instr_list[base + q], s, order, q)
  BY <1>0, <1>1, <1>2, <1>4, JalPiece
<1>6. \A q \in 1 .. JumpCnt + 1 :
        Generate!Resolve(base + q) = base + (JumpTarget(order, q) + 2)
  BY <1>0, <1>1, <1>2, <1>4, JumpResolves
<1>7. ASSUME NEW k \in 1 .. Len(instr_list), instr_list[k].stream = s
      PROVE  \E q \in 1 .. JumpCnt + 2 : k = base + q
  <2>1. PICK piece \in Generate!StreamsOf("jal", s), base2 \in Nat :
          instr_list[k].pos \in 1 .. Len(piece) /\ k = base2 + instr_list[k].pos
    BY <1>2, <1>7, PieceOf
  <2>2. Len(piece) = JumpCnt + 2
    <3>1. PICK order2 \in Generate!Orders : piece = Generate!Jal(s, order2)
      BY <2>1 DEF Generate!StreamsOf
    <3> QED BY <3>1, JalShape
  <2>3. 1 \in 1 .. JumpCnt + 2
    BY <1>1
  <2>4. base + 1 \in 1 .. Len(instr_list) /\ instr_list[base + 1].stream = s
        /\ instr_list[base + 1].pos = 1
    BY <1>5, <2>3 DEF JumpAt
  <2>5. k - instr_list[k].pos = (base + 1) - instr_list[base + 1].pos
    BY <1>7, <2>4 DEF Whole, OnePiece
  <2>6. instr_list[k].pos \in 1 .. JumpCnt + 2 /\ k = base + instr_list[k].pos
    BY <1>1, <1>5, <2>1, <2>2, <2>4, <2>5
  <2> QED BY <2>6
<1> QED BY <1>5, <1>6, <1>7

LEMMA ResolveType ==
  ASSUME instr_list \in Seq(Entry), NEW k \in 1 .. Len(instr_list)
  PROVE  Generate!Resolve(k) \in 0 .. Len(instr_list)
<1> DEFINE at == {m \in DOMAIN instr_list :
                    instr_list[m].has_label /\ instr_list[m].label = instr_list[k].target}
<1>1. DOMAIN instr_list = 1 .. Len(instr_list) /\ Len(instr_list) \in Nat
      /\ instr_list[k].dir \in {"f", "b"}
  <2>1. instr_list[k] \in Entry
    OBVIOUS
  <2> QED BY <2>1 DEF Entry
<1>2. CASE instr_list[k].dir = "f" /\ \E m \in at : m > k
  BY <1>1, <1>2, ResolveAfter
<1>3. CASE instr_list[k].dir = "f" /\ ~(\E m \in at : m > k)
  <2>1. {m \in at : m > k} = {}
    BY <1>3
  <2>2. Generate!Resolve(k) = 0
    BY <1>3, <2>1 DEF Generate!Resolve
  <2> QED BY <1>1, <2>2
<1>4. CASE instr_list[k].dir = "b" /\ \E m \in at : m <= k
  BY <1>1, <1>4, ResolveBefore
<1>5. CASE instr_list[k].dir = "b" /\ ~(\E m \in at : m <= k)
  <2>1. {m \in at : m <= k} = {}
    BY <1>5
  <2>2. Generate!Resolve(k) = 0
    BY <1>5, <2>1 DEF Generate!Resolve
  <2> QED BY <1>1, <2>2
<1> QED BY <1>1, <1>2, <1>3, <1>4, <1>5

(* A step within a stream of jumps takes its next jump.                     *)
LEMMA JumpTaken ==
  ASSUME Whole(instr_list, streams, 1), NEW s \in Nat \ {0}, NEW order \in Generate!Orders,
         NEW base, JalIn(s, order, base), Generate!Execute, pc \in 1 .. Len(instr_list),
         Generate!Same(pc, pc'), instr_list[pc].stream = s
  PROVE  \E q \in 1 .. JumpCnt + 1 :
           pc = base + q /\ pc' = base + (JumpTarget(order, q) + 2)
<1>1. /\ base \in Nat
      /\ \A q \in 1 .. JumpCnt + 2 :
           base + q \in 1 .. Len(instr_list) /\ JumpAt(instr_list[base + q], s, order, q)
      /\ \A q \in 1 .. JumpCnt + 1 :
           Generate!Resolve(base + q) = base + (JumpTarget(order, q) + 2)
      /\ \A k \in 1 .. Len(instr_list) :
           instr_list[k].stream = s => \E q \in 1 .. JumpCnt + 2 : k = base + q
  BY JalFacts
<1>2. instr_list \in Seq(Entry) /\ JumpCnt \in Nat
  BY GeneratorAssumption DEF Whole
<1>3. PICK q \in 1 .. JumpCnt + 2 : pc = base + q
  BY <1>1
<1>4. pc' \in 1 .. Len(instr_list) /\ instr_list[pc'].stream = s
  BY <1>2 DEF Generate!Same
<1>5. pc' \in Generate!Goes(pc)
  BY DEF Generate!Execute
<1>6. CASE q = JumpCnt + 2
  <2>1. instr_list[pc].kind = "op"
    BY <1>1, <1>3, <1>6 DEF JumpAt
  <2>2. pc' = pc + 1
    BY <1>5, <2>1 DEF Generate!Goes
  <2>3. PICK r \in 1 .. JumpCnt + 2 : pc' = base + r
    BY <1>1, <1>4
  <2> QED BY <1>1, <1>2, <1>3, <1>6, <2>2, <2>3
<1>7. CASE q # JumpCnt + 2
  <2>1. instr_list[pc].kind = "jump" /\ q \in 1 .. JumpCnt + 1
    <3>1. JumpAt(instr_list[base + q], s, order, q)
      BY <1>1
    <3> QED BY <1>2, <1>3, <1>7, <3>1 DEF JumpAt
  <2>2. pc' = Generate!Resolve(pc)
    BY <1>5, <2>1 DEF Generate!Goes
  <2> QED BY <1>1, <1>3, <2>1, <2>2
<1> QED BY <1>6, <1>7

LEMMA TourGoesOn ==
  ASSUME NEW order \in Generate!Orders, NEW base \in Nat, OnTour(order, base),
         NEW q \in 1 .. JumpCnt + 1, pc = base + q,
         pc' = base + (JumpTarget(order, q) + 2), visited' = visited \cup {pc}
  PROVE  OnTour(order, base)'
<1>0. JumpCnt \in Nat \ {0} /\ q \in Int
  BY GeneratorAssumption
<1>1. PICK n \in 0 .. JumpCnt :
        /\ visited = {base + 1} \cup {base + (order[m] + 2) : m \in 1 .. n}
        /\ pc = base + ((IF n = JumpCnt THEN JumpCnt ELSE order[n + 1]) + 2)
  BY DEF OnTour
<1>2. n # JumpCnt
  BY <1>0, <1>1
<1>3. n + 1 \in 1 .. JumpCnt /\ n + 1 \in 0 .. JumpCnt /\ 1 .. n + 1 = (1 .. n) \cup {n + 1}
  BY <1>0, <1>2
<1>4. order[n + 1] \in 0 .. JumpCnt - 1
  BY <1>3, OrderOnto
<1>5. pc = base + (order[n + 1] + 2) /\ q = order[n + 1] + 2
  BY <1>0, <1>1, <1>2, <1>4
<1>6. JumpTarget(order, q) = IF n + 1 = JumpCnt THEN JumpCnt ELSE order[(n + 1) + 1]
  BY <1>3, <1>5, NextTarget
<1>7. visited' = {base + 1} \cup {base + (order[m] + 2) : m \in 1 .. n + 1}
  <2>1. {base + (order[m] + 2) : m \in 1 .. n + 1}
          = {base + (order[m] + 2) : m \in 1 .. n} \cup {pc}
    BY <1>3, <1>5
  <2> QED BY <1>1, <2>1
<1>8. pc' = base + ((IF n + 1 = JumpCnt THEN JumpCnt ELSE order[(n + 1) + 1]) + 2)
  BY <1>6
<1> QED BY <1>3, <1>7, <1>8 DEF OnTour

LEMMA RunExecute == ASSUME ListInv, RunInv, Generate!Execute PROVE RunInv'
<1>1. /\ gen_phase = "run" /\ gen_phase' = "run" /\ pc <= Len(instr_list)
      /\ instr_list' = instr_list /\ streams' = streams /\ pc' \in Generate!Goes(pc) \ {0}
      /\ visited' = IF Generate!Same(pc, pc') THEN visited \cup {pc} ELSE {}
  BY DEF Generate!Execute
<1>2. Whole(instr_list, streams, 1) /\ InStream /\ Tours /\ pc \in Nat \ {0}
  BY <1>1 DEF ListInv, Title, RunInv
<1>3. /\ instr_list \in Seq(Entry) /\ Len(instr_list) \in Nat
      /\ DOMAIN instr_list = 1 .. Len(instr_list) /\ pc \in 1 .. Len(instr_list)
  BY <1>1, <1>2 DEF Whole
<1>4. pc' \in Nat \ {0}
  <2>1. Generate!Resolve(pc) \in Nat /\ pc + 1 \in Nat
    BY <1>2, <1>3, ResolveType
  <2>2. Generate!Goes(pc) \subseteq {pc + 1, Generate!Resolve(pc)}
    BY DEF Generate!Goes
  <2> QED BY <1>1, <2>1, <2>2
<1>5. CASE ~Generate!Same(pc, pc')
  <2>1. visited' = {}
    BY <1>1, <1>5
  <2>2. InStream' /\ Tours'
    BY <2>1 DEF InStream, Tours
  <2> QED BY <1>1, <1>4, <2>2 DEF RunInv
<1>6. CASE Generate!Same(pc, pc')
  <2>1. /\ visited' = visited \cup {pc} /\ pc' \in 1 .. Len(instr_list)
        /\ instr_list[pc'].stream = instr_list[pc].stream /\ instr_list[pc].stream # 0
    BY <1>1, <1>3, <1>6 DEF Generate!Same
  <2>2. InStream'
    BY <1>1, <1>2, <1>3, <2>1 DEF InStream
  <2>3. ASSUME NEW s \in Nat \ {0}, NEW order \in Generate!Orders, NEW base \in Nat,
               JalIn(s, order, base)
        PROVE  /\ pc' # base + 1
               /\ base + 1 \in visited' => OnTour(order, base)'
    <3>0. JumpCnt \in Nat \ {0} /\ 1 \in 1 .. JumpCnt + 2
      BY GeneratorAssumption
    <3>1. /\ instr_list[base + 1].stream = s
          /\ \A k \in 1 .. Len(instr_list) :
               instr_list[k].stream = s => \E q \in 1 .. JumpCnt + 2 : k = base + q
      BY <1>2, <2>3, <3>0, JalFacts DEF JumpAt
    <3>2. ASSUME instr_list[pc].stream = s
          PROVE  \E q \in 1 .. JumpCnt + 1 :
                   /\ pc = base + q /\ pc' = base + (JumpTarget(order, q) + 2)
                   /\ JumpTarget(order, q) \in 0 .. JumpCnt
      <4>1. PICK q \in 1 .. JumpCnt + 1 :
              pc = base + q /\ pc' = base + (JumpTarget(order, q) + 2)
        BY <1>2, <1>3, <1>6, <2>3, <3>2, JumpTaken
      <4>2. JumpTarget(order, q) \in 0 .. JumpCnt
        BY EachTarget
      <4> QED BY <4>1, <4>2
    <3>3. pc' # base + 1
      <4> SUFFICES ASSUME pc' = base + 1 PROVE FALSE
        OBVIOUS
      <4>1. instr_list[pc].stream = s
        BY <2>1, <3>1
      <4>2. PICK q \in 1 .. JumpCnt + 1 :
              /\ pc' = base + (JumpTarget(order, q) + 2) /\ JumpTarget(order, q) \in 0 .. JumpCnt
        BY <3>2, <4>1
      <4> QED BY <3>0, <4>2
    <3>4. ASSUME base + 1 \in visited' PROVE OnTour(order, base)'
      <4>1. instr_list[pc].stream = s
        BY <1>2, <2>1, <3>1, <3>4 DEF InStream
      <4>2. PICK q \in 1 .. JumpCnt + 1 :
              /\ pc = base + q /\ pc' = base + (JumpTarget(order, q) + 2)
              /\ JumpTarget(order, q) \in 0 .. JumpCnt
        BY <3>2, <4>1
      <4>3. /\ pc = base + 1 => visited = {}
            /\ base + 1 \in visited => OnTour(order, base)
        BY <1>2, <2>3 DEF Tours
      <4>4. CASE pc = base + 1
        <5>1. q = 1 /\ JumpTarget(order, q) = order[1] /\ 0 \in 0 .. JumpCnt /\ 0 # JumpCnt
          BY <3>0, <4>2, <4>4 DEF JumpTarget
        <5>2. {base + (order[m] + 2) : m \in 1 .. 0} = {}
          OBVIOUS
        <5>3. visited' = {base + 1} \cup {base + (order[m] + 2) : m \in 1 .. 0}
          BY <2>1, <4>3, <4>4, <5>2
        <5>4. pc' = base + ((IF 0 = JumpCnt THEN JumpCnt ELSE order[0 + 1]) + 2)
          BY <4>2, <5>1
        <5> QED BY <5>1, <5>3, <5>4 DEF OnTour
      <4>5. CASE pc # base + 1
        <5>1. OnTour(order, base)
          BY <2>1, <3>4, <4>3, <4>5
        <5> QED BY <2>1, <4>2, <5>1, TourGoesOn
      <4> QED BY <4>4, <4>5
    <3> QED BY <3>3, <3>4
  <2>4. \A s, order, base : JalIn(s, order, base)' <=> JalIn(s, order, base)
    BY <1>1 DEF JalIn
  <2>5. Tours'
    BY <2>3, <2>4 DEF Tours
  <2> QED BY <1>1, <1>4, <2>2, <2>5 DEF RunInv
<1> QED BY <1>5, <1>6

LEMMA RunInit == Generate!Init => RunInv
BY DEF Generate!Init, RunInv

LEMMA RunNext == ASSUME ListInv, RunInv, Generate!Next PROVE RunInv'
<1> DEFINE made == \/ Generate!InsertStream \/ Generate!AssignLabels
                   \/ Generate!AssignTarget \/ Generate!GenerateInstrStream
<1>1. CASE made
  <2>1. /\ pc' = pc /\ visited' = visited /\ gen_phase \in {"insert", "target"}
        /\ gen_phase' \in {"insert", "target", "run"}
    BY <1>1 DEF Generate!InsertStream, Generate!AssignLabels, Generate!AssignTarget,
                Generate!GenerateInstrStream
  <2>2. pc \in Nat \ {0} /\ visited = {}
    BY <2>1 DEF RunInv
  <2> HIDE DEF made
  <2> QED BY <2>1, <2>2 DEF RunInv, InStream, Tours
<1>2. CASE Generate!Execute
  BY <1>2, RunExecute
<1>3. CASE Generate!Finish
  BY <1>3 DEF Generate!Finish, RunInv
<1>4. CASE Generate!Ended
  BY <1>4 DEF Generate!Ended, Generate!vars, RunInv, InStream, Tours, JalIn, OnTour
<1> QED BY <1>1, <1>2, <1>3, <1>4 DEF Generate!Next

(* A tour that has come to its end has taken every jump.                    *)
LEMMA TourWhole ==
  ASSUME NEW order \in Generate!Orders, NEW base \in Nat, OnTour(order, base),
         pc = base + (JumpCnt + 2)
  PROVE  Cardinality(visited) = JumpCnt + 1
<1>0. JumpCnt \in Nat \ {0}
  BY GeneratorAssumption
<1>1. PICK n \in 0 .. JumpCnt :
        /\ visited = {base + 1} \cup {base + (order[m] + 2) : m \in 1 .. n}
        /\ pc = base + ((IF n = JumpCnt THEN JumpCnt ELSE order[n + 1]) + 2)
  BY DEF OnTour
<1>2. n = JumpCnt
  <2> SUFFICES ASSUME n # JumpCnt PROVE FALSE
    OBVIOUS
  <2>1. n + 1 \in 1 .. JumpCnt
    BY <1>0
  <2>2. order[n + 1] \in 0 .. JumpCnt - 1
    BY <2>1, OrderOnto
  <2> QED BY <1>0, <1>1, <2>2
<1>3. visited = base + 1 .. base + (JumpCnt + 1)
  <2>1. ASSUME NEW v \in visited PROVE v \in base + 1 .. base + (JumpCnt + 1)
    <3>1. CASE v = base + 1
      BY <1>0, <3>1
    <3>2. ASSUME NEW m \in 1 .. JumpCnt, v = base + (order[m] + 2)
          PROVE  v \in base + 1 .. base + (JumpCnt + 1)
      <4>1. order[m] \in 0 .. JumpCnt - 1
        BY OrderOnto
      <4> QED BY <1>0, <3>2, <4>1
    <3> QED BY <1>1, <1>2, <3>1, <3>2
  <2>2. ASSUME NEW v \in base + 1 .. base + (JumpCnt + 1), v # base + 1 PROVE v \in visited
    <3>1. v - base - 2 \in 0 .. JumpCnt - 1 /\ base + ((v - base - 2) + 2) = v
      BY <1>0, <2>2
    <3>2. PICK m \in 1 .. JumpCnt : order[m] = v - base - 2
      BY <3>1, OrderOnto
    <3>3. v = base + (order[m] + 2)
      BY <3>1, <3>2
    <3> QED BY <1>1, <1>2, <3>3
  <2> QED BY <1>1, <2>1, <2>2
<1>4. Cardinality(base + 1 .. base + (JumpCnt + 1)) = JumpCnt + 1
  <2>1. base + 1 \in Int /\ base + (JumpCnt + 1) \in Int /\ base + 1 <= base + (JumpCnt + 1)
        /\ (base + (JumpCnt + 1)) - (base + 1) + 1 = JumpCnt + 1
    BY <1>0
  <2> QED BY <2>1, FS_Interval
<1> QED BY <1>3, <1>4

LEMMA JumpsSafe == ASSUME ListInv, RunInv PROVE Generate!JumpsAllTaken
<1> SUFFICES ASSUME gen_phase = "run", pc \in DOMAIN instr_list, instr_list[pc].pos = JumpCnt + 2,
                    streams[instr_list[pc].stream] = "jal",
                    NEW k \in visited, instr_list[k].pos = 1
             PROVE  Cardinality(visited) = JumpCnt + 1
  BY DEF Generate!JumpsAllTaken, Generate!Cardinality, Cardinality, Generate!IsFiniteSet, IsFiniteSet
<1> DEFINE s == instr_list[pc].stream
<1>1. Whole(instr_list, streams, 1) /\ InStream /\ Tours
  BY DEF ListInv, Title, RunInv
<1>2. pc \in 1 .. Len(instr_list) /\ s # 0 /\ k \in 1 .. Len(instr_list)
      /\ instr_list[k].stream = s
  BY <1>1 DEF InStream
<1>3. s \in 1 .. Len(streams) /\ s \in Nat \ {0} /\ JumpCnt \in Nat
  <2>1. s \in 1 .. Len(streams) /\ Len(streams) \in Nat
    BY <1>1, <1>2, PieceOf DEF Whole
  <2> QED BY <2>1, GeneratorAssumption
<1>4. PICK new \in Generate!StreamsOf("jal", s), base \in Nat :
        k = base + 1 /\ Laid(instr_list, base, new, 1)
  <2> DEFINE t == instr_list[k].stream
  <2>1. t = s /\ t # 0 /\ streams[t] = "jal"
    BY <1>2
  <2>2. PICK new \in Generate!StreamsOf(streams[t], t), base \in Nat :
          k = base + instr_list[k].pos /\ Laid(instr_list, base, new, 1)
    BY <1>1, <1>2, <2>1, PieceOf
  <2> QED BY <2>1, <2>2
<1>5. PICK order \in Generate!Orders : new = Generate!Jal(s, order)
  BY <1>4 DEF Generate!StreamsOf
<1>6. JalIn(s, order, base)
  BY <1>3, <1>4, <1>5 DEF JalIn
<1>7. OnTour(order, base)
  BY <1>1, <1>3, <1>4, <1>6 DEF Tours
<1>8. pc = base + (JumpCnt + 2)
  <2>1. PICK q \in 1 .. JumpCnt + 2 : pc = base + q /\ JumpAt(instr_list[base + q], s, order, q)
    BY <1>1, <1>2, <1>3, <1>6, JalFacts
  <2> QED BY <2>1 DEF JumpAt
<1> QED BY <1>7, <1>8, TourWhole

-----------------------------------------------------------------------------
(* The generator among the programs of the module.                          *)
LEMMA GeneratorStays ==
  ASSUME ListInv, RunInv, UNCHANGED generateVars
  PROVE  ListInv' /\ RunInv'
<1>1. /\ gen_phase' = gen_phase /\ instr_list' = instr_list /\ streams' = streams /\ j' = j
      /\ label_idx' = label_idx /\ branch_target' = branch_target /\ pc' = pc
      /\ visited' = visited
  BY DEF generateVars
<1>2. ListInv'
  BY <1>1, ListStays
<1>3. RunInv'
  BY <1>1 DEF RunInv, InStream, Tours, JalIn, OnTour
<1> QED BY <1>2, <1>3

GeneratorInv == part = "generate" => ListInv /\ RunInv

LEMMA GeneratorPart == ASSUME GeneratorInv, [Next]_vars PROVE GeneratorInv'
<1> SUFFICES ASSUME part' = "generate" PROVE (ListInv /\ RunInv)'
  BY DEF GeneratorInv
<1>1. part = "generate" /\ ListInv /\ RunInv
  BY DEF GeneratorInv, Next, LoaderStep, CheckStep, CovStep, CompareStep, GenerateStep, vars
<1>2. CASE GenerateStep(Generate!Next)
  BY <1>1, <1>2, ListNext, RunNext DEF GenerateStep
<1>3. CASE ~GenerateStep(Generate!Next)
  <2>1. UNCHANGED generateVars
    BY <1>1, <1>3 DEF Next, LoaderStep, CheckStep, CovStep, CompareStep, vars
  <2> QED BY <1>1, <2>1, GeneratorStays
<1> QED BY <1>2, <1>3

(* A generated program (riscv_instr_sequence.py): every target resolves, a  *)
(* branch's ahead of it and a stream's within it; no stream is torn apart   *)
(* by what is inserted after it; a stream of jumps entered at its first     *)
(* takes each of them before it is left.                                    *)
THEOREM ProgramsWhole == Spec => []ProgramWhole
<1>1. Init => GeneratorInv
  BY ListInit, RunInit DEF Init, GeneratorInv
<1>2. GeneratorInv /\ [Next]_vars => GeneratorInv'
  BY GeneratorPart
<1>3. GeneratorInv => ProgramWhole
  BY ResolvesSafe, StreamsSafe, JumpsSafe DEF GeneratorInv, ProgramWhole
<1> QED BY <1>1, <1>2, <1>3, PTL DEF Spec

=============================================================================
