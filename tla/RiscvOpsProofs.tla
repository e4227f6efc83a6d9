--------------------------- MODULE RiscvOpsProofs ---------------------------
(* Lemmas about words of any width, and about the combinational blocks and  *)
(* the units of the core: what they compute, for every operand.             *)
EXTENDS RiscvAlu, RiscvDecode, RiscvLsu, RiscvMulDiv, RiscvIsaOps,
        FiniteSetTheorems, WellFoundedInduction, TLAPS

(* A word has at least one bit.                                             *)
LEMMA XlenPositive == XLEN \in Nat /\ XLEN > 0 /\ 0 \in 0 .. XLEN - 1
BY ByteBitsAssumption DEF XLEN

(* Division.                                                                *)
LEMMA DivMod ==
  ASSUME NEW n \in Int, NEW d \in Int, d > 0, NEW q, q = n \div d, NEW r, r = n % d
  PROVE  q \in Int /\ r \in Int /\ 0 <= r /\ r < d /\ n = d * q + r
<1>1. q \in Int /\ r \in Int /\ 0 <= r
  OBVIOUS
<1>2. r < d
  OBVIOUS
<1>3. r = n - d * q
  OBVIOUS
<1>4. d * q \in Int
  BY <1>1
<1> QED BY ONLY <1>1, <1>2, <1>3, <1>4, n \in Int

LEMMA DivIs ==
  ASSUME NEW n \in Int, NEW d \in Int, d > 0, NEW q \in Int, d * q <= n, n < d * q + d
  PROVE  n \div d = q
OBVIOUS

LEMMA ModIs ==
  ASSUME NEW n \in Int, NEW d \in Int, d > 0, NEW q \in Int, NEW r \in Int,
         0 <= r, r < d, n = d * q + r
  PROVE  n \div d = q /\ n % d = r
<1>1. d * q \in Int
  OBVIOUS
<1>2. d * q <= n /\ n < d * q + d
  BY <1>1
<1>3. n \div d = q
  BY <1>2, DivIs
<1>4. PICK m : m = n % d
  OBVIOUS
<1>5. m = n - d * q
  BY <1>3, <1>4
<1>6. m = r
  BY ONLY <1>1, <1>5, r \in Int, n = d * q + r
<1> QED BY <1>3, <1>4, <1>6

LEMMA ModShift ==
  ASSUME NEW n \in Int, NEW d \in Int, d > 0, NEW k \in Int
  PROVE  (n + d * k) % d = n % d /\ (n + d * k) \div d = n \div d + k
<1>1. PICK q, r : q = n \div d /\ r = n % d
  OBVIOUS
<1>2. q \in Int /\ r \in Int /\ 0 <= r /\ r < d /\ n = d * q + r
  BY <1>1, DivMod
<1>3. d * q \in Int /\ d * k \in Int /\ d * (q + k) \in Int /\ d * (q + k) = d * q + d * k
  BY <1>2
<1>4. PICK m : m = n + d * k
  OBVIOUS
<1>5. m = d * (q + k) + r /\ m \in Int /\ q + k \in Int
  BY <1>2, <1>3, <1>4
<1>6. m \div d = q + k /\ m % d = r
  BY <1>2, <1>5, ModIs
<1> QED BY <1>1, <1>4, <1>6

(* Dividing twice. *)
LEMMA DivDiv ==
  ASSUME NEW n \in Int, NEW c \in Int, c > 0, NEW d \in Int, d > 0
  PROVE  (n \div c) \div d = n \div (c * d)
<1>1. PICK q, r : q = n \div c /\ r = n % c
  OBVIOUS
<1>2. q \in Int /\ r \in Int /\ 0 <= r /\ r < c /\ n = c * q + r
  BY <1>1, DivMod
<1>3. PICK p, s : p = q \div d /\ s = q % d
  OBVIOUS
<1>4. p \in Int /\ s \in Int /\ 0 <= s /\ s <= d - 1 /\ q = d * p + s
  BY <1>2, <1>3, DivMod
<1>5. c * d \in Int /\ c * d > 0
  OBVIOUS
<1>6. c * (d * p + s) = (c * d) * p + c * s
  BY <1>4
<1>7. n = (c * d) * p + (c * s + r)
  <2>1. c * q \in Int /\ (c * d) * p \in Int /\ c * s \in Int
    BY <1>2, <1>4, <1>5
  <2>2. c * q = (c * d) * p + c * s
    BY <1>4, <1>6
  <2> QED BY <1>2, <2>1, <2>2
<1>8. 0 <= c * s /\ c * s <= c * (d - 1) /\ c * (d - 1) = c * d - c
  <2>1. 0 <= c * s
    BY <1>4
  <2>2. c * s <= c * (d - 1)
    BY <1>4
  <2> QED BY <2>1, <2>2
<1>9. c * s + r \in Int /\ 0 <= c * s + r /\ c * s + r < c * d
  BY <1>2, <1>4, <1>5, <1>8
<1>10. n \div (c * d) = p
  BY <1>4, <1>5, <1>7, <1>9, ModIs
<1> QED BY <1>1, <1>3, <1>10
-----------------------------------------------------------------------------
LEMMA LeastElement ==
  ASSUME NEW T, T \subseteq Nat, T # {}
  PROVE  \E m \in T : \A k \in T : m <= k
<1> DEFINE Less == OpToRel(<, Nat)
<1>1. IsWellFoundedOn(Less, Nat)
  BY NatLessThanWellFounded
<1>2. \A k, m \in Nat : k < m => <<k, m>> \in Less
  BY DEF OpToRel
<1> HIDE DEF Less
<1>3. PICK m \in T : \A k \in T : ~(<<k, m>> \in Less)
  BY <1>1, WFMin
<1>4. ASSUME NEW k \in T PROVE m <= k
  <2>1. m \in Nat /\ k \in Nat /\ ~(<<k, m>> \in Less)
    BY <1>3
  <2>2. ~(k < m)
    BY <1>2, <2>1
  <2> QED BY <2>1, <2>2
<1> QED BY <1>3, <1>4

LEMMA PowType == ASSUME NEW n \in Nat PROVE 2^n \in Nat \ {0}
<1>1. IsFiniteSet(1 .. n) /\ Cardinality(1 .. n) = n
  BY FS_Interval
<1>2. IsFiniteSet(SUBSET (1 .. n)) /\ Cardinality(SUBSET (1 .. n)) = 2^n
  BY <1>1, FS_SUBSET
<1>3. 2^n \in Nat
  BY <1>2, FS_CardinalityType
<1>4. SUBSET (1 .. n) # {}
  OBVIOUS
<1>5. 2^n # 0
  BY <1>2, <1>4, FS_EmptySet
<1> QED BY <1>3, <1>5

(* 2^(n+1): the subsets of 1..n+1 are those of 1..n, each without and with n + 1. *)
LEMMA PowStep == ASSUME NEW n \in Nat PROVE 2^(n + 1) = 2 * 2^n
<1> DEFINE S == SUBSET (1 .. n)
           T == SUBSET (1 .. n + 1)
           W == {t \cup {n + 1} : t \in S}
<1>1. IsFiniteSet(1 .. n) /\ Cardinality(1 .. n) = n
      /\ IsFiniteSet(1 .. n + 1) /\ Cardinality(1 .. n + 1) = n + 1
  BY FS_Interval
<1>2. IsFiniteSet(S) /\ Cardinality(S) = 2^n /\ IsFiniteSet(T) /\ Cardinality(T) = 2^(n + 1)
  BY <1>1, FS_SUBSET
<1>3. n + 1 \notin 1 .. n /\ (1 .. n + 1) = (1 .. n) \cup {n + 1}
  OBVIOUS
<1>4. T = S \cup W
  <2>1. ASSUME NEW t \in T PROVE t \in S \cup W
    <3>1. CASE n + 1 \in t
      <4>1. t \ {n + 1} \in S /\ t = (t \ {n + 1}) \cup {n + 1}
        BY <1>3, <3>1
      <4> QED BY <4>1
    <3>2. CASE n + 1 \notin t
      BY <1>3, <3>2
    <3> QED BY <3>1, <3>2
  <2>2. S \cup W \subseteq T
    BY <1>3
  <2> QED BY <2>1, <2>2
<1>5. S \cap W = {}
  BY <1>3
<1>6. ExistsBijection(S, W)
  <2> DEFINE f == [t \in S |-> t \cup {n + 1}]
  <2>1. f \in [S -> W]
    OBVIOUS
  <2>2. ASSUME NEW s \in S, NEW t \in S, f[s] = f[t] PROVE s = t
    <3>1. s \cup {n + 1} = t \cup {n + 1} /\ n + 1 \notin s /\ n + 1 \notin t
      BY <1>3, <2>2
    <3> QED BY <3>1
  <2>3. \A w \in W : \E t \in S : f[t] = w
    OBVIOUS
  <2> HIDE DEF f, W, S
  <2>4. f \in Bijection(S, W)
    BY <2>1, <2>2, <2>3 DEF Bijection, Injection, Surjection, IsInjective
  <2> QED BY <2>4 DEF ExistsBijection
<1>7. IsFiniteSet(W) /\ Cardinality(W) = 2^n
  BY <1>2, <1>6, FS_Bijection
<1>8. Cardinality(T) = 2^n + 2^n - Cardinality({})
  BY <1>2, <1>4, <1>5, <1>7, FS_Union
<1>9. 2^n \in Nat
  BY PowType
<1> QED BY <1>2, <1>8, <1>9, FS_EmptySet

LEMMA PowSmall == 2^0 = 1 /\ 2^1 = 2 /\ 2^2 = 4
OBVIOUS

LEMMA PowSum ==
  ASSUME NEW m \in Nat, NEW n \in Nat PROVE 2^(m + n) = 2^m * 2^n
<1> DEFINE T == {k \in Nat : 2^(m + k) # 2^m * 2^k}
<1>1. SUFFICES T = {}
  OBVIOUS
<1>2. SUFFICES ASSUME T # {} PROVE FALSE
  OBVIOUS
<1>3. PICK k \in T : \A l \in T : k <= l
  BY <1>2, LeastElement
<1>4. 2^m \in Nat /\ 2^0 = 1 /\ m + 0 = m
  BY PowType, PowSmall
<1>5. k # 0
  <2>1. ASSUME k = 0 PROVE 2^(m + k) = 2^m * 2^k
    <3>1. m + k = m /\ 2^k = 1
      BY <2>1, <1>4
    <3>2. 2^(m + k) = 2^m
      BY <3>1
    <3> QED BY ONLY <3>1, <3>2, <1>4
  <2> QED BY <1>3, <2>1
<1>6. k - 1 \in Nat /\ k - 1 \notin T /\ k - 1 + 1 = k /\ m + (k - 1) \in Nat /\ m + (k - 1) + 1 = m + k
  BY <1>3, <1>5
<1>7. 2^(m + (k - 1)) = 2^m * 2^(k - 1)
  BY <1>6
<1>8. 2^(m + k) = 2 * 2^(m + (k - 1)) /\ 2^k = 2 * 2^(k - 1)
  BY <1>6, PowStep
<1>9. 2^(k - 1) \in Nat
  BY <1>6, PowType
<1>10. 2^(m + k) = 2^m * 2^k
  BY ONLY <1>4, <1>7, <1>8, <1>9
<1> QED BY <1>3, <1>10

LEMMA PowOrder ==
  ASSUME NEW m \in Nat, NEW n \in Nat, m <= n PROVE 2^m <= 2^n /\ 2^n = 2^(n - m) * 2^m
<1>1. n - m \in Nat /\ n - m + m = n
  OBVIOUS
<1>2. 2^n = 2^(n - m) * 2^m
  BY <1>1, PowSum
<1>3. PICK a, b : a = 2^(n - m) /\ b = 2^m
  OBVIOUS
<1>4. a \in Nat \ {0} /\ b \in Nat \ {0}
  BY <1>1, <1>3, PowType
<1>5. b <= a * b
  BY ONLY <1>4
<1> QED BY <1>2, <1>3, <1>5

-----------------------------------------------------------------------------
(* A sum of bits is a function defined by recursion.                        *)
SumUpTo(s, b, m) ==
  s = [n \in 0 .. m |-> IF n = 0 THEN 0 ELSE s[n - 1] + b[n - 1] * 2^(n - 1)]
LEMMA SumExists == ASSUME NEW b, NEW m \in Nat PROVE \E s : SumUpTo(s, b, m)
<1> DEFINE T == {k \in Nat : ~\E s : SumUpTo(s, b, k)}
<1>1. SUFFICES ASSUME T # {} PROVE FALSE
  OBVIOUS
<1>2. PICK k \in T : \A l \in T : k <= l
  BY <1>1, LeastElement
<1>3. CASE k = 0
  <2>1. SumUpTo([n \in 0 .. 0 |-> 0], b, 0)
    BY DEF SumUpTo
  <2> QED BY <1>2, <1>3, <2>1
<1>4. CASE k # 0
  <2>1. k - 1 \in Nat /\ k - 1 \notin T
    BY <1>2, <1>4
  <2>2. PICK s : SumUpTo(s, b, k - 1)
    BY <2>1
  <2> DEFINE t == [n \in 0 .. k |-> IF n = k THEN s[k - 1] + b[k - 1] * 2^(k - 1) ELSE s[n]]
  <2>3. t = [n \in 0 .. k |-> IF n = 0 THEN 0 ELSE t[n - 1] + b[n - 1] * 2^(n - 1)]
    <3>1. ASSUME NEW n \in 0 .. k
          PROVE  t[n] = IF n = 0 THEN 0 ELSE t[n - 1] + b[n - 1] * 2^(n - 1)
      <4>1. CASE n = k
        BY <1>4, <2>1, <4>1
      <4>2. CASE n # k
        <5>1. n \in 0 .. k - 1 /\ t[n] = s[n] /\ (n # 0 => t[n - 1] = s[n - 1])
          BY <1>2, <4>2
        <5>2. s[n] = IF n = 0 THEN 0 ELSE s[n - 1] + b[n - 1] * 2^(n - 1)
          BY <2>2, <5>1 DEF SumUpTo
        <5> QED BY <5>1, <5>2
      <4> QED BY <4>1, <4>2
    <3> HIDE DEF t
    <3>2. t = [n \in 0 .. k |-> t[n]]
      BY DEF t
    <3> QED BY <3>1, <3>2
  <2> HIDE DEF t
  <2>4. SumUpTo(t, b, k)
    BY <2>3 DEF SumUpTo
  <2> QED BY <1>2, <2>4
<1> QED BY <1>3, <1>4

LEMMA BitSum ==
  ASSUME NEW b PROVE \E s : SumUpTo(s, b, XLEN) /\ OfBits(b) = s[XLEN]
<1>1. XLEN \in Nat
  BY ByteBitsAssumption DEF XLEN
<1>2. \E s : SumUpTo(s, b, XLEN)
  BY <1>1, SumExists
<1> QED BY <1>2 DEF SumUpTo, OfBits
-----------------------------------------------------------------------------
(* What the handshake needs to know of a unit's registers.                  *)
MulShape(u) ==
  {"busy", "done"} \subseteq DOMAIN u /\ {u.busy, u.done} \subseteq BOOLEAN
DivShape(u) ==
  /\ {"busy", "done", "count"} \subseteq DOMAIN u
  /\ {u.busy, u.done} \subseteq BOOLEAN /\ u.count \in 0 .. XLEN - 1

-----------------------------------------------------------------------------
(* One clock edge of the multiplier: it is busy from the start to the next  *)
(* edge, then done until an edge without a memory stall.                    *)
LEMMA MulNextFlags ==
  ASSUME NEW u, MulShape(u), ~(u.busy /\ u.done),
         NEW start \in BOOLEAN, NEW stall \in BOOLEAN, NEW op, NEW a, NEW b,
         start => ~u.busy /\ ~u.done
  PROVE  LET n == MulNext(u, start, op, a, b, stall)
         IN  /\ MulShape(n)
             /\ n.busy = start
             /\ n.done = (u.busy \/ (u.done /\ stall))
<1> DEFINE held == [u EXCEPT !.done = u.done /\ stall]
<1>1. /\ MulShape(held) /\ held.busy = u.busy
      /\ held.done = (u.done /\ stall)
  BY DEF MulShape
<1> HIDE DEF held
<1>2. MulNext(u, start, op, a, b, stall) =
        CASE start -> [held EXCEPT !.op = op, !.a = MulExtA(op, a),
                          !.b = MulExtB(op, b), !.busy = TRUE]
          [] ~start /\ u.busy -> [held EXCEPT !.product = u.a * u.b, !.busy = FALSE,
                            !.done = TRUE]
          [] OTHER -> held
  BY DEF MulNext, held
<1>3. CASE start
  BY <1>1, <1>2, <1>3 DEF MulShape
<1>4. CASE ~start /\ u.busy
  BY <1>1, <1>2, <1>4 DEF MulShape
<1>5. CASE ~start /\ ~u.busy
  BY <1>1, <1>2, <1>5 DEF MulShape
<1> QED BY <1>3, <1>4, <1>5

(* A started division is either busy or done: it runs, or answers at once.  *)
LEMMA DivStartFlags ==
  ASSUME NEW u, DivShape(u), ~u.done, NEW op, NEW a, NEW b
  PROVE  LET n == DivStart(u, op, a, b)
         IN  DivShape(n) /\ n.done = ~n.busy
<1> DEFINE n == DivStart(u, op, a, b)
<1>1. CASE b = 0
  <2>1. /\ DOMAIN n = DOMAIN u
        /\ n.count = 0 /\ n.busy = FALSE /\ n.done = TRUE
    BY <1>1 DEF DivStart, DivShape
  <2> HIDE DEF n
  <2>2. DivShape(n) /\ n.done = ~n.busy
    BY <2>1, XlenPositive DEF DivShape
  <2> QED BY <2>2 DEF n
<1>2. CASE /\ b # 0
           /\ op \in {"DIV", "REM"} /\ a = 2^(XLEN - 1) /\ b = 2^XLEN - 1
  <2>1. /\ DOMAIN n = DOMAIN u
        /\ n.count = 0 /\ n.busy = FALSE /\ n.done = TRUE
    BY <1>2 DEF DivStart, DivShape
  <2> HIDE DEF n
  <2>2. DivShape(n) /\ n.done = ~n.busy
    BY <2>1, XlenPositive DEF DivShape
  <2> QED BY <2>2 DEF n
<1>3. CASE /\ b # 0
           /\ ~(op \in {"DIV", "REM"} /\ a = 2^(XLEN - 1) /\ b = 2^XLEN - 1)
  <2> DEFINE dividend == Magnitude(op, a)
             divisor  == Magnitude(op, b)
             quotient_neg  == op = "DIV" /\ SignBit(a) # SignBit(b)
             remainder_neg == op = "REM" /\ SignBit(a)
  <2>1. n = [u EXCEPT !.op = op, !.count = 0, !.busy = TRUE,
                      !.dividend = dividend, !.divisor = divisor,
                      !.quotient = 0, !.remainder = 0,
                      !.quotient_neg = quotient_neg,
                      !.remainder_neg = remainder_neg]
    BY <1>3 DEF DivStart
  <2> HIDE DEF n, dividend, divisor, quotient_neg, remainder_neg
  <2>2. /\ DOMAIN n = DOMAIN u
        /\ n.count = 0 /\ n.busy = TRUE /\ n.done = u.done
    BY <2>1 DEF DivShape
  <2>3. DivShape(n) /\ n.done = ~n.busy
    BY <2>2, XlenPositive DEF DivShape
  <2> QED BY <2>3 DEF n
<1> QED BY <1>1, <1>2, <1>3

(* One division step counts, and ends the division at the last bit.         *)
LEMMA DivStepFlags ==
  ASSUME NEW u, DivShape(u), u.busy, ~u.done
  PROVE  LET n == DivStep(u)
         IN  DivShape(n) /\ n.done = ~n.busy
<1> DEFINE n == DivStep(u)
<1>1. /\ DOMAIN n = DOMAIN u
      /\ n.count = (IF u.count = XLEN - 1 THEN u.count ELSE u.count + 1)
      /\ n.busy = (u.count # XLEN - 1)
      /\ n.done = (u.done \/ u.count = XLEN - 1)
  BY DEF DivStep, DivShape
<1> HIDE DEF n
<1>2. n.count \in 0 .. XLEN - 1
  BY <1>1, XlenPositive DEF DivShape
<1>3. DivShape(n) /\ n.done = ~n.busy
  BY <1>1, <1>2 DEF DivShape
<1> QED BY <1>3 DEF n

(* One clock edge of the divider: it is busy until the last bit, then done  *)
(* until an edge without a memory stall.                                    *)
LEMMA DivNextFlags ==
  ASSUME NEW u, DivShape(u), ~(u.busy /\ u.done),
         NEW start \in BOOLEAN, NEW stall \in BOOLEAN, NEW op, NEW a, NEW b,
         start => ~u.busy /\ ~u.done
  PROVE  LET n == DivNext(u, start, op, a, b, stall)
         IN  /\ DivShape(n) /\ ~(n.busy /\ n.done)
             /\ (n.busy \/ n.done) = (start \/ u.busy \/ (u.done /\ stall))
<1> DEFINE held == [u EXCEPT !.done = u.done /\ stall]
<1>1. /\ DivShape(held) /\ held.busy = u.busy
      /\ held.done = (u.done /\ stall)
  BY DEF DivShape
<1> HIDE DEF held
<1>2. DivNext(u, start, op, a, b, stall) =
        CASE start -> DivStart(held, op, a, b)
          [] ~start /\ u.busy -> DivStep(held)
          [] OTHER -> held
  BY DEF DivNext, held
<1>3. CASE start
  BY <1>1, <1>2, <1>3, DivStartFlags DEF DivShape
<1>4. CASE ~start /\ u.busy
  BY <1>1, <1>2, <1>4, DivStepFlags DEF DivShape
<1>5. CASE ~start /\ ~u.busy
  BY <1>1, <1>2, <1>5
<1> QED BY <1>3, <1>4, <1>5

-----------------------------------------------------------------------------
(* Words.                                                                   *)
LEMMA XlenPow ==
  /\ XLEN \in Nat /\ XLEN >= 4 /\ 2^XLEN \in Nat \ {0} /\ 2^(XLEN - 1) \in Nat \ {0}
  /\ 2^XLEN = 2 * 2^(XLEN - 1) /\ Word = 0 .. 2^XLEN - 1
<1>1. XLEN \in Nat /\ XLEN >= 4 /\ XLEN - 1 \in Nat /\ XLEN - 1 + 1 = XLEN
  BY ByteBitsAssumption DEF XLEN
<1>2. 2^XLEN = 2 * 2^(XLEN - 1)
  BY <1>1, PowStep
<1> QED BY <1>1, <1>2, PowType DEF Word

LEMMA WrapIn == ASSUME NEW x \in Int PROVE Wrap(x) \in Word
<1>1. PICK M : M = 2^XLEN
  OBVIOUS
<1>2. M \in Int /\ M > 0 /\ Word = 0 .. M - 1
  BY <1>1, XlenPow
<1>3. PICK r : r = x % M
  OBVIOUS
<1>4. r \in Int /\ 0 <= r /\ r < M
  BY <1>2, <1>3, DivMod
<1> QED BY <1>1, <1>2, <1>3, <1>4 DEF Wrap

LEMMA WrapIs ==
  ASSUME NEW x \in Int, NEW y \in Word, NEW k \in Int, x = 2^XLEN * k + y PROVE Wrap(x) = y
<1>1. PICK M : M = 2^XLEN
  OBVIOUS
<1>2. M \in Int /\ M > 0 /\ Word = 0 .. M - 1
  BY <1>1, XlenPow
<1>3. y \in Int /\ 0 <= y /\ y < M /\ x = M * k + y
  BY <1>1, <1>2
<1>4. x % M = y
  BY <1>2, <1>3, ModIs
<1> QED BY <1>1, <1>4 DEF Wrap

LEMMA WrapWord == ASSUME NEW x \in Word PROVE Wrap(x) = x /\ x \in Nat
<1>1. 2^XLEN \in Int /\ 2^XLEN * 0 = 0 /\ x \in Nat
  BY XlenPow
<1>2. x = 2^XLEN * 0 + x
  BY <1>1
<1> QED BY <1>1, <1>2, WrapIs

LEMMA WrapShift ==
  ASSUME NEW x \in Int, NEW k \in Int, NEW y, y = x + 2^XLEN * k PROVE Wrap(y) = Wrap(x)
<1>1. PICK M : M = 2^XLEN
  OBVIOUS
<1>2. M \in Int /\ M > 0
  BY <1>1, XlenPow
<1>3. (x + M * k) % M = x % M
  BY <1>2, ModShift
<1> QED BY <1>1, <1>3 DEF Wrap

LEMMA WrapQuotient ==
  ASSUME NEW x \in Int PROVE \E k \in Int : x = 2^XLEN * k + Wrap(x)
<1>1. PICK M : M = 2^XLEN
  OBVIOUS
<1>2. M \in Int /\ M > 0
  BY <1>1, XlenPow
<1>3. PICK k, r : k = x \div M /\ r = x % M
  OBVIOUS
<1>4. k \in Int /\ x = M * k + r
  BY <1>2, <1>3, DivMod
<1>5. r = Wrap(x)
  BY <1>1, <1>3 DEF Wrap
<1> QED BY <1>1, <1>4, <1>5

(* Wrapping on the way makes no difference.                                 *)
LEMMA WrapSum ==
  ASSUME NEW x \in Int, NEW y \in Int, NEW c \in Int
  PROVE  Wrap(c * Wrap(x) + y) = Wrap(c * x + y)
<1>1. PICK k \in Int : x = 2^XLEN * k + Wrap(x)
  BY WrapQuotient
<1>2. PICK w, M : w = Wrap(x) /\ M = 2^XLEN
  OBVIOUS
<1>3. w \in Int /\ M \in Int /\ x = M * k + w
  BY <1>1, <1>2, WrapIn, XlenPow
<1>4. c * x = c * w + M * (c * k) /\ c * x \in Int /\ c * w \in Int /\ c * k \in Int /\ M * (c * k) \in Int
  BY <1>3
<1>5. c * x + y = (c * w + y) + M * (c * k) /\ c * w + y \in Int
  BY <1>4
<1>6. Wrap(c * x + y) = Wrap(c * w + y)
  BY <1>2, <1>4, <1>5, WrapShift
<1> QED BY <1>2, <1>6

LEMMA WrapAdd ==
  ASSUME NEW x \in Int, NEW y \in Int PROVE Wrap(Wrap(x) + y) = Wrap(x + y)
<1>1. Wrap(x) \in Int
  BY WrapIn, XlenPow
<1>2. 1 * Wrap(x) + y = Wrap(x) + y /\ 1 * x + y = x + y
  BY <1>1
<1>3. Wrap(1 * Wrap(x) + y) = Wrap(1 * x + y)
  BY WrapSum
<1> QED BY <1>2, <1>3

-----------------------------------------------------------------------------
(* Division, bit by bit.                                                    *)
LEMMA Divided ==
  ASSUME NEW n \in Int, NEW d \in Int, d > 0
  PROVE  \E q \in Int, r \in Int :
           q = n \div d /\ r = n % d /\ 0 <= r /\ r <= d - 1 /\ n = d * q + r
<1>1. PICK q, r : q = n \div d /\ r = n % d
  OBVIOUS
<1>2. q \in Int /\ r \in Int /\ 0 <= r /\ r < d /\ n = d * q + r
  BY <1>1, DivMod
<1> QED BY <1>1, <1>2

LEMMA DivScale ==
  ASSUME NEW n \in Int, NEW d \in Int, d > 0, NEW c \in Int, c > 0
  PROVE  (n * c) \div (d * c) = n \div d
<1>1. PICK q, r : q = n \div d /\ r = n % d
  OBVIOUS
<1>2. q \in Int /\ r \in Int /\ 0 <= r /\ r <= d - 1 /\ n = d * q + r
  BY <1>1, DivMod
<1>3. n * c = (d * c) * q + r * c
  <2>1. (d * q + r) * c = (d * c) * q + r * c
    BY <1>2
  <2> QED BY <1>2, <2>1
<1>4. 0 <= r * c /\ r * c <= (d - 1) * c /\ (d - 1) * c = d * c - c
  <2>1. 0 <= r * c
    BY <1>2
  <2>2. r * c <= (d - 1) * c
    BY <1>2
  <2> QED BY <2>1, <2>2
<1>5. d * c \in Int /\ d * c > 0 /\ n * c \in Int /\ r * c \in Int
  BY <1>2
<1>6. r * c < d * c
  BY <1>4, <1>5
<1>7. (n * c) \div (d * c) = q
  BY <1>2, <1>3, <1>4, <1>5, <1>6, ModIs
<1> QED BY <1>1, <1>7

(* The bit shifted out of the dividend register is the next bit of A.       *)
LEMMA NextBit ==
  ASSUME NEW A \in Word, NEW c \in 0 .. XLEN - 1
  PROVE  /\ Bit(Wrap(A * 2^c), XLEN - 1) \in {0, 1}
         /\ A \div 2^(XLEN - c - 1) = 2 * (A \div 2^(XLEN - c)) + Bit(Wrap(A * 2^c), XLEN - 1)
<1>1. c \in Nat /\ XLEN - c - 1 \in Nat /\ XLEN - c - 1 + 1 = XLEN - c /\ XLEN - c + c = XLEN
      /\ XLEN - c - 1 + c = XLEN - 1 /\ XLEN - c \in Nat
  BY XlenPow
<1>2. PICK P, C, M : P = 2^(XLEN - c - 1) /\ C = 2^c /\ M = 2^XLEN
  OBVIOUS
<1>3. P \in Nat \ {0} /\ C \in Nat \ {0} /\ M \in Nat \ {0} /\ 2^(XLEN - c) = 2 * P
  BY <1>1, <1>2, PowType, PowStep, XlenPow
<1>4. M = (2 * P) * C /\ 2^(XLEN - 1) = P * C
  <2>1. 2^(XLEN - c + c) = 2^(XLEN - c) * 2^c
    BY <1>1, PowSum
  <2>2. 2^(XLEN - c - 1 + c) = 2^(XLEN - c - 1) * 2^c
    BY <1>1, PowSum
  <2> QED BY <1>1, <1>2, <1>3, <2>1, <2>2
<1>5. A \in Nat /\ A < M
  BY <1>2, <1>3 DEF Word
<1>6. A \in Int /\ 2 * P \in Int /\ 2 * P > 0
  BY <1>3, <1>5
<1>7. PICK h \in Int, l \in Int :
         h = A \div (2 * P) /\ l = A % (2 * P) /\ 0 <= l /\ l <= 2 * P - 1 /\ A = (2 * P) * h + l
  BY ONLY <1>6, Divided
<1>8. A * C = M * h + l * C
  <2>1. ((2 * P) * h + l) * C = ((2 * P) * C) * h + l * C
    BY <1>3, <1>7
  <2> QED BY <1>4, <1>7, <2>1
<1>9. 0 <= l * C /\ l * C < M /\ l * C \in Int
  <2>1. 0 <= l * C /\ l * C \in Int
    BY <1>3, <1>7
  <2>2. l * C <= (2 * P - 1) * C
    BY <1>3, <1>7
  <2>3. (2 * P - 1) * C = (2 * P) * C - C /\ (2 * P) * C \in Int
    BY <1>3
  <2> QED BY <1>3, <1>4, <2>1, <2>2, <2>3
<1>10. Wrap(A * C) = l * C
  <2>1. l * C \in Word /\ A * C \in Int
    BY <1>2, <1>3, <1>5, <1>9 DEF Word
  <2> QED BY <1>2, <1>7, <1>8, <2>1, WrapIs
<1>11. l \in Int /\ P \in Int /\ P > 0
  BY <1>3, <1>7
<1>12. PICK e \in Int, f \in Int :
         e = l \div P /\ f = l % P /\ 0 <= f /\ f <= P - 1 /\ l = P * e + f
  BY ONLY <1>11, Divided
<1>13. e \in {0, 1}
  <2>1. ~(e >= 2)
    <3>1. ASSUME e >= 2 PROVE P * e >= 2 * P
      BY <1>3, <1>12, <3>1
    <3>2. P * e \in Int
      BY <1>3, <1>12
    <3> QED BY <1>3, <1>7, <1>12, <3>1, <3>2
  <2>2. ~(e <= -1)
    <3>1. ASSUME e <= -1 PROVE P * e <= -P
      BY <1>3, <1>12, <3>1
    <3>2. P * e \in Int
      BY <1>3, <1>12
    <3> QED BY <1>3, <1>7, <1>12, <3>1, <3>2
  <2> QED BY <1>12, <2>1, <2>2
<1>14. (l * C) \div (P * C) = e
  <2>1. l \in Int /\ P \in Int /\ P > 0 /\ C \in Int /\ C > 0
    BY <1>3, <1>7
  <2>2. (l * C) \div (P * C) = l \div P
    BY ONLY <2>1, DivScale
  <2> QED BY <1>12, <2>2
<1>15. Bit(l * C, XLEN - 1) = e
  <2>1. e % 2 = e
    BY <1>13
  <2> QED BY <1>4, <1>14, <2>1 DEF Bit
<1>16. A \div P = 2 * h + e
  <2>0. h \in Int /\ e \in Int /\ f \in Int /\ P \in Int /\ P > 0 /\ 0 <= f /\ f < P /\ A \in Int
    BY <1>3, <1>5, <1>7, <1>12
  <2>1. A = P * (2 * h + e) + f
    <3>1. P * (2 * h + e) = (2 * P) * h + P * e
      BY ONLY <2>0
    <3>2. (2 * P) * h \in Int /\ P * e \in Int
      BY <1>3, <1>7, <1>12
    <3> QED BY <1>7, <1>12, <3>1, <3>2
  <2>2. 2 * h + e \in Int
    BY <1>7, <1>12
  <2>3. PICK k : k = 2 * h + e
    OBVIOUS
  <2>4. k \in Int /\ A = P * k + f
    BY <2>1, <2>2, <2>3
  <2>5. A \div P = k
    BY ONLY <2>0, <2>4, ModIs
  <2> QED BY <2>3, <2>5
<1> QED BY <1>2, <1>3, <1>7, <1>10, <1>13, <1>15, <1>16

(* One step of restoring division, on naturals: c bits of A are in.         *)
LEMMA DivisionStep ==
  ASSUME NEW A \in Word, NEW D \in Word, NEW c \in 0 .. XLEN - 1, NEW q \in Nat, NEW r \in Nat,
         r < D, A \div 2^(XLEN - c) = D * q + r,
         NEW bit, bit = Bit(Wrap(A * 2^c), XLEN - 1),
         NEW trial, trial = 2 * Wrap(r) + bit,
         NEW q2, q2 = Wrap(2 * q) + (IF trial >= D THEN 1 ELSE 0),
         NEW r2, r2 = (IF trial >= D THEN trial - D ELSE trial)
  PROVE  /\ q2 \in Nat /\ r2 \in Nat /\ r2 < D
         /\ A \div 2^(XLEN - c - 1) = D * q2 + r2
         /\ Wrap(2 * Wrap(A * 2^c)) = Wrap(A * 2^(c + 1))
<1>1. c \in Nat /\ c <= XLEN - 1 /\ XLEN - c \in Nat /\ XLEN - c + c = XLEN /\ XLEN \in Nat
  BY XlenPow
<1>2. PICK P, C, M : P = 2^(XLEN - c) /\ C = 2^c /\ M = 2^XLEN
  OBVIOUS
<1>3. P \in Nat \ {0} /\ C \in Nat \ {0} /\ M \in Nat \ {0} /\ M = P * C /\ 2 * C <= M
  <2>1. P \in Nat \ {0} /\ C \in Nat \ {0} /\ M \in Nat \ {0}
    BY <1>1, <1>2, PowType
  <2>2. M = P * C
    BY <1>1, <1>2, PowSum
  <2>3. 2^(c + 1) = 2 * C /\ 2^(c + 1) <= M
    <3>1. c + 1 \in Nat /\ c + 1 <= XLEN
      BY <1>1
    <3> QED BY <1>1, <1>2, <3>1, PowStep, PowOrder
  <2> QED BY <2>1, <2>2, <2>3
<1>4. A \in Nat /\ A < M /\ D \in Nat /\ D < M
  BY <1>2, <1>3 DEF Word
<1>5. PICK x : x = A \div P
  OBVIOUS
<1>6. x \in Int /\ x < C
  <2>1. A \in Int /\ P \in Int /\ P > 0
    BY <1>3, <1>4
  <2>2. PICK g \in Int, l \in Int :
          g = A \div P /\ l = A % P /\ 0 <= l /\ l <= P - 1 /\ A = P * g + l
    BY ONLY <2>1, Divided
  <2>3. ASSUME g >= C PROVE P * g >= P * C
    BY <1>3, <2>3
  <2>4. P * g \in Int
    BY <1>3, <2>2
  <2>5. ~(g >= C)
    BY <1>3, <1>4, <2>2, <2>3, <2>4
  <2> QED BY <1>3, <1>5, <2>2, <2>5
<1>7. q <= x /\ x = D * q + r /\ D >= 1
  <2>1. x = D * q + r
    BY <1>2, <1>5
  <2>2. D >= 1
    BY <1>4
  <2>3. D * q >= q /\ D * q \in Int
    BY <1>4, <2>2
  <2> QED BY <1>6, <2>1, <2>2, <2>3
<1>8. Wrap(2 * q) = 2 * q /\ Wrap(r) = r
  <2>1. 2 * q < M /\ r < M
    BY <1>3, <1>4, <1>6, <1>7
  <2>2. 2 * q \in Word /\ r \in Word
    BY <1>2, <1>3, <2>1 DEF Word
  <2> QED BY <2>2, WrapWord
<1>9. bit \in {0, 1} /\ A \div 2^(XLEN - c - 1) = 2 * x + bit
  BY <1>2, <1>5, NextBit
<1>10. trial = 2 * r + bit /\ q2 = 2 * q + (IF trial >= D THEN 1 ELSE 0)
  BY <1>8
<1>11. q2 \in Nat /\ r2 \in Nat /\ r2 < D
  BY <1>4, <1>9, <1>10
<1>12. 2 * x + bit = D * q2 + r2
  <2>1. PICK y : y = D * q
    OBVIOUS
  <2>2. y \in Int /\ x = y + r
    BY <1>4, <1>7, <2>1
  <2>3. D * (2 * q) = 2 * y /\ D * (2 * q + 1) = 2 * y + D
    BY <1>4, <2>1
  <2>4. CASE trial >= D
    <3>1. q2 = 2 * q + 1 /\ r2 = trial - D
      BY <1>8, <2>4
    <3>2. D * q2 = 2 * y + D
      BY <2>3, <3>1
    <3> QED BY <1>4, <1>9, <1>10, <2>2, <3>1, <3>2
  <2>5. CASE ~(trial >= D)
    <3>1. q2 = 2 * q /\ r2 = trial
      <4>1. q2 = 2 * q + 0 /\ r2 = trial
        BY <1>8, <2>5
      <4> QED BY <4>1
    <3>2. D * q2 = 2 * y
      BY <2>3, <3>1
    <3> QED BY <1>4, <1>9, <1>10, <2>2, <3>1, <3>2
  <2> QED BY <2>4, <2>5
<1>13. Wrap(2 * Wrap(A * 2^c)) = Wrap(A * 2^(c + 1))
  <2>0. PICK z : z = A * C
    OBVIOUS
  <2>1. z \in Int
    BY <1>3, <1>4, <2>0
  <2>2. Wrap(2 * Wrap(z) + 0) = Wrap(2 * z + 0)
    BY ONLY <2>1, 2 \in Int, 0 \in Int, WrapSum
  <2>3. 2^(c + 1) = 2 * C
    BY <1>1, <1>2, PowStep
  <2>4. A * 2^(c + 1) = 2 * z + 0
    <3>1. A * (2 * C) = 2 * (A * C)
      BY <1>3, <1>4
    <3> QED BY <2>0, <2>1, <2>3, <3>1
  <2>5. Wrap(z) \in Int
    BY <2>1, WrapIn, XlenPow
  <2>6. 2 * Wrap(z) + 0 = 2 * Wrap(z)
    BY <2>5
  <2> QED BY <1>2, <2>0, <2>2, <2>4, <2>6
<1> QED BY <1>9, <1>11, <1>12, <1>13

(* Where a division begins, and what is there when every bit is in.         *)
LEMMA DivisionEnds ==
  ASSUME NEW A \in Word
  PROVE  /\ A \div 2^(XLEN - 0) = 0 /\ Wrap(A * 2^0) = A
         /\ \A D \in Word, q \in Nat, r \in Nat, c \in {XLEN} :
              r < D /\ A \div 2^(XLEN - c) = D * q + r => q = A \div D /\ r = A % D
<1>1. PICK M : M = 2^XLEN
  OBVIOUS
<1>2. M \in Nat \ {0} /\ A \in Nat /\ A < M /\ XLEN - 0 = XLEN /\ XLEN - XLEN = 0
  BY <1>1, XlenPow
<1>3. A \div M = 0
  <2>1. A = M * 0 + A
    BY <1>2
  <2> QED BY <1>2, <2>1, ModIs
<1>4. Wrap(A * 2^0) = A
  <2>1. A * 2^0 = A
    BY <1>2, PowSmall
  <2> QED BY <2>1, WrapWord
<1>5. ASSUME NEW D \in Word, NEW q \in Nat, NEW r \in Nat, NEW c \in {XLEN},
             r < D, A \div 2^(XLEN - c) = D * q + r
      PROVE  q = A \div D /\ r = A % D
  <2>1. 2^(XLEN - c) = 1
    BY <1>2, PowSmall
  <2>2. A \div 1 = A
    BY <1>2
  <2>3. A = D * q + r
    BY <1>5, <2>1, <2>2
  <2>4. D \in Int /\ D > 0
    BY <1>5, XlenPow
  <2>5. A \in Int /\ q \in Int /\ r \in Int /\ 0 <= r /\ r < D
    BY <1>2, <1>5
  <2> QED BY ONLY <2>3, <2>4, <2>5, ModIs
<1> QED BY <1>1, <1>2, <1>3, <1>4, <1>5
-----------------------------------------------------------------------------
(* Signs.                                                                   *)
LEMMA NegateIs == ASSUME NEW x \in Word PROVE Negate(x) = Wrap(-x)
<1>1. PICK M : M = 2^XLEN
  OBVIOUS
<1>2. M \in Int /\ M > 0 /\ x \in Int
  BY <1>1, XlenPow
<1>3. M - 1 - x + 1 = -x + M * 1 /\ -x \in Int
  BY <1>2
<1>4. Wrap(-x + M * 1) = Wrap(-x)
  BY <1>1, <1>2, <1>3, WrapShift
<1> QED BY <1>1, <1>3, <1>4 DEF Negate, BitNot

LEMMA SignedIs ==
  ASSUME NEW x \in Word
  PROVE  /\ x \in Nat /\ Signed(x) \in Int /\ SignBit(x) \in BOOLEAN
         /\ Signed(x) = (IF SignBit(x) THEN x - 2^XLEN ELSE x)
         /\ (SignBit(x) <=> Signed(x) < 0) /\ Wrap(Signed(x)) = x
         /\ (Signed(x) = 0 <=> x = 0)
<1>1. PICK M, H : M = 2^XLEN /\ H = 2^(XLEN - 1)
  OBVIOUS
<1>2. M \in Int /\ H \in Int /\ M = 2 * H /\ H > 0 /\ x \in Int /\ 0 <= x /\ x < M
  BY <1>1, XlenPow
<1>3. Signed(x) = (IF x >= H THEN x - M ELSE x) /\ (SignBit(x) <=> x >= H) /\ SignBit(x) \in BOOLEAN
  BY <1>1 DEF Signed, SignBit
<1>4. Wrap(x - M) = x /\ Wrap(x) = x
  <2>1. Wrap(x) = x
    BY WrapWord
  <2>2. x - M = x + M * (-1)
    BY <1>2
  <2>3. Wrap(x - M) = Wrap(x)
    BY <1>1, <1>2, <2>2, WrapShift
  <2> QED BY <2>1, <2>3
<1>5. CASE x >= H
  <2>1. Signed(x) = x - M /\ SignBit(x)
    BY <1>3, <1>5
  <2>2. x - M < 0 /\ x # 0 /\ x - M # 0 /\ x - M \in Int
    BY <1>2, <1>5
  <2> QED BY <1>1, <1>2, <1>3, <1>4, <2>1, <2>2
<1>6. CASE ~(x >= H)
  <2>1. Signed(x) = x /\ ~SignBit(x)
    BY <1>3, <1>6
  <2>2. ~(x < 0)
    BY <1>2
  <2> QED BY <1>1, <1>2, <1>3, <1>4, <2>1, <2>2
<1> QED BY <1>5, <1>6

SignedDivision == {"DIV", "REM"}
Value(op, x) == IF op \in SignedDivision THEN Signed(x) ELSE x

LEMMA MagnitudeIs ==
  ASSUME NEW x \in Word, NEW op
  PROVE  /\ Value(op, x) \in Int /\ Wrap(Value(op, x)) = x
         /\ Magnitude(op, x) \in Word /\ Magnitude(op, x) = Abs(Value(op, x))
         /\ x # 0 => Magnitude(op, x) > 0 /\ Value(op, x) # 0
         /\ x = 0 => Value(op, x) = 0
         /\ (op \in SignedDivision /\ SignBit(x)) <=> Value(op, x) < 0
<1>1. PICK M, H : M = 2^XLEN /\ H = 2^(XLEN - 1)
  OBVIOUS
<1>2. M \in Int /\ H \in Int /\ M = 2 * H /\ H > 0 /\ Word = 0 .. M - 1 /\ x \in Int /\ 0 <= x /\ x < M
  BY <1>1, XlenPow
<1>3. CASE op \in SignedDivision /\ SignBit(x)
  <2>1. Value(op, x) = x - M /\ x >= H /\ Value(op, x) < 0
    BY <1>1, <1>3, SignedIs DEF Value, SignBit
  <2>2. Magnitude(op, x) = Wrap(-x)
    BY <1>3, NegateIs DEF Magnitude, SignedDivision
  <2>3. Wrap(-x) = M - x
    <3>1. M - x \in Word /\ -x = M * (-1) + (M - x)
      BY <1>2, <2>1
    <3>2. PICK y : y = M - x
      OBVIOUS
    <3>3. -x = M * (-1) + y /\ y \in Word /\ -x \in Int /\ -1 \in Int
      BY <1>2, <3>1, <3>2
    <3>4. Wrap(-x) = y
      BY ONLY <1>1, <3>3, WrapIs
    <3> QED BY <3>2, <3>4
  <2>4. Abs(x - M) = M - x
    BY <1>2, <2>1 DEF Abs
  <2>5. Wrap(Value(op, x)) = x
    BY <1>3, SignedIs DEF Value
  <2>6. M - x \in Word /\ M - x > 0 /\ x # 0 /\ x - M # 0 /\ x - M \in Int
    BY <1>2, <2>1
  <2> QED BY <1>3, <2>1, <2>2, <2>3, <2>4, <2>5, <2>6
<1>4. CASE ~(op \in SignedDivision /\ SignBit(x))
  <2>1. Value(op, x) = x
    BY <1>4, SignedIs DEF Value
  <2>2. Magnitude(op, x) = x
    BY <1>4 DEF Magnitude, SignedDivision
  <2>3. Abs(x) = x /\ Wrap(x) = x
    BY <1>2, WrapWord DEF Abs
  <2> QED BY <1>2, <1>4, <2>1, <2>2, <2>3
<1> QED BY <1>3, <1>4

(* Division of integers by way of that of their magnitudes.                 *)
LEMMA DivideIs ==
  ASSUME NEW x \in Int, NEW y \in Int, y # 0,
         NEW q, q = Abs(x) \div Abs(y), NEW r, r = Abs(x) % Abs(y)
  PROVE  /\ q \in Int /\ r \in Int
         /\ Divide(x, y) = (IF (x < 0) # (y < 0) THEN -q ELSE q)
         /\ Remainder(x, y) = (IF x < 0 THEN -r ELSE r)
<1>1. Abs(x) \in Int /\ Abs(y) \in Int /\ Abs(y) > 0
      /\ x = (IF x < 0 THEN -Abs(x) ELSE Abs(x)) /\ y = (IF y < 0 THEN -Abs(y) ELSE Abs(y))
  BY DEF Abs
<1>2. PICK v, w : v = Abs(x) /\ w = Abs(y)
  OBVIOUS
<1>3. v \in Int /\ w \in Int /\ w > 0 /\ q = v \div w /\ r = v % w
  BY <1>1, <1>2
<1>4. q \in Int /\ r \in Int /\ v = w * q + r
  BY ONLY <1>3, DivMod
<1>5. PICK p : p = w * q
  OBVIOUS
<1>6. p \in Int /\ v = p + r
  BY <1>3, <1>4, <1>5
<1>7. Truncated(x, y) = (IF (x < 0) # (y < 0) THEN -q ELSE q)
  BY <1>2, <1>3 DEF Truncated
<1>8. Divide(x, y) = Truncated(x, y) /\ Remainder(x, y) = x - y * Truncated(x, y)
  BY DEF Divide, Remainder
<1>9. (-w) * q = -p /\ (-w) * (-q) = p /\ w * (-q) = -p
  BY <1>3, <1>4, <1>5
<1>10. CASE x < 0 /\ y < 0
  <2>1. Truncated(x, y) = q /\ y = -w /\ x = -v
    BY <1>1, <1>2, <1>7, <1>10
  <2>2. y * Truncated(x, y) = -p
    BY <1>9, <2>1
  <2> QED BY <1>4, <1>6, <1>7, <1>8, <1>10, <2>1, <2>2
<1>11. CASE x < 0 /\ ~(y < 0)
  <2>1. Truncated(x, y) = -q /\ y = w /\ x = -v
    BY <1>1, <1>2, <1>7, <1>11
  <2>2. y * Truncated(x, y) = -p
    BY <1>9, <2>1
  <2> QED BY <1>4, <1>6, <1>7, <1>8, <1>11, <2>1, <2>2
<1>12. CASE ~(x < 0) /\ y < 0
  <2>1. Truncated(x, y) = -q /\ y = -w /\ x = v
    BY <1>1, <1>2, <1>7, <1>12
  <2>2. y * Truncated(x, y) = p
    BY <1>9, <2>1
  <2> QED BY <1>4, <1>6, <1>7, <1>8, <1>12, <2>1, <2>2
<1>13. CASE ~(x < 0) /\ ~(y < 0)
  <2>1. Truncated(x, y) = q /\ y = w /\ x = v
    BY <1>1, <1>2, <1>7, <1>13
  <2>2. y * Truncated(x, y) = p
    BY <1>5, <2>1
  <2> QED BY <1>4, <1>6, <1>7, <1>8, <1>13, <2>1, <2>2
<1> QED BY <1>10, <1>11, <1>12, <1>13

-----------------------------------------------------------------------------
(* The divider, clock edge by clock edge.                                   *)
DivRegs ==
  [busy : BOOLEAN, done : BOOLEAN, op : ALU_DIV_OPS, count : 0 .. XLEN - 1,
   dividend : Word, divisor : Word, quotient : Nat, remainder : Nat,
   quotient_neg : BOOLEAN, remainder_neg : BOOLEAN, result : Nat]

Halfway(u, a) ==
  /\ u.remainder < u.divisor
  /\ u.dividend = Wrap(Magnitude(u.op, a) * 2^u.count)
  /\ Magnitude(u.op, a) \div 2^(XLEN - u.count) = u.divisor * u.quotient + u.remainder
Dividing(u, a, b) ==
  /\ b # 0 /\ u.divisor = Magnitude(u.op, b) /\ Halfway(u, a)
  /\ u.quotient_neg <=> u.op = "DIV" /\ SignBit(a) # SignBit(b)
  /\ u.remainder_neg <=> u.op = "REM" /\ SignBit(a)

DivResult(op, a, b) ==
  IF op \in {"DIV", "DIVU"} THEN Divide(Value(op, a), Value(op, b))
                            ELSE Remainder(Value(op, a), Value(op, b))
Delivers(u, a, b) == u.result = Wrap(DivResult(u.op, a, b))

LEMMA DivByZero ==
  ASSUME NEW a \in Word, NEW op
  PROVE  Wrap(DivResult(op, a, 0)) = (IF op \in {"DIV", "DIVU"} THEN 2^XLEN - 1 ELSE a)
<1>1. 0 \in Word /\ 2^XLEN - 1 \in Word /\ 2^XLEN \in Int
  BY XlenPow
<1>2. Value(op, 0) = 0
  BY <1>1, MagnitudeIs
<1>3. Wrap(-1) = 2^XLEN - 1
  <2>1. PICK M : M = 2^XLEN
    OBVIOUS
  <2>2. -1 = M * (-1) + (M - 1) /\ M - 1 \in Word
    BY <1>1, <2>1
  <2> QED BY <2>1, <2>2, WrapIs
<1>4. Divide(Value(op, a), 0) = -1 /\ Remainder(Value(op, a), 0) = Value(op, a)
  BY DEF Divide, Remainder
<1>5. Wrap(Value(op, a)) = a
  BY MagnitudeIs
<1> QED BY <1>2, <1>3, <1>4, <1>5 DEF DivResult

LEMMA DivOverflow ==
  ASSUME NEW op \in SignedDivision, NEW a, NEW b, a = 2^(XLEN - 1), b = 2^XLEN - 1
  PROVE  Wrap(DivResult(op, a, b)) = (IF op = "DIV" THEN 2^(XLEN - 1) ELSE 0)
<1>1. PICK M, H : M = 2^XLEN /\ H = 2^(XLEN - 1)
  OBVIOUS
<1>2. M \in Int /\ H \in Int /\ M = 2 * H /\ H > 0 /\ Word = 0 .. M - 1
  BY <1>1, XlenPow
<1>3. a = H /\ b = M - 1 /\ Value(op, a) = -H /\ Value(op, b) = -1
  <2>1. a = H /\ b = M - 1 /\ H - M = -H /\ (M - 1) - M = -1 /\ M - 1 >= H
    BY <1>1, <1>2
  <2>2. SignBit(a) /\ SignBit(b)
    BY <1>1, <1>2, <2>1 DEF SignBit
  <2>3. Signed(a) = a - M /\ Signed(b) = b - M
    BY <1>1, <2>2 DEF Signed
  <2> QED BY <2>1, <2>3 DEF Value
<1>4. Truncated(-H, -1) = H
  <2>1. Abs(-H) = H /\ Abs(-1) = 1 /\ -H < 0 /\ -1 < 0
    <3>1. PICK x \in Int, y \in Int : x = -H /\ y + 1 = 0
      <4>1. -H \in Int /\ -1 \in Int /\ -1 + 1 = 0
        BY <1>2
      <4> QED BY <4>1
    <3>2. x < 0 /\ -x = H /\ y = -1 /\ -y = 1 /\ y < 0
      BY <1>2, <3>1
    <3>3. Abs(x) = H /\ Abs(y) = 1
      BY <3>2 DEF Abs
    <3> QED BY <3>1, <3>2, <3>3
  <2>2. H \div 1 = H
    BY <1>2
  <2> QED BY <2>1, <2>2 DEF Truncated
<1>5. Divide(-H, -1) = H /\ Remainder(-H, -1) = 0
  <2>1. -1 # 0 /\ -H - (-1) * H = 0
    BY <1>2
  <2> QED BY <1>4, <2>1 DEF Divide, Remainder
<1>6. Wrap(H) = H /\ Wrap(0) = 0
  <2>1. H \in Word /\ 0 \in Word
    BY <1>2
  <2> QED BY <2>1, WrapWord
<1> QED BY <1>1, <1>3, <1>5, <1>6 DEF DivResult, SignedDivision

LEMMA DivStartIs ==
  ASSUME NEW u \in DivRegs, NEW op \in ALU_DIV_OPS, NEW a \in Word, NEW b \in Word,
         NEW n, n = DivStart(u, op, a, b)
  PROVE  /\ n \in DivRegs /\ n.op = op
         /\ n.busy => Dividing(n, a, b) /\ (n.done <=> u.done)
         /\ ~n.busy => n.done /\ Delivers(n, a, b)
<1>0. 0 \in 0 .. XLEN - 1 /\ 2^XLEN - 1 \in Nat /\ 2^(XLEN - 1) \in Nat /\ a \in Nat /\ b \in Nat
  BY XlenPow, SignedIs
<1>1. CASE b = 0
  <2>1. n = [u EXCEPT !.op = op, !.count = 0, !.busy = FALSE, !.done = TRUE,
               !.result = IF op \in {"DIV", "DIVU"} THEN 2^XLEN - 1 ELSE a]
    <3>1. 2^XLEN - 1 # 0
      BY XlenPow
    <3> QED BY <1>1, <3>1 DEF DivStart
  <2>2. (IF op \in {"DIV", "DIVU"} THEN 2^XLEN - 1 ELSE a) \in Nat
    BY <1>0
  <2>3. PICK v : v = IF op \in {"DIV", "DIVU"} THEN 2^XLEN - 1 ELSE a
    OBVIOUS
  <2>4. n = [u EXCEPT !.op = op, !.count = 0, !.busy = FALSE, !.done = TRUE, !.result = v] /\ v \in Nat
    BY <2>1, <2>2, <2>3
  <2>5. n \in DivRegs /\ n.op = op /\ n.busy = FALSE /\ n.done = TRUE /\ n.result = v
    BY ONLY <2>4, <1>0, u \in DivRegs, op \in ALU_DIV_OPS DEF DivRegs
  <2>6. Delivers(n, a, b)
    BY <1>1, <2>3, <2>5, DivByZero DEF Delivers
  <2> QED BY <2>5, <2>6
<1>2. CASE b # 0 /\ op \in {"DIV", "REM"} /\ a = 2^(XLEN - 1) /\ b = 2^XLEN - 1
  <2>1. n = [u EXCEPT !.op = op, !.count = 0, !.busy = FALSE, !.done = TRUE,
               !.result = IF op = "DIV" THEN 2^(XLEN - 1) ELSE 0]
    BY <1>2 DEF DivStart
  <2>2. (IF op = "DIV" THEN 2^(XLEN - 1) ELSE 0) \in Nat
    BY <1>0
  <2>3. PICK v : v = IF op = "DIV" THEN 2^(XLEN - 1) ELSE 0
    OBVIOUS
  <2>4. n = [u EXCEPT !.op = op, !.count = 0, !.busy = FALSE, !.done = TRUE, !.result = v] /\ v \in Nat
    BY <2>1, <2>2, <2>3
  <2>5. n \in DivRegs /\ n.op = op /\ n.busy = FALSE /\ n.done = TRUE /\ n.result = v
    BY ONLY <2>4, <1>0, u \in DivRegs, op \in ALU_DIV_OPS DEF DivRegs
  <2>6. Delivers(n, a, b)
    BY <1>2, <2>3, <2>5, DivOverflow DEF Delivers, SignedDivision
  <2> QED BY <2>5, <2>6
<1>3. CASE b # 0 /\ ~(op \in {"DIV", "REM"} /\ a = 2^(XLEN - 1) /\ b = 2^XLEN - 1)
  <2>1. PICK A, D, qn, rn :
          /\ A = Magnitude(op, a) /\ D = Magnitude(op, b)
          /\ qn = (op = "DIV" /\ SignBit(a) # SignBit(b)) /\ rn = (op = "REM" /\ SignBit(a))
    OBVIOUS
  <2>2. n = [u EXCEPT !.op = op, !.count = 0, !.busy = TRUE, !.dividend = A, !.divisor = D,
               !.quotient = 0, !.remainder = 0, !.quotient_neg = qn, !.remainder_neg = rn]
    BY <1>3, <2>1 DEF DivStart
  <2>3. A \in Word /\ D \in Word /\ D \in Nat /\ D > 0
    BY <1>3, <2>1, MagnitudeIs, WrapWord
  <2>4. qn \in BOOLEAN /\ rn \in BOOLEAN
    BY <2>1
  <2>5. n \in DivRegs
    BY ONLY <2>2, <2>3, <2>4, <1>0, u \in DivRegs, op \in ALU_DIV_OPS DEF DivRegs
  <2>6. /\ n.op = op /\ n.busy = TRUE /\ n.done = u.done /\ n.count = 0 /\ n.dividend = A
        /\ n.divisor = D /\ n.quotient = 0 /\ n.remainder = 0 /\ n.quotient_neg = qn /\ n.remainder_neg = rn
    BY ONLY <2>2, u \in DivRegs DEF DivRegs
  <2>7. Halfway(n, a)
    <3>1. A \div 2^(XLEN - 0) = 0 /\ Wrap(A * 2^0) = A
      BY <2>3, DivisionEnds
    <3>2. D * 0 + 0 = 0 /\ 0 < D
      BY <2>3
    <3>3. n.remainder < n.divisor
      BY <2>6, <3>2
    <3>4. n.dividend = Wrap(Magnitude(n.op, a) * 2^n.count)
      BY <2>1, <2>6, <3>1
    <3>5. Magnitude(n.op, a) \div 2^(XLEN - n.count) = n.divisor * n.quotient + n.remainder
      BY <2>1, <2>6, <3>1, <3>2
    <3> QED BY <3>3, <3>4, <3>5 DEF Halfway
  <2> QED BY <1>3, <2>1, <2>5, <2>6, <2>7 DEF Dividing
<1> QED BY <1>1, <1>2, <1>3

LEMMA DivEnd ==
  ASSUME NEW op \in ALU_DIV_OPS, NEW a \in Word, NEW b \in Word, b # 0,
         NEW q \in Nat, NEW r \in Nat, r < Magnitude(op, b),
         Magnitude(op, a) \div 2^(XLEN - XLEN) = Magnitude(op, b) * q + r,
         NEW v, v = (IF op \in {"DIV", "DIVU"}
                       THEN IF op = "DIV" /\ SignBit(a) # SignBit(b) THEN Negate(q) ELSE q
                       ELSE IF op = "REM" /\ SignBit(a) THEN Negate(Wrap(r)) ELSE Wrap(r))
  PROVE  v = Wrap(DivResult(op, a, b)) /\ v \in Nat
<1>1. PICK A, D, x, y : A = Magnitude(op, a) /\ D = Magnitude(op, b) /\ x = Value(op, a) /\ y = Value(op, b)
  OBVIOUS
<1>2. A \in Word /\ D \in Word /\ D > 0 /\ x \in Int /\ y \in Int /\ y # 0 /\ A = Abs(x) /\ D = Abs(y)
  BY <1>1, MagnitudeIs
<1>3. q = A \div D /\ r = A % D
  BY <1>1, <1>2, DivisionEnds
<1>4. /\ Divide(x, y) = (IF (x < 0) # (y < 0) THEN -q ELSE q)
      /\ Remainder(x, y) = (IF x < 0 THEN -r ELSE r)
  BY ONLY <1>2, <1>3, DivideIs
<1>5. (op \in SignedDivision /\ SignBit(a) <=> x < 0) /\ (op \in SignedDivision /\ SignBit(b) <=> y < 0)
  BY <1>1, MagnitudeIs
<1>6. q \in Word /\ r \in Word /\ Wrap(r) = r
  <2>1. PICK M : M = 2^XLEN
    OBVIOUS
  <2>2. M \in Int /\ Word = 0 .. M - 1 /\ A \in Int /\ D \in Int /\ A < M /\ D < M
    BY <1>2, <2>1, XlenPow
  <2>3. A \in Int /\ D \in Int /\ D > 0
    BY <1>2, <2>2
  <2>4. A = D * q + r
    BY ONLY <1>3, <2>3, DivMod
  <2>5. D * q >= q /\ D * q \in Int
    BY <2>3
  <2>6. q < M /\ r < M
    BY <1>1, <2>2, <2>4, <2>5
  <2>7. q \in Word /\ r \in Word
    BY <2>2, <2>6
  <2> QED BY <2>7, WrapWord
<1>7. Wrap(q) = q /\ Negate(q) = Wrap(-q) /\ Negate(r) = Wrap(-r)
  BY <1>6, WrapWord, NegateIs
<1>8. SignBit(a) \in BOOLEAN /\ SignBit(b) \in BOOLEAN
  BY SignedIs
<1>9. v = Wrap(DivResult(op, a, b))
  <2>1. CASE op = "DIV"
    <3>1. op \in SignedDivision /\ op \in {"DIV", "DIVU"}
      BY <2>1 DEF SignedDivision
    <3>2. (SignBit(a) # SignBit(b)) <=> ((x < 0) # (y < 0))
      BY <1>5, <1>8, <3>1
    <3>3. v = IF SignBit(a) # SignBit(b) THEN Wrap(-q) ELSE Wrap(q)
      BY <1>7, <2>1, <3>1
    <3> QED BY <1>1, <1>4, <3>1, <3>2, <3>3 DEF DivResult
  <2>2. CASE op = "DIVU"
    <3>1. op \notin SignedDivision /\ op \in {"DIV", "DIVU"} /\ op # "DIV"
      BY <2>2 DEF SignedDivision
    <3>2. ~((x < 0) # (y < 0))
      BY <1>5, <3>1
    <3>3. v = Wrap(q)
      BY <1>7, <3>1
    <3> QED BY <1>1, <1>4, <3>1, <3>2, <3>3 DEF DivResult
  <2>3. CASE op = "REM"
    <3>1. op \in SignedDivision /\ op \notin {"DIV", "DIVU"}
      BY <2>3 DEF SignedDivision
    <3>2. SignBit(a) <=> x < 0
      BY <1>5, <3>1
    <3>3. v = IF SignBit(a) THEN Wrap(-r) ELSE Wrap(r)
      BY <1>6, <1>7, <2>3, <3>1
    <3> QED BY <1>1, <1>4, <3>1, <3>2, <3>3 DEF DivResult
  <2>4. CASE op = "REMU"
    <3>1. op \notin SignedDivision /\ op \notin {"DIV", "DIVU"} /\ op # "REM"
      BY <2>4 DEF SignedDivision
    <3>2. ~(x < 0)
      BY <1>5, <3>1
    <3>3. v = Wrap(r)
      BY <3>1
    <3> QED BY <1>1, <1>4, <3>1, <3>2, <3>3 DEF DivResult
  <2> QED BY <2>1, <2>2, <2>3, <2>4 DEF ALU_DIV_OPS
<1>10. DivResult(op, a, b) \in Int
  BY <1>1, <1>4 DEF DivResult
<1> QED BY <1>9, <1>10, WrapIn, WrapWord

LEMMA DivStepIs ==
  ASSUME NEW u \in DivRegs, NEW a \in Word, NEW b \in Word, Dividing(u, a, b),
         NEW n, n = DivStep(u)
  PROVE  /\ n \in DivRegs /\ n.op = u.op
         /\ n.busy => Dividing(n, a, b) /\ (n.done <=> u.done)
         /\ ~n.busy => n.done /\ Delivers(n, a, b)
<1>1. PICK op, c, A, D, q, r, last, trial, q2, r2, v :
        /\ op = u.op /\ c = u.count /\ A = Magnitude(u.op, a) /\ D = u.divisor
        /\ q = u.quotient /\ r = u.remainder /\ last = (c = XLEN - 1)
        /\ trial = 2 * Wrap(r) + Bit(u.dividend, XLEN - 1)
        /\ q2 = Wrap(2 * q) + (IF trial >= D THEN 1 ELSE 0)
        /\ r2 = (IF trial >= D THEN trial - D ELSE trial)
        /\ v = (IF ~last THEN u.result
                ELSE IF op \in {"DIV", "DIVU"}
                       THEN IF u.quotient_neg THEN Negate(q2) ELSE q2
                       ELSE IF u.remainder_neg THEN Negate(Wrap(r2)) ELSE Wrap(r2))
  OBVIOUS
<1>2. n = [u EXCEPT !.dividend = Wrap(2 * u.dividend), !.quotient = q2, !.remainder = r2,
             !.count = IF last THEN c ELSE c + 1, !.busy = ~last, !.done = u.done \/ last, !.result = v]
  BY <1>1 DEF DivStep
<1>3. /\ op \in ALU_DIV_OPS /\ c \in 0 .. XLEN - 1 /\ A \in Word /\ D \in Word /\ q \in Nat /\ r \in Nat
      /\ last \in BOOLEAN /\ u.dividend \in Word /\ u.result \in Nat /\ D = Magnitude(op, b)
      /\ u.dividend = Wrap(A * 2^c) /\ b # 0 /\ r < D /\ A \div 2^(XLEN - c) = D * q + r
  BY <1>1, MagnitudeIs DEF DivRegs, Dividing, Halfway
<1>4. trial = 2 * Wrap(r) + Bit(Wrap(A * 2^c), XLEN - 1)
  BY <1>1, <1>3
<1>5. /\ q2 \in Nat /\ r2 \in Nat /\ r2 < D /\ A \div 2^(XLEN - c - 1) = D * q2 + r2
      /\ Wrap(2 * Wrap(A * 2^c)) = Wrap(A * 2^(c + 1))
  <2>1. PICK bit : bit = Bit(Wrap(A * 2^c), XLEN - 1)
    OBVIOUS
  <2>2. trial = 2 * Wrap(r) + bit
    BY <1>4, <2>1
  <2>3. q2 = Wrap(2 * q) + (IF trial >= D THEN 1 ELSE 0) /\ r2 = (IF trial >= D THEN trial - D ELSE trial)
    BY <1>1
  <2> QED BY ONLY <1>3, <2>1, <2>2, <2>3, DivisionStep
<1>6. Wrap(2 * u.dividend) = Wrap(A * 2^(c + 1)) /\ Wrap(2 * u.dividend) \in Word
  <2>1. 2 * u.dividend \in Int
    BY <1>3, XlenPow
  <2> QED BY <1>3, <1>5, <2>1, WrapIn
<1>7. XLEN \in Nat /\ XLEN > 0
  BY XlenPow
<1>8. (u.quotient_neg <=> op = "DIV" /\ SignBit(a) # SignBit(b)) /\ (u.remainder_neg <=> op = "REM" /\ SignBit(a))
  BY <1>1 DEF Dividing
<1>9. last => v = Wrap(DivResult(op, a, b)) /\ v \in Nat
  <2>1. SUFFICES ASSUME last PROVE v = Wrap(DivResult(op, a, b)) /\ v \in Nat
    OBVIOUS
  <2>2. XLEN - c - 1 = XLEN - XLEN
    <3>1. c = XLEN - 1
      BY <1>1, <2>1
    <3> QED BY <1>7, <3>1
  <2>3. v = (IF op \in {"DIV", "DIVU"}
               THEN IF op = "DIV" /\ SignBit(a) # SignBit(b) THEN Negate(q2) ELSE q2
               ELSE IF op = "REM" /\ SignBit(a) THEN Negate(Wrap(r2)) ELSE Wrap(r2))
    BY <1>1, <1>8, <2>1
  <2>4. A = Magnitude(op, a)
    BY <1>1
  <2> QED BY ONLY <1>3, <1>5, <2>2, <2>3, <2>4, a \in Word, b \in Word, DivEnd
<1>10. v \in Nat
  BY <1>1, <1>3, <1>9
<1>11. PICK dd, cc, dn : dd = Wrap(2 * u.dividend) /\ cc = (IF last THEN c ELSE c + 1) /\ dn = (u.done \/ last)
  OBVIOUS
<1>12. dd \in Word /\ cc \in 0 .. XLEN - 1 /\ dn \in BOOLEAN
  <2>1. ~last => c # XLEN - 1
    BY <1>1
  <2>2. cc \in 0 .. XLEN - 1
    BY ONLY <1>3, <1>7, <1>11, <2>1
  <2>3. dn \in BOOLEAN
    BY <1>3, <1>11 DEF DivRegs
  <2> QED BY <1>6, <1>11, <2>2, <2>3
<1>13. n = [u EXCEPT !.dividend = dd, !.quotient = q2, !.remainder = r2,
              !.count = cc, !.busy = ~last, !.done = dn, !.result = v]
  BY <1>2, <1>11
<1>14. n \in DivRegs
  BY ONLY <1>3, <1>5, <1>10, <1>12, <1>13, u \in DivRegs DEF DivRegs
<1>15. /\ n.op = u.op /\ n.busy = ~last /\ n.done = dn /\ n.count = cc /\ n.dividend = dd
       /\ n.divisor = D /\ n.quotient = q2 /\ n.remainder = r2 /\ n.result = v
       /\ n.quotient_neg = u.quotient_neg /\ n.remainder_neg = u.remainder_neg
  BY ONLY <1>1, <1>13, u \in DivRegs DEF DivRegs
<1>16. ASSUME ~last PROVE Dividing(n, a, b)
  <2>1. cc = c + 1 /\ XLEN - (c + 1) = XLEN - c - 1
    BY <1>3, <1>7, <1>11, <1>16
  <2>2. n.remainder < n.divisor
    BY <1>5, <1>15
  <2>3. n.dividend = Wrap(Magnitude(n.op, a) * 2^n.count)
    BY <1>1, <1>6, <1>11, <1>15, <2>1
  <2>4. Magnitude(n.op, a) \div 2^(XLEN - n.count) = n.divisor * n.quotient + n.remainder
    BY <1>1, <1>5, <1>15, <2>1
  <2>5. Halfway(n, a)
    BY <2>2, <2>3, <2>4 DEF Halfway
  <2> QED BY <1>1, <1>3, <1>8, <1>15, <2>5 DEF Dividing
<1>17. ASSUME last PROVE Delivers(n, a, b)
  BY <1>1, <1>9, <1>15, <1>17 DEF Delivers
<1>18. (~last => (dn <=> u.done)) /\ (last => dn)
  BY <1>11
<1> QED BY <1>3, <1>14, <1>15, <1>16, <1>17, <1>18

(* The divider while the instruction op on a, b is in EX.                   *)
DivOk(u, op, a, b) ==
  /\ u \in DivRegs /\ ~(u.busy /\ u.done)
  /\ u.busy \/ u.done => op \in ALU_DIV_OPS /\ u.op = op
  /\ u.busy => Dividing(u, a, b)
  /\ u.done => Delivers(u, a, b)

(* One clock edge: the operands count in the cycle that starts the unit.    *)
LEMMA DivEdge ==
  ASSUME NEW a \in Word, NEW b \in Word, NEW op, NEW u, DivOk(u, op, a, b),
         NEW stall \in BOOLEAN, NEW start, start = DivStartNow(TRUE, op, u, stall),
         NEW x, NEW y, start => x = a /\ y = b,
         NEW n, n = DivNext(u, start, op, x, y, stall)
  PROVE  DivOk(n, op, a, b) /\ (u.done /\ ~stall => ~n.busy /\ ~n.done)
<1>1. u \in DivRegs /\ u.busy \in BOOLEAN /\ u.done \in BOOLEAN
  BY DEF DivOk, DivRegs
<1>2. start \in BOOLEAN /\ (start <=> op \in ALU_DIV_OPS /\ ~u.busy /\ ~u.done /\ ~stall)
  BY DEF DivStartNow
<1>3. PICK h : h = [u EXCEPT !.done = u.done /\ stall]
  OBVIOUS
<1>4. /\ h \in DivRegs /\ h.busy = u.busy /\ h.done = (u.done /\ stall) /\ h.op = u.op
      /\ h.result = u.result /\ h.count = u.count /\ h.dividend = u.dividend /\ h.divisor = u.divisor
      /\ h.quotient = u.quotient /\ h.remainder = u.remainder
      /\ h.quotient_neg = u.quotient_neg /\ h.remainder_neg = u.remainder_neg
  BY <1>1, <1>3 DEF DivRegs
<1>5. n = CASE start -> DivStart(h, op, x, y) [] ~start /\ u.busy -> DivStep(h) [] OTHER -> h
  BY <1>3 DEF DivNext
<1>6. CASE start
  <2>1. n = DivStart(h, op, a, b)
    BY <1>5, <1>6
  <2>2. op \in ALU_DIV_OPS /\ ~u.busy /\ ~u.done
    BY <1>2, <1>6
  <2>3. /\ n \in DivRegs /\ n.op = op
        /\ n.busy => Dividing(n, a, b) /\ (n.done <=> h.done)
        /\ ~n.busy => n.done /\ Delivers(n, a, b)
    BY ONLY <1>4, <2>1, <2>2, a \in Word, b \in Word, DivStartIs
  <2> QED BY <1>4, <2>2, <2>3 DEF DivOk
<1>7. CASE ~start /\ u.busy
  <2>1. n = DivStep(h)
    BY <1>5, <1>7
  <2>2. Dividing(u, a, b) /\ op \in ALU_DIV_OPS /\ u.op = op /\ ~u.done
    BY <1>7 DEF DivOk
  <2>3. Dividing(h, a, b)
    BY <1>4, <2>2 DEF Dividing, Halfway
  <2>4. /\ n \in DivRegs /\ n.op = h.op
        /\ n.busy => Dividing(n, a, b) /\ (n.done <=> h.done)
        /\ ~n.busy => n.done /\ Delivers(n, a, b)
    BY ONLY <1>4, <2>1, <2>3, a \in Word, b \in Word, DivStepIs
  <2> QED BY <1>4, <2>2, <2>4 DEF DivOk
<1>8. CASE ~start /\ ~u.busy
  <2>1. n = h
    BY <1>5, <1>8
  <2>2. Delivers(u, a, b) => Delivers(h, a, b)
    BY <1>4 DEF Delivers
  <2> QED BY <1>1, <1>4, <1>8, <2>1, <2>2 DEF DivOk
<1> QED BY <1>2, <1>6, <1>7, <1>8

-----------------------------------------------------------------------------
(* The multiplier.                                                          *)
MulRegs ==
  [busy : BOOLEAN, done : BOOLEAN, op : ALU_MUL_OPS, a : Int, b : Int, product : Int]
MulOk(u, op, a, b) ==
  /\ u \in MulRegs /\ ~(u.busy /\ u.done)
  /\ u.busy \/ u.done => op \in ALU_MUL_OPS /\ u.op = op
  /\ u.busy => u.a = MulExtA(op, a) /\ u.b = MulExtB(op, b)
  /\ u.done => u.product = MulExtA(op, a) * MulExtB(op, b)

LEMMA MulEdge ==
  ASSUME NEW a \in Word, NEW b \in Word, NEW op, NEW u, MulOk(u, op, a, b),
         NEW stall \in BOOLEAN, NEW start, start = MulStart(TRUE, op, u, stall),
         NEW x, NEW y, start => x = a /\ y = b,
         NEW n, n = MulNext(u, start, op, x, y, stall)
  PROVE  MulOk(n, op, a, b) /\ (u.done /\ ~stall => ~n.busy /\ ~n.done)
<1>1. u \in MulRegs /\ u.busy \in BOOLEAN /\ u.done \in BOOLEAN /\ u.a \in Int /\ u.b \in Int
  BY DEF MulOk, MulRegs
<1>2. start \in BOOLEAN /\ (start <=> op \in ALU_MUL_OPS /\ ~u.busy /\ ~u.done /\ ~stall)
  BY DEF MulStart
<1>3. PICK h : h = [u EXCEPT !.done = u.done /\ stall]
  OBVIOUS
<1>4. /\ h \in MulRegs /\ h.busy = u.busy /\ h.done = (u.done /\ stall) /\ h.op = u.op
      /\ h.a = u.a /\ h.b = u.b /\ h.product = u.product
  BY <1>1, <1>3 DEF MulRegs
<1>5. PICK p, v, w : p = u.a * u.b /\ v = MulExtA(op, x) /\ w = MulExtB(op, y)
  OBVIOUS
<1>6. p \in Int /\ MulExtA(op, a) \in Int /\ MulExtB(op, b) \in Int
  <2>1. p \in Int
    BY ONLY <1>1, <1>5
  <2>2. MulExtA(op, a) \in Int /\ MulExtB(op, b) \in Int
    BY SignedIs DEF MulExtA, MulExtB
  <2> QED BY <2>1, <2>2
<1>7. n = CASE start -> [h EXCEPT !.op = op, !.a = v, !.b = w, !.busy = TRUE]
            [] ~start /\ u.busy -> [h EXCEPT !.product = p, !.busy = FALSE, !.done = TRUE]
            [] OTHER -> h
  BY <1>3, <1>5 DEF MulNext
<1>8. CASE start
  <2>1. n = [h EXCEPT !.op = op, !.a = v, !.b = w, !.busy = TRUE]
    BY <1>7, <1>8
  <2>2. op \in ALU_MUL_OPS /\ ~u.busy /\ ~u.done /\ v = MulExtA(op, a) /\ w = MulExtB(op, b) /\ v \in Int /\ w \in Int
    BY <1>2, <1>5, <1>6, <1>8
  <2>3. n \in MulRegs /\ n.op = op /\ n.a = v /\ n.b = w /\ n.busy = TRUE /\ n.done = h.done
    BY ONLY <1>4, <2>1, <2>2 DEF MulRegs
  <2> QED BY <1>4, <2>2, <2>3 DEF MulOk
<1>9. CASE ~start /\ u.busy
  <2>1. n = [h EXCEPT !.product = p, !.busy = FALSE, !.done = TRUE]
    BY <1>7, <1>9
  <2>2. op \in ALU_MUL_OPS /\ u.op = op /\ ~u.done /\ u.a = MulExtA(op, a) /\ u.b = MulExtB(op, b)
    BY <1>9 DEF MulOk
  <2>3. n \in MulRegs /\ n.op = h.op /\ n.product = p /\ n.busy = FALSE /\ n.done = TRUE
    BY ONLY <1>4, <1>6, <2>1 DEF MulRegs
  <2> QED BY <1>4, <1>5, <2>2, <2>3 DEF MulOk
<1>10. CASE ~start /\ ~u.busy
  <2>1. n = h
    BY <1>7, <1>10
  <2> QED BY <1>1, <1>4, <1>10, <2>1 DEF MulOk
<1> QED BY <1>2, <1>8, <1>9, <1>10

(* What the units hand over is the RV32M result.                            *)
OpName(f) == <<"MUL", "MULH", "MULHSU", "MULHU", "DIV", "DIVU", "REM", "REMU">>[f + 1]
LEMMA Delivered ==
  ASSUME NEW f \in 0 .. 7, NEW op, op = OpName(f),
         NEW a \in Word, NEW b \in Word, NEW u, NEW w, MulOk(u, op, a, b), DivOk(w, op, a, b),
         u.done \/ w.done
  PROVE  (IF op \in ALU_MUL_OPS THEN MulResult(u) ELSE w.result) = Wrap(MulDivOp(f, a, b))
<1>1. CASE f \in 0 .. 3
  <2>1. /\ f = 0 => op = "MUL"
        /\ f = 1 => op = "MULH"
        /\ f = 2 => op = "MULHSU"
        /\ f = 3 => op = "MULHU"
    BY DEF OpName
  <2>2. op \in ALU_MUL_OPS /\ op \notin ALU_DIV_OPS
    BY <1>1, <2>1 DEF ALU_MUL_OPS, ALU_DIV_OPS
  <2>3. u.done /\ u.op = op /\ u.product = MulExtA(op, a) * MulExtB(op, b)
    BY <2>2 DEF MulOk, DivOk
  <2>4. MulResult(u) = IF op = "MUL" THEN Wrap(u.product) ELSE Wrap(u.product \div 2^XLEN)
    BY <2>3 DEF MulResult
  <2>5. CASE f = 0
    <3>1. u.product = a * b /\ MulResult(u) = Wrap(u.product)
      BY <2>1, <2>3, <2>4, <2>5 DEF MulExtA, MulExtB
    <3> QED BY <2>2, <2>5, <3>1 DEF MulDivOp
  <2>6. CASE f = 1
    <3>1. u.product = Signed(a) * Signed(b) /\ MulResult(u) = Wrap(u.product \div 2^XLEN)
      BY <2>1, <2>3, <2>4, <2>6 DEF MulExtA, MulExtB
    <3> QED BY <2>2, <2>6, <3>1 DEF MulDivOp
  <2>7. CASE f = 2
    <3>1. u.product = Signed(a) * b /\ MulResult(u) = Wrap(u.product \div 2^XLEN)
      BY <2>1, <2>3, <2>4, <2>7 DEF MulExtA, MulExtB
    <3> QED BY <2>2, <2>7, <3>1 DEF MulDivOp
  <2>8. CASE f = 3
    <3>1. u.product = a * b /\ MulResult(u) = Wrap(u.product \div 2^XLEN)
      BY <2>1, <2>3, <2>4, <2>8 DEF MulExtA, MulExtB
    <3> QED BY <2>2, <2>8, <3>1 DEF MulDivOp
  <2> QED BY <1>1, <2>5, <2>6, <2>7, <2>8
<1>2. CASE f \in 4 .. 7
  <2>1. /\ f = 4 => op = "DIV"
        /\ f = 5 => op = "DIVU"
        /\ f = 6 => op = "REM"
        /\ f = 7 => op = "REMU"
    BY DEF OpName
  <2>2. op \notin ALU_MUL_OPS
    BY <1>2, <2>1 DEF ALU_MUL_OPS
  <2>3. w.result = Wrap(DivResult(op, a, b))
    BY <2>2 DEF MulOk, DivOk, Delivers
  <2>4. DivResult(op, a, b) = MulDivOp(f, a, b)
    <3>1. f = 4 => DivResult(op, a, b) = MulDivOp(f, a, b)
      BY <2>1 DEF DivResult, MulDivOp, Value, SignedDivision
    <3>2. f = 5 => DivResult(op, a, b) = MulDivOp(f, a, b)
      BY <2>1 DEF DivResult, MulDivOp, Value, SignedDivision
    <3>3. f = 6 => DivResult(op, a, b) = MulDivOp(f, a, b)
      BY <2>1 DEF DivResult, MulDivOp, Value, SignedDivision
    <3>4. f = 7 => DivResult(op, a, b) = MulDivOp(f, a, b)
      BY <2>1 DEF DivResult, MulDivOp, Value, SignedDivision
    <3> QED BY <1>2, <3>1, <3>2, <3>3, <3>4
  <2> QED BY <2>2, <2>3, <2>4
<1> QED BY <1>1, <1>2

-----------------------------------------------------------------------------
(* Numbers as sums of bits.                                                 *)
Bits == 0 .. XLEN - 1

LEMMA SumStep ==
  ASSUME NEW b, NEW m \in Nat, NEW s, SumUpTo(s, b, m), NEW n \in 0 .. m
  PROVE  /\ n = 0 => s[n] = 0
         /\ n # 0 => s[n] = s[n - 1] + b[n - 1] * 2^(n - 1)
BY DEF SumUpTo

(* Sums of bits are below the next power of two.                            *)
LEMMA SumBound ==
  ASSUME NEW b \in [Bits -> {0, 1}], NEW s, SumUpTo(s, b, XLEN), NEW n \in 0 .. XLEN
  PROVE  s[n] \in Int /\ 0 <= s[n] /\ s[n] <= 2^n - 1
<1> DEFINE P(k) == s[k] \in Int /\ 0 <= s[k] /\ s[k] <= 2^k - 1
           T == {k \in Nat : k <= XLEN /\ ~P(k)}
<1>1. SUFFICES ASSUME T # {} PROVE FALSE
  BY XlenPow
<1>2. PICK k \in T : \A l \in T : k <= l
  BY <1>1, LeastElement
<1>3. k \in Nat /\ k <= XLEN /\ k \in 0 .. XLEN /\ ~P(k)
  BY <1>2, XlenPow
<1>4. CASE k = 0
  <2>1. s[0] = 0 /\ 2^0 = 1
    BY <1>3, <1>4, SumStep, PowSmall, XlenPow
  <2> QED BY <1>3, <1>4, <2>1
<1>5. CASE k # 0
  <2>1. k - 1 \in Nat /\ k - 1 \notin T /\ k - 1 \in Bits /\ k - 1 + 1 = k /\ k - 1 <= XLEN
    BY <1>2, <1>3, <1>5, XlenPow DEF Bits
  <2>2. P(k - 1)
    BY <2>1
  <2>3. PICK v, d, w, p : v = s[k] /\ d = s[k - 1] /\ w = b[k - 1] /\ p = 2^(k - 1)
    OBVIOUS
  <2>4. v = d + w * p
    BY <1>3, <1>5, <2>3, SumStep, XlenPow
  <2>5. w \in {0, 1} /\ p \in Nat /\ 2^k = 2 * p /\ d \in Int /\ 0 <= d /\ d <= p - 1
    BY <2>1, <2>2, <2>3, PowType, PowStep
  <2>6. w * p = 0 \/ w * p = p
    BY <2>5
  <2>7. v \in Int /\ 0 <= v /\ v <= 2 * p - 1
    BY ONLY <2>4, <2>5, <2>6
  <2>8. P(k)
    BY <2>3, <2>5, <2>7
  <2> QED BY <1>3, <2>8
<1> QED BY <1>4, <1>5

LEMMA OfBitsWord == ASSUME NEW b \in [Bits -> {0, 1}] PROVE OfBits(b) \in Word
<1>1. PICK s : SumUpTo(s, b, XLEN) /\ OfBits(b) = s[XLEN]
  BY BitSum
<1>2. XLEN \in 0 .. XLEN
  BY XlenPow
<1>3. s[XLEN] \in Int /\ 0 <= s[XLEN] /\ s[XLEN] <= 2^XLEN - 1
  BY <1>1, <1>2, SumBound
<1> QED BY <1>1, <1>3, XlenPow

(* A word is the sum of its bits.                                           *)
LEMMA BitsOf ==
  ASSUME NEW x \in Word
  PROVE  [i \in Bits |-> Bit(x, i)] \in [Bits -> {0, 1}] /\ OfBits([i \in Bits |-> Bit(x, i)]) = x
<1> DEFINE b == [i \in Bits |-> Bit(x, i)]
<1>0. x \in Int
  BY XlenPow
<1>1. PICK s : SumUpTo(s, b, XLEN) /\ OfBits(b) = s[XLEN]
  BY BitSum
<1>2. ASSUME NEW n \in Nat
      PROVE  Bit(x, n) \in {0, 1} /\ x % 2^(n + 1) = (x % 2^n) + Bit(x, n) * 2^n
  <2>1. PICK p : p = 2^n
    OBVIOUS
  <2>2. p \in Int /\ p > 0 /\ 2^(n + 1) = 2 * p
    BY <2>1, PowType, PowStep
  <2>3. PICK q \in Int, r \in Int : q = x \div p /\ r = x % p /\ 0 <= r /\ r <= p - 1 /\ x = p * q + r
    BY ONLY <1>0, <2>2, Divided
  <2>4. 2 \in Int /\ 2 > 0
    OBVIOUS
  <2>5. PICK e \in Int, f \in Int : e = q \div 2 /\ f = q % 2 /\ 0 <= f /\ f <= 2 - 1 /\ q = 2 * e + f
    BY ONLY <2>3, <2>4, Divided
  <2>6. f \in {0, 1}
    BY <2>5
  <2>7. Bit(x, n) = f
    BY <2>1, <2>3, <2>5 DEF Bit
  <2>8. p * f \in Int /\ 0 <= p * f /\ p * f <= p /\ f * p = p * f
    BY <2>2, <2>6
  <2>9. x = (2 * p) * e + (p * f + r)
    <3>1. p * (2 * e + f) = (2 * p) * e + p * f
      BY <2>2, <2>5
    <3>2. (2 * p) * e \in Int
      BY <2>2, <2>5
    <3> QED BY <2>3, <2>5, <2>8, <3>1, <3>2
  <2>10. PICK g, m : g = p * f + r /\ m = 2 * p
    OBVIOUS
  <2>11. g \in Int /\ 0 <= g /\ g < m /\ m \in Int /\ m > 0 /\ x = m * e + g
    BY <2>2, <2>3, <2>8, <2>9, <2>10
  <2>12. x % m = g
    BY ONLY <1>0, <2>5, <2>11, ModIs
  <2> QED BY <2>1, <2>2, <2>3, <2>6, <2>7, <2>8, <2>10, <2>12
<1>3. b \in [Bits -> {0, 1}] /\ \A i \in Bits : b[i] = Bit(x, i)
  BY <1>2, XlenPow DEF Bits
<1> HIDE DEF b
<1> DEFINE T == {k \in Nat : k <= XLEN /\ s[k] # x % 2^k}
<1>4. T = {}
  <2>1. SUFFICES ASSUME T # {} PROVE FALSE
    OBVIOUS
  <2>2. PICK k \in T : \A l \in T : k <= l
    BY <2>1, LeastElement
  <2>3. k \in Nat /\ k <= XLEN /\ k \in 0 .. XLEN /\ s[k] # x % 2^k
    BY <2>2, XlenPow
  <2>4. CASE k = 0
    <3>1. s[k] = 0
      <4>1. XLEN \in Nat /\ SumUpTo(s, b, XLEN)
        BY <1>1, XlenPow
      <4>2. k \in 0 .. XLEN
        BY <2>3
      <4> QED BY ONLY <2>4, <4>1, <4>2, SumStep
    <3>2. 2^k = 1
      BY <2>4, PowSmall
    <3>3. x % 1 = 0
      BY <1>0
    <3> QED BY <2>3, <3>1, <3>2, <3>3
  <2>5. CASE k # 0
    <3>1. k - 1 \in Nat /\ k - 1 \notin T /\ k - 1 \in Bits /\ k - 1 + 1 = k /\ k - 1 <= XLEN
      BY <2>2, <2>3, <2>5, XlenPow DEF Bits
    <3>2. s[k - 1] = x % 2^(k - 1)
      BY <3>1
    <3>3. s[k] = s[k - 1] + b[k - 1] * 2^(k - 1)
      BY <1>1, <2>3, <2>5, SumStep, XlenPow
    <3>4. x % 2^k = (x % 2^(k - 1)) + Bit(x, k - 1) * 2^(k - 1)
      <4>1. x % 2^(k - 1 + 1) = (x % 2^(k - 1)) + Bit(x, k - 1) * 2^(k - 1)
        BY <1>2, <3>1
      <4> QED BY <3>1, <4>1
    <3>5. b[k - 1] = Bit(x, k - 1)
      BY <1>3, <3>1
    <3> QED BY <2>3, <3>2, <3>3, <3>4, <3>5
  <2> QED BY <2>4, <2>5
<1>5. s[XLEN] = x % 2^XLEN
  BY <1>4, XlenPow
<1>6. x % 2^XLEN = x
  BY WrapWord DEF Wrap
<1> QED BY <1>1, <1>3, <1>5, <1>6 DEF b

(* What holds of every bit holds of the words.                              *)
LEMMA BitsLinear ==
  ASSUME NEW c \in {1, 2}, NEW f \in [Bits -> {0, 1}], NEW g \in [Bits -> {0, 1}],
         NEW h \in [Bits -> {0, 1}], NEW k \in [Bits -> {0, 1}],
         \A i \in Bits : h[i] + c * k[i] = f[i] + g[i]
  PROVE  OfBits(h) + c * OfBits(k) = OfBits(f) + OfBits(g)
<1>1. PICK sf : SumUpTo(sf, f, XLEN) /\ OfBits(f) = sf[XLEN]
  BY BitSum
<1>2. PICK sg : SumUpTo(sg, g, XLEN) /\ OfBits(g) = sg[XLEN]
  BY BitSum
<1>3. PICK sh : SumUpTo(sh, h, XLEN) /\ OfBits(h) = sh[XLEN]
  BY BitSum
<1>4. PICK sk : SumUpTo(sk, k, XLEN) /\ OfBits(k) = sk[XLEN]
  BY BitSum
<1> DEFINE T == {n \in Nat : n <= XLEN /\ sh[n] + c * sk[n] # sf[n] + sg[n]}
<1>5. T = {}
  <2>1. SUFFICES ASSUME T # {} PROVE FALSE
    OBVIOUS
  <2>2. PICK n \in T : \A l \in T : n <= l
    BY <2>1, LeastElement
  <2>3. n \in Nat /\ n <= XLEN /\ n \in 0 .. XLEN /\ sh[n] + c * sk[n] # sf[n] + sg[n]
    BY <2>2, XlenPow
  <2>4. CASE n = 0
    <3>1. sf[n] = 0 /\ sg[n] = 0 /\ sh[n] = 0 /\ sk[n] = 0
      BY <1>1, <1>2, <1>3, <1>4, <2>3, <2>4, SumStep, XlenPow
    <3> QED BY <2>3, <3>1
  <2>5. CASE n # 0
    <3>1. n - 1 \in Nat /\ n - 1 \notin T /\ n - 1 \in Bits /\ n - 1 <= XLEN /\ n - 1 \in 0 .. XLEN
      BY <2>2, <2>3, <2>5, XlenPow DEF Bits
    <3>2. sh[n - 1] + c * sk[n - 1] = sf[n - 1] + sg[n - 1]
      BY <3>1
    <3>3. PICK p : p = 2^(n - 1)
      OBVIOUS
    <3>4. /\ sf[n] = sf[n - 1] + f[n - 1] * p /\ sg[n] = sg[n - 1] + g[n - 1] * p
          /\ sh[n] = sh[n - 1] + h[n - 1] * p /\ sk[n] = sk[n - 1] + k[n - 1] * p
      BY <1>1, <1>2, <1>3, <1>4, <2>3, <2>5, <3>3, SumStep, XlenPow
    <3>5. PICK vf, vg, vh, vk, bf, bg, bh, bk :
            /\ vf = sf[n - 1] /\ vg = sg[n - 1] /\ vh = sh[n - 1] /\ vk = sk[n - 1]
            /\ bf = f[n - 1] /\ bg = g[n - 1] /\ bh = h[n - 1] /\ bk = k[n - 1]
      OBVIOUS
    <3>6. vf \in Int /\ vg \in Int /\ vh \in Int /\ vk \in Int /\ p \in Int
      BY <1>1, <1>2, <1>3, <1>4, <3>1, <3>3, <3>5, SumBound, PowType
    <3>7. bf \in {0, 1} /\ bg \in {0, 1} /\ bh \in {0, 1} /\ bk \in {0, 1} /\ bh + c * bk = bf + bg
      BY <3>1, <3>5
    <3>8. vh + c * vk = vf + vg
      BY <3>2, <3>5
    <3>9. bh * p + c * (bk * p) = bf * p + bg * p
      BY ONLY <3>6, <3>7, c \in {1, 2}
    <3>10. PICK pf, pg, ph, pk : pf = bf * p /\ pg = bg * p /\ ph = bh * p /\ pk = bk * p
      OBVIOUS
    <3>11. pf \in Int /\ pg \in Int /\ ph \in Int /\ pk \in Int /\ ph + c * pk = pf + pg
      BY <3>6, <3>7, <3>9, <3>10
    <3>12. (vh + ph) + c * (vk + pk) = (vf + pf) + (vg + pg)
      BY ONLY <3>6, <3>8, <3>11, c \in {1, 2}
    <3> QED BY <2>3, <3>4, <3>5, <3>10, <3>12
  <2> QED BY <2>4, <2>5
<1>6. sh[XLEN] + c * sk[XLEN] = sf[XLEN] + sg[XLEN]
  BY <1>5, XlenPow
<1> QED BY <1>1, <1>2, <1>3, <1>4, <1>6

-----------------------------------------------------------------------------
(* The bitwise operations.                                                  *)
AndBits(x, y) == [i \in Bits |-> Bit(x, i) * Bit(y, i)]
OrBits(x, y)  == [i \in Bits |-> IF Bit(x, i) + Bit(y, i) > 0 THEN 1 ELSE 0]
XorBits(x, y) == [i \in Bits |-> IF Bit(x, i) # Bit(y, i) THEN 1 ELSE 0]

LEMMA BitwiseIs ==
  ASSUME NEW x \in Word, NEW y \in Word
  PROVE  /\ BitAnd(x, y) = OfBits([i \in Bits |-> IF Bit(x, i) + Bit(y, i) = 2 THEN 1 ELSE 0])
         /\ BitOr(x, y) = OfBits(OrBits(x, y))
         /\ BitXor(x, y) = OfBits(XorBits(x, y))
         /\ {BitAnd(x, y), BitOr(x, y), BitXor(x, y)} \subseteq Word
<1>1. PICK f, g : f = [i \in Bits |-> Bit(x, i)] /\ g = [i \in Bits |-> Bit(y, i)]
  OBVIOUS
<1>2. f \in [Bits -> {0, 1}] /\ g \in [Bits -> {0, 1}] /\ OfBits(f) = x /\ OfBits(g) = y
  BY <1>1, BitsOf
<1>3. ASSUME NEW i \in Bits
      PROVE  Bit(x, i) \in {0, 1} /\ Bit(y, i) \in {0, 1} /\ f[i] = Bit(x, i) /\ g[i] = Bit(y, i)
  BY <1>1, <1>2
<1>4. PICK h, k, m : h = AndBits(x, y) /\ k = OrBits(x, y) /\ m = XorBits(x, y)
  OBVIOUS
<1>5. h \in [Bits -> {0, 1}]
  <2>1. \A i \in Bits : Bit(x, i) * Bit(y, i) \in {0, 1}
    BY <1>3
  <2> QED BY <1>4, <2>1 DEF AndBits
<1>6. k \in [Bits -> {0, 1}] /\ m \in [Bits -> {0, 1}]
  BY <1>4 DEF OrBits, XorBits
<1>7. OfBits(k) + 1 * OfBits(h) = OfBits(f) + OfBits(g)
  <2>1. ASSUME NEW i \in Bits PROVE k[i] + 1 * h[i] = f[i] + g[i]
    <3>1. PICK u, v : u = Bit(x, i) /\ v = Bit(y, i)
      OBVIOUS
    <3>2. u \in {0, 1} /\ v \in {0, 1} /\ f[i] = u /\ g[i] = v
      BY <1>3, <3>1
    <3>3. h[i] = u * v /\ k[i] = (IF u + v > 0 THEN 1 ELSE 0)
      BY <1>4, <3>1 DEF AndBits, OrBits
    <3> QED BY ONLY <3>2, <3>3
  <2> QED BY <1>2, <1>5, <1>6, <2>1, BitsLinear
<1>8. OfBits(m) + 2 * OfBits(h) = OfBits(f) + OfBits(g)
  <2>1. ASSUME NEW i \in Bits PROVE m[i] + 2 * h[i] = f[i] + g[i]
    <3>1. PICK u, v : u = Bit(x, i) /\ v = Bit(y, i)
      OBVIOUS
    <3>2. u \in {0, 1} /\ v \in {0, 1} /\ f[i] = u /\ g[i] = v
      BY <1>3, <3>1
    <3>3. h[i] = u * v /\ m[i] = (IF u # v THEN 1 ELSE 0)
      BY <1>4, <3>1 DEF AndBits, XorBits
    <3> QED BY ONLY <3>2, <3>3
  <2> QED BY <1>2, <1>5, <1>6, <2>1, BitsLinear
<1>9. OfBits(h) \in Word /\ OfBits(k) \in Word /\ OfBits(m) \in Word
  BY <1>5, <1>6, OfBitsWord
<1>10. OfBits(h) \in Int /\ OfBits(k) \in Int /\ OfBits(m) \in Int /\ x \in Int /\ y \in Int
  BY <1>9, WrapWord
<1>11. BitAnd(x, y) = OfBits(h)
  BY <1>4 DEF BitAnd, AndBits, Bits
<1>12. BitOr(x, y) = OfBits(k)
  BY <1>2, <1>7, <1>10, <1>11 DEF BitOr
<1>13. BitXor(x, y) = OfBits(m)
  BY <1>2, <1>8, <1>10, <1>11 DEF BitXor
<1>14. h = [i \in Bits |-> IF Bit(x, i) + Bit(y, i) = 2 THEN 1 ELSE 0]
  <2>1. ASSUME NEW i \in Bits
        PROVE  Bit(x, i) * Bit(y, i) = IF Bit(x, i) + Bit(y, i) = 2 THEN 1 ELSE 0
    <3>1. PICK u, v : u = Bit(x, i) /\ v = Bit(y, i)
      OBVIOUS
    <3>2. u \in {0, 1} /\ v \in {0, 1}
      BY <1>3, <3>1
    <3>3. u * v = IF u + v = 2 THEN 1 ELSE 0
      BY ONLY <3>2
    <3> QED BY <3>1, <3>3
  <2> QED BY <1>4, <2>1 DEF AndBits
<1> QED BY <1>4, <1>9, <1>11, <1>12, <1>13, <1>14

(* The ALU computes the integer instructions.                               *)
AluOf(f, alt) ==
  CASE f = 0 -> IF alt THEN "SUB" ELSE "ADD"
    [] f = 1 -> "SLL" [] f = 2 -> "SLT" [] f = 3 -> "SLTU" [] f = 4 -> "XOR"
    [] f = 5 -> IF alt THEN "SRA" ELSE "SRL"
    [] f = 6 -> "OR"  [] f = 7 -> "AND"

LEMMA ShiftDown ==
  ASSUME NEW x \in Word, NEW n \in Nat PROVE x \div 2^n \in Word
<1>1. PICK p : p = 2^n
  OBVIOUS
<1>2. p \in Int /\ p > 0 /\ x \in Int /\ 0 <= x
  BY <1>1, PowType, WrapWord
<1>3. PICK q \in Int, r \in Int : q = x \div p /\ r = x % p /\ 0 <= r /\ r <= p - 1 /\ x = p * q + r
  BY ONLY <1>2, Divided
<1>4. 0 <= q
  <2>1. ASSUME q <= -1 PROVE p * q <= -p
    BY <1>2, <1>3, <2>1
  <2>2. p * q \in Int
    BY <1>2, <1>3
  <2> QED BY <1>2, <1>3, <2>1, <2>2
<1>5. q <= p * q /\ p * q \in Int
  BY <1>2, <1>3, <1>4
<1>6. q <= x
  BY <1>2, <1>3, <1>5
<1>7. q \in Word
  BY <1>2, <1>3, <1>4, <1>6, XlenPow
<1> QED BY <1>1, <1>3, <1>7

LEMMA AluCases ==
  ASSUME NEW x, NEW y
  PROVE  /\ AluResult("ADD", x, y) = Wrap(x + y) /\ AluResult("SUB", x, y) = Wrap(x - y)
         /\ AluResult("SLT", x, y) = (IF Signed(x) < Signed(y) THEN 1 ELSE 0)
         /\ AluResult("SLTU", x, y) = (IF x < y THEN 1 ELSE 0)
         /\ AluResult("XOR", x, y) = BitXor(x, y) /\ AluResult("OR", x, y) = BitOr(x, y)
         /\ AluResult("AND", x, y) = BitAnd(x, y)
         /\ AluResult("SLL", x, y) = Wrap(x * 2^(y % XLEN))
         /\ AluResult("SRL", x, y) = x \div 2^(y % XLEN)
         /\ AluResult("SRA", x, y) = Wrap(Signed(x) \div 2^(y % XLEN))
BY DEF AluResult, Shamt, ALU_MUL_OPS, ALU_DIV_OPS

LEMMA AluNames ==
  ASSUME NEW f \in 0 .. 7, NEW alt \in BOOLEAN
  PROVE  /\ f = 0 => AluOf(f, alt) = (IF alt THEN "SUB" ELSE "ADD")
         /\ f = 1 => AluOf(f, alt) = "SLL"
         /\ f = 2 => AluOf(f, alt) = "SLT"
         /\ f = 3 => AluOf(f, alt) = "SLTU"
         /\ f = 4 => AluOf(f, alt) = "XOR"
         /\ f = 5 => AluOf(f, alt) = (IF alt THEN "SRA" ELSE "SRL")
         /\ f = 6 => AluOf(f, alt) = "OR"
         /\ f = 7 => AluOf(f, alt) = "AND"
BY DEF AluOf

LEMMA AluIs ==
  ASSUME NEW f \in 0 .. 7, NEW alt \in BOOLEAN, NEW x \in Word, NEW y \in Word
  PROVE  AluResult(AluOf(f, alt), x, y) = Wrap(IntegerOp(f, alt, x, y))
<1>0. x \in Int /\ y \in Int /\ 0 \in Word /\ 1 \in Word /\ Wrap(0) = 0 /\ Wrap(1) = 1
  BY XlenPow, WrapWord
<1>1. /\ f = 0 => IntegerOp(f, alt, x, y) = (IF alt THEN x + (2^XLEN - y) ELSE x + y)
      /\ f = 1 => IntegerOp(f, alt, x, y) = x * 2^(y % XLEN)
      /\ f = 2 => IntegerOp(f, alt, x, y) = (IF Signed(x) < Signed(y) THEN 1 ELSE 0)
      /\ f = 3 => IntegerOp(f, alt, x, y) = (IF x < y THEN 1 ELSE 0)
      /\ f = 4 => IntegerOp(f, alt, x, y) = OfBits(XorBits(x, y))
      /\ f = 5 => IntegerOp(f, alt, x, y) = (IF alt THEN Signed(x) \div 2^(y % XLEN) ELSE x \div 2^(y % XLEN))
      /\ f = 6 => IntegerOp(f, alt, x, y) = OfBits(OrBits(x, y))
      /\ f = 7 => IntegerOp(f, alt, x, y) = OfBits([i \in Bits |-> IF Bit(x, i) + Bit(y, i) = 2 THEN 1 ELSE 0])
  BY DEF IntegerOp, XorBits, OrBits, Bits
<1>2. CASE f = 0 /\ ~alt
  BY <1>1, <1>2, AluNames, AluCases
<1>3. CASE f = 0 /\ alt
  <2>1. PICK M : M = 2^XLEN
    OBVIOUS
  <2>2. M \in Int /\ x - y \in Int /\ x + (M - y) = (x - y) + M * 1
    BY <1>0, <2>1, XlenPow
  <2>3. Wrap(x + (M - y)) = Wrap(x - y)
    BY <2>1, <2>2, WrapShift
  <2>4. AluOf(f, alt) = "SUB" /\ IntegerOp(f, alt, x, y) = x + (2^XLEN - y)
    BY <1>1, <1>3, AluNames
  <2> QED BY <2>1, <2>3, <2>4, AluCases
<1>4. CASE f = 1
  BY <1>1, <1>4, AluNames, AluCases
<1>5. CASE f = 2
  BY <1>0, <1>1, <1>5, AluNames, AluCases
<1>6. CASE f = 3
  BY <1>0, <1>1, <1>6, AluNames, AluCases
<1>7. CASE f = 4
  <2>1. AluResult(AluOf(f, alt), x, y) = BitXor(x, y)
    BY <1>7, AluNames, AluCases
  <2> QED BY <1>1, <1>7, <2>1, BitwiseIs, WrapWord
<1>8. CASE f = 5 /\ ~alt
  <2>1. PICK n : n = y % XLEN
    OBVIOUS
  <2>2. n \in Nat
    BY <1>0, <2>1, XlenPow
  <2>3. Wrap(x \div 2^n) = x \div 2^n
    BY <2>2, ShiftDown, WrapWord
  <2>4. AluResult(AluOf(f, alt), x, y) = x \div 2^n
    BY <1>8, <2>1, AluNames, AluCases
  <2> QED BY <1>1, <1>8, <2>1, <2>3, <2>4
<1>9. CASE f = 5 /\ alt
  <2>1. AluOf(f, alt) = "SRA" /\ IntegerOp(f, alt, x, y) = Signed(x) \div 2^(y % XLEN)
    BY <1>1, <1>9, AluNames
  <2> QED BY <2>1, AluCases
<1>10. CASE f = 6
  <2>1. AluResult(AluOf(f, alt), x, y) = BitOr(x, y)
    BY <1>10, AluNames, AluCases
  <2> QED BY <1>1, <1>10, <2>1, BitwiseIs, WrapWord
<1>11. CASE f = 7
  <2>1. AluResult(AluOf(f, alt), x, y) = BitAnd(x, y)
    BY <1>11, AluNames, AluCases
  <2> QED BY <1>1, <1>11, <2>1, BitwiseIs, WrapWord
<1> QED BY <1>2, <1>3, <1>4, <1>5, <1>6, <1>7, <1>8, <1>9, <1>10, <1>11

(* The comparator decides the branches.                                     *)
LEMMA BranchIs ==
  ASSUME NEW f \in {0, 1, 4, 5, 6, 7}, NEW x \in Word, NEW y \in Word
  PROVE  BranchCond(BranchKind(f), x, y) = Taken(f, x, y)
<1>1. /\ (f = 0 => BranchKind(f) = "EQ") /\ (f = 1 => BranchKind(f) = "NE")
      /\ (f = 4 => BranchKind(f) = "LT") /\ (f = 5 => BranchKind(f) = "GE")
      /\ (f = 6 => BranchKind(f) = "LTU") /\ (f = 7 => BranchKind(f) = "GEU")
  BY DEF BranchKind
<1>2. /\ BranchCond("EQ", x, y) = (x = y) /\ BranchCond("NE", x, y) = (x # y)
      /\ BranchCond("LT", x, y) = (Signed(x) < Signed(y)) /\ BranchCond("GE", x, y) = (Signed(x) >= Signed(y))
      /\ BranchCond("LTU", x, y) = (x < y) /\ BranchCond("GEU", x, y) = (x >= y)
  <2>0. PICK u, v : u = Signed(x) /\ v = Signed(y)
    OBVIOUS
  <2>00. x \in Int /\ y \in Int /\ u \in Int /\ v \in Int
    BY <2>0, SignedIs
  <2>1. BranchCond("EQ", x, y) = (x = y)
    BY DEF BranchCond
  <2>2. BranchCond("NE", x, y) = (x # y)
    BY DEF BranchCond
  <2>3. BranchCond("LT", x, y) = (Signed(x) < Signed(y))
    <3>1. BranchCond("LT", x, y) <=> u < v
      BY <2>0 DEF BranchCond
    <3>2. BranchCond("LT", x, y) \in BOOLEAN /\ (u < v) \in BOOLEAN
      BY <2>00 DEF BranchCond
    <3> QED BY <2>0, <3>1, <3>2
  <2>4. BranchCond("GE", x, y) = (Signed(x) >= Signed(y))
    <3>1. BranchCond("GE", x, y) <=> u >= v
      BY <2>0 DEF BranchCond
    <3>2. BranchCond("GE", x, y) \in BOOLEAN /\ (u >= v) \in BOOLEAN
      BY <2>00 DEF BranchCond
    <3> QED BY <2>0, <3>1, <3>2
  <2>5. BranchCond("LTU", x, y) = (x < y)
    <3>1. BranchCond("LTU", x, y) <=> x < y
      BY <2>0 DEF BranchCond
    <3>2. BranchCond("LTU", x, y) \in BOOLEAN /\ (x < y) \in BOOLEAN
      BY <2>00 DEF BranchCond
    <3> QED BY <2>0, <3>1, <3>2
  <2>6. BranchCond("GEU", x, y) = (x >= y)
    <3>1. BranchCond("GEU", x, y) <=> x >= y
      BY <2>0 DEF BranchCond
    <3>2. BranchCond("GEU", x, y) \in BOOLEAN /\ (x >= y) \in BOOLEAN
      BY <2>00 DEF BranchCond
    <3> QED BY <2>0, <3>1, <3>2
  <2> QED BY <2>1, <2>2, <2>3, <2>4, <2>5, <2>6
<1>3. /\ (f = 0 => Taken(f, x, y) = (x = y)) /\ (f = 1 => Taken(f, x, y) = (x # y))
      /\ (f = 4 => Taken(f, x, y) = (Signed(x) < Signed(y))) /\ (f = 5 => Taken(f, x, y) = (Signed(x) >= Signed(y)))
      /\ (f = 6 => Taken(f, x, y) = (x < y)) /\ (f = 7 => Taken(f, x, y) = (x >= y))
  BY DEF Taken
<1> QED BY <1>1, <1>2, <1>3

-----------------------------------------------------------------------------
(* Words as four digits.                                                    *)
Base == 2^ByteBits

LEMMA BasePowers ==
  /\ Base \in Nat /\ Base > 1 /\ ByteBits \in Nat /\ ByteBits > 0
  /\ 2^(0 * ByteBits) = 1 /\ 2^(1 * ByteBits) = Base /\ 2^(2 * ByteBits) = Base * Base
  /\ 2^(3 * ByteBits) = Base * (Base * Base) /\ 2^(4 * ByteBits) = Base * (Base * (Base * Base))
  /\ 2^XLEN = Base * (Base * (Base * Base))
<1>1. ByteBits \in Nat /\ ByteBits > 0
  BY ByteBitsAssumption
<1>2. PICK n : n = ByteBits
  OBVIOUS
<1>3. n \in Nat /\ n - 1 \in Nat /\ n - 1 + 1 = n /\ 0 * n = 0 /\ 1 * n = n
      /\ 2 * n = n + n /\ 3 * n = n + 2 * n /\ 4 * n = n + 3 * n /\ 2 * n \in Nat /\ 3 * n \in Nat
  BY <1>1, <1>2
<1>4. Base = 2^n
  BY <1>2 DEF Base
<1>5. 2^n = 2 * 2^(n - 1) /\ 2^(n - 1) \in Nat \ {0}
  <2>1. 2^(n - 1 + 1) = 2 * 2^(n - 1)
    BY <1>3, PowStep
  <2> QED BY <1>3, <2>1, PowType
<1>6. Base \in Nat /\ Base > 1
  BY <1>4, <1>5
<1>7. 2^(n + n) = 2^n * 2^n /\ 2^(n + 2 * n) = 2^n * 2^(2 * n) /\ 2^(n + 3 * n) = 2^n * 2^(3 * n)
  BY <1>3, PowSum
<1>8. 2^(2 * n) = Base * Base
  BY <1>3, <1>4, <1>7
<1>9. 2^(3 * n) = Base * (Base * Base)
  BY <1>3, <1>4, <1>7, <1>8
<1>10. 2^(4 * n) = Base * (Base * (Base * Base))
  BY <1>3, <1>4, <1>7, <1>9
<1>11. 2^(0 * n) = 1 /\ 2^(1 * n) = Base
  BY <1>3, <1>4, PowSmall
<1> QED BY <1>1, <1>2, <1>6, <1>8, <1>9, <1>10, <1>11 DEF XLEN

(* x = d0 + Base * (d1 + Base * (d2 + Base * (d3 + Base * rest))). *)
Digit == 0 .. Base - 1
Digits(x, d0, d1, d2, d3, rest) ==
  \E y1 \in Int, y2 \in Int, y3 \in Int :
    /\ x = Base * y1 + d0 /\ y1 = Base * y2 + d1
    /\ y2 = Base * y3 + d2 /\ y3 = Base * rest + d3

LEMMA DigitsAre ==
  ASSUME NEW x \in Int, NEW d0 \in Digit, NEW d1 \in Digit, NEW d2 \in Digit, NEW d3 \in Digit,
         NEW rest \in Int, Digits(x, d0, d1, d2, d3, rest)
  PROVE  /\ x % Base = d0 /\ (x \div Base) % Base = d1 /\ (x \div (Base * Base)) % Base = d2
         /\ (x \div (Base * (Base * Base))) % Base = d3
         /\ x \div (Base * Base) = Base * (Base * rest + d3) + d2
<1>1. PICK B : B = Base
  OBVIOUS
<1>2. B \in Int /\ B > 0 /\ B * B \in Int /\ B * B > 0
  <2>1. B \in Int /\ B > 0
    BY <1>1, BasePowers
  <2> QED BY ONLY <2>1
<1>3. PICK y1 \in Int, y2 \in Int, y3 \in Int :
        /\ x = B * y1 + d0 /\ y1 = B * y2 + d1
        /\ y2 = B * y3 + d2 /\ y3 = B * rest + d3
  BY <1>1 DEF Digits
<1>4. /\ d0 \in Int /\ 0 <= d0 /\ d0 < B /\ d1 \in Int /\ 0 <= d1 /\ d1 < B
      /\ d2 \in Int /\ 0 <= d2 /\ d2 < B /\ d3 \in Int /\ 0 <= d3 /\ d3 < B
  BY <1>1, <1>2 DEF Digit
<1>5. x \div B = y1 /\ x % B = d0
  BY ONLY <1>2, <1>3, <1>4, x \in Int, ModIs
<1>6. y1 \div B = y2 /\ y1 % B = d1
  BY ONLY <1>2, <1>3, <1>4, ModIs
<1>7. y2 \div B = y3 /\ y2 % B = d2
  BY ONLY <1>2, <1>3, <1>4, ModIs
<1>8. y3 % B = d3
  BY ONLY <1>2, <1>3, <1>4, rest \in Int, ModIs
<1>9. x \div (B * B) = y2
  <2>1. (x \div B) \div B = x \div (B * B)
    BY ONLY <1>2, x \in Int, DivDiv
  <2> QED BY <1>5, <1>6, <2>1
<1>10. x \div (B * (B * B)) = y3
  <2>1. PICK C : C = B * B
    OBVIOUS
  <2>2. C \in Int /\ C > 0
    BY <1>2, <2>1
  <2>3. (x \div C) \div B = x \div (C * B)
    BY ONLY <1>2, <2>2, x \in Int, DivDiv
  <2>4. C * B = B * C
    BY ONLY <1>2, <2>2
  <2> QED BY <1>7, <1>9, <2>1, <2>3, <2>4
<1>11. Base * (Base * rest + d3) + d2 = y2
  BY <1>1, <1>3
<1> QED BY <1>1, <1>5, <1>6, <1>7, <1>8, <1>9, <1>10, <1>11

(* A word has four digits, its lanes; a lane is not changed by wrapping.    *)
LEMMA WordDigits ==
  ASSUME NEW x \in Word
  PROVE  \E d0 \in Digit, d1 \in Digit, d2 \in Digit, d3 \in Digit : Digits(x, d0, d1, d2, d3, 0)
<1>1. PICK B : B = Base
  OBVIOUS
<1>2. B \in Int /\ B > 1 /\ x \in Int /\ 0 <= x /\ 2^XLEN = B * (B * (B * B)) /\ Digit = 0 .. B - 1
  BY <1>1, BasePowers, WrapWord DEF Digit
<1>3. B \in Int /\ B > 0
  BY <1>2
<1>4. PICK y1 \in Int, d0 \in Int : y1 = x \div B /\ d0 = x % B /\ 0 <= d0 /\ d0 <= B - 1 /\ x = B * y1 + d0
  BY ONLY <1>2, <1>3, Divided
<1>5. PICK y2 \in Int, d1 \in Int : y2 = y1 \div B /\ d1 = y1 % B /\ 0 <= d1 /\ d1 <= B - 1 /\ y1 = B * y2 + d1
  BY ONLY <1>3, <1>4, Divided
<1>6. PICK y3 \in Int, d2 \in Int : y3 = y2 \div B /\ d2 = y2 % B /\ 0 <= d2 /\ d2 <= B - 1 /\ y2 = B * y3 + d2
  BY ONLY <1>3, <1>5, Divided
<1>7. /\ d0 \in 0 .. B - 1 /\ d1 \in 0 .. B - 1 /\ d2 \in 0 .. B - 1
  BY <1>3, <1>4, <1>5, <1>6
<1>8. ASSUME NEW w \in Int, NEW y \in Int, NEW d \in Int, 0 <= d, d <= B - 1, w = B * y + d, NEW C \in Int
      PROVE  (0 <= w => 0 <= y) /\ (w < B * C => y < C)
  <2>1. ASSUME 0 <= w PROVE 0 <= y
    <3>1. ASSUME y <= -1 PROVE B * y <= -B
      BY ONLY <1>3, <1>8, <3>1
    <3>2. B * y \in Int
      BY ONLY <1>3, <1>8
    <3> QED BY ONLY <1>3, <1>8, <2>1, <3>1, <3>2
  <2>2. ASSUME w < B * C PROVE y < C
    <3>1. ASSUME C <= y PROVE B * C <= B * y
      BY ONLY <1>3, <1>8, <3>1
    <3>2. B * y \in Int /\ B * C \in Int
      BY ONLY <1>3, <1>8
    <3> QED BY ONLY <1>3, <1>8, <2>2, <3>1, <3>2
  <2> QED BY <2>1, <2>2
<1>9. PICK C2, C3 : C2 = B * B /\ C3 = B * C2
  OBVIOUS
<1>10. C2 \in Int /\ C3 \in Int /\ x < B * C3 /\ C3 = B * C2 /\ C2 = B * B
  <2>1. C2 \in Int
    BY ONLY <1>3, <1>9
  <2>2. C3 \in Int
    BY ONLY <1>3, <1>9, <2>1
  <2>3. x < 2^XLEN
    BY <1>2, XlenPow
  <2> QED BY <1>2, <1>9, <2>1, <2>2, <2>3
<1>11. 0 <= y1 /\ y1 < C3
  BY <1>2, <1>4, <1>8, <1>10
<1>12. 0 <= y2 /\ y2 < C2
  BY <1>5, <1>8, <1>10, <1>11
<1>13. 0 <= y3 /\ y3 < B
  BY <1>3, <1>6, <1>8, <1>10, <1>12
<1>14. y3 \in 0 .. B - 1 /\ y3 = B * 0 + y3
  BY <1>3, <1>13
<1>15. Digits(x, d0, d1, d2, y3, 0)
  <2>1. x = Base * y1 + d0 /\ y1 = Base * y2 + d1 /\ y2 = Base * y3 + d2 /\ y3 = Base * 0 + y3
    BY ONLY <1>1, <1>4, <1>5, <1>6, <1>14
  <2> QED BY ONLY <2>1, y1 \in Int, y2 \in Int, y3 \in Int, Zenon DEF Digits
<1> QED BY <1>2, <1>7, <1>14, <1>15

LEMMA LaneIs ==
  ASSUME NEW x
  PROVE  /\ Lane(x, 0) = (x \div 1) % Base /\ Lane(x, 1) = (x \div Base) % Base
         /\ Lane(x, 2) = (x \div (Base * Base)) % Base
         /\ Lane(x, 3) = (x \div (Base * (Base * Base))) % Base
<1>1. PICK n : n = ByteBits
  OBVIOUS
<1>2. /\ 2^(0 * n) = 1 /\ 2^(1 * n) = Base /\ 2^(2 * n) = Base * Base
      /\ 2^(3 * n) = Base * (Base * Base) /\ Base = 2^n /\ n \in Int
  BY <1>1, BasePowers DEF Base
<1>3. /\ (0 + 1) * n - 1 - 0 * n + 1 = n /\ (1 + 1) * n - 1 - 1 * n + 1 = n
      /\ (2 + 1) * n - 1 - 2 * n + 1 = n /\ (3 + 1) * n - 1 - 3 * n + 1 = n
  BY ONLY <1>2
<1>4. \A k \in 0 .. 3 : Lane(x, k) = (x \div 2^(k * n)) % 2^((k + 1) * n - 1 - k * n + 1)
  BY <1>1 DEF Lane, Field
<1> QED BY <1>2, <1>3, <1>4

LEMMA DigitsInt ==
  ASSUME NEW x, NEW d0 \in Digit, NEW d1 \in Digit, NEW d2 \in Digit, NEW d3 \in Digit,
         NEW rest \in Int, Digits(x, d0, d1, d2, d3, rest)
  PROVE  x \in Int /\ d0 \in Int /\ d1 \in Int /\ d2 \in Int /\ d3 \in Int
<1>1. PICK y1 \in Int : x = Base * y1 + d0
  BY DEF Digits
<1>2. Base \in Int /\ d0 \in Int /\ d1 \in Int /\ d2 \in Int /\ d3 \in Int
  BY BasePowers DEF Digit
<1>3. Base * y1 \in Int
  BY <1>2
<1> QED BY <1>1, <1>2, <1>3

(* The halves of a word.                                                    *)
LEMMA PairIs ==
  ASSUME NEW B \in Int, B > 0, NEW y \in Int, NEW e \in Int, 0 <= e, e <= B - 1,
         NEW d \in Int, 0 <= d, d <= B - 1, NEW x, x = B * (B * y + e) + d
  PROVE  x % (B * B) = d + B * e
<1>1. PICK p, q, C : p = B * e /\ q = B * y /\ C = B * B
  OBVIOUS
<1>2. p \in Int /\ q \in Int /\ C \in Int
  BY <1>1
<1>3. B * (q + e) = B * q + B * e /\ B * q = C * y
  BY <1>1, <1>2
<1>4. C * y \in Int
  BY <1>2
<1>5. x = C * y + (d + p)
  BY <1>1, <1>2, <1>3, <1>4
<1>6. 0 <= p /\ p <= C - B
  <2>1. 0 <= B * e
    OBVIOUS
  <2>2. B * e <= B * (B - 1)
    OBVIOUS
  <2>3. B * (B - 1) = B * B - B
    OBVIOUS
  <2> QED BY <1>1, <1>2, <2>1, <2>2, <2>3
<1>7. 0 <= d + p /\ d + p < C /\ d + p \in Int /\ C > 0 /\ x \in Int
  BY <1>2, <1>4, <1>5, <1>6
<1>8. x % C = d + p
  BY <1>2, <1>5, <1>7, ModIs
<1> QED BY <1>1, <1>8

LEMMA LanesOf ==
  ASSUME NEW x, NEW d0 \in Digit, NEW d1 \in Digit, NEW d2 \in Digit, NEW d3 \in Digit,
         NEW rest \in Int, Digits(x, d0, d1, d2, d3, rest)
  PROVE  /\ Lane(x, 0) = d0 /\ Lane(x, 1) = d1 /\ Lane(x, 2) = d2 /\ Lane(x, 3) = d3
         /\ Field(x, 2 * ByteBits - 1, 0) = d0 + Base * d1
         /\ Field(x, 4 * ByteBits - 1, 2 * ByteBits) = d2 + Base * d3
<1>1. x \in Int
  BY DigitsInt
<1>2. x \div 1 = x
  BY <1>1
<1>3. /\ x % Base = d0 /\ (x \div Base) % Base = d1 /\ (x \div (Base * Base)) % Base = d2
      /\ (x \div (Base * (Base * Base))) % Base = d3
      /\ x \div (Base * Base) = Base * (Base * rest + d3) + d2
  BY <1>1, DigitsAre
<1>4. PICK B, n : B = Base /\ n = ByteBits
  OBVIOUS
<1>5. /\ B \in Int /\ B > 0 /\ n \in Int /\ 2^(2 * n) = B * B
      /\ d0 \in Int /\ 0 <= d0 /\ d0 <= B - 1 /\ d1 \in Int /\ 0 <= d1 /\ d1 <= B - 1
      /\ d2 \in Int /\ 0 <= d2 /\ d2 <= B - 1 /\ d3 \in Int /\ 0 <= d3 /\ d3 <= B - 1
  BY <1>4, BasePowers DEF Digit
<1>6. 2 * n - 1 - 0 + 1 = 2 * n /\ 4 * n - 1 - 2 * n + 1 = 2 * n
  BY <1>5
<1>7. Field(x, 2 * n - 1, 0) = (x \div 2^0) % (B * B) /\ Field(x, 4 * n - 1, 2 * n) = (x \div 2^(2 * n)) % (B * B)
  BY <1>5, <1>6 DEF Field
<1>8. PICK y2 \in Int : x = B * (B * y2 + d1) + d0
  BY <1>4 DEF Digits
<1>9. x % (B * B) = d0 + B * d1
  BY ONLY <1>5, <1>8, PairIs
<1>10. PICK z : z = B * (B * rest + d3) + d2
  OBVIOUS
<1>11. z % (B * B) = d2 + B * d3
  BY ONLY <1>5, <1>10, rest \in Int, PairIs
<1>12. 2^0 = 1
  BY PowSmall
<1> QED BY <1>2, <1>3, <1>4, <1>5, <1>7, <1>9, <1>10, <1>11, <1>12, LaneIs

LEMMA DigitsWrap ==
  ASSUME NEW x, NEW d0 \in Digit, NEW d1 \in Digit, NEW d2 \in Digit, NEW d3 \in Digit,
         NEW rest \in Int, Digits(x, d0, d1, d2, d3, rest)
  PROVE  \E r \in Int : Digits(Wrap(x), d0, d1, d2, d3, r)
<1>1. x \in Int /\ d0 \in Int /\ d1 \in Int /\ d2 \in Int /\ d3 \in Int
  BY DigitsInt
<1>2. PICK k \in Int : x = 2^XLEN * k + Wrap(x)
  BY <1>1, WrapQuotient
<1>3. PICK B, w : B = Base /\ w = Wrap(x)
  OBVIOUS
<1>4. B \in Int /\ w \in Int /\ x = (B * (B * (B * B))) * k + w
  BY <1>1, <1>2, <1>3, BasePowers, WrapIn, WrapWord
<1>5. PICK y1 \in Int, y2 \in Int, y3 \in Int :
        /\ x = B * y1 + d0 /\ y1 = B * y2 + d1
        /\ y2 = B * y3 + d2 /\ y3 = B * rest + d3
  BY <1>3 DEF Digits
<1>6. PICK k1, k2, k3 : k1 = B * k /\ k2 = B * k1 /\ k3 = B * k2
  OBVIOUS
<1>7. k1 \in Int /\ k2 \in Int /\ k3 \in Int
  <2>1. k1 \in Int
    BY <1>4, <1>6
  <2>2. k2 \in Int
    BY <1>4, <1>6, <2>1
  <2> QED BY <1>4, <1>6, <2>1, <2>2
<1>8. (B * (B * (B * B))) * k = B * k3
  BY ONLY <1>4, <1>6, k \in Int
<1>9. B * (y1 - k3) = B * y1 - B * k3 /\ B * (y2 - k2) = B * y2 - B * k2 /\ B * (y3 - k1) = B * y3 - B * k1
      /\ B * (rest - k) = B * rest - B * k
  BY ONLY <1>4, <1>5, <1>7, k \in Int, rest \in Int
<1>10. /\ w = B * (y1 - k3) + d0 /\ y1 - k3 = B * (y2 - k2) + d1
       /\ y2 - k2 = B * (y3 - k1) + d2 /\ y3 - k1 = B * (rest - k) + d3
  <2>1. B * y1 \in Int /\ B * k3 \in Int /\ B * y2 \in Int /\ B * y3 \in Int /\ B * rest \in Int
    BY ONLY <1>4, <1>5, <1>7, rest \in Int
  <2> QED BY <1>1, <1>4, <1>5, <1>6, <1>7, <1>8, <1>9, <2>1
<1>11. y1 - k3 \in Int /\ y2 - k2 \in Int /\ y3 - k1 \in Int /\ rest - k \in Int
  BY <1>5, <1>7
<1>12. Digits(w, d0, d1, d2, d3, rest - k)
  BY <1>3, <1>10, <1>11 DEF Digits
<1> QED BY <1>3, <1>11, <1>12

LEMMA DigitsShift ==
  ASSUME NEW x, NEW d0 \in Digit, NEW d1 \in Digit, NEW d2 \in Digit, NEW d3 \in Digit,
         NEW rest \in Int, Digits(x, d0, d1, d2, d3, rest)
  PROVE  0 \in Digit /\ \E r \in Int : Digits(x * Base, 0, d0, d1, d2, r)
<1>1. x \in Int /\ Base \in Int /\ x * Base = Base * x + 0 /\ 0 \in Digit
  BY DigitsInt, BasePowers DEF Digit
<1>2. PICK y1 \in Int, y2 \in Int, y3 \in Int :
        /\ x = Base * y1 + d0 /\ y1 = Base * y2 + d1
        /\ y2 = Base * y3 + d2 /\ y3 = Base * rest + d3
  BY DEF Digits
<1>3. Digits(x * Base, 0, d0, d1, d2, y3)
  BY <1>1, <1>2 DEF Digits
<1> QED BY <1>1, <1>3

LEMMA DigitsSum ==
  ASSUME NEW d0 \in Digit, NEW d1 \in Digit, NEW d2 \in Digit, NEW d3 \in Digit,
         NEW x, x = d0 + d1 * Base + d2 * (Base * Base) + d3 * (Base * (Base * Base))
  PROVE  Digits(x, d0, d1, d2, d3, 0)
<1>1. PICK B : B = Base
  OBVIOUS
<1>2. B \in Int /\ d0 \in Int /\ d1 \in Int /\ d2 \in Int /\ d3 \in Int
  BY <1>1, BasePowers DEF Digit
<1>3. PICK y1, y2 : y2 = B * d3 + d2 /\ y1 = B * y2 + d1
  OBVIOUS
<1>4. y2 \in Int
  BY <1>2, <1>3
<1>5. y1 \in Int
  BY <1>2, <1>3, <1>4
<1>6. B * y2 = B * (B * d3) + B * d2
  BY ONLY <1>2, <1>3
<1>7. B * y1 = B * (B * y2) + B * d1
  BY ONLY <1>2, <1>3, <1>4
<1>8. B * (B * y2) = d3 * (B * (B * B)) + d2 * (B * B)
  BY ONLY <1>2, <1>6
<1>9. B * d1 = d1 * B
  BY <1>2
<1>10. x = B * y1 + d0
  <2>1. PICK p, q, s : p = d3 * (B * (B * B)) /\ q = d2 * (B * B) /\ s = d1 * B
    OBVIOUS
  <2>2. p \in Int /\ q \in Int /\ s \in Int
    BY ONLY <1>2, <2>1
  <2>3. x = d0 + s + q + p
    BY <1>1, <2>1
  <2>4. B * y1 = (p + q) + s
    BY <1>7, <1>8, <1>9, <2>1
  <2> QED BY <1>2, <2>2, <2>3, <2>4
<1>11. d3 = B * 0 + d3
  BY <1>2
<1>12. \E v1 \in Int, v2 \in Int, v3 \in Int :
         x = B * v1 + d0 /\ v1 = B * v2 + d1 /\ v2 = B * v3 + d2 /\ v3 = B * 0 + d3
  BY ONLY <1>2, <1>3, <1>4, <1>5, <1>10, <1>11
<1> QED BY <1>1, <1>12 DEF Digits

LEMMA DigitsUnique ==
  ASSUME NEW x, NEW y, NEW d0, NEW d1, NEW d2, NEW d3, NEW r,
         Digits(x, d0, d1, d2, d3, r), Digits(y, d0, d1, d2, d3, r)
  PROVE  x = y
<1>1. PICK v1 \in Int, v2 \in Int, v3 \in Int :
         x = Base * v1 + d0 /\ v1 = Base * v2 + d1 /\ v2 = Base * v3 + d2 /\ v3 = Base * r + d3
  BY DEF Digits
<1>2. PICK w1 \in Int, w2 \in Int, w3 \in Int :
         y = Base * w1 + d0 /\ w1 = Base * w2 + d1 /\ w2 = Base * w3 + d2 /\ w3 = Base * r + d3
  BY DEF Digits
<1>3. v3 = w3
  BY <1>1, <1>2
<1>4. v2 = w2
  BY <1>1, <1>2, <1>3
<1>5. v1 = w1
  BY <1>1, <1>2, <1>4
<1> QED BY <1>1, <1>2, <1>5

-----------------------------------------------------------------------------
(* Loads.                                                                   *)
LanesOfWord(x) == [k \in 0 .. 3 |-> Lane(x, k)]

LEMMA Accesses ==
  /\ AccessBytes(0) = 1 /\ AccessBytes(1) = 2 /\ AccessBytes(2) = 4
  /\ AccessBytes(4) = 1 /\ AccessBytes(5) = 2
<1>1. 0 % 4 = 0 /\ 1 % 4 = 1 /\ 2 % 4 = 2 /\ 4 % 4 = 0 /\ 5 % 4 = 1
  OBVIOUS
<1> QED BY <1>1, PowSmall DEF AccessBytes

LEMMA MemoryOfWord ==
  ASSUME NEW x
  PROVE  /\ MemSize(LanesOfWord(x)) = 4
         /\ \A m \in 0 .. 3, k \in 0 .. 3 : Cell(LanesOfWord(x), m, k) = (m + k) % 4
<1>1. Cardinality(0 .. 3) = 4
  <2>1. 0 \in Int /\ 3 \in Int /\ ~(0 > 3) /\ 3 - 0 + 1 = 4
    OBVIOUS
  <2>2. Cardinality(0 .. 3) = 3 - 0 + 1
    BY ONLY <2>1, FS_Interval
  <2> QED BY <2>1, <2>2
<1>2. MemSize(LanesOfWord(x)) = 4
  BY <1>1 DEF MemSize, LanesOfWord
<1> QED BY <1>2 DEF Cell

RawValue(x, n, m) ==
  (IF 0 < n THEN Lane(x, (m + 0) % 4) * 2^(0 * ByteBits) ELSE 0)
  + (IF 1 < n THEN Lane(x, (m + 1) % 4) * 2^(1 * ByteBits) ELSE 0)
  + (IF 2 < n THEN Lane(x, (m + 2) % 4) * 2^(2 * ByteBits) ELSE 0)
  + (IF 3 < n THEN Lane(x, (m + 3) % 4) * 2^(3 * ByteBits) ELSE 0)

LEMMA LoadedIs ==
  ASSUME NEW x, NEW f, NEW m \in 0 .. 3, NEW n, n = AccessBytes(f), NEW raw, raw = RawValue(x, n, m)
  PROVE  LoadedValue(LanesOfWord(x), f, m) =
           IF f < 4 /\ raw >= 2^(n * ByteBits - 1) THEN raw - 2^(n * ByteBits) ELSE raw
<1>1. \A k \in 0 .. 3 : Cell(LanesOfWord(x), m, k) = (m + k) % 4 /\ (m + k) % 4 \in 0 .. 3
  BY MemoryOfWord
<1>2. \A k \in 0 .. 3 : LanesOfWord(x)[Cell(LanesOfWord(x), m, k)] = Lane(x, (m + k) % 4)
  BY <1>1 DEF LanesOfWord
<1> QED BY <1>2 DEF LoadedValue, RawValue

LEMMA ByteLoad ==
  ASSUME NEW x \in Word, NEW m \in 0 .. 3, NEW f \in {0, 4}
  PROVE  Extend(Lane(x, m), ByteBits, f \in {4, 5}) = Wrap(LoadedValue(LanesOfWord(x), f, m))
<1>1. PICK d0 \in Digit, d1 \in Digit, d2 \in Digit, d3 \in Digit : Digits(x, d0, d1, d2, d3, 0)
  BY WordDigits
<1>2. Lane(x, m) \in Digit
  <2>1. Lane(x, 0) = d0 /\ Lane(x, 1) = d1 /\ Lane(x, 2) = d2 /\ Lane(x, 3) = d3
    BY ONLY <1>1, 0 \in Int, LanesOf
  <2>2. m = 0 \/ m = 1 \/ m = 2 \/ m = 3
    OBVIOUS
  <2> QED BY <2>1, <2>2
<1>3. PICK l : l = Lane(x, m)
  OBVIOUS
<1>4. l \in Int /\ l \in Word /\ Wrap(l) = l
  <2>1. PICK B, C, D : B = Base /\ C = B * B /\ D = B * C
    OBVIOUS
  <2>2. B \in Int /\ B > 1
    BY <2>1, BasePowers
  <2>3. C \in Int /\ C >= B
    BY ONLY <2>1, <2>2
  <2>4. D \in Int /\ D >= C
    BY ONLY <2>1, <2>2, <2>3
  <2>5. B * D \in Int /\ B * D >= D
    BY ONLY <2>2, <2>3, <2>4
  <2>6. 2^XLEN = B * D
    BY <2>1, BasePowers
  <2>7. l \in Int /\ 0 <= l /\ l <= B - 1
    BY <1>2, <1>3, <2>1, <2>2 DEF Digit
  <2>8. l \in Word
    BY <2>2, <2>3, <2>4, <2>5, <2>6, <2>7, XlenPow
  <2> QED BY <2>7, <2>8, WrapWord
<1>5. RawValue(x, 1, m) = l
  <2>1. (m + 0) % 4 = m /\ m \in Int
    OBVIOUS
  <2>2. RawValue(x, 1, m) = Lane(x, m) * 1 + 0 + 0 + 0
    BY <2>1, BasePowers DEF RawValue
  <2> QED BY <1>3, <1>4, <2>2
<1>6. AccessBytes(f) = 1 /\ 1 * ByteBits = ByteBits
  BY Accesses, BasePowers
<1>7. LoadedValue(LanesOfWord(x), f, m) =
        IF f < 4 /\ l >= 2^(ByteBits - 1) THEN l - 2^ByteBits ELSE l
  BY <1>5, <1>6, LoadedIs
<1>8. PICK h : h = 2^(ByteBits - 1)
  OBVIOUS
<1>9. h \in Int
  BY <1>8, BasePowers, PowType
<1>10. Extend(l, ByteBits, f \in {4, 5}) = IF f \in {4, 5} \/ l < h THEN l ELSE Wrap(l - 2^ByteBits)
  BY <1>8 DEF Extend
<1>11. (f \in {4, 5} \/ l < h) <=> ~(f < 4 /\ l >= h)
  BY <1>4, <1>9
<1> QED BY <1>3, <1>4, <1>7, <1>8, <1>10, <1>11

LEMMA HalfLoad ==
  ASSUME NEW x \in Word, NEW m \in {0, 2}, NEW f \in {1, 5}
  PROVE  Extend(IF m >= 2 THEN Field(x, 4 * ByteBits - 1, 2 * ByteBits) ELSE Field(x, 2 * ByteBits - 1, 0),
                2 * ByteBits, f \in {4, 5})
           = Wrap(LoadedValue(LanesOfWord(x), f, m))
<1>1. PICK d0 \in Digit, d1 \in Digit, d2 \in Digit, d3 \in Digit : Digits(x, d0, d1, d2, d3, 0)
  BY WordDigits
<1>2. PICK l, B : l = (IF m >= 2 THEN d2 + B * d3 ELSE d0 + B * d1) /\ B = Base
  OBVIOUS
<1>3. l = IF m >= 2 THEN Field(x, 4 * ByteBits - 1, 2 * ByteBits) ELSE Field(x, 2 * ByteBits - 1, 0)
  BY <1>1, <1>2, LanesOf, SMTT(30)
<1>4. /\ B \in Int /\ B > 1 /\ d0 \in Int /\ 0 <= d0 /\ d0 <= B - 1 /\ d1 \in Int /\ 0 <= d1 /\ d1 <= B - 1
      /\ d2 \in Int /\ 0 <= d2 /\ d2 <= B - 1 /\ d3 \in Int /\ 0 <= d3 /\ d3 <= B - 1
  BY <1>2, BasePowers DEF Digit
<1>5. PICK C, D : C = B * B /\ D = B * C
  OBVIOUS
<1>6. C \in Int /\ C >= B /\ D \in Int /\ D >= C
  <2>1. C \in Int /\ C >= B
    BY ONLY <1>4, <1>5
  <2>2. D \in Int /\ D >= C
    BY ONLY <1>4, <1>5, <2>1
  <2> QED BY <2>1, <2>2
<1>7. l \in Int /\ l \in Word /\ Wrap(l) = l
  <2>1. ASSUME NEW d \in Int, NEW e \in Int, 0 <= d, d <= B - 1, 0 <= e, e <= B - 1
        PROVE  d + B * e \in Int /\ 0 <= d + B * e /\ d + B * e <= C - 1
    <3>1. 0 <= B * e /\ B * e <= B * (B - 1) /\ B * (B - 1) = C - B /\ B * e \in Int
      <4>1. 0 <= B * e /\ B * e \in Int
        BY ONLY <1>4, <2>1
      <4>2. B * e <= B * (B - 1)
        BY ONLY <1>4, <2>1
      <4>3. B * (B - 1) = C - B
        BY ONLY <1>4, <1>5
      <4> QED BY <4>1, <4>2, <4>3
    <3> QED BY ONLY <1>4, <1>6, <2>1, <3>1
  <2>2. l \in Int /\ 0 <= l /\ l <= C - 1
    BY <1>2, <1>4, <2>1
  <2>3. B * D \in Int /\ B * D >= D
    BY ONLY <1>4, <1>6
  <2>4. 2^XLEN = B * D
    BY <1>2, <1>5, BasePowers
  <2>5. l \in Word
    BY <1>6, <2>2, <2>3, <2>4, XlenPow
  <2> QED BY <2>2, <2>5, WrapWord
<1>8. RawValue(x, 2, m) = l
  <2>1. CASE m = 0
    <3>1. (m + 0) % 4 = 0 /\ (m + 1) % 4 = 1
      BY <2>1
    <3>2. RawValue(x, 2, m) = Lane(x, 0) * 1 + Lane(x, 1) * B + 0 + 0
      BY <1>2, <3>1, BasePowers DEF RawValue
    <3>3. Lane(x, 0) = d0 /\ Lane(x, 1) = d1
      BY ONLY <1>1, 0 \in Int, LanesOf
    <3>4. l = d0 + B * d1
      BY <1>2, <2>1
    <3> QED BY <1>4, <3>2, <3>3, <3>4
  <2>2. CASE m = 2
    <3>1. (m + 0) % 4 = 2 /\ (m + 1) % 4 = 3
      BY <2>2
    <3>2. RawValue(x, 2, m) = Lane(x, 2) * 1 + Lane(x, 3) * B + 0 + 0
      BY <1>2, <3>1, BasePowers DEF RawValue
    <3>3. Lane(x, 2) = d2 /\ Lane(x, 3) = d3
      BY ONLY <1>1, 0 \in Int, LanesOf
    <3>4. l = d2 + B * d3
      BY <1>2, <2>2
    <3> QED BY <1>4, <3>2, <3>3, <3>4
  <2> QED BY <2>1, <2>2
<1>9. AccessBytes(f) = 2
  BY Accesses
<1>10. LoadedValue(LanesOfWord(x), f, m) =
         IF f < 4 /\ l >= 2^(2 * ByteBits - 1) THEN l - 2^(2 * ByteBits) ELSE l
  BY <1>8, <1>9, LoadedIs
<1>11. PICK h : h = 2^(2 * ByteBits - 1)
  OBVIOUS
<1>12. h \in Int
  <2>1. 2 * ByteBits - 1 \in Nat
    BY BasePowers
  <2> QED BY <1>11, <2>1, PowType
<1>13. Extend(l, 2 * ByteBits, f \in {4, 5}) = IF f \in {4, 5} \/ l < h THEN l ELSE Wrap(l - 2^(2 * ByteBits))
  BY <1>11 DEF Extend
<1>14. (f \in {4, 5} \/ l < h) <=> ~(f < 4 /\ l >= h)
  BY <1>7, <1>12
<1> QED BY <1>3, <1>7, <1>10, <1>11, <1>13, <1>14

LEMMA WordLoad ==
  ASSUME NEW x \in Word PROVE x = Wrap(LoadedValue(LanesOfWord(x), 2, 0))
<1>1. PICK d0 \in Digit, d1 \in Digit, d2 \in Digit, d3 \in Digit : Digits(x, d0, d1, d2, d3, 0)
  BY WordDigits
<1>2. Lane(x, 0) = d0 /\ Lane(x, 1) = d1 /\ Lane(x, 2) = d2 /\ Lane(x, 3) = d3
  BY ONLY <1>1, 0 \in Int, LanesOf
<1>3. PICK raw : raw = d0 + d1 * Base + d2 * (Base * Base) + d3 * (Base * (Base * Base))
  OBVIOUS
<1>4. Digits(raw, d0, d1, d2, d3, 0)
  BY <1>3, DigitsSum
<1>5. raw = x
  BY <1>1, <1>4, DigitsUnique
<1>6. RawValue(x, 4, 0) = raw
  <2>1. (0 + 0) % 4 = 0 /\ (0 + 1) % 4 = 1 /\ (0 + 2) % 4 = 2 /\ (0 + 3) % 4 = 3
    OBVIOUS
  <2>2. d0 * 1 = d0
    BY <1>1, BasePowers DEF Digit
  <2> QED BY <1>2, <1>3, <2>1, <2>2, BasePowers DEF RawValue
<1>7. LoadedValue(LanesOfWord(x), 2, 0) =
        IF 2 < 4 /\ x >= 2^(4 * ByteBits - 1) THEN x - 2^(4 * ByteBits) ELSE x
  BY <1>5, <1>6, Accesses, LoadedIs
<1>8. LoadedValue(LanesOfWord(x), 2, 0) = Signed(x)
  BY <1>7 DEF Signed, SignBit, XLEN
<1> QED BY <1>8, SignedIs

LEMMA LoadIs ==
  ASSUME NEW f \in {0, 1, 2, 4, 5}, NEW x \in Word, NEW m \in 0 .. 3, m % AccessBytes(f) = 0
  PROVE  LsuLoadData(LoadSize(f), f \in {4, 5}, m, x) = Wrap(LoadedValue(LanesOfWord(x), f, m))
<1>1. CASE f \in {0, 4}
  BY <1>1, ByteLoad DEF LsuLoadData, LoadSize
<1>2. CASE f \in {1, 5}
  <2>1. m % 2 = 0
    BY <1>2, Accesses
  <2>2. m \in {0, 2}
    BY <2>1
  <2> QED BY <1>2, <2>2, HalfLoad DEF LsuLoadData, LoadSize
<1>3. CASE f = 2
  <2>1. m % 4 = 0
    BY <1>3, Accesses
  <2>2. m = 0
    BY <2>1
  <2> QED BY <1>3, <2>2, WordLoad DEF LsuLoadData, LoadSize
<1> QED BY <1>1, <1>2, <1>3

-----------------------------------------------------------------------------
(* Stores.                                                                  *)
LEMMA LaneDigit == ASSUME NEW x \in Int, NEW k \in 0 .. 3 PROVE Lane(x, k) \in Digit
<1>1. PICK B : B = Base
  OBVIOUS
<1>2. B \in Int /\ B > 1
  BY <1>1, BasePowers
<1>3. ASSUME NEW d \in Int, d > 0 PROVE (x \div d) % B \in 0 .. B - 1
  <2>1. PICK y : y = x \div d
    OBVIOUS
  <2>2. y \in Int
    BY <1>3, <2>1
  <2>3. PICK r : r = y % B
    OBVIOUS
  <2>4. r \in Int /\ 0 <= r /\ r < B
    BY ONLY <1>2, <2>2, <2>3, DivMod
  <2> QED BY <1>2, <2>1, <2>3, <2>4
<1>4. PICK C, D : C = B * B /\ D = B * C
  OBVIOUS
<1>5. C \in Int /\ C > 0 /\ D \in Int /\ D > 0
  <2>1. C \in Int /\ C > 0
    BY ONLY <1>2, <1>4
  <2>2. D \in Int /\ D > 0
    BY ONLY <1>2, <1>4, <2>1
  <2> QED BY <2>1, <2>2
<1>6. (x \div 1) % B \in 0 .. B - 1 /\ (x \div B) % B \in 0 .. B - 1
      /\ (x \div C) % B \in 0 .. B - 1 /\ (x \div D) % B \in 0 .. B - 1
  BY <1>2, <1>3, <1>5
<1>7. k = 0 \/ k = 1 \/ k = 2 \/ k = 3
  OBVIOUS
<1> QED BY <1>1, <1>4, <1>6, <1>7, LaneIs DEF Digit

(* A strobed write keeps the other lanes.                                   *)
LEMMA MergeIs ==
  ASSUME NEW x \in Int, NEW w \in Int, NEW S, NEW j \in 0 .. 3
  PROVE  Lane(MergeLanes(x, w, S), j) = IF j \in S THEN Lane(w, j) ELSE Lane(x, j)
<1>1. PICK d0, d1, d2, d3 :
        /\ d0 = (IF 0 \in S THEN Lane(w, 0) ELSE Lane(x, 0)) /\ d1 = (IF 1 \in S THEN Lane(w, 1) ELSE Lane(x, 1))
        /\ d2 = (IF 2 \in S THEN Lane(w, 2) ELSE Lane(x, 2)) /\ d3 = (IF 3 \in S THEN Lane(w, 3) ELSE Lane(x, 3))
  OBVIOUS
<1>2. d0 \in Digit /\ d1 \in Digit /\ d2 \in Digit /\ d3 \in Digit
  <2>1. \A k \in 0 .. 3 : Lane(x, k) \in Digit /\ Lane(w, k) \in Digit
    BY LaneDigit
  <2>2. 0 \in 0 .. 3 /\ 1 \in 0 .. 3 /\ 2 \in 0 .. 3 /\ 3 \in 0 .. 3
    OBVIOUS
  <2> QED BY ONLY <1>1, <2>1, <2>2
<1>3. PICK y : y = MergeLanes(x, w, S)
  OBVIOUS
<1>4. y = d0 * 2^(ByteBits * 0) + d1 * 2^(ByteBits * 1) + d2 * 2^(ByteBits * 2) + d3 * 2^(ByteBits * 3)
  BY <1>1, <1>3 DEF MergeLanes
<1>5. /\ 2^(ByteBits * 0) = 1 /\ 2^(ByteBits * 1) = Base /\ 2^(ByteBits * 2) = Base * Base
      /\ 2^(ByteBits * 3) = Base * (Base * Base)
  <2>1. PICK n : n = ByteBits
    OBVIOUS
  <2>2. n \in Int
    BY <2>1, BasePowers
  <2>3. n * 0 = 0 * n /\ n * 1 = 1 * n /\ n * 2 = 2 * n /\ n * 3 = 3 * n
    BY <2>2
  <2> QED BY <2>1, <2>3, BasePowers
<1>6. d0 * 1 = d0
  BY <1>2, BasePowers DEF Digit
<1>7. y = d0 + d1 * Base + d2 * (Base * Base) + d3 * (Base * (Base * Base))
  BY <1>4, <1>5, <1>6
<1>8. Digits(y, d0, d1, d2, d3, 0)
  BY ONLY <1>2, <1>7, DigitsSum
<1>9. Lane(y, 0) = d0 /\ Lane(y, 1) = d1 /\ Lane(y, 2) = d2 /\ Lane(y, 3) = d3
  BY ONLY <1>2, <1>8, 0 \in Int, LanesOf
<1>10. j = 0 \/ j = 1 \/ j = 2 \/ j = 3
  OBVIOUS
<1> QED BY <1>1, <1>3, <1>9, <1>10

(* Lane j of x after a store of the n low bytes of v at offset m.           *)
LaneAfter(x, v, n, m, j) == IF (j - m) % 4 < n THEN Lane(v, (j - m) % 4) ELSE Lane(x, j)

LEMMA StoredIs ==
  ASSUME NEW x, NEW v \in Int, NEW f, NEW m \in 0 .. 3, NEW n, n = AccessBytes(f)
  PROVE  StoredMemory(LanesOfWord(x), f, m, v) = [j \in 0 .. 3 |-> LaneAfter(x, v, n, m, j)]
<1> SUFFICES StoredMemory(LanesOfWord(x), f, m, v)
               = [j \in 0 .. 3 |-> IF (j - m) % 4 < n THEN Lane(v, (j - m) % 4) ELSE Lane(x, j)]
  BY DEF LaneAfter
<1>1. MemSize(LanesOfWord(x)) = 4 /\ DOMAIN LanesOfWord(x) = 0 .. 3
      /\ \A j \in 0 .. 3 : LanesOfWord(x)[j] = Lane(x, j)
  BY MemoryOfWord DEF LanesOfWord
<1>2. ASSUME NEW k \in 0 .. 3 PROVE (v \div 2^(k * ByteBits)) % 2^ByteBits = Lane(v, k)
  <2>1. k = 0 \/ k = 1 \/ k = 2 \/ k = 3
    OBVIOUS
  <2>2. /\ 2^(0 * ByteBits) = 1 /\ 2^(1 * ByteBits) = Base /\ 2^(2 * ByteBits) = Base * Base
        /\ 2^(3 * ByteBits) = Base * (Base * Base) /\ 2^ByteBits = Base
    BY BasePowers DEF Base
  <2> QED BY <2>1, <2>2, LaneIs
<1>3. \A j \in 0 .. 3 : (j - m) % 4 \in 0 .. 3
  OBVIOUS
<1> QED BY <1>1, <1>2, <1>3 DEF StoredMemory

LEMMA Shifts ==
  /\ 2^(ByteBits * 0) = 1 /\ 2^(ByteBits * 1) = Base /\ 2^(ByteBits * 2) = Base * Base
  /\ 2^(ByteBits * 3) = Base * (Base * Base)
  /\ 2^(2 * ByteBits * (0 \div 2)) = 1 /\ 2^(2 * ByteBits * (2 \div 2)) = Base * Base
<1>1. PICK n : n = ByteBits
  OBVIOUS
<1>2. n \in Int
  BY <1>1, BasePowers
<1>3. n * 0 = 0 * n /\ n * 1 = 1 * n /\ n * 2 = 2 * n /\ n * 3 = 3 * n
      /\ 2 * n * 0 = 0 * n /\ 2 * n * 1 = 2 * n /\ 0 \div 2 = 0 /\ 2 \div 2 = 1
  BY <1>2
<1> QED BY <1>1, <1>3, BasePowers

(* A byte replicated and shifted shows in its lane; so do the halves.       *)
LEMMA ShiftedLanes ==
  ASSUME NEW x, NEW d0 \in Digit, NEW d1 \in Digit, NEW d2 \in Digit, NEW d3 \in Digit,
         Digits(x, d0, d1, d2, d3, 0)
  PROVE  /\ Lane(Wrap(x * 1), 0) = d0 /\ Lane(Wrap(x * 1), 1) = d1
         /\ Lane(Wrap(x * Base), 1) = d0
         /\ Lane(Wrap(x * (Base * Base)), 2) = d0 /\ Lane(Wrap(x * (Base * Base)), 3) = d1
         /\ Lane(Wrap(x * (Base * (Base * Base))), 3) = d0
<1>1. PICK B : B = Base
  OBVIOUS
<1>2. x \in Int /\ B \in Int /\ x * 1 = x /\ 0 \in Digit /\ 0 \in Int
  BY <1>1, DigitsInt, BasePowers DEF Digit
<1>3. PICK r1 \in Int : Digits(x * B, 0, d0, d1, d2, r1)
  BY ONLY <1>1, <1>2, DigitsShift, Digits(x, d0, d1, d2, d3, 0)
<1>4. PICK r2 \in Int : Digits((x * B) * B, 0, 0, d0, d1, r2)
  BY ONLY <1>1, <1>2, <1>3, DigitsShift
<1>5. PICK r3 \in Int : Digits(((x * B) * B) * B, 0, 0, 0, d0, r3)
  BY ONLY <1>1, <1>2, <1>4, DigitsShift
<1>6. (x * B) * B = x * (B * B) /\ ((x * B) * B) * B = x * (B * (B * B))
  BY <1>2
<1>7. PICK s0 \in Int : Digits(Wrap(x * 1), d0, d1, d2, d3, s0)
  BY <1>2, DigitsWrap
<1>8. PICK s1 \in Int : Digits(Wrap(x * B), 0, d0, d1, d2, s1)
  BY <1>2, <1>3, DigitsWrap
<1>9. PICK s2 \in Int : Digits(Wrap(x * (B * B)), 0, 0, d0, d1, s2)
  BY <1>2, <1>4, <1>6, DigitsWrap
<1>10. PICK s3 \in Int : Digits(Wrap(x * (B * (B * B))), 0, 0, 0, d0, s3)
  BY <1>2, <1>5, <1>6, DigitsWrap
<1>11. Lane(Wrap(x * 1), 0) = d0 /\ Lane(Wrap(x * 1), 1) = d1
  BY ONLY <1>7, LanesOf
<1>12. Lane(Wrap(x * B), 1) = d0
  BY ONLY <1>2, <1>8, LanesOf
<1>13. Lane(Wrap(x * (B * B)), 2) = d0 /\ Lane(Wrap(x * (B * B)), 3) = d1
  BY ONLY <1>2, <1>9, LanesOf
<1>14. Lane(Wrap(x * (B * (B * B))), 3) = d0
  BY ONLY <1>2, <1>10, LanesOf
<1> QED BY <1>1, <1>11, <1>12, <1>13, <1>14

StoreLane(x, v, s, m, j) == Lane(MergeLanes(x, LsuWriteData(s, m, v), LsuWstrb(s, m)), j)

LEMMA WriteDataInt ==
  ASSUME NEW v \in Word, NEW s \in {0, 1, 2}, NEW m \in 0 .. 3
  PROVE  LsuWriteData(s, m, v) \in Int
<1>1. ASSUME NEW x \in Int, NEW k \in Nat PROVE Wrap(x * 2^k) \in Int
  <2>1. PICK p : p = 2^k
    OBVIOUS
  <2>2. p \in Int
    BY <2>1, PowType
  <2>3. x * p \in Int
    BY <2>2
  <2> QED BY <2>1, <2>3, WrapIn, WrapWord
<1>2. PICK byte, half : byte = Field(v, ByteBits - 1, 0) /\ half = Field(v, 2 * ByteBits - 1, 0)
  OBVIOUS
<1>3. byte \in Int /\ half \in Int
  <2>1. ASSUME NEW n \in Nat PROVE Field(v, n - 1, 0) \in Int
    <3>1. PICK p, q : p = 2^0 /\ q = 2^(n - 1 - 0 + 1)
      OBVIOUS
    <3>2. n - 1 - 0 + 1 = n /\ v \in Int
      BY WrapWord
    <3>3. p = 1 /\ q \in Int /\ q > 0
      BY <3>1, <3>2, PowSmall, PowType
    <3>4. v \div p = v
      BY <3>2, <3>3
    <3>5. PICK r : r = v % q
      OBVIOUS
    <3>6. r \in Int
      BY ONLY <3>2, <3>3, <3>5, DivMod
    <3> QED BY <3>1, <3>4, <3>5, <3>6 DEF Field
  <2> QED BY <1>2, <2>1, BasePowers
<1>4. PICK r4, r2 : r4 = byte * (1 + 2^ByteBits + 2^(2 * ByteBits) + 2^(3 * ByteBits)) /\ r2 = half * (1 + 2^(2 * ByteBits))
  OBVIOUS
<1>5. r4 \in Int /\ r2 \in Int
  <2>1. PICK a1, a2, a3 : a1 = 2^ByteBits /\ a2 = 2^(2 * ByteBits) /\ a3 = 2^(3 * ByteBits)
    OBVIOUS
  <2>2. a1 \in Int /\ a2 \in Int /\ a3 \in Int
    BY <2>1, BasePowers, PowType
  <2>3. byte * (1 + a1 + a2 + a3) \in Int /\ half * (1 + a2) \in Int
    BY ONLY <1>3, <2>2
  <2> QED BY <1>4, <2>1, <2>3
<1>6. CASE s = 0
  <2>1. LsuWriteData(s, m, v) = Wrap(r4 * 2^(ByteBits * m))
    BY <1>2, <1>4, <1>6 DEF LsuWriteData
  <2>2. ByteBits * m \in Nat
    BY BasePowers
  <2> QED BY <1>1, <1>5, <2>1, <2>2
<1>7. CASE s = 1
  <2>1. LsuWriteData(s, m, v) = Wrap(r2 * 2^(2 * ByteBits * (m \div 2)))
    BY <1>2, <1>4, <1>7 DEF LsuWriteData
  <2>2. m \div 2 \in Nat
    OBVIOUS
  <2>3. 2 * ByteBits * (m \div 2) \in Nat
    BY <2>2, BasePowers
  <2> QED BY <1>1, <1>5, <2>1, <2>3
<1>8. CASE s = 2
  <2>1. LsuWriteData(s, m, v) = v
    BY <1>8 DEF LsuWriteData
  <2> QED BY <2>1, WrapWord
<1> QED BY <1>6, <1>7, <1>8

LEMMA StoreIs ==
  ASSUME NEW f \in {0, 1, 2}, NEW x \in Word, NEW v \in Word, NEW m \in 0 .. 3, m % AccessBytes(f) = 0,
         NEW j \in 0 .. 3
  PROVE  StoreLane(x, v, StoreSize(f), m, j) = LaneAfter(x, v, AccessBytes(f), m, j)
<1> SUFFICES StoreLane(x, v, StoreSize(f), m, j)
               = IF (j - m) % 4 < AccessBytes(f) THEN Lane(v, (j - m) % 4) ELSE Lane(x, j)
  BY DEF LaneAfter
<1>1. PICK d0 \in Digit, d1 \in Digit, d2 \in Digit, d3 \in Digit : Digits(v, d0, d1, d2, d3, 0)
  BY WordDigits
<1>2. /\ Lane(v, 0) = d0 /\ Lane(v, 1) = d1 /\ Lane(v, 2) = d2 /\ Lane(v, 3) = d3
      /\ Field(v, 2 * ByteBits - 1, 0) = d0 + Base * d1
  BY ONLY <1>1, 0 \in Int, LanesOf
<1>3. x \in Int /\ v \in Int
  BY WrapWord
<1>4. PICK B : B = Base
  OBVIOUS
<1>5. B \in Int /\ d0 \in Int /\ d1 \in Int
  BY <1>4, BasePowers DEF Digit
<1>6. CASE f = 0
  <2>1. Field(v, ByteBits - 1, 0) = d0
    <3>1. Lane(v, 0) = Field(v, (0 + 1) * ByteBits - 1, 0 * ByteBits)
      BY DEF Lane
    <3>2. (0 + 1) * ByteBits - 1 = ByteBits - 1 /\ 0 * ByteBits = 0
      BY BasePowers
    <3> QED BY <1>2, <3>1, <3>2
  <2>2. PICK r4 : r4 = d0 * (1 + B + B * B + B * (B * B))
    OBVIOUS
  <2>3. Digits(r4, d0, d0, d0, d0, 0)
    <3>1. r4 = d0 + d0 * B + d0 * (B * B) + d0 * (B * (B * B))
      BY ONLY <1>5, <2>2
    <3> QED BY <1>4, <3>1, DigitsSum
  <2>4. LsuWriteData(0, m, v) = Wrap(r4 * 2^(ByteBits * m))
    <3>1. r4 = Field(v, ByteBits - 1, 0) * (1 + 2^ByteBits + 2^(2 * ByteBits) + 2^(3 * ByteBits))
      BY <1>4, <2>1, <2>2, BasePowers DEF Base
    <3> QED BY <3>1 DEF LsuWriteData
  <2>5. PICK W : W = LsuWriteData(0, m, v)
    OBVIOUS
  <2>6. Lane(W, m) = d0
    <3>1. m = 0 \/ m = 1 \/ m = 2 \/ m = 3
      OBVIOUS
    <3>2. W = Wrap(r4 * 2^(ByteBits * m))
      BY <2>4, <2>5
    <3>3. CASE m = 0
      <4>1. W = Wrap(r4 * 1)
        BY <3>2, <3>3, Shifts
      <4> QED BY <2>3, <3>3, <4>1, ShiftedLanes
    <3>4. CASE m = 1
      <4>1. W = Wrap(r4 * Base)
        BY <3>2, <3>4, Shifts
      <4> QED BY <2>3, <3>4, <4>1, ShiftedLanes
    <3>5. CASE m = 2
      <4>1. W = Wrap(r4 * (Base * Base))
        BY <3>2, <3>5, Shifts
      <4> QED BY <2>3, <3>5, <4>1, ShiftedLanes
    <3>6. CASE m = 3
      <4>1. W = Wrap(r4 * (Base * (Base * Base)))
        BY <3>2, <3>6, Shifts
      <4> QED BY <2>3, <3>6, <4>1, ShiftedLanes
    <3> QED BY <3>1, <3>3, <3>4, <3>5, <3>6
  <2>7. W \in Int
    BY <2>5, WriteDataInt
  <2>8. StoreLane(x, v, StoreSize(f), m, j) = IF j \in {m} THEN Lane(W, j) ELSE Lane(x, j)
    <3>1. StoreSize(f) = 0 /\ LsuWstrb(0, m) = {m}
      BY <1>6 DEF StoreSize, LsuWstrb
    <3>2. StoreLane(x, v, StoreSize(f), m, j) = Lane(MergeLanes(x, W, {m}), j)
      BY <2>5, <3>1 DEF StoreLane
    <3> QED BY <1>3, <2>7, <3>2, MergeIs
  <2>9. ((j - m) % 4 < 1 <=> j = m) /\ (j = m => (j - m) % 4 = 0)
    OBVIOUS
  <2>10. AccessBytes(f) = 1
    BY <1>6, Accesses
  <2> QED BY <1>2, <2>6, <2>8, <2>9, <2>10
<1>7. CASE f = 1
  <2>0. AccessBytes(f) = 2
    BY <1>7, Accesses
  <2>1. m = 0 \/ m = 2
    BY <2>0
  <2>2. PICK half, r2 : half = d0 + B * d1 /\ r2 = half * (1 + B * B)
    OBVIOUS
  <2>3. Digits(r2, d0, d1, d0, d1, 0)
    <3>1. (d0 + B * d1) * (1 + B * B) = d0 + d1 * B + d0 * (B * B) + d1 * (B * (B * B))
      BY ONLY <1>5
    <3>2. r2 = d0 + d1 * B + d0 * (B * B) + d1 * (B * (B * B))
      BY <2>2, <3>1
    <3> QED BY <1>4, <3>2, DigitsSum
  <2>4. PICK W : W = LsuWriteData(1, m, v)
    OBVIOUS
  <2>5. W = Wrap(r2 * 2^(2 * ByteBits * (m \div 2)))
    <3>1. r2 = Field(v, 2 * ByteBits - 1, 0) * (1 + 2^(2 * ByteBits))
      BY <1>2, <1>4, <2>2, BasePowers
    <3> QED BY <2>4, <3>1 DEF LsuWriteData
  <2>6. Lane(W, m) = d0 /\ Lane(W, m + 1) = d1
    <3>1. CASE m = 0
      <4>1. W = Wrap(r2 * 1)
        BY <2>5, <3>1, Shifts
      <4>2. m + 1 = 1
        BY <3>1
      <4> QED BY <2>3, <3>1, <4>1, <4>2, ShiftedLanes
    <3>2. CASE m = 2
      <4>1. W = Wrap(r2 * (Base * Base))
        BY <2>5, <3>2, Shifts
      <4>2. m + 1 = 3
        BY <3>2
      <4> QED BY <2>3, <3>2, <4>1, <4>2, ShiftedLanes
    <3> QED BY <2>1, <3>1, <3>2
  <2>7. W \in Int
    BY <2>4, WriteDataInt
  <2>8. StoreLane(x, v, StoreSize(f), m, j) = IF j \in {m, m + 1} THEN Lane(W, j) ELSE Lane(x, j)
    <3>1. StoreSize(f) = 1
      BY <1>7 DEF StoreSize
    <3>2. LsuWstrb(1, m) = {m, m + 1}
      <4>1. LsuWstrb(1, m) = IF m >= 2 THEN {2, 3} ELSE {0, 1}
        BY DEF LsuWstrb
      <4>2. (m = 0 => m + 1 = 1 /\ ~(m >= 2)) /\ (m = 2 => m + 1 = 3 /\ m >= 2)
        OBVIOUS
      <4> QED BY <2>1, <4>1, <4>2
    <3>3. StoreLane(x, v, StoreSize(f), m, j) = Lane(MergeLanes(x, W, {m, m + 1}), j)
      BY <2>4, <3>1, <3>2 DEF StoreLane
    <3> QED BY <1>3, <2>7, <3>3, MergeIs
  <2>9. ((j - m) % 4 < 2 <=> j \in {m, m + 1}) /\ (j = m => (j - m) % 4 = 0) /\ (j = m + 1 => (j - m) % 4 = 1)
    BY <2>1
  <2> QED BY <1>2, <2>0, <2>6, <2>8, <2>9
<1>8. CASE f = 2
  <2>0. AccessBytes(f) = 4
    BY <1>8, Accesses
  <2>1. m = 0
    BY <2>0
  <2>2. StoreSize(f) = 2 /\ LsuWriteData(2, m, v) = v /\ LsuWstrb(2, m) = 0 .. 3
    BY <1>8 DEF StoreSize, LsuWriteData, LsuWstrb, Lanes
  <2>3. StoreLane(x, v, StoreSize(f), m, j) = Lane(v, j)
    <3>1. StoreLane(x, v, StoreSize(f), m, j) = Lane(MergeLanes(x, v, 0 .. 3), j)
      BY <2>2 DEF StoreLane
    <3> QED BY <1>3, <3>1, MergeIs
  <2>4. (j - m) % 4 = j /\ j < 4
    BY <2>1
  <2> QED BY <2>0, <2>3, <2>4
<1> QED BY <1>6, <1>7, <1>8

(* The operation the two arithmetic opcodes decode to is the one funct3 and *)
(* funct7[5] name.                                                          *)
LEMMA DecodesTo ==
  ASSUME NEW i, NEW o, o = Decode(i)
  PROVE  /\ i.opcode \in {"OP", "OP_IMM"} =>
              /\ o.alu_op = (IF i.opcode = "OP" THEN OpAlu(i.funct3, i.funct7) ELSE OpImmAlu(i.funct3, i.funct7))
              /\ o.reg_write = TRUE /\ o.use_rs1 = TRUE /\ o.use_rs2 = (i.opcode = "OP")
         /\ i.opcode = "BRANCH" => o.branch_kind = BranchKind(i.funct3)
         /\ i.opcode = "LOAD" => o.mem_size = LoadSize(i.funct3) /\ o.mem_unsigned = (i.funct3 \in {4, 5})
         /\ i.opcode = "STORE" => o.mem_size = StoreSize(i.funct3)
<1>1. CASE i.opcode = "OP"
  BY <1>1 DEF Decode, NoControl
<1>2. CASE i.opcode = "OP_IMM"
  BY <1>2 DEF Decode, NoControl
<1>3. CASE i.opcode = "BRANCH"
  BY <1>3 DEF Decode, NoControl
<1>4. CASE i.opcode = "LOAD"
  BY <1>4 DEF Decode, NoControl
<1>5. CASE i.opcode = "STORE"
  BY <1>5 DEF Decode, NoControl
<1> QED BY <1>1, <1>2, <1>3, <1>4, <1>5

LEMMA AluCode ==
  /\ \A f \in 0 .. 7 : OpImmAlu(f, 0) = AluOf(f, FALSE) /\ OpAlu(f, 0) = AluOf(f, FALSE)
  /\ OpImmAlu(5, 32) = AluOf(5, TRUE) /\ OpAlu(5, 32) = AluOf(5, TRUE) /\ OpAlu(0, 32) = AluOf(0, TRUE)
<1>1. Bit(0, 5) = 0 /\ Bit(32, 5) = 1
  <2>1. 2^5 = 32
    BY PowSmall
  <2>2. 0 \div 32 = 0 /\ 32 \div 32 = 1 /\ 0 % 2 = 0 /\ 1 % 2 = 1
    OBVIOUS
  <2> QED BY <2>1, <2>2 DEF Bit
<1>2. ASSUME NEW f \in 0 .. 7 PROVE OpImmAlu(f, 0) = AluOf(f, FALSE)
  BY <1>1 DEF OpImmAlu, AluOf
<1>3. ASSUME NEW f \in 0 .. 7 PROVE OpAlu(f, 0) = AluOf(f, FALSE)
  <2>1. f = 0 \/ f = 1 \/ f = 2 \/ f = 3 \/ f = 4 \/ f = 5 \/ f = 6 \/ f = 7
    OBVIOUS
  <2> QED BY <2>1 DEF OpAlu, AluOf
<1>4. OpImmAlu(5, 32) = AluOf(5, TRUE) /\ OpAlu(5, 32) = AluOf(5, TRUE) /\ OpAlu(0, 32) = AluOf(0, TRUE)
  BY <1>1 DEF OpImmAlu, OpAlu, AluOf
<1> QED BY <1>2, <1>3, <1>4
-----------------------------------------------------------------------------
(* What Decode sets for each kind of instruction, beside NoControl.         *)

(* LUI and AUIPC write the result of the ALU.                               *)
LEMMA UpperControl ==
  ASSUME NEW i, i.opcode \in {"LUI", "AUIPC"}, NEW o, o = Decode(i)
  PROVE  /\ o.src_b_imm /\ o.reg_write /\ ~o.mem_write /\ ~o.csr_read
         /\ ~o.jal /\ ~o.jalr /\ o.branch_kind = "NONE" /\ o.wb_sel = "ALU"
         /\ o.alu_op = (IF i.opcode = "LUI" THEN "COPY_B" ELSE "ADD")
         /\ i.opcode = "AUIPC" => o.src_a_pc
<1>1. CASE i.opcode = "LUI"
  <2>1. o = [NoControl(i) EXCEPT !.src_b_imm = TRUE, !.reg_write = TRUE, !.alu_op = "COPY_B"]
    BY <1>1 DEF Decode
  <2> QED BY <1>1, <2>1 DEF NoControl
<1>2. CASE i.opcode = "AUIPC"
  <2>1. o = [NoControl(i) EXCEPT !.src_a_pc = TRUE, !.src_b_imm = TRUE, !.reg_write = TRUE]
    BY <1>2 DEF Decode
  <2> QED BY <1>2, <2>1 DEF NoControl
<1> QED BY <1>1, <1>2

(* JAL and JALR write pc + 4.                                               *)
LEMMA JumpControl ==
  ASSUME NEW i, i.opcode \in {"JAL", "JALR"}, NEW o, o = Decode(i)
  PROVE  /\ o.reg_write /\ ~o.mem_write /\ ~o.csr_read /\ o.wb_sel = "PC4"
         /\ (o.jalr <=> i.opcode = "JALR") /\ (o.jal <=> i.opcode = "JAL")
         /\ o.alu_op = "ADD" /\ (i.opcode = "JALR" => o.use_rs1)
<1>1. CASE i.opcode = "JAL"
  <2>1. o = [NoControl(i) EXCEPT !.jal = TRUE, !.reg_write = TRUE, !.wb_sel = "PC4"]
    BY <1>1 DEF Decode
  <2> QED BY <1>1, <2>1 DEF NoControl
<1>2. CASE i.opcode = "JALR"
  <2>1. o = [NoControl(i) EXCEPT !.use_rs1 = TRUE, !.jalr = TRUE, !.reg_write = TRUE, !.wb_sel = "PC4"]
    BY <1>2 DEF Decode
  <2> QED BY <1>2, <2>1 DEF NoControl
<1> QED BY <1>1, <1>2

(* A branch writes nothing and compares both sources.                       *)
LEMMA BranchControl ==
  ASSUME NEW i, i.opcode = "BRANCH", NEW o, o = Decode(i)
  PROVE  /\ ~o.reg_write /\ ~o.mem_write /\ ~o.csr_read /\ ~o.jal /\ ~o.jalr
         /\ o.branch_kind = BranchKind(i.funct3)
         /\ o.alu_op = "ADD" /\ o.use_rs1 /\ o.use_rs2
<1>1. o = [NoControl(i) EXCEPT !.use_rs1 = TRUE, !.use_rs2 = TRUE,
                               !.branch_kind = BranchKind(i.funct3)]
  BY DEF Decode
<1> HIDE DEF BranchKind
<1> QED BY <1>1 DEF NoControl

(* Loads and stores add their address.                                      *)
LEMMA MemoryControl ==
  ASSUME NEW i, i.opcode \in {"LOAD", "STORE"}, NEW o, o = Decode(i)
  PROVE  o.alu_op = "ADD"
<1>1. CASE i.opcode = "LOAD"
  <2>1. o = [NoControl(i) EXCEPT !.use_rs1 = TRUE, !.src_b_imm = TRUE, !.reg_write = TRUE,
                                 !.mem_read = TRUE, !.wb_sel = "LOAD",
                                 !.mem_size = LoadSize(i.funct3),
                                 !.mem_unsigned = i.funct3 \in {4, 5}]
    BY <1>1 DEF Decode
  <2> QED BY <2>1 DEF NoControl
<1>2. CASE i.opcode = "STORE"
  <2>1. o = [NoControl(i) EXCEPT !.use_rs1 = TRUE, !.use_rs2 = TRUE, !.src_b_imm = TRUE,
                                 !.mem_write = TRUE, !.mem_size = StoreSize(i.funct3)]
    BY <1>2 DEF Decode
  <2> QED BY <2>1 DEF NoControl
<1> QED BY <1>1, <1>2

(* OP and OP_IMM write the result of the operation their functs name.       *)
LEMMA ArithmeticControl ==
  ASSUME NEW i, i.opcode \in {"OP_IMM", "OP"}, NEW o, o = Decode(i)
  PROVE  /\ o.reg_write /\ ~o.mem_write /\ ~o.csr_read /\ ~o.jal /\ ~o.jalr
         /\ o.branch_kind = "NONE" /\ o.wb_sel = "ALU" /\ o.use_rs1 /\ ~o.src_a_pc
         /\ (o.src_b_imm <=> i.opcode = "OP_IMM") /\ (o.use_rs2 <=> i.opcode = "OP")
         /\ i.opcode = "OP" => o.alu_op = OpAlu(i.funct3, i.funct7)
         /\ i.opcode = "OP_IMM" => o.alu_op = OpImmAlu(i.funct3, i.funct7)
<1>1. CASE i.opcode = "OP"
  <2>1. o = [NoControl(i) EXCEPT !.use_rs1 = TRUE, !.use_rs2 = TRUE, !.reg_write = TRUE,
                                 !.alu_op = OpAlu(i.funct3, i.funct7)]
    BY <1>1 DEF Decode
  <2> QED BY <1>1, <2>1 DEF NoControl
<1>2. CASE i.opcode = "OP_IMM"
  <2>1. o = [NoControl(i) EXCEPT !.use_rs1 = TRUE, !.src_b_imm = TRUE, !.reg_write = TRUE,
                                 !.alu_op = OpImmAlu(i.funct3, i.funct7)]
    BY <1>2 DEF Decode
  <2> QED BY <1>2, <2>1 DEF NoControl
<1> QED BY <1>1, <1>2
=============================================================================
