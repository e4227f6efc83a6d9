-------------------------- MODULE EnvironmentProofs --------------------------
(* The programs around the core, for all their parameters.                  *)
EXTENDS Environment, WellFoundedInduction, TLAPS

-----------------------------------------------------------------------------
(* Induction over the numbers up to n, and the functions it defines.        *)
LEMMA LeastElement ==
  ASSUME NEW T, T \subseteq Nat, T # {}
  PROVE  \E m \in T : \A k \in T : m <= k
<1> DEFINE Less == OpToRel(<, Nat)
<1>1. IsWellFoundedOn(Less, Nat)
  BY NatLessThanWellFounded
<1>2. \A k, m \in Nat : k < m => <<k, m>> \in Less
  BY DEF OpToRel
<1> HIDE DEF Less
<1>3. PICK m \in T : \A k \in T : ~(<<k, m>> \in Less)
  BY <1>1, WFMin
<1>4. ASSUME NEW k \in T PROVE m <= k
  <2>1. m \in Nat /\ k \in Nat /\ ~(<<k, m>> \in Less)
    BY <1>3
  <2>2. ~(k < m)
    BY <1>2, <2>1
  <2> QED BY <2>1, <2>2
<1> QED BY <1>3, <1>4

LEMMA Induct ==
  ASSUME NEW n \in Nat, NEW S, 0 \in S, \A k \in 1 .. n : k - 1 \in S => k \in S
  PROVE  \A k \in 0 .. n : k \in S
<1> DEFINE T == {k \in 0 .. n : k \notin S}
<1> SUFFICES ASSUME T # {} PROVE FALSE
  OBVIOUS
<1>0. T \subseteq Nat /\ T # {}
  OBVIOUS
<1>1. PICK m \in T : \A k \in T : m <= k
  <2> HIDE DEF T
  <2> QED BY <1>0, LeastElement
<1>2. m \in 1 .. n /\ m - 1 \in 0 .. n /\ m - 1 \notin T
  BY <1>1
<1> QED BY <1>1, <1>2

Steps(n, T) == [T \X (1 .. n) -> T]
Solves(f, n, T, start, step) ==
  /\ f \in [0 .. n -> T]
  /\ f[0] = start
  /\ \A k \in 1 .. n : f[k] = step[<<f[k - 1], k>>]

LEMMA Recursion ==
  ASSUME NEW n \in Nat, NEW T, NEW start \in T, NEW step \in Steps(n, T)
  PROVE  \E f : Solves(f, n, T, start, step)
<1> USE DEF Steps, Solves
<1> DEFINE Good(m, f) == /\ f \in [0 .. n -> T] /\ f[0] = start
                         /\ \A k \in 1 .. m : f[k] = step[<<f[k - 1], k>>]
           S == {m \in 0 .. n : \E f : Good(m, f)}
<1>1. 0 \in S
  <2>1. PICK f : f = [k \in 0 .. n |-> start]
    OBVIOUS
  <2>2. Good(0, f)
    BY <2>1
  <2> QED BY <2>2
<1>2. ASSUME NEW m \in 1 .. n, m - 1 \in S PROVE m \in S
  <2>1. PICK f : Good(m - 1, f)
    BY <1>2
  <2>2. PICK g : g = [f EXCEPT ![m] = step[<<f[m - 1], m>>]]
    OBVIOUS
  <2>3. step[<<f[m - 1], m>>] \in T
    BY <2>1
  <2>4. g \in [0 .. n -> T] /\ g[0] = start
    BY <2>1, <2>2, <2>3
  <2>5. ASSUME NEW k \in 1 .. m PROVE g[k] = step[<<g[k - 1], k>>]
    <3>1. g[k - 1] = f[k - 1]
      BY <2>1, <2>2
    <3>2. CASE k = m
      <4>1. g[m] = step[<<f[m - 1], m>>]
        BY <2>1, <2>2
      <4> QED BY <3>1, <3>2, <4>1
    <3>3. CASE k # m
      BY <2>1, <2>2, <3>1, <3>3
    <3> QED BY <3>2, <3>3
  <2>6. Good(m, g)
    BY <2>4, <2>5
  <2> QED BY <2>6
<1>3. n \in S
  <2>1. \A k \in 0 .. n : k \in S
    <3> HIDE DEF S
    <3> QED BY <1>1, <1>2, Induct
  <2> QED BY <2>1
<1> QED BY <1>3

-----------------------------------------------------------------------------
(* The loader. The words of the data RAM it uses.                           *)
LEMMA Joined ==
  ASSUME NEW S, NEW s \in Seq(S), NEW t \in Seq(S)
  PROVE  /\ s \o t \in Seq(S) /\ Len(s \o t) = Len(s) + Len(t)
         /\ \A k \in 1 .. Len(s) : (s \o t)[k] = s[k]
         /\ \A k \in Len(s) + 1 .. Len(s) + Len(t) : (s \o t)[k] = t[k - Len(s)]
  OBVIOUS

LEMMA JoinedEnd ==
  ASSUME NEW S, NEW s \in Seq(S), NEW t \in Seq(S), NEW q, q = s \o t,
         NEW k \in Int, Len(s) < k, k <= Len(s) + Len(t)
  PROVE  q[k] = t[k - Len(s)]
  OBVIOUS

LEMMA GccWords ==
  ASSUME app = "gcc"
  PROVE  /\ Len(Load!Words) = 11 /\ Load!Words[4] = 16
         /\ {4, 8, 12, 16, 20, 24, 32, 36, 40, 44, 48} \subseteq Load!WordSet
         /\ Load!Reads = <<12, 24, 20, 32, 36, 40>>
<1> USE DEF Load!INPUT0, Load!INPUT1, Load!RESULT, Load!STATUS, Load!FAIL, Load!EXPECTED, Load!DIAG
<1> DEFINE first  == <<4, 8, 12, 16, 20, 24>>
           second == [n \in 1 .. 5 |-> 32 + 4 * (n - 1)]
           joined == first \o second
<1>1. Load!Words = joined
  BY DEF Load!Words
<1>2. /\ first \in Seq(Int) /\ Len(first) = 6
      /\ second \in Seq(Int) /\ Len(second) = 5
  OBVIOUS
<1>3. /\ Len(Load!Words) = 11
      /\ \A k \in 1 .. 6 : Load!Words[k] = first[k]
      /\ \A k \in 7 .. 11 : Load!Words[k] = second[k - 6]
  <2> HIDE DEF first, second
  <2>1. /\ Len(joined) = Len(first) + Len(second)
        /\ \A k \in 1 .. Len(first) : joined[k] = first[k]
        /\ \A k \in Len(first) + 1 .. Len(first) + Len(second) :
             joined[k] = second[k - Len(first)]
    BY ONLY <1>2, Joined, ZenonT(30)
  <2> HIDE DEF joined
  <2> QED BY <1>1, <1>2, <2>1
<1>4. /\ Load!Words[1] = 4 /\ Load!Words[2] = 8 /\ Load!Words[3] = 12
      /\ Load!Words[4] = 16 /\ Load!Words[5] = 20 /\ Load!Words[6] = 24
  BY <1>3
<1>5. /\ Load!Words[7] = 32 /\ Load!Words[8] = 36 /\ Load!Words[9] = 40
      /\ Load!Words[10] = 44 /\ Load!Words[11] = 48
  BY <1>3
<1>6. \A k \in 1 .. 11 : Load!Words[k] \in Load!WordSet
  BY <1>3 DEF Load!WordSet
<1>7. {4, 8, 12, 16, 20, 24, 32, 36, 40, 44, 48} \subseteq Load!WordSet
  BY <1>4, <1>5, <1>6
<1>8. Load!Reads = <<12, 24, 20, 32, 36, 40>>
  BY DEF Load!Reads
<1> QED BY <1>3, <1>4, <1>7, <1>8

LEMMA SelfTestWords ==
  ASSUME app = "selftest"
  PROVE  /\ Len(Load!Words) = Tests + 1
         /\ Load!Words[1] = 16
         /\ \A n \in 1 .. Tests : Load!Words[n + 1] = Load!Result(n)
         /\ {16} \cup {Load!Result(n) : n \in 1 .. Tests} \subseteq Load!WordSet
         /\ Load!Reads = [n \in 1 .. Tests |-> Load!Result(n)]
         /\ Len(Load!Reads) = Tests
<1> USE LoaderAssumption DEF Load!STATUS, Load!Result
<1>1. Load!Words = <<16>> \o [n \in 1 .. Tests |-> Load!Result(n)]
  BY DEF Load!Words, Load!TestWords
<1>2. [n \in 1 .. Tests |-> Load!Result(n)] \in Seq(Int)
  OBVIOUS
<1>3. Len([n \in 1 .. Tests |-> Load!Result(n)]) = Tests
  OBVIOUS
<1>4. /\ Len(Load!Words) = Tests + 1
      /\ Load!Words[1] = 16
      /\ \A n \in 1 .. Tests : Load!Words[n + 1] = Load!Result(n)
  BY <1>1, <1>2, <1>3
<1>5. {16} \cup {Load!Result(n) : n \in 1 .. Tests} \subseteq Load!WordSet
  <2>1. 16 \in Load!WordSet
    BY <1>4 DEF Load!WordSet
  <2>2. ASSUME NEW n \in 1 .. Tests PROVE Load!Result(n) \in Load!WordSet
    <3>1. n + 1 \in 1 .. Len(Load!Words) /\ Load!Words[n + 1] = Load!Result(n)
      BY <1>4
    <3> QED BY <3>1 DEF Load!WordSet
  <2> QED BY <2>1, <2>2
<1>6. Load!Reads = [n \in 1 .. Tests |-> Load!Result(n)] /\ Len(Load!Reads) = Tests
  BY <1>3 DEF Load!Reads, Load!TestWords
<1> QED BY <1>4, <1>5, <1>6

(* What the program on the core has done, by its progress. *)
GccInv ==
  /\ core_pc > 1 => dmem[4] = 13
  /\ core_pc > 2 => dmem[8] = 70
  /\ core_pc > 3 => a = 13
  /\ core_pc > 4 => b = 70
  /\ core_pc > 5 => dmem[32] = 13
  /\ core_pc > 6 => dmem[36] = 70
  /\ core_pc > 7 => dmem[40] = 83
  /\ core_pc > 10 => fail_count = 3
  /\ core_pc > 11 => dmem[12] = 993
  /\ core_pc > 12 => dmem[24] = 993
  /\ core_pc > 13 => dmem[20] = 3
  /\ dmem[16] = 51966 => core_pc = 15
SelfTestInv ==
  /\ \A n \in 1 .. Tests : core_pc > n => dmem[Load!Result(n)] = 100 + n
  /\ dmem[16] = 51966 => core_pc = Tests + 2
Progress == IF app = "gcc" THEN GccInv ELSE SelfTestInv

ArmLabels == {"hold", "clear", "load", "verify", "release", "poll", "read", "end"}
CoreEnd == IF app = "gcc" THEN 15 ELSE Tests + 2
LoaderTypes ==
  /\ app \in {"gcc", "selftest"} /\ cpu_reset \in BOOLEAN
  /\ imem \in [1 .. CodeWords -> {"old", "code", "bad"}]
  /\ dmem \in [Load!WordSet -> Int]
  /\ arm \in ArmLabels /\ i \in Nat \ {0}
  /\ poll \in 0 .. POLL_TIMEOUT /\ (arm = "poll" => poll < POLL_TIMEOUT)
  /\ status \in Int /\ got \in Seq(Int)
  /\ verdict \in {"none", "VERIFY_FAIL", "TIMEOUT", "PASS", "FAIL"}
  /\ core_pc \in 1 .. CoreEnd
  /\ a \in Int /\ b \in Int /\ fail_count \in Int

(* What the loader has achieved, by where it is. *)
Started == arm \in {"poll", "read"} \/ (arm = "end" /\ verdict # "VERIFY_FAIL")
Prepared ==
  /\ arm \in {"clear", "load", "verify", "release"} => cpu_reset /\ core_pc = 1
  /\ arm = "clear" => /\ i <= Len(Load!Words)
                      /\ \A k \in 1 .. i - 1 : dmem[Load!Words[k]] = 0
  /\ arm \in {"load", "verify", "release"} => dmem[16] = 0
  /\ arm \in {"load", "verify"} => i <= CodeWords
  /\ arm = "verify" => \A k \in 1 .. i - 1 : imem[k] = "code"
  /\ arm = "release" => Load!Whole
WasRead ==
  /\ arm = "read" => i <= Len(Load!Reads) + 1 /\ Len(got) = i - 1
  /\ arm \in {"read", "end"} /\ Started /\ status = 51966 =>
       /\ dmem[16] = 51966
       /\ \A k \in 1 .. Len(got) : got[k] = Load!FinalWord(Load!Reads[k])
       /\ arm = "read" => poll < POLL_TIMEOUT
       /\ arm = "end" => verdict = IF app = "gcc" THEN "FAIL" ELSE "PASS"
LoaderInv ==
  /\ LoaderTypes /\ Prepared /\ WasRead
  /\ Started => ~cpu_reset /\ Load!Whole /\ Progress

LEMMA WordUsed ==
  LoaderTypes => /\ 16 \in Load!WordSet /\ Len(Load!Words) \in Nat \ {0}
                 /\ \E k \in 1 .. Len(Load!Words) : Load!Words[k] = 16
                 /\ \A k \in 1 .. Len(Load!Words) : Load!Words[k] \in Load!WordSet
                 /\ Len(Load!Reads) \in Nat
                 /\ \A k \in 1 .. Len(Load!Reads) : Load!Reads[k] \in Load!WordSet
<1> SUFFICES ASSUME LoaderTypes
    PROVE /\ 16 \in Load!WordSet /\ Len(Load!Words) \in Nat \ {0}
          /\ \E k \in 1 .. Len(Load!Words) : Load!Words[k] = 16
          /\ \A k \in 1 .. Len(Load!Words) : Load!Words[k] \in Load!WordSet
          /\ Len(Load!Reads) \in Nat
          /\ \A k \in 1 .. Len(Load!Reads) : Load!Reads[k] \in Load!WordSet
  OBVIOUS
<1>1. \A k \in 1 .. Len(Load!Words) : Load!Words[k] \in Load!WordSet
  BY DEF Load!WordSet
<1>2. CASE app = "gcc"
  <2>1. Len(Load!Words) = 11 /\ Load!Words[4] = 16 /\ 16 \in Load!WordSet
    BY <1>2, GccWords
  <2>2. Len(Load!Reads) = 6 /\ \A k \in 1 .. 6 : Load!Reads[k] \in Load!WordSet
    BY <1>2, GccWords
  <2> QED BY <1>1, <2>1, <2>2
<1>3. CASE app = "selftest"
  <2>1. Len(Load!Words) = Tests + 1 /\ Load!Words[1] = 16 /\ 16 \in Load!WordSet
    BY <1>3, SelfTestWords
  <2>2. Len(Load!Reads) = Tests /\ \A k \in 1 .. Tests : Load!Reads[k] \in Load!WordSet
    BY <1>3, SelfTestWords
  <2> QED BY <1>1, <2>1, <2>2, LoaderAssumption
<1> QED BY <1>2, <1>3 DEF LoaderTypes

(* With DONE in memory, every word the loader reads is the program's.       *)
LEMMA DoneMeansWritten ==
  ASSUME LoaderTypes, Progress, dmem[16] = 51966
  PROVE  \A k \in 1 .. Len(Load!Reads) : dmem[Load!Reads[k]] = Load!FinalWord(Load!Reads[k])
<1> USE DEF Load!FinalWord, Load!RESULT, Load!EXPECTED, Load!FAIL, Load!DIAG,
        Load!exp_val
<1>1. CASE app = "gcc"
  <2>1. /\ dmem[12] = 993 /\ dmem[24] = 993 /\ dmem[20] = 3
        /\ dmem[32] = 13 /\ dmem[36] = 70 /\ dmem[40] = 83
    BY <1>1 DEF Progress, GccInv
  <2>2. /\ Load!FinalWord(12) = 993 /\ Load!FinalWord(24) = 993
        /\ Load!FinalWord(20) = 3 /\ Load!FinalWord(32) = 13
        /\ Load!FinalWord(36) = 70 /\ Load!FinalWord(40) = 83
    OBVIOUS
  <2>3. \A word \in {12, 24, 20, 32, 36, 40} : dmem[word] = Load!FinalWord(word)
    <3> HIDE DEF Load!FinalWord
    <3> QED BY <2>1, <2>2
  <2>4. /\ Len(Load!Reads) = 6
        /\ \A k \in 1 .. 6 : Load!Reads[k] \in {12, 24, 20, 32, 36, 40}
    BY <1>1, GccWords
  <2> HIDE DEF Load!FinalWord
  <2> QED BY <2>3, <2>4
<1>2. CASE app = "selftest"
  <2>1. ASSUME NEW k \in 1 .. Tests
        PROVE  dmem[Load!Result(k)] = Load!FinalWord(Load!Result(k))
    <3>1. dmem[Load!Result(k)] = 100 + k
      BY <1>2, LoaderAssumption DEF Progress, SelfTestInv
    <3>2. Load!FinalWord(Load!Result(k)) = 100 + k
      BY DEF Load!Result
    <3> QED BY <3>1, <3>2
  <2>2. \A k \in 1 .. Len(Load!Reads) :
          k \in 1 .. Tests /\ Load!Reads[k] = Load!Result(k)
    BY <1>2, SelfTestWords
  <2> HIDE DEF Load!FinalWord
  <2> QED BY <2>1, <2>2
<1> HIDE DEF Load!FinalWord
<1> QED BY <1>1, <1>2 DEF LoaderTypes

LEMMA SameWords ==
  ASSUME app' = app
  PROVE  /\ Load!Words' = Load!Words /\ Load!WordSet' = Load!WordSet
         /\ Load!Reads' = Load!Reads
         /\ CoreEnd \in Nat \ {0} /\ CoreEnd' = CoreEnd
BY LoaderAssumption DEF Load!Words, Load!TestWords, Load!WordSet, Load!Reads, CoreEnd

(* The words stay what they are, and so do results already read, when the   *)
(* program on the core and its memory do not move.                          *)
LEMMA CoreRests ==
  ASSUME LoaderInv, app' = app, dmem' = dmem, UNCHANGED <<core_pc, a, b, fail_count>>
  PROVE  /\ Progress' = Progress
         /\ \A word : Load!FinalWord(word)' = Load!FinalWord(word)
BY DEF Progress, GccInv, SelfTestInv, Load!FinalWord, Load!Result

LEMMA LoaderInit == Load!Init => LoaderInv
<1> SUFFICES ASSUME Load!Init PROVE LoaderInv
  OBVIOUS
<1>1. LoaderTypes
  <2> USE LoaderAssumption DEF Load!Init
  <2>1. /\ app \in {"gcc", "selftest"} /\ cpu_reset \in BOOLEAN /\ i \in Nat \ {0}
        /\ core_pc \in 1 .. CoreEnd /\ poll \in 0 .. POLL_TIMEOUT
    BY DEF CoreEnd
  <2>2. imem \in [1 .. CodeWords -> {"old", "code", "bad"}]
    OBVIOUS
  <2>3. dmem \in [Load!WordSet -> Int]
    BY DEF Load!STATUS_DONE
  <2> QED BY <2>1, <2>2, <2>3 DEF LoaderTypes, ArmLabels
<1>2. arm = "hold" /\ verdict = "none"
  BY DEF Load!Init
<1> QED BY <1>1, <1>2 DEF LoaderInv, Prepared, WasRead, Started

LEMMA HoldResetInv == ASSUME LoaderInv, Load!HoldReset PROVE LoaderInv'
<1> USE DEF LoaderInv, Load!HoldReset, Load!Goto
<1>s. /\ app' = app /\ Load!Words' = Load!Words
      /\ Load!WordSet' = Load!WordSet /\ Load!Reads' = Load!Reads
      /\ CoreEnd \in Nat \ {0} /\ CoreEnd' = CoreEnd
  BY SameWords
<1>1. LoaderTypes'
  BY <1>s DEF LoaderTypes, ArmLabels
<1>2. Prepared'
  BY WordUsed, <1>s DEF Prepared, LoaderTypes
<1> QED BY <1>1, <1>2 DEF WasRead, Started

LEMMA ClearDmemInv == ASSUME LoaderInv, Load!ClearDmem PROVE LoaderInv'
<1> USE DEF LoaderInv, Load!ClearDmem, Load!Goto, Load!CoreStays, Load!coreVars
<1>s. /\ app' = app /\ Load!Words' = Load!Words
      /\ Load!WordSet' = Load!WordSet /\ Load!Reads' = Load!Reads
      /\ CoreEnd \in Nat \ {0} /\ CoreEnd' = CoreEnd
  BY SameWords
<1>0. /\ i \in 1 .. Len(Load!Words) /\ app' = app
      /\ dmem' = [dmem EXCEPT ![Load!Words[i]] = 0]
  BY WordUsed DEF Prepared, LoaderTypes
<1>1. LoaderTypes'
  BY <1>s, <1>0, WordUsed DEF LoaderTypes, ArmLabels
<1>2. \A k \in 1 .. i : dmem'[Load!Words[k]] = 0
  BY <1>0, WordUsed DEF Prepared, LoaderTypes
<1>3. Prepared'
  <2>1. CASE i = Len(Load!Words)
    <3>1. dmem'[16] = 0
      BY <2>1, <1>2, WordUsed
    <3> QED BY <2>1, <3>1, LoaderAssumption DEF Prepared
  <2>2. CASE i # Len(Load!Words)
    BY <2>2, <1>0, <1>2, <1>s, WordUsed DEF Prepared, LoaderTypes
  <2> QED BY <2>1, <2>2
<1> QED BY <1>1, <1>3 DEF WasRead, Started

LEMMA LoadImemInv == ASSUME LoaderInv, Load!LoadImem PROVE LoaderInv'
<1> USE DEF LoaderInv, Load!LoadImem, Load!Goto, Load!CoreStays, Load!coreVars
<1>s. /\ app' = app /\ Load!Words' = Load!Words
      /\ Load!WordSet' = Load!WordSet /\ Load!Reads' = Load!Reads
      /\ CoreEnd \in Nat \ {0} /\ CoreEnd' = CoreEnd
  BY SameWords
<1>1. LoaderTypes'
  <2>1. imem' \in [1 .. CodeWords -> {"old", "code", "bad"}]
    BY DEF LoaderTypes
  <2>2. arm' \in ArmLabels /\ i' \in Nat \ {0} /\ (arm' = "poll" => poll' < POLL_TIMEOUT)
    BY DEF LoaderTypes, ArmLabels
  <2>3. core_pc' \in 1 .. CoreEnd' /\ a' \in Int /\ b' \in Int /\ fail_count' \in Int
    BY <1>s DEF LoaderTypes
  <2>4. app' \in {"gcc", "selftest"} /\ cpu_reset' \in BOOLEAN /\ dmem' \in [Load!WordSet' -> Int]
    BY <1>s DEF LoaderTypes
  <2>5. /\ poll' \in 0 .. POLL_TIMEOUT /\ status' \in Int /\ got' \in Seq(Int)
        /\ verdict' \in {"none", "VERIFY_FAIL", "TIMEOUT", "PASS", "FAIL"}
    BY DEF LoaderTypes
  <2> QED BY ONLY <2>1, <2>2, <2>3, <2>4, <2>5 DEF LoaderTypes
<1>2. Prepared'
  BY LoaderAssumption DEF Prepared, LoaderTypes
<1> QED BY <1>1, <1>2 DEF WasRead, Started

LEMMA VerifyImemInv == ASSUME LoaderInv, Load!VerifyImem PROVE LoaderInv'
<1> USE DEF LoaderInv, Load!VerifyImem, Load!Goto, Load!Finish, Load!CoreStays, Load!coreVars
<1>s. /\ app' = app /\ Load!Words' = Load!Words
      /\ Load!WordSet' = Load!WordSet /\ Load!Reads' = Load!Reads
      /\ CoreEnd \in Nat \ {0} /\ CoreEnd' = CoreEnd
  BY SameWords
<1>1. LoaderTypes'
  BY <1>s DEF LoaderTypes, ArmLabels
<1>2. imem[i] = "code" => \A k \in 1 .. i : imem[k] = "code"
  BY DEF Prepared, LoaderTypes
<1>3. Prepared'
  <2>1. CASE imem[i] # "code"
    BY <2>1 DEF Prepared
  <2>2. CASE imem[i] = "code" /\ i = CodeWords
    BY <2>2, <1>2 DEF Prepared, Load!Whole
  <2>3. CASE imem[i] = "code" /\ i # CodeWords
    <3>1. i' - 1 = i /\ i' <= CodeWords
      BY <2>3, LoaderAssumption DEF Prepared, LoaderTypes
    <3> QED BY <2>3, <3>1, <1>2 DEF Prepared
  <2> QED BY <2>1, <2>2, <2>3
<1> QED BY <1>1, <1>3 DEF WasRead, Started

LEMMA ReleaseInv == ASSUME LoaderInv, Load!Release PROVE LoaderInv'
<1> USE DEF LoaderInv, Load!Release, Load!Goto, Load!CoreStays, Load!coreVars
<1>s. /\ app' = app /\ Load!Words' = Load!Words
      /\ Load!WordSet' = Load!WordSet /\ Load!Reads' = Load!Reads
      /\ CoreEnd \in Nat \ {0} /\ CoreEnd' = CoreEnd
  BY SameWords
<1>1. LoaderTypes'
  <2>1. poll' \in 0 .. POLL_TIMEOUT /\ poll' < POLL_TIMEOUT
    BY LoaderAssumption
  <2>2. i' = 1 /\ arm' = "poll" /\ cpu_reset' = FALSE
    OBVIOUS
  <2>3. LoaderTypes /\ UNCHANGED <<app, imem, dmem, status, got, verdict, core_pc, a, b,
                                    fail_count>>
    OBVIOUS
  <2> HIDE DEF LoaderInv, Load!Release
  <2>4. cpu_reset' \in BOOLEAN
    BY <2>2, Zenon
  <2>9. i' \in Nat \ {0} /\ arm' \in ArmLabels
    BY <2>2 DEF ArmLabels
  <2>5. /\ app' \in {"gcc", "selftest"} /\ status' \in Int /\ got' \in Seq(Int)
        /\ verdict' \in {"none", "VERIFY_FAIL", "TIMEOUT", "PASS", "FAIL"}
        /\ a' \in Int /\ b' \in Int /\ fail_count' \in Int
    BY <2>3 DEF LoaderTypes
  <2>6. imem' \in [1 .. CodeWords -> {"old", "code", "bad"}]
    BY <2>3 DEF LoaderTypes
  <2>7. dmem' \in [Load!WordSet' -> Int]
    BY <2>3, <1>s DEF LoaderTypes
  <2>8. core_pc' \in 1 .. CoreEnd'
    BY <2>3, <1>s DEF LoaderTypes
  <2> QED BY <2>1, <2>4, <2>5, <2>6, <2>7, <2>8, <2>9 DEF LoaderTypes
<1>2. core_pc = 1 /\ dmem[16] = 0
  BY DEF Prepared
<1>3. Progress'
  BY <1>2 DEF Progress, GccInv, SelfTestInv
<1> QED BY <1>1, <1>3 DEF Prepared, WasRead, Started, Load!Whole

LEMMA PollInv == ASSUME LoaderInv, Load!Poll PROVE LoaderInv'
<1> USE DEF LoaderInv, Load!Poll, Load!Goto, Load!Finish, Load!CoreStays, Load!coreVars
<1>s. /\ app' = app /\ Load!Words' = Load!Words
      /\ Load!WordSet' = Load!WordSet /\ Load!Reads' = Load!Reads
      /\ CoreEnd \in Nat \ {0} /\ CoreEnd' = CoreEnd
  BY SameWords
<1>1. LoaderTypes'
  <2>1. /\ poll' \in 0 .. POLL_TIMEOUT /\ (arm' = "poll" => poll' < POLL_TIMEOUT)
        /\ i' \in Nat \ {0} /\ arm' \in ArmLabels
        /\ verdict' \in {"none", "VERIFY_FAIL", "TIMEOUT", "PASS", "FAIL"}
    BY LoaderAssumption DEF LoaderTypes, ArmLabels
  <2>2. status' \in Int /\ got' \in Seq(Int)
    BY WordUsed DEF LoaderTypes, Load!STATUS
  <2> QED BY <2>1, <2>2, <1>s DEF LoaderTypes
<1>2. ~cpu_reset' /\ Load!Whole' /\ Progress'
  BY CoreRests DEF Started, Load!Whole
<1>3. WasRead'
  BY WordUsed, <1>s DEF WasRead, Started, Load!STATUS, Load!STATUS_DONE
<1> QED BY <1>1, <1>2, <1>3 DEF Prepared

LEMMA ReadBackInv == ASSUME LoaderInv, Load!ReadBack PROVE LoaderInv'
<1> USE DEF LoaderInv, Load!ReadBack, Load!CoreStays, Load!coreVars
<1>s. /\ app' = app /\ Load!Words' = Load!Words
      /\ Load!WordSet' = Load!WordSet /\ Load!Reads' = Load!Reads
      /\ CoreEnd \in Nat \ {0} /\ CoreEnd' = CoreEnd
  BY SameWords
<1>1. LoaderTypes'
  BY <1>s, WordUsed DEF LoaderTypes, ArmLabels
<1>2. ~cpu_reset' /\ Load!Whole' /\ Progress'
  BY CoreRests DEF Started, Load!Whole
<1>3. WasRead'
  <2>1. /\ got \in Seq(Int) /\ Len(got) = i - 1 /\ i \in 1 .. Len(Load!Reads)
        /\ dmem[Load!Reads[i]] \in Int
    BY WordUsed DEF WasRead, LoaderTypes
  <2>2. /\ Len(got') = i
        /\ \A k \in 1 .. i - 1 : got'[k] = got[k]
        /\ got'[i] = dmem[Load!Reads[i]]
    BY <2>1
  <2>3. status = 51966 => \A k \in 1 .. i : got'[k] = Load!FinalWord(Load!Reads[k])
    BY <2>1, <2>2, DoneMeansWritten DEF WasRead, Started
  <2>4. status = 51966 => dmem[16] = 51966 /\ poll < POLL_TIMEOUT
    BY DEF WasRead, Started
  <2>5. \A k : Load!FinalWord(Load!Reads[k])' = Load!FinalWord(Load!Reads[k])
    BY <1>s, CoreRests
  <2>6. i' = i + 1 /\ arm' = "read" /\ status' = status /\ dmem' = dmem /\ poll' = poll
    OBVIOUS
  <2> QED BY <2>1, <2>2, <2>3, <2>4, <2>5, <2>6, <1>s DEF WasRead
<1> QED BY <1>1, <1>2, <1>3 DEF Prepared

(* The verdict follows from the words: main.c reports three failed checks.  *)
LEMMA VerdictKnown ==
  ASSUME LoaderInv, Load!Verdict, status = 51966
  PROVE  verdict' = IF app = "gcc" THEN "FAIL" ELSE "PASS"
<1>1. /\ Len(got) = Len(Load!Reads) /\ Len(Load!Reads) \in Nat /\ poll < POLL_TIMEOUT
      /\ \A k \in 1 .. Len(got) : got[k] = Load!FinalWord(Load!Reads[k])
  <2>1. arm = "read" /\ i > Len(Load!Reads)
    BY DEF Load!Verdict
  <2>2. i \in Nat /\ i <= Len(Load!Reads) + 1 /\ Len(got) = i - 1
    BY <2>1 DEF LoaderInv, WasRead, LoaderTypes
  <2> QED BY <2>1, <2>2, WordUsed DEF LoaderInv, WasRead, Started
<1>2. CASE app = "gcc"
  <2>1. Len(Load!Reads) = 6 /\ Load!Reads[3] = 20
    BY <1>2 DEF Load!Reads, Load!FAIL
  <2>2. Load!FinalWord(20) = 3
    BY DEF Load!FinalWord, Load!RESULT, Load!EXPECTED, Load!FAIL, Load!DIAG
  <2>3. got[3] = 3
    BY <1>1, <2>1, <2>2
  <2> QED BY <1>2, <2>3 DEF Load!Verdict, Load!Finish
<1>3. CASE app = "selftest"
  <2>1. ASSUME NEW n \in 1 .. Tests PROVE got[n] = Load!exp_val(n)
    <3>1. got[n] = Load!FinalWord(Load!Result(n))
      BY <1>1, <1>3, SelfTestWords
    <3>2. Load!FinalWord(Load!Result(n)) = Load!exp_val(n)
      BY LoaderAssumption DEF Load!FinalWord, Load!Result, Load!RESULT, Load!EXPECTED, Load!FAIL,
         Load!DIAG, Load!exp_val
    <3> QED BY <3>1, <3>2
  <2> QED BY <1>1, <1>3, <2>1 DEF Load!Verdict, Load!Finish
<1> QED BY <1>2, <1>3 DEF LoaderInv, LoaderTypes

LEMMA VerdictInv == ASSUME LoaderInv, Load!Verdict PROVE LoaderInv'
<1> USE DEF LoaderInv, Load!Verdict, Load!Goto, Load!Finish, Load!CoreStays, Load!coreVars
<1>s. /\ app' = app /\ Load!Words' = Load!Words
      /\ Load!WordSet' = Load!WordSet /\ Load!Reads' = Load!Reads
      /\ CoreEnd \in Nat \ {0} /\ CoreEnd' = CoreEnd
  BY SameWords
<1>1. LoaderTypes'
  BY <1>s DEF LoaderTypes, ArmLabels
<1>2. ~cpu_reset' /\ Load!Whole' /\ Progress'
  BY CoreRests DEF Started, Load!Whole
<1>3. WasRead'
  <2>1. \A k : Load!FinalWord(Load!Reads[k])' = Load!FinalWord(Load!Reads[k])
    BY <1>s, CoreRests
  <2>2. ASSUME status = 51966 PROVE verdict' = IF app = "gcc" THEN "FAIL" ELSE "PASS"
    BY <2>2, VerdictKnown DEF Started
  <2> QED BY <2>1, <2>2, <1>s DEF WasRead, Started
<1> QED BY <1>1, <1>2, <1>3 DEF Prepared

LEMMA RerunInv == ASSUME LoaderInv, Load!Rerun PROVE LoaderInv'
<1> USE DEF LoaderInv, Load!Rerun, Load!Goto, Load!CoreStays, Load!coreVars
<1>s. /\ app' = app /\ Load!Words' = Load!Words
      /\ Load!WordSet' = Load!WordSet /\ Load!Reads' = Load!Reads
      /\ CoreEnd \in Nat \ {0} /\ CoreEnd' = CoreEnd
  BY SameWords
<1>1. LoaderTypes'
  BY <1>s DEF LoaderTypes, ArmLabels
<1> QED BY <1>1 DEF Prepared, WasRead, Started

(* What an image that is not the program can do: only before a release.     *)
LEMMA OtherProgramInv == ASSUME LoaderInv, Load!OtherProgram PROVE LoaderInv'
<1> USE DEF LoaderInv, Load!OtherProgram, Load!Running, Load!armVars, Load!coreVars
<1>s. /\ app' = app /\ Load!Words' = Load!Words
      /\ Load!WordSet' = Load!WordSet /\ Load!Reads' = Load!Reads
      /\ CoreEnd \in Nat \ {0} /\ CoreEnd' = CoreEnd
  BY SameWords
<1>1. LoaderTypes'
  BY <1>s DEF LoaderTypes, Load!Clobbered, Load!STATUS_DONE
<1>2. ~Started /\ ~Started'
  BY DEF Started, Load!Whole
<1>3. arm \in {"hold", "end"}
  BY <1>2 DEF Started, Prepared, LoaderTypes, ArmLabels
<1> QED BY <1>1, <1>2, <1>3 DEF Prepared, WasRead, Started

(* The steps of GCC/main.c, one by one. *)
Wrote(word, v) == dmem' = [dmem EXCEPT ![word] = v] /\ UNCHANGED <<a, b, fail_count>>
GccMoves ==
  \/ core_pc = 1 /\ Wrote(4, 13)
  \/ core_pc = 2 /\ Wrote(8, 70)
  \/ core_pc = 3 /\ a' = dmem[4] /\ UNCHANGED <<b, fail_count, dmem>>
  \/ core_pc = 4 /\ b' = dmem[8] /\ UNCHANGED <<a, fail_count, dmem>>
  \/ core_pc = 5 /\ Wrote(32, a)
  \/ core_pc = 6 /\ Wrote(36, b)
  \/ core_pc = 7 /\ Wrote(40, a + b)
  \/ core_pc = 8 /\ Wrote(44, a - b)
  \/ core_pc = 9 /\ Wrote(48, a * b)
  \/ core_pc = 10 /\ fail_count' \in Int /\ (a = 13 /\ b = 70 => fail_count' = 3)
       /\ UNCHANGED <<a, b, dmem>>
  \/ core_pc = 11 /\ Wrote(12, a + b + a * b)
  \/ core_pc = 12 /\ Wrote(24, 993)
  \/ core_pc = 13 /\ Wrote(20, fail_count)
  \/ core_pc = 14 /\ Wrote(16, 51966)

LEMMA GccMainMoves == ASSUME Load!GccMain PROVE GccMoves
<1> USE DEF Load!INPUT0, Load!INPUT1, Load!RESULT, Load!STATUS, Load!FAIL, Load!EXPECTED,
        Load!DIAG, Load!EXPECTED_RESULT, Load!TEST_A, Load!TEST_B, Load!STATUS_DONE, Load!One
<1>1. ASSUME NEW word, NEW v, Load!Store(word, v) PROVE Wrote(word, v)
  BY <1>1 DEF Load!Store, Wrote
<1>2. CASE core_pc \in 1 .. 2
  <2>1. Wrote(Load!GccStore[core_pc].x, Load!GccStore[core_pc].v)
    BY <1>1, <1>2 DEF Load!GccMain
  <2>2. CASE core_pc = 1
    BY <2>1, <2>2 DEF Load!GccStore, GccMoves
  <2>3. CASE core_pc = 2
    BY <2>1, <2>3 DEF Load!GccStore, GccMoves
  <2> QED BY <1>2, <2>2, <2>3
<1>3. CASE core_pc \in 3 .. 4
  BY <1>3 DEF Load!GccMain, GccMoves
<1>4. CASE core_pc \in 5 .. 9
  <2>1. Wrote(Load!GccStore[core_pc - 2].x, Load!GccStore[core_pc - 2].v)
    BY <1>1, <1>4 DEF Load!GccMain
  <2>2. CASE core_pc = 5
    BY <2>1, <2>2 DEF Load!GccStore, GccMoves
  <2>3. CASE core_pc = 6
    BY <2>1, <2>3 DEF Load!GccStore, GccMoves
  <2>4. CASE core_pc = 7
    BY <2>1, <2>4 DEF Load!GccStore, GccMoves
  <2>5. CASE core_pc = 8
    BY <2>1, <2>5 DEF Load!GccStore, GccMoves
  <2>6. CASE core_pc = 9
    BY <2>1, <2>6 DEF Load!GccStore, GccMoves
  <2> QED BY <1>4, <2>2, <2>3, <2>4, <2>5, <2>6
<1>5. CASE core_pc = 10
  BY <1>5 DEF Load!GccMain, GccMoves
<1>6. CASE core_pc \in 11 .. 14
  <2>1. Wrote(Load!GccReport[core_pc - 10].x, Load!GccReport[core_pc - 10].v)
    BY <1>1, <1>6 DEF Load!GccMain
  <2>2. CASE core_pc = 11
    BY <2>1, <2>2 DEF Load!GccReport, GccMoves
  <2>3. CASE core_pc = 12
    BY <2>1, <2>3 DEF Load!GccReport, GccMoves
  <2>4. CASE core_pc = 13
    BY <2>1, <2>4 DEF Load!GccReport, GccMoves
  <2>5. CASE core_pc = 14
    BY <2>1, <2>5 DEF Load!GccReport, GccMoves
  <2> QED BY <1>6, <2>2, <2>3, <2>4, <2>5
<1> QED BY <1>2, <1>3, <1>4, <1>5, <1>6 DEF Load!GccMain

LEMMA WroteOne ==
  ASSUME LoaderTypes, NEW word \in Load!WordSet, NEW v \in Int, Wrote(word, v)
  PROVE  /\ dmem' \in [Load!WordSet -> Int]
         /\ \A w \in Load!WordSet : dmem'[w] = IF w = word THEN v ELSE dmem[w]
         /\ a' = a /\ b' = b /\ fail_count' = fail_count
  BY DEF LoaderTypes, Wrote

(* A step keeps the types; after DONE there is none.                        *)
LEMMA GccStep ==
  ASSUME LoaderTypes, app = "gcc", Load!GccMain, core_pc' = core_pc + 1
  PROVE  /\ core_pc' \in 1 .. 15 /\ dmem' \in [Load!WordSet -> Int]
         /\ a' \in Int /\ b' \in Int /\ fail_count' \in Int
         /\ GccInv => GccInv' /\ dmem[16] # 51966
<1> DEFINE Kept == /\ dmem' \in [Load!WordSet -> Int]
                   /\ a' \in Int /\ b' \in Int /\ fail_count' \in Int
           Used == {4, 8, 12, 16, 20, 24, 32, 36, 40, 44, 48}
<1>1. Used \subseteq Load!WordSet
  BY GccWords
<1>2. GccMoves
  BY GccMainMoves
<1>3. a \in Int /\ b \in Int /\ fail_count \in Int /\ dmem \in [Load!WordSet -> Int]
  BY DEF LoaderTypes
<1>4. ASSUME NEW word \in Used, NEW v \in Int, Wrote(word, v)
      PROVE  /\ Kept /\ a' = a /\ b' = b /\ fail_count' = fail_count
             /\ \A w \in Used : dmem'[w] = IF w = word THEN v ELSE dmem[w]
  BY <1>1, <1>3, <1>4, WroteOne
<1>5. CASE core_pc \in {3, 4, 10}
  <2>1. dmem' = dmem /\ Kept
    BY <1>1, <1>2, <1>3, <1>5 DEF GccMoves
  <2> QED BY <2>1, <1>2, <1>5 DEF GccMoves, GccInv
<1>6. CASE core_pc \in {1, 2, 5, 6, 7, 8, 9}
  <2>1. PICK word \in {4, 8, 32, 36, 40, 44, 48}, v \in Int :
          /\ Wrote(word, v)
          /\ core_pc = 1 => word = 4 /\ v = 13
          /\ core_pc = 2 => word = 8 /\ v = 70
          /\ core_pc = 5 => word = 32 /\ v = a
          /\ core_pc = 6 => word = 36 /\ v = b
          /\ core_pc = 7 => word = 40 /\ v = a + b
          /\ core_pc = 8 => word = 44
          /\ core_pc = 9 => word = 48
    <3>1. core_pc \in {1, 2, 5, 6, 7} => \E word \in {4, 8, 32, 36, 40}, v \in Int :
             /\ Wrote(word, v)
             /\ core_pc = 1 => word = 4 /\ v = 13
             /\ core_pc = 2 => word = 8 /\ v = 70
             /\ core_pc = 5 => word = 32 /\ v = a
             /\ core_pc = 6 => word = 36 /\ v = b
             /\ core_pc = 7 => word = 40 /\ v = a + b
      BY <1>2, <1>3 DEF GccMoves
    <3>2. core_pc = 8 => Wrote(44, a - b) /\ a - b \in Int
      BY <1>2, <1>3 DEF GccMoves
    <3>3. core_pc = 9 => Wrote(48, a * b) /\ a * b \in Int
      BY <1>2, <1>3 DEF GccMoves
    <3> QED BY <1>6, <3>1, <3>2, <3>3
  <2>2. /\ Kept /\ a' = a /\ b' = b /\ fail_count' = fail_count
        /\ \A w \in Used : dmem'[w] = IF w = word THEN v ELSE dmem[w]
    BY <1>4, <2>1
  <2> HIDE DEF Kept
  <2> QED BY <1>6, <2>1, <2>2 DEF GccInv, Kept
<1>7. CASE core_pc \in {11, 12, 13, 14}
  <2>1. PICK word \in {12, 24, 20, 16}, v \in Int :
          /\ Wrote(word, v)
          /\ core_pc = 11 => word = 12 /\ v = a + b + a * b
          /\ core_pc = 12 => word = 24 /\ v = 993
          /\ core_pc = 13 => word = 20 /\ v = fail_count
          /\ core_pc = 14 => word = 16
    <3>1. a + b + a * b \in Int
      BY <1>3
    <3> QED BY <1>2, <1>3, <1>7, <3>1 DEF GccMoves
  <2>2. /\ Kept /\ a' = a /\ b' = b /\ fail_count' = fail_count
        /\ \A w \in Used : dmem'[w] = IF w = word THEN v ELSE dmem[w]
    BY <1>4, <2>1
  <2>3. GccInv => a = 13 /\ b = 70 /\ a + b + a * b = 993
    BY <1>7 DEF GccInv
  <2> HIDE DEF Kept
  <2> QED BY <1>7, <2>1, <2>2, <2>3 DEF GccInv, Kept
<1>8. core_pc \in {3, 4, 10} \cup {1, 2, 5, 6, 7, 8, 9} \cup {11, 12, 13, 14}
  BY <1>2 DEF GccMoves
<1> QED BY <1>5, <1>6, <1>7, <1>8

LEMMA SelfTestStep ==
  ASSUME LoaderTypes, app = "selftest", Load!SelfTest, core_pc' = core_pc + 1
  PROVE  /\ core_pc' \in 1 .. Tests + 2 /\ dmem' \in [Load!WordSet -> Int]
         /\ a' \in Int /\ b' \in Int /\ fail_count' \in Int
         /\ SelfTestInv => SelfTestInv' /\ dmem[16] # 51966
<1> USE LoaderAssumption DEF LoaderTypes, CoreEnd, Load!SelfTest, Load!Store, Load!STATUS,
        Load!STATUS_DONE, Load!exp_val
<1>1. /\ core_pc \in 1 .. Tests + 1 /\ core_pc' \in 1 .. Tests + 2
      /\ SelfTestInv => dmem[16] # 51966
  BY DEF SelfTestInv
<1>2. CASE core_pc \in 1 .. Tests
  <2>1. dmem' = [dmem EXCEPT ![Load!Result(core_pc)] = 100 + core_pc]
    BY <1>2
  <2>2. dmem' \in [Load!WordSet -> Int] /\ dmem'[Load!Result(core_pc)] = 100 + core_pc
    BY <1>2, <2>1, SelfTestWords
  <2>3. 16 \in Load!WordSet /\ dmem'[16] = dmem[16]
    BY <1>2, <2>1, SelfTestWords DEF Load!Result
  <2>4. ASSUME SelfTestInv, NEW n \in 1 .. Tests, n < core_pc + 1
        PROVE  dmem'[Load!Result(n)] = 100 + n
    <3>1. CASE n = core_pc
      BY <3>1, <2>2
    <3>2. CASE n # core_pc
      <4>1. Load!Result(n) # Load!Result(core_pc) /\ Load!Result(n) \in Load!WordSet
        BY <3>2, SelfTestWords DEF Load!Result
      <4>2. dmem[Load!Result(n)] = 100 + n
        BY <3>2, <2>4, <1>2 DEF SelfTestInv
      <4> QED BY <2>1, <4>1, <4>2
    <3> QED BY <3>1, <3>2
  <2>5. UNCHANGED <<a, b, fail_count>>
    BY <1>2
  <2>6. SelfTestInv => SelfTestInv'
    BY <1>1, <1>2, <2>3, <2>4 DEF SelfTestInv, Load!Result
  <2> QED BY <1>1, <2>2, <2>5, <2>6
<1>3. CASE core_pc = Tests + 1
  <2>1. dmem' = [dmem EXCEPT ![16] = 51966] /\ UNCHANGED <<a, b, fail_count>>
    BY <1>3
  <2>2. 16 \in Load!WordSet /\ dmem' \in [Load!WordSet -> Int]
    BY <2>1, SelfTestWords
  <2>3. ASSUME SelfTestInv, NEW n \in 1 .. Tests PROVE dmem'[Load!Result(n)] = 100 + n
    <3>1. Load!Result(n) # 16 /\ Load!Result(n) \in Load!WordSet
      BY SelfTestWords DEF Load!Result
    <3>2. dmem[Load!Result(n)] = 100 + n
      BY <1>3, <2>3 DEF SelfTestInv
    <3> QED BY <2>1, <3>1, <3>2
  <2>4. SelfTestInv => SelfTestInv'
    BY <1>3, <2>3 DEF SelfTestInv, Load!Result
  <2> QED BY <1>1, <2>1, <2>2, <2>4
<1> QED BY <1>1, <1>2, <1>3

LEMMA CoreStepInv == ASSUME LoaderInv, Load!CoreStep PROVE LoaderInv'
<1> USE DEF LoaderInv, Load!CoreStep, Load!Running, Load!armVars
<1>s. /\ app' = app /\ Load!Words' = Load!Words
      /\ Load!WordSet' = Load!WordSet /\ Load!Reads' = Load!Reads
      /\ CoreEnd \in Nat \ {0} /\ CoreEnd' = CoreEnd
  BY SameWords
<1>1. arm \in {"hold", "poll", "read", "end"}
  BY DEF LoaderTypes, ArmLabels, Prepared
<1>2. /\ core_pc' \in 1 .. CoreEnd /\ dmem' \in [Load!WordSet -> Int]
      /\ a' \in Int /\ b' \in Int /\ fail_count' \in Int
      /\ Progress => Progress' /\ dmem[16] # 51966
  <2>1. CASE app = "gcc"
    BY <2>1, <1>s, GccStep DEF Progress, CoreEnd
  <2>2. CASE app = "selftest"
    BY <2>2, <1>s, SelfTestStep DEF Progress, CoreEnd
  <2> QED BY <2>1, <2>2 DEF LoaderTypes
<1>4. LoaderTypes'
  BY <1>s, <1>2 DEF LoaderTypes
<1> QED BY <1>s, <1>1, <1>2, <1>4 DEF Prepared, WasRead, Started, Load!Whole

LEMMA LoaderNext == ASSUME LoaderInv, Load!Next PROVE LoaderInv'
<1>1. CASE Load!ArmStep
  BY <1>1, HoldResetInv, ClearDmemInv, LoadImemInv, VerifyImemInv, ReleaseInv, PollInv,
     ReadBackInv, VerdictInv DEF Load!ArmStep
<1> QED BY <1>1, RerunInv, OtherProgramInv, CoreStepInv DEF Load!Next

LEMMA LoaderStays == ASSUME LoaderInv, UNCHANGED loaderVars PROVE LoaderInv'
<1>1. /\ app' = app /\ dmem' = dmem /\ imem' = imem /\ status' = status /\ got' = got
      /\ cpu_reset' = cpu_reset /\ arm' = arm /\ i' = i /\ poll' = poll /\ verdict' = verdict
      /\ UNCHANGED <<core_pc, a, b, fail_count>>
  BY DEF loaderVars
<1>2. /\ Load!Words' = Load!Words /\ Load!WordSet' = Load!WordSet
      /\ Load!Reads' = Load!Reads /\ CoreEnd' = CoreEnd
  BY <1>1, SameWords
<1>3. /\ Progress' = Progress
      /\ \A k : Load!FinalWord(Load!Reads[k])' = Load!FinalWord(Load!Reads[k])
  BY <1>1, <1>2, CoreRests
<1>4. LoaderTypes'
  BY <1>1, <1>2 DEF LoaderInv, LoaderTypes
<1> QED
  BY <1>1, <1>2, <1>3, <1>4 DEF LoaderInv, Prepared, WasRead, Started, Load!Whole

(* The mailbox: what the loader polls for and reads, in every state.        *)
LEMMA LoaderSafe ==
  LoaderInv => /\ Load!TypeOK /\ Load!VerdictOfThisRun
               /\ Load!RunsWholeImage /\ Load!DoneIsLast
<1> SUFFICES ASSUME LoaderInv
    PROVE  /\ Load!TypeOK /\ Load!VerdictOfThisRun
           /\ Load!RunsWholeImage /\ Load!DoneIsLast
  OBVIOUS
<1>1. Load!TypeOK
  BY DEF LoaderInv, LoaderTypes, CoreEnd, ArmLabels, Load!TypeOK
<1>2. Load!VerdictOfThisRun
  BY DEF LoaderInv, WasRead, Started, Load!VerdictOfThisRun, Load!STATUS_DONE
<1>3. Load!RunsWholeImage
  BY DEF LoaderInv, Started, Load!RunsWholeImage, Load!Running
<1>4. Load!DoneIsLast
  BY DoneMeansWritten DEF LoaderInv, Started, Load!DoneIsLast, Load!STATUS, Load!STATUS_DONE
<1> QED BY <1>1, <1>2, <1>3, <1>4

LEMMA LoaderPart == ASSUME part = "loader" => LoaderInv, [Next]_vars
                    PROVE  (part = "loader" => LoaderInv)'
<1>1. CASE LoaderStep(Load!Next)
  BY <1>1, LoaderNext DEF LoaderStep
<1>2. CASE CheckStep(Check!Next) \/ CovStep(Cov!Next) \/ CompareStep(Compare!Next)
             \/ GenerateStep(Generate!Next)
  BY <1>2 DEF CheckStep, CovStep, CompareStep, GenerateStep
<1>3. CASE UNCHANGED vars
  BY <1>3, LoaderStays DEF vars
<1> QED BY <1>1, <1>2, <1>3 DEF Next

(* Property VerdictOfThisRun: for either application, any length of image   *)
(* and any number of results and polls, whatever an image that does not     *)
(* verify writes, the verdict of a run is about words that the program just *)
(* loaded wrote, all of which runs and whose DONE is its last word.         *)
THEOREM LoaderVerdict == Spec => []VerdictOfThisRun
<1>1. Init => (part = "loader" => LoaderInv)
  BY LoaderInit DEF Init
<1>2. (part = "loader" => LoaderInv) /\ [Next]_vars => (part = "loader" => LoaderInv)'
  BY LoaderPart
<1>3. (part = "loader" => LoaderInv) => VerdictOfThisRun
  BY LoaderSafe DEF VerdictOfThisRun
<1> QED BY <1>1, <1>2, <1>3, PTL DEF Spec

-----------------------------------------------------------------------------
(* The coverage test.                                                       *)
CovTypes ==
  /\ x = [r \in TraceRegs |-> x[r]] /\ gpr_state = [r \in TraceRegs |-> gpr_state[r]]
  /\ seen = [known |-> seen.known, silent |-> seen.silent,
             last |-> seen.last, before |-> seen.before]
  /\ seen.silent \in Int /\ entry_cnt \in Int /\ total_entry_cnt \in Int /\ rows \in Int
CovInv ==
  /\ CovTypes
  /\ trace \in Traces /\ seen.known \subseteq TraceRegs \ {"ZERO"}
  /\ Cov!StateTracksProgram /\ Cov!RowsAccounted

(* What a row that is not sampled does to the registers the collector knows. *)
LEMMA UnsampledKeeps ==
  ASSUME CovInv, NEW m, NEW silent \in Int, Cov!Executes(m), Cov!Unsampled(m, silent),
         UNCHANGED gpr_state
  PROVE  /\ x' = [r \in TraceRegs |-> x'[r]] /\ gpr_state' = [r \in TraceRegs |-> gpr_state'[r]]
         /\ seen' = [known |-> seen'.known, silent |-> seen'.silent,
                     last |-> seen'.last, before |-> seen'.before]
         /\ seen'.silent = seen.silent + silent
         /\ trace' \in Traces /\ seen'.known \subseteq TraceRegs \ {"ZERO"}
         /\ Cov!StateTracksProgram'
<1>1. /\ seen'.known = seen.known \ Cov!Writes(m) /\ seen'.silent = seen.silent + silent
      /\ seen' = [known |-> seen'.known, silent |-> seen'.silent,
                  last |-> seen'.last, before |-> seen'.before]
  BY DEF Cov!Unsampled, CovInv, CovTypes
<1>2. /\ x' = [r \in TraceRegs |-> x'[r]]
      /\ \A r \in TraceRegs : r \notin Cov!Writes(m) => x'[r] = x[r]
  BY DEF Cov!Executes, Cov!Writes, CovInv, CovTypes
<1>3. trace' = trace
  BY DEF Cov!Executes
<1> QED BY <1>1, <1>2, <1>3 DEF CovInv, CovTypes, Cov!StateTracksProgram

LEMMA SampledKeeps ==
  ASSUME CovInv, NEW m \in trace.instrs, Cov!SampledRow(m)
  PROVE  CovInv'
<1>1. /\ Cov!Executes(m) /\ gpr_state' = Cov!UpdatedState(m) /\ UNCHANGED <<phase, total_entry_cnt>>
      /\ entry_cnt' = entry_cnt + 1 /\ trace' = trace /\ rows' = rows + 1 /\ phase = "reading"
  BY DEF Cov!SampledRow, Cov!Executes, Cov!counters
<1>2. /\ seen'.known = seen.known \cup Cov!Writes(m) /\ seen'.silent = seen.silent
      /\ seen' = [known |-> seen'.known, silent |-> seen'.silent,
                  last |-> seen'.last, before |-> seen'.before]
  <2> DEFINE row == <<[m |-> m, x |-> x, known |-> seen.known]>>
             known == seen.known \cup Cov!Writes(m)
  <2>1. seen' = [seen EXCEPT !.known = known, !.last = row, !.before = seen.last]
    BY DEF Cov!SampledRow
  <2> HIDE DEF row, known
  <2>2. /\ seen'.known = known /\ seen'.silent = seen.silent
        /\ seen' = [known |-> seen'.known, silent |-> seen'.silent,
                    last |-> seen'.last, before |-> seen'.before]
    BY <2>1 DEF CovInv, CovTypes
  <2> QED BY <2>2 DEF known
<1>3. m.name \in Cov!NoOperands => Cov!Writes(m) = {}
  BY OperandAssumption DEF CovInv, Cov!Writes, Cov!NoOperands
<1>4. /\ gpr_state' = [r \in TraceRegs |-> gpr_state'[r]]
      /\ \A r \in TraceRegs : gpr_state'[r] = IF r \in Cov!Writes(m) THEN m.val ELSE gpr_state[r]
  BY <1>1, <1>3 DEF Cov!UpdatedState, CovInv, CovTypes
<1>5. /\ x' = [r \in TraceRegs |-> x'[r]]
      /\ \A r \in TraceRegs : x'[r] = IF r \in Cov!Writes(m) THEN m.val ELSE x[r]
  BY <1>1 DEF Cov!Executes, Cov!Writes, CovInv, CovTypes
<1>6. Cov!Writes(m) \subseteq TraceRegs \ {"ZERO"}
  BY DEF Cov!Writes
<1>7. Cov!StateTracksProgram'
  BY <1>2, <1>4, <1>5, <1>6 DEF CovInv, Cov!StateTracksProgram
<1>8. Cov!RowsAccounted'
  BY <1>1, <1>2 DEF CovInv, CovTypes, Cov!RowsAccounted
<1> QED BY <1>1, <1>2, <1>4, <1>5, <1>6, <1>7, <1>8 DEF CovInv, CovTypes

LEMMA CovNext == ASSUME CovInv, Cov!Next PROVE CovInv'
<1>1. CASE Cov!OpenFile
  <2>1. /\ seen' = [known |-> {}, silent |-> seen.silent, last |-> <<>>, before |-> <<>>]
        /\ entry_cnt' = 0 /\ x' = [r \in TraceRegs |-> Cov!Blank(r)]
        /\ phase = "idle" /\ phase' = "reading"
        /\ UNCHANGED <<trace, gpr_state, total_entry_cnt, rows>>
    BY <1>1 DEF Cov!OpenFile, Cov!Nothing, Cov!counters
  <2> QED BY <2>1 DEF CovInv, CovTypes, Cov!StateTracksProgram, Cov!RowsAccounted
<1>2. ASSUME NEW m \in trace.instrs, Cov!MalformedRow(m) PROVE CovInv'
  <2>1. /\ Cov!Executes(m) /\ Cov!Unsampled(m, 0) /\ UNCHANGED gpr_state
        /\ UNCHANGED <<total_entry_cnt, phase>> /\ entry_cnt' = entry_cnt + 1
        /\ phase = "reading" /\ rows' = rows + 1
    BY <1>2 DEF Cov!MalformedRow, Cov!Executes
  <2> QED BY <2>1, UnsampledKeeps DEF CovInv, CovTypes, Cov!RowsAccounted
<1>3. ASSUME NEW m \in trace.instrs, Cov!SilentRow(m) PROVE CovInv'
  <2>1. /\ Cov!Executes(m) /\ Cov!Unsampled(m, 1) /\ UNCHANGED gpr_state
        /\ UNCHANGED <<total_entry_cnt, phase, entry_cnt>>
        /\ phase = "reading" /\ rows' = rows + 1
    BY <1>3 DEF Cov!SilentRow, Cov!Executes, Cov!counters
  <2> QED BY <2>1, UnsampledKeeps DEF CovInv, CovTypes, Cov!RowsAccounted
<1>4. ASSUME NEW m \in trace.instrs, Cov!UnknownRow(m) PROVE CovInv'
  <2>1. /\ Cov!Executes(m) /\ Cov!Unsampled(m, 0) /\ UNCHANGED gpr_state
        /\ UNCHANGED <<total_entry_cnt, phase>> /\ entry_cnt' = entry_cnt + 1
        /\ phase = "reading" /\ rows' = rows + 1
    BY <1>4 DEF Cov!UnknownRow, Cov!Executes
  <2> QED BY <2>1, UnsampledKeeps DEF CovInv, CovTypes, Cov!RowsAccounted
<1>5. ASSUME NEW m \in trace.instrs, Cov!UnsupportedRow(m) PROVE CovInv'
  <2>1. /\ Cov!Executes(m) /\ Cov!Unsampled(m, 0) /\ UNCHANGED gpr_state
        /\ UNCHANGED <<total_entry_cnt, phase>> /\ entry_cnt' = entry_cnt + 1
        /\ phase = "reading" /\ rows' = rows + 1
    BY <1>5 DEF Cov!UnsupportedRow, Cov!Executes, Cov!counters
  <2> QED BY <2>1, UnsampledKeeps DEF CovInv, CovTypes, Cov!RowsAccounted
<1>6. ASSUME NEW m \in trace.instrs, Cov!Abort(m) PROVE CovInv'
  <2>1. /\ Cov!Executes(m) /\ Cov!Unsampled(m, 0) /\ UNCHANGED gpr_state
        /\ UNCHANGED <<total_entry_cnt, entry_cnt>> /\ phase' = "aborted"
        /\ phase = "reading" /\ rows' = rows + 1
    BY <1>6 DEF Cov!Abort, Cov!Executes, Cov!counters
  <2> QED BY <2>1, UnsampledKeeps DEF CovInv, CovTypes, Cov!RowsAccounted
<1>7. CASE Cov!EndFile
  BY <1>7 DEF Cov!EndFile, CovInv, CovTypes, Cov!StateTracksProgram, Cov!RowsAccounted
<1>8. CASE Cov!Report
  BY <1>8 DEF Cov!Report, Cov!counters, CovInv, CovTypes, Cov!StateTracksProgram,
              Cov!RowsAccounted
<1>9. CASE Cov!Ended
  BY <1>9 DEF Cov!Ended, Cov!vars, CovInv, CovTypes, Cov!StateTracksProgram,
              Cov!RowsAccounted
<1> QED BY <1>1, <1>2, <1>3, <1>4, <1>5, <1>6, <1>7, <1>8, <1>9, SampledKeeps DEF Cov!Next

LEMMA CovPart == ASSUME part = "cov" => CovInv, [Next]_vars PROVE (part = "cov" => CovInv)'
<1>1. CASE CovStep(Cov!Next)
  BY <1>1, CovNext DEF CovStep
<1>2. CASE CheckStep(Check!Next) \/ LoaderStep(Load!Next) \/ CompareStep(Compare!Next)
             \/ GenerateStep(Generate!Next)
  BY <1>2 DEF CheckStep, LoaderStep, CompareStep, GenerateStep
<1>3. CASE UNCHANGED vars
  BY <1>3 DEF vars, covVars, CovInv, CovTypes, Cov!StateTracksProgram, Cov!RowsAccounted
<1> QED BY <1>1, <1>2, <1>3 DEF Next

(* Property StateTracksProgram: whatever instructions the traces hold, in    *)
(* whatever number of traces and rows, the collector's value of a register  *)
(* last written in a sampled row is the program's, and every row read is in *)
(* the counts of the report, passed over, or the one that aborted.          *)
THEOREM CollectorTracks == Spec => []StateTracksProgram
<1>1. Init => (part = "cov" => CovInv)
  <2> SUFFICES ASSUME Cov!Init PROVE CovInv
    BY DEF Init
  <2>1. /\ seen = [known |-> {}, silent |-> 0, last |-> <<>>, before |-> <<>>]
        /\ entry_cnt = 0 /\ total_entry_cnt = 0 /\ rows = 0 /\ phase = "idle"
        /\ x = [r \in TraceRegs |-> Cov!Blank(r)] /\ gpr_state = x /\ trace \in Traces
    BY DEF Cov!Init, Cov!Nothing
  <2> QED BY <2>1 DEF CovInv, CovTypes, Cov!StateTracksProgram, Cov!RowsAccounted
<1>2. (part = "cov" => CovInv) /\ [Next]_vars => (part = "cov" => CovInv)'
  BY CovPart
<1>3. (part = "cov" => CovInv) => StateTracksProgram
  BY DEF CovInv, StateTracksProgram
<1> QED BY <1>1, <1>2, <1>3, PTL DEF Spec

-----------------------------------------------------------------------------
(* What is sampled. The record of a row goes through the updates of its     *)
(* sources, of its destination, the classes of its values and its hazards;  *)
(* all keep the fields below, and each step its own ones besides.           *)
Holds(r) ==
  {"rs1", "rs2", "rd", "imm", "csr", "rs1_value", "rs2_value", "rd_value",
      "fs1", "fs2", "fs3", "fd", "fs1_value", "fs2_value", "fs3_value", "fd_value",
      "mem_addr", "rs1_sign", "rs2_sign", "rd_sign", "imm_sign",
      "fs1_sign", "fs2_sign", "fs3_sign", "fd_sign", "gpr_hazard", "lsu_hazard",
      "branch_hit", "div_result", "logical_similarity", "unaligned_mem_access"}
       \subseteq DOMAIN r

LEMMA NewRecord ==
  ASSUME NEW n, NEW at
  PROVE  LET r == Cov!WithAttributes(n, at)
         IN  /\ Holds(r)
             /\ r.instr = n /\ r.format = at.format /\ r.category = at.category
             /\ r.group = at.group
             /\ r.rs1 = 0 /\ r.rs2 = 0 /\ r.imm = 0 /\ r.rs1_value = 0 /\ r.rs2_value = 0
             /\ r.lsu_hazard = 0 /\ r.rd_value = 0
             /\ r.has_rs2 = (at.format \notin {"I", "U", "J"} /\ at.category # "CSR")
             /\ at.format = "I" => r.has_fs1 = ~(/\ at.group \in {"RV32F", "RV32D"}
                                               /\ at.category # "LOAD" /\ n \in Cov!FpFromGpr)
<1> DEFINE r == Cov!WithAttributes(n, at)
<1>1. /\ r.instr = n /\ r.format = at.format /\ r.category = at.category
      /\ r.group = at.group
      /\ r.rs1 = 0 /\ r.rs2 = 0 /\ r.imm = 0 /\ r.rs1_value = 0 /\ r.rs2_value = 0
      /\ r.lsu_hazard = 0 /\ r.rd_value = 0
      /\ r.has_rs2 = (at.format \notin {"I", "U", "J"} /\ at.category # "CSR")
  BY DEF Cov!WithAttributes
<1>2. at.format = "I" => r.has_fs1 = ~(/\ at.group \in {"RV32F", "RV32D"}
                                     /\ at.category # "LOAD" /\ n \in Cov!FpFromGpr)
  BY DEF Cov!WithAttributes
<1>3. {"rs1", "rs2", "rd", "imm", "csr", "rs1_value", "rs2_value", "rd_value",
      "fs1", "fs2", "fs3", "fd", "fs1_value", "fs2_value", "fs3_value", "fd_value",
      "mem_addr", "rs1_sign", "rs2_sign", "rd_sign", "imm_sign",
      "fs1_sign", "fs2_sign", "fs3_sign", "fd_sign", "gpr_hazard", "lsu_hazard",
      "branch_hit", "div_result", "logical_similarity", "unaligned_mem_access"}
       \subseteq DOMAIN r
  BY DEF Cov!WithAttributes
<1> HIDE DEF r
<1>4. Holds(r) BY <1>3 DEF Holds
<1> QED BY <1>1, <1>2, <1>4 DEF r

LEMMA SrcUpdated ==
  ASSUME NEW r, Holds(r), NEW ops, NEW s
  PROVE  LET u == Cov!update_src_regs(r, ops, s)
             l == Cov!SrcLayout(r)
             p == Cov!get_gpr(ops, l.rs1)
             q == Cov!get_gpr(ops, l.rs2)
         IN  /\ Holds(u) /\ u.instr = r.instr /\ u.format = r.format
             /\ u.category = r.category /\ u.group = r.group /\ u.lsu_hazard = r.lsu_hazard
             /\ u.rd_value = r.rd_value
             /\ u.rs1 = Cov!riscv_reg_t[p] /\ u.rs1_value = Cov!get_gpr_state(s, p)
             /\ u.rs2 = Cov!riscv_reg_t[q] /\ u.rs2_value = Cov!get_gpr_state(s, q)
             /\ u.imm = IF l.imm = 0 THEN 0 ELSE ops[l.imm][2]
<1> DEFINE l == Cov!SrcLayout(r)
           p == Cov!get_gpr(ops, l.rs1)
           q == Cov!get_gpr(ops, l.rs2)
           v1 == Cov!riscv_reg_t[p]
           v2 == Cov!riscv_reg_t[q]
           w1 == Cov!get_gpr_state(s, p)
           w2 == Cov!get_gpr_state(s, q)
           im == IF l.imm = 0 THEN 0 ELSE ops[l.imm][2]
           cs == IF l.csr = 0 THEN "" ELSE ops[l.csr][2]
<1>1. Cov!update_src_regs(r, ops, s) =
        [r EXCEPT !.rs1 = v1, !.rs1_value = w1, !.rs2 = v2, !.rs2_value = w2,
                  !.imm = im, !.csr = cs]
  BY DEF Cov!update_src_regs
<1> HIDE DEF v1, v2, w1, w2, im, cs
<1>2. LET u == [r EXCEPT !.rs1 = v1, !.rs1_value = w1, !.rs2 = v2, !.rs2_value = w2,
                         !.imm = im, !.csr = cs]
      IN  /\ Holds(u) /\ u.instr = r.instr /\ u.format = r.format
          /\ u.category = r.category /\ u.group = r.group /\ u.lsu_hazard = r.lsu_hazard
          /\ u.rd_value = r.rd_value
          /\ u.rs1 = v1 /\ u.rs1_value = w1 /\ u.rs2 = v2 /\ u.rs2_value = w2 /\ u.imm = im
  BY DEF Holds
<1> QED BY <1>1, <1>2 DEF v1, v2, w1, w2, im, cs, p, q, l

(* What the attributes of an instruction can be, and of the ones the        *)
(* collector treats by their name.                                          *)
CompressedGroup == {"RV32C", "RV64C"}
FloatGroup == {"RV32F", "RV32D"}
BaseShapes ==
  {<<"I", "LOAD">>, <<"S", "STORE">>, <<"B", "BRANCH">>, <<"U", "ARITHMETIC">>, <<"J", "JUMP">>}
    \cup {"R", "I"} \X {"SHIFT", "ARITHMETIC", "LOGICAL", "COMPARE", "SYNCH", "CSR"}
    \cup {"I"} \X {"JUMP", "SYSTEM", "INTERRUPT"}
CompressedShapes ==
  {<<"CL", "LOAD">>, <<"CS", "STORE">>, <<"CI", "LOAD">>, <<"CSS", "STORE">>,
   <<"CIW", "ARITHMETIC">>, <<"CJ", "JUMP">>, <<"CR", "JUMP">>, <<"CR", "ARITHMETIC">>}
    \cup {"CI"} \X {"ARITHMETIC", "SHIFT", "SYSTEM"}
    \cup {"CA"} \X {"ARITHMETIC", "LOGICAL"}
    \cup {"CB"} \X {"LOGICAL", "BRANCH", "SHIFT"}
FloatShapes ==
  {<<"I", "LOAD">>, <<"S", "STORE">>, <<"R4", "ARITHMETIC">>, <<"R", "ARITHMETIC">>,
   <<"I", "ARITHMETIC">>, <<"R", "COMPARE">>}

Shape(r, n) ==
  /\ CASE r.group \in CompressedGroup -> <<r.format, r.category>> \in CompressedShapes
       [] r.group \in FloatGroup -> <<r.format, r.category>> \in FloatShapes
       [] OTHER -> <<r.format, r.category>> \in BaseShapes
  /\ n \in {"BEQ", "BNE", "BLTU", "BGEU"} => r.format = "B"
  /\ n \in Cov!Divisions =>
       r.format = "R" /\ r.category = "ARITHMETIC" /\ r.group \in {"RV32M", "RV64M"}
  /\ n \in {"C_LDSP", "C_LWSP"} <=> <<r.format, r.category>> = <<"CI", "LOAD">>
  /\ n = "C_ADDI16SP" => r.format = "CI"
  /\ n = "FSD" => r.format = "I" /\ r.category = "LOAD" /\ r.group = "RV32D"
  /\ r.group = "RV32D" => r.format # "S"
  /\ n = "C_ADDI4SPN" <=> r.format = "CIW"
  /\ n \in Cov!NoOperands =>
       r.category \notin {"LOAD", "STORE"} /\ r.group \notin FloatGroup

LEMMA BaseRows == \A r \in Cov!RV32I_Attr : \A n \in r.names : Shape(r, n)
BY DEF Cov!RV32I_Attr, Cov!Attr, Shape, CompressedGroup, FloatGroup, BaseShapes,
       Cov!Divisions, Cov!NoOperands

LEMMA MulRows == \A r \in Cov!RV32M_Attr : \A n \in r.names : Shape(r, n)
BY DEF Cov!RV32M_Attr, Cov!Attr, Shape, CompressedGroup, FloatGroup, BaseShapes,
       Cov!Divisions, Cov!NoOperands

LEMMA CompressedRows == \A r \in Cov!RV32C_Attr : \A n \in r.names : Shape(r, n)
BY DEF Cov!RV32C_Attr, Cov!Attr, Shape, CompressedGroup, FloatGroup, CompressedShapes,
       Cov!Divisions, Cov!NoOperands

LEMMA FRows == \A r \in Cov!RV32F_Attr : \A n \in r.names : Shape(r, n)
BY DEF Cov!RV32F_Attr, Cov!Attr, Shape, CompressedGroup, FloatGroup, FloatShapes,
       Cov!Divisions, Cov!NoOperands

LEMMA DRows == \A r \in Cov!RV32D_Attr : \A n \in r.names : Shape(r, n)
BY DEF Cov!RV32D_Attr, Cov!Attr, Shape, CompressedGroup, FloatGroup, FloatShapes,
       Cov!Divisions, Cov!NoOperands

LEMMA LongRows == \A r \in Cov!RV64_Attr : \A n \in r.names : Shape(r, n)
BY DEF Cov!RV64_Attr, Cov!Attr, Shape, CompressedGroup, FloatGroup, FloatShapes, CompressedShapes,
       BaseShapes, Cov!Divisions, Cov!NoOperands

LEMMA AttributesAre ==
  ASSUME NEW n \in Cov!NamesWithAttr
  PROVE  Shape(Cov!get_attr_list(n), n)
<1>1. PICK r \in Cov!AttrTable : n \in r.names
  BY DEF Cov!NamesWithAttr
<1>2. Cov!get_attr_list(n) \in Cov!AttrTable /\ n \in Cov!get_attr_list(n).names
  BY <1>1 DEF Cov!get_attr_list
<1> QED BY <1>2, BaseRows, MulRows, CompressedRows, FRows, DRows, LongRows DEF Cov!AttrTable

LEMMA DstUpdated ==
  ASSUME NEW r, Holds(r), NEW d, NEW v
  PROVE  LET u == Cov!update_dst_regs(r, d, v)
         IN  /\ Holds(u) /\ u.instr = r.instr /\ u.format = r.format
             /\ u.category = r.category /\ u.group = r.group /\ u.lsu_hazard = r.lsu_hazard
             /\ u.rs1 = r.rs1 /\ u.rs2 = r.rs2 /\ u.imm = r.imm
             /\ u.rs1_value = r.rs1_value /\ u.rs2_value = r.rs2_value
             /\ u.rd = Cov!riscv_reg_t[d] /\ u.rd_value = v
<1> DEFINE g == Cov!riscv_reg_t[d]
<1>1. Cov!update_dst_regs(r, d, v) = [r EXCEPT !.rd = g, !.rd_value = v]
  BY DEF Cov!update_dst_regs
<1> HIDE DEF g
<1> QED BY <1>1 DEF Holds, g

LEMMA Presampled ==
  ASSUME NEW r, Holds(r)
  PROVE  LET u == Cov!pre_sample(r)
         IN  /\ Holds(u) /\ u.instr = r.instr /\ u.format = r.format
             /\ u.category = r.category /\ u.group = r.group /\ u.lsu_hazard = r.lsu_hazard
             /\ u.rs1 = r.rs1 /\ u.rs2 = r.rs2 /\ u.imm = r.imm
             /\ u.rs1_value = r.rs1_value /\ u.rs2_value = r.rs2_value
             /\ u.rd = r.rd /\ u.rd_value = r.rd_value
             /\ u.category \in {"LOAD", "STORE"} => u.mem_addr = r.rs1_value + r.imm
             /\ u.rs1_sign = Cov!get_operand_sign(r.rs1_value)
             /\ u.rd_sign = Cov!get_operand_sign(r.rd_value)
             /\ r.category = "BRANCH" => u.branch_hit = Cov!is_branch_hit(u)
             /\ r.instr \in Cov!Divisions => u.div_result = Cov!get_div_result(u)
<1> DEFINE addr == IF r.category \in {"LOAD", "STORE"} THEN r.rs1_value + r.imm ELSE 0
           m == [r EXCEPT !.mem_addr = addr]
           s1 == Cov!get_operand_sign(r.rs1_value)
           s2 == Cov!get_operand_sign(r.rs2_value)
           sd == Cov!get_operand_sign(r.rd_value)
           si == Cov!get_imm_sign(r.imm)
           un == Cov!is_unaligned_mem_access(m)
           lo == IF r.category = "LOGICAL" THEN Cov!get_logical_similarity(r) ELSE 0
           hit == IF r.category = "BRANCH" THEN Cov!is_branch_hit(r) ELSE 0
           div == IF r.instr \in Cov!Divisions THEN Cov!get_div_result(r) ELSE 0
           u == [m EXCEPT !.rs1_sign = s1, !.rs2_sign = s2, !.rd_sign = sd, !.imm_sign = si,
                          !.unaligned_mem_access = un, !.logical_similarity = lo,
                          !.branch_hit = hit, !.div_result = div]
<1>1. Cov!pre_sample(r) = u
  BY DEF Cov!pre_sample
<1> HIDE DEF addr, s1, s2, sd, si, un, lo, hit, div
<1>2. /\ Holds(m) /\ m.instr = r.instr /\ m.format = r.format
      /\ m.category = r.category /\ m.group = r.group /\ m.lsu_hazard = r.lsu_hazard
      /\ m.rs1 = r.rs1 /\ m.rs2 = r.rs2 /\ m.imm = r.imm
      /\ m.rs1_value = r.rs1_value /\ m.rs2_value = r.rs2_value
      /\ m.rd = r.rd /\ m.rd_value = r.rd_value /\ m.mem_addr = addr
  BY DEF Holds
<1> HIDE DEF m
<1>3. Holds(u)
  <2>1. DOMAIN u = DOMAIN m
    OBVIOUS
  <2> QED BY <1>2, <2>1 DEF Holds
<1>4. /\ u.rs1_sign = s1 /\ u.rd_sign = sd
  BY DEF Holds
<1>5. u.branch_hit = hit /\ u.div_result = div
  BY DEF Holds
<1>6. /\ u.instr = m.instr /\ u.format = m.format
      /\ u.category = m.category /\ u.group = m.group /\ u.lsu_hazard = m.lsu_hazard
      /\ u.mem_addr = m.mem_addr
  BY DEF Holds
<1>7. /\ u.rs1 = m.rs1 /\ u.rs2 = m.rs2 /\ u.imm = m.imm
      /\ u.rs1_value = m.rs1_value /\ u.rs2_value = m.rs2_value
      /\ u.rd = m.rd /\ u.rd_value = m.rd_value
  BY DEF Holds
<1> HIDE DEF u
<1> QED BY <1>1, <1>2, <1>3, <1>4, <1>5, <1>6, <1>7
        DEF addr, s1, sd, hit, div, Cov!is_branch_hit, Cov!get_div_result

LEMMA HazardsChecked ==
  ASSUME NEW r, Holds(r), NEW p
  PROVE  LET u == Cov!check_hazard_condition(r, p)
         IN  /\ Holds(u)
             /\ u.instr = r.instr /\ u.format = r.format
             /\ u.category = r.category /\ u.group = r.group
             /\ u.rs1 = r.rs1 /\ u.rs2 = r.rs2 /\ u.imm = r.imm
             /\ u.rd = r.rd /\ u.rs1_value = r.rs1_value
             /\ u.rs2_value = r.rs2_value /\ u.rd_value = r.rd_value
             /\ u.mem_addr = r.mem_addr /\ u.rs1_sign = r.rs1_sign
             /\ u.rd_sign = r.rd_sign /\ u.branch_hit = r.branch_hit
             /\ u.div_result = r.div_result /\ u.fs1 = r.fs1
             /\ u.fs1_value = r.fs1_value /\ u.fs2 = r.fs2
             /\ u.fs2_value = r.fs2_value
             /\ u.lsu_hazard = IF r.category \in {"LOAD", "STORE"}
                               THEN Cov!LsuHazard(r, p) ELSE r.lsu_hazard
<1> DEFINE g == IF p.has_fd THEN Cov!FpHazard(r, p)
                ELSE IF p.has_rd THEN Cov!GprHazard(r, p) ELSE r.gpr_hazard
           h == IF r.category \in {"LOAD", "STORE"} THEN Cov!LsuHazard(r, p) ELSE r.lsu_hazard
           u == [r EXCEPT !.gpr_hazard = g, !.lsu_hazard = h]
<1>1. Cov!check_hazard_condition(r, p) = u
  BY DEF Cov!check_hazard_condition
<1> HIDE DEF g, h
<1>2. Holds(u) /\ u.lsu_hazard = h
      /\ u.instr = r.instr /\ u.format = r.format
      /\ u.category = r.category /\ u.group = r.group /\ u.rs1 = r.rs1
      /\ u.rs2 = r.rs2 /\ u.imm = r.imm /\ u.rd = r.rd
      /\ u.rs1_value = r.rs1_value /\ u.rs2_value = r.rs2_value
      /\ u.rd_value = r.rd_value /\ u.mem_addr = r.mem_addr
      /\ u.rs1_sign = r.rs1_sign /\ u.rd_sign = r.rd_sign
      /\ u.branch_hit = r.branch_hit /\ u.div_result = r.div_result
      /\ u.fs1 = r.fs1 /\ u.fs1_value = r.fs1_value /\ u.fs2 = r.fs2
      /\ u.fs2_value = r.fs2_value
  BY DEF Holds
<1> QED BY <1>1, <1>2 DEF h

LEMMA FpTakes ==
  ASSUME NEW r, Holds(r), NEW f, NEW g,
         <<f, g>> \in {<<"fs1", "fs1_value">>, <<"fs2", "fs2_value">>,
                       <<"fs3", "fs3_value">>, <<"rs1", "rs1_value">>},
         NEW ops, NEW at, NEW s
  PROVE  LET u == Cov!Take(r, f, g, ops, at, s)
         IN  /\ Holds(u) /\ u.instr = r.instr /\ u.format = r.format
             /\ u.category = r.category /\ u.group = r.group /\ u.lsu_hazard = r.lsu_hazard
             /\ f # "fs1" => u.fs1 = r.fs1 /\ u.fs1_value = r.fs1_value
             /\ f # "fs2" => u.fs2 = r.fs2 /\ u.fs2_value = r.fs2_value
             /\ ops[at][1] = "f" => u[f] = Cov!riscv_fpr_t[ops[at][2]]
             /\ u[g] = Cov!get_gpr_state(s, ops[at][2])
<1> DEFINE v == IF ops[at][1] = "f" THEN Cov!riscv_fpr_t[ops[at][2]]
                ELSE Cov!riscv_reg_t[ops[at][2]]
           w == Cov!get_gpr_state(s, ops[at][2])
           u == [r EXCEPT ![f] = v, ![g] = w]
<1>1. Cov!Take(r, f, g, ops, at, s) = u
  BY DEF Cov!Take
<1> HIDE DEF v, w
<1> DEFINE Goal ==
             /\ Holds(u) /\ u.instr = r.instr /\ u.format = r.format
             /\ u.category = r.category /\ u.group = r.group /\ u.lsu_hazard = r.lsu_hazard
             /\ f # "fs1" => u.fs1 = r.fs1 /\ u.fs1_value = r.fs1_value
             /\ f # "fs2" => u.fs2 = r.fs2 /\ u.fs2_value = r.fs2_value
             /\ u[f] = v /\ u[g] = w
<1>2. ASSUME f = "fs1" /\ g = "fs1_value" PROVE Goal
  <2> DEFINE z == [r EXCEPT !.fs1 = v, !.fs1_value = w]
  <2>1. u = z
    BY <1>2
  <2>2. /\ Holds(z) /\ z.instr = r.instr /\ z.format = r.format
        /\ z.category = r.category /\ z.group = r.group /\ z.lsu_hazard = r.lsu_hazard
        /\ z.fs1 = v /\ z.fs1_value = w
        /\ z.fs2 = r.fs2 /\ z.fs2_value = r.fs2_value
    BY DEF Holds
  <2> HIDE DEF z, u
  <2> QED BY <1>2, <2>1, <2>2
<1>3. ASSUME f = "fs2" /\ g = "fs2_value" PROVE Goal
  <2> DEFINE z == [r EXCEPT !.fs2 = v, !.fs2_value = w]
  <2>1. u = z
    BY <1>3
  <2>2. /\ Holds(z) /\ z.instr = r.instr /\ z.format = r.format
        /\ z.category = r.category /\ z.group = r.group /\ z.lsu_hazard = r.lsu_hazard
        /\ z.fs2 = v /\ z.fs2_value = w
        /\ z.fs1 = r.fs1 /\ z.fs1_value = r.fs1_value
    BY DEF Holds
  <2> HIDE DEF z, u
  <2> QED BY <1>3, <2>1, <2>2
<1>4. ASSUME f = "fs3" /\ g = "fs3_value" PROVE Goal
  <2> DEFINE z == [r EXCEPT !.fs3 = v, !.fs3_value = w]
  <2>1. u = z
    BY <1>4
  <2>2. /\ Holds(z) /\ z.instr = r.instr /\ z.format = r.format
        /\ z.category = r.category /\ z.group = r.group /\ z.lsu_hazard = r.lsu_hazard
        /\ z.fs3 = v /\ z.fs3_value = w
        /\ z.fs1 = r.fs1 /\ z.fs1_value = r.fs1_value /\ z.fs2 = r.fs2 /\ z.fs2_value = r.fs2_value
    BY DEF Holds
  <2> HIDE DEF z, u
  <2> QED BY <1>4, <2>1, <2>2
<1>5. ASSUME f = "rs1" /\ g = "rs1_value" PROVE Goal
  <2> DEFINE z == [r EXCEPT !.rs1 = v, !.rs1_value = w]
  <2>1. u = z
    BY <1>5
  <2>2. /\ Holds(z) /\ z.instr = r.instr /\ z.format = r.format
        /\ z.category = r.category /\ z.group = r.group /\ z.lsu_hazard = r.lsu_hazard
        /\ z.rs1 = v /\ z.rs1_value = w
        /\ z.fs1 = r.fs1 /\ z.fs1_value = r.fs1_value /\ z.fs2 = r.fs2 /\ z.fs2_value = r.fs2_value
    BY DEF Holds
  <2> HIDE DEF z, u
  <2> QED BY <1>5, <2>1, <2>2
<1>6. Goal
  BY <1>2, <1>3, <1>4, <1>5
<1> HIDE DEF u
<1> QED BY <1>1, <1>6 DEF v, w

(* Where the collector looks for the operands of an integer instruction it  *)
(* can read is where the row has them.                                      *)
Looked(m, at, l, ops) ==
  /\ m.rs1 # Cov!Absent => Cov!get_gpr(ops, l.rs1) = m.rs1
  /\ m.rs2 # Cov!Absent => Cov!get_gpr(ops, l.rs2) = m.rs2
  /\ (IF l.imm = 0 THEN 0 ELSE ops[l.imm][2]) = m.imm
  /\ at.category \in {"LOAD", "STORE"} => trace.order = "imm_base"

LEMMA IntegerLooked ==
  ASSUME NEW m, OperandsOfFormat(m), m.name \notin Cov!NoOperands,
         NEW at, at = Cov!get_attr_list(m.name), at.group \notin FloatGroup, Shape(at, m.name),
         NEW r, r.instr = m.name, r.format = at.format, r.category = at.category,
         r.group = at.group, r.has_rs2 = (at.format \notin {"I", "U", "J"} /\ at.category # "CSR"),
         NEW l, l = Cov!SrcLayout(r), NEW ops, ops = Cov!Operands(m, at),
         Cov!Is(ops, l.rs1, "x"), Cov!Is(ops, l.rs2, "x"), Cov!Is(ops, l.imm, "i")
  PROVE  Looked(m, at, l, ops)
<1>1. /\ r.instr = m.name /\ r.format = at.format /\ r.category = at.category
      /\ r.group = at.group
      /\ r.has_rs2 = (at.format \notin {"I", "U", "J"} /\ at.category # "CSR")
  OBVIOUS
<1>2. Shape(at, m.name) /\ m.name \notin Cov!NoOperands /\ at.group \notin FloatGroup
  OBVIOUS
<1>3. Cov!Is(ops, l.rs1, "x") /\ Cov!Is(ops, l.rs2, "x") /\ Cov!Is(ops, l.imm, "i")
  OBVIOUS
<1>4. ops = Cov!Operands(m, at)
  OBVIOUS
<1>5. CASE at.group \notin CompressedGroup
  <2>1. l = Cov!BaseLayout(r)
    BY <1>1, <1>5 DEF Cov!SrcLayout, CompressedGroup
  <2>2. <<at.format, at.category>> \in BaseShapes
    BY <1>2, <1>5 DEF Shape, FloatGroup
  <2>3. CASE at.format = "I" /\ at.category = "LOAD"
    <3>1. l = Cov!Layout(3, 3, 0, 2, 0)
      BY <1>1, <1>2, <2>1, <2>2, <2>3 DEF Cov!BaseLayout, Shape, BaseShapes
    <3>2. ops = Cov!Mem(m, m.rd)
      BY <1>2, <1>4, <2>2, <2>3 DEF Cov!Operands, Shape, FloatGroup, BaseShapes
    <3> QED BY <1>2, <1>3, <2>2, <2>3, <3>1, <3>2
            DEF Looked, Cov!Is, Cov!Layout, Cov!Mem, Cov!Reg, Cov!Imm, Cov!get_gpr,
                Cov!StackPointer, OperandsOfFormat, Shape, FloatGroup, BaseShapes
  <2>4. CASE at.format = "I" /\ at.category = "CSR"
    <3>1. l = Cov!Layout(3, 0, 0, 3, 2)
      BY <1>1, <1>2, <2>1, <2>2, <2>4 DEF Cov!BaseLayout, Shape, BaseShapes
    <3>2. ops = <<Cov!Reg(m.rd), <<"c", Cov!MEPC>>, Cov!Reg(m.rs1)>>
      BY <1>2, <1>4, <2>2, <2>4 DEF Cov!Operands, Shape, FloatGroup, BaseShapes
    <3> QED BY <1>2, <1>3, <2>2, <2>4, <3>1, <3>2
            DEF Looked, Cov!Is, Cov!Layout, Cov!Mem, Cov!Reg, Cov!Imm, Cov!get_gpr,
                Cov!StackPointer, OperandsOfFormat, Shape, FloatGroup, BaseShapes
  <2>5. CASE at.format = "I" /\ at.category \notin {"LOAD", "CSR"}
    <3>1. l = Cov!Layout(3, 2, 0, 3, 0)
      BY <1>1, <1>2, <2>1, <2>2, <2>5 DEF Cov!BaseLayout, Shape, BaseShapes
    <3>2. ops = <<Cov!Reg(m.rd), Cov!Reg(m.rs1), Cov!Imm(m)>>
      BY <1>2, <1>4, <2>2, <2>5 DEF Cov!Operands, Shape, FloatGroup, BaseShapes
    <3> QED BY <1>2, <1>3, <2>2, <2>5, <3>1, <3>2
            DEF Looked, Cov!Is, Cov!Layout, Cov!Mem, Cov!Reg, Cov!Imm, Cov!get_gpr,
                Cov!StackPointer, OperandsOfFormat, Shape, FloatGroup, BaseShapes
  <2>6. CASE at.format = "S" /\ at.category = "STORE"
    <3>1. l = Cov!Layout(3, 3, 1, 2, 0)
      BY <1>1, <1>2, <2>1, <2>2, <2>6 DEF Cov!BaseLayout, Shape, BaseShapes
    <3>2. ops = Cov!Mem(m, m.rs2)
      BY <1>2, <1>4, <2>2, <2>6 DEF Cov!Operands, Shape, FloatGroup, BaseShapes
    <3> QED BY <1>2, <1>3, <2>2, <2>6, <3>1, <3>2
            DEF Looked, Cov!Is, Cov!Layout, Cov!Mem, Cov!Reg, Cov!Imm, Cov!get_gpr,
                Cov!StackPointer, OperandsOfFormat, Shape, FloatGroup, BaseShapes
  <2>7. CASE at.format = "B" /\ at.category = "BRANCH"
    <3>1. l = Cov!Layout(3, 1, 2, 3, 0)
      BY <1>1, <1>2, <2>1, <2>2, <2>7 DEF Cov!BaseLayout, Shape, BaseShapes
    <3>2. ops = <<Cov!Reg(m.rs1), Cov!Reg(m.rs2), Cov!Imm(m)>>
      BY <1>2, <1>4, <2>2, <2>7 DEF Cov!Operands, Shape, FloatGroup, BaseShapes
    <3> QED BY <1>2, <1>3, <2>2, <2>7, <3>1, <3>2
            DEF Looked, Cov!Is, Cov!Layout, Cov!Mem, Cov!Reg, Cov!Imm, Cov!get_gpr,
                Cov!StackPointer, OperandsOfFormat, Shape, FloatGroup, BaseShapes
  <2>8. CASE at.format = "R" /\ at.category = "CSR"
    <3>1. l = Cov!Layout(3, 3, 0, 0, 2)
      BY <1>1, <1>2, <2>1, <2>2, <2>8 DEF Cov!BaseLayout, Shape, BaseShapes
    <3>2. ops = <<Cov!Reg(m.rd), <<"c", Cov!MEPC>>, Cov!Reg(m.rs1)>>
      BY <1>2, <1>4, <2>2, <2>8 DEF Cov!Operands, Shape, FloatGroup, BaseShapes
    <3> QED BY <1>2, <1>3, <2>2, <2>8, <3>1, <3>2
            DEF Looked, Cov!Is, Cov!Layout, Cov!Mem, Cov!Reg, Cov!Imm, Cov!get_gpr,
                Cov!StackPointer, OperandsOfFormat, Shape, FloatGroup, BaseShapes
  <2>9. CASE at.format = "R" /\ at.category # "CSR"
    <3>1. l = Cov!Layout(3, 2, 3, 0, 0)
      BY <1>1, <1>2, <2>1, <2>2, <2>9 DEF Cov!BaseLayout, Shape, BaseShapes
    <3>2. ops = <<Cov!Reg(m.rd), Cov!Reg(m.rs1), Cov!Reg(m.rs2)>>
      BY <1>2, <1>4, <2>2, <2>9 DEF Cov!Operands, Shape, FloatGroup, BaseShapes
    <3> QED BY <1>2, <1>3, <2>2, <2>9, <3>1, <3>2
            DEF Looked, Cov!Is, Cov!Layout, Cov!Mem, Cov!Reg, Cov!Imm, Cov!get_gpr,
                Cov!StackPointer, OperandsOfFormat, Shape, FloatGroup, BaseShapes
  <2>10. CASE at.format \in {"U", "J"}
    <3>1. l = Cov!Layout(2, 0, 0, 2, 0)
      BY <1>1, <1>2, <2>1, <2>2, <2>10 DEF Cov!BaseLayout, Shape, BaseShapes
    <3>2. ops = <<Cov!Reg(m.rd), Cov!Imm(m)>>
      BY <1>2, <1>4, <2>2, <2>10 DEF Cov!Operands, Shape, FloatGroup, BaseShapes
    <3> QED BY <1>2, <1>3, <2>2, <2>10, <3>1, <3>2
            DEF Looked, Cov!Is, Cov!Layout, Cov!Mem, Cov!Reg, Cov!Imm, Cov!get_gpr,
                Cov!StackPointer, OperandsOfFormat, Shape, FloatGroup, BaseShapes
  <2> QED BY <1>2, <2>2, <2>3, <2>4, <2>5, <2>6, <2>7, <2>8, <2>9, <2>10 DEF BaseShapes
<1>6. CASE at.group \in CompressedGroup
  <2>1. l = Cov!CompressedLayout(r)
    BY <1>1, <1>6 DEF Cov!SrcLayout, CompressedGroup
  <2>2. <<at.format, at.category>> \in CompressedShapes
    BY <1>2, <1>6 DEF Shape, FloatGroup
  <2>3. CASE at.format = "CL" /\ at.category = "LOAD"
    <3>1. l = Cov!Layout(0, 3, 0, 2, 0)
      BY <1>1, <1>2, <2>1, <2>2, <2>3 DEF Cov!CompressedLayout, Shape, CompressedShapes
    <3>2. ops = Cov!Mem(m, m.rd)
      BY <1>2, <1>4, <2>2, <2>3 DEF Cov!Operands, Shape, FloatGroup, CompressedShapes
    <3> QED BY <1>2, <1>3, <2>2, <2>3, <3>1, <3>2
            DEF Looked, Cov!Is, Cov!Layout, Cov!Mem, Cov!Reg, Cov!Imm, Cov!get_gpr,
                Cov!StackPointer, OperandsOfFormat, Shape, FloatGroup, CompressedShapes
  <2>4. CASE at.format = "CS" /\ at.category = "STORE"
    <3>1. l = Cov!Layout(0, 3, 1, 2, 0)
      BY <1>1, <1>2, <2>1, <2>2, <2>4 DEF Cov!CompressedLayout, Shape, CompressedShapes
    <3>2. ops = Cov!Mem(m, m.rs2)
      BY <1>2, <1>4, <2>2, <2>4 DEF Cov!Operands, Shape, FloatGroup, CompressedShapes
    <3> QED BY <1>2, <1>3, <2>2, <2>4, <3>1, <3>2
            DEF Looked, Cov!Is, Cov!Layout, Cov!Mem, Cov!Reg, Cov!Imm, Cov!get_gpr,
                Cov!StackPointer, OperandsOfFormat, Shape, FloatGroup, CompressedShapes
  <2>5. CASE at.format = "CI" /\ at.category = "LOAD"
    <3>1. l = Cov!Layout(0, Cov!StackPointer, 0, 2, 0)
      BY <1>1, <1>2, <2>1, <2>2, <2>5 DEF Cov!CompressedLayout, Shape, CompressedShapes
    <3>2. ops = Cov!Mem(m, m.rd)
      BY <1>2, <1>4, <2>2, <2>5 DEF Cov!Operands, Shape, FloatGroup, CompressedShapes
    <3> QED BY <1>2, <1>3, <2>2, <2>5, <3>1, <3>2
            DEF Looked, Cov!Is, Cov!Layout, Cov!Mem, Cov!Reg, Cov!Imm, Cov!get_gpr,
                Cov!StackPointer, OperandsOfFormat, Shape, FloatGroup, CompressedShapes
  <2>6. CASE at.format = "CI" /\ at.category # "LOAD" /\ m.name = "C_ADDI16SP"
    <3>1. l = Cov!Layout(0, Cov!StackPointer, 0, 2, 0)
      BY <1>1, <1>2, <2>1, <2>2, <2>6 DEF Cov!CompressedLayout, Shape, CompressedShapes
    <3>2. ops = <<Cov!Reg(m.rd), Cov!Imm(m)>>
      BY <1>2, <1>4, <2>2, <2>6 DEF Cov!Operands, Shape, FloatGroup, CompressedShapes
    <3> QED BY <1>2, <1>3, <2>2, <2>6, <3>1, <3>2
            DEF Looked, Cov!Is, Cov!Layout, Cov!Mem, Cov!Reg, Cov!Imm, Cov!get_gpr,
                Cov!StackPointer, OperandsOfFormat, Shape, FloatGroup, CompressedShapes
  <2>7. CASE at.format = "CI" /\ at.category # "LOAD" /\ m.name # "C_ADDI16SP"
    <3>1. l = Cov!Layout(0, 0, 0, 2, 0)
      BY <1>1, <1>2, <2>1, <2>2, <2>7 DEF Cov!CompressedLayout, Shape, CompressedShapes
    <3>2. ops = <<Cov!Reg(m.rd), Cov!Imm(m)>>
      BY <1>2, <1>4, <2>2, <2>7 DEF Cov!Operands, Shape, FloatGroup, CompressedShapes
    <3> QED BY <1>2, <1>3, <2>2, <2>7, <3>1, <3>2
            DEF Looked, Cov!Is, Cov!Layout, Cov!Mem, Cov!Reg, Cov!Imm, Cov!get_gpr,
                Cov!StackPointer, OperandsOfFormat, Shape, FloatGroup, CompressedShapes
  <2>8. CASE at.format = "CSS" /\ at.category = "STORE"
    <3>1. l = Cov!Layout(0, Cov!StackPointer, 1, 2, 0)
      BY <1>1, <1>2, <2>1, <2>2, <2>8 DEF Cov!CompressedLayout, Shape, CompressedShapes
    <3>2. ops = Cov!Mem(m, m.rs2)
      BY <1>2, <1>4, <2>2, <2>8 DEF Cov!Operands, Shape, FloatGroup, CompressedShapes
    <3> QED BY <1>2, <1>3, <2>2, <2>8, <3>1, <3>2
            DEF Looked, Cov!Is, Cov!Layout, Cov!Mem, Cov!Reg, Cov!Imm, Cov!get_gpr,
                Cov!StackPointer, OperandsOfFormat, Shape, FloatGroup, CompressedShapes
  <2>9. CASE at.format = "CA"
    <3>1. l = Cov!Layout(0, 1, 2, 0, 0)
      BY <1>1, <1>2, <2>1, <2>2, <2>9 DEF Cov!CompressedLayout, Shape, CompressedShapes
    <3>2. ops = <<Cov!Reg(m.rd), Cov!Reg(m.rs2)>>
      BY <1>2, <1>4, <2>2, <2>9 DEF Cov!Operands, Shape, FloatGroup, CompressedShapes
    <3> QED BY <1>2, <1>3, <2>2, <2>9, <3>1, <3>2
            DEF Looked, Cov!Is, Cov!Layout, Cov!Mem, Cov!Reg, Cov!Imm, Cov!get_gpr,
                Cov!StackPointer, OperandsOfFormat, Shape, FloatGroup, CompressedShapes
  <2>10. CASE at.format = "CB"
    <3>1. l = Cov!Layout(0, 1, 0, 2, 0)
      BY <1>1, <1>2, <2>1, <2>2, <2>10 DEF Cov!CompressedLayout, Shape, CompressedShapes
    <3>2. ops = <<Cov!Reg(m.rs1), Cov!Imm(m)>>
      BY <1>2, <1>4, <2>2, <2>10 DEF Cov!Operands, Shape, FloatGroup, CompressedShapes
    <3> QED BY <1>2, <1>3, <2>2, <2>10, <3>1, <3>2
            DEF Looked, Cov!Is, Cov!Layout, Cov!Mem, Cov!Reg, Cov!Imm, Cov!get_gpr,
                Cov!StackPointer, OperandsOfFormat, Shape, FloatGroup, CompressedShapes
  <2>11. CASE at.format = "CR" /\ at.category = "JUMP"
    <3>1. l = Cov!Layout(0, 1, 0, 0, 0)
      BY <1>1, <1>2, <2>1, <2>2, <2>11 DEF Cov!CompressedLayout, Shape, CompressedShapes
    <3>2. ops = <<Cov!Reg(m.rs1)>>
      BY <1>2, <1>4, <2>2, <2>11 DEF Cov!Operands, Shape, FloatGroup, CompressedShapes
    <3> QED BY <1>2, <1>3, <2>2, <2>11, <3>1, <3>2
            DEF Looked, Cov!Is, Cov!Layout, Cov!Mem, Cov!Reg, Cov!Imm, Cov!get_gpr,
                Cov!StackPointer, OperandsOfFormat, Shape, FloatGroup, CompressedShapes
  <2>12. CASE at.format = "CR" /\ at.category # "JUMP"
    <3>1. l = Cov!Layout(0, 0, 2, 0, 0)
      BY <1>1, <1>2, <2>1, <2>2, <2>12 DEF Cov!CompressedLayout, Shape, CompressedShapes
    <3>2. ops = <<Cov!Reg(m.rd), Cov!Reg(m.rs2)>>
      BY <1>2, <1>4, <2>2, <2>12 DEF Cov!Operands, Shape, FloatGroup, CompressedShapes
    <3> QED BY <1>2, <1>3, <2>2, <2>12, <3>1, <3>2
            DEF Looked, Cov!Is, Cov!Layout, Cov!Mem, Cov!Reg, Cov!Imm, Cov!get_gpr,
                Cov!StackPointer, OperandsOfFormat, Shape, FloatGroup, CompressedShapes
  <2>13. CASE at.format = "CJ"
    <3>1. l = Cov!Layout(0, 0, 0, 1, 0)
      BY <1>1, <1>2, <2>1, <2>2, <2>13 DEF Cov!CompressedLayout, Shape, CompressedShapes
    <3>2. ops = <<Cov!Imm(m)>>
      BY <1>2, <1>4, <2>2, <2>13 DEF Cov!Operands, Shape, FloatGroup, CompressedShapes
    <3> QED BY <1>2, <1>3, <2>2, <2>13, <3>1, <3>2
            DEF Looked, Cov!Is, Cov!Layout, Cov!Mem, Cov!Reg, Cov!Imm, Cov!get_gpr,
                Cov!StackPointer, OperandsOfFormat, Shape, FloatGroup, CompressedShapes
  <2> QED BY <1>2, <2>2, <2>3, <2>4, <2>5, <2>6, <2>7, <2>8, <2>9, <2>10,
            <2>11, <2>12, <2>13 DEF CompressedShapes, Shape, OperandsOfFormat
<1> QED BY <1>5, <1>6

LEMMA IntegerRow ==
  ASSUME NEW m, m.name \in Cov!NamesWithAttr, OperandsOfFormat(m),
         m.name \notin Cov!NoOperands, Cov!Readable(m),
         NEW at, at = Cov!get_attr_list(m.name), at.group \notin FloatGroup
  PROVE  Looked(m, at, Cov!SrcLayout(Cov!assign_attributes(m.name)), Cov!Asm(m))
<1> DEFINE r == Cov!assign_attributes(m.name)
           l == Cov!SrcLayout(r)
           ops == Cov!Asm(m)
<1>1. /\ r.instr = m.name /\ r.format = at.format /\ r.category = at.category
      /\ r.group = at.group
      /\ r.has_rs2 = (at.format \notin {"I", "U", "J"} /\ at.category # "CSR")
  BY NewRecord DEF Cov!assign_attributes
<1>2. Shape(at, m.name)
  BY AttributesAre
<1>3. Cov!Is(ops, l.rs1, "x") /\ Cov!Is(ops, l.rs2, "x") /\ Cov!Is(ops, l.imm, "i")
  BY <1>1 DEF Cov!Readable, Cov!HasReadable, Cov!IsFp, FloatGroup, Cov!SrcReadable
<1>4. ops = Cov!Operands(m, at)
  BY DEF Cov!Asm
<1>5. l = Cov!SrcLayout(r)
  OBVIOUS
<1> HIDE DEF r, ops, l
<1>6. Looked(m, at, l, ops)
  BY <1>1, <1>2, <1>3, <1>4, <1>5, IntegerLooked
<1> QED BY <1>6 DEF r, ops, l

(* What a row says of the record sampled for it, in the register state s.   *)
IntegerFacts(m, s, q) ==
  /\ m.rs1 # Cov!Absent =>
       q.rs1 = Cov!riscv_reg_t[m.rs1] /\ q.rs1_value = Cov!get_gpr_state(s, m.rs1)
  /\ m.rs2 # Cov!Absent =>
       q.rs2 = Cov!riscv_reg_t[m.rs2] /\ q.rs2_value = Cov!get_gpr_state(s, m.rs2)
  /\ q.imm = m.imm
Classed(q) ==
  /\ q.category \in {"LOAD", "STORE"} => q.mem_addr = q.rs1_value + q.imm
  /\ q.rs1_sign = Cov!get_operand_sign(q.rs1_value)
  /\ q.rd_sign = Cov!get_operand_sign(q.rd_value)
  /\ q.category = "BRANCH" => q.branch_hit = Cov!is_branch_hit(q)
  /\ q.instr \in Cov!Divisions => q.div_result = Cov!get_div_result(q)
Attributed(m, q) ==
  /\ Holds(q) /\ q.instr = m.name /\ q.format = Cov!get_attr_list(m.name).format
  /\ q.category = Cov!get_attr_list(m.name).category
  /\ q.group = Cov!get_attr_list(m.name).group /\ q.lsu_hazard = 0

LEMMA IntegerSampled ==
  ASSUME NEW m, m.name \in Cov!NamesWithAttr, OperandsOfFormat(m), Cov!Readable(m),
         m.rd \in TraceRegs \cup {Cov!Absent},
         m.name \in Cov!NoOperands => m.rd \notin TraceRegs \ {"ZERO"},
         Cov!get_attr_list(m.name).group \notin FloatGroup
  PROVE  LET q == Cov!Classified(Cov!AssignTraceInfo(m))
         IN  /\ Attributed(m, q) /\ IntegerFacts(m, gpr_state, q) /\ Classed(q)
             /\ m.rd \notin {Cov!Absent, "ZERO"} =>
                  q.rd = Cov!riscv_reg_t[m.rd] /\ q.rd_value = m.val
             /\ q.category \in {"LOAD", "STORE"} => trace.order = "imm_base"
<1> DEFINE at == Cov!get_attr_list(m.name)
           r == Cov!assign_attributes(m.name)
           ops == Cov!Asm(m)
           l == Cov!SrcLayout(r)
           u == Cov!AssignTraceInfo(m)
           Fine(z) == /\ Attributed(m, z) /\ IntegerFacts(m, gpr_state, z)
                      /\ m.rd \notin {Cov!Absent, "ZERO"} =>
                           z.rd = Cov!riscv_reg_t[m.rd] /\ z.rd_value = m.val
<1>1. /\ Holds(r) /\ r.instr = m.name /\ r.format = at.format /\ r.category = at.category
      /\ r.group = at.group /\ r.imm = 0 /\ r.lsu_hazard = 0
  BY NewRecord DEF Cov!assign_attributes
<1>2. Shape(at, m.name)
  BY AttributesAre
<1>3. ~Cov!IsFp(r)
  BY <1>1 DEF Cov!IsFp, FloatGroup
<1>4. Fine(u) /\ (at.category \in {"LOAD", "STORE"} => trace.order = "imm_base")
  <2>1. CASE m.name \in Cov!NoOperands
    <3>1. u = r
      BY <2>1 DEF Cov!AssignTraceInfo
    <3>2. m.rs1 = Cov!Absent /\ m.rs2 = Cov!Absent /\ m.imm = 0
      BY <2>1 DEF OperandsOfFormat
    <3>3. m.rd \in {Cov!Absent, "ZERO"} /\ at.category \notin {"LOAD", "STORE"}
      BY <2>1, <1>2 DEF Shape
    <3> HIDE DEF r, u, at
    <3> QED BY <1>1, <3>1, <3>2, <3>3 DEF Attributed, IntegerFacts, at
  <2>2. CASE m.name \notin Cov!NoOperands
    <3> DEFINE w == Cov!update_src_regs(r, ops, gpr_state)
    <3>1. Looked(m, at, l, ops)
      BY <2>2, IntegerRow
    <3>2. Attributed(m, w) /\ IntegerFacts(m, gpr_state, w)
      <4> HIDE DEF r, ops
      <4>1. /\ Holds(w) /\ w.instr = r.instr /\ w.format = r.format
            /\ w.category = r.category /\ w.group = r.group /\ w.lsu_hazard = r.lsu_hazard
            /\ w.rs1 = Cov!riscv_reg_t[Cov!get_gpr(ops, l.rs1)]
            /\ w.rs1_value = Cov!get_gpr_state(gpr_state, Cov!get_gpr(ops, l.rs1))
            /\ w.rs2 = Cov!riscv_reg_t[Cov!get_gpr(ops, l.rs2)]
            /\ w.rs2_value = Cov!get_gpr_state(gpr_state, Cov!get_gpr(ops, l.rs2))
            /\ w.imm = IF l.imm = 0 THEN 0 ELSE ops[l.imm][2]
        BY <1>1, SrcUpdated
      <4> HIDE DEF w, l
      <4> QED BY <1>1, <3>1, <4>1 DEF Attributed, IntegerFacts, Looked
    <3>3. u = Cov!WithUpdates(w, m)
      BY <1>3, <2>2 DEF Cov!AssignTraceInfo, Cov!WithSources
    <3>4. ~Cov!IsFp(w)
      BY <3>2 DEF Attributed, Cov!IsFp, FloatGroup
    <3>5. at.category \in {"LOAD", "STORE"} => trace.order = "imm_base"
      BY <3>1 DEF Looked
    <3> HIDE DEF w, r, ops, l, u
    <3>6. CASE Cov!Writes(m) = {}
      <4>1. u = w /\ m.rd \in {Cov!Absent, "ZERO"}
        BY <3>3, <3>6 DEF Cov!WithUpdates, Cov!Writes
      <4> QED BY <3>2, <3>5, <4>1
    <3>7. CASE Cov!Writes(m) # {}
      <4>1. u = Cov!update_dst_regs(w, m.rd, m.val)
        BY <3>3, <3>4, <3>7 DEF Cov!WithUpdates
      <4>2. /\ Holds(u) /\ u.instr = w.instr /\ u.format = w.format
            /\ u.category = w.category /\ u.group = w.group /\ u.lsu_hazard = w.lsu_hazard
            /\ u.rs1 = w.rs1 /\ u.rs2 = w.rs2 /\ u.imm = w.imm
            /\ u.rs1_value = w.rs1_value /\ u.rs2_value = w.rs2_value
            /\ u.rd = Cov!riscv_reg_t[m.rd] /\ u.rd_value = m.val
        BY <3>2, <4>1, DstUpdated DEF Attributed
      <4> QED BY <3>2, <3>5, <4>2 DEF Attributed, IntegerFacts
    <3> QED BY <3>6, <3>7
  <2> QED BY <2>1, <2>2
<1>5. Cov!Classified(u) = Cov!pre_sample(u)
  BY <1>4 DEF Cov!Classified, Cov!IsFp, Attributed, FloatGroup
<1> HIDE DEF u
<1> DEFINE q == Cov!pre_sample(u)
<1>6. /\ Holds(q) /\ q.instr = u.instr /\ q.format = u.format
      /\ q.category = u.category /\ q.group = u.group /\ q.lsu_hazard = u.lsu_hazard
      /\ q.rs1 = u.rs1 /\ q.rs2 = u.rs2 /\ q.imm = u.imm
      /\ q.rs1_value = u.rs1_value /\ q.rs2_value = u.rs2_value
      /\ q.rd = u.rd /\ q.rd_value = u.rd_value /\ Classed(q)
  <2>1. Holds(u)
    BY <1>4 DEF Attributed
  <2>2. /\ Holds(q) /\ q.instr = u.instr /\ q.format = u.format
        /\ q.category = u.category /\ q.group = u.group /\ q.lsu_hazard = u.lsu_hazard
        /\ q.rs1 = u.rs1 /\ q.rs2 = u.rs2 /\ q.imm = u.imm
        /\ q.rs1_value = u.rs1_value /\ q.rs2_value = u.rs2_value
        /\ q.rd = u.rd /\ q.rd_value = u.rd_value
        /\ q.category \in {"LOAD", "STORE"} => q.mem_addr = u.rs1_value + u.imm
        /\ q.rs1_sign = Cov!get_operand_sign(u.rs1_value)
        /\ q.rd_sign = Cov!get_operand_sign(u.rd_value)
        /\ u.category = "BRANCH" => q.branch_hit = Cov!is_branch_hit(q)
        /\ u.instr \in Cov!Divisions => q.div_result = Cov!get_div_result(q)
    BY <2>1, Presampled
  <2> HIDE DEF q
  <2> QED BY <2>2 DEF Classed
<1> HIDE DEF q
<1>7. Attributed(m, q) /\ IntegerFacts(m, gpr_state, q)
      /\ (m.rd \notin {Cov!Absent, "ZERO"} => q.rd = Cov!riscv_reg_t[m.rd] /\ q.rd_value = m.val)
  BY <1>4, <1>6 DEF Attributed, IntegerFacts
<1> QED BY <1>4, <1>5, <1>6, <1>7 DEF q, u, Attributed

(* The enumerations the samples are named by.                               *)
LEMMA EnumValues ==
  ASSUME NEW names, Len(names) \in Nat,
         \A i1, k \in 1 .. Len(names) : names[i1] = names[k] => i1 = k
  PROVE  \A k \in 1 .. Len(names) : Cov!Enum(0, names)[names[k]] = k - 1
<1> TAKE k \in 1 .. Len(names)
<1>1. (CHOOSE i1 \in 1 .. Len(names) : names[i1] = names[k]) = k
  OBVIOUS
<1> QED BY <1>1 DEF Cov!Enum

LEMMA HazardValues ==
  /\ Cov!hazard_e["NO_HAZARD"] = 0
  /\ Cov!operand_sign_e["POSITIVE"] = 0 /\ Cov!operand_sign_e["NEGATIVE"] = 1
  /\ Cov!div_result_e["DIV_NORMAL"] = 0 /\ Cov!div_result_e["DIV_BY_ZERO"] = 1
  /\ Cov!div_result_e["DIV_OVERFLOW"] = 2
<1>1. Cov!hazard_e["NO_HAZARD"] = 0
  <2> DEFINE s == <<"NO_HAZARD", "RAW_HAZARD", "WAR_HAZARD", "WAW_HAZARD">>
  <2>1. /\ Len(s) = 4 /\ s[1] = "NO_HAZARD" /\ s[2] = "RAW_HAZARD"
        /\ s[3] = "WAR_HAZARD" /\ s[4] = "WAW_HAZARD"
    OBVIOUS
  <2>2. Cov!hazard_e = Cov!Enum(0, s)
    BY DEF s, Cov!hazard_e
  <2> HIDE DEF s
  <2>3. Len(s) \in Nat /\ \A i1, k \in 1 .. Len(s) : s[i1] = s[k] => i1 = k
    BY <2>1
  <2>4. \A k \in 1 .. Len(s) : Cov!Enum(0, s)[s[k]] = k - 1
    BY <2>3, EnumValues
  <2> QED BY <2>1, <2>2, <2>4
<1>2. Cov!operand_sign_e["POSITIVE"] = 0 /\ Cov!operand_sign_e["NEGATIVE"] = 1
  <2> DEFINE s == <<"POSITIVE", "NEGATIVE">>
  <2>1. Len(s) = 2 /\ s[1] = "POSITIVE" /\ s[2] = "NEGATIVE"
    OBVIOUS
  <2>2. Cov!operand_sign_e = Cov!Enum(0, s)
    BY DEF s, Cov!operand_sign_e
  <2> HIDE DEF s
  <2>3. Len(s) \in Nat /\ \A i1, k \in 1 .. Len(s) : s[i1] = s[k] => i1 = k
    BY <2>1
  <2>4. \A k \in 1 .. Len(s) : Cov!Enum(0, s)[s[k]] = k - 1
    BY <2>3, EnumValues
  <2> QED BY <2>1, <2>2, <2>4
<1>3. /\ Cov!div_result_e["DIV_NORMAL"] = 0 /\ Cov!div_result_e["DIV_BY_ZERO"] = 1
      /\ Cov!div_result_e["DIV_OVERFLOW"] = 2
  <2> DEFINE s == <<"DIV_NORMAL", "DIV_BY_ZERO", "DIV_OVERFLOW">>
  <2>1. Len(s) = 3 /\ s[1] = "DIV_NORMAL" /\ s[2] = "DIV_BY_ZERO" /\ s[3] = "DIV_OVERFLOW"
    OBVIOUS
  <2>2. Cov!div_result_e = Cov!Enum(0, s)
    BY DEF s, Cov!div_result_e
  <2> HIDE DEF s
  <2>3. Len(s) \in Nat /\ \A i1, k \in 1 .. Len(s) : s[i1] = s[k] => i1 = k
    BY <2>1
  <2>4. \A k \in 1 .. Len(s) : Cov!Enum(0, s)[s[k]] = k - 1
    BY <2>3, EnumValues
  <2> QED BY <2>1, <2>2, <2>4
<1> QED BY <1>1, <1>2, <1>3

LEMMA ZeroInteger == Integers("ZERO")
<1> DEFINE s == <<"FT0", "FT1", "FT2", "FT3", "FT4", "FT5", "FT6", "FT7", "FS0",
            "FS1", "FA0", "FA1", "FA2", "FA3", "FA4", "FA5", "FA6", "FA7",
            "FS2", "FS3", "FS4", "FS5", "FS6", "FS7", "FS8", "FS9", "FS10",
            "FS11", "FT8", "FT9", "FT10", "FT11">>
<1>1. \A k \in 1 .. Len(s) : s[k] # "ZERO"
  OBVIOUS
<1> HIDE DEF s
<1>2. DOMAIN Cov!Enum(0, s) = {s[k] : k \in 1 .. Len(s)}
  BY DEF Cov!Enum
<1> QED BY <1>1, <1>2 DEF Integers, Cov!riscv_fpr_t, s

-----------------------------------------------------------------------------
(* A floating-point row.                                                    *)
Kept(u, r) ==
  /\ Holds(u) /\ u.instr = r.instr /\ u.format = r.format
  /\ u.category = r.category /\ u.group = r.group /\ u.lsu_hazard = r.lsu_hazard
SameFp(u, r) ==
  /\ u.fs1 = r.fs1 /\ u.fs1_value = r.fs1_value
  /\ u.fs2 = r.fs2 /\ u.fs2_value = r.fs2_value

LEMMA FpDstUpdated ==
  ASSUME NEW r, Holds(r), NEW d, NEW v
  PROVE  Kept(Cov!FpUpdateDst(r, d, v), r) /\ SameFp(Cov!FpUpdateDst(r, d, v), r)
<1> DEFINE f == Cov!riscv_fpr_t[d]
           g == Cov!riscv_reg_t[d]
<1>1. CASE r.has_fd
  <2>1. Cov!FpUpdateDst(r, d, v) = [r EXCEPT !.fd = f, !.fd_value = v]
    BY <1>1 DEF Cov!FpUpdateDst
  <2> HIDE DEF f
  <2> QED BY <2>1 DEF Holds, Kept, SameFp
<1>2. CASE ~r.has_fd
  <2>1. Cov!FpUpdateDst(r, d, v) = [r EXCEPT !.rd = g, !.rd_value = v]
    BY <1>2 DEF Cov!FpUpdateDst
  <2> HIDE DEF g
  <2> QED BY <2>1 DEF Holds, Kept, SameFp
<1> QED BY <1>1, <1>2

LEMMA FpPresampled ==
  ASSUME NEW r, Holds(r)
  PROVE  Kept(Cov!FpPreSample(r), r) /\ SameFp(Cov!FpPreSample(r), r)
<1> DEFINE s1 == Cov!get_fp_operand_sign(r.fs1_value)
           s2 == IF r.instr \in {"FCVT_S_D", "FCVT_D_S"} THEN 0
                 ELSE Cov!get_fp_operand_sign(r.fs2_value)
           s3 == IF r.instr \in {"FCVT_S_D", "FCVT_D_S"} THEN 0
                 ELSE Cov!get_fp_operand_sign(r.fs3_value)
           sd == Cov!get_fp_operand_sign(r.fd_value)
<1>1. Cov!FpPreSample(r) = [r EXCEPT !.fs1_sign = s1, !.fs2_sign = s2, !.fs3_sign = s3,
                                     !.fd_sign = sd]
  BY DEF Cov!FpPreSample
<1> HIDE DEF s1, s2, s3, sd
<1> QED BY <1>1 DEF Holds, Kept, SameFp

LEMMA FpSrcUpdated ==
  ASSUME NEW r, Holds(r), NEW ops, NEW s, r.format \in {"I", "S", "R", "R4"}
  PROVE  LET u == Cov!FpUpdateSrc(r, ops, s)
         IN  /\ Kept(u, r)
             /\ r.format = "I" /\ r.has_fs1 /\ ops[2][1] = "f" =>
                  /\ u.fs1 = Cov!riscv_fpr_t[ops[2][2]]
                  /\ u.fs1_value = Cov!get_gpr_state(s, ops[2][2])
             /\ r.format = "R4" /\ ops[2][1] = "f" /\ ops[3][1] = "f" =>
                  /\ u.fs1 = Cov!riscv_fpr_t[ops[2][2]]
                  /\ u.fs1_value = Cov!get_gpr_state(s, ops[2][2])
                  /\ u.fs2 = Cov!riscv_fpr_t[ops[3][2]]
                  /\ u.fs2_value = Cov!get_gpr_state(s, ops[3][2])
<1> DEFINE u == Cov!FpUpdateSrc(r, ops, s)
<1>1. CASE r.format = "I" /\ r.has_fs1
  <2>1. u = Cov!Take(r, "fs1", "fs1_value", ops, 2, s)
    BY <1>1 DEF Cov!FpUpdateSrc, Cov!FpPseudo
  <2> HIDE DEF u
  <2>2. /\ Kept(u, r) /\ u.fs1_value = Cov!get_gpr_state(s, ops[2][2])
        /\ ops[2][1] = "f" => u.fs1 = Cov!riscv_fpr_t[ops[2][2]]
    BY <2>1, FpTakes DEF Kept
  <2> QED BY <1>1, <2>2 DEF u
<1>2. CASE r.format = "I" /\ ~r.has_fs1
  <2>1. u = Cov!Take(r, "rs1", "rs1_value", ops, 2, s)
    BY <1>2 DEF Cov!FpUpdateSrc, Cov!FpPseudo
  <2> HIDE DEF u
  <2>2. Kept(u, r)
    BY <2>1, FpTakes DEF Kept
  <2> QED BY <1>2, <2>2 DEF u
<1>3. CASE r.format = "S"
  <2> DEFINE v == Cov!Take(r, "fs2", "fs2_value", ops, 1, s)
             w == Cov!Take(v, "rs1", "rs1_value", ops, 2, s)
             o == ops[3][2]
  <2>1. u = [w EXCEPT !.imm = o]
    BY <1>3 DEF Cov!FpUpdateSrc, Cov!FpPseudo
  <2> HIDE DEF u, o, w
  <2>2. Kept(v, r)
    BY FpTakes DEF Kept
  <2> HIDE DEF v
  <2>3. Kept(w, v)
    BY <2>2, FpTakes DEF Kept, w
  <2>4. Kept(u, r)
    BY <2>1, <2>2, <2>3 DEF Kept, Holds
  <2> QED BY <1>3, <2>4 DEF u
<1>4. CASE r.format = "R"
  <2>1. CASE Cov!FpPseudo(r, ops)
    <3> DEFINE v == Cov!Take(r, "fs1", "fs1_value", ops, 2, s)
    <3>1. u = Cov!Take(v, "fs2", "fs2_value", ops, 1, s)
      BY <1>4, <2>1 DEF Cov!FpUpdateSrc
    <3> HIDE DEF u
    <3>2. Kept(v, r)
      BY FpTakes DEF Kept
    <3> HIDE DEF v
    <3>3. Kept(u, r)
      BY <3>1, <3>2, FpTakes DEF Kept
    <3> QED BY <1>4, <3>3 DEF u
  <2>2. CASE ~Cov!FpPseudo(r, ops)
    <3>1. u = r
      BY <1>4, <2>2 DEF Cov!FpUpdateSrc
    <3> HIDE DEF u
    <3>2. Kept(u, r)
      BY <3>1 DEF Kept
    <3> QED BY <1>4, <3>2 DEF u
  <2> QED BY <2>1, <2>2
<1>5. CASE r.format = "R4"
  <2> DEFINE v == Cov!Take(r, "fs1", "fs1_value", ops, 2, s)
             w == Cov!Take(v, "fs2", "fs2_value", ops, 3, s)
  <2>1. u = Cov!Take(w, "fs3", "fs3_value", ops, 4, s)
    BY <1>5 DEF Cov!FpUpdateSrc, Cov!FpPseudo
  <2> HIDE DEF u, w
  <2>2. /\ Kept(v, r) /\ v.fs1_value = Cov!get_gpr_state(s, ops[2][2])
        /\ ops[2][1] = "f" => v.fs1 = Cov!riscv_fpr_t[ops[2][2]]
    BY FpTakes DEF Kept
  <2> HIDE DEF v
  <2>3. /\ Kept(w, v) /\ w.fs1 = v.fs1 /\ w.fs1_value = v.fs1_value
        /\ w.fs2_value = Cov!get_gpr_state(s, ops[3][2])
        /\ ops[3][1] = "f" => w.fs2 = Cov!riscv_fpr_t[ops[3][2]]
    BY <2>2, FpTakes DEF Kept, w
  <2>4. Kept(u, w) /\ SameFp(u, w)
    BY <2>1, <2>3, FpTakes DEF Kept, SameFp
  <2> QED BY <1>5, <2>2, <2>3, <2>4 DEF u, Kept, SameFp
<1> QED BY <1>1, <1>2, <1>3, <1>4, <1>5

LEMMA FloatSampled ==
  ASSUME NEW m, m.name \in Cov!NamesWithAttr, OperandsOfFormat(m), Cov!Readable(m),
         Cov!get_attr_list(m.name).group \in FloatGroup
  PROVE  LET q == Cov!Classified(Cov!AssignTraceInfo(m))
         IN  /\ Attributed(m, q) /\ q.category # "LOAD"
             /\ q.category = "STORE" => trace.order # "imm_base"
             /\ q.format \in {"I", "R4"} =>
                  /\ Cov!IsFpr(m.rs1) =>
                       /\ q.fs1 = Cov!riscv_fpr_t[m.rs1]
                       /\ q.fs1_value = Cov!get_gpr_state(gpr_state, m.rs1)
                  /\ m.rs2 # Cov!Absent =>
                       /\ q.fs2 = Cov!riscv_fpr_t[m.rs2]
                       /\ q.fs2_value = Cov!get_gpr_state(gpr_state, m.rs2)
<1> DEFINE at == Cov!get_attr_list(m.name)
           r == Cov!assign_attributes(m.name)
           ops == Cov!Asm(m)
           w == Cov!FpUpdateSrc(r, ops, gpr_state)
           u == Cov!AssignTraceInfo(m)
           Sources(z) ==
             z.format \in {"I", "R4"} =>
                  /\ Cov!IsFpr(m.rs1) =>
                       /\ z.fs1 = Cov!riscv_fpr_t[m.rs1]
                       /\ z.fs1_value = Cov!get_gpr_state(gpr_state, m.rs1)
                  /\ m.rs2 # Cov!Absent =>
                       /\ z.fs2 = Cov!riscv_fpr_t[m.rs2]
                       /\ z.fs2_value = Cov!get_gpr_state(gpr_state, m.rs2)
<1>1. /\ Holds(r) /\ r.instr = m.name /\ r.format = at.format /\ r.category = at.category
      /\ r.group = at.group /\ r.lsu_hazard = 0
      /\ at.format = "I" => r.has_fs1 = ~(/\ at.group \in {"RV32F", "RV32D"}
                                          /\ at.category # "LOAD"
                                          /\ m.name \in Cov!FpFromGpr)
  BY NewRecord DEF Cov!assign_attributes
<1>2. Shape(at, m.name) /\ <<at.format, at.category>> \in FloatShapes
  BY AttributesAre DEF Shape, CompressedGroup, FloatGroup
<1>3. m.name \notin Cov!NoOperands
  BY <1>2 DEF Shape
<1>4. Cov!FpSrcReadable(r, ops) /\ ops = Cov!Operands(m, at)
  BY <1>1, <1>3 DEF Cov!Readable, Cov!HasReadable, Cov!IsFp, FloatGroup, Cov!Asm
<1>5. u = Cov!WithUpdates(w, m)
  BY <1>1, <1>3 DEF Cov!AssignTraceInfo, Cov!WithSources, Cov!IsFp, FloatGroup
<1> HIDE DEF r, ops, at
<1>6. at.category # "LOAD"
  <2> SUFFICES ASSUME at.category = "LOAD" PROVE FALSE
    OBVIOUS
  <2>1. at.format = "I" /\ r.has_fs1
    BY <1>1, <1>2 DEF FloatShapes
  <2>2. Cov!Is(ops, 2, "f")
    BY <1>1, <1>4, <2>1 DEF Cov!FpSrcReadable
  <2>3. \/ ops = Cov!Mem(m, m.rd) \/ ops = Cov!Mem(m, m.rs2)
    BY <1>2, <1>3, <1>4, <2>1 DEF Cov!Operands, Shape, FloatGroup
  <2>4. ~Cov!IsFpr(m.rs1)
    BY DEF OperandsOfFormat, Integers, Cov!IsFpr, at
  <2> QED BY <2>2, <2>3, <2>4 DEF Cov!Is, Cov!Mem, Cov!Reg, Cov!Imm, Cov!StackPointer
<1>7. at.category = "STORE" => trace.order # "imm_base"
  <2> SUFFICES ASSUME at.category = "STORE", trace.order = "imm_base" PROVE FALSE
    OBVIOUS
  <2>1. at.format = "S"
    BY <1>2 DEF FloatShapes
  <2>2. Cov!Is(ops, 2, "x")
    BY <1>1, <1>4, <2>1 DEF Cov!FpSrcReadable
  <2>3. ops = Cov!Mem(m, m.rs2)
    BY <1>2, <1>3, <1>4, <2>1 DEF Cov!Operands, Shape, FloatGroup
  <2> QED BY <2>2, <2>3 DEF Cov!Is, Cov!Mem, Cov!Reg, Cov!Imm, Cov!StackPointer
<1>8. Kept(w, r) /\ Sources(w)
  <2>1. r.format \in {"I", "S", "R", "R4"}
    BY <1>1, <1>2 DEF FloatShapes
  <2>2. /\ Kept(w, r)
        /\ r.format = "I" /\ r.has_fs1 /\ ops[2][1] = "f" =>
             /\ w.fs1 = Cov!riscv_fpr_t[ops[2][2]]
             /\ w.fs1_value = Cov!get_gpr_state(gpr_state, ops[2][2])
        /\ r.format = "R4" /\ ops[2][1] = "f" /\ ops[3][1] = "f" =>
             /\ w.fs1 = Cov!riscv_fpr_t[ops[2][2]]
             /\ w.fs1_value = Cov!get_gpr_state(gpr_state, ops[2][2])
             /\ w.fs2 = Cov!riscv_fpr_t[ops[3][2]]
             /\ w.fs2_value = Cov!get_gpr_state(gpr_state, ops[3][2])
    BY <1>1, <2>1, FpSrcUpdated
  <2> HIDE DEF w
  <2>3. CASE r.format = "I"
    <3>1. at.category = "ARITHMETIC" /\ m.rs2 = Cov!Absent
      BY <1>1, <1>2, <1>6, <2>3 DEF FloatShapes, OperandsOfFormat, at, Shape
    <3>2. ops = <<Cov!Reg(m.rd), Cov!Reg(m.rs1)>>
      BY <1>1, <1>2, <1>3, <1>4, <2>3, <3>1 DEF Cov!Operands, FloatGroup, Shape, at
    <3>3. IF r.has_fs1 THEN Cov!Is(ops, 2, "f") ELSE Cov!Is(ops, 2, "x")
      BY <1>1, <1>4, <2>3 DEF Cov!FpSrcReadable
    <3> QED BY <1>1, <2>2, <2>3, <3>1, <3>2, <3>3
            DEF Kept, Cov!Is, Cov!StackPointer, Cov!Reg
  <2>4. CASE r.format = "R4"
    <3>1. at.category = "ARITHMETIC"
      BY <1>1, <1>2, <2>4 DEF FloatShapes
    <3>2. ops = <<Cov!Reg(m.rd), Cov!Reg(m.rs1), Cov!Reg(m.rs2), Cov!Reg(m.rs3)>>
      BY <1>1, <1>2, <1>3, <1>4, <2>4, <3>1 DEF Cov!Operands, FloatGroup, Shape
    <3>3. Cov!Is(ops, 2, "f") /\ Cov!Is(ops, 3, "f")
      BY <1>1, <1>4, <2>4 DEF Cov!FpSrcReadable
    <3> QED BY <2>2, <2>4, <3>2, <3>3 DEF Kept, Cov!Is, Cov!StackPointer, Cov!Reg
  <2>5. CASE r.format \notin {"I", "R4"}
    BY <2>2, <2>5 DEF Kept
  <2> QED BY <2>3, <2>4, <2>5
<1> HIDE DEF w
<1>9. Kept(u, r) /\ Sources(u)
  <2> HIDE DEF u
  <2>1. CASE Cov!Writes(m) = {}
    BY <1>5, <1>8, <2>1 DEF Cov!WithUpdates
  <2>2. CASE Cov!Writes(m) # {}
    <3>1. u = Cov!FpUpdateDst(w, m.rd, m.val)
      BY <1>1, <1>5, <1>8, <2>2 DEF Cov!WithUpdates, Cov!IsFp, Kept, FloatGroup, at
    <3>2. Kept(u, w) /\ SameFp(u, w)
      BY <1>8, <3>1, FpDstUpdated DEF Kept
    <3> QED BY <1>8, <3>2 DEF Kept, SameFp
  <2> QED BY <2>1, <2>2
<1> DEFINE q == Cov!FpPreSample(u)
<1>10. Cov!Classified(u) = q
  BY <1>1, <1>9 DEF Cov!Classified, Cov!IsFp, Kept, FloatGroup, at
<1> HIDE DEF u
<1>11. Kept(q, u) /\ SameFp(q, u)
  BY <1>9, FpPresampled DEF Kept
<1> HIDE DEF q
<1>12. Kept(q, r) /\ Sources(q)
  BY <1>9, <1>11 DEF Kept, SameFp
<1>13. Attributed(m, q)
  BY <1>1, <1>12 DEF Attributed, Kept, at
<1> QED BY <1>1, <1>6, <1>7, <1>10, <1>12, <1>13 DEF Kept, u

-----------------------------------------------------------------------------
(* What a sampled record says of its row l, in a trace of that order.       *)
Exact(q, l, order) ==
  LET m  == l.m
      at == Cov!get_attr_list(m.name)
  IN  /\ q.format = at.format /\ q.category = at.category /\ q.group = at.group
      /\ at.group \notin FloatGroup =>
           /\ m.rs1 # Cov!Absent =>
                /\ q.rs1 = Cov!riscv_reg_t[m.rs1]
                /\ Cov!Knows(l, m.rs1) => /\ q.rs1_value = l.x[m.rs1]
                                          /\ (q.rs1_sign = 1) = (l.x[m.rs1] >= Cov!MinValue)
           /\ m.rs2 # Cov!Absent =>
                /\ q.rs2 = Cov!riscv_reg_t[m.rs2]
                /\ Cov!Knows(l, m.rs2) => q.rs2_value = l.x[m.rs2]
           /\ m.rd \notin {Cov!Absent, "ZERO"} =>
                /\ q.rd = Cov!riscv_reg_t[m.rd] /\ q.rd_value = m.val
                /\ (q.rd_sign = 1) = (m.val >= Cov!MinValue)
           /\ q.imm = m.imm
           /\ m.name \in Cov!Divisions /\ Cov!Knows(l, m.rs2) =>
                (q.div_result = Cov!div_result_e["DIV_BY_ZERO"]) = (l.x[m.rs2] = 0)
      /\ at.group \in FloatGroup /\ q.format \in {"I", "R4"} =>
           /\ Cov!IsFpr(m.rs1) =>
                /\ q.fs1 = Cov!riscv_fpr_t[m.rs1]
                /\ Cov!Knows(l, m.rs1) => q.fs1_value = l.x[m.rs1]
           /\ m.rs2 # Cov!Absent =>
                /\ q.fs2 = Cov!riscv_fpr_t[m.rs2]
                /\ Cov!Knows(l, m.rs2) => q.fs2_value = l.x[m.rs2]
      /\ /\ m.name \in {"BEQ", "BNE", "BLTU", "BGEU"}
         /\ Cov!Knows(l, m.rs1) /\ Cov!Knows(l, m.rs2)
         => (q.branch_hit = 1) = Cov!Outcome(m.name, l.x[m.rs1], l.x[m.rs2])
      /\ at.category \in {"LOAD", "STORE"} =>
           IF at.group \in FloatGroup THEN ~Cov!Accesses(l) /\ order # "imm_base"
           ELSE /\ order = "imm_base"
                /\ Cov!Knows(l, m.rs1) => q.mem_addr = Cov!Addr(l)
Registers ==
  /\ x["ZERO"] = 0
  /\ \A r \in TraceRegs : Integers(r) => x[r] \in Int
SampledInv ==
  /\ CovInv /\ Registers
  /\ instr_cnt \in Nat /\ (instr_cnt = 0 <=> seen.last = <<>>)
  /\ Cov!Sampled1 => Exact(pre_instr, Cov!Last, trace.order)
  /\ Cov!LsuHazardExact

(* The values the record has are those of the program.                      *)
LEMMA KnownValue ==
  ASSUME CovInv, Registers, NEW r, r = "ZERO" \/ r \in seen.known
  PROVE  /\ Cov!get_gpr_state(gpr_state, r) = x[r] /\ r \in TraceRegs
         /\ r # Cov!Absent
<1>1. r \in TraceRegs /\ "ZERO" \in TraceRegs /\ DOMAIN x = TraceRegs
  BY RowAssumption DEF CovInv, CovTypes
<1> QED BY <1>1, RowAssumption DEF CovInv, Registers, Cov!get_gpr_state, Cov!StateTracksProgram

LEMMA Signs ==
  ASSUME NEW s, NEW v, s = Cov!get_operand_sign(v)
  PROVE  (s = 1) = (v >= Cov!MinValue)
BY HazardValues DEF Cov!get_operand_sign

LEMMA DivisionByZero ==
  ASSUME NEW q, q.div_result = Cov!get_div_result(q)
  PROVE  (q.div_result = Cov!div_result_e["DIV_BY_ZERO"]) = (q.rs2_value = 0)
<1>1. CASE q.rs2_value = 0
  BY <1>1, HazardValues DEF Cov!get_div_result
<1>2. CASE q.rs2_value # 0
  BY <1>2, HazardValues DEF Cov!get_div_result
<1> QED BY <1>1, <1>2

LEMMA BranchTaken ==
  ASSUME NEW q, q.branch_hit = Cov!is_branch_hit(q),
         q.instr \in {"BEQ", "BNE", "BLTU", "BGEU"}, q.rs1_value \in Int, q.rs2_value \in Int
  PROVE  (q.branch_hit = 1) = Cov!Outcome(q.instr, q.rs1_value, q.rs2_value)
<1>1. CASE q.instr = "BEQ"
  BY <1>1 DEF Cov!is_branch_hit, Cov!Outcome
<1>2. CASE q.instr = "BNE"
  BY <1>2 DEF Cov!is_branch_hit, Cov!Outcome
<1>3. CASE q.instr = "BLTU"
  BY <1>3 DEF Cov!is_branch_hit, Cov!Outcome
<1>4. CASE q.instr = "BGEU"
  BY <1>4 DEF Cov!is_branch_hit, Cov!Outcome
<1> QED BY <1>1, <1>2, <1>3, <1>4

LEMMA RowExact ==
  ASSUME CovInv, Registers, NEW m \in trace.instrs, m.name \in Cov!NamesWithAttr,
         Cov!Readable(m)
  PROVE  LET q == Cov!Classified(Cov!AssignTraceInfo(m))
         IN  /\ Exact(q, [m |-> m, x |-> x, known |-> seen.known], trace.order)
             /\ Holds(q) /\ q.lsu_hazard = 0
<1> DEFINE q  == Cov!Classified(Cov!AssignTraceInfo(m))
           l  == [m |-> m, x |-> x, known |-> seen.known]
           at == Cov!get_attr_list(m.name)
<1>1. /\ OperandsOfFormat(m) /\ m.rd \in TraceRegs \cup {Cov!Absent}
      /\ m.name \in Cov!NoOperands => m.rd \notin TraceRegs \ {"ZERO"}
  BY RowAssumption, OperandAssumption DEF CovInv, Cov!NoOperands
<1>2. l.m = m /\ l.x = x /\ l.known = seen.known
  OBVIOUS
<1>3. Shape(at, m.name)
  BY AttributesAre
<1> HIDE DEF l
<1>4. \A r : Cov!Knows(l, r) =>
        Cov!get_gpr_state(gpr_state, r) = x[r] /\ r \in TraceRegs /\ r # Cov!Absent
  BY <1>2, KnownValue DEF Cov!Knows
<1>5. CASE at.group \notin FloatGroup
  <2>1. /\ Attributed(m, q) /\ IntegerFacts(m, gpr_state, q) /\ Classed(q)
        /\ m.rd \notin {Cov!Absent, "ZERO"} =>
             q.rd = Cov!riscv_reg_t[m.rd] /\ q.rd_value = m.val
        /\ q.category \in {"LOAD", "STORE"} => trace.order = "imm_base"
    BY <1>1, <1>5, IntegerSampled
  <2> HIDE DEF q
  <2>2. /\ Holds(q) /\ q.lsu_hazard = 0 /\ q.instr = m.name
        /\ q.format = at.format /\ q.category = at.category /\ q.group = at.group
    BY <2>1 DEF Attributed
  <2> HIDE DEF at
  <2>3. m.rs1 # Cov!Absent =>
          /\ q.rs1 = Cov!riscv_reg_t[m.rs1]
          /\ Cov!Knows(l, m.rs1) => /\ q.rs1_value = l.x[m.rs1]
                                    /\ (q.rs1_sign = 1) = (l.x[m.rs1] >= Cov!MinValue)
    <3>1. m.rs1 # Cov!Absent /\ Cov!Knows(l, m.rs1) => q.rs1_value = l.x[m.rs1]
      BY <1>2, <1>4, <2>1 DEF IntegerFacts
    <3>2. (q.rs1_sign = 1) = (q.rs1_value >= Cov!MinValue)
      BY <2>1, Signs DEF Classed
    <3> QED BY <2>1, <3>1, <3>2 DEF IntegerFacts
  <2>4. m.rs2 # Cov!Absent =>
          /\ q.rs2 = Cov!riscv_reg_t[m.rs2]
          /\ Cov!Knows(l, m.rs2) => q.rs2_value = l.x[m.rs2]
    BY <1>2, <1>4, <2>1 DEF IntegerFacts
  <2>5. m.rd \notin {Cov!Absent, "ZERO"} =>
          /\ q.rd = Cov!riscv_reg_t[m.rd] /\ q.rd_value = m.val
          /\ (q.rd_sign = 1) = (m.val >= Cov!MinValue)
    <3>1. (q.rd_sign = 1) = (q.rd_value >= Cov!MinValue)
      BY <2>1, Signs DEF Classed
    <3> QED BY <2>1, <3>1
  <2>6. m.name \in Cov!Divisions /\ Cov!Knows(l, m.rs2) =>
          (q.div_result = Cov!div_result_e["DIV_BY_ZERO"]) = (l.x[m.rs2] = 0)
    <3> SUFFICES ASSUME m.name \in Cov!Divisions, Cov!Knows(l, m.rs2)
                 PROVE  (q.div_result = Cov!div_result_e["DIV_BY_ZERO"]) = (l.x[m.rs2] = 0)
      OBVIOUS
    <3>1. q.div_result = Cov!get_div_result(q)
      BY <2>1, <2>2 DEF Classed
    <3>2. q.rs2_value = l.x[m.rs2]
      BY <1>4, <2>4
    <3> QED BY <3>1, <3>2, DivisionByZero
  <2>7. /\ m.name \in {"BEQ", "BNE", "BLTU", "BGEU"}
        /\ Cov!Knows(l, m.rs1) /\ Cov!Knows(l, m.rs2)
        => (q.branch_hit = 1) = Cov!Outcome(m.name, l.x[m.rs1], l.x[m.rs2])
    <3> SUFFICES ASSUME m.name \in {"BEQ", "BNE", "BLTU", "BGEU"},
                        Cov!Knows(l, m.rs1), Cov!Knows(l, m.rs2)
                 PROVE  (q.branch_hit = 1) = Cov!Outcome(m.name, l.x[m.rs1], l.x[m.rs2])
      OBVIOUS
    <3>1. q.category = "BRANCH"
      BY <1>3, <1>5, <2>2 DEF Shape, FloatGroup, BaseShapes, CompressedShapes
    <3>2. q.branch_hit = Cov!is_branch_hit(q)
      BY <2>1, <3>1 DEF Classed
    <3>3. q.rs1_value = l.x[m.rs1] /\ q.rs2_value = l.x[m.rs2]
      BY <1>4, <2>3, <2>4
    <3>4. Integers(m.rs1) /\ Integers(m.rs2)
      BY <1>1, <1>5 DEF OperandsOfFormat, at, FloatGroup
    <3>5. l.x[m.rs1] \in Int /\ l.x[m.rs2] \in Int
      BY <1>2, <1>4, <3>4 DEF Registers
    <3> QED BY <2>2, <3>2, <3>3, <3>5, BranchTaken
  <2>8. at.category \in {"LOAD", "STORE"} =>
          trace.order = "imm_base" /\ (Cov!Knows(l, m.rs1) => q.mem_addr = Cov!Addr(l))
    BY <1>2, <1>4, <2>1, <2>2, <2>3 DEF Classed, Cov!Addr, IntegerFacts
  <2>9. Exact(q, l, trace.order)
    BY <1>2, <1>5, <2>1, <2>2, <2>3, <2>4, <2>5, <2>6, <2>7, <2>8 DEF Exact, IntegerFacts, at
  <2> QED BY <2>2, <2>9 DEF q, l
<1>6. CASE at.group \in FloatGroup
  <2>1. /\ Attributed(m, q) /\ q.category # "LOAD"
        /\ q.category = "STORE" => trace.order # "imm_base"
        /\ q.format \in {"I", "R4"} =>
             /\ Cov!IsFpr(m.rs1) =>
                  /\ q.fs1 = Cov!riscv_fpr_t[m.rs1]
                  /\ q.fs1_value = Cov!get_gpr_state(gpr_state, m.rs1)
             /\ m.rs2 # Cov!Absent =>
                  /\ q.fs2 = Cov!riscv_fpr_t[m.rs2]
                  /\ q.fs2_value = Cov!get_gpr_state(gpr_state, m.rs2)
    BY <1>1, <1>6, FloatSampled
  <2> HIDE DEF q
  <2>2. /\ Holds(q) /\ q.lsu_hazard = 0 /\ q.instr = m.name
        /\ q.format = at.format /\ q.category = at.category /\ q.group = at.group
    BY <2>1 DEF Attributed
  <2>3. at.category = "STORE" => at.group = "RV32F"
    BY <1>3, <1>6 DEF Shape, FloatGroup, CompressedGroup, FloatShapes
  <2>4. m.name \notin {"BEQ", "BNE", "BLTU", "BGEU"}
    BY <1>3, <1>6 DEF Shape, FloatGroup, CompressedGroup, FloatShapes
  <2> HIDE DEF at
  <2>5. at.category \in {"LOAD", "STORE"} => ~Cov!Accesses(l) /\ trace.order # "imm_base"
    BY <1>2, <2>1, <2>2, <2>3 DEF Cov!Accesses, at
  <2>6. Exact(q, l, trace.order)
    BY <1>2, <1>4, <1>6, <2>1, <2>2, <2>4, <2>5 DEF Exact, at
  <2> QED BY <2>2, <2>6 DEF q, l
<1> QED BY <1>5, <1>6

(* A row, whether sampled or not, and the registers.                        *)
LEMMA ExecutesRegisters ==
  ASSUME CovInv, Registers, NEW m \in trace.instrs, Cov!Executes(m)
  PROVE  Registers'
<1>1. m.rd \in TraceRegs => (Integers(m.rd) => m.val \in Int)
  BY RowAssumption DEF CovInv
<1>2. \A r : x'[r] = IF m.rd \in TraceRegs \ {"ZERO"} /\ r = m.rd /\ r \in DOMAIN x
                     THEN m.val ELSE x[r]
  BY DEF Cov!Executes
<1> QED BY <1>1, <1>2 DEF Registers

(* A step that samples nothing.                                             *)
LEMMA SampleKept ==
  ASSUME SampledInv, CovInv', Registers', UNCHANGED <<trace, pre_instr, instr_cnt>>,
         seen'.last = seen.last, seen'.before = seen.before
  PROVE  SampledInv'
BY DEF SampledInv, Cov!Sampled1, Cov!Last, Cov!Before, Cov!LsuHazardExact

LEMMA HazardsExact ==
  ASSUME NEW q, Holds(q), NEW l, NEW order, Exact(q, l, order), NEW p
  PROVE  Exact(Cov!check_hazard_condition(q, p), l, order)
<1> DEFINE u == Cov!check_hazard_condition(q, p)
<1>1. /\ u.instr = q.instr /\ u.format = q.format
      /\ u.category = q.category /\ u.group = q.group
      /\ u.rs1 = q.rs1 /\ u.rs2 = q.rs2 /\ u.imm = q.imm
      /\ u.rd = q.rd /\ u.rs1_value = q.rs1_value
      /\ u.rs2_value = q.rs2_value /\ u.rd_value = q.rd_value
      /\ u.mem_addr = q.mem_addr /\ u.rs1_sign = q.rs1_sign
      /\ u.rd_sign = q.rd_sign /\ u.branch_hit = q.branch_hit
      /\ u.div_result = q.div_result /\ u.fs1 = q.fs1
      /\ u.fs1_value = q.fs1_value /\ u.fs2 = q.fs2
      /\ u.fs2_value = q.fs2_value
  BY HazardsChecked
<1> HIDE DEF u
<1>2. Exact(u, l, order)
  BY <1>1 DEF Exact
<1> QED BY <1>2 DEF u

(* The hazard of an access l with the row k sampled before it.              *)
LsuHazardOf(h, l, k) ==
  IF ~Cov!Accesses(k) THEN h = Cov!hazard_e["NO_HAZARD"]
  ELSE Cov!Knows(k, k.m.rs1) =>
         h = Cov!hazard_e[CASE Cov!Addr(l) # Cov!Addr(k) -> "NO_HAZARD"
               [] Cov!Addr(l) = Cov!Addr(k) /\ Cov!Kind(l) = "LOAD" ->
                    IF Cov!Kind(k) = "STORE" THEN "RAW_HAZARD" ELSE "NO_HAZARD"
               [] Cov!Addr(l) = Cov!Addr(k) /\ Cov!Kind(l) = "STORE" ->
                    IF Cov!Kind(k) = "STORE" THEN "WAW_HAZARD" ELSE "WAR_HAZARD"]
LEMMA LsuExact ==
  ASSUME NEW q, NEW l, NEW p, NEW k, NEW order, Exact(q, l, order), Exact(p, k, order),
         Cov!Accesses(l), Cov!Knows(l, l.m.rs1)
  PROVE  LsuHazardOf(Cov!LsuHazard(q, p), l, k)
<1>1. /\ q.category = Cov!Kind(l) /\ q.category \in {"LOAD", "STORE"}
      /\ order = "imm_base" /\ q.mem_addr = Cov!Addr(l)
  BY DEF Exact, Cov!Accesses, Cov!Kind
<1>2. /\ p.category = Cov!Kind(k)
      /\ p.category \in {"LOAD", "STORE"} => Cov!Accesses(k)
      /\ Cov!Accesses(k) /\ Cov!Knows(k, k.m.rs1) => p.mem_addr = Cov!Addr(k)
      /\ Cov!Accesses(k) => p.category \in {"LOAD", "STORE"}
  BY <1>1 DEF Exact, Cov!Accesses, Cov!Kind, FloatGroup
<1>3. CASE ~Cov!Accesses(k)
  BY <1>1, <1>2, <1>3 DEF Cov!LsuHazard, LsuHazardOf
<1>4. CASE Cov!Accesses(k) /\ Cov!Knows(k, k.m.rs1)
  <2>1. CASE Cov!Addr(l) # Cov!Addr(k)
    BY <1>1, <1>2, <1>4, <2>1 DEF Cov!LsuHazard, LsuHazardOf
  <2>2. CASE Cov!Addr(l) = Cov!Addr(k) /\ q.category = "LOAD"
    BY <1>1, <1>2, <1>4, <2>2 DEF Cov!LsuHazard, LsuHazardOf
  <2>3. CASE Cov!Addr(l) = Cov!Addr(k) /\ q.category = "STORE"
    BY <1>1, <1>2, <1>4, <2>3 DEF Cov!LsuHazard, LsuHazardOf
  <2> QED BY <1>1, <2>1, <2>2, <2>3
<1> QED BY <1>3, <1>4 DEF LsuHazardOf

LEMMA SampledExact ==
  ASSUME SampledInv, NEW m \in trace.instrs, Cov!SampledRow(m)
  PROVE  SampledInv'
<1> DEFINE q == Cov!Classified(Cov!AssignTraceInfo(m))
           l == [m |-> m, x |-> x, known |-> seen.known]
<1>1. /\ Cov!Executes(m) /\ Cov!Readable(m) /\ m.name \in Cov!NamesWithAttr
      /\ instr_cnt' = instr_cnt + 1 /\ trace' = trace
      /\ pre_instr' = IF instr_cnt' > 1 THEN Cov!check_hazard_condition(q, pre_instr) ELSE q
  BY DEF Cov!SampledRow, Cov!WithHazards, Cov!InSupportedGroup, Cov!Executes
<1>2. seen'.last = <<l>> /\ seen'.before = seen.last
  <2> DEFINE known == seen.known \cup Cov!Writes(m)
             row == <<l>>
  <2>1. seen' = [seen EXCEPT !.known = known, !.last = row, !.before = seen.last]
    BY DEF Cov!SampledRow
  <2> HIDE DEF known, row
  <2>2. seen'.last = row /\ seen'.before = seen.last
    BY <2>1 DEF SampledInv, CovInv, CovTypes
  <2> QED BY <2>2 DEF row
<1>3. CovInv' /\ Registers'
  BY <1>1, SampledKeeps, ExecutesRegisters DEF SampledInv
<1>4. Exact(q, l, trace.order) /\ Holds(q) /\ q.lsu_hazard = 0
  BY <1>1, RowExact DEF SampledInv
<1> HIDE DEF q, l
<1>5. /\ Cov!Sampled1' /\ Cov!Last' = l
      /\ instr_cnt' \in Nat /\ instr_cnt' # 0
  BY <1>1, <1>2 DEF Cov!Sampled1, Cov!Last, SampledInv
<1>6. CASE seen.last = <<>>
  <2>1. pre_instr' = q
    BY <1>1, <1>6 DEF SampledInv
  <2>2. Cov!LsuHazardExact'
    BY <1>2, <1>4, <1>6, <2>1, HazardValues DEF Cov!LsuHazardExact
  <2> QED BY <1>1, <1>2, <1>3, <1>4, <1>5, <2>1, <2>2 DEF SampledInv
<1>7. CASE seen.last # <<>>
  <2> DEFINE u == Cov!check_hazard_condition(q, pre_instr)
             k == seen.last[1]
  <2>1. pre_instr' = u
    BY <1>1, <1>7 DEF SampledInv
  <2>2. Exact(u, l, trace.order)
    BY <1>4, HazardsExact
  <2>3. u.lsu_hazard = IF q.category \in {"LOAD", "STORE"}
                       THEN Cov!LsuHazard(q, pre_instr) ELSE q.lsu_hazard
    BY <1>4, HazardsChecked
  <2>4. Exact(pre_instr, k, trace.order) /\ Cov!Before' = k /\ seen'.before # <<>>
    BY <1>2, <1>7 DEF SampledInv, Cov!Sampled1, Cov!Last, Cov!Before
  <2>5. q.category = Cov!Kind(l)
    BY <1>4 DEF Exact, Cov!Kind
  <2> HIDE DEF u, k
  <2>6. Cov!LsuHazardExact'
    <3> SUFFICES ASSUME Cov!Accesses(l), Cov!Knows(l, l.m.rs1)
                 PROVE  Cov!LsuHazardExact'
      BY <1>5 DEF Cov!LsuHazardExact
    <3>1. pre_instr'.lsu_hazard = Cov!LsuHazard(q, pre_instr)
      BY <2>1, <2>3, <2>5 DEF Cov!Accesses
    <3>2. LsuHazardOf(Cov!LsuHazard(q, pre_instr), l, k)
      BY <1>4, <2>4, LsuExact
    <3> QED BY <1>5, <2>4, <3>1, <3>2 DEF Cov!LsuHazardExact, LsuHazardOf
  <2> QED BY <1>1, <1>2, <1>3, <1>5, <2>1, <2>2, <2>6 DEF SampledInv
<1> QED BY <1>6, <1>7

LEMMA SampledNext == ASSUME SampledInv, Cov!Next PROVE SampledInv'
<1>1. CovInv'
  BY CovNext DEF SampledInv
<1>2. CASE Cov!OpenFile
  <2>1. /\ instr_cnt' = 0 /\ x' = [r \in TraceRegs |-> Cov!Blank(r)]
        /\ seen'.last = <<>>
    BY <1>2 DEF Cov!OpenFile, Cov!Nothing
  <2>2. Registers'
    BY <2>1, ZeroInteger, RowAssumption DEF Registers, Cov!Blank, Cov!IsFpr, Integers
  <2> QED BY <1>1, <2>1, <2>2 DEF SampledInv, Cov!Sampled1, Cov!LsuHazardExact
<1>3. ASSUME NEW m \in trace.instrs, NEW silent, Cov!Executes(m), Cov!Unsampled(m, silent),
             UNCHANGED <<pre_instr, instr_cnt>>
      PROVE  SampledInv'
  <2> DEFINE known == seen.known \ Cov!Writes(m)
             sum == seen.silent + silent
  <2>1. seen' = [seen EXCEPT !.known = known, !.silent = sum]
    BY <1>3 DEF Cov!Unsampled
  <2> HIDE DEF known, sum
  <2>2. seen'.last = seen.last /\ seen'.before = seen.before
    BY <2>1 DEF SampledInv, CovInv, CovTypes
  <2>3. Registers' /\ trace' = trace
    BY <1>3, ExecutesRegisters DEF SampledInv, Cov!Executes
  <2> QED BY <1>1, <1>3, <2>2, <2>3, SampleKept
<1>4. ASSUME NEW m \in trace.instrs,
             \/ Cov!MalformedRow(m) \/ Cov!SilentRow(m) \/ Cov!UnknownRow(m)
             \/ Cov!UnsupportedRow(m) \/ Cov!Abort(m)
      PROVE  SampledInv'
  <2>1. \E silent : Cov!Executes(m) /\ Cov!Unsampled(m, silent)
                      /\ UNCHANGED <<pre_instr, instr_cnt>>
    BY <1>4 DEF Cov!MalformedRow, Cov!SilentRow, Cov!UnknownRow, Cov!UnsupportedRow, Cov!Abort
  <2> QED BY <1>3, <2>1
<1>5. CASE Cov!EndFile \/ Cov!Report \/ Cov!Ended
  <2>1. UNCHANGED <<trace, x, pre_instr, instr_cnt, seen>>
    BY <1>5 DEF Cov!EndFile, Cov!Report, Cov!Ended, Cov!vars
  <2>2. Registers'
    BY <2>1 DEF Registers, SampledInv
  <2> QED BY <1>1, <2>1, <2>2, SampleKept
<1> QED BY <1>2, <1>4, <1>5, SampledExact DEF Cov!Next

LEMMA SampledPart ==
  ASSUME part = "cov" => SampledInv, [Next]_vars
  PROVE  (part = "cov" => SampledInv)'
<1>1. CASE CovStep(Cov!Next)
  BY <1>1, SampledNext DEF CovStep
<1>2. CASE CheckStep(Check!Next) \/ LoaderStep(Load!Next) \/ CompareStep(Compare!Next)
             \/ GenerateStep(Generate!Next)
  BY <1>2 DEF CheckStep, LoaderStep, CompareStep, GenerateStep
<1>3. CASE UNCHANGED vars
  <2>1. UNCHANGED <<part, trace, x, pre_instr, instr_cnt, seen>>
    BY <1>3 DEF vars, covVars
  <2>2. (part = "cov" => CovInv)'
    BY CovPart DEF SampledInv
  <2>3. part = "cov" => Registers'
    BY <2>1 DEF Registers, SampledInv
  <2> QED BY <2>1, <2>2, <2>3, SampleKept
<1> QED BY <1>1, <1>2, <1>3 DEF Next

LEMMA SampledSafe ==
  ASSUME SampledInv
  PROVE  /\ Cov!OwnOperands /\ Cov!FpSources /\ Cov!LsuHazardExact
         /\ Cov!BranchOutcome /\ Cov!ValueClasses
<1>1. Cov!Sampled1 => /\ Exact(pre_instr, Cov!Last, trace.order)
                      /\ Cov!IsFp(pre_instr)
                           <=> Cov!get_attr_list(Cov!Last.m.name).group \in FloatGroup
  BY DEF SampledInv, Exact, Cov!IsFp, FloatGroup
<1>2. Cov!OwnOperands
  BY <1>1 DEF Cov!OwnOperands, Exact
<1>3. Cov!FpSources
  BY <1>1 DEF Cov!FpSources, Exact
<1>4. Cov!BranchOutcome
  BY <1>1 DEF Cov!BranchOutcome, Exact
<1>5. Cov!ValueClasses
  BY <1>1 DEF Cov!ValueClasses, Exact
<1> QED BY <1>2, <1>3, <1>4, <1>5 DEF SampledInv

(* Property SampleExact: whatever the traces hold, in whatever order their  *)
(* accesses are written, what is sampled for a row is what the program did  *)
(* in it: its own registers, immediate and result, the values of its        *)
(* sources before its own write, their signs, a division by zero, a branch  *)
(* taken, and the hazard of an access with the one sampled before it in     *)
(* the same trace.                                                          *)
THEOREM SamplesExact == Spec => []SampleExact
<1>1. Init => (part = "cov" => SampledInv)
  <2> SUFFICES ASSUME Cov!Init PROVE SampledInv
    BY DEF Init
  <2>1. /\ seen = [known |-> {}, silent |-> 0, last |-> <<>>, before |-> <<>>]
        /\ entry_cnt = 0 /\ total_entry_cnt = 0 /\ rows = 0 /\ phase = "idle"
        /\ x = [r \in TraceRegs |-> Cov!Blank(r)] /\ gpr_state = x /\ trace \in Traces
        /\ instr_cnt = 0
    BY DEF Cov!Init, Cov!Nothing
  <2>2. CovInv
    BY <2>1 DEF CovInv, CovTypes, Cov!StateTracksProgram, Cov!RowsAccounted
  <2>3. Registers
    BY <2>1, ZeroInteger, RowAssumption DEF Registers, Cov!Blank, Cov!IsFpr, Integers
  <2> QED BY <2>1, <2>2, <2>3 DEF SampledInv, Cov!Sampled1, Cov!LsuHazardExact
<1>2. (part = "cov" => SampledInv) /\ [Next]_vars => (part = "cov" => SampledInv)'
  BY SampledPart
<1>3. (part = "cov" => SampledInv) => SampleExact
  BY SampledSafe DEF SampleExact
<1> QED BY <1>1, <1>2, <1>3, PTL DEF Spec

-----------------------------------------------------------------------------
(* The comparison of traces: the register states a trace goes through.   *)
GprState == [Compare!Regs -> Int]
Row == {<<>>} \cup {<<<<r, v>>>> : r \in Compare!Regs, v \in Int}
Spot == [state : GprState, past : Seq(GprState)]
Moved(row, w) ==
  IF Compare!Changes(row, w.state)
    THEN [state |-> Compare!Updated(row, w.state),
          past |-> Append(w.past, Compare!Updated(row, w.state))]
  ELSE w
Home == [state |-> [r \in Compare!Regs |-> 0], past |-> <<>>]

LEMMA RowParts ==
  ASSUME NEW row \in Row, row # <<>>
  PROVE  row[1][1] \in Compare!Regs /\ row[1][2] \in Int /\ row = <<<<row[1][1], row[1][2]>>>>
<1>1. PICK r \in Compare!Regs, v \in Int : row = <<<<r, v>>>>
  BY DEF Row
<1>2. row[1] = <<r, v>>
  BY <1>1
<1> QED BY <1>1, <1>2

LEMMA UpdatedState ==
  ASSUME NEW row \in Row, NEW s \in GprState PROVE Compare!Updated(row, s) \in GprState
BY RowParts DEF Compare!Updated, GprState

LEMMA MovedSpot ==
  ASSUME NEW row \in Row, NEW w \in Spot PROVE Moved(row, w) \in Spot
<1>1. w.state \in GprState /\ w.past \in Seq(GprState)
  BY DEF Spot
<1>2. Compare!Updated(row, w.state) \in GprState
  BY <1>1, UpdatedState
<1>3. Append(w.past, Compare!Updated(row, w.state)) \in Seq(GprState)
  BY <1>1, <1>2
<1> QED BY <1>2, <1>3 DEF Moved, Spot

LEMMA WalkIs ==
  ASSUME NEW csv \in Seq(Row)
  PROVE  /\ Compare!Walk(csv) \in [0 .. Len(csv) -> Spot]
         /\ Compare!Walk(csv)[0] = Home
         /\ \A k \in 1 .. Len(csv) : Compare!Walk(csv)[k] = Moved(csv[k], Compare!Walk(csv)[k - 1])
<1> DEFINE n == Len(csv)
           Rule(f) == [k \in 0 .. n |-> IF k = 0 THEN Home ELSE Moved(csv[k], f[k - 1])]
           walk == CHOOSE f : f = Rule(f)
           step == [q \in Spot \X (1 .. n) |-> Moved(csv[q[2]], q[1])]
<1>1. Compare!Walk(csv) = walk
  BY DEF Compare!Walk, Moved, Home
<1>2. n \in Nat /\ Home \in Spot
  BY DEF Spot, Home, GprState
<1>3. step \in Steps(n, Spot)
  <2>1. ASSUME NEW q \in Spot \X (1 .. n) PROVE Moved(csv[q[2]], q[1]) \in Spot
    <3>1. csv[q[2]] \in Row /\ q[1] \in Spot
      OBVIOUS
    <3> QED BY <3>1, MovedSpot
  <2> QED BY <2>1 DEF Steps
<1>4. PICK f : Solves(f, n, Spot, Home, step)
  <2> HIDE DEF n, step
  <2> QED BY <1>2, <1>3, Recursion
<1>5. ASSUME NEW k \in 1 .. n PROVE f[k] = Moved(csv[k], f[k - 1])
  BY <1>4 DEF Solves
<1>6. f = Rule(f)
  BY <1>4, <1>5 DEF Solves
<1>7. walk = Rule(walk)
  <2> HIDE DEF Rule
  <2> QED BY <1>6
<1>8. \A k \in 0 .. n : walk[k] = IF k = 0 THEN Home ELSE Moved(csv[k], walk[k - 1])
  <2> HIDE DEF walk
  <2> QED BY <1>7
<1>9. \A k \in 0 .. n : walk[k] \in Spot
  <2> DEFINE S == {k \in 0 .. n : walk[k] \in Spot}
  <2>1. 0 \in S
    BY <1>2, <1>8
  <2>2. ASSUME NEW k \in 1 .. n, k - 1 \in S PROVE k \in S
    <3>1. csv[k] \in Row /\ walk[k - 1] \in Spot /\ walk[k] = Moved(csv[k], walk[k - 1])
      BY <1>8, <2>2
    <3> HIDE DEF walk
    <3> QED BY <3>1, MovedSpot
  <2>3. \A k \in 0 .. n : k \in S
    <3> HIDE DEF S, n
    <3> QED BY <1>2, <2>1, <2>2, Induct
  <2> QED BY <2>3
<1>10. walk \in [0 .. n -> Spot]
  <2> HIDE DEF walk
  <2> QED BY <1>7, <1>9
<1> HIDE DEF walk
<1> QED BY <1>1, <1>2, <1>8, <1>10

Begins(s, t) == Len(s) <= Len(t) /\ \A k \in 1 .. Len(s) : s[k] = t[k]

LEMMA PrefixIs ==
  ASSUME NEW S, NEW s \in Seq(S), NEW t \in Seq(S), Begins(s, t)
  PROVE  Compare!IsPrefix(s, t)
<1>1. Len(s) \in Nat /\ Len(t) \in Nat /\ Len(s) <= Len(t)
  BY DEF Begins
<1>2. PICK first : first = SubSeq(s, 1, Len(s))
  OBVIOUS
<1>3. PICK same : same = SubSeq(t, 1, Len(s))
  OBVIOUS
<1>4. /\ first \in Seq(S) /\ Len(first) = Len(s)
      /\ \A k \in 1 .. Len(s) : first[k] = s[k]
  BY <1>1, <1>2
<1>5. /\ same \in Seq(S) /\ Len(same) = Len(s)
      /\ \A k \in 1 .. Len(s) : same[k] = t[k]
  BY <1>1, <1>3
<1>6. first = same
  BY <1>4, <1>5 DEF Begins
<1> QED BY <1>1, <1>2, <1>3, <1>6 DEF Compare!IsPrefix

LEMMA BeginsOn ==
  ASSUME NEW S, NEW s \in Seq(S), NEW t \in Seq(S), NEW u \in Seq(S),
         Begins(s, t), Begins(t, u)
  PROVE  Begins(s, u)
<1>1. Len(s) \in Nat /\ Len(t) \in Nat /\ Len(u) \in Nat
  OBVIOUS
<1> QED BY <1>1 DEF Begins

LEMMA MovedGrows ==
  ASSUME NEW row \in Row, NEW w \in Spot
  PROVE  Begins(w.past, Moved(row, w).past)
<1>1. w.past \in Seq(GprState) /\ w.state \in GprState
  BY DEF Spot
<1>2. CASE Compare!Changes(row, w.state)
  <2>1. PICK s \in GprState : s = Compare!Updated(row, w.state)
    BY <1>1, UpdatedState
  <2>2. Moved(row, w).past = Append(w.past, s)
    BY <1>2, <2>1 DEF Moved
  <2> QED BY <1>1, <2>1, <2>2 DEF Begins
<1>3. CASE ~Compare!Changes(row, w.state)
  BY <1>1, <1>3 DEF Moved, Begins
<1> QED BY <1>2, <1>3

LEMMA WalkGrows ==
  ASSUME NEW csv \in Seq(Row), NEW m \in 0 .. Len(csv), NEW k \in m .. Len(csv)
  PROVE  Begins(Compare!Walk(csv)[m].past, Compare!Walk(csv)[k].past)
<1> DEFINE n == Len(csv)
           walk == Compare!Walk(csv)
           S == {q \in 0 .. n : q >= m => Begins(walk[m].past, walk[q].past)}
<1>1. /\ n \in Nat /\ m \in 0 .. n /\ k \in m .. n /\ walk \in [0 .. n -> Spot]
      /\ \A q \in 1 .. n : csv[q] \in Row /\ walk[q] = Moved(csv[q], walk[q - 1])
  BY WalkIs
<1> HIDE DEF n, walk
<1>2. \A q \in 0 .. n : walk[q].past \in Seq(GprState) /\ Begins(walk[q].past, walk[q].past)
  BY <1>1 DEF Spot, Begins
<1>3. 0 \in S
  BY <1>1, <1>2
<1>4. ASSUME NEW q \in 1 .. n, q - 1 \in S PROVE q \in S
  <2> SUFFICES ASSUME q >= m PROVE Begins(walk[m].past, walk[q].past)
    BY <1>1
  <2>1. CASE q = m
    BY <1>1, <1>2, <2>1
  <2>2. CASE q # m
    <3>1. Begins(walk[m].past, walk[q - 1].past)
      BY <1>1, <1>4, <2>2
    <3>2. Begins(walk[q - 1].past, walk[q].past)
      BY <1>1, MovedGrows
    <3>3. /\ walk[m].past \in Seq(GprState) /\ walk[q - 1].past \in Seq(GprState)
          /\ walk[q].past \in Seq(GprState)
      BY <1>1, <1>2
    <3> QED BY <3>1, <3>2, <3>3, BeginsOn
  <2> QED BY <2>1, <2>2
<1>5. \A q \in 0 .. n : q \in S
  <2> HIDE DEF S
  <2> QED BY <1>1, <1>3, <1>4, Induct
<1> QED BY <1>1, <1>5 DEF n, walk

(* Two rows that change a state change it differently.                      *)
LEMMA RowsDiffer ==
  ASSUME NEW row \in Row, NEW other \in Row, NEW s \in GprState, row # other,
         Compare!Changes(row, s), Compare!Changes(other, s)
  PROVE  Compare!Updated(row, s) # Compare!Updated(other, s)
<1>1. PICK r \in Compare!Regs, v \in Int : row = <<<<r, v>>>> /\ s[r] # v
  BY RowParts DEF Compare!Changes
<1>2. PICK q \in Compare!Regs, w \in Int : other = <<<<q, w>>>> /\ s[q] # w
  BY RowParts DEF Compare!Changes
<1>3. Compare!Updated(row, s) = [s EXCEPT ![r] = v]
  BY <1>1 DEF Compare!Updated
<1>4. Compare!Updated(other, s) = [s EXCEPT ![q] = w]
  BY <1>2 DEF Compare!Updated
<1>5. CASE r # q
  BY <1>1, <1>3, <1>4, <1>5 DEF GprState
<1>6. CASE r = q
  <2>1. v # w
    BY <1>1, <1>2, <1>6
  <2> QED BY <1>3, <1>4, <1>6, <2>1 DEF GprState
<1> QED BY <1>5, <1>6

(* Where the comparison is in the two walks, and what it has found.         *)
Walk_1 == Compare!Walk(csv_1)
Walk_2 == Compare!Walk(csv_2)
Reached_1 == Walk_1[trace_1_index]
Reached_2 == Walk_2[trace_2_index]
CsvTypes == csv_1 \in Seq(Row) /\ csv_2 \in Seq(Row)
Ahead ==
  /\ trace_1_index >= 1 /\ Compare!Changes(csv_1[trace_1_index], Reached_2.state)
  /\ Reached_1.state = Compare!Updated(csv_1[trace_1_index], Reached_2.state)
  /\ Reached_1.past = Append(Reached_2.past, Reached_1.state)
Agreed ==
  /\ stage = "rows" => IF seeking THEN Ahead ELSE Reached_1 = Reached_2
  /\ stage = "rest" => /\ Reached_1 = Reached_2
                       /\ trace_1_index = Len(csv_1) \/ trace_2_index = Len(csv_2)
  /\ stage = "done" => Begins(Compare!History(csv_2), Compare!History(csv_1))
WalkTypes ==
  /\ CsvTypes /\ stage \in {"spike", "rtl", "rows", "rest", "done"}
  /\ mismatch_cnt \in Nat /\ seeking \in BOOLEAN
  /\ trace_1_index \in 0 .. Len(csv_1) /\ trace_2_index \in 0 .. Len(csv_2)
WalkInv ==
  /\ WalkTypes
  /\ stage \in {"spike", "rtl"} =>
       /\ trace_1_index = 0 /\ trace_2_index = 0 /\ seeking = FALSE /\ mismatch_cnt = 0
       /\ gpr_val_1 = Home.state /\ gpr_val_2 = Home.state
  /\ stage \in {"rows", "rest"} =>
       gpr_val_1 = Reached_1.state /\ gpr_val_2 = Reached_2.state
  /\ mismatch_cnt = 0 => Agreed
  /\ mismatch_cnt > 0 => Compare!History(csv_1) # Compare!History(csv_2)

LEMMA WalksAre ==
  ASSUME WalkTypes
  PROVE  /\ Len(csv_1) \in Nat /\ Walk_1 \in [0 .. Len(csv_1) -> Spot] /\ Walk_1[0] = Home
         /\ \A k \in 1 .. Len(csv_1) :
              csv_1[k] \in Row /\ Walk_1[k] = Moved(csv_1[k], Walk_1[k - 1])
         /\ Len(csv_2) \in Nat /\ Walk_2 \in [0 .. Len(csv_2) -> Spot] /\ Walk_2[0] = Home
         /\ \A k \in 1 .. Len(csv_2) :
              csv_2[k] \in Row /\ Walk_2[k] = Moved(csv_2[k], Walk_2[k - 1])
         /\ Reached_1 \in Spot /\ Reached_2 \in Spot
<1>1. csv_1 \in Seq(Row) /\ csv_2 \in Seq(Row)
  BY DEF WalkTypes, CsvTypes
<1>2. /\ Len(csv_1) \in Nat /\ Walk_1 \in [0 .. Len(csv_1) -> Spot] /\ Walk_1[0] = Home
      /\ \A k \in 1 .. Len(csv_1) : csv_1[k] \in Row /\ Walk_1[k] = Moved(csv_1[k], Walk_1[k - 1])
  BY <1>1, WalkIs DEF Walk_1
<1>3. /\ Len(csv_2) \in Nat /\ Walk_2 \in [0 .. Len(csv_2) -> Spot] /\ Walk_2[0] = Home
      /\ \A k \in 1 .. Len(csv_2) : csv_2[k] \in Row /\ Walk_2[k] = Moved(csv_2[k], Walk_2[k - 1])
  BY <1>1, WalkIs DEF Walk_2
<1> QED BY <1>2, <1>3 DEF WalkTypes, Reached_1, Reached_2

LEMMA SpotParts ==
  ASSUME NEW w \in Spot
  PROVE  /\ w = [state |-> w.state, past |-> w.past]
         /\ w.state \in GprState /\ w.past \in Seq(GprState)
BY DEF Spot

LEMMA MovedIs ==
  ASSUME NEW row \in Row, NEW w \in Spot
  PROVE  /\ Moved(row, w).state = Compare!Updated(row, w.state)
         /\ IF Compare!Changes(row, w.state)
              THEN Moved(row, w).past = Append(w.past, Compare!Updated(row, w.state))
            ELSE Moved(row, w) = w
<1>1. w.state = [r \in DOMAIN w.state |-> w.state[r]]
  BY DEF Spot, GprState
<1>2. ~Compare!Changes(row, w.state) => Compare!Updated(row, w.state) = w.state
  BY <1>1 DEF Compare!Changes, Compare!Updated
<1> QED BY <1>2 DEF Moved

(* While the logs are read the comparison has not begun.                    *)
LEMMA WalkWaits ==
  ASSUME WalkInv, CsvTypes', UNCHANGED Compare!cmpVars, stage \in {"spike", "rtl"},
         stage' \in {"spike", "rtl", "rows"}
  PROVE  WalkInv'
<1>1. /\ trace_1_index' = 0 /\ trace_2_index' = 0 /\ seeking' = FALSE /\ mismatch_cnt' = 0
      /\ gpr_val_1' = Home.state /\ gpr_val_2' = Home.state
  BY DEF WalkInv, Compare!cmpVars
<1>2. csv_1' \in Seq(Row) /\ csv_2' \in Seq(Row)
  BY DEF CsvTypes
<1>3. Walk_1'[0] = Home /\ Walk_2'[0] = Home
  <2>1. Compare!Walk(csv_1')[0] = Home /\ Compare!Walk(csv_2')[0] = Home
    BY <1>2, WalkIs
  <2>2. Walk_1' = Compare!Walk(csv_1') /\ Walk_2' = Compare!Walk(csv_2')
    BY DEF Walk_1, Walk_2
  <2> QED BY <2>1, <2>2
<1>4. Reached_1' = Home /\ Reached_2' = Home
  BY <1>1, <1>3 DEF Reached_1, Reached_2
<1>5. Home' = Home
  BY DEF Home, Compare!Regs
<1>6. WalkTypes'
  <2>1. Len(csv_1') \in Nat /\ Len(csv_2') \in Nat
    BY <1>2
  <2>2. /\ mismatch_cnt' \in Nat /\ trace_1_index' \in 0 .. Len(csv_1')
        /\ trace_2_index' \in 0 .. Len(csv_2')
    BY <1>1, <2>1
  <2>3. seeking' \in BOOLEAN /\ stage' \in {"spike", "rtl", "rows", "rest", "done"}
    BY <1>1
  <2> QED BY ONLY <2>2, <2>3, CsvTypes' DEF WalkTypes
<1>7. Agreed'
  BY <1>1, <1>4 DEF Agreed
<1> QED BY <1>1, <1>4, <1>5, <1>6, <1>7 DEF WalkInv

LEMMA WalkNextRow == ASSUME WalkInv, Compare!NextRow PROVE WalkInv'
<1> DEFINE row == csv_1[trace_1_index + 1]
<1>1. /\ stage = "rows" /\ seeking = FALSE /\ trace_1_index < Len(csv_1)
      /\ trace_1_index' = trace_1_index + 1
      /\ gpr_val_1' = Compare!Updated(row, gpr_val_1)
      /\ seeking' = Compare!Changes(row, gpr_val_1)
      /\ UNCHANGED <<stage, csv_1, csv_2, trace_2_index, gpr_val_2, mismatch_cnt>>
  BY DEF Compare!NextRow, WalkInv, WalkTypes
<1>2. WalkTypes
  BY DEF WalkInv
<1>3. /\ trace_1_index' \in 1 .. Len(csv_1) /\ row \in Row
      /\ Walk_1[trace_1_index'] = Moved(row, Reached_1)
      /\ Reached_1 \in Spot /\ Reached_2 \in Spot
  BY <1>1, <1>2, WalksAre DEF WalkTypes, Reached_1
<1>4. Walk_1' = Walk_1 /\ Walk_2' = Walk_2
      /\ Compare!History(csv_1)' = Compare!History(csv_1)
      /\ Compare!History(csv_2)' = Compare!History(csv_2)
  BY <1>1 DEF Walk_1, Walk_2
<1>5. Reached_1' = Moved(row, Reached_1) /\ Reached_2' = Reached_2 /\ csv_1'[trace_1_index'] = row
  BY <1>1, <1>3, <1>4 DEF Reached_1, Reached_2
<1> HIDE DEF row
<1>6. gpr_val_1 = Reached_1.state /\ gpr_val_2 = Reached_2.state
  BY <1>1 DEF WalkInv
<1>7. seeking' \in BOOLEAN
  BY <1>1 DEF Compare!Changes
<1>8. WalkTypes'
  BY <1>1, <1>2, <1>3, <1>7 DEF WalkTypes, CsvTypes
<1>9. gpr_val_1' = Reached_1'.state /\ gpr_val_2' = Reached_2'.state
  BY <1>1, <1>3, <1>5, <1>6, MovedIs
<1>10. ASSUME mismatch_cnt = 0 PROVE Agreed'
  <2>1. Reached_1 = Reached_2
    BY <1>1, <1>10 DEF WalkInv, Agreed
  <2>2. CASE Compare!Changes(row, gpr_val_1)
    <3>1. seeking' = TRUE /\ trace_1_index' >= 1
      BY <1>1, <1>3, <2>2
    <3>2. Compare!Changes(row, Reached_2'.state)
      BY <1>5, <1>6, <2>1, <2>2
    <3>3. /\ Reached_1'.state = Compare!Updated(row, Reached_2'.state)
          /\ Reached_1'.past = Append(Reached_2'.past, Reached_1'.state)
      BY <1>3, <1>5, <1>6, <2>1, <2>2, MovedIs
    <3>4. Ahead'
      <4>1. /\ Compare!Changes(csv_1[trace_1_index], Reached_2.state)' =
                 Compare!Changes(csv_1'[trace_1_index'], Reached_2'.state)
            /\ Compare!Updated(csv_1[trace_1_index], Reached_2.state)' =
                 Compare!Updated(csv_1'[trace_1_index'], Reached_2'.state)
        BY DEF Compare!Changes, Compare!Updated
      <4> QED BY <1>5, <3>1, <3>2, <3>3, <4>1 DEF Ahead
    <3> QED BY <1>1, <3>1, <3>4 DEF Agreed
  <2>3. CASE ~Compare!Changes(row, gpr_val_1)
    <3>1. seeking' = FALSE
      BY <1>1, <2>3, <1>7
    <3>2. Reached_1' = Reached_2'
      BY <1>3, <1>5, <1>6, <2>1, <2>3, MovedIs
    <3> QED BY <1>1, <3>1, <3>2 DEF Agreed
  <2> QED BY <2>2, <2>3
<1> QED BY <1>1, <1>4, <1>8, <1>9, <1>10 DEF WalkInv

LEMMA Histories ==
  ASSUME WalkTypes
  PROVE  /\ Compare!History(csv_1) \in Seq(GprState) /\ Compare!History(csv_2) \in Seq(GprState)
         /\ Compare!History(csv_1) = Walk_1[Len(csv_1)].past
         /\ Compare!History(csv_2) = Walk_2[Len(csv_2)].past
         /\ \A k \in 0 .. Len(csv_1) : Begins(Walk_1[k].past, Compare!History(csv_1))
         /\ \A k \in 0 .. Len(csv_2) : Begins(Walk_2[k].past, Compare!History(csv_2))
<1>1. /\ Compare!History(csv_1) = Walk_1[Len(csv_1)].past
      /\ Compare!History(csv_2) = Walk_2[Len(csv_2)].past
  BY DEF Walk_1, Walk_2, Compare!History
<1>2. Walk_1[Len(csv_1)] \in Spot /\ Walk_2[Len(csv_2)] \in Spot
  BY WalksAre
<1>3. csv_1 \in Seq(Row) /\ csv_2 \in Seq(Row) /\ Len(csv_1) \in Nat /\ Len(csv_2) \in Nat
  BY DEF WalkTypes, CsvTypes
<1>4. ASSUME NEW k \in 0 .. Len(csv_1)
      PROVE  Begins(Walk_1[k].past, Walk_1[Len(csv_1)].past)
  <2>1. Len(csv_1) \in k .. Len(csv_1)
    BY <1>3
  <2> QED BY <1>3, <2>1, WalkGrows DEF Walk_1
<1>5. ASSUME NEW k \in 0 .. Len(csv_2)
      PROVE  Begins(Walk_2[k].past, Walk_2[Len(csv_2)].past)
  <2>1. Len(csv_2) \in k .. Len(csv_2)
    BY <1>3
  <2> QED BY <1>3, <2>1, WalkGrows DEF Walk_2
<1>6. Compare!History(csv_1) \in Seq(GprState) /\ Compare!History(csv_2) \in Seq(GprState)
  BY <1>1, <1>2, SpotParts
<1> QED BY <1>1, <1>4, <1>5, <1>6

LEMMA BeginsLonger ==
  ASSUME NEW S, NEW s \in Seq(S), NEW e \in S, NEW t \in Seq(S), Begins(Append(s, e), t)
  PROVE  Len(s) + 1 <= Len(t) /\ t[Len(s) + 1] = e
<1>1. PICK u : u = Append(s, e)
  OBVIOUS
<1>2. u \in Seq(S) /\ Len(u) = Len(s) + 1 /\ u[Len(s) + 1] = e /\ Len(s) + 1 \in 1 .. Len(u)
  BY <1>1
<1>3. Begins(u, t)
  BY <1>1
<1> QED BY <1>2, <1>3 DEF Begins

(* A row that changes the state in another way than the row of trace 1: the *)
(* walks part here.                                                         *)
LEMMA WalksPart ==
  ASSUME WalkTypes, Ahead, trace_2_index < Len(csv_2),
         NEW row, row = csv_2[trace_2_index + 1],
         Compare!Changes(row, Reached_2.state), row # csv_1[trace_1_index]
  PROVE  Compare!History(csv_1) # Compare!History(csv_2)
<1> DEFINE s == Reached_2.state
           before == Reached_2.past
           first == Reached_1.state
           second == Compare!Updated(row, s)
           place == Len(before) + 1
<1>1. /\ trace_1_index \in 1 .. Len(csv_1) /\ trace_2_index + 1 \in 1 .. Len(csv_2)
      /\ Len(csv_1) \in Nat /\ Len(csv_2) \in Nat
  BY WalksAre DEF WalkTypes, Ahead
<1>2. /\ csv_1[trace_1_index] \in Row /\ row \in Row
      /\ Walk_2[trace_2_index + 1] = Moved(row, Reached_2)
      /\ Reached_1 \in Spot /\ Reached_2 \in Spot
  BY <1>1, WalksAre DEF Reached_2, WalkTypes
<1>3. s \in GprState /\ before \in Seq(GprState) /\ first \in GprState /\ second \in GprState
  BY <1>2, SpotParts, UpdatedState
<1>4. first # second
  BY <1>2, <1>3, RowsDiffer DEF Ahead
<1>5. /\ Reached_1.past = Append(before, first)
      /\ Walk_2[trace_2_index + 1].past = Append(before, second)
  BY <1>2, MovedIs DEF Ahead
<1>6. /\ Begins(Reached_1.past, Compare!History(csv_1))
      /\ Begins(Walk_2[trace_2_index + 1].past, Compare!History(csv_2))
  BY <1>1, Histories DEF Reached_1
<1>7. Compare!History(csv_1) \in Seq(GprState) /\ Compare!History(csv_2) \in Seq(GprState)
  BY Histories
<1> HIDE DEF s, before, first, second
<1>8. Compare!History(csv_1)[place] = first /\ Compare!History(csv_2)[place] = second
  BY <1>3, <1>5, <1>6, <1>7, BeginsLonger
<1> QED BY <1>4, <1>8

LEMMA WalkSeek == ASSUME WalkInv, Compare!Seek PROVE WalkInv'
<1> DEFINE row == csv_2[trace_2_index + 1]
<1>1. /\ stage = "rows" /\ seeking = TRUE /\ trace_2_index < Len(csv_2)
      /\ trace_2_index' = trace_2_index + 1
      /\ gpr_val_2' = Compare!Updated(row, gpr_val_2)
      /\ UNCHANGED <<csv_1, csv_2, trace_1_index, gpr_val_1>>
      /\ ~Compare!Changes(row, gpr_val_2) => UNCHANGED <<seeking, stage, mismatch_cnt>>
      /\ Compare!Changes(row, gpr_val_2) =>
           /\ seeking' = FALSE
           /\ stage' = IF trace_2_index' = Len(csv_2) THEN "rest" ELSE "rows"
           /\ \/ csv_1[trace_1_index] = row /\ mismatch_cnt' = mismatch_cnt
              \/ csv_1[trace_1_index] # row /\ mismatch_cnt' = mismatch_cnt + 1
  BY DEF Compare!Seek, Compare!RowDone, Compare!Agrees, WalkInv, WalkTypes
<1>2. WalkTypes
  BY DEF WalkInv
<1>3. /\ trace_2_index' \in 1 .. Len(csv_2) /\ row \in Row
      /\ Walk_2[trace_2_index'] = Moved(row, Reached_2)
      /\ Reached_1 \in Spot /\ Reached_2 \in Spot
  BY <1>1, <1>2, WalksAre DEF WalkTypes, Reached_2
<1>4. Walk_1' = Walk_1 /\ Walk_2' = Walk_2
      /\ Compare!History(csv_1)' = Compare!History(csv_1)
      /\ Compare!History(csv_2)' = Compare!History(csv_2)
  BY <1>1 DEF Walk_1, Walk_2
<1>5. Reached_2' = Moved(row, Reached_2) /\ Reached_1' = Reached_1
  BY <1>1, <1>3, <1>4 DEF Reached_1, Reached_2
<1>6. gpr_val_1 = Reached_1.state /\ gpr_val_2 = Reached_2.state
  BY <1>1 DEF WalkInv
<1>7. mismatch_cnt \in Nat /\ mismatch_cnt' \in Nat /\ seeking' \in BOOLEAN
      /\ stage' \in {"rows", "rest"} /\ (mismatch_cnt' = 0 => mismatch_cnt = 0)
  <2>1. mismatch_cnt \in Nat
    BY <1>2 DEF WalkTypes
  <2> HIDE DEF row
  <2>2. mismatch_cnt' = mismatch_cnt \/ mismatch_cnt' = mismatch_cnt + 1
    BY ONLY <1>1
  <2>3. seeking' \in BOOLEAN /\ stage' \in {"rows", "rest"}
    BY ONLY <1>1
  <2> QED BY <2>1, <2>2, <2>3
<1>8. WalkTypes'
  BY <1>1, <1>2, <1>3, <1>7 DEF WalkTypes, CsvTypes
<1>9. gpr_val_1' = Reached_1'.state /\ gpr_val_2' = Reached_2'.state
  <2> HIDE DEF row
  <2> QED BY <1>1, <1>3, <1>5, <1>6, MovedIs
<1>10. mismatch_cnt = 0 => Ahead
  BY <1>1 DEF WalkInv, Agreed
<1>11. ASSUME mismatch_cnt' = 0 PROVE Agreed'
  <2>1. Ahead
    BY <1>7, <1>10, <1>11
  <2> HIDE DEF row
  <2>2. CASE ~Compare!Changes(row, gpr_val_2)
    <3>1. Reached_2' = Reached_2 /\ Reached_1' = Reached_1
      BY <1>3, <1>5, <1>6, <2>2, MovedIs
    <3>2. stage' = "rows" /\ seeking' = TRUE
      BY <1>1, <2>2
    <3>3. Ahead'
      BY <1>1, <2>1, <3>1 DEF Ahead, Compare!Changes, Compare!Updated
    <3> QED BY <3>2, <3>3 DEF Agreed
  <2>3. CASE Compare!Changes(row, gpr_val_2)
    <3>1. csv_1[trace_1_index] = row
      BY <1>1, <1>7, <1>11, <2>3
    <3>2. Reached_2'.state = Reached_1.state /\ Reached_2'.past = Reached_1.past
      BY <1>3, <1>5, <1>6, <2>1, <2>3, <3>1, MovedIs DEF Ahead
    <3>3. Reached_2' \in Spot
      BY <1>3, <1>5, MovedSpot
    <3>4. Reached_1' = Reached_2'
      BY <1>3, <1>5, <3>2, <3>3, SpotParts
    <3>5. /\ seeking' = FALSE /\ csv_2' = csv_2
          /\ stage' = IF trace_2_index' = Len(csv_2') THEN "rest" ELSE "rows"
      BY <1>1, <2>3
    <3> QED BY <3>4, <3>5 DEF Agreed
  <2> QED BY <2>2, <2>3
<1>12. ASSUME mismatch_cnt' > 0 PROVE Compare!History(csv_1) # Compare!History(csv_2)
  <2>1. CASE mismatch_cnt > 0
    BY <2>1 DEF WalkInv
  <2>2. CASE mismatch_cnt = 0
    <3>1. Ahead
      BY <1>10, <2>2
    <3>2. Compare!Changes(row, gpr_val_2) /\ csv_1[trace_1_index] # row
      <4> HIDE DEF row
      <4>1. mismatch_cnt' # mismatch_cnt
        BY <1>12, <2>2
      <4> QED BY ONLY <1>1, <4>1
    <3> QED BY <1>1, <1>2, <1>6, <3>1, <3>2, WalksPart
  <2> QED BY <1>7, <2>1, <2>2
<1> HIDE DEF row
<1> QED BY <1>4, <1>7, <1>8, <1>9, <1>11, <1>12 DEF WalkInv

LEMMA WalkSeekFails == ASSUME WalkInv, Compare!SeekFails PROVE WalkInv'
<1>1. /\ stage = "rows" /\ seeking = TRUE /\ trace_2_index = Len(csv_2)
      /\ mismatch_cnt' = mismatch_cnt + 1 /\ seeking' = FALSE /\ stage' = "rest"
      /\ UNCHANGED <<csv_1, csv_2, trace_1_index, trace_2_index, gpr_val_1, gpr_val_2>>
  BY DEF Compare!SeekFails, Compare!RowDone, WalkInv, WalkTypes
<1>2. WalkTypes /\ mismatch_cnt \in Nat
  BY DEF WalkInv, WalkTypes
<1>3. /\ Reached_1' = Reached_1 /\ Reached_2' = Reached_2
      /\ Compare!History(csv_1)' = Compare!History(csv_1)
      /\ Compare!History(csv_2)' = Compare!History(csv_2)
  BY <1>1 DEF Reached_1, Reached_2, Walk_1, Walk_2
<1>4. mismatch_cnt' > 0 /\ mismatch_cnt' \in Nat
  BY <1>1, <1>2
<1>7. WalkTypes'
  BY <1>1, <1>2, <1>4 DEF WalkTypes, CsvTypes
<1>5. Compare!History(csv_1) # Compare!History(csv_2)
  <2>1. CASE mismatch_cnt > 0
    BY <2>1 DEF WalkInv
  <2>2. CASE mismatch_cnt = 0
    <3>1. Reached_1.past = Append(Reached_2.past, Reached_1.state)
      BY <1>1, <2>2 DEF WalkInv, Agreed, Ahead
    <3>2. Reached_2.past = Compare!History(csv_2)
      BY <1>1, <1>2, Histories DEF Reached_2
    <3>3. Begins(Reached_1.past, Compare!History(csv_1)) /\ Compare!History(csv_1) \in Seq(GprState)
          /\ Reached_2.past \in Seq(GprState) /\ Reached_1.state \in GprState
      BY <1>2, Histories, WalksAre, SpotParts DEF Reached_1, WalkTypes
    <3>4. Len(Reached_2.past) + 1 <= Len(Compare!History(csv_1))
      BY <3>1, <3>3, BeginsLonger
    <3>5. Len(Reached_2.past) \in Nat /\ Len(Compare!History(csv_1)) \in Nat
      BY <3>3
    <3> QED BY <3>2, <3>4, <3>5
  <2> QED BY <1>2, <2>1, <2>2
<1>6. gpr_val_1' = Reached_1'.state /\ gpr_val_2' = Reached_2'.state
  BY <1>1, <1>3 DEF WalkInv
<1> QED BY <1>1, <1>3, <1>4, <1>5, <1>6, <1>7 DEF WalkInv

LEMMA WalkEndRows == ASSUME WalkInv, Compare!EndRows PROVE WalkInv'
<1>1. /\ stage = "rows" /\ seeking = FALSE /\ trace_1_index = Len(csv_1) /\ stage' = "rest"
      /\ UNCHANGED <<csv_1, csv_2, trace_1_index, trace_2_index, seeking, mismatch_cnt,
                     gpr_val_1, gpr_val_2>>
  BY DEF Compare!EndRows, Compare!cmpVars, WalkInv, WalkTypes
<1>2. /\ Reached_1' = Reached_1 /\ Reached_2' = Reached_2
      /\ Compare!History(csv_1)' = Compare!History(csv_1)
      /\ Compare!History(csv_2)' = Compare!History(csv_2)
  BY <1>1 DEF Reached_1, Reached_2, Walk_1, Walk_2
<1>3. WalkTypes'
  BY <1>1 DEF WalkInv, WalkTypes, CsvTypes
<1>4. mismatch_cnt = 0 => Agreed'
  BY <1>1, <1>2 DEF WalkInv, Agreed
<1> QED BY <1>1, <1>2, <1>3, <1>4 DEF WalkInv

LEMMA WalkRest == ASSUME WalkInv, Compare!Rest PROVE WalkInv'
<1> DEFINE row == csv_2[trace_2_index + 1]
<1>1. /\ stage = "rest" /\ trace_2_index < Len(csv_2)
      /\ gpr_val_2' = Compare!Updated(row, gpr_val_2)
      /\ UNCHANGED <<csv_1, csv_2, trace_1_index, seeking, gpr_val_1>>
      /\ Compare!Changes(row, gpr_val_2) =>
           /\ mismatch_cnt' = mismatch_cnt + (Len(csv_2) - trace_2_index)
           /\ stage' = "done" /\ trace_2_index' = trace_2_index
      /\ ~Compare!Changes(row, gpr_val_2) =>
           trace_2_index' = trace_2_index + 1 /\ UNCHANGED <<mismatch_cnt, stage>>
  BY DEF Compare!Rest
<1>2. WalkTypes /\ mismatch_cnt \in Nat /\ Len(csv_2) \in Nat /\ trace_2_index \in Nat
  BY WalksAre DEF WalkInv, WalkTypes
<1>3. /\ trace_2_index + 1 \in 1 .. Len(csv_2) /\ row \in Row
      /\ Walk_2[trace_2_index + 1] = Moved(row, Reached_2)
      /\ Reached_1 \in Spot /\ Reached_2 \in Spot
  BY <1>1, <1>2, WalksAre DEF WalkTypes, Reached_2
<1>4. Walk_1' = Walk_1 /\ Walk_2' = Walk_2 /\ Reached_1' = Reached_1
      /\ Compare!History(csv_1)' = Compare!History(csv_1)
      /\ Compare!History(csv_2)' = Compare!History(csv_2)
  BY <1>1 DEF Walk_1, Walk_2, Reached_1
<1>5. gpr_val_1 = Reached_1.state /\ gpr_val_2 = Reached_2.state
  BY <1>1 DEF WalkInv
<1>6. CASE Compare!Changes(row, gpr_val_2)
  <2>1. /\ mismatch_cnt' > 0 /\ mismatch_cnt' \in Nat
        /\ stage' = "done" /\ trace_2_index' = trace_2_index
    <3> HIDE DEF row
    <3> QED BY <1>1, <1>2, <1>6
  <2>2. WalkTypes'
    BY <1>1, <1>2, <2>1 DEF WalkTypes, CsvTypes
  <2>3. Compare!History(csv_1) # Compare!History(csv_2)
    <3>1. CASE mismatch_cnt > 0
      BY <3>1 DEF WalkInv
    <3>2. CASE mismatch_cnt = 0
      <4>1. Reached_1 = Reached_2 /\ trace_1_index = Len(csv_1)
        BY <1>1, <1>2, <3>2 DEF WalkInv, Agreed
      <4>2. Compare!History(csv_1) = Reached_2.past
        BY <1>2, <4>1, Histories DEF Reached_1
      <4>3. PICK s \in GprState : Walk_2[trace_2_index + 1].past = Append(Reached_2.past, s)
        BY <1>3, <1>5, <1>6, MovedIs, SpotParts, UpdatedState
      <4>4. Begins(Append(Reached_2.past, s), Compare!History(csv_2))
        <5>1. trace_2_index + 1 \in 0 .. Len(csv_2)
          BY <1>3
        <5>2. Begins(Walk_2[trace_2_index + 1].past, Compare!History(csv_2))
          BY <1>2, <5>1, Histories
        <5> QED BY <4>3, <5>2
      <4>5. Reached_2.past \in Seq(GprState) /\ Compare!History(csv_2) \in Seq(GprState)
        BY <1>2, <1>3, SpotParts, Histories
      <4>6. Len(Reached_2.past) + 1 <= Len(Compare!History(csv_2))
        BY <4>4, <4>5, BeginsLonger
      <4>7. Len(Reached_2.past) \in Nat /\ Len(Compare!History(csv_2)) \in Nat
        BY <4>5
      <4> QED BY <4>2, <4>6, <4>7
    <3> QED BY <1>2, <3>1, <3>2
  <2> HIDE DEF row
  <2> QED BY <1>4, <2>1, <2>2, <2>3 DEF WalkInv
<1>7. CASE ~Compare!Changes(row, gpr_val_2)
  <2>1. trace_2_index' = trace_2_index + 1 /\ UNCHANGED <<mismatch_cnt, stage>>
    <3> HIDE DEF row
    <3> QED BY <1>1, <1>7
  <2>2. Reached_2' = Reached_2
    BY <1>3, <1>4, <1>5, <1>7, <2>1, MovedIs DEF Reached_2
  <2>3. WalkTypes'
    BY <1>1, <1>2, <1>3, <2>1 DEF WalkTypes, CsvTypes
  <2>4. gpr_val_1' = Reached_1'.state /\ gpr_val_2' = Reached_2'.state
    <3>1. gpr_val_2' = Compare!Updated(row, Reached_2.state)
      BY <1>1, <1>5
    <3>2. Compare!Updated(row, Reached_2.state) = Reached_2.state
      BY <1>3, <1>5, <1>7, MovedIs
    <3> QED BY <1>1, <1>4, <1>5, <2>2, <3>1, <3>2
  <2>5. mismatch_cnt = 0 => Agreed'
    BY <1>1, <1>2, <1>4, <2>1, <2>2 DEF WalkInv, Agreed
  <2> HIDE DEF row
  <2> QED BY <1>1, <1>4, <2>1, <2>3, <2>4, <2>5 DEF WalkInv
<1> QED BY <1>6, <1>7

LEMMA WalkEndRest == ASSUME WalkInv, Compare!EndRest PROVE WalkInv'
<1>1. /\ stage = "rest" /\ trace_2_index = Len(csv_2) /\ stage' = "done"
      /\ UNCHANGED <<csv_1, csv_2, trace_1_index, trace_2_index, seeking, mismatch_cnt,
                     gpr_val_1, gpr_val_2>>
  BY DEF Compare!EndRest, Compare!cmpVars
<1>2. /\ Compare!History(csv_1)' = Compare!History(csv_1)
      /\ Compare!History(csv_2)' = Compare!History(csv_2)
  BY <1>1
<1>3. WalkTypes /\ WalkTypes'
  BY <1>1 DEF WalkInv, WalkTypes, CsvTypes
<1>4. ASSUME mismatch_cnt = 0 PROVE Agreed'
  <2>1. Reached_1 = Reached_2
    BY <1>1, <1>4 DEF WalkInv, Agreed
  <2>2. Compare!History(csv_2) = Reached_1.past
    BY <1>1, <1>3, <2>1, Histories DEF Reached_2
  <2>3. Begins(Reached_1.past, Compare!History(csv_1))
    BY <1>3, Histories DEF Reached_1, WalkTypes
  <2>4. Begins(Compare!History(csv_2), Compare!History(csv_1))'
    BY <1>2, <2>2, <2>3 DEF Begins
  <2> QED BY <1>1, <2>4 DEF Agreed
<1> QED BY <1>1, <1>2, <1>3, <1>4 DEF WalkInv

(* The logs. What a program executes, and the rows that are to come of it.  *)
Executed == [kind : {"write", "store", "illegal"}, rd : Compare!Regs, val : Int]
Written(e, csv) == IF Compare!Kept(e) THEN Append(csv, <<<<e.rd, e.val>>>>) ELSE csv

LEMMA WrittenRow ==
  ASSUME NEW e \in Executed, NEW csv \in Seq(Row) PROVE Written(e, csv) \in Seq(Row)
<1>1. <<<<e.rd, e.val>>>> \in Row
  BY DEF Executed, Row
<1> QED BY <1>1 DEF Written

LEMMA RowsAre ==
  ASSUME NEW p \in Seq(Executed)
  PROVE  /\ Compare!RowsUpTo(p) \in [0 .. Len(p) -> Seq(Row)]
         /\ Compare!RowsUpTo(p)[0] = <<>>
         /\ \A k \in 1 .. Len(p) :
              Compare!RowsUpTo(p)[k] = Written(p[k], Compare!RowsUpTo(p)[k - 1])
<1> DEFINE n == Len(p)
           none == <<>>
           Rule(f) == [k \in 0 .. n |-> IF k = 0 THEN none ELSE Written(p[k], f[k - 1])]
           written == CHOOSE f : f = Rule(f)
           T == Seq(Row)
           step == [q \in T \X (1 .. n) |-> Written(p[q[2]], q[1])]
<1>1. Compare!RowsUpTo(p) = written
  BY DEF Compare!RowsUpTo, Written
<1>2. n \in Nat /\ none \in T
  OBVIOUS
<1> HIDE DEF none
<1>3. step \in Steps(n, T)
  <2>1. ASSUME NEW q \in T \X (1 .. n) PROVE Written(p[q[2]], q[1]) \in T
    <3>1. p[q[2]] \in Executed /\ q[1] \in T
      OBVIOUS
    <3> QED BY <3>1, WrittenRow
  <2> QED BY <2>1 DEF Steps
<1>4. PICK f : Solves(f, n, T, none, step)
  <2> HIDE DEF n, T, step
  <2> QED BY <1>2, <1>3, Recursion
<1> HIDE DEF T
<1>5. ASSUME NEW k \in 1 .. n PROVE f[k] = Written(p[k], f[k - 1])
  <2>1. f[k - 1] \in T /\ <<f[k - 1], k>> \in T \X (1 .. n)
    BY <1>4 DEF Solves
  <2> QED BY <1>4, <2>1 DEF Solves
<1>6. f = Rule(f)
  BY <1>4, <1>5 DEF Solves
<1>7. written = Rule(written)
  <2> HIDE DEF Rule
  <2> QED BY <1>6
<1> HIDE DEF written
<1>8. written[0] = none /\ \A k \in 1 .. n : written[k] = Written(p[k], written[k - 1])
  BY <1>2, <1>7
<1>9. \A k \in 0 .. n : written[k] \in T
  <2> DEFINE S == {k \in 0 .. n : written[k] \in T}
  <2>1. 0 \in S
    BY <1>2, <1>8
  <2>2. ASSUME NEW k \in 1 .. n, k - 1 \in S PROVE k \in S
    <3>1. p[k] \in Executed /\ written[k - 1] \in T /\ written[k] = Written(p[k], written[k - 1])
      BY <1>8, <2>2
    <3> QED BY <3>1, WrittenRow DEF T
  <2>3. \A k \in 0 .. n : k \in S
    <3> HIDE DEF S, n
    <3> QED BY <1>2, <2>1, <2>2, Induct
  <2> QED BY <2>3
<1>10. written \in [0 .. n -> T]
  BY <1>7, <1>9
<1> QED BY <1>1, <1>8, <1>10 DEF T, none

(* Where the parts of a sequence that is put together begin.                *)
Adds(u, s, t) ==
  /\ Len(u) = Len(s) + Len(t)
  /\ \A k \in 1 .. Len(s) : u[k] = s[k]
  /\ \A k \in 1 .. Len(t) : u[Len(s) + k] = t[k]
LEMMA JoinedAfter ==
  ASSUME NEW S, NEW s \in Seq(S), NEW t \in Seq(S)
  PROVE  s \o t \in Seq(S) /\ Adds(s \o t, s, t)
<1>1. PICK m : m = Len(s)
  OBVIOUS
<1>2. PICK u : u = s \o t
  OBVIOUS
<1>3. /\ u \in Seq(S) /\ Len(u) = m + Len(t) /\ Len(t) \in Nat /\ m \in Nat
      /\ \A k \in 1 .. m : u[k] = s[k]
  BY <1>1, <1>2
<1>4. ASSUME NEW k \in 1 .. Len(t) PROVE u[m + k] = t[k]
  <2>1. m + k \in Int /\ m < m + k /\ m + k <= m + Len(t) /\ (m + k) - m = k
    BY <1>3
  <2>2. u[m + k] = t[(m + k) - m]
    BY <1>1, <1>2, <2>1
  <2> QED BY <2>1, <2>2
<1> QED BY <1>1, <1>2, <1>3, <1>4 DEF Adds

Parts(f, ss, flat) ==
  /\ f \in [0 .. Len(ss) -> Nat] /\ f[0] = 0 /\ Len(flat) = f[Len(ss)]
  /\ \A k \in 1 .. Len(ss) : f[k] = f[k - 1] + Len(ss[k])
  /\ \A k \in 0 .. Len(ss) : f[k] <= f[Len(ss)]
  /\ \A k \in 1 .. Len(ss) : \A m \in 1 .. Len(ss[k]) :
       f[k - 1] + m <= f[Len(ss)] /\ flat[f[k - 1] + m] = ss[k][m]
LEMMA Flattened ==
  ASSUME NEW S, NEW ss \in Seq(Seq(S))
  PROVE  /\ Compare!FlattenSeq(ss) \in Seq(S)
         /\ \E f : Parts(f, ss, Compare!FlattenSeq(ss))
<1> DEFINE n == Len(ss)
           T == Seq(S)
           none == <<>>
           count == [q \in Nat \X (1 .. n) |-> q[1] + Len(ss[q[2]])]
           join == [q \in T \X (1 .. n) |-> q[1] \o ss[q[2]]]
<1>1. /\ n \in Nat /\ none \in T /\ Len(none) = 0
      /\ \A k \in 1 .. n : ss[k] \in T /\ Len(ss[k]) \in Nat
  OBVIOUS
<1>2. count \in Steps(n, Nat)
  BY <1>1 DEF Steps
<1>3. join \in Steps(n, T)
  BY <1>1 DEF Steps
<1>4. PICK f : Solves(f, n, Nat, 0, count)
  <2> HIDE DEF n, count
  <2> QED BY <1>1, <1>2, Recursion
<1>5. PICK g : Solves(g, n, T, none, join)
  <2> HIDE DEF n, T, none, join
  <2> QED BY <1>1, <1>3, Recursion
<1>6. f \in [0 .. n -> Nat] /\ f[0] = 0 /\ \A k \in 1 .. n : f[k] = f[k - 1] + Len(ss[k])
  <2>1. ASSUME NEW k \in 1 .. n PROVE f[k] = f[k - 1] + Len(ss[k])
    <3>1. <<f[k - 1], k>> \in Nat \X (1 .. n) /\ f[k] = count[<<f[k - 1], k>>]
      <4> HIDE DEF count, n
      <4> QED BY <1>1, <1>4 DEF Solves
    <3> QED BY <3>1
  <2> QED BY <1>4, <2>1 DEF Solves
<1>7. g \in [0 .. n -> T] /\ g[0] = none /\ \A k \in 1 .. n : g[k] = g[k - 1] \o ss[k]
  <2>1. ASSUME NEW k \in 1 .. n PROVE g[k] = g[k - 1] \o ss[k]
    <3>1. <<g[k - 1], k>> \in T \X (1 .. n) /\ g[k] = join[<<g[k - 1], k>>]
      <4> HIDE DEF join, n, T
      <4> QED BY <1>1, <1>5 DEF Solves
    <3> QED BY <3>1
  <2> QED BY <1>5, <2>1 DEF Solves
<1> HIDE DEF count, join
<1>8. Compare!FlattenSeq(ss) = g[n]
  <2> DEFINE Rule(h) == [k \in 1 .. n |-> IF k = 1 THEN ss[k] ELSE h[k - 1] \o ss[k]]
             flatten == CHOOSE h : h = Rule(h)
  <2>1. Compare!FlattenSeq(ss) = IF n = 0 THEN ss ELSE flatten[n]
    BY DEF Compare!FlattenSeq
  <2>2. CASE n = 0
    <3>1. ss = none
      BY <2>2
    <3> QED BY <1>7, <2>1, <2>2, <3>1
  <2>3. CASE n # 0
    <3>1. PICK h : h = [k \in 1 .. n |-> g[k]]
      OBVIOUS
    <3>2. \A k \in 1 .. n : h[k] = IF k = 1 THEN ss[k] ELSE h[k - 1] \o ss[k]
      <4>1. ASSUME NEW k \in 1 .. n, k # 1 PROVE h[k] = h[k - 1] \o ss[k]
        <5>1. k \in 1 .. n /\ k - 1 \in 1 .. n
          BY <1>1, <4>1
        <5>2. h[k] = g[k] /\ h[k - 1] = g[k - 1] /\ g[k] = g[k - 1] \o ss[k]
          <6> HIDE DEF n
          <6> QED BY <1>7, <3>1, <5>1
        <5> QED BY <5>2
      <4>2. ASSUME NEW k \in 1 .. n, k = 1 PROVE h[k] = ss[k]
        <5>1. 1 \in 1 .. n /\ 1 - 1 = 0
          BY <1>1, <2>3
        <5>2. g[1] = none \o ss[1] /\ ss[1] \in T
          <6> HIDE DEF n, none, T
          <6> QED BY <1>1, <1>7, <5>1
        <5>3. none \o ss[1] = ss[1]
          BY <5>2
        <5>4. h[1] = g[1]
          <6> HIDE DEF n
          <6> QED BY <3>1, <5>1
        <5> QED BY ONLY <4>2, <5>2, <5>3, <5>4
      <4> QED BY <4>1, <4>2
    <3>3. h = Rule(h)
      BY <3>1, <3>2
    <3>4. flatten = Rule(flatten)
      <4> HIDE DEF Rule
      <4> QED BY <3>3
    <3> HIDE DEF flatten
    <3>5. \A k \in 1 .. n : flatten[k] = IF k = 1 THEN ss[k] ELSE flatten[k - 1] \o ss[k]
      BY <3>4
    <3> DEFINE Q == {k \in 0 .. n : k > 0 => flatten[k] = h[k]}
    <3>6. \A k \in 0 .. n : k \in Q
      <4>1. 0 \in Q
        OBVIOUS
      <4>2. ASSUME NEW k \in 1 .. n, k - 1 \in Q PROVE k \in Q
        BY <3>2, <3>5, <4>2
      <4> HIDE DEF Q, n
      <4> QED BY <1>1, <4>1, <4>2, Induct
    <3>7. flatten[n] = g[n]
      <4>1. n \in Q /\ n > 0 /\ n \in 1 .. n
        <5> HIDE DEF Q
        <5> QED BY <1>1, <2>3, <3>6
      <4>2. flatten[n] = h[n]
        BY <4>1
      <4> HIDE DEF n
      <4> QED BY <3>1, <4>1, <4>2
    <3> QED BY <2>1, <2>3, <3>7
  <2> QED BY <2>2, <2>3
<1>9. \A k \in 1 .. n :
        /\ f[k - 1] \in Nat /\ f[k] \in Nat /\ f[k] = f[k - 1] + Len(ss[k]) /\ Len(ss[k]) \in Nat
        /\ g[k - 1] \in T /\ g[k] \in T /\ ss[k] \in T /\ g[k] = g[k - 1] \o ss[k]
  <2> HIDE DEF n, T, none
  <2> SUFFICES ASSUME NEW k \in 1 .. n
      PROVE /\ f[k - 1] \in Nat /\ f[k] \in Nat
            /\ f[k] = f[k - 1] + Len(ss[k]) /\ Len(ss[k]) \in Nat
            /\ g[k - 1] \in T /\ g[k] \in T /\ ss[k] \in T /\ g[k] = g[k - 1] \o ss[k]
    OBVIOUS
  <2>1. k - 1 \in 0 .. n /\ k \in 0 .. n
    BY <1>1
  <2>2. f[k - 1] \in Nat /\ f[k] \in Nat /\ f[k] = f[k - 1] + Len(ss[k])
    BY <1>6, <2>1
  <2>3. g[k - 1] \in T /\ g[k] \in T /\ g[k] = g[k - 1] \o ss[k]
    BY <1>7, <2>1
  <2> QED BY <1>1, <2>2, <2>3
<1> HIDE DEF n
<1> DEFINE Fits(k) ==
             /\ Len(g[k]) = f[k]
             /\ \A q \in 0 .. k : f[q] <= f[k]
             /\ \A q \in 1 .. k : \A m \in 1 .. Len(ss[q]) :
                  f[q - 1] + m <= f[k] /\ g[k][f[q - 1] + m] = ss[q][m]
           Q == {k \in 0 .. n : Fits(k)}
<1>10. 0 \in Q
  <2>1. Len(g[0]) = 0 /\ f[0] = 0
    <3> HIDE DEF none
    <3> QED BY <1>1, <1>6, <1>7
  <2>2. Fits(0)
    BY <2>1
  <2> QED BY <1>1, <2>2
<1>11. ASSUME NEW k \in 1 .. n, k - 1 \in Q PROVE k \in Q
  <2>1. PICK old : old = g[k - 1]
    OBVIOUS
  <2>2. PICK add : add = ss[k]
    OBVIOUS
  <2>3. PICK new : new = g[k]
    OBVIOUS
  <2>4. /\ old \in Seq(S) /\ add \in Seq(S) /\ new = old \o add
        /\ f[k] = f[k - 1] + Len(add) /\ f[k - 1] \in Nat /\ Len(old) = f[k - 1]
        /\ \A q \in 0 .. k - 1 : f[q] <= f[k - 1]
        /\ \A q \in 1 .. k - 1 : \A m \in 1 .. Len(ss[q]) :
             f[q - 1] + m <= f[k - 1] /\ old[f[q - 1] + m] = ss[q][m]
    BY <1>9, <1>11, <2>1, <2>2, <2>3
  <2>5. /\ Len(new) = f[k] /\ Len(old) \in Nat /\ Len(add) \in Nat
        /\ \A q \in 1 .. f[k - 1] : new[q] = old[q]
        /\ \A q \in 1 .. Len(add) : new[f[k - 1] + q] = add[q]
    <3>1. /\ old \in Seq(S) /\ add \in Seq(S) /\ new = old \o add
          /\ f[k - 1] \in Nat /\ Len(old) = f[k - 1] /\ f[k] = f[k - 1] + Len(add)
      BY <2>4
    <3>2. Adds(new, old, add)
      BY <3>1, JoinedAfter
    <3>3. Len(old) \in Nat /\ Len(add) \in Nat
      BY <3>1
    <3> QED BY ONLY <3>1, <3>2, <3>3 DEF Adds
  <2>6. \A q \in 0 .. k : f[q] <= f[k]
    <3>1. ASSUME NEW q \in 0 .. k PROVE f[q] <= f[k]
      <4>1. CASE q = k
        <5>1. f[k] \in Nat
          BY ONLY <1>9, <1>11
        <5> QED BY ONLY <4>1, <5>1
      <4>2. CASE q # k
        <5>1. q \in 0 .. k - 1 /\ q \in 0 .. n
          BY <1>1, <4>2
        <5>2. f[q] \in Nat /\ f[q] <= f[k - 1]
          BY <1>6, <2>4, <5>1
        <5> QED BY <2>4, <2>5, <5>2
      <4> QED BY <4>1, <4>2
    <3> QED BY <3>1
  <2>7. ASSUME NEW q \in 1 .. k, NEW m \in 1 .. Len(ss[q])
        PROVE  f[q - 1] + m <= f[k] /\ new[f[q - 1] + m] = ss[q][m]
    <3>1. q - 1 \in 0 .. n /\ f[q - 1] \in Nat /\ Len(ss[q]) \in Nat
      BY <1>1, <1>6
    <3>2. CASE q = k
      <4>1. m \in 1 .. Len(add) /\ ss[q] = add /\ q - 1 = k - 1
        BY <2>2, <3>2
      <4>2. new[f[k - 1] + m] = add[m]
        BY ONLY <2>5, <4>1
      <4>3. f[k - 1] + m <= f[k]
        BY <2>4, <2>5, <4>1
      <4> QED BY ONLY <3>2, <4>1, <4>2, <4>3
    <3>3. CASE q # k
      <4>1. q \in 1 .. k - 1
        BY <3>3
      <4>2. f[q - 1] + m <= f[k - 1] /\ old[f[q - 1] + m] = ss[q][m]
        BY <2>4, <4>1
      <4>3. f[q - 1] + m \in 1 .. f[k - 1]
        <5>1. m \in Nat \ {0} /\ f[q - 1] \in Nat /\ f[k - 1] \in Nat /\ Len(old) = f[k - 1]
          BY <2>4, <3>1
        <5>2. PICK at : at = f[q - 1] + m
          OBVIOUS
        <5>3. at \in Nat \ {0} /\ at <= f[k - 1]
          BY ONLY <4>2, <5>1, <5>2
        <5> QED BY ONLY <5>1, <5>2, <5>3
      <4>4. new[f[q - 1] + m] = old[f[q - 1] + m]
        BY ONLY <2>5, <4>3
      <4>5. f[k - 1] <= f[k] /\ f[k - 1] \in Nat /\ f[k] \in Nat
        BY ONLY <2>4, <2>5
      <4> QED BY <3>1, <4>2, <4>4, <4>5
    <3> QED BY <3>2, <3>3
  <2>8. Fits(k)
    BY <2>3, <2>4, <2>5, <2>6, <2>7
  <2> QED BY <2>8
<1>12. n \in Q
  <2>1. \A k \in 0 .. n : k \in Q
    <3> HIDE DEF Q
    <3> QED BY <1>1, <1>10, <1>11, Induct
  <2>2. n \in 0 .. n
    BY ONLY <1>1
  <2> QED BY ONLY <2>1, <2>2
<1>13. /\ Len(g[n]) = f[n] /\ \A k \in 0 .. n : f[k] <= f[n]
       /\ \A k \in 1 .. n : \A m \in 1 .. Len(ss[k]) :
            f[k - 1] + m <= f[n] /\ g[n][f[k - 1] + m] = ss[k][m]
  BY <1>12
<1>14. g[n] \in Seq(S)
  BY <1>1, <1>7
<1> HIDE DEF Q
<1>15. Parts(f, ss, g[n])
  BY <1>6, <1>13 DEF n, Parts
<1> QED BY <1>8, <1>14, <1>15

(* The log of Spike, line by line: three of the trampoline, those of every  *)
(* instruction, and from line f[Len(program)] on the ECALL.                 *)
LogLine == [kind : {"core", "commit", "other", "illegal", "end_trampoline"},
            i : Executed \cup {Compare!Ecall}]
Single(e) == e.kind = "write" /\ e.rd = "zero"
LogOf(f) ==
  LET n == Len(program) IN
  /\ f \in [0 .. n -> Nat] /\ f[0] = 4 /\ Len(Compare!SpikeLog) = f[n] + 2
  /\ \A k \in 1 .. 3 : Compare!SpikeLog[k].kind = "end_trampoline" <=> k = 3
  /\ \A k \in 0 .. n : f[k] <= f[n]
  /\ \A k \in 1 .. n :
       /\ f[k] = IF Single(program[k]) THEN f[k - 1] + 1 ELSE f[k - 1] + 2
       /\ Compare!SpikeLog[f[k - 1]] = Compare!Core(program[k])
       /\ ~Single(program[k]) =>
            Compare!SpikeLog[f[k - 1] + 1] = Compare!Lines(program[k])[2]
  /\ Compare!SpikeLog[f[n]] = Compare!Core(Compare!Ecall)

LEMMA ExecutedParts ==
  ASSUME NEW e \in Executed
  PROVE  /\ e.kind \in {"write", "store", "illegal"} /\ e.rd \in Compare!Regs /\ e.val \in Int
         /\ e = [kind |-> e.kind, rd |-> e.rd, val |-> e.val]
BY DEF Executed

LEMMA LinesAre ==
  ASSUME NEW e \in Executed
  PROVE  /\ Compare!Lines(e) \in Seq(LogLine)
         /\ Len(Compare!Lines(e)) = IF Single(e) THEN 1 ELSE 2
         /\ Compare!Lines(e)[1] = Compare!Core(e)
         /\ e.kind = "write" /\ e.rd # "zero" => Compare!Lines(e)[2] = Compare!Line("commit", e)
         /\ e.kind = "store" => Compare!Lines(e)[2] = Compare!Line("other", e)
         /\ e.kind = "illegal" => Compare!Lines(e)[2] = Compare!Line("illegal", e)
<1>1. /\ Compare!Core(e) \in LogLine /\ Compare!Line("commit", e) \in LogLine
      /\ Compare!Line("other", e) \in LogLine /\ Compare!Line("illegal", e) \in LogLine
  BY DEF LogLine, Compare!Core, Compare!Line
<1>2. CASE Single(e)
  <2>1. Compare!Lines(e) = <<Compare!Core(e)>>
    BY <1>2 DEF Single, Compare!Lines
  <2> QED BY <1>1, <1>2, <2>1 DEF Single
<1>3. CASE e.kind = "write" /\ ~Single(e)
  <2>1. Compare!Lines(e) = <<Compare!Core(e), Compare!Line("commit", e)>>
    BY <1>3 DEF Single, Compare!Lines
  <2> QED BY <1>1, <1>3, <2>1
<1>4. CASE e.kind = "store"
  <2>1. Compare!Lines(e) = <<Compare!Core(e), Compare!Line("other", e)>>
    BY <1>4 DEF Compare!Lines
  <2> QED BY <1>1, <1>4, <2>1 DEF Single
<1>5. CASE e.kind = "illegal"
  <2>1. Compare!Lines(e) = <<Compare!Core(e), Compare!Line("illegal", e)>>
    BY <1>5 DEF Compare!Lines
  <2> QED BY <1>1, <1>5, <2>1 DEF Single
<1> QED BY <1>2, <1>3, <1>4, <1>5, ExecutedParts

LEMMA SpikeLogIs == ASSUME program \in Seq(Executed) PROVE \E f : LogOf(f)
<1> DEFINE n == Len(program)
           ss == [k \in 1 .. n |-> Compare!Lines(program[k])]
           flat == Compare!FlattenSeq(ss)
           ecall == Compare!Lines(Compare!Ecall)
           handler == Compare!Lines(Compare!Handler)
           start == Compare!Trampoline
           log == Compare!SpikeLog
<1>1. n \in Nat /\ \A k \in 1 .. n : program[k] \in Executed
  OBVIOUS
<1>2. ss \in Seq(Seq(LogLine)) /\ Len(ss) = n
      /\ \A k \in 1 .. n : ss[k] = Compare!Lines(program[k])
  <2>1. \A k \in 1 .. n : Compare!Lines(program[k]) \in Seq(LogLine)
    BY <1>1, LinesAre
  <2> HIDE DEF n
  <2> QED BY <1>1, <2>1
<1>3. flat \in Seq(LogLine) /\ \E g : Parts(g, ss, flat)
  <2> HIDE DEF ss, n
  <2> QED BY ONLY <1>2, Flattened
<1>0. PICK g : Parts(g, ss, flat)
  BY <1>3
<1>4. ecall \in Seq(LogLine) /\ Len(ecall) = 1 /\ ecall[1] = Compare!Core(Compare!Ecall)
  <2>1. ecall = <<Compare!Core(Compare!Ecall)>>
    BY DEF Compare!Lines, Compare!Ecall
  <2>2. Compare!Core(Compare!Ecall) \in LogLine
    BY DEF LogLine, Compare!Core
  <2> QED BY <2>1, <2>2
<1>5. handler \in Seq(LogLine) /\ Len(handler) = 2
  <2>1. Compare!Handler \in Executed /\ ~Single(Compare!Handler)
    BY DEF Compare!Handler, Compare!Write, Executed, Single, Compare!Regs
  <2> QED BY <2>1, LinesAre
<1>6. /\ start \in Seq(LogLine) /\ Len(start) = 3
      /\ \A k \in 1 .. 3 : start[k].kind = "end_trampoline" <=> k = 3
  <2>1. Compare!Write("b", 5) \in Executed
    BY DEF Compare!Write, Executed, Compare!Regs
  <2>2. /\ Compare!Core(Compare!Write("b", 5)) \in LogLine
        /\ Compare!Line("commit", Compare!Write("b", 5)) \in LogLine
        /\ Compare!Line("end_trampoline", Compare!Ecall) \in LogLine
    BY <2>1 DEF LogLine, Compare!Core, Compare!Line
  <2>3. /\ start \in Seq(LogLine) /\ Len(start) = 3
        /\ start[1] = Compare!Core(Compare!Write("b", 5))
        /\ start[2] = Compare!Line("commit", Compare!Write("b", 5))
        /\ start[3] = Compare!Line("end_trampoline", Compare!Ecall)
    BY <2>2 DEF Compare!Trampoline
  <2> QED BY <2>3 DEF Compare!Core, Compare!Line
<1>7. log = ((start \o flat) \o ecall) \o handler
  BY DEF Compare!SpikeLog
<1> HIDE DEF n, ss, flat, ecall, handler, start, log
<1>14. /\ g \in [0 .. n -> Nat] /\ g[0] = 0 /\ Len(flat) = g[n]
       /\ \A k \in 1 .. n : g[k] = g[k - 1] + Len(ss[k])
       /\ \A k \in 0 .. n : g[k] <= g[n]
       /\ \A k \in 1 .. n : \A m \in 1 .. Len(ss[k]) :
            g[k - 1] + m <= g[n] /\ flat[g[k - 1] + m] = ss[k][m]
  BY ONLY <1>0, <1>2 DEF Parts
<1>8. /\ Len(log) = g[n] + 6 /\ g[n] \in Nat
      /\ \A k \in 1 .. 3 : log[k] = start[k]
      /\ \A k \in 1 .. g[n] : log[3 + k] = flat[k]
      /\ log[4 + g[n]] = ecall[1]
  <2>1. PICK u : u = start \o flat
    OBVIOUS
  <2>2. PICK v : v = u \o ecall
    OBVIOUS
  <2>3. g[n] \in Nat
    BY <1>1, <1>14
  <2>4. u \in Seq(LogLine) /\ Adds(u, start, flat)
    BY <1>3, <1>6, <2>1, JoinedAfter
  <2>5. v \in Seq(LogLine) /\ Adds(v, u, ecall)
    BY <1>4, <2>2, <2>4, JoinedAfter
  <2>6. Adds(log, v, handler)
    BY <1>5, <1>7, <2>1, <2>2, <2>5, JoinedAfter
  <2>7. /\ Len(u) = 3 + g[n]
        /\ \A k \in 1 .. 3 : u[k] = start[k]
        /\ \A k \in 1 .. g[n] : u[3 + k] = flat[k]
    BY ONLY <2>4, <1>6, <1>14 DEF Adds
  <2>8. /\ Len(v) = 4 + g[n]
        /\ \A k \in 1 .. 3 + g[n] : v[k] = u[k]
        /\ v[4 + g[n]] = ecall[1]
    <3>1. /\ Len(v) = (3 + g[n]) + 1
          /\ \A k \in 1 .. 3 + g[n] : v[k] = u[k]
          /\ \A k \in 1 .. 1 : v[(3 + g[n]) + k] = ecall[k]
      BY ONLY <1>4, <2>5, <2>7 DEF Adds
    <3>2. (3 + g[n]) + 1 = 4 + g[n]
      BY <2>3
    <3> QED BY <3>1, <3>2
  <2>9. /\ Len(log) = (4 + g[n]) + 2
        /\ \A k \in 1 .. 4 + g[n] : log[k] = v[k]
    BY ONLY <1>5, <2>6, <2>8 DEF Adds
  <2>10. ASSUME NEW k \in 1 .. g[n] PROVE log[3 + k] = flat[k]
    <3>1. PICK at : at = 3 + k
      OBVIOUS
    <3>2. at \in 1 .. 3 + g[n] /\ at \in 1 .. 4 + g[n]
      BY <2>3, <3>1
    <3>3. log[at] = u[at]
      BY ONLY <2>8, <2>9, <3>2
    <3> QED BY <2>7, <3>1, <3>3
  <2>11. ASSUME NEW k \in 1 .. 3 PROVE log[k] = start[k]
    <3>1. k \in 1 .. 3 + g[n] /\ k \in 1 .. 4 + g[n]
      BY <2>3
    <3> QED BY <2>7, <2>8, <2>9, <3>1
  <2>12. log[4 + g[n]] = ecall[1] /\ Len(log) = g[n] + 6
    <3>1. 4 + g[n] \in 1 .. 4 + g[n] /\ (4 + g[n]) + 2 = g[n] + 6
      BY <2>3
    <3> QED BY <2>8, <2>9, <3>1
  <2> QED BY <2>3, <2>10, <2>11, <2>12
<1>9. PICK f : f = [k \in 0 .. n |-> g[k] + 4]
  OBVIOUS
<1>10. /\ f \in [0 .. n -> Nat] /\ f[0] = 4 /\ Len(log) = f[n] + 2
       /\ \A k \in 0 .. n : f[k] = g[k] + 4 /\ g[k] \in Nat
       /\ \A k \in 0 .. n : f[k] <= f[n]
  BY <1>1, <1>14, <1>8, <1>9
<1>11. ASSUME NEW k \in 1 .. n
       PROVE  /\ f[k] = IF Single(program[k]) THEN f[k - 1] + 1 ELSE f[k - 1] + 2
              /\ log[f[k - 1]] = Compare!Core(program[k])
              /\ ~Single(program[k]) => log[f[k - 1] + 1] = Compare!Lines(program[k])[2]
  <2>1. /\ program[k] \in Executed /\ ss[k] = Compare!Lines(program[k])
        /\ k - 1 \in 0 .. n /\ k \in 0 .. n
    BY <1>1, <1>2
  <2>2. /\ Len(ss[k]) = IF Single(program[k]) THEN 1 ELSE 2
        /\ ss[k][1] = Compare!Core(program[k])
    BY <2>1, LinesAre
  <2>3. /\ g[k] = g[k - 1] + Len(ss[k]) /\ f[k] = g[k] + 4 /\ f[k - 1] = g[k - 1] + 4
        /\ g[k] \in Nat /\ g[k - 1] \in Nat
    BY <1>14, <1>10, <2>1
  <2>4. ASSUME NEW m \in 1 .. Len(ss[k]) PROVE log[f[k - 1] + m - 1] = ss[k][m]
    <3>1. g[k - 1] + m <= g[n] /\ flat[g[k - 1] + m] = ss[k][m]
      BY <1>14
    <3>2. m \in Nat \ {0} /\ g[k - 1] + m \in 1 .. g[n]
      <4>1. m \in Nat \ {0}
        BY <2>2
      <4>2. g[n] \in Nat /\ g[k - 1] \in Nat
        BY <1>8, <2>3
      <4> QED BY ONLY <3>1, <4>1, <4>2
    <3>3. log[3 + (g[k - 1] + m)] = flat[g[k - 1] + m]
      BY ONLY <1>8, <3>2
    <3>4. f[k - 1] + m - 1 = 3 + (g[k - 1] + m)
      BY <2>3, <3>2
    <3> QED BY <3>1, <3>3, <3>4
  <2>5. log[f[k - 1] + 1 - 1] = ss[k][1]
    <3>1. 1 \in 1 .. Len(ss[k])
      BY <2>2
    <3> QED BY <2>4, <3>1
  <2>6. ~Single(program[k]) => log[f[k - 1] + 2 - 1] = ss[k][2]
    <3>1. ~Single(program[k]) => 2 \in 1 .. Len(ss[k])
      BY <2>2
    <3> QED BY <2>4, <3>1
  <2>7. f[k - 1] \in Nat /\ f[k - 1] + 1 - 1 = f[k - 1] /\ f[k - 1] + 2 - 1 = f[k - 1] + 1
    BY <2>3
  <2> QED BY <2>1, <2>2, <2>3, <2>5, <2>6, <2>7
<1>12. log[f[n]] = Compare!Core(Compare!Ecall)
  <2>1. f[n] = g[n] + 4 /\ g[n] \in Nat
    BY <1>1, <1>10
  <2>2. f[n] = 4 + g[n]
    BY ONLY <2>1
  <2> QED BY ONLY <1>4, <1>8, <2>2
<1>13. \A k \in 1 .. 3 : log[k].kind = "end_trampoline" <=> k = 3
  BY <1>6, <1>8
<1>15. LogOf(f)
  BY <1>10, <1>11, <1>12, <1>13 DEF LogOf, n, log
<1> QED BY <1>15

(* What has been read of Spike's log: the rows of the instructions so far,  *)
(* the last of them perhaps still in hand.                                  *)
AllRows == Compare!RowsUpTo(program)
Flushed == IF instr # <<>> THEN Compare!Yielded(instr[1]) ELSE csv_1
AtLine(f, k) == line = f[k] /\ Flushed = AllRows[k]
AtEffect(f, k) ==
  /\ line = f[k - 1] + 1 /\ ~Single(program[k])
  /\ instr = <<Compare!Entry(program[k])>> /\ csv_1 = AllRows[k - 1]
AtEnd ==
  /\ line = Len(Compare!SpikeLog) + 1
  /\ instr = <<Compare!Entry(Compare!Ecall)>> /\ csv_1 = AllRows[Len(program)]
Reading(f) ==
  IF in_trampoline THEN line \in 1 .. 3 /\ instr = <<>> /\ csv_1 = <<>>
  ELSE \/ \E k \in 0 .. Len(program) : AtLine(f, k)
       \/ \E k \in 1 .. Len(program) : AtEffect(f, k)
       \/ AtEnd
ReadInv ==
  /\ program \in Programs /\ deviation \in Deviations /\ CsvTypes
  /\ stage = "spike" => \E f : LogOf(f) /\ Reading(f)
  /\ stage = "rtl" => line \in Nat \ {0}
  /\ stage # "spike" => csv_1 = Append(AllRows[Len(program)], <<>>)

LEMMA ProgramIs ==
  ASSUME program \in Programs
  PROVE  /\ program \in Seq(Executed) /\ Len(program) \in Nat
         /\ \A k \in 1 .. Len(program) : program[k] \in Executed
         /\ AllRows \in [0 .. Len(program) -> Seq(Row)] /\ AllRows[0] = <<>>
         /\ \A k \in 1 .. Len(program) : AllRows[k] = Written(program[k], AllRows[k - 1])
<1>1. program \in Seq(Executed)
  BY TraceAssumption DEF Executed, Compare!Regs
<1>2. Len(program) \in Nat /\ \A k \in 1 .. Len(program) : program[k] \in Executed
  BY <1>1
<1> QED BY <1>1, <1>2, RowsAre DEF AllRows

(* One line after the trampoline, by its kind.                              *)
LEMMA LineRead ==
  ASSUME Compare!ReadSpike, ~in_trampoline, NEW l, l = Compare!SpikeLog[line], NEW e, l.i = e
  PROVE  /\ in_trampoline' = in_trampoline /\ line <= Len(Compare!SpikeLog)
         /\ UNCHANGED <<program, deviation, stage, csv_2>> /\ UNCHANGED Compare!cmpVars
         /\ l.kind = "core" =>
              /\ line' = IF e.kind = "ecall" THEN Len(Compare!SpikeLog) + 1 ELSE line + 1
              /\ instr' = <<Compare!Entry(e)>> /\ csv_1' = Flushed
         /\ l.kind = "illegal" => line' = line + 1 /\ instr' = <<>> /\ csv_1' = Flushed
         /\ l.kind = "other" => line' = line + 1 /\ instr' = instr /\ csv_1' = csv_1
         /\ l.kind = "commit" /\ instr # <<>> =>
              /\ line' = line + 1 /\ csv_1' = csv_1
              /\ instr' = <<[instr[1] EXCEPT !.gpr = Append(@, <<e.rd, e.val>>)]>>
<1>1. /\ in_trampoline' = in_trampoline /\ line <= Len(Compare!SpikeLog)
      /\ line' = IF l.kind = "core" /\ e.kind = "ecall"
                   THEN Len(Compare!SpikeLog) + 1 ELSE line + 1
      /\ csv_1' = IF instr # <<>> /\ Compare!Ends(l) THEN Compare!Yielded(instr[1]) ELSE csv_1
      /\ UNCHANGED <<program, deviation, stage, csv_2>> /\ UNCHANGED Compare!cmpVars
  BY DEF Compare!ReadSpike
<1>2. instr' = CASE l.kind = "core" -> <<Compare!Entry(e)>>
                 [] l.kind = "illegal" -> <<>>
                 [] l.kind = "commit" /\ instr # <<>> ->
                      <<[instr[1] EXCEPT !.gpr = Append(@, <<e.rd, e.val>>)]>>
                 [] OTHER -> instr
  BY DEF Compare!ReadSpike
<1>3. CASE l.kind = "core"
  BY <1>1, <1>2, <1>3 DEF Compare!Ends, Flushed
<1>4. CASE l.kind = "illegal"
  BY <1>1, <1>2, <1>4 DEF Compare!Ends, Flushed
<1>5. CASE l.kind = "other"
  BY <1>1, <1>2, <1>5 DEF Compare!Ends
<1>6. CASE l.kind = "commit" /\ instr # <<>>
  BY <1>1, <1>2, <1>6 DEF Compare!Ends
<1>7. CASE l.kind \notin {"core", "illegal", "other"} /\ ~(l.kind = "commit" /\ instr # <<>>)
  BY <1>1, <1>7
<1> QED BY <1>3, <1>4, <1>5, <1>6, <1>7

LEMMA EntryIs ==
  ASSUME NEW e, instr = <<Compare!Entry(e)>>
  PROVE  instr # <<>> /\ Flushed = IF e.kind = "ecall" THEN Append(csv_1, <<>>) ELSE csv_1
<1>1. instr # <<>> /\ instr[1] = Compare!Entry(e)
  OBVIOUS
<1>2. instr[1].gpr = <<>> /\ instr[1].kind = e.kind
  BY <1>1 DEF Compare!Entry
<1> QED BY <1>1, <1>2 DEF Flushed, Compare!Yielded

LEMMA LogStays ==
  ASSUME program' = program, NEW f, LogOf(f)
  PROVE  LogOf(f)' /\ AllRows' = AllRows /\ Compare!SpikeLog' = Compare!SpikeLog
<1>1. Compare!SpikeLog' = Compare!SpikeLog
  BY DEF Compare!SpikeLog
<1> QED BY <1>1 DEF LogOf, AllRows

LEMMA ReadTrampoline ==
  ASSUME ReadInv, Compare!ReadSpike, in_trampoline, NEW f, LogOf(f), Reading(f)
  PROVE  csv_1' = csv_1 /\ Reading(f)'
<1>1. line \in 1 .. 3 /\ instr = <<>> /\ csv_1 = <<>>
  BY DEF Reading
<1>2. /\ in_trampoline' = (Compare!SpikeLog[line].kind # "end_trampoline")
      /\ line' = line + 1 /\ UNCHANGED <<program, instr, csv_1>>
  BY DEF Compare!ReadSpike
<1>3. in_trampoline' = (line # 3)
  BY <1>1, <1>2 DEF LogOf
<1>4. CASE line = 3
  <2>1. line' = f[0] /\ 0 \in 0 .. Len(program)
    BY <1>2, <1>4, ProgramIs DEF LogOf, ReadInv
  <2>2. Flushed' = csv_1'
    BY <1>1, <1>2 DEF Flushed
  <2>3. AllRows'[0] = <<>>
    <3>1. AllRows[0] = <<>>
      BY ProgramIs DEF ReadInv
    <3>2. AllRows' = AllRows
      BY <1>2 DEF AllRows
    <3> QED BY <3>1, <3>2
  <2>4. AtLine(f, 0)'
    BY <1>1, <1>2, <2>1, <2>2, <2>3 DEF AtLine
  <2> QED BY <1>2, <1>3, <1>4, <2>1, <2>4 DEF Reading
<1>5. CASE line # 3
  <2>1. in_trampoline' = TRUE
    BY ONLY <1>3, <1>5
  <2>2. line' \in 1 .. 3
    <3>1. line \in 1 .. 2 /\ line' = line + 1
      BY <1>1, <1>2, <1>5
    <3> QED BY ONLY <3>1
  <2> QED BY <1>1, <1>2, <2>1, <2>2 DEF Reading
<1> QED BY <1>4, <1>5

(* The first line of an instruction. *)
LEMMA ReadCore ==
  ASSUME ReadInv, Compare!ReadSpike, ~in_trampoline, NEW f, LogOf(f),
         NEW k \in 0 .. Len(program), AtLine(f, k)
  PROVE  csv_1' = AllRows[k] /\ Reading(f)'
<1> DEFINE n == Len(program)
<1>1. /\ n \in Nat /\ \A m \in 1 .. n : program[m] \in Executed
      /\ AllRows \in [0 .. n -> Seq(Row)]
      /\ \A m \in 1 .. n : AllRows[m] = Written(program[m], AllRows[m - 1])
  BY ProgramIs DEF ReadInv
<1>2. UNCHANGED <<program, in_trampoline>>
  BY DEF Compare!ReadSpike
<1>3. AllRows' = AllRows /\ Compare!SpikeLog' = Compare!SpikeLog
  BY <1>2, LogStays
<1>4. CASE k = n
  <2>1. Compare!SpikeLog[line] = Compare!Core(Compare!Ecall)
    BY <1>4 DEF AtLine, LogOf
  <2>2. Compare!Core(Compare!Ecall).i = Compare!Ecall /\ Compare!Core(Compare!Ecall).kind = "core"
        /\ Compare!Ecall.kind = "ecall"
    BY DEF Compare!Core, Compare!Ecall
  <2>3. /\ line' = Len(Compare!SpikeLog) + 1 /\ instr' = <<Compare!Entry(Compare!Ecall)>>
        /\ csv_1' = Flushed
    BY <2>1, <2>2, LineRead
  <2>4. AtEnd'
    BY <1>2, <1>3, <1>4, <2>3 DEF AtEnd, AtLine, Compare!Entry, Compare!Ecall
  <2> QED BY <1>2, <2>3, <2>4 DEF Reading, AtLine
<1>5. CASE k # n
  <2>1. PICK e : e = program[k + 1]
    OBVIOUS
  <2>2. /\ k + 1 \in 1 .. n /\ (k + 1) - 1 = k /\ e \in Executed /\ e.kind # "ecall"
        /\ AllRows[k + 1] = Written(e, AllRows[k])
    <3>1. k + 1 \in 1 .. n /\ (k + 1) - 1 = k
      BY ONLY <1>1, <1>5, k \in 0 .. n
    <3>2. e \in Executed /\ AllRows[k + 1] = Written(e, AllRows[k])
      BY ONLY <1>1, <2>1, <3>1
    <3>3. e.kind # "ecall"
      BY ONLY <3>2, ExecutedParts
    <3> QED BY <3>1, <3>2, <3>3
  <2>3. /\ Compare!SpikeLog[line] = Compare!Core(e)
        /\ f[k + 1] = IF Single(e) THEN f[k] + 1 ELSE f[k] + 2
    BY <2>1, <2>2 DEF AtLine, LogOf
  <2>4. Compare!Core(e).i = e /\ Compare!Core(e).kind = "core"
    BY DEF Compare!Core
  <2>5. line' = f[k] + 1 /\ instr' = <<Compare!Entry(e)>> /\ csv_1' = Flushed
    BY <2>2, <2>3, <2>4, LineRead DEF AtLine
  <2>6. csv_1' = AllRows[k]
    BY <2>5 DEF AtLine
  <2>7. CASE Single(e)
    <3>1. instr' # <<>> /\ instr'[1] = Compare!Entry(e)
      BY <2>5
    <3>2. Flushed' = csv_1'
      BY <2>2, <3>1 DEF Flushed, Compare!Yielded, Compare!Entry
    <3>3. AllRows[k + 1] = AllRows[k]
      BY <2>2, <2>7 DEF Written, Compare!Kept, Single
    <3>4. AtLine(f, k + 1)'
      BY <1>3, <2>3, <2>5, <2>6, <2>7, <3>2, <3>3 DEF AtLine
    <3>5. k + 1 \in 0 .. Len(program)'
      BY <1>2, <2>2
    <3> QED BY <1>2, <2>6, <3>4, <3>5 DEF Reading
  <2>8. CASE ~Single(e)
    <3>1. AtEffect(f, k + 1)'
      BY <1>2, <1>3, <2>1, <2>2, <2>5, <2>6, <2>8 DEF AtEffect, Single, Compare!Entry
    <3>2. k + 1 \in 1 .. Len(program)'
      BY <1>2, <2>2
    <3> QED BY <1>2, <2>6, <3>1, <3>2 DEF Reading
  <2> QED BY <2>7, <2>8
<1> QED BY <1>4, <1>5

(* Its second line: what it did. *)
LEMMA ReadEffect ==
  ASSUME ReadInv, Compare!ReadSpike, ~in_trampoline, NEW f, LogOf(f),
         NEW k \in 1 .. Len(program), AtEffect(f, k)
  PROVE  csv_1' = csv_1 /\ Reading(f)'
<1> DEFINE n == Len(program)
<1>1. PICK e : e = program[k]
  OBVIOUS
<1>2. n \in Nat /\ e \in Executed /\ AllRows[k] = Written(e, AllRows[k - 1]) /\ k \in 0 .. n
  BY <1>1, ProgramIs DEF ReadInv
<1>3. UNCHANGED <<program, in_trampoline>>
  BY DEF Compare!ReadSpike
<1>4. AllRows' = AllRows
  BY <1>3, LogStays
<1>5. /\ ~Single(e) /\ instr = <<Compare!Entry(e)>> /\ csv_1 = AllRows[k - 1]
      /\ line = f[k - 1] + 1
  BY <1>1 DEF AtEffect
<1>6. e.kind \in {"write", "store", "illegal"} /\ instr # <<>> /\ Flushed = csv_1
      /\ instr[1] = [kind |-> e.kind, gpr |-> <<>>]
  <2>1. instr[1] = Compare!Entry(e)
    BY <1>5
  <2> QED BY <1>2, <1>5, <2>1, ExecutedParts, EntryIs DEF Compare!Entry
<1>7. Compare!SpikeLog[line] = Compare!Lines(e)[2] /\ f[k] = f[k - 1] + 2 /\ f[k - 1] \in Nat
  BY <1>1, <1>2, <1>5 DEF LogOf
<1>8. line + 1 = f[k]
  BY <1>5, <1>7
<1>9. ASSUME line' = line + 1, csv_1' = csv_1, Flushed' = AllRows[k]
      PROVE  csv_1' = csv_1 /\ Reading(f)'
  <2>1. AtLine(f, k)'
    BY <1>4, <1>8, <1>9 DEF AtLine
  <2> QED BY <1>2, <1>3, <1>9, <2>1 DEF Reading
<1>10. CASE e.kind = "write"
  <2>1. /\ Compare!SpikeLog[line] = Compare!Line("commit", e) /\ e.rd # "zero"
        /\ Compare!Line("commit", e).i = e /\ Compare!Line("commit", e).kind = "commit"
    BY <1>2, <1>5, <1>7, <1>10, LinesAre DEF Single, Compare!Line
  <2>2. /\ line' = line + 1 /\ csv_1' = csv_1
        /\ instr' = <<[instr[1] EXCEPT !.gpr = Append(@, <<e.rd, e.val>>)]>>
    BY <1>6, <2>1, LineRead
  <2>3. instr' = <<[kind |-> e.kind, gpr |-> <<<<e.rd, e.val>>>>]>>
    BY <1>6, <2>2
  <2>4. instr' # <<>> /\ instr'[1].gpr = <<<<e.rd, e.val>>>> /\ instr'[1].gpr # <<>>
    BY <2>3
  <2>5. Flushed' = Append(csv_1', <<<<e.rd, e.val>>>>)
    BY <2>4 DEF Flushed, Compare!Yielded
  <2>6. AllRows[k] = Append(csv_1, <<<<e.rd, e.val>>>>)
    BY <1>2, <1>5, <1>10, <2>1 DEF Written, Compare!Kept
  <2> QED BY <1>9, <2>2, <2>5, <2>6
<1>11. CASE e.kind = "store"
  <2>1. /\ Compare!SpikeLog[line] = Compare!Line("other", e)
        /\ Compare!Line("other", e).i = e /\ Compare!Line("other", e).kind = "other"
    BY <1>2, <1>7, <1>11, LinesAre DEF Compare!Line
  <2>2. line' = line + 1 /\ csv_1' = csv_1 /\ instr' = instr
    BY <2>1, LineRead
  <2>3. Flushed' = Flushed
    BY <2>2 DEF Flushed, Compare!Yielded
  <2>4. AllRows[k] = csv_1
    BY <1>2, <1>5, <1>11 DEF Written, Compare!Kept
  <2> QED BY <1>6, <1>9, <2>2, <2>3, <2>4
<1>12. CASE e.kind = "illegal"
  <2>1. /\ Compare!SpikeLog[line] = Compare!Line("illegal", e)
        /\ Compare!Line("illegal", e).i = e /\ Compare!Line("illegal", e).kind = "illegal"
    BY <1>2, <1>7, <1>12, LinesAre DEF Compare!Line
  <2>2. line' = line + 1 /\ csv_1' = csv_1 /\ instr' = <<>>
    BY <1>6, <2>1, LineRead
  <2>3. Flushed' = csv_1'
    BY <2>2 DEF Flushed
  <2>4. AllRows[k] = csv_1
    BY <1>2, <1>5, <1>12 DEF Written, Compare!Kept
  <2> QED BY <1>9, <2>2, <2>3, <2>4
<1> QED BY <1>6, <1>10, <1>11, <1>12

LEMMA SpikeRead == ASSUME ReadInv, Compare!ReadSpike PROVE ReadInv'
<1>1. /\ stage = "spike" /\ line <= Len(Compare!SpikeLog)
      /\ UNCHANGED <<program, deviation, stage, csv_2>>
  BY DEF Compare!ReadSpike
<1>2. PICK f : LogOf(f) /\ Reading(f)
  BY <1>1 DEF ReadInv
<1>3. csv_1' \in Seq(Row) /\ Reading(f)'
  <2>1. csv_1 \in Seq(Row) /\ AllRows \in [0 .. Len(program) -> Seq(Row)] /\ Len(program) \in Nat
    BY ProgramIs DEF ReadInv, CsvTypes
  <2>2. CASE in_trampoline
    BY <1>2, <2>1, <2>2, ReadTrampoline
  <2>3. CASE ~in_trampoline
    <3>1. ~AtEnd
      <4>1. Len(Compare!SpikeLog) \in Nat
        BY <1>2, <2>1 DEF LogOf
      <4> QED BY <1>1, <4>1 DEF AtEnd
    <3>2. CASE \E k \in 0 .. Len(program) : AtLine(f, k)
      <4>1. PICK k \in 0 .. Len(program) : AtLine(f, k)
        BY <3>2
      <4>2. csv_1' = AllRows[k] /\ Reading(f)'
        BY <1>2, <2>3, <4>1, ReadCore
      <4> QED BY <2>1, <4>2
    <3>3. CASE \E k \in 1 .. Len(program) : AtEffect(f, k)
      <4>1. PICK k \in 1 .. Len(program) : AtEffect(f, k)
        BY <3>3
      <4>2. csv_1' = csv_1 /\ Reading(f)'
        BY <1>2, <2>3, <4>1, ReadEffect
      <4> QED BY <2>1, <4>2
    <3> QED BY <1>2, <2>3, <3>1, <3>2, <3>3 DEF Reading
  <2> QED BY <2>2, <2>3
<1>4. LogOf(f)'
  BY <1>1, <1>2, LogStays
<1>5. CsvTypes'
  BY <1>1, <1>3 DEF ReadInv, CsvTypes
<1> QED BY <1>1, <1>3, <1>4, <1>5 DEF ReadInv

LEMMA SpikeEnd == ASSUME ReadInv, Compare!EndSpike PROVE ReadInv'
<1>1. /\ stage = "spike" /\ line > Len(Compare!SpikeLog) /\ stage' = "rtl" /\ line' = 1
      /\ UNCHANGED <<program, deviation, csv_2>> /\ csv_1' = Flushed
  BY DEF Compare!EndSpike, Flushed
<1>2. PICK f : LogOf(f) /\ Reading(f)
  BY <1>1 DEF ReadInv
<1>3. /\ Len(program) \in Nat /\ f \in [0 .. Len(program) -> Nat]
      /\ Len(Compare!SpikeLog) = f[Len(program)] + 2 /\ f[0] = 4
      /\ \A k \in 0 .. Len(program) : f[k] <= f[Len(program)]
      /\ \A k \in 1 .. Len(program) :
           f[k] = IF Single(program[k]) THEN f[k - 1] + 1 ELSE f[k - 1] + 2
  BY <1>2, ProgramIs DEF LogOf, ReadInv
<1>4. Len(Compare!SpikeLog) \in Nat /\ Len(Compare!SpikeLog) >= 6
  BY <1>3
<1>5. AtEnd
  <2>1. ~in_trampoline
    BY <1>1, <1>2, <1>4 DEF Reading
  <2>2. ASSUME NEW k \in 0 .. Len(program) PROVE ~AtLine(f, k)
    BY <1>1, <1>3 DEF AtLine
  <2>3. ASSUME NEW k \in 1 .. Len(program) PROVE ~AtEffect(f, k)
    <3>1. k \in 0 .. Len(program) /\ k - 1 \in 0 .. Len(program)
      BY <1>3
    <3>4. PICK n \in Nat : n = Len(program)
      BY <1>3
    <3>2. f[k] \in Nat /\ f[k - 1] \in Nat /\ f[Len(program)] \in Nat /\ f[k] <= f[Len(program)]
      <4>1. n \in 0 .. n /\ k \in 0 .. n /\ k - 1 \in 0 .. n
        BY <3>1, <3>4
      <4> QED BY ONLY <1>3, <3>4, <4>1
    <3>3. ~Single(program[k]) => f[k] = f[k - 1] + 2
      BY <1>3
    <3> QED BY <1>1, <1>3, <3>2, <3>3 DEF AtEffect
  <2> QED BY <1>2, <2>1, <2>2, <2>3 DEF Reading
<1>6. csv_1' = Append(AllRows[Len(program)], <<>>)
  BY <1>1, <1>5, EntryIs DEF AtEnd, Compare!Ecall
<1>7. AllRows' = AllRows /\ AllRows[Len(program)] \in Seq(Row)
  BY <1>1, <1>2, <1>3, LogStays, ProgramIs DEF ReadInv
<1>8. CsvTypes'
  <2>1. <<>> \in Row
    BY DEF Row
  <2> QED BY <1>1, <1>6, <1>7, <2>1 DEF ReadInv, CsvTypes
<1> QED BY <1>1, <1>6, <1>7, <1>8 DEF ReadInv

LEMMA Replaced ==
  ASSUME NEW S, NEW s \in Seq(S), NEW n \in 1 .. Len(s), NEW e \in S
  PROVE  [s EXCEPT ![n] = e] \in Seq(S)
OBVIOUS

(* What the core retires are instructions, whatever the deviation.          *)
LEMMA RtlLogIs ==
  ASSUME program \in Programs, deviation \in Deviations
  PROVE  Compare!RtlLog \in Seq(Executed)
<1> DEFINE p == program
           d == deviation
           n == Len(program)
<1>1. p \in Seq(Executed) /\ n \in Nat /\ \A k \in 1 .. n : p[k] \in Executed
  BY ProgramIs
<1>2. d.kind \in {"data", "lost", "cut", "extra"} => d.at \in 1 .. n
  BY <1>1, TraceAssumption
<1>3. Compare!Write("b", 2) \in Executed /\ Compare!Handler \in Executed
  BY DEF Compare!Write, Compare!Handler, Executed, Compare!Regs
<1>4. CASE d.kind = "data"
  <2>1. Compare!RtlLog = [p EXCEPT ![d.at].val = p[d.at].val + 1]
    BY <1>4 DEF Compare!RtlLog, Compare!Deviating
  <2>2. p[d.at] \in Executed /\ d.at \in 1 .. n
    BY <1>1, <1>2, <1>4
  <2>3. [p[d.at] EXCEPT !.val = p[d.at].val + 1] \in Executed
    BY <2>2 DEF Executed
  <2>4. Compare!RtlLog = [p EXCEPT ![d.at] = [p[d.at] EXCEPT !.val = p[d.at].val + 1]]
    BY <2>1
  <2>5. PICK e : e = [p[d.at] EXCEPT !.val = p[d.at].val + 1]
    OBVIOUS
  <2>6. PICK at : at = d.at
    OBVIOUS
  <2>7. e \in Executed /\ at \in 1 .. n /\ Compare!RtlLog = [p EXCEPT ![at] = e]
    BY <2>2, <2>3, <2>4, <2>5, <2>6
  <2>8. program \in Seq(Executed)
    BY <1>1
  <2> QED BY ONLY <2>7, <2>8, Replaced
<1>5. CASE d.kind = "lost"
  <2>1. Compare!RtlLog = SubSeq(p, 1, d.at - 1) \o SubSeq(p, d.at + 1, n)
    BY <1>5 DEF Compare!RtlLog, Compare!Deviating, Compare!RemoveAt
  <2>2. SubSeq(p, 1, d.at - 1) \in Seq(Executed) /\ SubSeq(p, d.at + 1, n) \in Seq(Executed)
    BY <1>1, <1>2, <1>5
  <2> QED BY <2>1, <2>2
<1>6. CASE d.kind = "extra"
  <2>1. Compare!RtlLog = SubSeq(p, 1, d.at - 1) \o <<Compare!Write("b", 2)>> \o SubSeq(p, d.at, n)
    BY <1>6 DEF Compare!RtlLog, Compare!Deviating, Compare!InsertAt
  <2>2. SubSeq(p, 1, d.at - 1) \in Seq(Executed) /\ SubSeq(p, d.at, n) \in Seq(Executed)
    BY <1>1, <1>2, <1>6
  <2>3. <<Compare!Write("b", 2)>> \in Seq(Executed)
    BY <1>3
  <2> QED BY <2>1, <2>2, <2>3
<1>7. CASE d.kind = "cut"
  <2>1. Compare!RtlLog = SubSeq(p, 1, d.at - 1)
    BY <1>7 DEF Compare!RtlLog, Compare!Deviating
  <2> QED BY <1>1, <1>2, <1>7, <2>1
<1>8. CASE d.kind = "handler"
  <2>1. Compare!RtlLog = Append(p, Compare!Handler)
    BY <1>8 DEF Compare!RtlLog, Compare!Deviating
  <2> QED BY <1>1, <1>3, <2>1
<1>9. CASE d.kind \notin {"data", "lost", "extra", "cut", "handler"}
  <2>1. Compare!RtlLog = p
    BY <1>9 DEF Compare!RtlLog, Compare!Deviating
  <2> QED BY <1>1, <2>1
<1> QED BY <1>4, <1>5, <1>6, <1>7, <1>8, <1>9

LEMMA RtlRead == ASSUME ReadInv, Compare!ReadRtl PROVE ReadInv'
<1>1. /\ stage = "rtl" /\ line <= Len(Compare!RtlLog) /\ line' = line + 1
      /\ UNCHANGED <<program, deviation, stage, csv_1>>
      /\ csv_2' = Written(Compare!RtlLog[line], csv_2)
  BY DEF Compare!ReadRtl, Written
<1>2. Compare!RtlLog \in Seq(Executed) /\ line \in Nat \ {0}
  BY <1>1, RtlLogIs DEF ReadInv
<1>3. Compare!RtlLog[line] \in Executed
  BY <1>1, <1>2
<1>4. csv_2' \in Seq(Row)
  BY <1>1, <1>3, WrittenRow DEF ReadInv, CsvTypes
<1>5. AllRows' = AllRows
  BY <1>1 DEF AllRows
<1> QED BY <1>1, <1>2, <1>4, <1>5 DEF ReadInv, CsvTypes

LEMMA ReadStays ==
  ASSUME ReadInv, UNCHANGED <<program, deviation, csv_1, csv_2>>,
         \/ stage \in {"rtl", "rows", "rest", "done"} /\ stage' \in {"rows", "rest", "done"}
         \/ UNCHANGED <<stage, line, in_trampoline, instr>>
  PROVE  ReadInv'
<1>2. AllRows' = AllRows /\ CsvTypes'
  BY DEF AllRows, ReadInv, CsvTypes
<1>3. CASE stage \in {"rtl", "rows", "rest", "done"} /\ stage' \in {"rows", "rest", "done"}
  BY <1>2, <1>3 DEF ReadInv
<1>4. CASE UNCHANGED <<stage, line, in_trampoline, instr>>
  <2>1. ASSUME NEW f, LogOf(f), Reading(f) PROVE LogOf(f)' /\ Reading(f)'
    <3>1. LogOf(f)' /\ Compare!SpikeLog' = Compare!SpikeLog
      BY <2>1, LogStays
    <3>2. Flushed' = Flushed
      BY <1>4 DEF Flushed, Compare!Yielded
    <3>3. \A k : AtLine(f, k)' = AtLine(f, k) /\ AtEffect(f, k)' = AtEffect(f, k)
      BY <1>2, <1>4, <3>2 DEF AtLine, AtEffect
    <3>4. AtEnd' = AtEnd
      BY <1>2, <1>4, <3>1 DEF AtEnd
    <3> QED BY <1>4, <2>1, <3>1, <3>3, <3>4 DEF Reading
  <2> QED BY <1>2, <1>4, <2>1 DEF ReadInv
<1> QED BY <1>3, <1>4

CompareInv == ReadInv /\ WalkInv

LEMMA CompareInit == Compare!Init => CompareInv
<1> SUFFICES ASSUME Compare!Init PROVE CompareInv
  OBVIOUS
<1>1. /\ program \in Programs /\ deviation \in Deviations /\ stage = "spike"
      /\ line = 1 /\ in_trampoline = TRUE /\ instr = <<>> /\ csv_1 = <<>> /\ csv_2 = <<>>
      /\ trace_1_index = 0 /\ trace_2_index = 0 /\ seeking = FALSE /\ mismatch_cnt = 0
      /\ gpr_val_1 = Home.state /\ gpr_val_2 = Home.state
  BY DEF Compare!Init, Home
<1>2. CsvTypes
  BY <1>1 DEF CsvTypes
<1>3. \E f : LogOf(f)
  BY <1>1, ProgramIs, SpikeLogIs
<1>4. \A f : Reading(f)
  BY <1>1 DEF Reading
<1>5. ReadInv
  BY <1>1, <1>2, <1>3, <1>4 DEF ReadInv
<1>6. WalkTypes
  <2>1. Len(csv_1) \in Nat /\ Len(csv_2) \in Nat
    BY <1>2 DEF CsvTypes
  <2>2. /\ mismatch_cnt \in Nat /\ trace_1_index \in 0 .. Len(csv_1)
        /\ trace_2_index \in 0 .. Len(csv_2)
    BY <1>1, <2>1
  <2>3. seeking \in BOOLEAN /\ stage \in {"spike", "rtl", "rows", "rest", "done"}
    BY <1>1
  <2> QED BY ONLY <1>2, <2>2, <2>3 DEF WalkTypes
<1>7. Agreed
  BY <1>1 DEF Agreed
<1>8. WalkInv
  BY <1>1, <1>6, <1>7 DEF WalkInv
<1> QED BY <1>5, <1>8 DEF CompareInv

LEMMA CompareStays == ASSUME CompareInv, UNCHANGED compareVars PROVE CompareInv'
<1>1. /\ UNCHANGED <<program, deviation, csv_1, csv_2, stage, line, in_trampoline, instr,
                     trace_1_index, trace_2_index, seeking, gpr_val_1, gpr_val_2, mismatch_cnt>>
  BY DEF compareVars
<1>2. ReadInv'
  BY <1>1, ReadStays DEF CompareInv
<1>3. /\ Reached_1' = Reached_1 /\ Reached_2' = Reached_2
      /\ Compare!History(csv_1)' = Compare!History(csv_1)
      /\ Compare!History(csv_2)' = Compare!History(csv_2)
  BY <1>1 DEF Reached_1, Reached_2, Walk_1, Walk_2
<1>4. WalkTypes' = WalkTypes /\ Agreed' = Agreed
  BY <1>1, <1>3 DEF WalkTypes, CsvTypes, Agreed, Ahead, Begins, Compare!Changes, Compare!Updated
<1>5. WalkInv' = WalkInv
  BY <1>1, <1>3, <1>4 DEF WalkInv
<1> QED BY <1>2, <1>5 DEF CompareInv

LEMMA CompareNext == ASSUME CompareInv, Compare!Next PROVE CompareInv'
<1> USE DEF CompareInv
<1>1. CASE Compare!ReadSpike
  <2>1. ReadInv' /\ CsvTypes'
    BY <1>1, SpikeRead DEF ReadInv
  <2>2. UNCHANGED Compare!cmpVars /\ stage = "spike" /\ stage' = "spike"
    BY <1>1 DEF Compare!ReadSpike
  <2> QED BY <2>1, <2>2, WalkWaits
<1>2. CASE Compare!EndSpike
  <2>1. ReadInv' /\ CsvTypes'
    BY <1>2, SpikeEnd DEF ReadInv
  <2>2. UNCHANGED Compare!cmpVars /\ stage = "spike" /\ stage' = "rtl"
    BY <1>2 DEF Compare!EndSpike
  <2> QED BY <2>1, <2>2, WalkWaits
<1>3. CASE Compare!ReadRtl
  <2>1. ReadInv' /\ CsvTypes'
    BY <1>3, RtlRead DEF ReadInv
  <2>2. UNCHANGED Compare!cmpVars /\ stage = "rtl" /\ stage' = "rtl"
    BY <1>3 DEF Compare!ReadRtl
  <2> QED BY <2>1, <2>2, WalkWaits
<1>4. CASE Compare!EndRtl
  <2>1. UNCHANGED <<program, deviation, csv_1, csv_2>> /\ UNCHANGED Compare!cmpVars
        /\ stage = "rtl" /\ stage' = "rows"
    BY <1>4 DEF Compare!EndRtl
  <2>2. ReadInv' /\ CsvTypes'
    BY <2>1, ReadStays DEF ReadInv
  <2> QED BY <2>1, <2>2, WalkWaits
<1>5. CASE Compare!NextRow
  <2>1. /\ UNCHANGED <<program, deviation, csv_1, csv_2>> /\ stage = "rows" /\ stage' = "rows"
    BY <1>5 DEF Compare!NextRow
  <2> QED BY <1>5, <2>1, WalkNextRow, ReadStays
<1>6. CASE Compare!Seek
  <2>1. /\ UNCHANGED <<program, deviation, csv_1, csv_2>>
        /\ stage = "rows" /\ stage' \in {"rows", "rest"}
    BY <1>6 DEF Compare!Seek, Compare!RowDone
  <2> QED BY <1>6, <2>1, WalkSeek, ReadStays
<1>7. CASE Compare!SeekFails
  <2>1. /\ UNCHANGED <<program, deviation, csv_1, csv_2>>
        /\ stage = "rows" /\ stage' \in {"rows", "rest"}
    BY <1>7 DEF Compare!SeekFails, Compare!RowDone
  <2> QED BY <1>7, <2>1, WalkSeekFails, ReadStays
<1>8. CASE Compare!EndRows
  <2>1. UNCHANGED <<program, deviation, csv_1, csv_2>> /\ stage = "rows" /\ stage' = "rest"
    BY <1>8 DEF Compare!EndRows
  <2> QED BY <1>8, <2>1, WalkEndRows, ReadStays
<1>9. CASE Compare!Rest
  <2>1. /\ UNCHANGED <<program, deviation, csv_1, csv_2>>
        /\ stage = "rest" /\ stage' \in {"rest", "done"}
    BY <1>9 DEF Compare!Rest
  <2> QED BY <1>9, <2>1, WalkRest, ReadStays
<1>10. CASE Compare!EndRest
  <2>1. UNCHANGED <<program, deviation, csv_1, csv_2>> /\ stage = "rest" /\ stage' = "done"
    BY <1>10 DEF Compare!EndRest
  <2> QED BY <1>10, <2>1, WalkEndRest, ReadStays
<1>11. CASE Compare!Done
  BY <1>11, CompareStays DEF Compare!Done, Compare!vars, Compare!logVars, Compare!cmpVars,
     compareVars
<1> QED BY <1>1, <1>2, <1>3, <1>4, <1>5, <1>6, <1>7, <1>8, <1>9, <1>10, <1>11 DEF Compare!Next

LEMMA ComparePart ==
  ASSUME part = "compare" => CompareInv, [Next]_vars PROVE (part = "compare" => CompareInv)'
<1>1. CASE CompareStep(Compare!Next)
  BY <1>1, CompareNext DEF CompareStep
<1>2. CASE CheckStep(Check!Next) \/ LoaderStep(Load!Next) \/ CovStep(Cov!Next)
             \/ GenerateStep(Generate!Next)
  BY <1>2 DEF CheckStep, LoaderStep, CovStep, GenerateStep
<1>3. CASE UNCHANGED vars
  BY <1>3, CompareStays DEF vars
<1> QED BY <1>1, <1>2, <1>3 DEF Next

LEMMA CompareSafe ==
  CompareInv => Compare!SpikeRowsExact /\ Compare!VerdictSound /\ Compare!InStep
<1> SUFFICES ASSUME CompareInv
    PROVE  Compare!SpikeRowsExact /\ Compare!VerdictSound /\ Compare!InStep
  OBVIOUS
<1>1. WalkTypes /\ mismatch_cnt \in Nat /\ WalkInv /\ ReadInv
  BY DEF CompareInv, WalkInv, WalkTypes
<1>2. Compare!SpikeRowsExact
  BY <1>1 DEF Compare!SpikeRowsExact, Compare!Rows, ReadInv, AllRows
<1>3. Compare!InStep
  BY <1>1 DEF Compare!InStep, WalkInv, Agreed, WalkTypes
<1>4. stage = "done" /\ mismatch_cnt = 0
        => Compare!IsPrefix(Compare!History(csv_2), Compare!History(csv_1))
  BY <1>1, Histories, PrefixIs DEF WalkInv, Agreed
<1>5. Compare!History(csv_1) = Compare!History(csv_2) => mismatch_cnt = 0
  BY <1>1 DEF WalkInv
<1> QED BY <1>2, <1>3, <1>4, <1>5 DEF Compare!VerdictSound, Compare!Passed

(* The CSV of Spike has the register writes of its program, whatever lines  *)
(* stand between them; a seed passes only if its trace goes through the     *)
(* register states of the reference, in their order and from the first on,  *)
(* and always if through all of them; and until a row mismatches the two    *)
(* traces are looked at in the same state.                                  *)
THEOREM VerdictsSound == Spec => []VerdictSound
<1>1. Init => (part = "compare" => CompareInv)
  BY CompareInit DEF Init
<1>2. (part = "compare" => CompareInv) /\ [Next]_vars => (part = "compare" => CompareInv)'
  BY ComparePart
<1>3. (part = "compare" => CompareInv) => VerdictSound
  BY CompareSafe DEF VerdictSound
<1> QED BY <1>1, <1>2, <1>3, PTL DEF Spec

-----------------------------------------------------------------------------
(* The scoreboards. Where the ECALL is in the reference run, and what a     *)
(* core commits that deviates from it.                                      *)
Pc(k) == Spike[k].pc
EcallAt == Check!EcallAt

LEMMA LogShape ==
  /\ Spike \in Seq(Commit) /\ Len(Spike) \in Nat
  /\ EcallAt \in 2 .. Len(Spike)
  /\ \A k \in 1 .. Len(Spike) : Pc(k) = EcallPc <=> k = EcallAt
  /\ \A k \in 1 .. EcallAt - 1 : Pc(k) # Pc(k + 1)
<1>1. PICK e \in 2 .. Len(Spike) :
        /\ \A k \in 1 .. Len(Spike) : Spike[k].pc = EcallPc <=> k = e
        /\ \A k \in 1 .. e - 1 : Spike[k].pc # Spike[k + 1].pc
  BY LogAssumption
<1>2. Spike \in Seq(Commit) /\ Len(Spike) \in Nat
  BY LogAssumption
<1>3. e \in 1 .. Len(Spike) /\ Spike[e].pc = EcallPc
  BY <1>1, <1>2
<1>4. EcallAt \in 1 .. Len(Spike) /\ Spike[EcallAt].pc = EcallPc
  BY <1>3 DEF EcallAt, Check!EcallAt
<1>5. EcallAt = e
  BY <1>1, <1>4
<1> QED BY <1>1, <1>2, <1>5 DEF Pc

LEMMA Part ==
  ASSUME NEW S, NEW s \in Seq(S), NEW m \in Nat, NEW n \in m .. Len(s), NEW t,
         t = SubSeq(s, m + 1, n)
  PROVE  /\ t \in Seq(S) /\ Len(t) = n - m
         /\ \A k \in 1 .. n - m : t[k] = s[m + k]
<1>1. Len(s) \in Nat /\ m + 1 \in Int /\ n \in Int
  OBVIOUS
<1>2. t \in Seq(S) /\ Len(t) = n - m
  BY <1>1
<1>3. ASSUME NEW k \in 1 .. n - m PROVE t[k] = s[m + k]
  BY <1>1
<1> QED BY <1>2, <1>3

LEMMA Removed ==
  ASSUME NEW S, NEW s \in Seq(S), NEW n \in 1 .. Len(s)
  PROVE  /\ Check!RemoveAt(s, n) \in Seq(S) /\ Len(Check!RemoveAt(s, n)) = Len(s) - 1
         /\ \A k \in 1 .. Len(s) - 1 :
              Check!RemoveAt(s, n)[k] = IF k < n THEN s[k] ELSE s[k + 1]
<1>1. PICK before : before = SubSeq(s, 1, n - 1)
  OBVIOUS
<1>2. PICK after : after = SubSeq(s, n + 1, Len(s))
  OBVIOUS
<1>3. /\ before \in Seq(S) /\ Len(before) = n - 1
      /\ \A k \in 1 .. n - 1 : before[k] = s[k]
  BY <1>1
<1>4. /\ after \in Seq(S) /\ Len(after) = Len(s) - n
      /\ \A k \in 1 .. Len(s) - n : after[k] = s[n + k]
  BY <1>2
<1>5. Check!RemoveAt(s, n) = before \o after
  BY <1>1, <1>2 DEF Check!RemoveAt
<1>6. Check!RemoveAt(s, n) \in Seq(S) /\ Len(Check!RemoveAt(s, n)) = Len(s) - 1
  BY <1>3, <1>4, <1>5
<1>7. ASSUME NEW k \in 1 .. n - 1 PROVE Check!RemoveAt(s, n)[k] = s[k]
  BY <1>3, <1>4, <1>5
<1>8. ASSUME NEW k \in n .. Len(s) - 1 PROVE Check!RemoveAt(s, n)[k] = s[k + 1]
  <2>1. Check!RemoveAt(s, n)[k] = after[k - Len(before)]
    BY <1>3, <1>4, <1>5
  <2>2. k - Len(before) \in 1 .. Len(s) - n /\ n + (k - Len(before)) = k + 1
    BY <1>3
  <2> QED BY <2>1, <2>2, <1>4
<1> QED BY <1>6, <1>7, <1>8

LEMMA Inserted ==
  ASSUME NEW S, NEW s \in Seq(S), NEW n \in 1 .. Len(s), NEW e \in S
  PROVE  /\ Check!InsertAt(s, n, e) \in Seq(S) /\ Len(Check!InsertAt(s, n, e)) = Len(s) + 1
         /\ \A k \in 1 .. Len(s) + 1 :
              Check!InsertAt(s, n, e)[k] = IF k < n THEN s[k] ELSE IF k = n THEN e ELSE s[k - 1]
<1>1. PICK before : before = SubSeq(s, 1, n - 1)
  OBVIOUS
<1>2. PICK rest : rest = SubSeq(s, n, Len(s))
  OBVIOUS
<1>3. /\ before \in Seq(S) /\ Len(before) = n - 1
      /\ \A k \in 1 .. n - 1 : before[k] = s[k]
  BY <1>1
<1>4. /\ rest \in Seq(S) /\ Len(rest) = Len(s) - n + 1
      /\ \A k \in 1 .. Len(s) - n + 1 : rest[k] = s[n + k - 1]
  BY <1>2
<1>5. PICK first : first = Append(before, e)
  OBVIOUS
<1>6. /\ first \in Seq(S) /\ Len(first) = n /\ first[n] = e
      /\ \A k \in 1 .. n - 1 : first[k] = s[k]
  BY <1>3, <1>5
<1>7. before \o <<e>> = first
  BY <1>3, <1>5
<1>8. Check!InsertAt(s, n, e) = first \o rest
  BY <1>1, <1>2, <1>7 DEF Check!InsertAt
<1>9. Check!InsertAt(s, n, e) \in Seq(S) /\ Len(Check!InsertAt(s, n, e)) = Len(s) + 1
  <2>0. first \in Seq(S) /\ rest \in Seq(S)
    BY <1>4, <1>6
  <2>1. first \o rest \in Seq(S) /\ Len(first \o rest) = Len(first) + Len(rest)
    BY <2>0
  <2> QED BY <2>1, <1>4, <1>6, <1>8
<1>11. \A k \in 1 .. n : Check!InsertAt(s, n, e)[k] = first[k]
  BY <1>4, <1>6, <1>8
<1>12. \A k \in n + 1 .. Len(s) + 1 : Check!InsertAt(s, n, e)[k] = rest[k - n]
  BY <1>4, <1>6, <1>8
<1>10. ASSUME NEW k \in n + 1 .. Len(s) + 1 PROVE Check!InsertAt(s, n, e)[k] = s[k - 1]
  <2>1. k - n \in 1 .. Len(s) - n + 1 /\ n + (k - n) - 1 = k - 1
    OBVIOUS
  <2> QED BY <2>1, <1>4, <1>12
<1> QED BY <1>6, <1>9, <1>10, <1>11

LEMMA WithRd ==
  ASSUME NEW c \in Commit, NEW v \in Seq(Nat)
  PROVE  /\ [c EXCEPT !.rd = v] \in Commit
         /\ [c EXCEPT !.rd = v].pc = c.pc /\ [c EXCEPT !.rd = v].rd = v
BY DEF Commit

LEMMA WithPc ==
  ASSUME NEW c \in Commit, NEW p \in Nat
  PROVE  [c EXCEPT !.pc = p] \in Commit /\ [c EXCEPT !.pc = p].pc = p
BY DEF Commit

LEMMA CommitsOf ==
  ASSUME fault \in Faults
  PROVE  /\ Check!Commits \in Seq(Commit) /\ Len(Check!Commits) \in Nat
         /\ fault.kind = "none" => Check!Commits = Spike
         /\ fault.kind = "data" =>
              /\ Len(Check!Commits) = Len(Spike)
              /\ \A k \in 1 .. Len(Spike) :
                   /\ Check!Commits[k].pc = Pc(k)
                   /\ k # fault.at => Check!Commits[k] = Spike[k]
              /\ Check!Commits[fault.at] # Spike[fault.at]
         /\ fault.kind = "jump" =>
              /\ Len(Check!Commits) = Len(Spike)
              /\ \A k \in 1 .. Len(Spike) : k # fault.at => Check!Commits[k].pc = Pc(k)
              /\ Check!Commits[fault.at].pc = BadPc
         /\ fault.kind = "lost" =>
              /\ Len(Check!Commits) = Len(Spike) - 1
              /\ \A k \in 1 .. Len(Spike) - 1 :
                   Check!Commits[k].pc = IF k < fault.at THEN Pc(k) ELSE Pc(k + 1)
         /\ fault.kind = "wait" =>
              /\ Len(Check!Commits) = Len(Spike) + 1
              /\ \A k \in 1 .. Len(Spike) + 1 :
                   Check!Commits[k].pc = IF k <= fault.at THEN Pc(k) ELSE Pc(k - 1)
<1> USE LogShape
<1> DEFINE at == fault.at
<1>1. CASE fault.kind = "none"
  BY <1>1 DEF Check!Commits, Check!Deviating
<1>t. fault.kind # "none" => at \in 2 .. Len(Spike)
  BY LogAssumption
<1>2. CASE fault.kind = "data"
  <2>1. Check!Commits = [Spike EXCEPT ![at].rd = <<BadData>>]
    BY <1>2 DEF Check!Commits, Check!Deviating
  <2>2. at \in 1 .. Len(Spike) /\ Spike[at] \in Commit
    BY <1>2, <1>t
  <2>3. <<BadData>> \in Seq(Nat)
    BY LogAssumption
  <2> DEFINE wrong == [Spike[at] EXCEPT !.rd = <<BadData>>]
  <2>4. wrong \in Commit /\ wrong.pc = Pc(at) /\ wrong.rd = <<BadData>>
    BY <2>2, <2>3, WithRd DEF Pc
  <2> HIDE DEF wrong
  <2>5. Check!Commits = [Spike EXCEPT ![at] = wrong]
    BY <2>1 DEF wrong
  <2>6. /\ Check!Commits \in Seq(Commit) /\ Len(Check!Commits) = Len(Spike)
        /\ \A k \in 1 .. Len(Spike) : k # at => Check!Commits[k] = Spike[k]
        /\ Check!Commits[at] = wrong
    BY <2>2, <2>4, <2>5
  <2>7. Spike[at].rd # <<BadData>>
    BY <2>2, LogAssumption
  <2> QED BY <1>2, <2>4, <2>6, <2>7 DEF Pc
<1>3. CASE fault.kind = "jump"
  <2>1. Check!Commits = [Spike EXCEPT ![at].pc = BadPc]
    BY <1>3 DEF Check!Commits, Check!Deviating
  <2>2. at \in 1 .. Len(Spike) /\ Spike[at] \in Commit
    BY <1>3, <1>t
  <2> DEFINE wrong == [Spike[at] EXCEPT !.pc = BadPc]
  <2>4. wrong \in Commit /\ wrong.pc = BadPc
    BY <2>2, LogAssumption, WithPc
  <2> HIDE DEF wrong
  <2>5. Check!Commits = [Spike EXCEPT ![at] = wrong]
    BY <2>1 DEF wrong
  <2>6. /\ Check!Commits \in Seq(Commit) /\ Len(Check!Commits) = Len(Spike)
        /\ \A k \in 1 .. Len(Spike) : k # at => Check!Commits[k] = Spike[k]
        /\ Check!Commits[at] = wrong
    BY <2>2, <2>4, <2>5
  <2> QED BY <1>3, <2>4, <2>6 DEF Pc
<1>4. CASE fault.kind = "lost"
  <2>1. Check!Commits = Check!RemoveAt(Spike, at)
    BY <1>4 DEF Check!Commits, Check!Deviating
  <2>2. at \in 1 .. Len(Spike)
    BY <1>4, <1>t
  <2>3. /\ Check!Commits \in Seq(Commit) /\ Len(Check!Commits) = Len(Spike) - 1
        /\ \A k \in 1 .. Len(Spike) - 1 :
             Check!Commits[k] = IF k < at THEN Spike[k] ELSE Spike[k + 1]
    BY <2>1, <2>2, Removed
  <2>4. \A k \in 1 .. Len(Spike) - 1 :
          Check!Commits[k].pc = IF k < at THEN Pc(k) ELSE Pc(k + 1)
    BY <2>2, <2>3 DEF Pc
  <2> QED BY <1>4, <2>3, <2>4
<1>5. CASE fault.kind = "wait"
  <2>2. at \in 1 .. Len(Spike) /\ Spike[at] \in Commit /\ <<>> \in Seq(Nat)
    BY <1>5, <1>t
  <2> DEFINE again == [Spike[at] EXCEPT !.rd = <<>>]
  <2>3. again \in Commit /\ again.pc = Pc(at)
    BY <2>2, WithRd DEF Pc
  <2> HIDE DEF again
  <2>1. Check!Commits = Check!InsertAt(Spike, at, again)
    BY <1>5 DEF Check!Commits, Check!Deviating, again
  <2>4. /\ Check!Commits \in Seq(Commit) /\ Len(Check!Commits) = Len(Spike) + 1
        /\ \A k \in 1 .. Len(Spike) + 1 :
             Check!Commits[k] = IF k < at THEN Spike[k] ELSE IF k = at THEN again ELSE Spike[k - 1]
    <3>1. Spike \in Seq(Commit)
      OBVIOUS
    <3> HIDE LogShape DEF at
    <3> QED BY ONLY <2>1, <2>2, <2>3, <3>1, Inserted
  <2>5. \A k \in 1 .. Len(Spike) + 1 :
          Check!Commits[k].pc = IF k <= at THEN Pc(k) ELSE Pc(k - 1)
    BY <2>2, <2>3, <2>4 DEF Pc
  <2> QED BY <1>5, <2>4, <2>5
<1>6. CASE fault.kind \notin {"none", "data", "jump", "lost", "wait"}
  BY <1>6 DEF Check!Commits, Check!Deviating
<1> QED BY <1>1, <1>2, <1>3, <1>4, <1>5, <1>6

(* The flow scoreboard. Place is where the core is in the reference run.    *)
Place == IF fault.kind = "wait" /\ retired > fault.at THEN retired - 1
         ELSE IF retired = 0 THEN 1 ELSE retired
Claimed ==
  \/ fault.kind \in {"none", "wait"}
  \/ fault.kind = "jump" /\ fault.at < EcallAt
  \/ fault.kind = "lost" /\ \E k \in fault.at - 1 .. EcallAt - 3 : Pc(k) # Pc(k + 2)

FlowIdle == actual_fifo = <<>> /\ flow_tx = <<>> /\ expected_fifo = <<>>
InFlight(tx, prediction) ==
  /\ expected_fifo = <<prediction>>
  /\ \/ actual_fifo = <<tx>> /\ flow_tx = <<>>
     \/ actual_fifo = <<>> /\ flow_tx = <<tx>>
Agreeing == flow_error = FALSE /\ (FlowIdle \/ \E tx : InFlight(tx, tx))

EcallOrder ==
  /\ flow_ended = TRUE => ecall_detected = TRUE
  /\ ecall_detected = TRUE => flow_stopped = TRUE
  /\ checker_fifo = <<>> \/
       \E tx : checker_fifo = <<tx>> /\ (tx.pc = EcallPc => flow_stopped = TRUE)
(* The monitor and the predictor are at the same place of the log.          *)
OnTrack ==
  /\ Agreeing
  /\ IF flow_stopped THEN FlowIdle /\ fault.kind \in {"none", "wait"}
     ELSE /\ Place < EcallAt /\ prev_pc = Pc(Place) /\ trace_ptr = Place
          /\ fault.kind \in {"jump", "lost"} => retired < fault.at
(* A commit was lost in a loop of two: the predictor is two places behind.  *)
Behind ==
  /\ Agreeing /\ fault.kind = "lost" /\ flow_stopped = FALSE
  /\ fault.at <= retired /\ retired + 1 < EcallAt
  /\ trace_ptr = retired - 1 /\ prev_pc = Pc(retired - 1)
  /\ \A k \in fault.at - 1 .. retired - 1 : Pc(k) = Pc(k + 2)
(* The deviation was seen, or is about to be.                               *)
Caught ==
  /\ fault.kind \in {"jump", "lost"}
  /\ \/ flow_error = TRUE
     \/ flow_stopped = FALSE /\ \E tx, prediction : tx # prediction /\ InFlight(tx, prediction)
FlowTypes ==
  /\ fault \in Faults /\ retired \in Nat
  /\ flow_stopped \in BOOLEAN /\ flow_ended \in BOOLEAN /\ flow_error \in BOOLEAN
  /\ ecall_detected \in BOOLEAN
FlowInv == FlowTypes /\ EcallOrder /\ (Claimed => OnTrack \/ Behind \/ Caught)

LEMMA MinIs ==
  ASSUME NEW S, S \subseteq Int, NEW m \in S, \A y \in S : m <= y
  PROVE  Check!Min(S) = m
<1>1. \A y \in S : (\A z \in S : y <= z) => y = m
  OBVIOUS
<1> QED BY <1>1 DEF Check!Min

(* The predictor at p predicts the address after p.                         *)
LEMMA Predicts ==
  ASSUME NEW p \in 1 .. Len(Spike) - 1, p # EcallAt, trace_ptr = p, Check!Predict(Pc(p))
  PROVE  /\ trace_ptr' = p + 1
         /\ expected_fifo' = Append(expected_fifo, <<Pc(p), Pc(p + 1)>>)
<1>1. p \in Check!Found(Pc(p)) /\ Check!Found(Pc(p)) \subseteq Int
      /\ \A y \in Check!Found(Pc(p)) : p <= y
  BY LogShape DEF Check!Found, Pc
<1>2. Check!Min(Check!Found(Pc(p))) = p /\ Check!Found(Pc(p)) # {}
  BY <1>1, MinIs
<1>3. Pc(p) # EcallPc
  BY LogShape
<1>4. ~(p >= Len(Spike))
  BY LogShape
<1> QED BY <1>2, <1>3, <1>4 DEF Check!Predict, Pc

(* What the monitor sends of a commit with address pc, at place p.          *)
LEMMA Reports ==
  ASSUME NEW pc_, NEW p \in 1 .. Len(Spike) - 1, p # EcallAt, trace_ptr = p,
         prev_pc = Pc(p), flow_stopped = FALSE, pc_ # EcallPc,
         actual_fifo = <<>>, expected_fifo = <<>>, Check!FlowMonitor(pc_)
  PROVE  /\ flow_stopped' = FALSE /\ prev_pc' = pc_
         /\ pc_ = Pc(p) => UNCHANGED <<trace_ptr, actual_fifo, expected_fifo>>
         /\ pc_ # Pc(p) => /\ trace_ptr' = p + 1
                           /\ actual_fifo' = <<<<Pc(p), pc_>>>>
                           /\ expected_fifo' = <<<<Pc(p), Pc(p + 1)>>>>
<1>1. /\ flow_stopped' = FALSE /\ prev_pc' = pc_
      /\ pc_ = Pc(p) => UNCHANGED <<trace_ptr, actual_fifo, expected_fifo>>
      /\ pc_ # Pc(p) => actual_fifo' = Append(actual_fifo, <<Pc(p), pc_>>) /\ Check!Predict(Pc(p))
  BY DEF Check!FlowMonitor
<1>2. ASSUME pc_ # Pc(p)
      PROVE  /\ trace_ptr' = p + 1 /\ actual_fifo' = <<<<Pc(p), pc_>>>>
             /\ expected_fifo' = <<<<Pc(p), Pc(p + 1)>>>>
  BY <1>1, <1>2, Predicts
<1> QED BY <1>1, <1>2

LEMMA Stops ==
  ASSUME NEW pc_, flow_stopped = TRUE \/ pc_ = EcallPc, Check!FlowMonitor(pc_)
  PROVE  flow_stopped' = TRUE /\ UNCHANGED <<actual_fifo, expected_fifo>>
BY DEF Check!FlowMonitor

(* A retirement of a core that does as the reference run does.              *)
LEMMA RetireOnTrack ==
  ASSUME FlowInv, Claimed, OnTrack, Check!Retire
  PROVE  (OnTrack \/ Behind \/ Caught)'
<1> DEFINE next == Check!Commits[retired + 1].pc
           at == fault.at
<1>1. /\ Check!ConsumersIdle /\ retired < Len(Check!Commits) /\ retired' = retired + 1
      /\ Check!FlowMonitor(next) /\ UNCHANGED <<fault, flow_tx, flow_error>>
  BY DEF Check!Retire
<1>2. FlowIdle /\ flow_error = FALSE
  BY <1>1 DEF Check!ConsumersIdle, OnTrack, Agreeing, InFlight, FlowIdle
<1>3. fault \in Faults /\ retired \in Nat /\ flow_stopped \in BOOLEAN
      /\ (fault.kind # "none" => at \in 2 .. Len(Spike))
  BY LogAssumption DEF FlowInv, FlowTypes
<1>4. Len(Spike) \in Nat /\ EcallAt \in 2 .. Len(Spike)
  BY LogShape
<1> HIDE DEF next
<1>5. CASE flow_stopped = TRUE
  <2>1. flow_stopped' = TRUE /\ UNCHANGED <<actual_fifo, expected_fifo>>
    BY <1>1, <1>5, Stops
  <2> QED BY <1>1, <1>2, <1>5, <2>1 DEF OnTrack, Agreeing, FlowIdle
<1>6. CASE flow_stopped = FALSE
  <2>1. /\ Place < EcallAt /\ prev_pc = Pc(Place) /\ trace_ptr = Place
        /\ fault.kind \in {"jump", "lost"} => retired < at
    BY <1>6 DEF OnTrack
  <2>2. Place \in 1 .. Len(Spike) - 1 /\ Place # EcallAt
    BY <2>1, <1>3, <1>4 DEF Place
  <2>3. next # EcallPc =>
          /\ flow_stopped' = FALSE /\ prev_pc' = next
          /\ next = Pc(Place) => UNCHANGED <<trace_ptr, actual_fifo, expected_fifo>>
          /\ next # Pc(Place) => /\ trace_ptr' = Place + 1
                                 /\ actual_fifo' = <<<<Pc(Place), next>>>>
                                 /\ expected_fifo' = <<<<Pc(Place), Pc(Place + 1)>>>>
    BY <1>1, <1>2, <1>6, <2>1, <2>2, Reports DEF FlowIdle
  <2>4. next = EcallPc => flow_stopped' = TRUE /\ UNCHANGED <<actual_fifo, expected_fifo>>
    BY <1>1, Stops
  <2> DEFINE Diverging == fault.kind \in {"jump", "lost"} /\ retired + 1 = at
  <2>5. CASE ~Diverging
    <3>1. /\ Place' \in 1 .. Len(Spike) /\ Place' <= EcallAt
          /\ next = Pc(Place') /\ Place' \in {Place, Place + 1}
          /\ fault.kind \in {"jump", "lost"} => retired' < at
      <4>1. CASE fault.kind = "none"
        BY <4>1, <1>1, <1>3, <1>4, <2>1, <2>2, CommitsOf DEF Place, next, Pc
      <4>2. CASE fault.kind = "wait"
        <5>1. next = IF retired + 1 <= at THEN Pc(retired + 1) ELSE Pc(retired)
          BY <4>2, <1>1, <1>3, <1>4, CommitsOf DEF next
        <5> QED BY <4>2, <5>1, <1>1, <1>3, <1>4, <2>1, <2>2 DEF Place
      <4>3. CASE fault.kind \in {"jump", "lost"}
        <5>1. retired + 1 < at
          BY <4>3, <1>3, <2>1, <2>5
        <5>2. next = Pc(retired + 1)
          BY <4>3, <5>1, <1>1, <1>3, <1>4, CommitsOf DEF next
        <5> QED BY <4>3, <5>1, <5>2, <1>1, <1>3, <1>4, <2>1, <2>2 DEF Place
      <4> QED BY <4>1, <4>2, <4>3 DEF Claimed
    <3>2. CASE Place' = EcallAt
      <4>1. next = EcallPc /\ fault.kind \in {"none", "wait"}
        BY <3>1, <3>2, <1>4, <2>1, LogShape, <1>3, <1>1 DEF Place, Claimed
      <4> QED BY <4>1, <2>4, <1>1, <1>2 DEF OnTrack, Agreeing, FlowIdle
    <3>3. CASE Place' < EcallAt
      <4>1. next # EcallPc
        BY <3>1, <3>3, LogShape
      <4>2. Place' = Place => next = Pc(Place)
        BY <3>1
      <4>3. Place' = Place + 1 => next # Pc(Place)
        BY <3>1, <3>3, <2>2, LogShape
      <4>4. CASE Place' = Place
        BY <4>1, <4>2, <4>4, <2>1, <2>3, <3>1, <3>3, <1>1, <1>2
           DEF OnTrack, Agreeing, FlowIdle
      <4>5. CASE Place' = Place + 1
        BY <4>1, <4>3, <4>5, <2>1, <2>3, <3>1, <3>3, <1>1, <1>2
           DEF OnTrack, Agreeing, FlowIdle, InFlight
      <4> QED BY <3>1, <4>4, <4>5
    <3> QED BY <3>1, <3>2, <3>3, <1>4
  <2>6. CASE Diverging /\ fault.kind = "jump"
    <3>1. next = BadPc /\ BadPc # EcallPc /\ \A k \in 1 .. Len(Spike) : BadPc # Pc(k)
      BY <1>3, <2>6, CommitsOf, LogAssumption DEF next, Pc
    <3>2. /\ actual_fifo' = <<<<Pc(Place), next>>>>
          /\ expected_fifo' = <<<<Pc(Place), Pc(Place + 1)>>>> /\ flow_stopped' = FALSE
      BY <3>1, <2>2, <2>3
    <3>3. <<Pc(Place), next>> # <<Pc(Place), Pc(Place + 1)>>
      BY <3>1, <2>2
    <3> QED BY <1>1, <1>2, <2>6, <3>2, <3>3 DEF Caught, InFlight, FlowIdle
  <2>7. CASE Diverging /\ fault.kind = "lost"
    <3>0. at \in 2 .. Len(Spike)
      BY <1>3, <2>7
    <3>1. at <= EcallAt - 2 /\ at + 1 <= Len(Spike) - 1
      BY <1>3, <1>4, <2>7 DEF Claimed
    <3>2. Place = at - 1 /\ next = Pc(at + 1)
      BY <1>3, <1>4, <3>1, <2>7, CommitsOf DEF Place, next
    <3>3. next # EcallPc /\ Pc(at) # Pc(at + 1)
      BY <3>0, <1>4, <3>1, <3>2, LogShape
    <3>4. CASE next = Pc(Place)
      <4>1. \A k \in at - 1 .. at - 1 : Pc(k) = Pc(k + 2)
        BY <3>0, <3>2, <3>4
      <4>2. retired' = at /\ at - 1 = Place /\ at + 1 < EcallAt
        BY <1>1, <1>3, <1>4, <2>7, <3>0, <3>1, <3>2
      <4>3. /\ flow_stopped' = FALSE /\ prev_pc' = Pc(at - 1) /\ trace_ptr' = at - 1
            /\ UNCHANGED <<actual_fifo, expected_fifo>>
        BY <2>1, <2>3, <3>3, <3>4, <4>2
      <4> QED BY <1>1, <1>2, <2>7, <3>0, <4>1, <4>2, <4>3 DEF Behind, Agreeing, FlowIdle
    <3>5. CASE next # Pc(Place)
      <4>1. /\ actual_fifo' = <<<<Pc(Place), next>>>>
            /\ expected_fifo' = <<<<Pc(Place), Pc(Place + 1)>>>> /\ flow_stopped' = FALSE
        BY <3>3, <3>5, <2>3
      <4>2. <<Pc(Place), next>> # <<Pc(Place), Pc(Place + 1)>>
        BY <3>0, <3>2, <3>3
      <4> QED BY <1>1, <1>2, <2>7, <4>1, <4>2 DEF Caught, InFlight, FlowIdle
    <3> QED BY <3>4, <3>5
  <2> QED BY <2>5, <2>6, <2>7
<1> QED BY <1>3, <1>5, <1>6

LEMMA RetireBehind ==
  ASSUME FlowInv, Claimed, Behind, Check!Retire
  PROVE  (Behind \/ Caught)'
<1> DEFINE next == Check!Commits[retired + 1].pc
           at == fault.at
           p == retired - 1
<1>1. /\ Check!ConsumersIdle /\ retired < Len(Check!Commits) /\ retired' = retired + 1
      /\ Check!FlowMonitor(next) /\ UNCHANGED <<fault, flow_tx, flow_error>>
  BY DEF Check!Retire
<1>2. FlowIdle /\ flow_error = FALSE
  BY <1>1 DEF Check!ConsumersIdle, Behind, Agreeing, InFlight, FlowIdle
<1>3. fault \in Faults /\ retired \in Nat /\ at \in 2 .. Len(Spike)
  BY LogAssumption DEF FlowInv, FlowTypes, Behind
<1>4. Len(Spike) \in Nat /\ EcallAt \in 2 .. Len(Spike)
  BY LogShape
<1>5. /\ fault.kind = "lost" /\ flow_stopped = FALSE /\ at <= retired /\ retired + 1 < EcallAt
      /\ trace_ptr = p /\ prev_pc = Pc(p)
      /\ \A k \in at - 1 .. p : Pc(k) = Pc(k + 2)
  BY DEF Behind
<1>6. next = Pc(retired + 2)
  BY <1>3, <1>4, <1>5, CommitsOf, SMTT(30)
<1> HIDE DEF next
<1>7. retired + 2 < EcallAt
  <2>1. PICK k \in at - 1 .. EcallAt - 3 : Pc(k) # Pc(k + 2)
    BY <1>5 DEF Claimed
  <2> QED BY <2>1, <1>3, <1>4, <1>5
<1>8. p \in 1 .. Len(Spike) - 1 /\ p # EcallAt
  BY <1>3, <1>4, <1>5
<1>9. next # EcallPc /\ Pc(retired + 1) = Pc(p) /\ next # Pc(p)
  BY <1>3, <1>4, <1>5, <1>6, <1>7, LogShape
<1>10. /\ flow_stopped' = FALSE /\ prev_pc' = next /\ trace_ptr' = p + 1
       /\ actual_fifo' = <<<<Pc(p), next>>>> /\ expected_fifo' = <<<<Pc(p), Pc(p + 1)>>>>
  BY <1>1, <1>2, <1>5, <1>8, <1>9, Reports DEF FlowIdle
<1>11. p + 1 = retired /\ retired' - 1 = retired
  BY <1>1, <1>3
<1>12. CASE next = Pc(retired)
  <2>1. \A k \in at - 1 .. retired' - 1 : Pc(k) = Pc(k + 2)
    BY <1>3, <1>5, <1>6, <1>11, <1>12, SMTT(30)
  <2> QED BY <2>1, <1>1, <1>2, <1>3, <1>5, <1>7, <1>10, <1>11, <1>12
          DEF Behind, Agreeing, InFlight, FlowIdle
<1>13. CASE next # Pc(retired)
  <2>1. <<Pc(p), next>> # <<Pc(p), Pc(p + 1)>>
    BY <1>11, <1>13
  <2> QED BY <2>1, <1>1, <1>2, <1>5, <1>10 DEF Caught, InFlight, FlowIdle
<1> QED BY <1>12, <1>13

LEMMA NoneInFlight ==
  ASSUME Check!ConsumersIdle PROVE ~\E tx, prediction : InFlight(tx, prediction)
BY DEF Check!ConsumersIdle, InFlight

LEMMA RetireFlow == ASSUME FlowInv, Check!Retire PROVE FlowInv'
<1> DEFINE next == Check!Commits[retired + 1]
<1>1. /\ Check!ConsumersIdle /\ retired' = retired + 1 /\ checker_fifo' = <<next>>
      /\ Check!FlowMonitor(next.pc)
      /\ UNCHANGED <<fault, flow_tx, flow_error, flow_ended, ecall_detected>>
  BY DEF Check!Retire
<1> HIDE DEF next
<1>2. /\ flow_stopped' \in BOOLEAN
      /\ flow_stopped = TRUE \/ next.pc = EcallPc => flow_stopped' = TRUE
  BY <1>1 DEF Check!FlowMonitor, FlowInv, FlowTypes
<1>3. FlowTypes' /\ EcallOrder'
  BY <1>1, <1>2 DEF FlowInv, FlowTypes, EcallOrder
<1>4. ASSUME Claimed' PROVE (OnTrack \/ Behind \/ Caught)'
  <2>1. Claimed
    BY <1>1, <1>4 DEF Claimed, EcallAt, Check!EcallAt
  <2>2. CASE Caught
    <3>1. ~\E tx, prediction : InFlight(tx, prediction)
      BY <1>1, NoneInFlight
    <3>2. flow_error = TRUE
      BY <2>2, <3>1 DEF Caught
    <3> QED BY <1>1, <2>2, <3>2 DEF Caught
  <2> QED BY <2>1, <2>2, RetireOnTrack, RetireBehind DEF FlowInv
<1> QED BY <1>3, <1>4 DEF FlowInv

LEMMA CommitFlow == ASSUME FlowInv, Check!CommitScoreboard PROVE FlowInv'
<1>1. /\ UNCHANGED <<fault, retired, prev_pc, flow_stopped, trace_ptr, actual_fifo,
                     expected_fifo, flow_tx, flow_ended, flow_error>>
      /\ checker_fifo # <<>> /\ checker_fifo' = Tail(checker_fifo)
      /\ \/ ecall_detected' = ecall_detected
         \/ ecall_detected' = TRUE /\ Head(checker_fifo).pc = EcallPc
  BY DEF Check!CommitScoreboard, Check!coreVars, Check!flowVars
<1>2. PICK tx : checker_fifo = <<tx>> /\ (tx.pc = EcallPc => flow_stopped = TRUE)
  BY <1>1 DEF FlowInv, EcallOrder
<1>3. checker_fifo' = <<>> /\ Head(checker_fifo) = tx
  BY <1>1, <1>2
<1>4. FlowTypes'
  BY <1>1 DEF FlowInv, FlowTypes
<1>5. EcallOrder'
  BY <1>1, <1>2, <1>3 DEF FlowInv, EcallOrder
<1>6. Place' = Place /\ EcallAt' = EcallAt
  BY <1>1 DEF Place, EcallAt, Check!EcallAt
<1>7. (Claimed => OnTrack \/ Behind \/ Caught)'
  BY <1>1, <1>6 DEF FlowInv, Claimed, OnTrack, Behind, Caught, Agreeing, FlowIdle, InFlight
<1> QED BY <1>4, <1>5, <1>7 DEF FlowInv

LEMMA FlowSteps ==
  ASSUME FlowInv, Check!FlowTestDone \/ Check!FlowTake \/ Check!FlowCompare PROVE FlowInv'
<1>1. /\ UNCHANGED <<fault, retired, prev_pc, flow_stopped, trace_ptr, checker_fifo,
                      ecall_detected>>
  BY DEF Check!FlowTestDone, Check!FlowTake, Check!FlowCompare, Check!coreVars, Check!commitVars
<1>2. flow_ended' = flow_ended \/ (flow_ended' = TRUE /\ ecall_detected = TRUE)
  BY DEF Check!FlowTestDone, Check!FlowTake, Check!FlowCompare, FlowInv, FlowTypes
<1>3. flow_error' \in BOOLEAN
  BY DEF Check!FlowTestDone, Check!FlowTake, Check!FlowCompare, FlowInv, FlowTypes
<1>4. FlowTypes' /\ EcallOrder'
  BY <1>1, <1>2, <1>3 DEF FlowInv, FlowTypes, EcallOrder
<1>5. Place' = Place /\ EcallAt' = EcallAt /\ Claimed' = Claimed
  BY <1>1 DEF Place, EcallAt, Check!EcallAt, Claimed
<1>6. CASE Check!FlowTestDone
  <2>1. UNCHANGED <<actual_fifo, expected_fifo, flow_tx, flow_error>>
    BY <1>6 DEF Check!FlowTestDone
  <2> QED BY <1>1, <1>4, <1>5, <2>1
          DEF FlowInv, Claimed, OnTrack, Behind, Caught, Agreeing, FlowIdle, InFlight
<1>7. CASE Check!FlowTake
  <2>1. /\ flow_tx = <<>> /\ actual_fifo # <<>> /\ actual_fifo' = Tail(actual_fifo)
        /\ flow_tx' = IF flow_ended THEN <<>> ELSE <<Head(actual_fifo)>>
        /\ UNCHANGED <<expected_fifo, flow_error>>
    BY <1>7 DEF Check!FlowTake
  <2>2. flow_ended = TRUE => flow_stopped = TRUE
    BY DEF FlowInv, EcallOrder
  <2>3. ~FlowIdle
    BY <2>1 DEF FlowIdle
  <2>4. \A tx, prediction :
          InFlight(tx, prediction) /\ flow_ended = FALSE => InFlight(tx, prediction)'
    BY <2>1 DEF InFlight
  <2>5. OnTrack => OnTrack'
    BY <1>1, <1>5, <2>1, <2>2, <2>3, <2>4 DEF OnTrack, Agreeing, FlowInv, FlowTypes
  <2>6. Behind => Behind'
    BY <1>1, <1>5, <2>1, <2>2, <2>3, <2>4 DEF Behind, Agreeing, FlowInv, FlowTypes
  <2>7. Caught => Caught'
    BY <1>1, <1>5, <2>1, <2>2, <2>3, <2>4 DEF Caught, FlowInv, FlowTypes
  <2> QED BY <1>4, <1>5, <2>5, <2>6, <2>7 DEF FlowInv
<1>8. CASE Check!FlowCompare
  <2>1. /\ flow_tx # <<>> /\ expected_fifo # <<>> /\ expected_fifo' = Tail(expected_fifo)
        /\ flow_tx' = <<>> /\ actual_fifo' = actual_fifo
        /\ flow_error' = (flow_error \/ flow_tx[1] # Head(expected_fifo))
    BY <1>8 DEF Check!FlowCompare
  <2>2. \A tx, prediction : InFlight(tx, prediction) =>
          FlowIdle' /\ (flow_error' = (flow_error \/ tx # prediction))
    BY <2>1 DEF InFlight, FlowIdle
  <2>3. Agreeing => flow_error' = FALSE /\ FlowIdle'
    BY <2>1, <2>2 DEF Agreeing, FlowIdle
  <2>4. OnTrack => OnTrack'
    BY <1>1, <1>5, <2>3 DEF OnTrack, Agreeing
  <2>5. Behind => Behind'
    BY <1>1, <1>5, <2>3 DEF Behind, Agreeing
  <2>6. Caught => Caught'
    <3>1. flow_error = TRUE => flow_error' = TRUE
      BY <2>1
    <3> QED BY <1>1, <2>2, <3>1 DEF Caught
  <2> QED BY <1>4, <1>5, <2>4, <2>5, <2>6 DEF FlowInv
<1> QED BY <1>6, <1>7, <1>8

LEMMA FlowStays == ASSUME FlowInv, UNCHANGED checkVars PROVE FlowInv'
<1>1. UNCHANGED <<fault, retired, prev_pc, flow_stopped, trace_ptr, actual_fifo, expected_fifo,
                  flow_tx, flow_ended, flow_error, checker_fifo, ecall_detected>>
  BY DEF checkVars
<1>2. Place' = Place /\ EcallAt' = EcallAt /\ Claimed' = Claimed
  BY <1>1 DEF Place, EcallAt, Check!EcallAt, Claimed
<1> QED BY <1>1, <1>2
        DEF FlowInv, FlowTypes, EcallOrder, OnTrack, Behind, Caught, Agreeing, FlowIdle, InFlight

LEMMA FlowInit == Check!Init => FlowInv
<1> SUFFICES ASSUME Check!Init PROVE FlowInv
  OBVIOUS
<1>1. /\ fault \in Faults /\ retired = 0 /\ prev_pc = Pc(1) /\ flow_stopped = FALSE
      /\ trace_ptr = 1 /\ FlowIdle /\ flow_ended = FALSE /\ flow_error = FALSE
      /\ checker_fifo = <<>> /\ ecall_detected = FALSE
  BY DEF Check!Init, FlowIdle, Pc
<1>2. fault.kind # "none" => fault.at \in 2 .. Len(Spike)
  BY <1>1, LogAssumption
<1>3. Place = 1 /\ 1 < EcallAt
  BY <1>1, <1>2, LogShape DEF Place
<1>4. fault.kind \in {"jump", "lost"} => retired < fault.at
  BY <1>1, <1>2, LogShape
<1> QED BY <1>1, <1>3, <1>4 DEF FlowInv, FlowTypes, EcallOrder, OnTrack, Agreeing

(* What the flow scoreboard promises of the states it comes to.             *)
LEMMA FlowSafe ==
  FlowInv => /\ fault.kind \in {"none", "wait"} => ~flow_error
             /\ Check!FlowFaultReported
<1> SUFFICES ASSUME FlowInv
    PROVE  /\ fault.kind \in {"none", "wait"} => ~flow_error
           /\ Check!FlowFaultReported
  OBVIOUS
<1>1. fault.kind \in {"none", "wait"} => ~flow_error
  BY DEF FlowInv, Claimed, OnTrack, Behind, Caught, Agreeing
<1>2. ASSUME retired = Len(Check!Commits), Check!ConsumersIdle, Claimed,
             fault.kind \in {"jump", "lost"}
      PROVE  flow_error
  <2>1. ~\E tx, prediction : InFlight(tx, prediction)
    BY <1>2, NoneInFlight
  <2>2. retired + 1 >= EcallAt /\ retired >= fault.at
    <3>1. /\ fault \in Faults /\ Len(Spike) \in Nat /\ EcallAt \in 2 .. Len(Spike)
          /\ fault.at \in 2 .. Len(Spike)
      BY <1>2, LogShape, LogAssumption DEF FlowInv, FlowTypes
    <3>2. CASE fault.kind = "jump"
      BY <3>1, <3>2, <1>2, CommitsOf
    <3>3. CASE fault.kind = "lost"
      <4>1. fault.at <= EcallAt - 2
        BY <3>1, <3>3, <1>2 DEF Claimed
      <4> QED BY <3>1, <3>3, <4>1, <1>2, CommitsOf
    <3> QED BY <3>2, <3>3, <1>2
  <2>3. retired \in Nat /\ EcallAt \in Nat /\ fault.at \in Nat
    BY <1>2, LogShape, LogAssumption DEF FlowInv, FlowTypes
  <2>4. ~OnTrack
    BY <1>2, <2>2, <2>3 DEF OnTrack
  <2>5. ~Behind
    BY <1>2, <2>2, <2>3 DEF Behind
  <2> QED BY <1>2, <2>1, <2>4, <2>5 DEF FlowInv, Caught
<1> QED BY <1>1, <1>2 DEF Check!FlowFaultReported, Claimed, EcallAt, Check!LoopOfTwo, Pc

(* The commit scoreboard: how many commits it received (Got) and compared   *)
(* (Compared); q is Spike from d + 1 to p.                                  *)
Got == retired - Len(checker_fifo)
Compared == Got - Len(actual_buffer)
Segment(q, d, p) ==
  /\ q \in Seq(Commit) /\ p \in d .. Len(Spike) /\ Len(q) = p - d
  /\ \A k \in 1 .. p - d : q[k] = Spike[d + k]
Least(m, n) == IF m <= n THEN m ELSE n

Waiting ==
  /\ Got < EcallAt
  /\ checker_fifo = <<>> \/
       /\ checker_fifo = <<Check!Commits[retired]>> /\ retired \in 1 .. Len(Spike)
  /\ actual_buffer \in Seq(Commit) /\ Len(actual_buffer) = Least(Got, Depth)
  /\ \A k \in 1 .. Len(actual_buffer) : actual_buffer[k] = Check!Commits[Compared + k]
InLog ==
  IF fault.kind = "data" /\ Compared >= fault.at THEN commit_error = TRUE
  ELSE Segment(expected_q, Compared, log_pos)
CommitTypes ==
  /\ fault \in Faults /\ retired \in Nat
  /\ ecall_detected \in BOOLEAN /\ commit_error \in BOOLEAN
CommitInv ==
  /\ CommitTypes
  /\ fault.kind = "none" => commit_error = FALSE
  /\ fault.kind \in {"none", "data"} =>
       IF ecall_detected
         THEN fault.kind = "data" /\ fault.at < EcallAt - Depth => commit_error = TRUE
         ELSE Waiting /\ InLog

LEMMA LeastOfTwo ==
  ASSUME NEW m \in Int, NEW n \in Int PROVE Check!Min({m, n}) = Least(m, n)
<1>1. /\ Least(m, n) \in {m, n} /\ {m, n} \subseteq Int
      /\ \A y \in {m, n} : Least(m, n) <= y
  BY DEF Least
<1> QED BY <1>1, MinIs

(* After the refill the next commit of the log is at the head of the queue. *)
LEMMA Refills ==
  ASSUME NEW d \in Nat, d < Len(Spike), Segment(expected_q, d, log_pos)
  PROVE  /\ Segment(Check!Refilled.q, d, Check!Refilled.pos)
         /\ Check!Refilled.pos \in d + 1 .. Len(Spike)
<1>0. /\ expected_q \in Seq(Commit) /\ Len(expected_q) = log_pos - d
      /\ log_pos \in d .. Len(Spike) /\ Len(Spike) \in Nat /\ Spike \in Seq(Commit)
      /\ \A k \in 1 .. log_pos - d : expected_q[k] = Spike[d + k]
  BY LogShape DEF Segment
<1>1. CASE Len(expected_q) > LowMark
  <2>1. Check!Refilled.q = expected_q /\ Check!Refilled.pos = log_pos
    BY <1>1 DEF Check!Refilled
  <2> QED BY <1>0, <1>1, <2>1, MarksAssumption DEF Segment
<1>2. CASE Len(expected_q) <= LowMark
  <2> DEFINE more == IF HighMark < Len(expected_q) THEN 0 ELSE HighMark - Len(expected_q)
             last == Check!Min({log_pos + more, Len(Spike)})
  <2>1. more \in Nat \ {0}
    BY <1>0, <1>2, MarksAssumption
  <2> HIDE DEF more
  <2>2. last = Least(log_pos + more, Len(Spike))
    <3>1. log_pos + more \in Int /\ Len(Spike) \in Int
      BY <1>0, <2>1
    <3> QED BY <3>1, LeastOfTwo
  <2> HIDE DEF last
  <2>3. last \in log_pos .. Len(Spike) /\ last \in d + 1 .. Len(Spike)
    BY <1>0, <2>1, <2>2 DEF Least
  <2>4. /\ Check!Refilled.q = expected_q \o SubSeq(Spike, log_pos + 1, last)
        /\ Check!Refilled.pos = last
    <3>1. ~(Len(expected_q) > LowMark)
      BY <1>0, <1>2, MarksAssumption
    <3> QED BY <3>1 DEF Check!Refilled, more, last
  <2>5. PICK new : new = SubSeq(Spike, log_pos + 1, last)
    OBVIOUS
  <2>6. /\ new \in Seq(Commit) /\ Len(new) = last - log_pos
        /\ \A k \in 1 .. last - log_pos : new[k] = Spike[log_pos + k]
    <3>1. log_pos \in Nat /\ last \in log_pos .. Len(Spike)
      BY <1>0, <2>3
    <3> QED BY ONLY <1>0, <2>5, <3>1, Part
  <2>7. PICK q : q = expected_q \o new
    OBVIOUS
  <2>8. q \in Seq(Commit) /\ Len(q) = last - d
    <3>1. q \in Seq(Commit) /\ Len(q) = Len(expected_q) + Len(new)
      BY ONLY <1>0, <2>6, <2>7, Joined
    <3> QED BY <1>0, <2>3, <2>6, <3>1
  <2>9. \A k \in 1 .. log_pos - d : q[k] = Spike[d + k]
    BY <1>0, <2>6, <2>7
  <2>10. ASSUME NEW k \in log_pos - d + 1 .. last - d PROVE q[k] = Spike[d + k]
    <3>1. q[k] = new[k - Len(expected_q)]
      <4>1. k \in Int /\ Len(expected_q) < k /\ k <= Len(expected_q) + Len(new)
        BY <1>0, <2>3, <2>6
      <4> QED BY ONLY <1>0, <2>6, <2>7, <4>1, JoinedEnd
    <3>2. /\ k - Len(expected_q) \in 1 .. last - log_pos
          /\ log_pos + (k - Len(expected_q)) = d + k
      BY <1>0, <2>3
    <3> QED BY <3>1, <3>2, <2>6
  <2>11. Segment(q, d, last)
    BY <1>0, <2>3, <2>8, <2>9, <2>10 DEF Segment
  <2> QED BY <2>3, <2>4, <2>5, <2>7, <2>11
<1> QED BY <1>0, <1>1, <1>2, MarksAssumption

LEMMA Compares ==
  ASSUME NEW d \in Nat, d < Len(Spike), Segment(expected_q, d, log_pos),
         NEW tx, tx.pc = Pc(d + 1), Check!CheckTransaction(tx)
  PROVE  IF tx = Spike[d + 1]
         THEN commit_error' = commit_error /\ Segment(expected_q', d + 1, log_pos')
         ELSE commit_error' = TRUE
<1> DEFINE q == Check!Refilled.q
           pos == Check!Refilled.pos
           found == {k \in 1 .. Len(q) : q[k].pc = tx.pc}
<1>1. /\ log_pos' = pos
      /\ IF found = {} THEN expected_q' = q /\ UNCHANGED commit_error
         ELSE IF q[Check!Min(found)] = tx
           THEN expected_q' = SubSeq(q, Check!Min(found) + 1, Len(q)) /\ UNCHANGED commit_error
           ELSE expected_q' = Tail(q) /\ commit_error' = TRUE
  BY DEF Check!CheckTransaction
<1>2. Segment(q, d, pos) /\ pos \in d + 1 .. Len(Spike)
  BY Refills
<1> HIDE DEF q, pos
<1>4. q \in Seq(Commit) /\ Len(q) = pos - d /\ q[1] = Spike[d + 1] /\ Len(Spike) \in Nat
  BY <1>2, LogShape DEF Segment
<1>5. 1 \in found /\ found \subseteq Int /\ (\A k \in found : 1 <= k) /\ found # {}
  BY <1>2, <1>4 DEF Pc
<1> HIDE DEF found
<1>6. Check!Min(found) = 1
  BY <1>5, MinIs
<1>7. /\ log_pos' = pos
      /\ IF q[1] = tx THEN expected_q' = SubSeq(q, 2, Len(q)) /\ UNCHANGED commit_error
         ELSE commit_error' = TRUE
  BY <1>1, <1>5, <1>6
<1>8. ASSUME q[1] = tx PROVE Segment(expected_q', d + 1, log_pos')
  <2>1. expected_q' = SubSeq(q, 2, Len(q)) /\ log_pos' = pos
    BY <1>7, <1>8
  <2>2. /\ expected_q' \in Seq(Commit) /\ Len(expected_q') = pos - (d + 1)
        /\ \A k \in 1 .. pos - (d + 1) : expected_q'[k] = q[k + 1]
    BY <1>2, <1>4, <2>1
  <2>3. ASSUME NEW k \in 1 .. pos - (d + 1) PROVE expected_q'[k] = Spike[(d + 1) + k]
    <3>1. k + 1 \in 1 .. pos - d /\ d + (k + 1) = (d + 1) + k
      BY <1>2
    <3> QED BY <2>2, <3>1, <1>2 DEF Segment
  <2> QED BY <1>2, <2>1, <2>2, <2>3 DEF Segment
<1> QED BY <1>4, <1>7, <1>8

LEMMA SameCommits ==
  ASSUME fault' = fault PROVE Check!Commits' = Check!Commits /\ EcallAt' = EcallAt
BY DEF Check!Commits, Check!Deviating, EcallAt, Check!EcallAt

(* The commits of a core with a wrong value or none have the log's addresses. *)
LEMMA CommitsInLog ==
  ASSUME fault \in Faults, fault.kind \in {"none", "data"}
  PROVE  /\ Len(Check!Commits) = Len(Spike) /\ Check!Commits \in Seq(Commit)
         /\ \A k \in 1 .. Len(Spike) :
              /\ Check!Commits[k].pc = Pc(k) /\ Check!Commits[k] \in Commit
              /\ ~(fault.kind = "data" /\ k = fault.at) <=> Check!Commits[k] = Spike[k]
<1>1. Len(Check!Commits) = Len(Spike) /\ Check!Commits \in Seq(Commit) /\ Len(Spike) \in Nat
  BY CommitsOf, LogShape
<1>2. \A k \in 1 .. Len(Spike) : Check!Commits[k] \in Commit
  BY <1>1
<1>3. CASE fault.kind = "none"
  BY <1>1, <1>2, <1>3, CommitsOf DEF Pc
<1>4. CASE fault.kind = "data"
  BY <1>1, <1>2, <1>4, CommitsOf
<1> QED BY <1>3, <1>4

LEMMA RetireCommit == ASSUME CommitInv, Check!Retire PROVE CommitInv'
<1>1. /\ retired < Len(Check!Commits) /\ checker_fifo = <<>> /\ retired' = retired + 1
      /\ checker_fifo' = <<Check!Commits[retired + 1]>>
      /\ UNCHANGED <<fault, actual_buffer, expected_q, log_pos, ecall_detected, commit_error>>
  BY DEF Check!Retire, Check!ConsumersIdle
<1>2. Check!Commits' = Check!Commits /\ EcallAt' = EcallAt
  BY <1>1, SameCommits
<1>3. Got' = Got /\ Compared' = Compared /\ retired \in Nat
  <2>1. retired \in Nat /\ Len(checker_fifo) = 0 /\ Len(checker_fifo') = 1
    BY <1>1 DEF CommitInv, CommitTypes
  <2> QED BY <1>1, <2>1 DEF Got, Compared
<1>4. CommitTypes'
  BY <1>1, <1>3 DEF CommitInv, CommitTypes
<1>5. fault.kind \in {"none", "data"} /\ Waiting => Waiting'
  <2> SUFFICES ASSUME fault.kind \in {"none", "data"}, Waiting PROVE Waiting'
    OBVIOUS
  <2>1. retired' \in 1 .. Len(Spike) /\ checker_fifo' = <<Check!Commits[retired']>>
    BY <1>1, <1>3, CommitsInLog, LogShape DEF CommitInv, CommitTypes
  <2> QED BY <1>1, <1>2, <1>3, <2>1 DEF Waiting
<1>6. InLog => InLog'
  BY <1>1, <1>2, <1>3 DEF InLog, Segment
<1> QED BY <1>1, <1>2, <1>4, <1>5, <1>6 DEF CommitInv

(* A commit goes into the buffer and one that is Depth older is compared.   *)
LEMMA ReceiveCommit ==
  ASSUME CommitInv, Check!CommitScoreboard, ecall_detected = FALSE,
         fault.kind \in {"none", "data"}
  PROVE  CommitInv'
<1> DEFINE tx == Check!Commits[retired]
           buffered == Append(actual_buffer, tx)
           at == fault.at
<1>1. /\ fault \in Faults /\ retired \in Nat /\ Len(Spike) \in Nat /\ Depth \in Nat
      /\ EcallAt \in 2 .. Len(Spike) /\ (fault.kind = "data" => at \in 2 .. Len(Spike))
  BY LogShape, LogAssumption, MarksAssumption DEF CommitInv, CommitTypes
<1>2. Waiting /\ InLog /\ (fault.kind = "none" => commit_error = FALSE) /\ commit_error \in BOOLEAN
  BY DEF CommitInv, CommitTypes
<1>3. checker_fifo = <<tx>> /\ retired \in 1 .. Len(Spike) /\ checker_fifo' = <<>>
      /\ fault' = fault /\ retired' = retired
  <2>1. /\ checker_fifo # <<>> /\ checker_fifo' = Tail(checker_fifo)
        /\ fault' = fault /\ retired' = retired
    BY DEF Check!CommitScoreboard, Check!coreVars
  <2>2. checker_fifo = <<tx>> /\ retired \in 1 .. Len(Spike)
    BY <1>2, <2>1 DEF Waiting
  <2>3. Tail(<<tx>>) = <<>>
    OBVIOUS
  <2> QED BY <2>1, <2>2, <2>3
<1>4. Head(checker_fifo) = tx /\ Len(checker_fifo) = 1 /\ Len(checker_fifo') = 0
  BY <1>3
<1>5. tx \in Commit /\ tx.pc = Pc(retired)
  BY <1>1, <1>3, CommitsInLog
<1>6. Check!Commits' = Check!Commits /\ EcallAt' = EcallAt
  BY <1>3, SameCommits
<1>7. Got = retired - 1 /\ Got' = retired /\ Got < EcallAt
  BY <1>1, <1>2, <1>3, <1>4 DEF Got, Waiting
<1>8. /\ actual_buffer \in Seq(Commit) /\ Len(actual_buffer) = Least(Got, Depth)
      /\ \A k \in 1 .. Len(actual_buffer) : actual_buffer[k] = Check!Commits[Compared + k]
  BY <1>2 DEF Waiting
<1>9. /\ Compared = Got - Len(actual_buffer) /\ Compared' = retired - Len(actual_buffer')
  BY <1>7 DEF Compared
<1>10. IF tx.pc = EcallPc
         THEN /\ ecall_detected' = TRUE /\ UNCHANGED commit_error
         ELSE /\ ecall_detected' = FALSE
              /\ IF Len(buffered) > Depth
                 THEN actual_buffer' = Tail(buffered) /\ Check!CheckTransaction(Head(buffered))
                 ELSE actual_buffer' = buffered /\ UNCHANGED <<expected_q, log_pos, commit_error>>
  BY <1>4 DEF Check!CommitScoreboard
<1> HIDE DEF tx
<1>11. CASE tx.pc = EcallPc
  <2>1. retired = EcallAt /\ Got = EcallAt - 1
    BY <1>1, <1>3, <1>5, <1>7, <1>11, LogShape
  <2>2. fault.kind = "data" /\ at < EcallAt - Depth => commit_error = TRUE
    BY <1>1, <1>2, <1>8, <1>9, <2>1 DEF InLog, Least
  <2>3. CommitTypes'
    BY <1>1, <1>2, <1>3, <1>7, <1>10, <1>11 DEF CommitTypes
  <2> QED BY <1>2, <1>3, <1>6, <1>10, <1>11, <2>2, <2>3 DEF CommitInv
<1>12. CASE tx.pc # EcallPc
  <2>1. Got' < EcallAt
    BY <1>1, <1>3, <1>5, <1>7, <1>12, LogShape
  <2>2. buffered \in Seq(Commit) /\ Len(buffered) = Len(actual_buffer) + 1
    BY <1>5, <1>8
  <2>3. /\ Len(actual_buffer) \in Nat /\ Got \in Nat
        /\ Compared \in Nat /\ Compared + Len(buffered) = retired
    BY <1>1, <1>3, <1>7, <1>8, <1>9, <2>2 DEF Least
  <2>4. \A k \in 1 .. Len(buffered) : buffered[k] = Check!Commits[Compared + k]
    <3>1. ASSUME NEW k \in 1 .. Len(buffered) PROVE buffered[k] = Check!Commits[Compared + k]
      <4>1. CASE k = Len(buffered)
        BY <1>5, <1>8, <2>2, <2>3, <4>1 DEF tx
      <4>2. CASE k # Len(buffered)
        BY <1>5, <1>8, <2>2, <2>3, <4>2
      <4> QED BY <4>1, <4>2
    <3> QED BY <3>1
  <2> HIDE DEF buffered
  <2>5. CASE Len(buffered) <= Depth
    <3>1. /\ actual_buffer' = buffered
          /\ UNCHANGED <<expected_q, log_pos, commit_error>> /\ ecall_detected' = FALSE
      BY <1>1, <1>10, <1>12, <2>2, <2>3, <2>5
    <3>2. Compared' = Compared
      BY <1>9, <2>3, <3>1
    <3>3. Len(actual_buffer') = Least(Got', Depth)
      BY <1>1, <1>7, <1>8, <2>2, <2>3, <2>5, <3>1 DEF Least
    <3>4. Waiting'
      BY <1>3, <1>6, <2>1, <2>2, <2>4, <3>1, <3>2, <3>3 DEF Waiting
    <3>5. InLog'
      BY <1>2, <1>3, <3>1, <3>2 DEF InLog
    <3> QED BY <1>1, <1>2, <1>3, <1>7, <3>1, <3>4, <3>5 DEF CommitInv, CommitTypes
  <2>6. CASE Len(buffered) > Depth
    <3>1. /\ actual_buffer' = Tail(buffered) /\ Check!CheckTransaction(buffered[1])
          /\ ecall_detected' = FALSE
      BY <1>10, <1>12, <2>2, <2>6
    <3>2. /\ Len(actual_buffer') = Len(buffered) - 1 /\ actual_buffer' \in Seq(Commit)
          /\ \A k \in 1 .. Len(buffered) - 1 : actual_buffer'[k] = buffered[k + 1]
      BY <2>2, <2>3, <3>1
    <3>3. Compared' = Compared + 1
      BY <1>1, <1>9, <2>2, <2>3, <3>2
    <3>4. Len(actual_buffer') = Least(Got', Depth)
      BY <1>1, <1>7, <1>8, <2>2, <2>3, <2>6, <3>2 DEF Least
    <3>5. \A k \in 1 .. Len(actual_buffer') : actual_buffer'[k] = Check!Commits[Compared' + k]
      <4>1. ASSUME NEW k \in 1 .. Len(actual_buffer')
            PROVE  actual_buffer'[k] = Check!Commits[Compared' + k]
        <5>1. k + 1 \in 1 .. Len(buffered) /\ Compared + (k + 1) = Compared' + k
          BY <2>2, <2>3, <3>2, <3>3
        <5> QED BY <2>2, <2>3, <2>4, <3>2, <5>1
      <4> QED BY <4>1
    <3>6. Waiting'
      BY <1>3, <1>6, <2>1, <3>2, <3>4, <3>5 DEF Waiting
    <3>7. buffered[1] = Check!Commits[Compared + 1] /\ Compared + 1 \in 1 .. Len(Spike)
      BY <1>1, <1>3, <2>2, <2>3, <2>4
    <3>8. /\ buffered[1].pc = Pc(Compared + 1)
          /\ ~(fault.kind = "data" /\ Compared + 1 = at) <=> buffered[1] = Spike[Compared + 1]
      BY <1>1, <3>7, CommitsInLog
    <3>9. fault' = fault /\ retired' = retired /\ ecall_detected' = FALSE
      BY <1>3, <3>1
    <3>10. ASSUME commit_error' \in BOOLEAN, InLog', fault.kind = "none" => commit_error' = FALSE
           PROVE  CommitInv'
      <4>1. CommitTypes'
        BY <1>1, <3>9, <3>10 DEF CommitTypes
      <4> QED BY <3>6, <3>9, <3>10, <4>1 DEF CommitInv
    <3>11. ASSUME commit_error' = TRUE, fault.kind = "data", Compared + 1 >= at PROVE CommitInv'
      <4>1. fault'.kind = "data" /\ Compared' >= fault'.at
        BY <3>3, <3>9, <3>11
      <4>2. InLog'
        BY <3>11, <4>1 DEF InLog
      <4> QED BY <3>10, <3>11, <4>2
    <3>12. CASE fault.kind = "data" /\ Compared >= at
      <4>1. commit_error = TRUE
        BY <1>2, <3>12 DEF InLog
      <4>2. commit_error' = TRUE
        BY <3>1, <4>1 DEF Check!CheckTransaction
      <4>3. Compared + 1 >= at
        BY <1>1, <2>3, <3>12
      <4> QED BY <3>11, <3>12, <4>2, <4>3
    <3>13. CASE ~(fault.kind = "data" /\ Compared >= at)
      <4>1. Segment(expected_q, Compared, log_pos)
        BY <1>2, <3>13 DEF InLog
      <4>2. PICK d : d = Compared
        OBVIOUS
      <4>3. d \in Nat /\ d < Len(Spike) /\ Segment(expected_q, d, log_pos)
        BY <1>1, <2>3, <3>7, <4>1, <4>2
      <4>4. PICK first : first = buffered[1]
        OBVIOUS
      <4>5. first.pc = Pc(d + 1) /\ Check!CheckTransaction(first)
        BY <3>1, <3>8, <4>2, <4>4
      <4>6. IF first = Spike[d + 1]
            THEN commit_error' = commit_error /\ Segment(expected_q', d + 1, log_pos')
            ELSE commit_error' = TRUE
        BY ONLY <4>3, <4>5, Compares
      <4>7. CASE fault.kind = "data" /\ Compared + 1 = at
        <5>1. first # Spike[d + 1]
          BY <3>8, <4>2, <4>4, <4>7
        <5>2. Compared + 1 >= at
          BY <1>1, <4>7
        <5> QED BY <3>11, <4>6, <4>7, <5>1, <5>2
      <4>8. CASE ~(fault.kind = "data" /\ Compared + 1 = at)
        <5>1. first = Spike[d + 1]
          BY <3>8, <4>2, <4>4, <4>8
        <5>2. commit_error' = commit_error /\ Segment(expected_q', Compared', log_pos')
          BY <3>3, <4>2, <4>6, <5>1
        <5>3. Segment(expected_q, Compared, log_pos)'
          BY <5>2 DEF Segment
        <5>4. ~(fault.kind = "data" /\ Compared' >= at)
          BY <1>1, <2>3, <3>3, <3>13, <4>8
        <5>5. InLog'
          BY <3>9, <5>3, <5>4 DEF InLog
        <5> QED BY <1>2, <3>10, <5>2, <5>5
      <4> QED BY <4>7, <4>8
    <3> QED BY <3>12, <3>13
  <2> QED BY <1>1, <2>2, <2>3, <2>5, <2>6
<1> QED BY <1>11, <1>12

(* The commits of other cores, and what comes after the ECALL.              *)
LEMMA IgnoreCommit ==
  ASSUME CommitInv, Check!CommitScoreboard,
         ecall_detected = TRUE \/ fault.kind \notin {"none", "data"}
  PROVE  CommitInv'
<1>1. fault' = fault /\ retired' = retired
  BY DEF Check!CommitScoreboard, Check!coreVars
<1>2. /\ ecall_detected = TRUE => ecall_detected' = TRUE /\ commit_error' = commit_error
      /\ ecall_detected' \in BOOLEAN
  BY DEF Check!CommitScoreboard, CommitInv, CommitTypes
<1>3. commit_error' \in BOOLEAN
  BY DEF Check!CommitScoreboard, Check!CheckTransaction, CommitInv, CommitTypes
<1>4. CommitTypes'
  BY <1>1, <1>2, <1>3 DEF CommitInv, CommitTypes
<1>5. EcallAt' = EcallAt
  BY DEF EcallAt, Check!EcallAt
<1> QED BY <1>1, <1>2, <1>4, <1>5 DEF CommitInv

LEMMA CommitStays ==
  ASSUME CommitInv,
         UNCHANGED <<fault, retired, checker_fifo, actual_buffer, expected_q, log_pos,
                     ecall_detected, commit_error>>
  PROVE  CommitInv'
<1>1. Check!Commits' = Check!Commits /\ EcallAt' = EcallAt
  BY SameCommits
<1>2. Got' = Got /\ Compared' = Compared
  BY DEF Got, Compared
<1>3. Waiting' = Waiting
  BY <1>1, <1>2 DEF Waiting
<1>4. InLog' = InLog
  BY <1>2 DEF InLog, Segment
<1> QED BY <1>1, <1>3, <1>4 DEF CommitInv, CommitTypes

LEMMA CommitInit == Check!Init => CommitInv
<1> SUFFICES ASSUME Check!Init PROVE CommitInv
  OBVIOUS
<1>1. /\ fault \in Faults /\ retired = 0 /\ checker_fifo = <<>> /\ actual_buffer = <<>>
      /\ expected_q = <<Spike[1]>> /\ log_pos = 1
      /\ ecall_detected = FALSE /\ commit_error = FALSE
  BY DEF Check!Init
<1>2. Got = 0 /\ Compared = 0
  <2>1. Len(checker_fifo) = 0 /\ Len(actual_buffer) = 0
    BY <1>1
  <2>2. retired = 0
    BY <1>1
  <2>3. Got = 0
    BY ONLY <2>1, <2>2 DEF Got
  <2> QED BY ONLY <2>1, <2>3 DEF Compared
<1>3. Len(Spike) \in Nat /\ Spike[1] \in Commit /\ EcallAt \in 2 .. Len(Spike) /\ Depth \in Nat
  BY LogShape, MarksAssumption
<1>4. Segment(expected_q, 0, 1)
  BY <1>1, <1>3 DEF Segment
<1>5. Waiting
  BY <1>1, <1>2, <1>3 DEF Waiting, Least
<1>6. fault.kind = "data" => fault.at \in 2 .. Len(Spike)
  BY <1>1, LogAssumption
<1>7. InLog
  BY <1>1, <1>2, <1>3, <1>4, <1>6 DEF InLog
<1> QED BY <1>1, <1>5, <1>7 DEF CommitInv, CommitTypes

(* What the commit scoreboard promises of the states it comes to.           *)
LEMMA CommitSafe ==
  CommitInv => /\ fault.kind = "none" => ~commit_error
               /\ Check!EarlyDataReported
BY DEF CommitInv, CommitTypes, Check!EarlyDataReported, EcallAt

LEMMA CheckPart ==
  ASSUME part = "check" => FlowInv /\ CommitInv, [Next]_vars
  PROVE  (part = "check" => FlowInv /\ CommitInv)'
<1> SUFFICES ASSUME part' = "check" PROVE FlowInv' /\ CommitInv'
  OBVIOUS
<1>1. part = "check"
  BY DEF Next, LoaderStep, CheckStep, CovStep, CompareStep, GenerateStep, vars
<1>2. CASE CheckStep(Check!Next)
  <2>1. CASE Check!Retire
    BY <1>1, <2>1, RetireFlow, RetireCommit
  <2>2. CASE Check!CommitScoreboard
    <3>1. ecall_detected \in BOOLEAN
      BY <1>1 DEF CommitInv, CommitTypes
    <3> QED BY <1>1, <2>2, <3>1, CommitFlow, ReceiveCommit, IgnoreCommit
  <2>3. CASE Check!FlowTestDone \/ Check!FlowTake \/ Check!FlowCompare
    <3>1. UNCHANGED <<fault, retired, checker_fifo, actual_buffer, expected_q, log_pos,
                      ecall_detected, commit_error>>
      BY <2>3 DEF Check!FlowTestDone, Check!FlowTake, Check!FlowCompare,
                  Check!coreVars, Check!commitVars
    <3> QED BY <1>1, <2>3, <3>1, FlowSteps, CommitStays
  <2>4. CASE Check!Stop
    <3>1. UNCHANGED checkVars
      BY <2>4 DEF Check!Stop, Check!vars, Check!coreVars, Check!flowVars, Check!commitVars,
                  checkVars
    <3> QED BY <1>1, <3>1, FlowStays, CommitStays DEF checkVars
  <2> QED BY <1>2, <2>1, <2>2, <2>3, <2>4 DEF CheckStep, Check!Next
<1>3. CASE UNCHANGED checkVars
  BY <1>1, <1>3, FlowStays, CommitStays DEF checkVars
<1> QED BY <1>1, <1>2, <1>3
        DEF Next, LoaderStep, CovStep, CompareStep, GenerateStep, vars

(* A core that commits what Spike did gets no error from either scoreboard, *)
(* whatever the program and however deep the buffers; one that reports an   *)
(* instruction again while it waits in EX gets none for its flow.           *)
THEOREM NoFalseAlarms == Spec => []NoFalseAlarm
<1>1. Init => (part = "check" => FlowInv /\ CommitInv)
  BY FlowInit, CommitInit DEF Init
<1>2. (part = "check" => FlowInv /\ CommitInv) /\ [Next]_vars
        => (part = "check" => FlowInv /\ CommitInv)'
  BY CheckPart
<1>3. (part = "check" => FlowInv /\ CommitInv) => NoFalseAlarm
  BY FlowSafe, CommitSafe DEF NoFalseAlarm, Check!NoFalseAlarm, Check!ErrorSeen
<1> QED BY <1>1, <1>2, <1>3, PTL DEF Spec

(* When the test ends a wrong value older than the last Depth commits has   *)
(* been reported, and when the core stands still so have a wrong turn and a *)
(* lost commit, except the loops of two instructions FlowFaultReported says.*)
THEOREM DeviationsReported == Spec => []DeviationReported
<1>1. Init => (part = "check" => FlowInv /\ CommitInv)
  BY FlowInit, CommitInit DEF Init
<1>2. (part = "check" => FlowInv /\ CommitInv) /\ [Next]_vars
        => (part = "check" => FlowInv /\ CommitInv)'
  BY CheckPart
<1>3. (part = "check" => FlowInv /\ CommitInv) => DeviationReported
  BY FlowSafe, CommitSafe DEF DeviationReported
<1> QED BY <1>1, <1>2, <1>3, PTL DEF Spec
=============================================================================
