--------------------------- MODULE BundleGateProofs ---------------------------
(***************************************************************************)
(* The verdict of the gate, for any include list, headers, ways to fail    *)
(* and number of rounds.                                                   *)
(***************************************************************************)
EXTENDS BundleGate, TLAPS, WellFoundedInduction

\* A set of naturals with 0 and every successor of a member holds them all.
LEMMA SetInduction ==
  ASSUME NEW S \in SUBSET Nat, 0 \in S, \A n \in S : n + 1 \in S
  PROVE  S = Nat
  <1> SUFFICES ASSUME Nat \ S # {} PROVE FALSE
    OBVIOUS
  <1>1. PICK n \in Nat \ S : \A m \in Nat \ S : ~(<<m, n>> \in OpToRel(<, Nat))
    BY NatLessThanWellFounded, WFMin
  <1>2. \A m \in Nat \ S : ~(m < n)
    BY <1>1 DEF OpToRel
  <1>3. n # 0 /\ n - 1 \in Nat
    OBVIOUS
  <1>4. n - 1 \in S
    BY <1>2, <1>3
  <1>5. (n - 1) + 1 \in S
    BY <1>4
  <1> QED
    BY <1>5

-----------------------------------------------------------------------------
(***************************************************************************)
(* Remaining is defined by recursion.  That a function with its equation   *)
(* exists is shown for any number of rounds, one round at a time.          *)
(***************************************************************************)
RoundOf(f, before, S) ==
  IF Compiles(f, S) THEN S
  ELSE IF Offenders(f, S) = {} THEN None
  ELSE before[S \ Offenders(f, S)]

IsLoop(f, k, loop) ==
  loop = [n \in 0..k |->
            [S \in SUBSET Gfm |-> IF n = 0 THEN None ELSE RoundOf(f, loop[n - 1], S)]]

LEMMA LoopExists ==
  ASSUME NEW f, NEW k \in Nat
  PROVE  \E loop : IsLoop(f, k, loop)
  <1> DEFINE D == {m \in Nat : \E loop : IsLoop(f, m, loop)}
  <1>1. 0 \in D
    <2> DEFINE g == [n \in 0..0 |-> [S \in SUBSET Gfm |-> None]]
    <2>1. IsLoop(f, 0, g)
      BY DEF IsLoop
    <2> QED
      BY <2>1
  <1>2. ASSUME NEW m \in D PROVE m + 1 \in D
    <2>1. PICK h : IsLoop(f, m, h)
      OBVIOUS
    <2> DEFINE g == [n \in 0..(m + 1) |->
                       IF n = m + 1 THEN [S \in SUBSET Gfm |-> RoundOf(f, h[m], S)]
                       ELSE h[n]]
    <2>2. \A n \in 0..m : g[n] = h[n]
      OBVIOUS
    <2>3. ASSUME NEW n \in 0..(m + 1)
          PROVE  g[n] = [S \in SUBSET Gfm |->
                           IF n = 0 THEN None ELSE RoundOf(f, g[n - 1], S)]
      <3>1. CASE n = m + 1
        <4>1. g[n] = [S \in SUBSET Gfm |-> RoundOf(f, h[m], S)] /\ n # 0
          BY <3>1
        <4>2. g[n - 1] = h[m]
          BY <3>1, <2>2
        <4> HIDE DEF g
        <4> QED
          BY <4>1, <4>2
      <3>2. CASE n # m + 1
        <4>1. n \in 0..m /\ (n # 0 => n - 1 \in 0..m)
          BY <3>2
        <4>2. h[n] = [S \in SUBSET Gfm |->
                        IF n = 0 THEN None ELSE RoundOf(f, h[n - 1], S)]
          BY <4>1, <2>1 DEF IsLoop
        <4>3. g[n] = h[n] /\ (n # 0 => g[n - 1] = h[n - 1])
          BY <4>1, <2>2
        <4> HIDE DEF g
        <4> QED
          BY <4>2, <4>3
      <3> QED
        BY <3>1, <3>2
    <2>4. IsLoop(f, m + 1, g)
      <3>1. g = [n \in 0..(m + 1) |-> g[n]]
        OBVIOUS
      <3> HIDE DEF g
      <3> QED
        BY <2>3, <3>1 DEF IsLoop
    <2> HIDE DEF g
    <2> QED
      BY <2>4
  <1> HIDE DEF D
  <1>3. D = Nat
    <2>1. D \in SUBSET Nat
      BY DEF D
    <2> QED
      BY <1>1, <1>2, <2>1, SetInduction
  <1> QED
    BY <1>3 DEF D

\* What comes of an include list, one round after the other.
LEMMA RemainingStep ==
  ASSUME NEW f, NEW n \in 0..MaxRounds, NEW S \in SUBSET Gfm
  PROVE  Remaining(f)[n][S] = IF n = 0 THEN None ELSE RoundOf(f, Remaining(f)[n - 1], S)
  <1>1. Remaining(f) = CHOOSE loop : IsLoop(f, MaxRounds, loop)
    BY DEF Remaining, IsLoop, RoundOf
  <1> DEFINE L == Remaining(f)
  <1>2. IsLoop(f, MaxRounds, L)
    BY <1>1, LoopExists, GateAssumption
  <1> HIDE DEF L
  <1>3. L[n] = [T \in SUBSET Gfm |-> IF n = 0 THEN None ELSE RoundOf(f, L[n - 1], T)]
    BY <1>2 DEF IsLoop
  <1>4. L[n][S] = IF n = 0 THEN None ELSE RoundOf(f, L[n - 1], S)
    BY <1>3
  <1> QED
    BY <1>4 DEF L

\* What the loop returns is a list that compiles.
LEMMA VerdictCompiles ==
  ASSUME NEW f
  PROVE  Verdict(f) # None => Verdict(f) \in SUBSET Gfm /\ Compiles(f, Verdict(f))
  <1> DEFINE Good(v) == v # None => v \in SUBSET Gfm /\ Compiles(f, v)
             D == {n \in Nat : n \in 0..MaxRounds =>
                                 \A S \in SUBSET Gfm : Good(Remaining(f)[n][S])}
  <1>1. 0 \in D
    BY RemainingStep
  <1>2. ASSUME NEW n \in D PROVE n + 1 \in D
    <2> SUFFICES ASSUME n + 1 \in 0..MaxRounds, NEW S \in SUBSET Gfm
                 PROVE  Good(Remaining(f)[n + 1][S])
      OBVIOUS
    <2>1. Remaining(f)[n + 1][S] = RoundOf(f, Remaining(f)[n], S)
      BY RemainingStep
    <2>2. n \in 0..MaxRounds
      BY GateAssumption
    <2>3. \A T \in SUBSET Gfm : Good(Remaining(f)[n][T])
      BY <2>2
    <2> HIDE DEF D
    <2> QED
      BY <2>1, <2>3 DEF RoundOf
  <1> HIDE DEF D, Good
  <1>3. D = Nat
    <2>1. D \in SUBSET Nat
      BY DEF D
    <2> QED
      BY <1>1, <1>2, <2>1, SetInduction
  <1>4. Good(Remaining(f)[MaxRounds][Gfm])
    BY <1>3, GateAssumption DEF D
  <1> QED
    BY <1>4 DEF Good, Verdict

-----------------------------------------------------------------------------
(***************************************************************************)
(* The inductive invariant: however far the loop got, what comes of its    *)
(* list is the verdict of the list it began with; and the cache keeps a    *)
(* verdict the loop reached on the texts of its key.                       *)
(***************************************************************************)
IsVerdictOf(v, t) == \E s \in Systems : v = Verdict(Profile[t][s])

LoopOnCourse ==
  phase = "gate" => Remaining(Present)[MaxRounds - round][gfm] = Verdict(Present)

CacheKeepsVerdict ==
  cache # None => IsVerdictOf(IF cache.ok THEN cache.gfm ELSE None, cache.key)

ReturnsVerdict == phase = "returned" => IsVerdictOf(verdict, text)

IInv ==
  /\ text \in Texts /\ system \in Systems
  /\ gfm \in SUBSET Gfm /\ round \in 0..MaxRounds
  /\ LoopOnCourse
  /\ CacheKeepsVerdict
  /\ ReturnsVerdict

LEMMA IInvInit == Init => IInv
  BY GateAssumption
  DEF Init, IInv, LoopOnCourse, CacheKeepsVerdict, ReturnsVerdict

\* The loop returns its verdict, and the cache keeps it if it may.
LEMMA ReturnKeeps ==
  ASSUME IInv, phase = "gate", phase' = "returned",
         UNCHANGED <<text, system, gfm, round, use_cache>>,
         verdict' = Verdict(Present),
         NEW entry, entry.key = text,
         (IF entry.ok THEN entry.gfm ELSE None) = verdict', Store(entry)
  PROVE  IInv'
  <1>1. IsVerdictOf(verdict', text)
    BY DEF IInv, IsVerdictOf, Present
  <1>2. CacheKeepsVerdict'
    BY <1>1 DEF IInv, CacheKeepsVerdict, Store, IsVerdictOf
  <1> QED
    BY <1>1, <1>2 DEF IInv, LoopOnCourse, ReturnsVerdict, IsVerdictOf

LEMMA GatePassesKeeps ==
  ASSUME IInv, GatePasses
  PROVE  IInv'
  <1> DEFINE n == MaxRounds - round
             entry == [key |-> Key, ok |-> TRUE, gfm |-> gfm]
  <1>1. n \in 0..MaxRounds /\ n # 0 /\ gfm \in SUBSET Gfm
    BY GateAssumption DEF IInv, GatePasses
  <1>2. Remaining(Present)[n][gfm] = RoundOf(Present, Remaining(Present)[n - 1], gfm)
    BY <1>1, RemainingStep
  <1>3. Remaining(Present)[n][gfm] = gfm
    BY <1>2 DEF GatePasses, RoundOf
  <1>4. verdict' = Verdict(Present)
    BY <1>3 DEF IInv, LoopOnCourse, GatePasses, Gating
  <1>5. entry.key = text /\ (IF entry.ok THEN entry.gfm ELSE None) = gfm
    BY DEF Key
  <1> QED
    BY <1>4, <1>5, ReturnKeeps DEF GatePasses, Gating

LEMMA GatePrunesKeeps ==
  ASSUME IInv, GatePrunes
  PROVE  IInv'
  <1>1. ~Compiles(Present, gfm) /\ Offenders(Present, gfm) # {} /\ round < MaxRounds
    BY DEF GatePrunes, Compiles
  <1>2. Remaining(Present)[MaxRounds - round][gfm]
          = Remaining(Present)[(MaxRounds - round) - 1][gfm \ Offenders(Present, gfm)]
    BY <1>1, RemainingStep, GateAssumption DEF IInv, RoundOf
  <1>3. (MaxRounds - round) - 1 = MaxRounds - round'
    BY GateAssumption DEF IInv, GatePrunes
  <1>4. LoopOnCourse'
    BY <1>2, <1>3 DEF IInv, LoopOnCourse, GatePrunes, Gating, Present
  <1>5. gfm' \in SUBSET Gfm /\ round' \in 0..MaxRounds
    <2>1. gfm' = gfm \ Offenders(Present, gfm) /\ round' = round + 1
      BY DEF GatePrunes
    <2>2. gfm \ Offenders(Present, gfm) \subseteq Gfm
      BY DEF IInv
    <2>3. round + 1 \in 0..MaxRounds
      BY <1>1, GateAssumption DEF IInv
    <2> QED
      BY <2>1, <2>2, <2>3
  <1> QED
    BY <1>4, <1>5 DEF IInv, GatePrunes, Gating, CacheKeepsVerdict, ReturnsVerdict

LEMMA GateGivesUpKeeps ==
  ASSUME IInv, GateGivesUp
  PROVE  IInv'
  <1>1. Remaining(Present)[MaxRounds - round][gfm] = None
    <2> DEFINE n == MaxRounds - round
    <2>1. n \in 0..MaxRounds /\ gfm \in SUBSET Gfm /\ (n = 0 <=> round = MaxRounds)
      BY GateAssumption DEF IInv
    <2>2. Remaining(Present)[n][gfm] =
            IF n = 0 THEN None ELSE RoundOf(Present, Remaining(Present)[n - 1], gfm)
      BY <2>1, RemainingStep
    <2> HIDE DEF n
    <2> QED
      BY <2>1, <2>2 DEF GateGivesUp, RoundOf, n
  <1>2. verdict' = Verdict(Present)
    BY <1>1 DEF IInv, LoopOnCourse, GateGivesUp, Gating
  <1> DEFINE entry == [key |-> Key, ok |-> FALSE]
  <1>3. entry.key = text /\ (IF entry.ok THEN entry.gfm ELSE None) = None
    BY DEF Key
  <1> QED
    BY <1>2, <1>3, ReturnKeeps DEF GateGivesUp, Gating

\* Every reachable state satisfies the inductive invariant.
THEOREM Inductive == Spec => []IInv
  <1>1. IInv /\ [Next]_vars => IInv'
    <2> SUFFICES ASSUME IInv, [Next]_vars PROVE IInv'
      OBVIOUS
    <2>1. CASE ReplayVerdict
      BY <2>1 DEF ReplayVerdict, Hit, Key, IInv, LoopOnCourse, CacheKeepsVerdict, ReturnsVerdict
    <2>2. CASE GatePasses
      BY <2>2, GatePassesKeeps
    <2>3. CASE GatePrunes
      BY <2>3, GatePrunesKeeps
    <2>4. CASE GateGivesUp
      BY <2>4, GateGivesUpKeeps
    <2>5. CASE TakeApart
      BY <2>5 DEF TakeApart, IInv, LoopOnCourse, CacheKeepsVerdict, ReturnsVerdict
    <2>6. CASE \E t \in Texts : EditHeaders(t)
      BY <2>6
      DEF EditHeaders, Between, IInv, LoopOnCourse, CacheKeepsVerdict, ReturnsVerdict
    <2>7. CASE \E s \in Systems : EditSystem(s)
      BY <2>7
      DEF EditSystem, Between, IInv, LoopOnCourse, CacheKeepsVerdict, ReturnsVerdict
    <2>8. CASE \E uc \in BOOLEAN : Call(uc)
      <3>1. LoopOnCourse'
        BY <2>8, GateAssumption DEF Call, LoopOnCourse, Verdict, Present
      <3> QED
        BY <2>8, <3>1, GateAssumption DEF Call, IInv, CacheKeepsVerdict, ReturnsVerdict
    <2>9. CASE UNCHANGED vars
      BY <2>9 DEF vars, IInv, LoopOnCourse, CacheKeepsVerdict, ReturnsVerdict, Present
    <2> QED
      BY <2>1, <2>2, <2>3, <2>4, <2>5, <2>6, <2>7, <2>8, <2>9 DEF Next, Generator
  <1> QED
    BY <1>1, IInvInit, PTL DEF Spec
-----------------------------------------------------------------------------
\* Whatever becomes of the system headers and of the cache, a list that is
\* returned is what pruning the present vendored headers comes to on system
\* headers there once were, and compiled with them (the key of _parse_bundle).
THEOREM VerdictFitsText == Spec => []VerdictOfText
  <1>1. IInv => VerdictOfText
    BY VerdictCompiles DEF IInv, ReturnsVerdict, IsVerdictOf, VerdictOfText
  <1> QED
    BY <1>1, Inductive, PTL

\* The system headers make no difference to what clang++ finds wrong.
SystemIsIrrelevant ==
  \A t \in Texts, s, u \in Systems : Profile[t][s] = Profile[t][u]

\* As long as the system headers stay what they were, a cached verdict is the
\* one the loop would reach now.
THEOREM CachedVerdictIsFresh ==
  ASSUME SystemIsIrrelevant
  PROVE  Spec => []VerdictIsFresh
  <1>1. IInv => VerdictIsFresh
    BY SystemIsIrrelevant, VerdictCompiles
    DEF IInv, ReturnsVerdict, IsVerdictOf, VerdictIsFresh, SystemIsIrrelevant, Present
  <1> QED
    BY <1>1, Inductive, PTL
=============================================================================
