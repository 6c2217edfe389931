-------------------------- MODULE AlgorithmsProofs --------------------------
(***************************************************************************)
(* What the algorithms compute for any inputs of which InputsAssumption    *)
(* holds: any translation units, any names and chains, any host.           *)
(***************************************************************************)
EXTENDS Algorithms, TLAPS, WellFoundedInduction, SequenceTheorems, FiniteSetTheorems

\* Every state is one of the inputs.
LEMMA AlwaysAnInput == Spec => [](input \in Inputs)
  <1>1. Init => input \in Inputs
    BY DEF Init
  <1>2. input \in Inputs /\ [Next]_input => (input \in Inputs)'
    BY DEF Next
  <1> QED
    BY <1>1, <1>2, PTL DEF Spec

\* A set of naturals that is not empty has a smallest member.
LEMMA LeastMember ==
  ASSUME NEW S \in SUBSET Nat, S # {}
  PROVE  \E n \in S : \A m \in S : n <= m
  <1>1. PICK n \in S : \A m \in S : ~(<<m, n>> \in OpToRel(<, Nat))
    BY NatLessThanWellFounded, WFMin
  <1>2. ASSUME NEW m \in S PROVE n <= m
    <2>1. m \in Nat /\ n \in Nat
      OBVIOUS
    <2>2. ~(m < n)
      BY <1>1, <2>1 DEF OpToRel
    <2> QED
      BY <2>1, <2>2
  <1> QED
    BY <1>2

-----------------------------------------------------------------------------
(***************************************************************************)
(* The lines of an export list.                                            *)
(***************************************************************************)
LEMMA SetInduction ==
  ASSUME NEW S \in SUBSET Nat, 0 \in S, \A n \in S : n + 1 \in S
  PROVE  S = Nat
  <1> SUFFICES ASSUME Nat \ S # {} PROVE FALSE
    OBVIOUS
  <1>1. PICK n \in Nat \ S : \A m \in Nat \ S : n <= m
    BY LeastMember
  <1>2. n # 0 /\ n - 1 \in Nat /\ ~(n <= n - 1)
    OBVIOUS
  <1>3. n - 1 \in S
    BY <1>1, <1>2
  <1>4. (n - 1) + 1 \in S
    BY <1>3
  <1> QED
    BY <1>4

\* FlattenSeq puts one sequence behind the other: f[n] are the first n of them.
LEMMA FlattenSteps ==
  ASSUME NEW T, NEW ss \in Seq(Seq(T))
  PROVE  \E f \in [0 .. Len(ss) -> Seq(T)] :
           /\ f[0] = << >>
           /\ \A n \in 1 .. Len(ss) : f[n] = f[n - 1] \o ss[n]
           /\ f[Len(ss)] = FlattenSeq(ss)
  <1> DEFINE Is(m, f) == f[0] = << >> /\ \A n \in 1 .. m : f[n] = f[n - 1] \o ss[n]
             D == {m \in Nat : m <= Len(ss) => \E f \in [0 .. m -> Seq(T)] : Is(m, f)}
  <1>0. Len(ss) \in Nat /\ \A n \in 1 .. Len(ss) : ss[n] \in Seq(T)
    BY LenProperties, ElementOfSeq
  <1>1. 0 \in D
    <2> DEFINE g == [n \in 0 .. 0 |-> << >>]
    <2>1. g \in [0 .. 0 -> Seq(T)] /\ Is(0, g)
      BY EmptySeq
    <2> QED
      BY <2>1
  <1>2. ASSUME NEW m \in D PROVE m + 1 \in D
    <2> SUFFICES ASSUME m + 1 <= Len(ss) PROVE \E f \in [0 .. m + 1 -> Seq(T)] : Is(m + 1, f)
      <3> HIDE DEF Is
      <3> QED
        OBVIOUS
    <2>0. m \in Nat /\ m <= Len(ss)
      BY <1>0
    <2>1. PICK h \in [0 .. m -> Seq(T)] : Is(m, h)
      <3> HIDE DEF Is
      <3> QED
        BY <2>0
    <2> DEFINE g == [n \in 0 .. m + 1 |-> IF n = m + 1 THEN h[m] \o ss[m + 1] ELSE h[n]]
    <2>2. \A n \in 0 .. m : g[n] = h[n]
      OBVIOUS
    <2>3. h[m] \o ss[m + 1] \in Seq(T)
      <3>1. h[m] \in Seq(T) /\ ss[m + 1] \in Seq(T)
        BY LenProperties, ElementOfSeq
      <3> QED
        BY <3>1, ConcatProperties
    <2>4. g \in [0 .. m + 1 -> Seq(T)]
      BY <2>3
    <2>5. ASSUME NEW n \in 1 .. m + 1 PROVE g[n] = g[n - 1] \o ss[n]
      <3>1. CASE n = m + 1
        <4>1. n - 1 = m /\ m \in 0 .. m
          BY <2>0, <3>1
        <4>2. g[n] = h[m] \o ss[m + 1]
          BY <3>1
        <4>3. g[n - 1] = h[m]
          BY <4>1, <2>2
        <4> QED
          BY <3>1, <4>2, <4>3
      <3>2. CASE n # m + 1
        <4>1. n \in 1 .. m /\ n - 1 \in 0 .. m /\ n \in 0 .. m
          BY <2>0, <3>2
        <4> QED
          BY <4>1, <2>1, <2>2
      <3> QED
        BY <3>1, <3>2
    <2>6. g[0] = << >>
      BY <2>0, <2>1, <2>2
    <2> QED
      BY <2>4, <2>5, <2>6
  <1> HIDE DEF D
  <1>3. D = Nat
    BY <1>1, <1>2, SetInduction DEF D
  <1>4. PICK f \in [0 .. Len(ss) -> Seq(T)] : Is(Len(ss), f)
    <2> HIDE DEF Is
    <2> QED
      BY <1>0, <1>3 DEF D
  <1>5. f[Len(ss)] = FlattenSeq(ss)
    <2>1. CASE Len(ss) = 0
      BY <2>1, <1>4, EmptySeq DEF FlattenSeq
    <2>2. CASE Len(ss) # 0
      <3> DEFINE F == CHOOSE fl : fl = [i \in 1 .. Len(ss) |->
                        IF i = 1 THEN ss[i] ELSE fl[i - 1] \o ss[i]]
                 g == [i \in 1 .. Len(ss) |-> f[i]]
      <3>1. g = [i \in 1 .. Len(ss) |-> IF i = 1 THEN ss[i] ELSE g[i - 1] \o ss[i]]
        <4>1. ASSUME NEW i \in 1 .. Len(ss)
              PROVE  f[i] = IF i = 1 THEN ss[i] ELSE g[i - 1] \o ss[i]
          <5>1. CASE i = 1
            <6>1. f[1] = << >> \o ss[1] /\ ss[1] \in Seq(T)
              <7>1. 1 \in 1 .. Len(ss) /\ 1 - 1 = 0
                BY <5>1
              <7> HIDE DEF g
              <7> QED
                BY <7>1, <1>0, <1>4
            <6> QED
              BY <6>1, <5>1, ConcatEmptySeq
          <5>2. CASE i # 1
            <6>1. i - 1 \in 1 .. Len(ss)
              BY <1>0, <5>2
            <6> QED
              BY <6>1, <5>2, <1>4
          <5> QED
            BY <5>1, <5>2
        <4> QED
          BY <4>1
      <3>2. F = [i \in 1 .. Len(ss) |-> IF i = 1 THEN ss[i] ELSE F[i - 1] \o ss[i]]
        BY <3>1
      <3>3. FlattenSeq(ss) = F[Len(ss)]
        BY <2>2 DEF FlattenSeq
      <3> HIDE DEF F
      <3> DEFINE E == {n \in Nat : n + 1 <= Len(ss) => F[n + 1] = f[n + 1]}
      <3>4. 0 \in E
        <4> SUFFICES ASSUME 1 <= Len(ss) PROVE F[1] = f[1]
          OBVIOUS
        <4>1. F[1] = ss[1] /\ g[1] = ss[1]
          <5>1. 1 \in 1 .. Len(ss)
            BY <1>0
          <5> QED
            BY <5>1, <3>1, <3>2
        <4> QED
          BY <4>1
      <3>5. ASSUME NEW n \in E PROVE n + 1 \in E
        <4> SUFFICES ASSUME (n + 1) + 1 <= Len(ss) PROVE F[(n + 1) + 1] = f[(n + 1) + 1]
          OBVIOUS
        <4>1. n + 1 \in 1 .. Len(ss) /\ (n + 1) + 1 \in 1 .. Len(ss) /\ F[n + 1] = f[n + 1]
          BY <1>0
        <4>2. F[(n + 1) + 1] = F[n + 1] \o ss[(n + 1) + 1]
          <5>1. n + 1 # 0 /\ (n + 1) + 1 # 1 /\ ((n + 1) + 1) - 1 = n + 1
            OBVIOUS
          <5> QED
            BY <3>2, <4>1, <5>1
        <4>3. f[(n + 1) + 1] = f[n + 1] \o ss[(n + 1) + 1]
          <5>1. ((n + 1) + 1) - 1 = n + 1
            OBVIOUS
          <5> QED
            BY <1>4, <4>1, <5>1
        <4> QED
          BY <4>1, <4>2, <4>3
      <3> HIDE DEF E
      <3>6. E = Nat
        BY <3>4, <3>5, SetInduction DEF E
      <3>7. Len(ss) - 1 \in E /\ Len(ss) - 1 \in Nat
        BY <3>6, <2>2, LenProperties
      <3> QED
        BY <3>3, <3>7, LenProperties DEF E
    <2> QED
      BY <2>1, <2>2
  <1> QED
    BY <1>4, <1>5

\* It puts two sequences behind each other as it puts their members.
LEMMA FlattenConcat ==
  ASSUME NEW T, NEW ss \in Seq(Seq(T)), NEW tt \in Seq(Seq(T))
  PROVE  FlattenSeq(ss \o tt) = FlattenSeq(ss) \o FlattenSeq(tt)
  <1> DEFINE m == Len(ss)
             k == Len(tt)
             both == ss \o tt
  <1>0. m \in Nat /\ k \in Nat
    BY LenProperties
  <1>1. /\ m \in Nat /\ k \in Nat
        /\ both \in Seq(Seq(T)) /\ Len(both) = m + k
        /\ \A i \in 1 .. m : both[i] = ss[i]
        /\ \A i \in 1 .. k : both[m + i] = tt[i] /\ tt[i] \in Seq(T)
    BY LenProperties, ConcatProperties, ElementOfSeq
  <1>2. PICK f \in [0 .. m -> Seq(T)] :
          /\ f[0] = << >>
          /\ \A n \in 1 .. m : f[n] = f[n - 1] \o ss[n]
          /\ f[m] = FlattenSeq(ss)
    BY FlattenSteps
  <1>3. PICK g \in [0 .. k -> Seq(T)] :
          /\ g[0] = << >>
          /\ \A n \in 1 .. k : g[n] = g[n - 1] \o tt[n]
          /\ g[k] = FlattenSeq(tt)
    BY FlattenSteps
  <1>4. PICK h \in [0 .. m + k -> Seq(T)] :
          /\ h[0] = << >>
          /\ \A n \in 1 .. m + k : h[n] = h[n - 1] \o both[n]
          /\ h[m + k] = FlattenSeq(both)
    <2> HIDE DEF m, k, both
    <2>1. both \in Seq(Seq(T)) /\ Len(both) = m + k
      BY <1>1
    <2>2. PICK h \in [0 .. Len(both) -> Seq(T)] :
            /\ h[0] = << >>
            /\ \A n \in 1 .. Len(both) : h[n] = h[n - 1] \o both[n]
            /\ h[Len(both)] = FlattenSeq(both)
      BY <2>1, FlattenSteps
    <2> QED
      BY <2>1, <2>2
  <1> HIDE DEF m, k, both
  <1>5. \A n \in Nat : n <= m => h[n] = f[n]
    <2> DEFINE D == {n \in Nat : n <= m => h[n] = f[n]}
    <2>1. 0 \in D
      BY <1>0, <1>2, <1>4
    <2>2. ASSUME NEW n \in D PROVE n + 1 \in D
      <3> SUFFICES ASSUME n + 1 <= m PROVE h[n + 1] = f[n + 1]
        OBVIOUS
      <3>1. n + 1 \in 1 .. m /\ n + 1 \in 1 .. m + k /\ (n + 1) - 1 = n /\ h[n] = f[n]
        BY <1>0
      <3> QED
        BY <1>1, <1>2, <1>4, <3>1
    <2> HIDE DEF D
    <2>3. D = Nat
      BY <2>1, <2>2, SetInduction DEF D
    <2> QED
      BY <2>3 DEF D
  <1>a. \A u, v, w \in Seq(T) : (u \o v) \o w = u \o (v \o w)
    BY ConcatAssociative
  <1>6. \A n \in Nat : n <= k => h[m + n] = f[m] \o g[n]
    <2> DEFINE D == {n \in Nat : n <= k => h[m + n] = f[m] \o g[n]}
    <2>1. 0 \in D
      <3>1. h[m] = f[m] /\ f[m] \in Seq(T)
        BY <1>0, <1>2, <1>5
      <3>2. f[m] \o << >> = f[m]
        BY <3>1, ConcatEmptySeq
      <3>3. g[0] = << >> /\ m + 0 = m
        BY <1>0, <1>3
      <3> QED
        BY <3>1, <3>2, <3>3
    <2>2. ASSUME NEW n \in D PROVE n + 1 \in D
      <3>0. n + 1 \in Nat
        OBVIOUS
      <3> SUFFICES ASSUME n + 1 <= k PROVE h[m + (n + 1)] = f[m] \o g[n + 1]
        BY <3>0
      <3>1. /\ n \in Nat /\ n + 1 \in 1 .. k /\ (n + 1) - 1 = n /\ n \in 0 .. k
            /\ m + (n + 1) \in 1 .. m + k /\ (m + (n + 1)) - 1 = m + n
        BY <1>0
      <3>2. h[m + (n + 1)] = h[m + n] \o tt[n + 1]
        BY <1>1, <1>4, <3>1
      <3>3. g[n + 1] = g[n] \o tt[n + 1]
        BY <1>3, <3>1
      <3>4. h[m + n] = f[m] \o g[n]
        BY <1>0, <3>1
      <3>5. f[m] \in Seq(T) /\ g[n] \in Seq(T) /\ tt[n + 1] \in Seq(T)
        BY <1>1, <1>2, <1>3, <3>1
      <3>6. (f[m] \o g[n]) \o tt[n + 1] = f[m] \o (g[n] \o tt[n + 1])
        BY <3>5, <1>a
      <3> QED
        BY <3>2, <3>3, <3>4, <3>6
    <2> HIDE DEF D
    <2>3. D = Nat
      BY <2>1, <2>2, SetInduction DEF D
    <2> QED
      BY <2>3 DEF D
  <1>7. h[m + k] = f[m] \o g[k]
    BY <1>0, <1>6
  <1> QED
    BY <1>2, <1>3, <1>4, <1>7 DEF both

\* One sequence put behind nothing is that sequence.
LEMMA FlattenOne ==
  ASSUME NEW T, NEW s \in Seq(T)
  PROVE  FlattenSeq(<<s>>) = s
  <1>1. <<s>> \in Seq(Seq(T)) /\ Len(<<s>>) = 1 /\ <<s>>[1] = s
    OBVIOUS
  <1>2. PICK f \in [0 .. 1 -> Seq(T)] :
          /\ f[0] = << >>
          /\ \A n \in 1 .. 1 : f[n] = f[n - 1] \o <<s>>[n]
          /\ f[1] = FlattenSeq(<<s>>)
    BY <1>1, FlattenSteps
  <1>3. f[1] = << >> \o s
    <2>1. 1 \in 1 .. 1 /\ 1 - 1 = 0
      OBVIOUS
    <2> QED
      BY <1>1, <1>2, <2>1
  <1> QED
    BY <1>2, <1>3, ConcatEmptySeq

\* What FlattenSeq returns has the members of its parts.
LEMMA FlattenIsSeq ==
  ASSUME NEW T, NEW ss \in Seq(Seq(T))
  PROVE  FlattenSeq(ss) \in Seq(T)
  <1>1. Len(ss) \in 0 .. Len(ss)
    BY LenProperties
  <1>2. PICK f \in [0 .. Len(ss) -> Seq(T)] : f[Len(ss)] = FlattenSeq(ss)
    BY FlattenSteps
  <1> QED
    BY <1>1, <1>2

-----------------------------------------------------------------------------
\* The conditions under which main guards lines, and the lines it finds and writes.
Conditions == {"win", "file"}

\* The lines that may be in a list while it is replayed.
AnyLines == Inc!Lines \cup {Inc!If(cond) : cond \in Conditions}

LineSeqs == Seq(AnyLines)

\* What a line adds to the exports of its list.
UsingBlock(x) == IF x.is = "using" THEN <<x>> ELSE << >>

\* The exports of a list are what its lines add, one behind the other.
LEMMA UsingBlocks ==
  ASSUME NEW lines \in LineSeqs
  PROVE  /\ [i \in 1 .. Len(lines) |-> UsingBlock(lines[i])] \in Seq(LineSeqs)
         /\ UsingsOf(lines) = FlattenSeq([i \in 1 .. Len(lines) |-> UsingBlock(lines[i])])
         /\ UsingsOf(lines) \in LineSeqs
  <1>1. \A i \in 1 .. Len(lines) : UsingBlock(lines[i]) \in LineSeqs
    <2> SUFFICES ASSUME NEW i \in 1 .. Len(lines) PROVE UsingBlock(lines[i]) \in LineSeqs
      OBVIOUS
    <2>1. lines[i] \in AnyLines
      BY ElementOfSeq DEF LineSeqs
    <2> QED
      BY <2>1 DEF UsingBlock, LineSeqs
  <1>2. [i \in 1 .. Len(lines) |-> UsingBlock(lines[i])] \in Seq(LineSeqs)
    BY <1>1, LenProperties, IsASeq DEF LineSeqs
  <1>3. UsingsOf(lines) = FlattenSeq([i \in 1 .. Len(lines) |-> UsingBlock(lines[i])])
    BY DEF UsingsOf, UsingBlock
  <1> QED
    BY <1>2, <1>3, FlattenIsSeq DEF LineSeqs

\* The exports of two lists, one behind the other, and of single lines.
LEMMA UsingsConcat ==
  ASSUME NEW a \in LineSeqs, NEW b \in LineSeqs
  PROVE  UsingsOf(a \o b) = UsingsOf(a) \o UsingsOf(b)
  <1> DEFINE blocks(s) == [i \in 1 .. Len(s) |-> UsingBlock(s[i])]
  <1>1. a \o b \in LineSeqs /\ Len(a \o b) = Len(a) + Len(b)
    BY ConcatProperties DEF LineSeqs
  <1>2. \A i \in 1 .. Len(a) + Len(b) :
          (a \o b)[i] = IF i <= Len(a) THEN a[i] ELSE b[i - Len(a)]
    BY ConcatProperties DEF LineSeqs
  <1>3. blocks(a) \in Seq(LineSeqs) /\ blocks(b) \in Seq(LineSeqs)
    BY UsingBlocks
  <1>4. Len(blocks(a)) = Len(a) /\ Len(blocks(b)) = Len(b) /\ Len(a) \in Nat /\ Len(b) \in Nat
    BY LenProperties DEF LineSeqs
  <1>5. blocks(a \o b) = blocks(a) \o blocks(b)
    <2> DEFINE x == blocks(a \o b)
               y == blocks(a) \o blocks(b)
    <2>1. x \in Seq(LineSeqs) /\ Len(x) = Len(a) + Len(b)
      <3>1. x \in Seq(LineSeqs)
        BY <1>1, UsingBlocks
      <3>2. Len(x) = Len(a \o b)
        BY <1>1, <1>4
      <3> QED
        BY <3>1, <3>2, <1>1
    <2>2. /\ y \in Seq(LineSeqs) /\ Len(y) = Len(a) + Len(b)
          /\ \A i \in 1 .. Len(a) + Len(b) :
               y[i] = IF i <= Len(a) THEN blocks(a)[i] ELSE blocks(b)[i - Len(a)]
      <3> DEFINE p == blocks(a)
                 q == blocks(b)
      <3>1. p \in Seq(LineSeqs) /\ q \in Seq(LineSeqs) /\ Len(p) = Len(a) /\ Len(q) = Len(b)
        BY <1>3, <1>4
      <3> HIDE DEF p, q
      <3>2. /\ p \o q \in Seq(LineSeqs) /\ Len(p \o q) = Len(a) + Len(b)
            /\ \A i \in 1 .. Len(a) + Len(b) :
                 (p \o q)[i] = IF i <= Len(a) THEN p[i] ELSE q[i - Len(a)]
        <4>1. \A i \in 1 .. Len(p) + Len(q) :
                (p \o q)[i] = IF i <= Len(p) THEN p[i] ELSE q[i - Len(p)]
          BY <3>1, ConcatProperties
        <4>2. p \o q \in Seq(LineSeqs) /\ Len(p \o q) = Len(p) + Len(q)
          BY <3>1, ConcatProperties
        <4> QED
          BY <3>1, <4>1, <4>2
      <3> QED
        BY <3>2 DEF p, q
    <2>3. ASSUME NEW i \in 1 .. Len(a) + Len(b) PROVE x[i] = y[i]
      <3>1. x[i] = UsingBlock((a \o b)[i])
        BY <1>1
      <3>2. CASE i <= Len(a)
        BY <3>1, <3>2, <1>2, <1>4, <2>2
      <3>3. CASE ~(i <= Len(a))
        <4>1. i - Len(a) \in 1 .. Len(b)
          BY <3>3, <1>4
        <4>2. (a \o b)[i] = b[i - Len(a)]
          BY <3>3, <1>2
        <4>3. y[i] = blocks(b)[i - Len(a)]
          BY <3>3, <2>2
        <4> QED
          BY <3>1, <4>1, <4>2, <4>3
      <3> QED
        BY <3>2, <3>3
    <2> HIDE DEF x, y
    <2>4. x = y
      BY <2>1, <2>2, <2>3, SeqEqual
    <2> QED
      BY <2>4 DEF x, y
  <1> HIDE DEF blocks
  <1>6. FlattenSeq(blocks(a) \o blocks(b)) = FlattenSeq(blocks(a)) \o FlattenSeq(blocks(b))
    BY <1>3, FlattenConcat DEF LineSeqs
  <1> QED
    BY <1>1, <1>5, <1>6, UsingBlocks DEF blocks

\* The exports of a list of one line.
LEMMA UsingsOfOne ==
  ASSUME NEW x \in AnyLines
  PROVE  UsingsOf(<<x>>) = UsingBlock(x)
  <1>1. <<x>> \in LineSeqs /\ Len(<<x>>) = 1 /\ <<x>>[1] = x
    BY DEF LineSeqs
  <1>2. [i \in 1 .. Len(<<x>>) |-> UsingBlock(<<x>>[i])] = <<UsingBlock(x)>>
    BY <1>1
  <1>3. UsingBlock(x) \in LineSeqs
    BY DEF UsingBlock, LineSeqs
  <1> QED
    BY <1>1, <1>2, <1>3, UsingBlocks, FlattenOne DEF LineSeqs

-----------------------------------------------------------------------------
\* A line exports one of the names; a list has nothing left to guard; what is written for
\* a line.
Hits(x, names) == x.is = "using" /\ x.names \cap names # {}

Settled(lines, names) == Inc!ToGuard(lines, names) = {}

GuardBlock(lines, i, cond, names) ==
  IF i \in Inc!ToGuard(lines, names) THEN <<Inc!If(cond), lines[i], Inc!Endif>> ELSE <<lines[i]>>

\* The two lines that guarding adds.
LEMMA KindsOfLines ==
  ASSUME NEW cond \in Conditions
  PROVE  /\ Inc!If(cond) \in AnyLines /\ Inc!If(cond).is = "if"
         /\ Inc!Endif \in AnyLines /\ Inc!Endif.is = "endif"
  BY DEF Inc!If, Inc!Endif, Inc!Lines, AnyLines

\* Lines to guard export one of the names and are not left alone.
LEMMA ToGuardHits ==
  ASSUME NEW lines \in LineSeqs, NEW names
  PROVE  /\ Inc!ToGuard(lines, names) \subseteq 1 .. Len(lines)
         /\ \A i \in 1 .. Len(lines) :
              i \in Inc!ToGuard(lines, names) <=> ~Inc!LeftAlone(lines, i) /\ Hits(lines[i], names)
  BY DEF Inc!ToGuard, Hits

\* A function on 1 .. n is a sequence of length n.
LEMMA FunctionIsSeq ==
  ASSUME NEW T, NEW n \in Nat, NEW s \in [1 .. n -> T]
  PROVE  s \in Seq(T) /\ Len(s) = n
  OBVIOUS

\* Two and three lines are written one behind the other.
LEMMA Pairs ==
  ASSUME NEW T, NEW a \in T, NEW b \in T
  PROVE  <<a>> \in Seq(T) /\ <<a, b>> \in Seq(T) /\ <<a, b>> = <<a>> \o <<b>>
  <1>1. <<a>> \in Seq(T) /\ <<b>> \in Seq(T) /\ <<a, b>> \in Seq(T)
    OBVIOUS
  <1> DEFINE s == <<a>> \o <<b>>
  <1>2. s \in Seq(T) /\ Len(s) = 2 /\ s[1] = a /\ s[2] = b
    BY <1>1, ConcatProperties
  <1> HIDE DEF s
  <1>3. \A i \in 1 .. 2 : <<a, b>>[i] = s[i]
    <2>1. \A i \in 1 .. 2 : i = 1 \/ i = 2
      OBVIOUS
    <2> QED
      BY <1>2, <2>1
  <1>4. <<a, b>> = s
    BY <1>1, <1>2, <1>3, SeqEqual
  <1> QED
    BY <1>1, <1>4 DEF s

LEMMA Triples ==
  ASSUME NEW T, NEW a \in T, NEW b \in T, NEW c \in T
  PROVE  <<a, b, c>> \in Seq(T) /\ <<a, b, c>> = <<a, b>> \o <<c>>
  <1>1. <<a, b>> \in Seq(T) /\ <<c>> \in Seq(T) /\ <<a, b, c>> \in Seq(T)
    OBVIOUS
  <1> DEFINE s == <<a, b>> \o <<c>>
  <1>2. s \in Seq(T) /\ Len(s) = 3 /\ s[1] = a /\ s[2] = b /\ s[3] = c
    BY <1>1, ConcatProperties
  <1> HIDE DEF s
  <1>3. \A i \in 1 .. 3 : <<a, b, c>>[i] = s[i]
    <2>1. \A i \in 1 .. 3 : i = 1 \/ i = 2 \/ i = 3
      OBVIOUS
    <2> QED
      BY <1>2, <2>1
  <1>4. <<a, b, c>> = s
    BY <1>1, <1>2, <1>3, SeqEqual
  <1> QED
    BY <1>1, <1>4 DEF s

\* The guarding writes one line after another, or the three lines of a guarded one.
LEMMA GuardSteps ==
  ASSUME NEW lines \in LineSeqs, NEW cond \in Conditions, NEW names
  PROVE  \E f \in [0 .. Len(lines) -> LineSeqs] :
           /\ f[0] = << >>
           /\ \A i \in 1 .. Len(lines) : /\ GuardBlock(lines, i, cond, names) \in LineSeqs
                                         /\ f[i] = f[i - 1] \o GuardBlock(lines, i, cond, names)
           /\ f[Len(lines)] = Inc!GuardEntityLines(lines, cond, names)
  <1> DEFINE blocks == [i \in 1 .. Len(lines) |-> GuardBlock(lines, i, cond, names)]
  <1>1. ASSUME NEW i \in 1 .. Len(lines) PROVE GuardBlock(lines, i, cond, names) \in LineSeqs
    <2>1. lines[i] \in AnyLines
      BY ElementOfSeq DEF LineSeqs
    <2>2. Inc!If(cond) \in AnyLines /\ Inc!Endif \in AnyLines
      BY KindsOfLines
    <2> DEFINE a == Inc!If(cond)
               x == lines[i]
               z == Inc!Endif
    <2> HIDE DEF a, x, z
    <2>3. <<a, x, z>> \in LineSeqs /\ <<x>> \in LineSeqs
      BY <2>1, <2>2, Triples, Pairs DEF LineSeqs, a, x, z
    <2> QED
      BY <2>3 DEF GuardBlock, a, x, z
  <1>2. Len(lines) \in Nat
    BY LenProperties DEF LineSeqs
  <1>3. blocks \in Seq(LineSeqs) /\ Len(blocks) = Len(lines)
    <2>1. \A i \in 1 .. Len(lines) : GuardBlock(lines, i, cond, names) \in LineSeqs
      BY <1>1
    <2>2. blocks \in [1 .. Len(lines) -> LineSeqs]
      BY <2>1
    <2> HIDE DEF blocks
    <2> QED
      BY <2>2, <1>2, FunctionIsSeq
  <1>4. Inc!GuardEntityLines(lines, cond, names) = FlattenSeq(blocks)
    BY DEF Inc!GuardEntityLines, GuardBlock, Inc!FlattenSeq, FlattenSeq
  <1>5. \A i \in 1 .. Len(lines) : blocks[i] = GuardBlock(lines, i, cond, names)
    OBVIOUS
  <1> HIDE DEF blocks
  <1>6. PICK f \in [0 .. Len(blocks) -> LineSeqs] :
          /\ f[0] = << >>
          /\ \A n \in 1 .. Len(blocks) : f[n] = f[n - 1] \o blocks[n]
          /\ f[Len(blocks)] = FlattenSeq(blocks)
    BY <1>3, FlattenSteps DEF LineSeqs
  <1> QED
    BY <1>1, <1>3, <1>4, <1>5, <1>6

\* What is written for a line has the exports of the line.
LEMMA UsingsOfBlock ==
  ASSUME NEW lines \in LineSeqs, NEW cond \in Conditions, NEW names, NEW i \in 1 .. Len(lines)
  PROVE  UsingsOf(GuardBlock(lines, i, cond, names)) = UsingBlock(lines[i])
  <1>1. lines[i] \in AnyLines
    BY ElementOfSeq DEF LineSeqs
  <1>2. /\ Inc!If(cond) \in AnyLines /\ Inc!If(cond).is = "if"
        /\ Inc!Endif \in AnyLines /\ Inc!Endif.is = "endif"
    BY KindsOfLines
  <1> DEFINE a == Inc!If(cond)
             x == lines[i]
             z == Inc!Endif
  <1> HIDE DEF a, x, z
  <1>3. UsingsOf(<<x>>) = UsingBlock(x)
    BY <1>1, UsingsOfOne DEF x
  <1>4. UsingsOf(<<a, x, z>>) = UsingBlock(x)
    <2>0. a \in AnyLines /\ x \in AnyLines /\ z \in AnyLines
      BY <1>1, <1>2 DEF a, x, z
    <2>1. <<a>> \in LineSeqs /\ <<x>> \in LineSeqs /\ <<z>> \in LineSeqs /\ <<a, x>> \in LineSeqs
      BY <2>0, Pairs DEF LineSeqs
    <2>2. UsingsOf(<<a>>) = << >> /\ UsingsOf(<<z>>) = << >>
      BY <2>0, <1>2, UsingsOfOne DEF a, z, UsingBlock
    <2>3. <<a, x, z>> = <<a, x>> \o <<z>> /\ <<a, x>> = <<a>> \o <<x>>
      <3> DEFINE T == AnyLines
      <3>1. a \in T /\ x \in T /\ z \in T
        BY <2>0
      <3> HIDE DEF T
      <3>2. <<a, x, z>> = <<a, x>> \o <<z>>
        BY <3>1, Triples
      <3>3. <<a, x>> = <<a>> \o <<x>>
        BY <3>1, Pairs
      <3> QED
        BY <3>2, <3>3
    <2>4. UsingsOf(<<a, x>>) = << >> \o UsingBlock(x)
      BY <2>1, <2>2, <2>3, <1>3, UsingsConcat
    <2>5. UsingsOf(<<a, x, z>>) = (<< >> \o UsingBlock(x)) \o << >>
      BY <2>1, <2>2, <2>3, <2>4, UsingsConcat
    <2>6. UsingBlock(x) \in LineSeqs
      BY <2>0 DEF UsingBlock, LineSeqs
    <2> QED
      BY <2>5, <2>6, ConcatEmptySeq DEF LineSeqs
  <1> QED
    BY <1>3, <1>4 DEF GuardBlock, a, x, z

\* No export is lost and none moves.
LEMMA GuardKeepsUsings ==
  ASSUME NEW lines \in LineSeqs, NEW cond \in Conditions, NEW names
  PROVE  UsingsOf(Inc!GuardEntityLines(lines, cond, names)) = UsingsOf(lines)
  <1> DEFINE n == Len(lines)
             blocks == [i \in 1 .. n |-> UsingBlock(lines[i])]
  <1>0. n \in Nat
    BY LenProperties DEF LineSeqs
  <1>1. PICK f \in [0 .. n -> LineSeqs] :
           /\ f[0] = << >>
           /\ \A i \in 1 .. n : /\ GuardBlock(lines, i, cond, names) \in LineSeqs
                                /\ f[i] = f[i - 1] \o GuardBlock(lines, i, cond, names)
           /\ f[n] = Inc!GuardEntityLines(lines, cond, names)
    BY GuardSteps
  <1>2. /\ blocks \in Seq(LineSeqs) /\ Len(blocks) = n
        /\ \A i \in 1 .. n : blocks[i] = UsingBlock(lines[i])
        /\ UsingsOf(lines) = FlattenSeq(blocks)
    BY <1>0, UsingBlocks
  <1> HIDE DEF blocks
  <1>3. PICK u \in [0 .. n -> LineSeqs] :
          /\ u[0] = << >>
          /\ \A i \in 1 .. n : u[i] = u[i - 1] \o blocks[i]
          /\ u[n] = FlattenSeq(blocks)
    <2>1. PICK u \in [0 .. Len(blocks) -> LineSeqs] :
            /\ u[0] = << >>
            /\ \A i \in 1 .. Len(blocks) : u[i] = u[i - 1] \o blocks[i]
            /\ u[Len(blocks)] = FlattenSeq(blocks)
      BY <1>2, FlattenSteps DEF LineSeqs
    <2> QED
      BY <1>2, <2>1
  <1> HIDE DEF n
  <1> DEFINE D == {i \in Nat : i <= n => UsingsOf(f[i]) = u[i]}
  <1>4. 0 \in D
    <2>1. UsingsOf(<< >>) = << >>
      BY DEF UsingsOf, FlattenSeq
    <2> QED
      BY <2>1, <1>1, <1>3
  <1>5. ASSUME NEW i \in D PROVE i + 1 \in D
    <2>0. i \in Nat /\ i + 1 \in Nat
      OBVIOUS
    <2> SUFFICES ASSUME i + 1 <= n PROVE UsingsOf(f[i + 1]) = u[i + 1]
      BY <2>0
    <2>1. i + 1 \in 1 .. n /\ i \in 0 .. n /\ (i + 1) - 1 = i /\ UsingsOf(f[i]) = u[i]
      BY <1>0, <2>0
    <2>2. f[i + 1] = f[i] \o GuardBlock(lines, i + 1, cond, names) /\ f[i] \in LineSeqs
      BY <1>1, <2>1
    <2>3. UsingsOf(f[i + 1]) = UsingsOf(f[i]) \o UsingsOf(GuardBlock(lines, i + 1, cond, names))
      BY <1>1, <2>1, <2>2, UsingsConcat
    <2>4. UsingsOf(GuardBlock(lines, i + 1, cond, names)) = blocks[i + 1]
      BY <1>2, <2>1, UsingsOfBlock DEF n
    <2>5. u[i + 1] = u[i] \o blocks[i + 1]
      BY <1>3, <2>1
    <2> QED
      BY <2>1, <2>3, <2>4, <2>5
  <1> HIDE DEF D
  <1>6. D = Nat
    BY <1>4, <1>5, SetInduction DEF D
  <1>7. UsingsOf(f[n]) = u[n]
    BY <1>0, <1>6 DEF D
  <1> QED
    BY <1>1, <1>2, <1>3, <1>7

\* Guarding yields a list of lines.
LEMMA GuardIsSeq ==
  ASSUME NEW lines \in LineSeqs, NEW cond \in Conditions, NEW names
  PROVE  Inc!GuardEntityLines(lines, cond, names) \in LineSeqs
  <1>1. PICK f \in [0 .. Len(lines) -> LineSeqs] :
           f[Len(lines)] = Inc!GuardEntityLines(lines, cond, names)
    BY GuardSteps
  <1>2. Len(lines) \in 0 .. Len(lines)
    BY LenProperties DEF LineSeqs
  <1> QED
    BY <1>1, <1>2

\* What is written already stays what it is.
LEMMA BehindOne ==
  ASSUME NEW T, NEW s \in Seq(T), NEW x \in T
  PROVE  /\ Len(s \o <<x>>) = Len(s) + 1
         /\ \A p \in 1 .. Len(s) : (s \o <<x>>)[p] = s[p]
         /\ (s \o <<x>>)[Len(s) + 1] = x
  <1> DEFINE t == s \o <<x>>
             m == Len(s)
  <1>1. <<x>> \in Seq(T) /\ m \in Nat
    BY LenProperties
  <1>2. Len(t) = m + 1 /\ \A p \in 1 .. m + 1 : t[p] = IF p <= m THEN s[p] ELSE <<x>>[p - m]
    BY <1>1, ConcatProperties
  <1> HIDE DEF t
  <1>3. \A p \in 1 .. m : t[p] = s[p]
    BY <1>1, <1>2
  <1>4. t[m + 1] = x
    BY <1>1, <1>2
  <1> QED
    BY <1>2, <1>3, <1>4 DEF t

LEMMA BehindThree ==
  ASSUME NEW T, NEW s \in Seq(T), NEW a \in T, NEW x \in T, NEW z \in T
  PROVE  /\ Len(s \o <<a, x, z>>) = Len(s) + 3
         /\ \A p \in 1 .. Len(s) : (s \o <<a, x, z>>)[p] = s[p]
         /\ (s \o <<a, x, z>>)[Len(s) + 1] = a
         /\ (s \o <<a, x, z>>)[Len(s) + 2] = x
         /\ (s \o <<a, x, z>>)[Len(s) + 3] = z
  <1> DEFINE t == s \o <<a, x, z>>
             m == Len(s)
  <1>1. <<a, x, z>> \in Seq(T) /\ m \in Nat
    BY LenProperties
  <1>2. /\ Len(t) = m + 3
        /\ \A p \in 1 .. m + 3 : t[p] = IF p <= m THEN s[p] ELSE <<a, x, z>>[p - m]
    BY <1>1, ConcatProperties
  <1> HIDE DEF t
  <1>3. \A p \in 1 .. m : t[p] = s[p]
    BY <1>1, <1>2
  <1>4. t[m + 1] = a /\ t[m + 2] = x /\ t[m + 3] = z
    <2>1. (m + 1) - m = 1 /\ (m + 2) - m = 2 /\ (m + 3) - m = 3
      BY <1>1
    <2>2. m + 1 \in 1 .. m + 3 /\ m + 2 \in 1 .. m + 3 /\ m + 3 \in 1 .. m + 3
      BY <1>1
    <2>3. ~(m + 1 <= m) /\ ~(m + 2 <= m) /\ ~(m + 3 <= m)
      BY <1>1
    <2> QED
      BY <2>1, <2>2, <2>3, <1>2
  <1> QED
    BY <1>2, <1>3, <1>4 DEF t

\* The two forms of what is written for a line.
LEMMA BlockIs ==
  ASSUME NEW lines \in LineSeqs, NEW cond \in Conditions, NEW names, NEW i \in 1 .. Len(lines)
  PROVE  /\ lines[i] \in AnyLines
         /\ i \in Inc!ToGuard(lines, names) =>
              GuardBlock(lines, i, cond, names) = <<Inc!If(cond), lines[i], Inc!Endif>>
         /\ i \notin Inc!ToGuard(lines, names) => GuardBlock(lines, i, cond, names) = <<lines[i]>>
  BY ElementOfSeq DEF GuardBlock, LineSeqs

\* A list without lines to guard stays as it is.
LEMMA SettledIsStable ==
  ASSUME NEW lines \in LineSeqs, NEW cond \in Conditions, NEW names, Settled(lines, names)
  PROVE  Inc!GuardEntityLines(lines, cond, names) = lines
  <1> DEFINE n == Len(lines)
  <1>0. n \in Nat
    BY LenProperties DEF LineSeqs
  <1>1. PICK f \in [0 .. n -> LineSeqs] :
           /\ f[0] = << >>
           /\ \A i \in 1 .. n : f[i] = f[i - 1] \o GuardBlock(lines, i, cond, names)
           /\ f[n] = Inc!GuardEntityLines(lines, cond, names)
    BY GuardSteps
  <1> HIDE DEF n
  <1> DEFINE D == {i \in Nat : i <= n => Len(f[i]) = i /\ \A p \in 1 .. i : f[i][p] = lines[p]}
  <1>2. 0 \in D
    BY <1>1
  <1>3. ASSUME NEW i \in D PROVE i + 1 \in D
    <2>0. i \in Nat /\ i + 1 \in Nat
      OBVIOUS
    <2> SUFFICES ASSUME i + 1 <= n
                 PROVE  /\ Len(f[i + 1]) = i + 1
                        /\ \A p \in 1 .. i + 1 : f[i + 1][p] = lines[p]
      BY <2>0
    <2>1. i + 1 \in 1 .. n /\ i \in 0 .. n /\ (i + 1) - 1 = i
      BY <1>0, <2>0
    <2>2. Len(f[i]) = i /\ \A p \in 1 .. i : f[i][p] = lines[p]
      BY <2>1, <1>0
    <2>3. f[i + 1] = f[i] \o GuardBlock(lines, i + 1, cond, names) /\ f[i] \in LineSeqs
      BY <1>1, <2>1
    <2>5. /\ \A p \in 1 .. i : f[i + 1][p] = f[i][p]
          /\ Len(f[i + 1]) = i + 1 /\ f[i + 1][i + 1] = lines[i + 1]
      <3> DEFINE s == f[i]
                 x == lines[i + 1]
      <3>1. i + 1 \notin Inc!ToGuard(lines, names) /\ i + 1 \in 1 .. Len(lines)
        BY <2>1 DEF Settled, n
      <3>2. x \in AnyLines /\ f[i + 1] = s \o <<x>> /\ s \in Seq(AnyLines)
        BY <2>3, <3>1, BlockIs DEF LineSeqs
      <3> HIDE DEF s, x
      <3>3. /\ Len(s \o <<x>>) = Len(s) + 1
            /\ \A p \in 1 .. Len(s) : (s \o <<x>>)[p] = s[p]
            /\ (s \o <<x>>)[Len(s) + 1] = x
        BY <3>2, BehindOne
      <3> QED
        BY <2>2, <3>2, <3>3 DEF s, x
    <2>6. \A p \in 1 .. i + 1 : p \in 1 .. i \/ p = i + 1
      BY <2>0
    <2> QED
      BY <2>2, <2>5, <2>6
  <1> HIDE DEF D
  <1>4. D = Nat
    BY <1>2, <1>3, SetInduction DEF D
  <1>5. Len(f[n]) = n /\ \A p \in 1 .. n : f[n][p] = lines[p]
    BY <1>0, <1>4 DEF D
  <1>6. f[n] \in LineSeqs
    BY <1>0, <1>1
  <1> QED
    BY <1>1, <1>5, <1>6, SeqEqual DEF LineSeqs, n

\* Where every export that is hit is left alone or guarded now, nothing is left to
\* guard: a guarded line has its conditional around it, and a line left alone keeps
\* the line of a conditional that it was left alone for.
LEMMA GuardSettles ==
  ASSUME NEW lines \in LineSeqs, NEW cond \in Conditions, NEW names, NEW hit,
         \A i \in 1 .. Len(lines) :
           Hits(lines[i], hit) => Inc!LeftAlone(lines, i) \/ i \in Inc!ToGuard(lines, names)
  PROVE  Settled(Inc!GuardEntityLines(lines, cond, names), hit)
  <1> DEFINE n == Len(lines)
             Closes(i) == i < n /\ lines[i + 1].is = "endif"
             Alone(s, i, p) == \/ p > 1 /\ s[p - 1].is = "if"
                               \/ p < Len(s) /\ s[p + 1].is = "endif"
                               \/ p = Len(s) /\ Closes(i)
             Kept(s, i) == /\ i > 0 /\ lines[i].is = "if" => Len(s) > 0 /\ s[Len(s)].is = "if"
                           /\ \A p \in 1 .. Len(s) : Hits(s[p], hit) => Alone(s, i, p)
  <1>0. n \in Nat
    BY LenProperties DEF LineSeqs
  <1>1. PICK f \in [0 .. n -> LineSeqs] :
           /\ f[0] = << >>
           /\ \A i \in 1 .. n : f[i] = f[i - 1] \o GuardBlock(lines, i, cond, names)
           /\ f[n] = Inc!GuardEntityLines(lines, cond, names)
    BY GuardSteps
  <1>2. ASSUME NEW i \in Nat, i + 1 <= n, NEW s \in LineSeqs, Kept(s, i)
        PROVE  Kept(s \o GuardBlock(lines, i + 1, cond, names), i + 1)
    <2> DEFINE t == s \o GuardBlock(lines, i + 1, cond, names)
               m == Len(s)
               x == lines[i + 1]
    <2>1. m \in Nat /\ i + 1 \in 1 .. n
      BY <1>0, <1>2, LenProperties DEF LineSeqs
    <2>2. /\ \A p \in 1 .. m : t[p] = s[p]
          /\ i + 1 \in Inc!ToGuard(lines, names) =>
               /\ Len(t) = m + 3
               /\ t[m + 1] = Inc!If(cond) /\ t[m + 2] = x /\ t[m + 3] = Inc!Endif
          /\ i + 1 \notin Inc!ToGuard(lines, names) => Len(t) = m + 1 /\ t[m + 1] = x
      <3> DEFINE a == Inc!If(cond)
                 z == Inc!Endif
      <3>1. /\ x \in AnyLines
            /\ i + 1 \in Inc!ToGuard(lines, names) => t = s \o <<a, x, z>>
            /\ i + 1 \notin Inc!ToGuard(lines, names) => t = s \o <<x>>
        BY <2>1, BlockIs
      <3>2. a \in AnyLines /\ z \in AnyLines /\ s \in Seq(AnyLines)
        BY KindsOfLines DEF LineSeqs
      <3> HIDE DEF a, x, z, t
      <3>3. CASE i + 1 \in Inc!ToGuard(lines, names)
        <4>1. /\ Len(s \o <<a, x, z>>) = m + 3
              /\ \A p \in 1 .. m : (s \o <<a, x, z>>)[p] = s[p]
              /\ (s \o <<a, x, z>>)[m + 1] = a
              /\ (s \o <<a, x, z>>)[m + 2] = x
              /\ (s \o <<a, x, z>>)[m + 3] = z
          BY <3>1, <3>2, BehindThree
        <4> QED
          BY <3>1, <3>3, <4>1 DEF a, z
      <3>4. CASE i + 1 \notin Inc!ToGuard(lines, names)
        <4>1. /\ Len(s \o <<x>>) = m + 1
              /\ \A p \in 1 .. m : (s \o <<x>>)[p] = s[p]
              /\ (s \o <<x>>)[m + 1] = x
          BY <3>1, <3>2, BehindOne
        <4> QED
          BY <3>1, <3>4, <4>1
      <3> QED
        BY <3>3, <3>4
    <2>3. Inc!If(cond).is = "if" /\ Inc!Endif.is = "endif"
      BY KindsOfLines
    <2> HIDE DEF t
    <2>4. ASSUME NEW p \in 1 .. m, Hits(t[p], hit) PROVE Alone(t, i + 1, p)
      <3>1. Alone(s, i, p) /\ t[p] = s[p]
        BY <1>2, <2>2, <2>4
      <3>2. CASE p > 1 /\ s[p - 1].is = "if"
        <4>1. p - 1 \in 1 .. m
          BY <3>2, <2>1
        <4> QED
          BY <4>1, <3>2, <2>2
      <3>3. CASE p < m /\ s[p + 1].is = "endif"
        <4>1. p + 1 \in 1 .. m /\ p < Len(t)
          BY <3>3, <2>1, <2>2
        <4> QED
          BY <4>1, <3>3, <2>2
      <3>4. CASE p = m /\ Closes(i)
        <4>1. x.is = "endif"
          BY <3>4
        <4>2. i + 1 \notin Inc!ToGuard(lines, names)
          BY <4>1, <2>1, ToGuardHits DEF Hits
        <4>3. p < Len(t) /\ t[p + 1].is = "endif"
          BY <3>4, <4>1, <4>2, <2>1, <2>2
        <4> QED
          BY <4>3
      <3> QED
        BY <3>1, <3>2, <3>3, <3>4
    <2>5. CASE i + 1 \in Inc!ToGuard(lines, names)
      <3>1. x.is = "using"
        BY <2>5, <2>1, ToGuardHits DEF Hits
      <3>2. ASSUME NEW p \in 1 .. Len(t), Hits(t[p], hit) PROVE Alone(t, i + 1, p)
        <4>1. p \in 1 .. m \/ p = m + 1 \/ p = m + 2 \/ p = m + 3
          <5>1. Len(t) = m + 3
            BY <2>2, <2>5
          <5> QED
            BY <5>1, <2>1
        <4>2. p # m + 1 /\ p # m + 3
          BY <2>2, <2>3, <2>5, <3>2 DEF Hits
        <4>3. CASE p = m + 2
          <5>1. p > 1 /\ p - 1 = m + 1
            BY <4>3, <2>1
          <5> QED
            BY <5>1, <2>2, <2>3, <2>5
        <4> QED
          BY <4>1, <4>2, <4>3, <2>4, <3>2
      <3> QED
        BY <3>1, <3>2 DEF t
    <2>6. CASE i + 1 \notin Inc!ToGuard(lines, names)
      <3>1. x.is = "if" => Len(t) > 0 /\ t[Len(t)].is = "if"
        BY <2>1, <2>2, <2>6
      <3>2. ASSUME NEW p \in 1 .. Len(t), Hits(t[p], hit) PROVE Alone(t, i + 1, p)
        <4>1. p \in 1 .. m \/ p = m + 1
          BY <2>1, <2>2, <2>6
        <4>2. CASE p = m + 1
          <5>1. Inc!LeftAlone(lines, i + 1)
            BY <4>2, <3>2, <2>1, <2>2, <2>6
          <5>2. CASE i + 1 > 1 /\ lines[i].is = "if"
            <6>1. m > 0 /\ s[m].is = "if"
              BY <5>2, <1>2
            <6>2. p > 1 /\ p - 1 = m /\ t[m] = s[m]
              BY <4>2, <6>1, <2>1, <2>2
            <6> QED
              BY <6>1, <6>2
          <5>3. CASE i + 1 < n /\ lines[(i + 1) + 1].is = "endif"
            BY <5>3, <4>2, <2>2, <2>6
          <5>4. (i + 1) - 1 = i
            OBVIOUS
          <5> QED
            BY <5>1, <5>2, <5>3, <5>4 DEF Inc!LeftAlone
        <4> QED
          BY <4>1, <4>2, <2>4, <3>2
      <3> QED
        BY <3>1, <3>2 DEF t
    <2> QED
      BY <2>5, <2>6
  <1>3. Kept(<< >>, 0)
    OBVIOUS
  <1> HIDE DEF Kept, n
  <1> DEFINE D == {i \in Nat : i <= n => Kept(f[i], i)}
  <1>4. 0 \in D
    BY <1>1, <1>3
  <1>5. ASSUME NEW i \in D PROVE i + 1 \in D
    <2>0. i \in Nat /\ i + 1 \in Nat
      OBVIOUS
    <2> SUFFICES ASSUME i + 1 <= n PROVE Kept(f[i + 1], i + 1)
      BY <2>0
    <2>1. i + 1 \in 1 .. n /\ i \in 0 .. n /\ (i + 1) - 1 = i /\ Kept(f[i], i)
      BY <1>0, <2>0
    <2>2. f[i + 1] = f[i] \o GuardBlock(lines, i + 1, cond, names) /\ f[i] \in LineSeqs
      BY <1>1, <2>1
    <2> QED
      BY <1>2, <2>0, <2>1, <2>2
  <1> HIDE DEF D
  <1>6. D = Nat
    BY <1>4, <1>5, SetInduction DEF D
  <1>7. Kept(f[n], n) /\ f[n] \in LineSeqs
    <2>1. n \in D /\ n \in 0 .. n /\ n <= n
      BY <1>0, <1>6
    <2> QED
      BY <2>1, <1>1 DEF D
  <1>8. \A p \in 1 .. Len(f[n]) : Hits(f[n][p], hit) => Inc!LeftAlone(f[n], p)
    BY <1>0, <1>7 DEF Kept, Inc!LeftAlone
  <1>9. Inc!ToGuard(f[n], hit) = {}
    BY <1>7, <1>8, ToGuardHits
  <1> QED
    BY <1>1, <1>9 DEF Settled

-----------------------------------------------------------------------------
\* How many of the first p lines are of a kind.
Count(s, p, kind) == Cardinality({j \in 1 .. p : s[j].is = kind})

\* A line more counts for its kind.
LEMMA CountSteps ==
  ASSUME NEW s, NEW p \in Nat, NEW kind
  PROVE  /\ Count(s, 0, kind) = 0
         /\ Count(s, p, kind) \in Nat
         /\ s[p + 1].is = kind => Count(s, p + 1, kind) = Count(s, p, kind) + 1
         /\ s[p + 1].is # kind => Count(s, p + 1, kind) = Count(s, p, kind)
  <1> DEFINE S(q) == {j \in 1 .. q : s[j].is = kind}
  <1>1. IsFiniteSet(S(p)) /\ Cardinality(S(p)) \in Nat
    <2>1. IsFiniteSet(1 .. p)
      BY FS_Interval
    <2> QED
      BY <2>1, FS_Subset, FS_CardinalityType
  <1>2. S(0) = {}
    OBVIOUS
  <1>3. \A j \in 1 .. p + 1 : j \in 1 .. p \/ j = p + 1
    OBVIOUS
  <1>4. 1 .. p \subseteq 1 .. p + 1 /\ p + 1 \in 1 .. p + 1 /\ p + 1 \notin 1 .. p
    OBVIOUS
  <1>5. s[p + 1].is = kind => S(p + 1) = S(p) \cup {p + 1}
    BY <1>3, <1>4
  <1>6. s[p + 1].is # kind => S(p + 1) = S(p)
    BY <1>3, <1>4
  <1>7. p + 1 \notin S(p)
    BY <1>4
  <1> HIDE DEF S
  <1>8. Cardinality(S(p) \cup {p + 1}) = Cardinality(S(p)) + 1
    BY <1>1, <1>7, FS_AddElement
  <1>9. Cardinality({}) = 0
    BY FS_EmptySet
  <1> QED
    BY <1>1, <1>2, <1>5, <1>6, <1>8, <1>9 DEF S, Count

\* A line opens a conditional, closes one, or leaves their number as it is.
LEMMA OpenSteps ==
  ASSUME NEW s, NEW p \in Nat
  PROVE  /\ Open(s, 0) = 0
         /\ Open(s, p) \in Int
         /\ s[p + 1].is = "if" => Open(s, p + 1) = Open(s, p) + 1
         /\ s[p + 1].is = "endif" => Open(s, p + 1) = Open(s, p) - 1
         /\ s[p + 1].is \notin {"if", "endif"} => Open(s, p + 1) = Open(s, p)
  <1>1. \A q : Open(s, q) = Count(s, q, "if") - Count(s, q, "endif")
    BY DEF Open, Count
  <1>2. "if" # "endif"
    OBVIOUS
  <1>3. /\ Count(s, 0, "if") = 0 /\ Count(s, p, "if") \in Nat
        /\ s[p + 1].is = "if" => Count(s, p + 1, "if") = Count(s, p, "if") + 1
        /\ s[p + 1].is # "if" => Count(s, p + 1, "if") = Count(s, p, "if")
    BY CountSteps
  <1>4. /\ Count(s, 0, "endif") = 0 /\ Count(s, p, "endif") \in Nat
        /\ s[p + 1].is = "endif" => Count(s, p + 1, "endif") = Count(s, p, "endif") + 1
        /\ s[p + 1].is # "endif" => Count(s, p + 1, "endif") = Count(s, p, "endif")
    BY CountSteps
  <1> QED
    BY <1>1, <1>2, <1>3, <1>4

\* What is open behind a line depends on the lines up to it only.
LEMMA OpenAgrees ==
  ASSUME NEW s, NEW t, NEW p, \A j \in 1 .. p : s[j] = t[j]
  PROVE  Open(s, p) = Open(t, p)
  <1>1. \A kind : {j \in 1 .. p : s[j].is = kind} = {j \in 1 .. p : t[j].is = kind}
    OBVIOUS
  <1> QED
    BY <1>1 DEF Open

\* The conditionals the guarding writes do not cross those that are there.
LEMMA GuardNests ==
  ASSUME NEW lines \in LineSeqs, NEW cond \in Conditions, NEW names, WellNested(lines)
  PROVE  WellNested(Inc!GuardEntityLines(lines, cond, names))
  <1> DEFINE n == Len(lines)
             Nests(s, i) == /\ Open(s, Len(s)) = Open(lines, i)
                            /\ \A p \in 1 .. Len(s) : Open(s, p) >= 0
  <1>0. n \in Nat
    BY LenProperties DEF LineSeqs
  <1>1. PICK f \in [0 .. n -> LineSeqs] :
           /\ f[0] = << >>
           /\ \A i \in 1 .. n : f[i] = f[i - 1] \o GuardBlock(lines, i, cond, names)
           /\ f[n] = Inc!GuardEntityLines(lines, cond, names)
    BY GuardSteps
  <1>2. ASSUME NEW i \in Nat, i + 1 <= n, NEW s \in LineSeqs, Nests(s, i)
        PROVE  Nests(s \o GuardBlock(lines, i + 1, cond, names), i + 1)
    <2> DEFINE m == Len(s)
               x == lines[i + 1]
               a == Inc!If(cond)
               z == Inc!Endif
    <2>0. m \in Nat /\ i + 1 \in 1 .. n
      BY <1>0, <1>2, LenProperties DEF LineSeqs
    <2>1. /\ x \in AnyLines
          /\ i + 1 \in Inc!ToGuard(lines, names) =>
               GuardBlock(lines, i + 1, cond, names) = <<a, x, z>>
          /\ i + 1 \notin Inc!ToGuard(lines, names) =>
               GuardBlock(lines, i + 1, cond, names) = <<x>>
      BY <2>0, BlockIs
    <2>2. a \in AnyLines /\ a.is = "if" /\ z \in AnyLines /\ z.is = "endif"
      BY KindsOfLines
    <2>3. s \in Seq(AnyLines)
      BY DEF LineSeqs
    <2>4. Open(lines, i + 1) >= 0
      BY <2>0 DEF WellNested
    <2>5. /\ Open(lines, i) \in Int
          /\ x.is = "if" => Open(lines, i + 1) = Open(lines, i) + 1
          /\ x.is = "endif" => Open(lines, i + 1) = Open(lines, i) - 1
          /\ x.is \notin {"if", "endif"} => Open(lines, i + 1) = Open(lines, i)
      BY OpenSteps
    <2>6. i + 1 \in Inc!ToGuard(lines, names) => x.is = "using"
      BY <2>0, ToGuardHits DEF Hits
    <2> HIDE DEF x, a, z
    <2>7. CASE i + 1 \in Inc!ToGuard(lines, names)
      <3> DEFINE t == s \o <<a, x, z>>
      <3>1. /\ Len(t) = m + 3 /\ \A p \in 1 .. m : t[p] = s[p]
            /\ t[m + 1] = a /\ t[m + 2] = x /\ t[m + 3] = z
        BY <2>1, <2>2, <2>3, BehindThree
      <3> HIDE DEF t
      <3>2. \A q \in 0 .. m : \A j \in 1 .. q : t[j] = s[j]
        BY <3>1, <2>0
      <3>3. \A q \in 0 .. m : Open(t, q) = Open(s, q)
        BY <3>2, OpenAgrees
      <3>4. Open(t, m) = Open(lines, i)
        BY <3>3, <2>0, <1>2
      <3>5. Open(t, m + 1) = Open(t, m) + 1
        BY <3>1, <2>0, <2>2, OpenSteps
      <3>6. Open(t, m + 2) = Open(t, m + 1)
        <4>1. m + 1 \in Nat /\ (m + 1) + 1 = m + 2
          BY <2>0
        <4>2. t[(m + 1) + 1].is \notin {"if", "endif"}
          BY <3>1, <4>1, <2>6, <2>7
        <4> QED
          BY <4>1, <4>2, OpenSteps
      <3>7. Open(t, m + 3) = Open(t, m + 2) - 1
        <4>1. m + 2 \in Nat /\ (m + 2) + 1 = m + 3
          BY <2>0
        <4>2. t[(m + 2) + 1].is = "endif"
          BY <3>1, <4>1, <2>2
        <4> QED
          BY <4>1, <4>2, OpenSteps
      <3>8. Open(lines, i + 1) = Open(lines, i)
        BY <2>5, <2>6, <2>7
      <3>9. Open(t, Len(t)) = Open(lines, i + 1)
        BY <3>1, <3>4, <3>5, <3>6, <3>7, <3>8, <2>5
      <3>10. ASSUME NEW p \in 1 .. Len(t) PROVE Open(t, p) >= 0
        <4>1. Len(t) = m + 3
          BY <3>1
        <4>2. p \in 1 .. m \/ p = m + 1 \/ p = m + 2 \/ p = m + 3
          BY <4>1, <2>0
        <4>3. CASE p \in 1 .. m
          <5>1. p \in 0 .. m
            BY <4>3
          <5> QED
            BY <4>3, <5>1, <3>3, <1>2
        <4> QED
          BY <4>2, <4>3, <3>4, <3>5, <3>6, <3>7, <3>8, <2>4, <2>5
      <3>11. t = s \o GuardBlock(lines, i + 1, cond, names)
        BY <2>1, <2>7 DEF t
      <3> QED
        BY <3>9, <3>10, <3>11
    <2>8. CASE i + 1 \notin Inc!ToGuard(lines, names)
      <3> DEFINE t == s \o <<x>>
      <3>1. Len(t) = m + 1 /\ (\A p \in 1 .. m : t[p] = s[p]) /\ t[m + 1] = x
        BY <2>1, <2>3, BehindOne
      <3> HIDE DEF t
      <3>2. \A q \in 0 .. m : \A j \in 1 .. q : t[j] = s[j]
        BY <3>1, <2>0
      <3>3. \A q \in 0 .. m : Open(t, q) = Open(s, q)
        BY <3>2, OpenAgrees
      <3>4. Open(t, m) = Open(lines, i)
        BY <3>3, <2>0, <1>2
      <3>5. /\ x.is = "if" => Open(t, m + 1) = Open(t, m) + 1
            /\ x.is = "endif" => Open(t, m + 1) = Open(t, m) - 1
            /\ x.is \notin {"if", "endif"} => Open(t, m + 1) = Open(t, m)
        BY <3>1, <2>0, OpenSteps
      <3>6. Open(t, m + 1) = Open(lines, i + 1)
        BY <3>4, <3>5, <2>5
      <3>7. ASSUME NEW p \in 1 .. Len(t) PROVE Open(t, p) >= 0
        <4>1. Len(t) = m + 1
          BY <3>1
        <4>2. p \in 1 .. m \/ p = m + 1
          BY <4>1, <2>0
        <4>3. CASE p \in 1 .. m
          <5>1. p \in 0 .. m
            BY <4>3
          <5> QED
            BY <4>3, <5>1, <3>3, <1>2
        <4> QED
          BY <4>2, <4>3, <3>6, <2>4
      <3>8. t = s \o GuardBlock(lines, i + 1, cond, names)
        BY <2>1, <2>8 DEF t
      <3> QED
        BY <3>1, <3>6, <3>7, <3>8
    <2> QED
      BY <2>7, <2>8
  <1>3. Nests(<< >>, 0)
    BY OpenSteps
  <1> HIDE DEF Nests, n
  <1> DEFINE D == {i \in Nat : i <= n => Nests(f[i], i)}
  <1>4. 0 \in D
    BY <1>1, <1>3
  <1>5. ASSUME NEW i \in D PROVE i + 1 \in D
    <2>0. i \in Nat /\ i + 1 \in Nat
      OBVIOUS
    <2> SUFFICES ASSUME i + 1 <= n PROVE Nests(f[i + 1], i + 1)
      BY <2>0
    <2>1. i + 1 \in 1 .. n /\ i \in 0 .. n /\ (i + 1) - 1 = i /\ Nests(f[i], i)
      BY <1>0, <2>0
    <2>2. f[i + 1] = f[i] \o GuardBlock(lines, i + 1, cond, names) /\ f[i] \in LineSeqs
      BY <1>1, <2>1
    <2> QED
      BY <1>2, <2>0, <2>1, <2>2
  <1> HIDE DEF D
  <1>6. D = Nat
    BY <1>4, <1>5, SetInduction DEF D
  <1>7. Nests(f[n], n)
    <2>1. n \in D /\ n <= n
      BY <1>0, <1>6
    <2> QED
      BY <2>1 DEF D
  <1>8. Open(lines, n) = 0
    BY DEF WellNested, n
  <1> QED
    BY <1>1, <1>7, <1>8 DEF WellNested, Nests

\* In a settled list the exports that are hit are in a conditional.
LEMMA HitsAreOpen ==
  ASSUME NEW lines \in LineSeqs, NEW names, WellNested(lines), Settled(lines, names),
         NEW i \in 1 .. Len(lines), Hits(lines[i], names)
  PROVE  Open(lines, i) > 0
  <1>0. Len(lines) \in Nat
    BY LenProperties DEF LineSeqs
  <1>1. Inc!LeftAlone(lines, i) /\ lines[i].is = "using"
    BY ToGuardHits DEF Settled, Hits
  <1>2. \A p \in 0 .. Len(lines) : Open(lines, p) \in Int /\ Open(lines, p) >= 0
    <2> SUFFICES ASSUME NEW p \in 0 .. Len(lines)
                 PROVE  Open(lines, p) \in Int /\ Open(lines, p) >= 0
      OBVIOUS
    <2>1. Open(lines, p) \in Int /\ Open(lines, 0) = 0
      BY OpenSteps
    <2>2. CASE p = 0
      BY <2>1, <2>2
    <2>3. CASE p # 0
      <3>1. p \in 1 .. Len(lines)
        BY <2>3, <1>0
      <3> QED
        BY <2>1, <3>1 DEF WellNested
    <2> QED
      BY <2>2, <2>3
  <1>3. CASE i > 1 /\ lines[i - 1].is = "if"
    <2>1. i - 2 \in Nat /\ (i - 2) + 1 = i - 1 /\ i - 1 \in Nat /\ (i - 1) + 1 = i
      BY <1>3, <1>0
    <2>2. i - 2 \in 0 .. Len(lines)
      BY <2>1, <1>0
    <2>3. Open(lines, i - 1) = Open(lines, i - 2) + 1
      BY <1>3, <2>1, OpenSteps
    <2>4. Open(lines, i) = Open(lines, i - 1)
      <3>1. lines[(i - 1) + 1].is \notin {"if", "endif"}
        BY <2>1, <1>1
      <3> QED
        BY <2>1, <3>1, OpenSteps
    <2> QED
      BY <2>2, <2>3, <2>4, <1>2
  <1>4. CASE i < Len(lines) /\ lines[i + 1].is = "endif"
    <2>1. i + 1 \in 0 .. Len(lines) /\ i \in Nat /\ i \in 0 .. Len(lines)
      BY <1>4, <1>0
    <2>2. Open(lines, i + 1) = Open(lines, i) - 1
      BY <1>4, <2>1, OpenSteps
    <2> QED
      BY <2>1, <2>2, <1>2
  <1> QED
    BY <1>1, <1>3, <1>4 DEF Inc!LeftAlone

\* Guarding twice, under the two conditions, settles any well-nested list.
LEMMA GuardsAreSettled ==
  ASSUME NEW lines \in LineSeqs, WellNested(lines)
  PROVE  LET replayed == Guarded(lines)
         IN  /\ Guarded(replayed) = replayed
             /\ UsingsOf(replayed) = UsingsOf(lines)
             /\ WellNested(replayed)
             /\ \A i \in 1 .. Len(replayed) :
                  replayed[i].is = "using" /\ replayed[i].names \cap {"a", "b"} # {}
                    => Open(replayed, i) > 0
  <1> DEFINE once == Inc!GuardEntityLines(lines, "win", {"a"})
             twice == Inc!GuardEntityLines(once, "file", {"b", "z"})
  <1>0. "win" \in Conditions /\ "file" \in Conditions
    BY DEF Conditions
  <1>1. once \in LineSeqs /\ WellNested(once) /\ UsingsOf(once) = UsingsOf(lines)
    BY <1>0, GuardIsSeq, GuardNests, GuardKeepsUsings
  <1>2. Settled(once, {"a"})
    <2>1. \A i \in 1 .. Len(lines) :
            Hits(lines[i], {"a"}) => Inc!LeftAlone(lines, i) \/ i \in Inc!ToGuard(lines, {"a"})
      BY ToGuardHits
    <2> QED
      BY <2>1, <1>0, GuardSettles
  <1> HIDE DEF once
  <1>3. twice \in LineSeqs /\ WellNested(twice) /\ UsingsOf(twice) = UsingsOf(lines)
    BY <1>0, <1>1, GuardIsSeq, GuardNests, GuardKeepsUsings
  <1>4. Settled(twice, {"b", "z"})
    <2>1. \A i \in 1 .. Len(once) : Hits(once[i], {"b", "z"}) =>
            Inc!LeftAlone(once, i) \/ i \in Inc!ToGuard(once, {"b", "z"})
      BY <1>1, ToGuardHits
    <2> QED
      BY <2>1, <1>0, <1>1, GuardSettles
  <1>5. Settled(twice, {"a"})
    <2>1. \A i \in 1 .. Len(once) : Hits(once[i], {"a"}) => Inc!LeftAlone(once, i)
      BY <1>1, <1>2, ToGuardHits DEF Settled
    <2> QED
      BY <2>1, <1>0, <1>1, GuardSettles
  <1>6. Guarded(lines) = twice
    BY DEF Guarded, once
  <1> HIDE DEF twice
  <1>7. Guarded(twice) = twice
    <2>1. Inc!GuardEntityLines(twice, "win", {"a"}) = twice
      BY <1>0, <1>3, <1>5, SettledIsStable
    <2>2. Inc!GuardEntityLines(twice, "file", {"b", "z"}) = twice
      BY <1>0, <1>3, <1>4, SettledIsStable
    <2> QED
      BY <2>1, <2>2 DEF Guarded
  <1>8. ASSUME NEW i \in 1 .. Len(twice),
               twice[i].is = "using", twice[i].names \cap {"a", "b"} # {}
        PROVE  Open(twice, i) > 0
    <2>1. Hits(twice[i], {"a"}) \/ Hits(twice[i], {"b", "z"})
      BY <1>8 DEF Hits
    <2> QED
      BY <2>1, <1>3, <1>4, <1>5, HitsAreOpen
  <1> QED
    BY <1>3, <1>6, <1>7, <1>8

-----------------------------------------------------------------------------
\* The places of one line.
LEMMA FoundAnchors ==
  ASSUME NEW lines \in LineSeqs, NEW x
  PROVE  /\ Inc!Occurrences(lines, <<x>>) \subseteq 1 .. Len(lines)
         /\ \A i \in Inc!Occurrences(lines, <<x>>) : lines[i] = x
  <1>1. Len(lines) \in Nat /\ \A i \in 1 .. Len(lines) : lines[i] \in AnyLines
    BY LenProperties, ElementOfSeq DEF LineSeqs
  <1>2. Len(<<x>>) = 1
    OBVIOUS
  <1>3. Inc!Occurrences(lines, <<x>>) =
          {i \in 1 .. Len(lines) + 1 - 1 : SubSeq(lines, i, i + 1 - 1) = <<x>>}
    BY <1>2 DEF Inc!Occurrences
  <1>4. ASSUME NEW i \in Inc!Occurrences(lines, <<x>>)
        PROVE  i \in 1 .. Len(lines) /\ lines[i] = x
    <2>1. i \in 1 .. Len(lines) /\ SubSeq(lines, i, i) = <<x>>
      BY <1>1, <1>3
    <2>2. SubSeq(lines, i, i)[1] = lines[i]
      <3>1. i \in Int /\ i \in i .. i /\ \A j \in i .. i : lines[j] \in AnyLines
        BY <1>1, <2>1
      <3>2. \A j \in 1 .. i - i + 1 : SubSeq(lines, i, i)[j] = lines[i + j - 1]
        BY <3>1, SubSeqProperties
      <3>3. 1 \in 1 .. i - i + 1 /\ i + 1 - 1 = i
        BY <3>1
      <3> QED
        BY <3>2, <3>3
    <2> QED
      BY <2>1, <2>2
  <1> QED
    BY <1>4

\* What is before and behind a line, and what is when it is replaced.
LEMMA Replaced ==
  ASSUME NEW lines \in LineSeqs, NEW i \in 1 .. Len(lines), NEW block \in LineSeqs
  PROVE  LET before == SubSeq(lines, 1, i - 1)
             behind == SubSeq(lines, i + 1, Len(lines))
         IN  /\ before \in LineSeqs /\ behind \in LineSeqs
             /\ lines = (before \o <<lines[i]>>) \o behind
             /\ i \in Inc!Occurrences((before \o block) \o behind, block)
  <1> DEFINE n == Len(lines)
             k == Len(block)
             before == SubSeq(lines, 1, i - 1)
             behind == SubSeq(lines, i + 1, n)
             x == lines[i]
             t == (before \o block) \o behind
  <1>1. n \in Nat /\ k \in Nat /\ (\A j \in 1 .. n : lines[j] \in AnyLines) /\ i \in Int
    BY LenProperties, ElementOfSeq DEF LineSeqs
  <1>2. before \in LineSeqs /\ Len(before) = i - 1
    <2>1. 1 \in Int /\ i - 1 \in Int /\ \A j \in 1 .. i - 1 : lines[j] \in AnyLines
      BY <1>1
    <2>2. before \in Seq(AnyLines) /\ Len(before) = IF 1 <= i - 1 THEN (i - 1) - 1 + 1 ELSE 0
      BY <2>1, SubSeqProperties
    <2> HIDE DEF before
    <2> QED
      BY <2>2, <1>1 DEF LineSeqs
  <1>3. behind \in LineSeqs /\ Len(behind) = n - i
    <2>1. i + 1 \in Int /\ n \in Int /\ \A j \in i + 1 .. n : lines[j] \in AnyLines
      BY <1>1
    <2>2. behind \in Seq(AnyLines) /\ Len(behind) = IF i + 1 <= n THEN n - (i + 1) + 1 ELSE 0
      BY <2>1, SubSeqProperties
    <2> HIDE DEF behind
    <2> QED
      BY <2>2, <1>1 DEF LineSeqs
  <1>4. lines = (before \o <<x>>) \o behind
    <2>1. SubSeq(lines, 1, i) = before \o <<x>>
      <3>1. lines \in Seq(AnyLines) /\ 1 \in 1 .. Len(lines) /\ i \in 1 .. Len(lines)
        BY <1>1 DEF LineSeqs
      <3> QED
        BY <3>1, SubSeqRecursiveSecond
    <2>2. SubSeq(lines, 1, i) \o SubSeq(lines, i + 1, n) = SubSeq(lines, 1, n)
      <3>1. /\ lines \in Seq(AnyLines) /\ 1 \in 1 .. Len(lines) + 1
            /\ i \in 1 - 1 .. Len(lines) /\ n \in i .. Len(lines)
        BY <1>1 DEF LineSeqs
      <3> QED
        BY <3>1, ConcatAdjacentSubSeq
    <2>3. SubSeq(lines, 1, n) = lines
      BY SubSeqFull DEF LineSeqs
    <2> QED
      BY <2>1, <2>2, <2>3
  <1> HIDE DEF before, behind, x, t
  <1>5. /\ before \o block \in LineSeqs /\ Len(before \o block) = i - 1 + k
        /\ \A j \in 1 .. k : (before \o block)[i - 1 + j] = block[j]
    <2>1. /\ before \o block \in LineSeqs /\ Len(before \o block) = Len(before) + k
          /\ \A j \in 1 .. Len(before) + k :
               (before \o block)[j] = IF j <= Len(before) THEN before[j]
                                      ELSE block[j - Len(before)]
      BY <1>2, ConcatProperties DEF LineSeqs
    <2>2. ASSUME NEW j \in 1 .. k PROVE (before \o block)[i - 1 + j] = block[j]
      <3>1. /\ i - 1 + j \in 1 .. (i - 1) + k /\ ~(i - 1 + j <= i - 1)
            /\ (i - 1 + j) - (i - 1) = j
        BY <1>1
      <3> QED
        BY <3>1, <2>1, <1>2
    <2> QED
      BY <2>1, <2>2, <1>2
  <1>6. /\ t \in LineSeqs /\ Len(t) = n - 1 + k
        /\ \A j \in 1 .. k : t[i - 1 + j] = block[j]
    <2> DEFINE u == before \o block
    <2>0. u \in LineSeqs /\ Len(u) = i - 1 + k /\ \A j \in 1 .. k : u[i - 1 + j] = block[j]
      BY <1>5
    <2>1. t = u \o behind
      BY DEF t
    <2> HIDE DEF u
    <2>2. /\ u \o behind \in LineSeqs /\ Len(u \o behind) = Len(u) + Len(behind)
          /\ \A j \in 1 .. Len(u) + Len(behind) :
               (u \o behind)[j] = IF j <= Len(u) THEN u[j] ELSE behind[j - Len(u)]
      BY <1>3, <2>0, ConcatProperties DEF LineSeqs
    <2>3. Len(t) = n - 1 + k
      BY <2>0, <2>1, <2>2, <1>1, <1>3
    <2>4. ASSUME NEW j \in 1 .. k PROVE t[i - 1 + j] = block[j]
      <3>1. i - 1 + j \in 1 .. (i - 1 + k) + (n - i) /\ i - 1 + j <= i - 1 + k
        BY <1>1
      <3> QED
        BY <3>1, <2>0, <2>1, <2>2, <1>3
    <2> QED
      BY <2>1, <2>2, <2>3, <2>4
  <1>7. SubSeq(t, i, i + k - 1) = block
    <2>1. \A j \in i .. i + k - 1 : t[j] \in AnyLines
      <3> SUFFICES ASSUME NEW j \in i .. i + k - 1 PROVE t[j] \in AnyLines
        OBVIOUS
      <3>1. j \in 1 .. Len(t)
        BY <1>1, <1>6
      <3> QED
        BY <3>1, <1>6, ElementOfSeq DEF LineSeqs
    <2>2. i \in Int /\ i + k - 1 \in Int
      BY <1>1
    <2> DEFINE s == SubSeq(t, i, i + k - 1)
    <2>3. /\ s \in Seq(AnyLines)
          /\ Len(s) = IF i <= i + k - 1 THEN (i + k - 1) - i + 1 ELSE 0
          /\ \A j \in 1 .. (i + k - 1) - i + 1 : s[j] = t[i + j - 1]
      BY <2>1, <2>2, SubSeqProperties
    <2> HIDE DEF s
    <2>4. Len(s) = k
      BY <2>3, <1>1
    <2>5. ASSUME NEW j \in 1 .. k PROVE s[j] = block[j]
      <3>1. j \in 1 .. (i + k - 1) - i + 1 /\ i + j - 1 = i - 1 + j
        BY <1>1
      <3> QED
        BY <3>1, <2>3, <1>6
    <2>6. s = block
      BY <2>3, <2>4, <2>5, SeqEqual DEF LineSeqs
    <2> QED
      BY <2>6 DEF s
  <1>8. i \in 1 .. Len(t) + 1 - k
    BY <1>1, <1>6
  <1>9. i \in Inc!Occurrences(t, block)
    BY <1>7, <1>8 DEF Inc!Occurrences
  <1> QED
    BY <1>2, <1>3, <1>4, <1>9 DEF before, behind, x, t

\* The line that is patched by its text: once, and not again.
LEMMA AnchorIsSettled ==
  ASSUME NEW lines \in LineSeqs, NEW block \in LineSeqs, NEW anchor \in AnyLines,
         anchor.is = "using", UsingsOf(block) = <<anchor>>
  PROVE  LET patched == Inc!PatchText(lines, anchor, block)
             anchors == Cardinality(Inc!Occurrences(lines, <<anchor>>))
         IN  IF patched = Inc!Failed THEN anchors > 1
             ELSE /\ Inc!PatchText(patched, anchor, block) = patched
                  /\ anchors > 0 => Inc!Occurrences(patched, block) # {}
                  /\ UsingsOf(patched) = UsingsOf(lines)
  <1> DEFINE at == Inc!Occurrences(lines, <<anchor>>)
             patched == Inc!PatchText(lines, anchor, block)
  <1>1. \A s : Inc!Occurrences(s, block) # {} => Inc!PatchText(s, anchor, block) = s
    BY DEF Inc!PatchText
  <1>2. ASSUME NEW s \in LineSeqs PROVE s # Inc!Failed
    <2>1. Inc!Failed[1].is = "SystemExit" /\ Len(Inc!Failed) = 1
      BY DEF Inc!Failed
    <2>2. \A x \in AnyLines : x.is # "SystemExit"
      BY DEF AnyLines, Inc!Lines, Inc!If, Inc!Endif, Inc!Comment
    <2>3. Len(s) = 1 => s[1] \in AnyLines
      BY ElementOfSeq DEF LineSeqs
    <2> QED
      BY <2>1, <2>2, <2>3
  <1>3. Cardinality({}) = 0
    BY FS_EmptySet
  <1>p. patched =
          IF Inc!Occurrences(lines, block) # {} \/ at = {} THEN lines
          ELSE IF Cardinality(at) > 1 THEN Inc!Failed
          ELSE (SubSeq(lines, 1, (CHOOSE i \in at : TRUE) - 1) \o block)
                 \o SubSeq(lines, (CHOOSE i \in at : TRUE) + 1, Len(lines))
    BY DEF Inc!PatchText, Inc!Cardinality, Cardinality
  <1> HIDE DEF patched
  <1>4. CASE Inc!Occurrences(lines, block) # {} \/ at = {}
    <2>1. patched = lines
      BY <1>4, <1>p
    <2>2. patched # Inc!Failed
      BY <2>1, <1>2
    <2>3. Cardinality(at) > 0 => Inc!Occurrences(lines, block) # {}
      BY <1>3, <1>4
    <2>4. Inc!PatchText(lines, anchor, block) = lines
      BY <2>1 DEF patched
    <2> QED
      BY <2>1, <2>2, <2>3, <2>4 DEF patched
  <1>5. CASE Inc!Occurrences(lines, block) = {} /\ at # {} /\ Cardinality(at) > 1
    <2>1. patched = Inc!Failed
      BY <1>5, <1>p
    <2> QED
      BY <2>1, <1>5 DEF patched
  <1>6. CASE Inc!Occurrences(lines, block) = {} /\ at # {} /\ ~(Cardinality(at) > 1)
    <2> DEFINE i == CHOOSE i \in at : TRUE
               before == SubSeq(lines, 1, i - 1)
               behind == SubSeq(lines, i + 1, Len(lines))
    <2>1. i \in at
      BY <1>6
    <2>2. i \in 1 .. Len(lines) /\ lines[i] = anchor
      BY <2>1, FoundAnchors
    <2>3. patched = (before \o block) \o behind
      BY <1>6, <1>p
    <2> HIDE DEF i
    <2>4. /\ before \in LineSeqs /\ behind \in LineSeqs
          /\ lines = (before \o <<anchor>>) \o behind
          /\ i \in Inc!Occurrences((before \o block) \o behind, block)
      BY <2>2, Replaced
    <2> HIDE DEF before, behind
    <2>5. Inc!Occurrences(patched, block) # {}
      BY <2>3, <2>4
    <2>6. <<anchor>> \in LineSeqs
      BY Pairs DEF LineSeqs
    <2>7. UsingsOf(<<anchor>>) = <<anchor>>
      BY UsingsOfOne DEF UsingBlock
    <2>8. before \o block \in LineSeqs /\ before \o <<anchor>> \in LineSeqs
      BY <2>4, <2>6, ConcatProperties DEF LineSeqs
    <2>9. patched \in LineSeqs
      BY <2>3, <2>4, <2>8, ConcatProperties DEF LineSeqs
    <2>10. UsingsOf(patched) = (UsingsOf(before) \o <<anchor>>) \o UsingsOf(behind)
      <3>1. UsingsOf(before \o block) = UsingsOf(before) \o <<anchor>>
        BY <2>4, UsingsConcat
      <3>2. UsingsOf((before \o block) \o behind)
              = UsingsOf(before \o block) \o UsingsOf(behind)
        BY <2>4, <2>8, UsingsConcat
      <3> QED
        BY <2>3, <3>1, <3>2
    <2>11. UsingsOf(lines) = (UsingsOf(before) \o <<anchor>>) \o UsingsOf(behind)
      <3>1. UsingsOf(before \o <<anchor>>) = UsingsOf(before) \o <<anchor>>
        BY <2>4, <2>6, <2>7, UsingsConcat
      <3>2. UsingsOf((before \o <<anchor>>) \o behind)
              = UsingsOf(before \o <<anchor>>) \o UsingsOf(behind)
        BY <2>4, <2>8, UsingsConcat
      <3> QED
        BY <2>4, <3>1, <3>2
    <2>12. patched # Inc!Failed
      BY <2>9, <1>2
    <2>13. Inc!PatchText(patched, anchor, block) = patched
      BY <2>5, <1>1
    <2> QED
      BY <2>5, <2>10, <2>11, <2>12, <2>13 DEF patched
  <1> QED
    BY <1>4, <1>5, <1>6

\* Whatever the lines of an export list, so long as its conditionals are well nested, and
\* whatever is in the file the anchor is looked for in, another replay changes nothing, no
\* export is lost or moved, and what was to be guarded is (guard_entity_lines, patch).
THEOREM EditsAreSettled == Spec => []EditsSettle
  <1>1. input \in Inputs => EditsSettle
    <2> SUFFICES ASSUME input \in Inputs PROVE EditsSettle
      OBVIOUS
    <2>1. Inc!Lines \subseteq AnyLines
      BY DEF AnyLines
    <2>2. GuardsSettle
      <3> SUFFICES ASSUME Asks("guards") PROVE GuardsSettle
        BY DEF GuardsSettle
      <3>1. input.lines \in Seq(Inc!Lines) /\ WellNested(input.lines)
        BY InputsAssumption DEF Asks
      <3>2. input.lines \in LineSeqs
        BY <2>1, <3>1, SeqMonotonic DEF LineSeqs
      <3> QED
        BY <3>1, <3>2, GuardsAreSettled DEF GuardsSettle
    <2>3. AnchorSettles
      <3> SUFFICES ASSUME Asks("anchor") PROVE AnchorSettles
        BY DEF AnchorSettles
      <3>1. /\ input.lines \in Seq(Inc!Lines) /\ input.block \in Seq(Inc!Lines)
            /\ input.anchor \in Inc!Lines /\ input.anchor.is = "using"
            /\ UsingsOf(input.block) = <<input.anchor>>
        BY InputsAssumption DEF Asks
      <3>2. input.lines \in LineSeqs /\ input.block \in LineSeqs /\ input.anchor \in AnyLines
        BY <2>1, <3>1, SeqMonotonic DEF LineSeqs
      <3> QED
        BY <3>1, <3>2, AnchorIsSettled DEF AnchorSettles
    <2> QED
      BY <2>2, <2>3 DEF EditsSettle
  <1> QED
    BY <1>1, AlwaysAnInput, PTL

-----------------------------------------------------------------------------
(***************************************************************************)
(* The lines of a descriptor.                                              *)
(***************************************************************************)
\* The lines a descriptor is made of.
TextLine ==
  [is     : {"platform", "version", "url", "sha256", "close"},
   name   : ToSet(Platforms) \cup STRING \cup {"new", ""},
   indent : Nat]

Text == Seq(TextLine)

\* A sequence between two others keeps its order.
LEMMA Between ==
  ASSUME NEW pre \in Text, NEW a \in Text, NEW post \in Text
  PROVE  /\ pre \o (a \o post) \in Text
         /\ Len(pre \o (a \o post)) = Len(pre) + Len(a) + Len(post)
         /\ Len(pre) \in Nat /\ Len(a) \in Nat /\ Len(post) \in Nat
         /\ \A j \in 1 .. Len(pre) : (pre \o (a \o post))[j] = pre[j]
         /\ \A j \in 1 .. Len(a) : (pre \o (a \o post))[Len(pre) + j] = a[j]
         /\ \A j \in 1 .. Len(post) : (pre \o (a \o post))[Len(pre) + Len(a) + j] = post[j]
  <1> DEFINE m == Len(pre)
             n == Len(a)
             k == Len(post)
             back == a \o post
             all == pre \o back
  <1>1. m \in Nat /\ n \in Nat /\ k \in Nat
    BY LenProperties DEF Text
  <1>2. /\ back \in Text /\ Len(back) = n + k
        /\ \A i \in 1 .. n + k : back[i] = IF i <= n THEN a[i] ELSE post[i - n]
    BY ConcatProperties DEF Text
  <1> HIDE DEF back
  <1>3. /\ all \in Text /\ Len(all) = m + Len(back)
        /\ \A i \in 1 .. m + Len(back) : all[i] = IF i <= m THEN pre[i] ELSE back[i - m]
    <2>1. back \in Text
      BY <1>2
    <2> QED
      BY <2>1, ConcatProperties DEF Text
  <1> HIDE DEF all, m, n, k
  <1>4. \A j \in 1 .. m : all[j] = pre[j]
    BY <1>1, <1>2, <1>3
  <1>5. ASSUME NEW j \in 1 .. n PROVE all[m + j] = a[j]
    <2>1. m + j \in 1 .. m + Len(back) /\ ~(m + j <= m) /\ (m + j) - m = j /\ j \in 1 .. n + k
      BY <1>1, <1>2
    <2>2. all[m + j] = back[j]
      BY <2>1, <1>3
    <2> QED
      BY <2>1, <2>2, <1>1, <1>2
  <1>6. ASSUME NEW j \in 1 .. k PROVE all[m + n + j] = post[j]
    <2>1. /\ m + n + j \in 1 .. m + Len(back) /\ ~(m + n + j <= m)
          /\ (m + n + j) - m = n + j /\ n + j \in 1 .. n + k /\ ~(n + j <= n) /\ (n + j) - n = j
      BY <1>1, <1>2
    <2>2. all[m + n + j] = back[n + j]
      BY <2>1, <1>3
    <2>3. back[n + j] = post[j]
      BY <2>1, <1>2
    <2> QED
      BY <2>2, <2>3
  <1> QED
    BY <1>1, <1>2, <1>3, <1>4, <1>5, <1>6 DEF all, back, m, n, k

\* The end of a block is found below its first line, or is the last line of the file.
LEMMA EndIsBelow ==
  ASSUME NEW lines \in Text, NEW i \in 1 .. Len(lines)
  PROVE  File!BlockEnd(lines, i) + 1 \in i + 1 .. Len(lines) + 1
  <1> DEFINE S == {j \in i + 1 .. Len(lines) : lines[j] = File!Close(lines[i].indent)}
                    \cup {Len(lines)}
  <1>0. Len(lines) \in Nat
    BY LenProperties DEF Text
  <1>1. S \in SUBSET Nat /\ S # {} /\ S \subseteq i .. Len(lines)
    BY <1>0
  <1>2. File!BlockEnd(lines, i) = File!Min(S)
    BY DEF File!BlockEnd
  <1> HIDE DEF S
  <1>3. PICK n \in S : \A m \in S : n <= m
    BY <1>1, LeastMember
  <1>4. File!Min(S) \in S
    BY <1>1, <1>3 DEF File!Min
  <1>5. File!Min(S) \in i .. Len(lines)
    BY <1>1, <1>4
  <1> QED
    BY <1>0, <1>2, <1>5

\* f is what remove_entry keeps from line i on.
Keeps(lines, key, f) ==
  /\ f[Len(lines) + 1] = << >>
  /\ \A i \in 1 .. Len(lines) + 1 : f[i] \in Text
  /\ \A i \in 1 .. Len(lines) :
       f[i] = IF lines[i].is = "version" /\ lines[i].name = key
              THEN f[File!BlockEnd(lines, i) + 1]
              ELSE <<lines[i]>> \o f[i + 1]

\* remove_entry as steps from the last line to the first.
LEMMA RemovalSteps ==
  ASSUME NEW lines \in Text, NEW key
  PROVE  \E f : Keeps(lines, key, f) /\ f[1] = File!RemoveEntry(lines, key)
  <1> DEFINE L == Len(lines)
             drop(i) == lines[i].is = "version" /\ lines[i].name = key
             next(f, i) == IF i > L THEN << >>
                           ELSE IF drop(i) THEN f[File!BlockEnd(lines, i) + 1]
                           ELSE <<lines[i]>> \o f[i + 1]
             Is(m, f) == \A i \in L + 1 - m .. L + 1 : f[i] = next(f, i)
             D == {m \in Nat : m <= L => \E f \in [L + 1 - m .. L + 1 -> Text] : Is(m, f)}
  <1>0. L \in Nat
    BY LenProperties DEF Text
  <1>1. 0 \in D
    <2> DEFINE g == [i \in L + 1 .. L + 1 |-> << >>]
    <2>1. << >> \in Text
      BY EmptySeq DEF Text
    <2>2. g \in [L + 1 - 0 .. L + 1 -> Text]
      BY <1>0, <2>1
    <2>3. Is(0, g)
      BY <1>0
    <2> HIDE DEF Is, g
    <2> QED
      BY <2>2, <2>3
  <1>2. ASSUME NEW m \in D PROVE m + 1 \in D
    <2> SUFFICES ASSUME m + 1 <= L
                 PROVE  \E f \in [L + 1 - (m + 1) .. L + 1 -> Text] : Is(m + 1, f)
      <3> HIDE DEF Is
      <3> QED
        OBVIOUS
    <2>0. m \in Nat /\ m <= L
      BY <1>0
    <2>1. PICK h \in [L + 1 - m .. L + 1 -> Text] : Is(m, h)
      <3> HIDE DEF Is
      <3> QED
        BY <2>0
    <2> DEFINE k == L - m
    <2>2. k \in 1 .. L /\ L + 1 - (m + 1) = k /\ L + 1 - m = k + 1
      BY <1>0, <2>0
    <2>3. File!BlockEnd(lines, k) + 1 \in k + 1 .. L + 1 /\ k + 1 \in k + 1 .. L + 1
      BY <2>2, EndIsBelow
    <2>4. lines[k] \in TextLine
      BY <2>2, ElementOfSeq DEF Text
    <2> HIDE DEF k, next
    <2> DEFINE g == [i \in k .. L + 1 |-> IF i = k THEN next(h, k) ELSE h[i]]
    <2>5. \A i \in k + 1 .. L + 1 : h[i] \in Text
      BY <2>2
    <2>6. next(h, k) \in Text
      <3> DEFINE e == File!BlockEnd(lines, k) + 1
      <3> HIDE DEF e
      <3>1. h[e] \in Text /\ h[k + 1] \in Text
        BY <2>3, <2>5 DEF e
      <3>2. <<lines[k]>> \o h[k + 1] \in Text
        <4>1. <<lines[k]>> \in Text
          BY <2>4 DEF Text
        <4> QED
          BY <3>1, <4>1, ConcatProperties DEF Text
      <3>3. ~(k > L)
        BY <1>0, <2>2
      <3> QED
        BY <3>1, <3>2, <3>3 DEF next, e
    <2>7. g \in [L + 1 - (m + 1) .. L + 1 -> Text]
      BY <1>0, <2>2, <2>5, <2>6
    <2>8. \A i \in k + 1 .. L + 1 : g[i] = h[i]
      BY <1>0, <2>2
    <2>9. ASSUME NEW i \in k .. L + 1 PROVE g[i] = next(g, i)
      <3>1. CASE i = k
        <4>1. g[i] = next(h, k)
          BY <3>1, <1>0, <2>2
        <4>2. g[File!BlockEnd(lines, k) + 1] = h[File!BlockEnd(lines, k) + 1] /\ g[k + 1] = h[k + 1]
          BY <2>3, <2>8
        <4> HIDE DEF g
        <4>3. next(h, k) = next(g, k)
          BY <4>2 DEF next
        <4> QED
          BY <3>1, <4>1, <4>3
      <3>2. CASE i # k
        <4>1. i \in k + 1 .. L + 1
          BY <3>2, <1>0, <2>2
        <4>2. h[i] = next(h, i)
          BY <4>1, <2>1, <2>2
        <4>3. g[i] = h[i]
          BY <4>1, <2>8
        <4> HIDE DEF g
        <4>4. ASSUME i <= L PROVE next(h, i) = next(g, i)
          <5>1. File!BlockEnd(lines, i) + 1 \in i + 1 .. L + 1
            BY <4>1, <4>4, <1>0, <2>2, EndIsBelow
          <5>2. File!BlockEnd(lines, i) + 1 \in k + 1 .. L + 1 /\ i + 1 \in k + 1 .. L + 1
            BY <4>1, <4>4, <5>1, <1>0, <2>2
          <5>3. /\ g[File!BlockEnd(lines, i) + 1] = h[File!BlockEnd(lines, i) + 1]
                /\ g[i + 1] = h[i + 1]
            BY <5>2, <2>8
          <5> QED
            BY <5>3 DEF next
        <4>5. ASSUME ~(i <= L) PROVE next(h, i) = next(g, i)
          <5>1. i > L
            BY <4>1, <4>5, <1>0, <2>2
          <5> QED
            BY <5>1 DEF next
        <4> QED
          BY <4>2, <4>3, <4>4, <4>5
      <3> QED
        BY <3>1, <3>2
    <2>10. Is(m + 1, g)
      BY <2>2, <2>9
    <2> HIDE DEF g, Is
    <2> QED
      BY <2>7, <2>10
  <1> HIDE DEF D
  <1>3. D = Nat
    BY <1>1, <1>2, SetInduction DEF D
  <1>4. PICK f \in [1 .. L + 1 -> Text] : Is(L, f)
    <2>1. L + 1 - L = 1
      BY <1>0
    <2> HIDE DEF Is
    <2>2. \E f \in [L + 1 - L .. L + 1 -> Text] : Is(L, f)
      BY <1>0, <1>3 DEF D
    <2> QED
      BY <2>1, <2>2
  <1> DEFINE Eq(k) == k = [i \in 1 .. L + 1 |-> next(k, i)]
             kept == CHOOSE k : Eq(k)
  <1>5. Eq(f)
    <2>1. \A i \in 1 .. L + 1 : f[i] = next(f, i)
      <3>1. L + 1 - L = 1
        BY <1>0
      <3> QED
        BY <1>4, <3>1
    <2> HIDE DEF next
    <2> QED
      BY <2>1, <1>4
  <1>6. Eq(kept)
    <2> HIDE DEF Eq
    <2> QED
      BY <1>5
  <1>7. File!RemoveEntry(lines, key) = kept[1]
    BY DEF File!RemoveEntry
  <1> HIDE DEF kept
  <1>8. \A i \in 1 .. L + 1 : kept[i] = next(kept, i)
    <2> HIDE DEF next
    <2> QED
      BY <1>6
  <1>9. kept[L + 1] = << >>
    <2>1. L + 1 \in 1 .. L + 1 /\ L + 1 > L
      BY <1>0
    <2>2. kept[L + 1] = next(kept, L + 1)
      <3> HIDE DEF next
      <3> QED
        BY <2>1, <1>8
    <2> QED
      BY <2>1, <2>2
  <1> DEFINE E == {m \in Nat : m <= L => \A i \in L + 1 - m .. L + 1 : kept[i] \in Text}
  <1>10. 0 \in E
    <2>1. kept[L + 1] = << >>
      BY <1>9
    <2>2. << >> \in Text
      BY EmptySeq DEF Text
    <2>3. \A i \in L + 1 - 0 .. L + 1 : i = L + 1
      BY <1>0
    <2> QED
      BY <2>1, <2>2, <2>3
  <1>11. ASSUME NEW m \in E PROVE m + 1 \in E
    <2> SUFFICES ASSUME m + 1 <= L, NEW i \in L + 1 - (m + 1) .. L + 1 PROVE kept[i] \in Text
      OBVIOUS
    <2>0. m \in Nat /\ m <= L /\ \A j \in L + 1 - m .. L + 1 : kept[j] \in Text
      BY <1>0
    <2>1. CASE i \in L + 1 - m .. L + 1
      BY <2>0, <2>1
    <2>2. CASE i \notin L + 1 - m .. L + 1
      <3>1. i \in 1 .. L /\ i + 1 \in L + 1 - m .. L + 1 /\ i = L - m
        BY <1>0, <2>0, <2>2
      <3>2. File!BlockEnd(lines, i) + 1 \in i + 1 .. L + 1
        BY <3>1, EndIsBelow
      <3> DEFINE e == File!BlockEnd(lines, i) + 1
      <3> HIDE DEF e
      <3>3. e \in L + 1 - m .. L + 1
        BY <3>1, <3>2, <1>0, <2>0 DEF e
      <3>4. kept[e] \in Text /\ kept[i + 1] \in Text
        BY <3>1, <3>3, <2>0
      <3>5. <<lines[i]>> \in Text
        BY <3>1, ElementOfSeq DEF Text
      <3>6. <<lines[i]>> \o kept[i + 1] \in Text
        BY <3>4, <3>5, ConcatProperties DEF Text
      <3>7. kept[i] = next(kept, i) /\ ~(i > L)
        BY <3>1, <1>0, <1>8
      <3> QED
        BY <3>4, <3>6, <3>7 DEF e
    <2> QED
      BY <2>1, <2>2
  <1> HIDE DEF E
  <1>12. E = Nat
    BY <1>10, <1>11, SetInduction DEF E
  <1>13. \A i \in 1 .. L + 1 : kept[i] \in Text
    BY <1>0, <1>12 DEF E
  <1>14. kept[L + 1] = << >>
    BY <1>9
  <1>15. ASSUME NEW i \in 1 .. L
         PROVE  kept[i] = IF drop(i) THEN kept[File!BlockEnd(lines, i) + 1]
                          ELSE <<lines[i]>> \o kept[i + 1]
    <2>1. i \in 1 .. L + 1 /\ ~(i > L)
      BY <1>0
    <2>2. kept[i] = next(kept, i)
      BY <2>1, <1>8
    <2> QED
      BY <2>1, <2>2
  <1> QED
    BY <1>7, <1>13, <1>14, <1>15 DEF Keeps

\* Wherever the lines a are in a file, what remove_entry keeps of them is b.
KeepsOf(key, a, b) ==
  \A pre \in Text, post \in Text : \A f :
    Keeps(pre \o (a \o post), key, f) => f[Len(pre) + 1] = b \o f[Len(pre) + Len(a) + 1]

\* Two such pieces, one behind the other.
LEMMA KeepsOfBoth ==
  ASSUME NEW key, NEW a \in Text, NEW b \in Text, NEW c \in Text, NEW d \in Text,
         KeepsOf(key, a, b), KeepsOf(key, c, d)
  PROVE  KeepsOf(key, a \o c, b \o d)
  <1> SUFFICES ASSUME NEW pre \in Text, NEW post \in Text, NEW f,
                      Keeps(pre \o ((a \o c) \o post), key, f)
               PROVE  f[Len(pre) + 1] = (b \o d) \o f[Len(pre) + Len(a \o c) + 1]
    BY DEF KeepsOf
  <1> DEFINE back == c \o post
             front == pre \o a
             all == pre \o ((a \o c) \o post)
  <1>1. back \in Text /\ front \in Text /\ Len(front) = Len(pre) + Len(a)
    BY ConcatProperties DEF Text
  <1>2. all = pre \o (a \o back) /\ all = front \o (c \o post)
    <2>1. (a \o c) \o post = a \o back
      BY ConcatAssociative DEF Text
    <2> HIDE DEF back
    <2>2. (pre \o a) \o back = pre \o (a \o back)
      BY <1>1, ConcatAssociative DEF Text
    <2> QED
      BY <2>1, <2>2 DEF back
  <1>3. f[Len(pre) + 1] = b \o f[Len(pre) + Len(a) + 1]
    <2>1. Keeps(pre \o (a \o back), key, f)
      BY <1>2
    <2> HIDE DEF back
    <2> QED
      BY <1>1, <2>1 DEF KeepsOf
  <1>4. f[Len(front) + 1] = d \o f[Len(front) + Len(c) + 1]
    <2>1. Keeps(front \o (c \o post), key, f)
      BY <1>2
    <2> HIDE DEF front
    <2> QED
      BY <1>1, <2>1 DEF KeepsOf
  <1>5. Len(a \o c) = Len(a) + Len(c) /\ Len(pre) \in Nat /\ Len(a) \in Nat /\ Len(c) \in Nat
    BY ConcatProperties, LenProperties DEF Text
  <1>6. Len(front) + Len(c) + 1 = Len(pre) + Len(a \o c) + 1
    BY <1>1, <1>5
  <1> DEFINE n == Len(pre) + Len(a \o c) + 1
  <1>7. f[n] \in Text
    <2>1. all \in Text /\ Len(all) = Len(pre) + Len(a \o c) + Len(post) /\ Len(post) \in Nat
      <3>1. a \o c \in Text
        BY ConcatProperties DEF Text
      <3> DEFINE ac == a \o c
      <3> HIDE DEF ac
      <3>2. ac \in Text
        BY <3>1 DEF ac
      <3>3. /\ pre \o (ac \o post) \in Text /\ Len(post) \in Nat
            /\ Len(pre \o (ac \o post)) = Len(pre) + Len(ac) + Len(post)
        BY <3>2, Between DEF Text
      <3> QED
        BY <3>3 DEF ac
    <2>2. n \in 1 .. Len(all) + 1
      BY <1>5, <2>1
    <2>3. Keeps(all, key, f)
      OBVIOUS
    <2> HIDE DEF all, n
    <2> QED
      BY <2>2, <2>3 DEF Keeps
  <1> HIDE DEF n
  <1>8. f[Len(pre) + 1] = b \o (d \o f[n])
    BY <1>1, <1>3, <1>4, <1>6 DEF n
  <1>9. (b \o d) \o f[n] = b \o (d \o f[n])
    <2> DEFINE u == f[n]
    <2>1. u \in Text
      BY <1>7
    <2> HIDE DEF u
    <2>2. b \in Seq(TextLine) /\ d \in Seq(TextLine) /\ u \in Seq(TextLine)
      BY <2>1 DEF Text
    <2>3. (b \o d) \o u = b \o (d \o u)
      BY ONLY <2>2, ConcatAssociative
    <2> QED
      BY <2>3 DEF u
  <1> QED
    BY <1>8, <1>9 DEF n

\* Of no lines none are kept.
LEMMA KeepsOfNone ==
  ASSUME NEW key
  PROVE  KeepsOf(key, << >>, << >>)
  <1> SUFFICES ASSUME NEW pre \in Text, NEW post \in Text, NEW f,
                      Keeps(pre \o (<< >> \o post), key, f)
               PROVE  f[Len(pre) + 1] = << >> \o f[Len(pre) + Len(<< >>) + 1]
    BY DEF KeepsOf
  <1>1. << >> \o post = post
    BY ConcatEmptySeq DEF Text
  <1>2. Len(pre \o post) = Len(pre) + Len(post) /\ Len(pre) \in Nat /\ Len(post) \in Nat
    BY ConcatProperties, LenProperties DEF Text
  <1>3. f[Len(pre) + 1] \in Text
    <2> DEFINE all == pre \o post
    <2>1. Len(pre) + 1 \in 1 .. Len(all) + 1
      BY <1>2
    <2>2. Keeps(all, key, f)
      BY <1>1
    <2> HIDE DEF all
    <2> QED
      BY <2>1, <2>2 DEF Keeps
  <1>4. Len(pre) + Len(<< >>) + 1 = Len(pre) + 1
    BY <1>2, EmptySeq
  <1> QED
    BY <1>3, <1>4, ConcatEmptySeq DEF Text

\* A line that does not open an entry of the key stays.
LEMMA KeepsOfLine ==
  ASSUME NEW key, NEW x \in TextLine, ~(x.is = "version" /\ x.name = key)
  PROVE  KeepsOf(key, <<x>>, <<x>>)
  <1> SUFFICES ASSUME NEW pre \in Text, NEW post \in Text, NEW f,
                      Keeps(pre \o (<<x>> \o post), key, f)
               PROVE  f[Len(pre) + 1] = <<x>> \o f[Len(pre) + Len(<<x>>) + 1]
    BY DEF KeepsOf
  <1> DEFINE all == pre \o (<<x>> \o post)
             n == Len(pre) + 1
  <1>1. <<x>> \in Text /\ Len(<<x>>) = 1 /\ <<x>>[1] = x
    BY DEF Text
  <1>2. n \in 1 .. Len(all) /\ all[n] = x /\ Len(pre) \in Nat
    <2> DEFINE a == <<x>>
    <2> HIDE DEF a
    <2>1. a \in Text /\ Len(a) = 1 /\ a[1] = x
      BY <1>1 DEF a
    <2>2. /\ Len(pre \o (a \o post)) = Len(pre) + Len(a) + Len(post)
          /\ Len(pre) \in Nat /\ Len(post) \in Nat
          /\ \A j \in 1 .. Len(a) : (pre \o (a \o post))[Len(pre) + j] = a[j]
      <3>1. pre \in Seq(TextLine) /\ a \in Seq(TextLine) /\ post \in Seq(TextLine)
        BY <2>1 DEF Text
      <3> QED
        BY <3>1, Between DEF Text
    <2>3. (pre \o (a \o post))[Len(pre) + 1] = x
      BY <2>1, <2>2
    <2>4. Len(pre) + 1 \in 1 .. Len(pre \o (a \o post))
      BY <2>1, <2>2
    <2> QED
      BY <2>2, <2>3, <2>4 DEF a
  <1>3. Keeps(all, key, f)
    OBVIOUS
  <1>4. n + 1 = Len(pre) + Len(<<x>>) + 1
    BY <1>1, <1>2
  <1> HIDE DEF all
  <1>5. f[n] = <<x>> \o f[n + 1]
    <2> HIDE DEF n
    <2> QED
      BY <1>2, <1>3 DEF Keeps
  <1> QED
    BY <1>4, <1>5

-----------------------------------------------------------------------------
\* Five lines are written one behind the other.
LEMMA Fives ==
  ASSUME NEW a \in TextLine, NEW b \in TextLine, NEW c \in TextLine, NEW d \in TextLine, NEW e \in TextLine,
         NEW s, s = <<a, b, c, d, e>>
  PROVE  /\ s \in Seq(TextLine)
         /\ s = (((<<a>> \o <<b>>) \o <<c>>) \o <<d>>) \o <<e>>
  <1>1. <<a, b, c>> \in Seq(TextLine) /\ <<a, b, c>> = (<<a>> \o <<b>>) \o <<c>>
    <2>1. <<a, b>> = <<a>> \o <<b>>
      BY Pairs
    <2>2. <<a, b, c>> \in Seq(TextLine) /\ <<a, b, c>> = <<a, b>> \o <<c>>
      BY Triples
    <2> QED
      BY <2>1, <2>2
  <1>2. <<a, b, c, d, e>> \in Seq(TextLine) /\ <<a, b, c, d>> \in Seq(TextLine)
        /\ <<d>> \in Seq(TextLine) /\ <<e>> \in Seq(TextLine)
    OBVIOUS
  <1> DEFINE r == <<a, b, c>> \o <<d>>
             t == <<a, b, c, d>> \o <<e>>
  <1>3. /\ r \in Seq(TextLine) /\ Len(r) = 4
        /\ r[1] = a /\ r[2] = b /\ r[3] = c /\ r[4] = d
    BY <1>1, <1>2, ConcatProperties
  <1>4. /\ t \in Seq(TextLine) /\ Len(t) = 5
        /\ t[1] = a /\ t[2] = b /\ t[3] = c /\ t[4] = d /\ t[5] = e
    BY <1>2, ConcatProperties
  <1> HIDE DEF r, t
  <1>5. <<a, b, c, d>> = r
    <2>1. \A i \in 1 .. 4 : <<a, b, c, d>>[i] = r[i]
      <3>1. \A i \in 1 .. 4 : i = 1 \/ i = 2 \/ i = 3 \/ i = 4
        OBVIOUS
      <3> QED
        BY <3>1, <1>3
    <2> QED
      BY <2>1, <1>2, <1>3, SeqEqual
  <1>6. <<a, b, c, d, e>> = t
    <2>1. \A i \in 1 .. 5 : <<a, b, c, d, e>>[i] = t[i]
      <3>1. \A i \in 1 .. 5 : i = 1 \/ i = 2 \/ i = 3 \/ i = 4 \/ i = 5
        OBVIOUS
      <3> QED
        BY <3>1, <1>4
    <2> QED
      BY <2>1, <1>2, <1>4, SeqEqual
  <1> QED
    BY <1>1, <1>2, <1>5, <1>6 DEF r, t

\* The versions of a platform while a descriptor is patched.
AnyEntries == [key : STRING, archive : STRING \cup {"new"}, indent : Nat]

\* The five lines of an entry.
LEMMA BlockLines ==
  ASSUME NEW v \in AnyEntries
  PROVE  /\ Block(v) \in Text /\ Len(Block(v)) = 5
         /\ \A i \in 1 .. 5 : Block(v)[i] \in TextLine
         /\ Block(v)[1] = File!Header(v.key, v.indent)
         /\ Block(v)[2].is = "url" /\ Block(v)[4].is = "sha256"
         /\ Block(v)[3] = File!Close(v.indent + 4) /\ Block(v)[5] = File!Close(v.indent)
         /\ Block(v) = (((<<Block(v)[1]>> \o <<Block(v)[2]>>) \o <<Block(v)[3]>>)
                          \o <<Block(v)[4]>>) \o <<Block(v)[5]>>
  <1> DEFINE a == File!Header(v.key, v.indent)
             b == File!Url(v.archive, v.indent + 4)
             c == File!Close(v.indent + 4)
             d == File!Sha256(v.archive, v.indent + 4)
             e == File!Close(v.indent)
  <1>1. v.key \in STRING /\ v.archive \in STRING \cup {"new"} /\ v.indent \in Nat
    BY DEF AnyEntries
  <1>2. /\ a \in TextLine /\ b \in TextLine /\ c \in TextLine /\ d \in TextLine /\ e \in TextLine
        /\ b.is = "url" /\ d.is = "sha256"
    <2>1. v.indent + 4 \in Nat
      BY <1>1
    <2>2. a \in TextLine /\ e \in TextLine
      BY <1>1 DEF TextLine, File!Header, File!Close
    <2>3. c \in TextLine
      BY <2>1 DEF TextLine, File!Close
    <2>4. b \in TextLine /\ b.is = "url"
      BY <1>1, <2>1 DEF TextLine, File!Url
    <2>5. d \in TextLine /\ d.is = "sha256"
      BY <1>1, <2>1 DEF TextLine, File!Sha256
    <2> QED
      BY <2>2, <2>3, <2>4, <2>5
  <1>3. Block(v) = <<a, b, c, d, e>>
    BY DEF Block, File!VersionBlock
  <1> HIDE DEF a, b, c, d, e
  <1>4. /\ Block(v)[1] = a /\ Block(v)[2] = b /\ Block(v)[3] = c
        /\ Block(v)[4] = d /\ Block(v)[5] = e /\ Len(Block(v)) = 5
    BY <1>3
  <1>5. \A i \in 1 .. 5 : i = 1 \/ i = 2 \/ i = 3 \/ i = 4 \/ i = 5
    OBVIOUS
  <1>6. \A i \in 1 .. 5 : Block(v)[i] \in TextLine
    BY <1>2, <1>4, <1>5
  <1>7. Block(v) \in Text /\ Block(v) = (((<<a>> \o <<b>>) \o <<c>>) \o <<d>>) \o <<e>>
    <2>1. /\ Block(v) \in Seq(TextLine)
          /\ Block(v) = (((<<a>> \o <<b>>) \o <<c>>) \o <<d>>) \o <<e>>
      <3>1. /\ a \in TextLine /\ b \in TextLine /\ c \in TextLine
            /\ d \in TextLine /\ e \in TextLine
        BY <1>2
      <3> QED
        BY <3>1, <1>3, Fives
    <2> QED
      BY <2>1 DEF Text
  <1> QED
    BY <1>2, <1>4, <1>6, <1>7 DEF a, c, e

\* The entry of another version stays.
LEMMA KeepsOfOther ==
  ASSUME NEW v \in AnyEntries, NEW key, v.key # key
  PROVE  KeepsOf(key, Block(v), Block(v))
  <1> DEFINE l(i) == Block(v)[i]
  <1>1. /\ \A i \in 1 .. 5 : l(i) \in TextLine
        /\ Block(v) = (((<<l(1)>> \o <<l(2)>>) \o <<l(3)>>) \o <<l(4)>>) \o <<l(5)>>
    BY BlockLines
  <1>2. /\ ~(l(1).is = "version" /\ l(1).name = key)
        /\ l(2).is # "version" /\ l(3).is # "version" /\ l(4).is # "version"
        /\ l(5).is # "version"
    <2>1. /\ l(1) = File!Header(v.key, v.indent) /\ l(2).is = "url" /\ l(4).is = "sha256"
          /\ l(3) = File!Close(v.indent + 4) /\ l(5) = File!Close(v.indent)
      BY BlockLines
    <2> HIDE DEF l
    <2>2. l(1).name = v.key
      BY <2>1 DEF File!Header
    <2>3. l(3).is = "close" /\ l(5).is = "close"
      <3>1. /\ File!Close(v.indent + 4).is = "close" /\ File!Close(v.indent).is = "close"
        BY DEF File!Close
      <3> QED
        BY <2>1, <3>1
    <2> QED
      BY <2>1, <2>2, <2>3
  <1> HIDE DEF l
  <1>3. /\ l(1) \in TextLine /\ l(2) \in TextLine /\ l(3) \in TextLine
        /\ l(4) \in TextLine /\ l(5) \in TextLine
    BY <1>1
  <1>4. /\ KeepsOf(key, <<l(1)>>, <<l(1)>>) /\ KeepsOf(key, <<l(2)>>, <<l(2)>>)
        /\ KeepsOf(key, <<l(3)>>, <<l(3)>>) /\ KeepsOf(key, <<l(4)>>, <<l(4)>>)
        /\ KeepsOf(key, <<l(5)>>, <<l(5)>>)
    BY <1>2, <1>3, KeepsOfLine
  <1>5. /\ <<l(1)>> \in Text /\ <<l(2)>> \in Text /\ <<l(3)>> \in Text
        /\ <<l(4)>> \in Text /\ <<l(5)>> \in Text
    BY <1>3 DEF Text
  <1> DEFINE s2 == <<l(1)>> \o <<l(2)>>
             s3 == s2 \o <<l(3)>>
             s4 == s3 \o <<l(4)>>
             s5 == s4 \o <<l(5)>>
  <1>6. s2 \in Text /\ KeepsOf(key, s2, s2)
    BY <1>4, <1>5, KeepsOfBoth, ConcatProperties DEF Text
  <1> HIDE DEF s2
  <1>7. s3 \in Text /\ KeepsOf(key, s3, s3)
    BY <1>4, <1>5, <1>6, KeepsOfBoth, ConcatProperties DEF Text
  <1> HIDE DEF s3
  <1>8. s4 \in Text /\ KeepsOf(key, s4, s4)
    BY <1>4, <1>5, <1>7, KeepsOfBoth, ConcatProperties DEF Text
  <1> HIDE DEF s4
  <1>9. s5 \in Text /\ KeepsOf(key, s5, s5)
    BY <1>4, <1>5, <1>8, KeepsOfBoth, ConcatProperties DEF Text
  <1> QED
    BY <1>1, <1>9 DEF s2, s3, s4

\* The entry of the key goes, whatever its indentation: of its lines only the last is a
\* closing brace indented like the first.
LEMMA KeepsOfEntry ==
  ASSUME NEW v \in AnyEntries
  PROVE  KeepsOf(v.key, Block(v), << >>)
  <1> SUFFICES ASSUME NEW pre \in Text, NEW post \in Text, NEW f,
                      Keeps(pre \o (Block(v) \o post), v.key, f)
               PROVE  f[Len(pre) + 1] = << >> \o f[Len(pre) + Len(Block(v)) + 1]
    BY DEF KeepsOf
  <1> DEFINE all == pre \o (Block(v) \o post)
             n == Len(pre)
             S == {j \in n + 1 + 1 .. Len(all) : all[j] = File!Close(all[n + 1].indent)}
                    \cup {Len(all)}
  <1>1. /\ Block(v) \in Text /\ Len(Block(v)) = 5
        /\ Block(v)[1] = File!Header(v.key, v.indent)
        /\ Block(v)[2].is = "url" /\ Block(v)[4].is = "sha256"
        /\ Block(v)[3] = File!Close(v.indent + 4) /\ Block(v)[5] = File!Close(v.indent)
    BY BlockLines
  <1>2. /\ Len(all) = n + 5 + Len(post) /\ n \in Nat /\ Len(post) \in Nat
        /\ \A j \in 1 .. 5 : all[n + j] = Block(v)[j]
    <2> DEFINE b == Block(v)
    <2> HIDE DEF b
    <2>1. pre \in Seq(TextLine) /\ b \in Seq(TextLine) /\ post \in Seq(TextLine) /\ Len(b) = 5
      BY <1>1 DEF Text, b
    <2>2. /\ Len(pre \o (b \o post)) = Len(pre) + Len(b) + Len(post)
          /\ Len(pre) \in Nat /\ Len(post) \in Nat
          /\ \A j \in 1 .. Len(b) : (pre \o (b \o post))[Len(pre) + j] = b[j]
      BY <2>1, Between DEF Text
    <2> QED
      BY <2>1, <2>2 DEF b
  <1>3. v.indent \in Nat
    BY DEF AnyEntries
  <1>4. Keeps(all, v.key, f)
    OBVIOUS
  <1> HIDE DEF all, n
  <1>5. /\ all[n + 1] = File!Header(v.key, v.indent)
        /\ all[n + 2].is = "url" /\ all[n + 4].is = "sha256"
        /\ all[n + 3] = File!Close(v.indent + 4) /\ all[n + 5] = File!Close(v.indent)
    <2>1. all[n + 1] = Block(v)[1] /\ all[n + 2] = Block(v)[2] /\ all[n + 3] = Block(v)[3]
          /\ all[n + 4] = Block(v)[4] /\ all[n + 5] = Block(v)[5]
      BY <1>2
    <2> QED
      BY <1>1, <2>1
  <1>6. all[n + 1].is = "version" /\ all[n + 1].name = v.key /\ all[n + 1].indent = v.indent
    BY <1>5 DEF File!Header
  <1>7. S = {j \in n + 2 .. Len(all) : all[j] = File!Close(v.indent)} \cup {Len(all)}
    BY <1>2, <1>6
  <1>8. n + 5 \in S /\ S \subseteq n + 2 .. Len(all) /\ S \in SUBSET Nat
    BY <1>2, <1>5, <1>7
  <1>9. ASSUME NEW y \in S PROVE n + 5 <= y
    <2>1. CASE y = Len(all)
      BY <1>2, <2>1
    <2>2. CASE y # Len(all)
      <3>1. all[y] = File!Close(v.indent) /\ y \in Nat /\ n + 2 <= y
        BY <1>2, <1>7, <2>2
      <3>2. all[y].is = "close" /\ all[y].indent = v.indent
        <4>1. File!Close(v.indent).is = "close" /\ File!Close(v.indent).indent = v.indent
          BY DEF File!Close
        <4> QED
          BY <3>1, <4>1
      <3>3. all[n + 3].indent # v.indent
        <4>1. File!Close(v.indent + 4).indent = v.indent + 4
          BY DEF File!Close
        <4> QED
          BY <1>3, <1>5, <4>1
      <3>4. y # n + 2 /\ y # n + 3 /\ y # n + 4
        BY <3>2, <3>3, <1>5
      <3> QED
        BY <3>1, <3>4, <1>2
    <2> QED
      BY <2>1, <2>2
  <1>10. File!BlockEnd(all, n + 1) = File!Min(S)
    BY DEF File!BlockEnd
  <1> HIDE DEF S
  <1>11. File!Min(S) = n + 5
    <2> DEFINE P(x) == x \in S /\ \A y \in S : x <= y
    <2>1. P(n + 5)
      BY <1>8, <1>9
    <2>2. \A x : P(x) => x = n + 5
      <3> SUFFICES ASSUME NEW x, P(x) PROVE x = n + 5
        OBVIOUS
      <3>1. x <= n + 5 /\ n + 5 <= x /\ x \in Nat
        BY <1>8, <1>9
      <3> QED
        BY <3>1, <1>2
    <2>3. File!Min(S) = CHOOSE x : P(x)
      BY DEF File!Min
    <2> HIDE DEF P
    <2> QED
      BY <2>1, <2>2, <2>3
  <1>12. n + 1 \in 1 .. Len(all) /\ (n + 5) + 1 = n + Len(Block(v)) + 1
    BY <1>1, <1>2
  <1>13. f[n + 1] = f[n + Len(Block(v)) + 1]
    BY <1>4, <1>6, <1>10, <1>11, <1>12 DEF Keeps
  <1>14. f[n + 1] \in Text
    <2>1. n + 1 \in 1 .. Len(all) + 1
      BY <1>2
    <2> QED
      BY <2>1, <1>4 DEF Keeps
  <1> QED
    BY <1>13, <1>14, ConcatEmptySeq DEF n, Text

\* What is kept of pieces in a row.
LEMMA KeepsOfFlatten ==
  ASSUME NEW key, NEW ss \in Seq(Text), NEW tt \in Seq(Text), Len(ss) = Len(tt),
         \A i \in 1 .. Len(ss) : KeepsOf(key, ss[i], tt[i])
  PROVE  KeepsOf(key, FlattenSeq(ss), FlattenSeq(tt))
  <1> DEFINE n == Len(ss)
  <1>0. n \in Nat /\ Len(tt) = n /\ \A i \in 1 .. n : ss[i] \in Text /\ tt[i] \in Text
    BY LenProperties, ElementOfSeq
  <1>1. PICK f \in [0 .. n -> Text] :
          /\ f[0] = << >>
          /\ \A i \in 1 .. n : f[i] = f[i - 1] \o ss[i]
          /\ f[n] = FlattenSeq(ss)
    BY FlattenSteps DEF Text
  <1>2. PICK g \in [0 .. n -> Text] :
          /\ g[0] = << >>
          /\ \A i \in 1 .. n : g[i] = g[i - 1] \o tt[i]
          /\ g[n] = FlattenSeq(tt)
    <2>1. \E g \in [0 .. Len(tt) -> Text] :
            /\ g[0] = << >>
            /\ \A i \in 1 .. Len(tt) : g[i] = g[i - 1] \o tt[i]
            /\ g[Len(tt)] = FlattenSeq(tt)
      BY FlattenSteps DEF Text
    <2> QED
      BY <2>1, <1>0
  <1> DEFINE D == {m \in Nat : m <= n => KeepsOf(key, f[m], g[m])}
  <1>3. 0 \in D
    BY <1>1, <1>2, KeepsOfNone
  <1>4. ASSUME NEW m \in D PROVE m + 1 \in D
    <2> SUFFICES ASSUME m + 1 <= n PROVE KeepsOf(key, f[m + 1], g[m + 1])
      OBVIOUS
    <2>1. m + 1 \in 1 .. n /\ (m + 1) - 1 = m /\ m \in 0 .. n /\ KeepsOf(key, f[m], g[m])
      BY <1>0
    <2>2. f[m] \in Text /\ g[m] \in Text /\ ss[m + 1] \in Text /\ tt[m + 1] \in Text
      BY <2>1, <1>0
    <2>3. f[m + 1] = f[m] \o ss[m + 1] /\ g[m + 1] = g[m] \o tt[m + 1]
      BY <2>1, <1>1, <1>2
    <2>4. KeepsOf(key, ss[m + 1], tt[m + 1])
      BY <2>1
    <2> DEFINE a == f[m]
               b == g[m]
               c == ss[m + 1]
               d == tt[m + 1]
    <2> HIDE DEF a, b, c, d
    <2>5. KeepsOf(key, a \o c, b \o d)
      BY <2>1, <2>2, <2>4, KeepsOfBoth DEF a, b, c, d
    <2> QED
      BY <2>3, <2>5 DEF a, b, c, d
  <1> HIDE DEF D
  <1>5. D = Nat
    BY <1>3, <1>4, SetInduction DEF D
  <1> QED
    BY <1>0, <1>1, <1>2, <1>5 DEF D

-----------------------------------------------------------------------------
\* The lines of versions: of one behind the other, and of one.
LEMMA BlocksAreText ==
  ASSUME NEW vs \in Seq(AnyEntries)
  PROVE  /\ [i \in 1 .. Len(vs) |-> Block(vs[i])] \in Seq(Text)
         /\ Len([i \in 1 .. Len(vs) |-> Block(vs[i])]) = Len(vs)
         /\ Len(vs) \in Nat
         /\ Blocks(vs) \in Text
  <1> DEFINE blocks == [i \in 1 .. Len(vs) |-> Block(vs[i])]
  <1>1. \A i \in 1 .. Len(vs) : Block(vs[i]) \in Text
    BY ElementOfSeq, BlockLines
  <1>2. Len(vs) \in Nat
    BY LenProperties
  <1>3. blocks \in [1 .. Len(vs) -> Text]
    BY <1>1
  <1> HIDE DEF blocks
  <1>4. blocks \in Seq(Text) /\ Len(blocks) = Len(vs)
    BY <1>2, <1>3, FunctionIsSeq
  <1>5. FlattenSeq(blocks) \in Text
    BY <1>4, FlattenIsSeq DEF Text
  <1> QED
    BY <1>2, <1>4, <1>5 DEF blocks, Blocks

\* The lines of versions, one behind the other.
LEMMA BlocksConcat ==
  ASSUME NEW a \in Seq(AnyEntries), NEW b \in Seq(AnyEntries)
  PROVE  Blocks(a \o b) = Blocks(a) \o Blocks(b)
  <1> DEFINE ab == a \o b
             p == [i \in 1 .. Len(a) |-> Block(a[i])]
             q == [i \in 1 .. Len(b) |-> Block(b[i])]
             x == [i \in 1 .. Len(ab) |-> Block(ab[i])]
             y == p \o q
  <1>1. /\ ab \in Seq(AnyEntries) /\ Len(ab) = Len(a) + Len(b)
        /\ Len(a) \in Nat /\ Len(b) \in Nat
        /\ \A i \in 1 .. Len(a) + Len(b) : ab[i] = IF i <= Len(a) THEN a[i] ELSE b[i - Len(a)]
    BY ConcatProperties, LenProperties
  <1>2. p \in Seq(Text) /\ Len(p) = Len(a) /\ q \in Seq(Text) /\ Len(q) = Len(b)
    BY BlocksAreText
  <1> HIDE DEF ab
  <1>3. x \in Seq(Text) /\ Len(x) = Len(ab)
    BY <1>1, BlocksAreText
  <1>4. /\ \A i \in 1 .. Len(a) : p[i] = Block(a[i])
        /\ \A i \in 1 .. Len(b) : q[i] = Block(b[i])
        /\ \A i \in 1 .. Len(ab) : x[i] = Block(ab[i])
    OBVIOUS
  <1>5. /\ Blocks(a) = FlattenSeq(p) /\ Blocks(b) = FlattenSeq(q) /\ Blocks(ab) = FlattenSeq(x)
    BY DEF Blocks
  <1> HIDE DEF p, q, x
  <1>6. /\ y \in Seq(Text) /\ Len(y) = Len(p) + Len(q)
        /\ \A i \in 1 .. Len(p) + Len(q) : y[i] = IF i <= Len(p) THEN p[i] ELSE q[i - Len(p)]
    BY <1>2, ConcatProperties
  <1> HIDE DEF y
  <1>7. ASSUME NEW i \in 1 .. Len(a) + Len(b) PROVE x[i] = y[i]
    <2>1. CASE i <= Len(a)
      BY <2>1, <1>1, <1>2, <1>4, <1>6
    <2>2. CASE ~(i <= Len(a))
      <3>1. i - Len(a) \in 1 .. Len(b)
        BY <2>2, <1>1
      <3>2. y[i] = q[i - Len(a)] /\ ab[i] = b[i - Len(a)]
        BY <2>2, <1>1, <1>2, <1>6
      <3> QED
        BY <3>1, <3>2, <1>1, <1>4
    <2> QED
      BY <2>1, <2>2
  <1>8. x = y
    BY <1>1, <1>2, <1>3, <1>6, <1>7, SeqEqual
  <1>9. FlattenSeq(p \o q) = FlattenSeq(p) \o FlattenSeq(q)
    BY <1>2, FlattenConcat DEF Text
  <1> QED
    BY <1>5, <1>8, <1>9 DEF y, ab

\* The lines of one version, and of none.
LEMMA BlocksOfOne ==
  ASSUME NEW v \in AnyEntries
  PROVE  Blocks(<<v>>) = Block(v)
  <1>1. <<v>> \in Seq(AnyEntries) /\ Len(<<v>>) = 1 /\ <<v>>[1] = v
    OBVIOUS
  <1>2. [i \in 1 .. Len(<<v>>) |-> Block(<<v>>[i])] = <<Block(v)>>
    BY <1>1
  <1>3. Block(v) \in Text
    BY BlockLines
  <1> QED
    BY <1>2, <1>3, FlattenOne DEF Blocks, Text

LEMMA BlocksOfNone == Blocks(<< >>) = << >>
  BY DEF Blocks, FlattenSeq

\* One version after the other is kept or passed over.
OtherBlock(v, key) == IF v.key = key THEN << >> ELSE <<v>>

\* The other versions, as steps.
LEMMA OthersSteps ==
  ASSUME NEW vs \in Seq(AnyEntries), NEW key
  PROVE  /\ Others(vs, key) \in Seq(AnyEntries)
         /\ \E f \in [0 .. Len(vs) -> Seq(AnyEntries)] :
              /\ f[0] = << >>
              /\ \A i \in 1 .. Len(vs) : f[i] = f[i - 1] \o OtherBlock(vs[i], key)
              /\ f[Len(vs)] = Others(vs, key)
  <1> DEFINE others == [i \in 1 .. Len(vs) |-> OtherBlock(vs[i], key)]
  <1>0. Len(vs) \in Nat /\ \A i \in 1 .. Len(vs) : vs[i] \in AnyEntries
    BY LenProperties, ElementOfSeq
  <1>1. \A i \in 1 .. Len(vs) : OtherBlock(vs[i], key) \in Seq(AnyEntries)
    BY <1>0, EmptySeq DEF OtherBlock
  <1>2. others \in [1 .. Len(vs) -> Seq(AnyEntries)]
    BY <1>1
  <1>3. \A i \in 1 .. Len(vs) : others[i] = OtherBlock(vs[i], key)
    OBVIOUS
  <1>4. Others(vs, key) = FlattenSeq(others)
    BY DEF Others, OtherBlock
  <1> HIDE DEF others
  <1>5. others \in Seq(Seq(AnyEntries)) /\ Len(others) = Len(vs)
    BY <1>0, <1>2, FunctionIsSeq
  <1>6. FlattenSeq(others) \in Seq(AnyEntries)
    BY <1>5, FlattenIsSeq
  <1>7. PICK f \in [0 .. Len(others) -> Seq(AnyEntries)] :
          /\ f[0] = << >>
          /\ \A i \in 1 .. Len(others) : f[i] = f[i - 1] \o others[i]
          /\ f[Len(others)] = FlattenSeq(others)
    BY <1>5, FlattenSteps
  <1> QED
    BY <1>3, <1>4, <1>5, <1>6, <1>7

\* Of the lines of versions remove_entry keeps those of the other versions.
LEMMA KeepsOfBlocks ==
  ASSUME NEW vs \in Seq(AnyEntries), NEW key
  PROVE  KeepsOf(key, Blocks(vs), Blocks(Others(vs, key)))
  <1> DEFINE n == Len(vs)
             blocks == [i \in 1 .. n |-> Block(vs[i])]
  <1>0. n \in Nat /\ \A i \in 1 .. n : vs[i] \in AnyEntries
    BY LenProperties, ElementOfSeq
  <1>1. blocks \in Seq(Text) /\ Len(blocks) = n
    BY BlocksAreText
  <1>2. (\A i \in 1 .. n : blocks[i] = Block(vs[i])) /\ Blocks(vs) = FlattenSeq(blocks)
    BY DEF Blocks
  <1>3. PICK g \in [0 .. n -> Seq(AnyEntries)] :
          /\ g[0] = << >>
          /\ \A i \in 1 .. n : g[i] = g[i - 1] \o OtherBlock(vs[i], key)
          /\ g[n] = Others(vs, key)
    BY OthersSteps
  <1> HIDE DEF blocks, n
  <1>4. PICK f \in [0 .. n -> Text] :
          /\ f[0] = << >>
          /\ \A i \in 1 .. n : f[i] = f[i - 1] \o blocks[i]
          /\ f[n] = FlattenSeq(blocks)
    <2>1. \E f \in [0 .. Len(blocks) -> Text] :
            /\ f[0] = << >>
            /\ \A i \in 1 .. Len(blocks) : f[i] = f[i - 1] \o blocks[i]
            /\ f[Len(blocks)] = FlattenSeq(blocks)
      BY <1>1, FlattenSteps DEF Text
    <2> QED
      BY <2>1, <1>1
  <1> DEFINE D == {m \in Nat : m <= n => KeepsOf(key, f[m], Blocks(g[m]))}
  <1>5. 0 \in D
    BY <1>3, <1>4, KeepsOfNone, BlocksOfNone
  <1>6. ASSUME NEW m \in D PROVE m + 1 \in D
    <2> SUFFICES ASSUME m + 1 <= n PROVE KeepsOf(key, f[m + 1], Blocks(g[m + 1]))
      OBVIOUS
    <2>1. m + 1 \in 1 .. n /\ (m + 1) - 1 = m /\ m \in 0 .. n /\ KeepsOf(key, f[m], Blocks(g[m]))
      BY <1>0
    <2> DEFINE v == vs[m + 1]
               a == f[m]
               b == g[m]
    <2>2. a \in Text /\ b \in Seq(AnyEntries) /\ v \in AnyEntries
      BY <2>1, <1>0
    <2>3. f[m + 1] = a \o Block(v) /\ g[m + 1] = b \o OtherBlock(v, key)
      BY <2>1, <1>2, <1>3, <1>4
    <2>4. KeepsOf(key, a, Blocks(b))
      BY <2>1
    <2> HIDE DEF v, a, b
    <2>5. Block(v) \in Text /\ Blocks(b) \in Text
      BY <2>2, BlockLines, BlocksAreText
    <2>6. CASE v.key = key
      <3>1. KeepsOf(key, Block(v), << >>)
        BY <2>2, <2>6, KeepsOfEntry
      <3>2. << >> \in Text
        BY EmptySeq DEF Text
      <3>3. KeepsOf(key, a \o Block(v), Blocks(b) \o << >>)
        BY <2>2, <2>4, <2>5, <3>1, <3>2, KeepsOfBoth
      <3>4. Blocks(b) \o << >> = Blocks(b) /\ b \o << >> = b
        BY <2>2, <2>5, ConcatEmptySeq DEF Text
      <3>5. g[m + 1] = b
        BY <2>3, <2>6, <3>4 DEF OtherBlock
      <3> QED
        BY <2>3, <3>3, <3>4, <3>5
    <2>7. CASE v.key # key
      <3>1. KeepsOf(key, Block(v), Block(v))
        BY <2>2, <2>7, KeepsOfOther
      <3>2. KeepsOf(key, a \o Block(v), Blocks(b) \o Block(v))
        BY <2>2, <2>4, <2>5, <3>1, KeepsOfBoth
      <3>3. <<v>> \in Seq(AnyEntries)
        BY <2>2
      <3>4. Blocks(b \o <<v>>) = Blocks(b) \o Blocks(<<v>>)
        BY <2>2, <3>3, BlocksConcat
      <3>5. Blocks(<<v>>) = Block(v)
        BY <2>2, BlocksOfOne
      <3>6. g[m + 1] = b \o <<v>>
        BY <2>3, <2>7 DEF OtherBlock
      <3> QED
        BY <2>3, <3>2, <3>4, <3>5, <3>6
    <2> QED
      BY <2>6, <2>7
  <1> HIDE DEF D
  <1>7. D = Nat
    BY <1>5, <1>6, SetInduction DEF D
  <1>8. KeepsOf(key, f[n], Blocks(g[n]))
    <2>1. n \in D /\ n <= n
      BY <1>0, <1>7
    <2> QED
      BY <2>1 DEF D
  <1>9. f[n] = Blocks(vs) /\ g[n] = Others(vs, key)
    BY <1>2, <1>3, <1>4
  <1> QED
    BY <1>8, <1>9

-----------------------------------------------------------------------------
\* What a descriptor has for one platform.
Section(p, vs) == <<File!Opens(p)>> \o (Blocks(vs) \o <<File!Close(8)>>)

\* Platforms in an order; versions for each of them.
Ordered(order) == order \in Seq(ToSet(Platforms)) /\ IsInjective(order)

VersionLists == [ToSet(Platforms) -> Seq(AnyEntries)]

\* The lines of one platform.
LEMMA SectionLines ==
  ASSUME NEW p \in ToSet(Platforms), NEW vs \in Seq(AnyEntries)
  PROVE  /\ Section(p, vs) \in Text
         /\ File!Opens(p) \in TextLine /\ File!Close(8) \in TextLine
         /\ <<File!Opens(p)>> \in Text /\ <<File!Close(8)>> \in Text
         /\ Blocks(vs) \in Text /\ Blocks(vs) \o <<File!Close(8)>> \in Text
  <1> DEFINE o == File!Opens(p)
             c == File!Close(8)
             b == Blocks(vs)
  <1>1. o \in TextLine /\ c \in TextLine
    BY DEF TextLine, File!Opens, File!Close
  <1>2. b \in Text
    BY BlocksAreText
  <1> HIDE DEF o, c, b
  <1>3. <<o>> \in Text /\ <<c>> \in Text
    BY <1>1 DEF Text
  <1>4. b \o <<c>> \in Text
    BY <1>2, <1>3, ConcatProperties DEF Text
  <1> DEFINE bc == b \o <<c>>
  <1> HIDE DEF bc
  <1>5. <<o>> \o bc \in Text
    BY <1>3, <1>4, ConcatProperties DEF Text, bc
  <1> QED
    BY <1>1, <1>2, <1>3, <1>4, <1>5 DEF o, c, b, bc, Section

\* A descriptor is written one platform after the other.
LEMMA RenderedSteps ==
  ASSUME NEW order, Ordered(order), NEW versions \in VersionLists
  PROVE  /\ Rendered(order, versions) \in Text
         /\ Len(order) \in Nat
         /\ \A i \in 1 .. Len(order) : order[i] \in ToSet(Platforms)
         /\ [i \in 1 .. Len(order) |-> Section(order[i], versions[order[i]])] \in Seq(Text)
         /\ Len([i \in 1 .. Len(order) |-> Section(order[i], versions[order[i]])]) = Len(order)
         /\ Rendered(order, versions)
              = FlattenSeq([i \in 1 .. Len(order) |-> Section(order[i], versions[order[i]])])
         /\ \E f \in [0 .. Len(order) -> Text] :
              /\ f[0] = << >>
              /\ \A i \in 1 .. Len(order) :
                   f[i] = f[i - 1] \o Section(order[i], versions[order[i]])
              /\ f[Len(order)] = Rendered(order, versions)
  <1> DEFINE sections == [i \in 1 .. Len(order) |-> Section(order[i], versions[order[i]])]
  <1>0. Len(order) \in Nat /\ \A i \in 1 .. Len(order) : order[i] \in ToSet(Platforms)
    BY LenProperties, ElementOfSeq DEF Ordered
  <1>1. \A i \in 1 .. Len(order) : Section(order[i], versions[order[i]]) \in Text
    <2> SUFFICES ASSUME NEW i \in 1 .. Len(order)
                 PROVE  Section(order[i], versions[order[i]]) \in Text
      OBVIOUS
    <2>1. order[i] \in ToSet(Platforms) /\ versions[order[i]] \in Seq(AnyEntries)
      BY <1>0 DEF VersionLists
    <2> QED
      BY <2>1, SectionLines
  <1>2. sections \in [1 .. Len(order) -> Text]
    BY <1>1
  <1>3. \A i \in 1 .. Len(order) : sections[i] = Section(order[i], versions[order[i]])
    OBVIOUS
  <1>4. Rendered(order, versions) = FlattenSeq(sections)
    BY DEF Rendered, Section
  <1> HIDE DEF sections
  <1>5. sections \in Seq(Text) /\ Len(sections) = Len(order)
    BY <1>0, <1>2, FunctionIsSeq
  <1>6. FlattenSeq(sections) \in Text
    BY <1>5, FlattenIsSeq DEF Text
  <1>7. PICK f \in [0 .. Len(sections) -> Text] :
          /\ f[0] = << >>
          /\ \A i \in 1 .. Len(sections) : f[i] = f[i - 1] \o sections[i]
          /\ f[Len(sections)] = FlattenSeq(sections)
    BY <1>5, FlattenSteps DEF Text
  <1>8. \E g \in [0 .. Len(order) -> Text] :
          /\ g[0] = << >>
          /\ \A i \in 1 .. Len(order) :
               g[i] = g[i - 1] \o Section(order[i], versions[order[i]])
          /\ g[Len(order)] = Rendered(order, versions)
    BY <1>3, <1>4, <1>5, <1>7
  <1> QED
    BY <1>0, <1>4, <1>5, <1>6, <1>8 DEF sections

\* The versions that are left when one is removed everywhere.
Remaining(versions, key) == [p \in ToSet(Platforms) |-> Others(versions[p], key)]

\* What remove_entry keeps of the lines of a platform.
LEMMA KeepsOfSection ==
  ASSUME NEW p \in ToSet(Platforms), NEW vs \in Seq(AnyEntries), NEW key
  PROVE  KeepsOf(key, Section(p, vs), Section(p, Others(vs, key)))
  <1> DEFINE o == <<File!Opens(p)>>
             c == <<File!Close(8)>>
             a == Blocks(vs)
             b == Blocks(Others(vs, key))
  <1>1. Others(vs, key) \in Seq(AnyEntries)
    BY OthersSteps
  <1>2. o \in Text /\ c \in Text /\ a \in Text /\ b \in Text
        /\ a \o c \in Text /\ b \o c \in Text
    BY <1>1, SectionLines
  <1>3. KeepsOf(key, o, o) /\ KeepsOf(key, c, c)
    <2>1. File!Opens(p) \in TextLine /\ File!Close(8) \in TextLine
      BY SectionLines
    <2>2. File!Opens(p).is # "version" /\ File!Close(8).is # "version"
      BY DEF File!Opens, File!Close
    <2> QED
      BY <2>1, <2>2, KeepsOfLine
  <1>4. KeepsOf(key, a, b)
    BY KeepsOfBlocks
  <1>5. Section(p, vs) = o \o (a \o c) /\ Section(p, Others(vs, key)) = o \o (b \o c)
    BY DEF Section
  <1> HIDE DEF o, c, a, b
  <1>6. KeepsOf(key, a \o c, b \o c)
    BY <1>2, <1>3, <1>4, KeepsOfBoth
  <1>7. KeepsOf(key, o \o (a \o c), o \o (b \o c))
    BY <1>2, <1>3, <1>6, KeepsOfBoth
  <1> QED
    BY <1>5, <1>7

\* remove_entry takes the version from every platform and leaves everything else.
LEMMA RemovedEverywhere ==
  ASSUME NEW order, Ordered(order), NEW versions \in VersionLists, NEW key
  PROVE  /\ Remaining(versions, key) \in VersionLists
         /\ File!RemoveEntry(Rendered(order, versions), key)
              = Rendered(order, Remaining(versions, key))
  <1> DEFINE rest == Remaining(versions, key)
             ss == [i \in 1 .. Len(order) |-> Section(order[i], versions[order[i]])]
             tt == [i \in 1 .. Len(order) |-> Section(order[i], rest[order[i]])]
             lines == Rendered(order, versions)
             kept == Rendered(order, rest)
  <1>1. rest \in VersionLists
    <2>1. \A p \in ToSet(Platforms) : Others(versions[p], key) \in Seq(AnyEntries)
      BY OthersSteps DEF VersionLists
    <2> QED
      BY <2>1 DEF Remaining, VersionLists
  <1>2. \A p \in ToSet(Platforms) : rest[p] = Others(versions[p], key)
    BY DEF Remaining
  <1> HIDE DEF rest
  <1>3. /\ \A i \in 1 .. Len(order) : order[i] \in ToSet(Platforms)
        /\ ss \in Seq(Text) /\ Len(ss) = Len(order)
        /\ lines \in Text /\ lines = FlattenSeq(ss)
    BY RenderedSteps
  <1>4. tt \in Seq(Text) /\ Len(tt) = Len(order) /\ kept \in Text /\ kept = FlattenSeq(tt)
    BY <1>1, RenderedSteps
  <1>5. \A i \in 1 .. Len(order) : /\ ss[i] = Section(order[i], versions[order[i]])
                                   /\ tt[i] = Section(order[i], rest[order[i]])
    OBVIOUS
  <1> HIDE DEF ss, tt, lines, kept
  <1>6. ASSUME NEW i \in 1 .. Len(order) PROVE KeepsOf(key, ss[i], tt[i])
    <2>1. order[i] \in ToSet(Platforms) /\ versions[order[i]] \in Seq(AnyEntries)
      BY <1>3 DEF VersionLists
    <2>2. rest[order[i]] = Others(versions[order[i]], key)
      BY <2>1, <1>2
    <2> QED
      BY <2>1, <2>2, <1>5, KeepsOfSection
  <1>7. KeepsOf(key, lines, kept)
    BY <1>3, <1>4, <1>6, KeepsOfFlatten
  <1>8. PICK f : Keeps(lines, key, f) /\ f[1] = File!RemoveEntry(lines, key)
    BY <1>3, RemovalSteps
  <1>9. << >> \in Text /\ Len(<< >>) = 0 /\ << >> \o (lines \o << >>) = lines
    <2>1. << >> \in Text /\ Len(<< >>) = 0
      BY EmptySeq DEF Text
    <2>2. lines \o << >> = lines /\ << >> \o lines = lines
      BY <1>3, ConcatEmptySeq DEF Text
    <2> QED
      BY <2>1, <2>2
  <1>10. f[Len(<< >>) + 1] = kept \o f[Len(<< >>) + Len(lines) + 1]
    <2>1. Keeps(<< >> \o (lines \o << >>), key, f)
      BY <1>8, <1>9
    <2> QED
      BY <2>1, <1>7, <1>9 DEF KeepsOf
  <1>11. Len(lines) \in Nat /\ f[Len(lines) + 1] = << >>
    BY <1>3, <1>8, LenProperties DEF Text, Keeps
  <1>12. f[1] = kept \o << >>
    <2>1. 0 + 1 = 1 /\ 0 + Len(lines) + 1 = Len(lines) + 1
      BY <1>11
    <2>2. f[0 + 1] = kept \o f[0 + Len(lines) + 1]
      BY <1>9, <1>10
    <2> QED
      BY <2>1, <2>2, <1>11
  <1>13. kept \o << >> = kept
    BY <1>4, ConcatEmptySeq DEF Text
  <1> QED
    BY <1>1, <1>8, <1>12, <1>13 DEF lines, kept, rest

-----------------------------------------------------------------------------
\* No line opens the platform.
Lacks(lines, p) == \A i \in 1 .. Len(lines) : ~(lines[i].is = "platform" /\ lines[i].name = p)

\* Two parts without the platform, one behind the other.
LEMMA LacksBoth ==
  ASSUME NEW a \in Text, NEW b \in Text, NEW p, Lacks(a, p), Lacks(b, p)
  PROVE  Lacks(a \o b, p)
  <1> DEFINE ab == a \o b
  <1>1. /\ Len(ab) = Len(a) + Len(b) /\ Len(a) \in Nat /\ Len(b) \in Nat
        /\ \A i \in 1 .. Len(a) + Len(b) : ab[i] = IF i <= Len(a) THEN a[i] ELSE b[i - Len(a)]
    BY ConcatProperties, LenProperties DEF Text
  <1> HIDE DEF ab
  <1>2. ASSUME NEW i \in 1 .. Len(ab) PROVE ~(ab[i].is = "platform" /\ ab[i].name = p)
    <2>1. CASE i <= Len(a)
      <3>1. i \in 1 .. Len(a) /\ ab[i] = a[i]
        BY <2>1, <1>1
      <3> QED
        BY <3>1 DEF Lacks
    <2>2. CASE ~(i <= Len(a))
      <3>1. i - Len(a) \in 1 .. Len(b) /\ ab[i] = b[i - Len(a)]
        BY <2>2, <1>1
      <3> QED
        BY <3>1 DEF Lacks
    <2> QED
      BY <2>1, <2>2
  <1> QED
    BY <1>2 DEF Lacks, ab

\* The line of a platform is found where it is first.
LEMMA InsertedBelow ==
  ASSUME NEW p \in ToSet(Platforms), NEW a \in Text, NEW c \in Text, NEW block \in Text,
         Lacks(a, p)
  PROVE  LET lines == a \o (<<File!Opens(p)>> \o c)
         IN  /\ File!Places(lines, p) # {}
             /\ File!InsertAfterPlatform(lines, p, block)
                  = a \o (<<File!Opens(p)>> \o (block \o c))
  <1> DEFINE o == <<File!Opens(p)>>
             n == Len(a)
             lines == a \o (o \o c)
             S == File!Places(lines, p)
  <1>1. o \in Text /\ Len(o) = 1 /\ o[1].is = "platform" /\ o[1].name = p
    <2>1. /\ File!Opens(p) \in TextLine
          /\ File!Opens(p).is = "platform" /\ File!Opens(p).name = p
      BY DEF TextLine, File!Opens
    <2> DEFINE x == File!Opens(p)
    <2> HIDE DEF x
    <2>2. <<x>> \in Text /\ Len(<<x>>) = 1 /\ <<x>>[1] = x
      BY <2>1 DEF Text, x
    <2> QED
      BY <2>1, <2>2 DEF x
  <1> HIDE DEF o
  <1>2. /\ lines \in Text /\ Len(lines) = n + 1 + Len(c) /\ n \in Nat /\ Len(c) \in Nat
        /\ \A j \in 1 .. n : lines[j] = a[j]
        /\ lines[n + 1] = o[1]
        /\ \A j \in 1 .. Len(c) : lines[n + 1 + j] = c[j]
    <2>1. /\ a \o (o \o c) \in Text
          /\ Len(a \o (o \o c)) = Len(a) + Len(o) + Len(c)
          /\ Len(a) \in Nat /\ Len(c) \in Nat
          /\ \A j \in 1 .. Len(a) : (a \o (o \o c))[j] = a[j]
          /\ \A j \in 1 .. Len(o) : (a \o (o \o c))[Len(a) + j] = o[j]
          /\ \A j \in 1 .. Len(c) : (a \o (o \o c))[Len(a) + Len(o) + j] = c[j]
      <3>1. a \in Text /\ o \in Text /\ c \in Text
        BY <1>1
      <3> QED
        BY ONLY <3>1, Between
    <2>2. 1 \in 1 .. Len(o)
      BY <1>1
    <2> QED
      BY <2>1, <2>2, <1>1
  <1> HIDE DEF lines, n
  <1>3. S = {i \in 1 .. Len(lines) : lines[i].is = "platform" /\ lines[i].name = p}
    BY DEF File!Places
  <1>4. n + 1 \in S /\ S \in SUBSET Nat
    BY <1>1, <1>2, <1>3
  <1>5. ASSUME NEW y \in S PROVE n + 1 <= y
    <2>1. y \in 1 .. Len(lines) /\ lines[y].is = "platform" /\ lines[y].name = p
      BY <1>3
    <2>2. ASSUME y <= n PROVE FALSE
      <3>1. y \in 1 .. Len(a) /\ lines[y] = a[y]
        BY <2>1, <2>2, <1>2 DEF n
      <3> QED
        BY <3>1, <2>1 DEF Lacks
    <2> QED
      BY <2>1, <2>2, <1>2
  <1>6. File!Min(S) = n + 1
    <2> DEFINE P(x) == x \in S /\ \A y \in S : x <= y
    <2>1. P(n + 1)
      BY <1>4, <1>5
    <2>2. \A x : P(x) => x = n + 1
      <3> SUFFICES ASSUME NEW x, P(x) PROVE x = n + 1
        OBVIOUS
      <3>1. x <= n + 1 /\ n + 1 <= x /\ x \in Nat
        BY <1>4, <1>5
      <3> QED
        BY <3>1, <1>2
    <2>3. File!Min(S) = CHOOSE x : P(x)
      BY DEF File!Min
    <2> HIDE DEF P
    <2> QED
      BY <2>1, <2>2, <2>3
  <1>7. File!InsertAfterPlatform(lines, p, block)
          = SubSeq(lines, 1, n + 1) \o block \o SubSeq(lines, n + 1 + 1, Len(lines))
    BY <1>6 DEF File!InsertAfterPlatform
  <1> DEFINE front == SubSeq(lines, 1, n + 1)
             back == SubSeq(lines, n + 2, Len(lines))
             ao == a \o o
  <1>8. front = ao
    <2>1. ao \in Text /\ Len(ao) = n + 1 /\ \A i \in 1 .. n : ao[i] = a[i]
      <3>1. /\ ao \in Text /\ Len(ao) = Len(a) + Len(o)
            /\ \A i \in 1 .. Len(a) + Len(o) : ao[i] = IF i <= Len(a) THEN a[i] ELSE o[i - Len(a)]
        BY <1>1, ConcatProperties DEF Text
      <3> HIDE DEF ao
      <3> QED
        BY <3>1, <1>1, <1>2 DEF n
    <2>2. ao[n + 1] = o[1]
      <3>1. \A i \in 1 .. Len(a) + Len(o) : ao[i] = IF i <= Len(a) THEN a[i] ELSE o[i - Len(a)]
        BY <1>1, ConcatProperties DEF Text
      <3> HIDE DEF ao
      <3>2. n + 1 \in 1 .. Len(a) + Len(o) /\ ~(n + 1 <= Len(a)) /\ (n + 1) - Len(a) = 1
        BY <1>1, <1>2 DEF n
      <3> QED
        BY <3>1, <3>2
    <2>3. \A i \in 1 .. n + 1 : lines[i] \in TextLine
      BY <1>2, ElementOfSeq DEF Text
    <2>4. /\ front \in Text /\ Len(front) = n + 1
          /\ \A i \in 1 .. n + 1 : front[i] = lines[i]
      <3>1. 1 <= n + 1 /\ (n + 1) - 1 + 1 = n + 1 /\ 1 \in Int /\ n + 1 \in Int
        BY <1>2
      <3>2. /\ front \in Text /\ Len(front) = IF 1 <= n + 1 THEN (n + 1) - 1 + 1 ELSE 0
            /\ \A i \in 1 .. (n + 1) - 1 + 1 : front[i] = lines[1 + i - 1]
        BY <2>3, <3>1, SubSeqProperties DEF Text
      <3> HIDE DEF front
      <3>3. \A i \in 1 .. n + 1 : 1 + i - 1 = i
        BY <1>2
      <3> QED
        BY <3>1, <3>2, <3>3
    <2> HIDE DEF front, ao
    <2>5. ASSUME NEW i \in 1 .. n + 1 PROVE front[i] = ao[i]
      <3>1. CASE i = n + 1
        BY <3>1, <2>2, <2>4, <1>2
      <3>2. CASE i # n + 1
        <4>1. i \in 1 .. n
          BY <3>2, <1>2
        <4> QED
          BY <4>1, <2>1, <2>4, <1>2
      <3> QED
        BY <3>1, <3>2
    <2> QED
      BY <2>1, <2>4, <2>5, SeqEqual DEF Text
  <1>9. back = c
    <2>1. ASSUME NEW i \in n + 2 .. Len(lines) PROVE lines[i] \in TextLine
      <3>1. i \in 1 .. Len(lines)
        BY <1>2
      <3> QED
        BY <3>1, <1>2, ElementOfSeq DEF Text
    <2>2. n + 2 \in Int /\ Len(lines) \in Int /\ Len(lines) - (n + 2) + 1 = Len(c)
      BY <1>2
    <2>3. /\ back \in Text
          /\ Len(back) = IF n + 2 <= Len(lines) THEN Len(lines) - (n + 2) + 1 ELSE 0
          /\ \A i \in 1 .. Len(lines) - (n + 2) + 1 : back[i] = lines[n + 2 + i - 1]
      BY <2>1, <2>2, SubSeqProperties DEF Text
    <2> HIDE DEF back
    <2>4. Len(back) = Len(c)
      BY <1>2, <2>2, <2>3
    <2>5. ASSUME NEW i \in 1 .. Len(c) PROVE back[i] = c[i]
      <3>1. n + 2 + i - 1 = n + 1 + i
        BY <1>2
      <3>2. back[i] = lines[n + 2 + i - 1]
        BY <2>2, <2>3
      <3> QED
        BY <3>1, <3>2, <1>2
    <2> QED
      BY <2>3, <2>4, <2>5, SeqEqual DEF Text
  <1>10. n + 1 + 1 = n + 2
    BY <1>2
  <1>11. File!InsertAfterPlatform(lines, p, block) = (ao \o block) \o c
    BY <1>7, <1>8, <1>9, <1>10
  <1>12. (ao \o block) \o c = a \o (o \o (block \o c))
    <2>1. ao \in Text /\ block \o c \in Text
      BY <1>1, ConcatProperties DEF Text
    <2>2. (ao \o block) \o c = ao \o (block \o c)
      BY <2>1, ConcatAssociative DEF Text
    <2> DEFINE bc == block \o c
    <2> HIDE DEF bc
    <2>3. (a \o o) \o bc = a \o (o \o bc)
      <3>1. bc \in Text
        BY <2>1 DEF bc
      <3> QED
        BY <3>1, <1>1, ConcatAssociative DEF Text
    <2> QED
      BY <2>2, <2>3 DEF bc
  <1> QED
    BY <1>4, <1>11, <1>12 DEF lines, o

\* Parts in a row without the platform.
LEMMA LacksAll ==
  ASSUME NEW ss \in Seq(Text), NEW p, \A i \in 1 .. Len(ss) : Lacks(ss[i], p)
  PROVE  Lacks(FlattenSeq(ss), p)
  <1> DEFINE n == Len(ss)
  <1>0. n \in Nat /\ \A i \in 1 .. n : ss[i] \in Text
    BY LenProperties, ElementOfSeq
  <1>1. PICK f \in [0 .. n -> Text] :
          /\ f[0] = << >>
          /\ \A i \in 1 .. n : f[i] = f[i - 1] \o ss[i]
          /\ f[n] = FlattenSeq(ss)
    BY FlattenSteps DEF Text
  <1> DEFINE D == {m \in Nat : m <= n => Lacks(f[m], p)}
  <1>2. 0 \in D
    BY <1>1 DEF Lacks
  <1>3. ASSUME NEW m \in D PROVE m + 1 \in D
    <2> SUFFICES ASSUME m + 1 <= n PROVE Lacks(f[m + 1], p)
      OBVIOUS
    <2>1. m + 1 \in 1 .. n /\ (m + 1) - 1 = m /\ m \in 0 .. n /\ Lacks(f[m], p)
      BY <1>0
    <2>2. f[m] \in Text /\ ss[m + 1] \in Text /\ Lacks(ss[m + 1], p)
      BY <2>1, <1>0
    <2>3. f[m + 1] = f[m] \o ss[m + 1]
      BY <2>1, <1>1
    <2> DEFINE a == f[m]
               c == ss[m + 1]
    <2> HIDE DEF a, c
    <2>4. Lacks(a \o c, p)
      BY <2>1, <2>2, LacksBoth DEF a, c
    <2> QED
      BY <2>3, <2>4 DEF a, c
  <1> HIDE DEF D
  <1>4. D = Nat
    BY <1>2, <1>3, SetInduction DEF D
  <1> QED
    BY <1>0, <1>1, <1>4 DEF D

\* Only the part of a platform opens it.
LEMMA LacksOfSection ==
  ASSUME NEW q \in ToSet(Platforms), NEW vs \in Seq(AnyEntries), NEW p
  PROVE  /\ Lacks(Blocks(vs) \o <<File!Close(8)>>, p)
         /\ q # p => Lacks(Section(q, vs), p)
  <1> DEFINE o == <<File!Opens(q)>>
             c == <<File!Close(8)>>
             b == Blocks(vs)
             blocks == [i \in 1 .. Len(vs) |-> Block(vs[i])]
  <1>1. o \in Text /\ c \in Text /\ b \in Text /\ b \o c \in Text
    BY SectionLines
  <1>2. blocks \in Seq(Text) /\ Len(blocks) = Len(vs)
    BY BlocksAreText
  <1>3. (\A i \in 1 .. Len(vs) : blocks[i] = Block(vs[i])) /\ b = FlattenSeq(blocks)
    BY DEF Blocks
  <1>4. Section(q, vs) = o \o (b \o c)
    BY DEF Section
  <1>5. Lacks(c, p)
    <2>1. File!Close(8).is # "platform"
      BY DEF File!Close
    <2> DEFINE x == File!Close(8)
    <2> HIDE DEF x
    <2>2. Len(<<x>>) = 1 /\ <<x>>[1] = x
      OBVIOUS
    <2>3. \A i \in 1 .. 1 : i = 1
      OBVIOUS
    <2> QED
      BY <2>1, <2>2, <2>3 DEF Lacks, x
  <1>6. ASSUME q # p PROVE Lacks(o, p)
    <2>1. File!Opens(q).name = q
      BY DEF File!Opens
    <2> DEFINE x == File!Opens(q)
    <2> HIDE DEF x
    <2>2. Len(<<x>>) = 1 /\ <<x>>[1] = x
      OBVIOUS
    <2>3. \A i \in 1 .. 1 : i = 1
      OBVIOUS
    <2> QED
      BY <2>1, <2>2, <2>3, <1>6 DEF Lacks, x
  <1> HIDE DEF o, c, b, blocks
  <1>7. ASSUME NEW i \in 1 .. Len(blocks) PROVE Lacks(blocks[i], p)
    <2>1. vs[i] \in AnyEntries /\ blocks[i] = Block(vs[i])
      BY <1>2, <1>3, ElementOfSeq
    <2> DEFINE v == vs[i]
    <2> HIDE DEF v
    <2>2. v \in AnyEntries
      BY <2>1 DEF v
    <2>3. /\ Len(Block(v)) = 5
          /\ Block(v)[1] = File!Header(v.key, v.indent)
          /\ Block(v)[2].is = "url" /\ Block(v)[4].is = "sha256"
          /\ Block(v)[3] = File!Close(v.indent + 4) /\ Block(v)[5] = File!Close(v.indent)
      BY <2>2, BlockLines
    <2>4. /\ File!Header(v.key, v.indent).is = "version"
          /\ File!Close(v.indent + 4).is = "close" /\ File!Close(v.indent).is = "close"
      BY DEF File!Header, File!Close
    <2>5. \A k \in 1 .. 5 : k = 1 \/ k = 2 \/ k = 3 \/ k = 4 \/ k = 5
      OBVIOUS
    <2>6. \A k \in 1 .. 5 : Block(v)[k].is # "platform"
      BY <2>3, <2>4, <2>5
    <2>7. Lacks(Block(v), p)
      BY <2>3, <2>6 DEF Lacks
    <2> QED
      BY <2>1, <2>7 DEF v
  <1>8. Lacks(b, p)
    BY <1>2, <1>3, <1>7, LacksAll
  <1>9. Lacks(b \o c, p)
    BY <1>1, <1>5, <1>8, LacksBoth
  <1>10. ASSUME q # p PROVE Lacks(o \o (b \o c), p)
    BY <1>1, <1>6, <1>9, <1>10, LacksBoth
  <1> QED
    BY <1>4, <1>9, <1>10 DEF b, c

\* A platform that is not listed is not found.
LEMMA UnlistedIsMissing ==
  ASSUME NEW order, Ordered(order), NEW versions \in VersionLists, NEW p, p \notin ToSet(order)
  PROVE  File!Places(Rendered(order, versions), p) = {}
  <1> DEFINE ss == [i \in 1 .. Len(order) |-> Section(order[i], versions[order[i]])]
             lines == Rendered(order, versions)
  <1>1. /\ \A i \in 1 .. Len(order) : order[i] \in ToSet(Platforms)
        /\ ss \in Seq(Text) /\ Len(ss) = Len(order)
        /\ lines \in Text /\ lines = FlattenSeq(ss)
    BY RenderedSteps
  <1>2. \A i \in 1 .. Len(order) : ss[i] = Section(order[i], versions[order[i]])
    OBVIOUS
  <1>3. \A i \in 1 .. Len(order) : order[i] # p
    BY LenProperties DEF ToSet, Ordered
  <1> HIDE DEF ss, lines
  <1>4. ASSUME NEW i \in 1 .. Len(ss) PROVE Lacks(ss[i], p)
    <2>1. order[i] \in ToSet(Platforms) /\ versions[order[i]] \in Seq(AnyEntries) /\ order[i] # p
      BY <1>1, <1>3 DEF VersionLists
    <2> QED
      BY <2>1, <1>1, <1>2, LacksOfSection
  <1>5. Lacks(lines, p)
    BY <1>1, <1>4, LacksAll
  <1> QED
    BY <1>5 DEF Lacks, File!Places, lines

\* The versions with one more, first on a platform.
WithFirst(versions, p, v) == [versions EXCEPT ![p] = <<v>> \o @]

\* insert_after_platform puts an entry first on a platform that is listed.
LEMMA ListedIsInserted ==
  ASSUME NEW order, Ordered(order), NEW versions \in VersionLists, NEW v \in AnyEntries,
         NEW p \in ToSet(order)
  PROVE  /\ WithFirst(versions, p, v) \in VersionLists
         /\ File!Places(Rendered(order, versions), p) # {}
         /\ File!InsertAfterPlatform(Rendered(order, versions), p, Block(v))
              = Rendered(order, WithFirst(versions, p, v))
  <1> DEFINE N == Len(order)
             new == WithFirst(versions, p, v)
             before == Rendered(order, versions)
             after == Rendered(order, new)
             o == <<File!Opens(p)>>
             block == Block(v)
             vs == versions[p]
             tail == Blocks(vs) \o <<File!Close(8)>>
  <1>0. /\ N \in Nat
        /\ \A i \in 1 .. N : order[i] \in ToSet(Platforms)
        /\ before \in Text
    BY RenderedSteps
  <1>1. PICK j \in 1 .. N : order[j] = p
    BY LenProperties DEF ToSet, Ordered
  <1>2. \A i \in 1 .. N : i # j => order[i] # p
    <2>1. DOMAIN order = 1 .. N
      BY LenProperties DEF Ordered
    <2> QED
      BY <2>1, <1>1 DEF IsInjective, Ordered
  <1>3. p \in ToSet(Platforms) /\ vs \in Seq(AnyEntries)
    BY <1>0, <1>1 DEF VersionLists
  <1>4. <<v>> \in Seq(AnyEntries)
    OBVIOUS
  <1>5. <<v>> \o vs \in Seq(AnyEntries)
    <2> HIDE DEF vs
    <2> QED
      BY <1>3, <1>4, ConcatProperties
  <1>6. /\ new \in VersionLists /\ new[p] = <<v>> \o vs
        /\ \A q \in ToSet(Platforms) : q # p => new[q] = versions[q]
    BY <1>3, <1>5 DEF WithFirst, VersionLists
  <1> HIDE DEF new
  <1>7. PICK f \in [0 .. N -> Text] :
          /\ f[0] = << >>
          /\ \A i \in 1 .. N : f[i] = f[i - 1] \o Section(order[i], versions[order[i]])
          /\ f[N] = before
    BY RenderedSteps
  <1>8. PICK g \in [0 .. N -> Text] :
          /\ g[0] = << >>
          /\ \A i \in 1 .. N : g[i] = g[i - 1] \o Section(order[i], new[order[i]])
          /\ g[N] = after
    BY <1>6, RenderedSteps
  <1>9. /\ o \in Text /\ tail \in Text /\ block \in Text
        /\ Section(p, vs) = o \o tail /\ Section(p, <<v>> \o vs) = o \o (block \o tail)
    <2>1. o \in Text /\ tail \in Text /\ Blocks(vs) \in Text /\ <<File!Close(8)>> \in Text
      BY <1>3, SectionLines
    <2>2. block \in Text
      BY BlockLines
    <2>3. Section(p, vs) = o \o tail
      BY DEF Section
    <2>4. Blocks(<<v>> \o vs) = block \o Blocks(vs)
      <3>1. Blocks(<<v>>) = block
        BY BlocksOfOne
      <3> HIDE DEF vs, block
      <3>2. Blocks(<<v>> \o vs) = Blocks(<<v>>) \o Blocks(vs)
        BY <1>3, <1>4, BlocksConcat
      <3> QED
        BY <3>1, <3>2
    <2> DEFINE b == Blocks(vs)
               c == <<File!Close(8)>>
    <2>5. Section(p, <<v>> \o vs) = o \o ((block \o b) \o c)
      BY <2>4 DEF Section
    <2>6. tail = b \o c
      OBVIOUS
    <2> HIDE DEF b, c, block, tail
    <2>7. (block \o b) \o c = block \o (b \o c)
      <3>1. b \in Text /\ c \in Text
        BY <2>1 DEF b, c
      <3> QED
        BY <2>2, <3>1, ConcatAssociative DEF Text
    <2> QED
      BY <2>1, <2>2, <2>3, <2>5, <2>6, <2>7
  <1>10. Lacks(tail, p)
    BY <1>3, LacksOfSection
  <1> HIDE DEF o, tail, block, vs, N, before, after
  <1> DEFINE Splits(m) == \E a, c \in Text :
               /\ Lacks(a, p)
               /\ f[m] = a \o (o \o c)
               /\ g[m] = a \o (o \o (block \o c))
             D == {m \in Nat : m <= N =>
                     IF m < j THEN f[m] = g[m] /\ Lacks(f[m], p) ELSE Splits(m)}
  <1>11. 0 \in D
    <2>1. 0 < j /\ Lacks(<< >>, p)
      BY <1>0, <1>1 DEF Lacks
    <2> QED
      BY <2>1, <1>7, <1>8
  <1>12. ASSUME NEW m \in D PROVE m + 1 \in D
    <2> SUFFICES ASSUME m + 1 <= N
                 PROVE  IF m + 1 < j THEN f[m + 1] = g[m + 1] /\ Lacks(f[m + 1], p)
                        ELSE Splits(m + 1)
      <3> HIDE DEF Splits
      <3> QED
        OBVIOUS
    <2>1. /\ m + 1 \in 1 .. N /\ (m + 1) - 1 = m /\ m \in 0 .. N /\ m \in Nat
          /\ IF m < j THEN f[m] = g[m] /\ Lacks(f[m], p) ELSE Splits(m)
      <3> HIDE DEF Splits
      <3> QED
        BY <1>0
    <2> DEFINE q == order[m + 1]
               a == f[m]
               s == Section(q, versions[q])
    <2>2. q \in ToSet(Platforms) /\ versions[q] \in Seq(AnyEntries)
      BY <2>1, <1>0 DEF VersionLists
    <2>3. a \in Text /\ g[m] \in Text
      BY <2>1
    <2>4. f[m + 1] = a \o s /\ g[m + 1] = g[m] \o Section(q, new[q])
      BY <2>1, <1>7, <1>8
    <2>5. s \in Text /\ (q # p => Lacks(s, p))
      BY <2>2, SectionLines, LacksOfSection
    <2>6. q # p => Section(q, new[q]) = s
      BY <2>2, <1>6
    <2>7. (m + 1 = j) <=> (q = p)
      BY <2>1, <1>1, <1>2
    <2>8. q = p => s = o \o tail /\ Section(q, new[q]) = o \o (block \o tail)
      BY <1>6, <1>9 DEF vs
    <2> HIDE DEF q, a, s
    <2>9. CASE m + 1 < j
      <3>1. m < j /\ q # p
        BY <2>1, <2>7, <2>9
      <3>2. g[m] = a /\ Lacks(a, p)
        BY <3>1, <2>1 DEF a
      <3>3. Lacks(a \o s, p)
        BY <3>1, <3>2, <2>3, <2>5, LacksBoth
      <3> QED
        BY <3>1, <3>2, <3>3, <2>4, <2>6, <2>9
    <2>10. CASE m + 1 = j
      <3>1. m < j /\ q = p
        BY <2>1, <2>7, <2>10
      <3>2. g[m] = a /\ Lacks(a, p)
        BY <3>1, <2>1 DEF a
      <3>3. f[m + 1] = a \o (o \o tail) /\ g[m + 1] = a \o (o \o (block \o tail))
        BY <3>1, <3>2, <2>4, <2>8
      <3>4. Splits(m + 1)
        BY <3>2, <3>3, <2>3, <1>9
      <3>5. ~(m + 1 < j)
        BY <2>1, <2>10
      <3> HIDE DEF Splits
      <3> QED
        BY <3>4, <3>5
    <2>11. CASE m + 1 > j
      <3>1. ~(m < j) /\ ~(m + 1 < j) /\ q # p
        BY <2>1, <2>7, <2>11
      <3>2. PICK x \in Text, c \in Text : /\ Lacks(x, p)
                                          /\ a = x \o (o \o c)
                                          /\ g[m] = x \o (o \o (block \o c))
        BY <3>1, <2>1 DEF a
      <3> DEFINE cs == c \o s
      <3>3. cs \in Text
        BY <2>5, ConcatProperties DEF Text
      <3>4. a \o s = x \o (o \o cs)
        <4> DEFINE oc == o \o c
        <4>1. oc \in Text
          BY <1>9, ConcatProperties DEF Text
        <4>2. oc \o s = o \o (c \o s)
          <5>1. o \in Text /\ c \in Text /\ s \in Text
            BY <1>9, <2>5
          <5> QED
            BY ONLY <5>1, ConcatAssociative DEF Text, oc
        <4> HIDE DEF oc
        <4>3. (x \o oc) \o s = x \o (oc \o s)
          BY <4>1, <2>5, ConcatAssociative DEF Text
        <4> QED
          BY <3>2, <4>2, <4>3 DEF oc
      <3>5. g[m] \o s = x \o (o \o (block \o cs))
        <4> DEFINE bc == block \o c
                   obc == o \o bc
        <4>1. bc \in Text
          BY <1>9, ConcatProperties DEF Text
        <4>2. bc \o s = block \o (c \o s)
          <5>1. block \in Text /\ c \in Text /\ s \in Text
            BY <1>9, <2>5
          <5> QED
            BY ONLY <5>1, ConcatAssociative DEF Text, bc
        <4> HIDE DEF bc
        <4>3. obc \in Text
          BY <1>9, <4>1, ConcatProperties DEF Text
        <4>4. obc \o s = o \o (bc \o s)
          <5>1. o \in Text /\ bc \in Text /\ s \in Text
            BY <1>9, <4>1, <2>5
          <5> QED
            BY ONLY <5>1, ConcatAssociative DEF Text, obc
        <4> HIDE DEF obc
        <4>5. (x \o obc) \o s = x \o (obc \o s)
          BY <4>3, <2>5, ConcatAssociative DEF Text
        <4> QED
          BY <3>2, <4>2, <4>4, <4>5 DEF bc, obc
      <3> HIDE DEF cs
      <3>6. f[m + 1] = x \o (o \o cs) /\ g[m + 1] = x \o (o \o (block \o cs))
        BY <3>1, <3>4, <3>5, <2>4, <2>6
      <3>7. Splits(m + 1)
        BY <3>2, <3>3, <3>6
      <3> HIDE DEF Splits
      <3> QED
        BY <3>1, <3>7
    <2>12. m + 1 < j \/ m + 1 = j \/ m + 1 > j
      BY <2>1, <1>0, <1>1
    <2> HIDE DEF Splits
    <2> QED
      BY <2>9, <2>10, <2>11, <2>12
  <1> HIDE DEF D
  <1>13. D = Nat
    BY <1>11, <1>12, SetInduction DEF D
  <1>14. Splits(N)
    <2>1. N \in D /\ N <= N /\ ~(N < j)
      BY <1>0, <1>1, <1>13
    <2> HIDE DEF Splits
    <2> QED
      BY <2>1 DEF D
  <1>15. PICK a \in Text, c \in Text : /\ Lacks(a, p)
                                       /\ before = a \o (o \o c)
                                       /\ after = a \o (o \o (block \o c))
    BY <1>7, <1>8, <1>14
  <1>16. /\ File!Places(before, p) # {}
         /\ File!InsertAfterPlatform(before, p, block) = a \o (o \o (block \o c))
    <2>1. p \in ToSet(Platforms) /\ block \in Text
      BY <1>3, <1>9
    <2>2. LET lines == a \o (<<File!Opens(p)>> \o c)
          IN  /\ File!Places(lines, p) # {}
              /\ File!InsertAfterPlatform(lines, p, block)
                   = a \o (<<File!Opens(p)>> \o (block \o c))
      BY <2>1, <1>15, InsertedBelow
    <2> QED
      BY <2>2, <1>15 DEF o
  <1> QED
    BY <1>6, <1>15, <1>16 DEF before, after, new, block

-----------------------------------------------------------------------------
\* The entry of a release.
NewEntry(key) == [key |-> key, archive |-> "new", indent |-> 12]

\* The versions when the first n platforms have the release.
FirstHave(versions, key, n) ==
  [p \in ToSet(Platforms) |-> IF \E i \in 1 .. n : Platforms[i] = p THEN Added(versions[p], key)
                              ELSE Others(versions[p], key)]

\* The next platform gets the release.
LEMMA OneMoreHas ==
  ASSUME Ordered(Platforms), NEW versions \in VersionLists, NEW key \in STRING,
         NEW n \in Nat, n + 1 <= Len(Platforms),
         FirstHave(versions, key, n) \in VersionLists
  PROVE  FirstHave(versions, key, n + 1)
           = WithFirst(FirstHave(versions, key, n), Platforms[n + 1], NewEntry(key))
  <1> DEFINE P == ToSet(Platforms)
             old == FirstHave(versions, key, n)
             new == FirstHave(versions, key, n + 1)
             q == Platforms[n + 1]
  <1>1. /\ Len(Platforms) \in Nat /\ DOMAIN Platforms = 1 .. Len(Platforms)
        /\ n + 1 \in 1 .. Len(Platforms)
    BY LenProperties DEF Ordered
  <1>2. q \in P
    BY <1>1 DEF ToSet
  <1>3. \A i \in 1 .. n : Platforms[i] # q
    <2> SUFFICES ASSUME NEW i \in 1 .. n, Platforms[i] = q PROVE FALSE
      OBVIOUS
    <2>1. i \in DOMAIN Platforms /\ n + 1 \in DOMAIN Platforms /\ i # n + 1
      BY <1>1
    <2> QED
      BY <2>1 DEF IsInjective, Ordered
  <1> HIDE DEF q
  <1>4. old = [p \in P |-> IF \E i \in 1 .. n : Platforms[i] = p THEN Added(versions[p], key)
                           ELSE Others(versions[p], key)]
    BY DEF FirstHave
  <1>5. new = [p \in P |-> IF \E i \in 1 .. n + 1 : Platforms[i] = p THEN Added(versions[p], key)
                           ELSE Others(versions[p], key)]
    BY DEF FirstHave
  <1> HIDE DEF P, old, new
  <1>6. WithFirst(old, q, NewEntry(key))
          = [p \in P |-> IF p = q THEN <<NewEntry(key)>> \o old[q] ELSE old[p]]
    BY <1>2, <1>4 DEF WithFirst
  <1>7. old[q] = Others(versions[q], key)
    BY <1>2, <1>3, <1>4
  <1>8. Added(versions[q], key) = <<NewEntry(key)>> \o old[q]
    BY <1>7 DEF Added, NewEntry
  <1>9. ASSUME NEW p \in P
        PROVE  (\E i \in 1 .. n + 1 : Platforms[i] = p) <=> (p = q \/ \E i \in 1 .. n : Platforms[i] = p)
    <2>1. \A i : i \in 1 .. n + 1 <=> i \in 1 .. n \/ i = n + 1
      OBVIOUS
    <2> QED
      BY <2>1 DEF q
  <1>10. ASSUME NEW p \in P
         PROVE  new[p] = IF p = q THEN <<NewEntry(key)>> \o old[q] ELSE old[p]
    <2>1. new[p] = IF \E i \in 1 .. n + 1 : Platforms[i] = p THEN Added(versions[p], key)
                   ELSE Others(versions[p], key)
      BY <1>5
    <2>2. CASE p = q
      BY <2>1, <2>2, <1>8, <1>9
    <2>3. CASE p # q
      BY <2>1, <2>3, <1>4, <1>9
    <2> QED
      BY <2>2, <2>3
  <1>11. new = [p \in P |-> IF p = q THEN <<NewEntry(key)>> \o old[q] ELSE old[p]]
    BY <1>5, <1>10
  <1> QED
    BY <1>6, <1>11 DEF new, old, q

\* A descriptor that lists the platforms gets the release on each; others stay as they are.
LEMMA PatchedIsRendered ==
  ASSUME Ordered(Platforms), NEW order, Ordered(order), NEW versions \in VersionLists,
         NEW key \in STRING
  PROVE  File!Patched(Rendered(order, versions), key, "new")
           = Rendered(order, IF ToSet(Platforms) \subseteq ToSet(order)
                             THEN [p \in ToSet(Platforms) |-> Added(versions[p], key)]
                             ELSE versions)
  <1> DEFINE N == Len(Platforms)
             P == ToSet(Platforms)
             v == NewEntry(key)
             lines == Rendered(order, versions)
             rest == File!RemoveEntry(lines, key)
             next(f, n) == IF n = 0 THEN rest
                           ELSE File!InsertAfterPlatform(f[n - 1], Platforms[n], Block(v))
             after == CHOOSE f : f = [n \in 0 .. N |-> next(f, n)]
             W(n) == FirstHave(versions, key, n)
             found == \A i \in 1 .. N : File!Places(rest, Platforms[i]) # {}
  <1>0. N \in Nat /\ DOMAIN Platforms = 1 .. N
    BY LenProperties DEF Ordered
  <1>1. v \in AnyEntries
    BY DEF NewEntry, AnyEntries
  <1>2. Block(v) = File!VersionBlock(key, "new", 12)
    BY DEF Block, NewEntry
  <1>3. File!Patched(lines, key, "new") = IF found THEN after[N] ELSE lines
    <2> DEFINE block == File!VersionBlock(key, "new", 12)
    <2>1. File!Patched(lines, key, "new")
            = IF found THEN (CHOOSE f : f = [n \in 0 .. N |->
                               IF n = 0 THEN rest
                               ELSE File!InsertAfterPlatform(f[n - 1], Platforms[n], block)])[N]
              ELSE lines
      BY DEF File!Patched
    <2> QED
      BY <2>1, <1>2
  <1>4. rest = Rendered(order, W(0)) /\ W(0) \in VersionLists
    <2>1. W(0) = Remaining(versions, key)
      BY DEF FirstHave, Remaining
    <2> QED
      BY <2>1, RemovedEverywhere
  <1>5. found <=> P \subseteq ToSet(order)
    <2>1. ASSUME NEW i \in 1 .. N
          PROVE  File!Places(rest, Platforms[i]) # {} <=> Platforms[i] \in ToSet(order)
      <3> HIDE DEF W
      <3>1. CASE Platforms[i] \in ToSet(order)
        BY <3>1, <1>1, <1>4, ListedIsInserted
      <3>2. CASE Platforms[i] \notin ToSet(order)
        BY <3>2, <1>4, UnlistedIsMissing
      <3> QED
        BY <3>1, <3>2
    <2>2. P = {Platforms[i] : i \in 1 .. N}
      BY <1>0 DEF ToSet
    <2> HIDE DEF rest, P, N
    <2> QED
      BY <2>1, <2>2
  <1> SUFFICES ASSUME P \subseteq ToSet(order)
               PROVE  after[N] = Rendered(order, [p \in P |-> Added(versions[p], key)])
    <2> HIDE DEF found, after, lines, N, P
    <2>1. CASE P \subseteq ToSet(order)
      BY <2>1, <1>3, <1>5 DEF P, lines
    <2>2. CASE ~(P \subseteq ToSet(order))
      BY <2>2, <1>3, <1>5 DEF P, lines
    <2> QED
      BY <2>1, <2>2
  <1>6. ASSUME NEW n \in Nat, n + 1 <= N, W(n) \in VersionLists
        PROVE  /\ W(n + 1) \in VersionLists
               /\ File!InsertAfterPlatform(Rendered(order, W(n)), Platforms[n + 1], Block(v))
                    = Rendered(order, W(n + 1))
    <2> HIDE DEF W, v
    <2>1. Platforms[n + 1] \in ToSet(order)
      <3>1. n + 1 \in 1 .. N
        BY <1>0, <1>6
      <3> QED
        BY <3>1, <1>0 DEF ToSet
    <2>2. W(n + 1) = WithFirst(W(n), Platforms[n + 1], v)
      BY <1>6, OneMoreHas DEF W, v
    <2> DEFINE w == W(n)
               q == Platforms[n + 1]
    <2>3. w \in VersionLists /\ q \in ToSet(order)
      BY <2>1, <1>6
    <2> HIDE DEF w, q
    <2>4. /\ WithFirst(w, q, v) \in VersionLists
          /\ File!InsertAfterPlatform(Rendered(order, w), q, Block(v))
               = Rendered(order, WithFirst(w, q, v))
      BY <2>3, <1>1, ListedIsInserted
    <2> QED
      BY <2>2, <2>4 DEF w, q
  <1> HIDE DEF W, v
  <1> DEFINE D == {n \in Nat : n <= N => W(n) \in VersionLists}
  <1>7. 0 \in D
    BY <1>4
  <1>8. ASSUME NEW n \in D PROVE n + 1 \in D
    BY <1>0, <1>6
  <1> HIDE DEF D
  <1>9. D = Nat
    BY <1>7, <1>8, SetInduction DEF D
  <1>10. \A n \in 0 .. N : W(n) \in VersionLists
    BY <1>0, <1>9 DEF D
  <1> DEFINE h == [n \in 0 .. N |-> Rendered(order, W(n))]
             Eq(f) == f = [n \in 0 .. N |-> next(f, n)]
  <1>11. Eq(h)
    <2>1. ASSUME NEW n \in 0 .. N PROVE Rendered(order, W(n)) = next(h, n)
      <3>1. CASE n = 0
        BY <3>1, <1>4
      <3>2. CASE n # 0
        <4>1. n - 1 \in 0 .. N /\ n - 1 \in Nat /\ (n - 1) + 1 = n /\ (n - 1) + 1 <= N
          BY <3>2, <1>0
        <4>2. h[n - 1] = Rendered(order, W(n - 1))
          BY <4>1
        <4>3. File!InsertAfterPlatform(Rendered(order, W(n - 1)), Platforms[(n - 1) + 1], Block(v))
                = Rendered(order, W((n - 1) + 1))
          BY <4>1, <1>6, <1>10
        <4> HIDE DEF h
        <4> QED
          BY <3>2, <4>1, <4>2, <4>3
      <3> QED
        BY <3>1, <3>2
    <2> HIDE DEF next
    <2> QED
      BY <2>1
  <1>12. Eq(after)
    <2>1. after = CHOOSE f : Eq(f)
      OBVIOUS
    <2> HIDE DEF Eq, after, h
    <2> QED
      BY <2>1, <1>11
  <1> HIDE DEF after
  <1>13. \A n \in 0 .. N : after[n] = next(after, n)
    <2> HIDE DEF next
    <2> QED
      BY <1>12
  <1> DEFINE E == {n \in Nat : n <= N => after[n] = Rendered(order, W(n))}
  <1> HIDE DEF h, Eq
  <1>14. 0 \in E
    <2>1. 0 \in 0 .. N
      BY <1>0
    <2>2. after[0] = rest
      BY <2>1, <1>13
    <2> QED
      BY <2>2, <1>4
  <1>15. ASSUME NEW n \in E PROVE n + 1 \in E
    <2> SUFFICES ASSUME n + 1 <= N PROVE after[n + 1] = Rendered(order, W(n + 1))
      OBVIOUS
    <2>1. n \in Nat /\ n <= N /\ after[n] = Rendered(order, W(n))
      BY <1>0
    <2>2. n + 1 \in 0 .. N /\ n \in 0 .. N /\ n + 1 # 0 /\ (n + 1) - 1 = n
      BY <2>1, <1>0
    <2>3. after[n + 1] = File!InsertAfterPlatform(after[(n + 1) - 1], Platforms[n + 1], Block(v))
      BY <2>2, <1>13
    <2>4. File!InsertAfterPlatform(Rendered(order, W(n)), Platforms[n + 1], Block(v))
            = Rendered(order, W(n + 1))
      BY <2>1, <2>2, <1>6, <1>10
    <2> QED
      BY <2>1, <2>2, <2>3, <2>4
  <1> HIDE DEF E
  <1>16. E = Nat
    BY <1>14, <1>15, SetInduction DEF E
  <1>17. after[N] = Rendered(order, W(N))
    <2>1. N \in E /\ N <= N
      BY <1>0, <1>16
    <2> QED
      BY <2>1 DEF E
  <1>18. W(N) = [p \in P |-> Added(versions[p], key)]
    <2>1. \A p \in P : \E i \in 1 .. N : Platforms[i] = p
      BY <1>0 DEF ToSet
    <2>2. W(N) = [p \in P |-> IF \E i \in 1 .. N : Platforms[i] = p THEN Added(versions[p], key)
                              ELSE Others(versions[p], key)]
      BY DEF W, FirstHave
    <2> HIDE DEF P, N
    <2> QED
      BY <2>1, <2>2
  <1> QED
    BY <1>17, <1>18

\* The versions other than the key are those there were.
LEMMA OthersHold ==
  ASSUME NEW vs \in Seq(AnyEntries), NEW key
  PROVE  {Others(vs, key)[i] : i \in 1 .. Len(Others(vs, key))}
           = {w \in {vs[i] : i \in 1 .. Len(vs)} : w.key # key}
  <1> DEFINE n == Len(vs)
             In(s, w) == \E i \in 1 .. Len(s) : s[i] = w
  <1>0. n \in Nat /\ \A i \in 1 .. n : vs[i] \in AnyEntries
    BY LenProperties, ElementOfSeq
  <1>1. PICK f \in [0 .. n -> Seq(AnyEntries)] :
          /\ f[0] = << >>
          /\ \A i \in 1 .. n : f[i] = f[i - 1] \o OtherBlock(vs[i], key)
          /\ f[n] = Others(vs, key)
    BY OthersSteps
  <1> DEFINE D == {m \in Nat : m <= n =>
                     \A w : In(f[m], w) <=> w.key # key /\ \E i \in 1 .. m : vs[i] = w}
  <1>2. 0 \in D
    BY <1>1
  <1>3. ASSUME NEW m \in D PROVE m + 1 \in D
    <2> SUFFICES ASSUME m + 1 <= n, NEW w
                 PROVE  In(f[m + 1], w) <=> w.key # key /\ \E i \in 1 .. m + 1 : vs[i] = w
      OBVIOUS
    <2>1. m + 1 \in 1 .. n /\ (m + 1) - 1 = m /\ m \in 0 .. n /\ m \in Nat
      BY <1>0
    <2>2. In(f[m], w) <=> w.key # key /\ \E i \in 1 .. m : vs[i] = w
      BY <1>0
    <2> DEFINE a == f[m]
               x == vs[m + 1]
    <2>3. a \in Seq(AnyEntries) /\ x \in AnyEntries
      BY <2>1, <1>0
    <2>4. f[m + 1] = a \o OtherBlock(x, key)
      BY <2>1, <1>1
    <2>5. (\E i \in 1 .. m + 1 : vs[i] = w) <=> (\E i \in 1 .. m : vs[i] = w) \/ w = x
      <3>1. \A i : i \in 1 .. m + 1 <=> i \in 1 .. m \/ i = m + 1
        BY <2>1
      <3> QED
        BY <3>1
    <2>6. In(a, w) <=> w.key # key /\ \E i \in 1 .. m : vs[i] = w
      BY <2>2
    <2> HIDE DEF a, x
    <2>7. CASE x.key = key
      <3>1. f[m + 1] = a
        BY <2>3, <2>4, <2>7, ConcatEmptySeq DEF OtherBlock
      <3> QED
        BY <3>1, <2>5, <2>6, <2>7
    <2>8. CASE x.key # key
      <3>1. f[m + 1] = a \o <<x>>
        BY <2>4, <2>8 DEF OtherBlock
      <3>2. /\ Len(a \o <<x>>) = Len(a) + 1 /\ Len(a) \in Nat
            /\ \A i \in 1 .. Len(a) : (a \o <<x>>)[i] = a[i]
            /\ (a \o <<x>>)[Len(a) + 1] = x
        BY <2>3, BehindOne, LenProperties
      <3> DEFINE ax == a \o <<x>>
      <3> HIDE DEF ax
      <3>3. \A i : i \in 1 .. Len(a) + 1 <=> i \in 1 .. Len(a) \/ i = Len(a) + 1
        BY <3>2
      <3>4. In(ax, w) <=> In(a, w) \/ w = x
        BY <3>2, <3>3 DEF ax
      <3> QED
        BY <3>1, <3>4, <2>5, <2>6, <2>8 DEF ax
    <2> QED
      BY <2>7, <2>8
  <1> HIDE DEF D
  <1>4. D = Nat
    BY <1>2, <1>3, SetInduction DEF D
  <1>5. \A w : In(Others(vs, key), w) <=> w.key # key /\ \E i \in 1 .. n : vs[i] = w
    <2>1. n \in D /\ n <= n
      BY <1>0, <1>4
    <2>2. \A w : In(f[n], w) <=> w.key # key /\ \E i \in 1 .. n : vs[i] = w
      BY <2>1 DEF D
    <2> QED
      BY <2>2, <1>1
  <1> QED
    BY <1>5

\* With the release the versions of a platform are what the index lists behind the update.
LEMMA AddedIsUpdated ==
  ASSUME NEW vs \in Seq(AnyEntries), IsInjective(Keys(vs)), NEW key \in STRING
  PROVE  Listed(Added(vs, key)) = Index!Updated(Listed(vs), key, "new")
  <1> DEFINE v == NewEntry(key)
             other == Others(vs, key)
             all == Added(vs, key)
             at(s, k) == CHOOSE i \in 1 .. Len(s) : s[i].key = k
             keys(s) == {s[i].key : i \in 1 .. Len(s)}
             listing(s) == [k \in keys(s) |-> s[at(s, k)].archive]
  <1>0. v \in AnyEntries /\ v.key = key /\ v.archive = "new"
    BY DEF NewEntry, AnyEntries
  <1>1. other \in Seq(AnyEntries) /\ Len(other) \in Nat
    BY OthersSteps, LenProperties
  <1>2. {other[i] : i \in 1 .. Len(other)} = {w \in {vs[i] : i \in 1 .. Len(vs)} : w.key # key}
    BY OthersHold
  <1>3. all = <<v>> \o other
    BY DEF Added, NewEntry
  <1> HIDE DEF v, other, all
  <1>4. /\ all \in Seq(AnyEntries) /\ Len(all) = 1 + Len(other)
        /\ all[1] = v
        /\ \A i \in 1 .. Len(other) : all[i + 1] = other[i]
    <2>1. <<v>> \in Seq(AnyEntries) /\ Len(<<v>>) = 1 /\ <<v>>[1] = v
      BY <1>0
    <2> DEFINE a == <<v>>
    <2> HIDE DEF a
    <2>2. /\ a \o other \in Seq(AnyEntries) /\ Len(a \o other) = Len(a) + Len(other)
          /\ \A i \in 1 .. Len(a) + Len(other) :
               (a \o other)[i] = IF i <= Len(a) THEN a[i] ELSE other[i - Len(a)]
      BY <2>1, <1>1, ConcatProperties DEF a
    <2>3. /\ all \in Seq(AnyEntries) /\ Len(all) = 1 + Len(other)
          /\ \A i \in 1 .. 1 + Len(other) :
               all[i] = IF i <= 1 THEN a[i] ELSE other[i - 1]
      BY <2>1, <2>2, <1>3 DEF a
    <2>4. all[1] = a[1]
      BY <2>3, <1>1
    <2>5. ASSUME NEW i \in 1 .. Len(other) PROVE all[i + 1] = other[i]
      <3>1. i + 1 \in 1 .. 1 + Len(other) /\ ~(i + 1 <= 1) /\ (i + 1) - 1 = i
        BY <1>1
      <3> QED
        BY <3>1, <2>3
    <2> QED
      BY <2>1, <2>3, <2>4, <2>5 DEF a
  <1>5. \A i \in 1 .. Len(all) : i = 1 \/ (i - 1 \in 1 .. Len(other) /\ all[i] = other[i - 1])
    <2> SUFFICES ASSUME NEW i \in 1 .. Len(all), i # 1
                 PROVE  i - 1 \in 1 .. Len(other) /\ all[i] = other[i - 1]
      OBVIOUS
    <2>1. i - 1 \in 1 .. Len(other) /\ (i - 1) + 1 = i
      BY <1>1, <1>4
    <2> QED
      BY <2>1, <1>4
  <1>6. \A w : (\E i \in 1 .. Len(all) : all[i] = w)
                 <=> w = v \/ (w.key # key /\ \E i \in 1 .. Len(vs) : vs[i] = w)
    <2> SUFFICES ASSUME NEW w
                 PROVE  (\E i \in 1 .. Len(all) : all[i] = w)
                          <=> w = v \/ (w.key # key /\ \E i \in 1 .. Len(vs) : vs[i] = w)
      OBVIOUS
    <2>1. (\E i \in 1 .. Len(other) : other[i] = w)
            <=> w.key # key /\ \E i \in 1 .. Len(vs) : vs[i] = w
      BY <1>2
    <2>2. (\E i \in 1 .. Len(all) : all[i] = w) => w = v \/ \E i \in 1 .. Len(other) : other[i] = w
      BY <1>4, <1>5
    <2>3. w = v => \E i \in 1 .. Len(all) : all[i] = w
      <3>1. 1 \in 1 .. Len(all)
        BY <1>1, <1>4
      <3> QED
        BY <3>1, <1>4
    <2>4. (\E i \in 1 .. Len(other) : other[i] = w) => \E i \in 1 .. Len(all) : all[i] = w
      <3> SUFFICES ASSUME NEW i \in 1 .. Len(other), other[i] = w
                   PROVE  \E k \in 1 .. Len(all) : all[k] = w
        OBVIOUS
      <3>1. i + 1 \in 1 .. Len(all) /\ all[i + 1] = w
        BY <1>1, <1>4
      <3> QED
        BY <3>1
    <2> QED
      BY <2>1, <2>2, <2>3, <2>4
  <1>7. keys(all) = keys(vs) \cup {key}
    <2>1. ASSUME NEW k PROVE k \in keys(all) <=> k \in keys(vs) \/ k = key
      <3>1. ASSUME k \in keys(all) PROVE k \in keys(vs) \/ k = key
        BY <3>1, <1>0, <1>6
      <3>2. ASSUME k = key PROVE k \in keys(all)
        <4>1. \E i \in 1 .. Len(all) : all[i] = v
          BY <1>6
        <4> QED
          BY <3>2, <4>1, <1>0
      <3>3. ASSUME k \in keys(vs), k # key PROVE k \in keys(all)
        <4>1. PICK j \in 1 .. Len(vs) : vs[j].key = k
          BY <3>3
        <4>2. \E i \in 1 .. Len(all) : all[i] = vs[j]
          BY <3>3, <4>1, <1>6
        <4> QED
          BY <4>1, <4>2
      <3> QED
        BY <3>1, <3>2, <3>3
    <2> QED
      BY <2>1
  <1>8. ASSUME NEW s \in Seq(AnyEntries), NEW k \in keys(s)
        PROVE  at(s, k) \in 1 .. Len(s) /\ s[at(s, k)].key = k
    <2>1. \E i \in 1 .. Len(s) : s[i].key = k
      OBVIOUS
    <2> QED
      BY <2>1
  <1>9. \A i, j \in 1 .. Len(vs) : vs[i].key = vs[j].key => i = j
    BY DEF IsInjective, Keys
  <1> HIDE DEF at
  <1>10. ASSUME NEW k \in keys(all)
         PROVE  all[at(all, k)].archive = IF k = key THEN "new" ELSE vs[at(vs, k)].archive
    <2> DEFINE i == at(all, k)
    <2>1. i \in 1 .. Len(all) /\ all[i].key = k
      <3> HIDE DEF keys
      <3> QED
        BY <1>4, <1>8
    <2> HIDE DEF i
    <2>2. all[i] = v \/ (all[i].key # key /\ \E j \in 1 .. Len(vs) : vs[j] = all[i])
      BY <2>1, <1>6
    <2>3. CASE k = key
      BY <2>1, <2>2, <2>3, <1>0 DEF i
    <2>4. CASE k # key
      <3>1. PICK j \in 1 .. Len(vs) : vs[j] = all[i]
        BY <2>1, <2>2, <2>4, <1>0
      <3>2. k \in keys(vs)
        BY <2>1, <3>1
      <3>3. at(vs, k) \in 1 .. Len(vs) /\ vs[at(vs, k)].key = k
        <4> HIDE DEF keys
        <4> QED
          BY <3>2, <1>8
      <3>4. at(vs, k) = j
        BY <2>1, <3>1, <3>3, <1>9
      <3> QED
        BY <2>4, <3>1, <3>4 DEF i
    <2> QED
      BY <2>3, <2>4
  <1>11. listing(all) = [k \in keys(vs) \cup {key} |-> IF k = key THEN "new" ELSE listing(vs)[k]]
    <2>1. ASSUME NEW k \in keys(all)
          PROVE  all[at(all, k)].archive = IF k = key THEN "new" ELSE listing(vs)[k]
      <3>1. CASE k = key
        BY <3>1, <1>10
      <3>2. CASE k # key
        <4>1. k \in keys(vs)
          <5> HIDE DEF keys
          <5> QED
            BY <3>2, <1>7
        <4> HIDE DEF keys
        <4>2. listing(vs)[k] = vs[at(vs, k)].archive
          BY <4>1
        <4> QED
          BY <3>2, <4>2, <1>10
      <3> QED
        BY <3>1, <3>2
    <2> DEFINE e(k) == IF k = key THEN "new" ELSE listing(vs)[k]
    <2>2. \A k \in keys(all) : all[at(all, k)].archive = e(k)
      BY <2>1
    <2> HIDE DEF keys, e
    <2>3. listing(all) = [k \in keys(all) |-> e(k)]
      BY <2>2
    <2> QED
      BY <2>3, <1>7 DEF e
  <1>12. all # << >> /\ all[1].key = key
    BY <1>0, <1>1, <1>4
  <1>13. /\ Listed(all) = [first |-> key, archive |-> listing(all)]
         /\ Listed(vs).archive = listing(vs) /\ DOMAIN listing(vs) = keys(vs)
    BY <1>12 DEF Listed, Index!Listing, at
  <1> HIDE DEF keys, listing
  <1> QED
    BY <1>11, <1>13 DEF Index!Updated, Index!Listing, all

\* Whatever platforms and versions a descriptor lists, each platform and version once, the
\* patch adds the version where the index has it, and touches nothing else.
THEOREM PatchesAddVersions == Spec => []PatchAddsVersion
  <1>1. ASSUME input \in Inputs PROVE PatchAddsVersion
    <2> SUFFICES ASSUME Asks("descriptor")
                 PROVE  LET added == [p \in ToSet(Platforms) |-> Added(input.versions[p], input.key)]
                        IN  /\ File!Patched(Rendered(input.order, input.versions), input.key, "new")
                                 = Rendered(input.order,
                                            IF ToSet(Platforms) \subseteq ToSet(input.order) THEN added
                                            ELSE input.versions)
                            /\ \A p \in ToSet(Platforms) :
                                 Listed(added[p])
                                   = Index!Updated(Listed(input.versions[p]), input.key, "new")
      BY DEF PatchAddsVersion
    <2> DEFINE order == input.order
               versions == input.versions
               key == input.key
    <2>1. /\ Ordered(Platforms) /\ Ordered(order) /\ key \in STRING
          /\ versions \in [ToSet(Platforms) -> Seq(Entries)]
          /\ \A p \in ToSet(Platforms) : IsInjective(Keys(versions[p]))
      BY <1>1, InputsAssumption DEF Asks, Ordered
    <2> HIDE DEF order, versions, key
    <2>2. \A p \in ToSet(Platforms) : versions[p] \in Seq(AnyEntries)
      <3> SUFFICES ASSUME NEW p \in ToSet(Platforms) PROVE versions[p] \in Seq(AnyEntries)
        OBVIOUS
      <3>1. versions[p] \in Seq(Entries) /\ Entries \subseteq AnyEntries
        BY <2>1 DEF Entries, AnyEntries
      <3> DEFINE s == versions[p]
      <3> HIDE DEF s
      <3>2. s \in Seq(AnyEntries)
        BY <3>1 DEF s
      <3> QED
        BY <3>2 DEF s
    <2>3. versions \in VersionLists
      BY <2>1, <2>2 DEF VersionLists
    <2>4. File!Patched(Rendered(order, versions), key, "new")
            = Rendered(order, IF ToSet(Platforms) \subseteq ToSet(order)
                              THEN [p \in ToSet(Platforms) |-> Added(versions[p], key)]
                              ELSE versions)
      BY <2>1, <2>3, PatchedIsRendered
    <2>5. \A p \in ToSet(Platforms) :
            Listed(Added(versions[p], key)) = Index!Updated(Listed(versions[p]), key, "new")
      BY <2>1, <2>2, AddedIsUpdated
    <2> QED
      BY <2>4, <2>5 DEF order, versions, key
  <1> QED
    BY <1>1, AlwaysAnInput, PTL

-----------------------------------------------------------------------------
(***************************************************************************)
(* Who exports an entity.                                                  *)
(***************************************************************************)
\* Whether a declaration that is no friend is visible depends on its entity, its kind
\* and its scopes only.
LEMMA VisibleByScopes ==
  ASSUME NEW tu, NEW tv, NEW i, NEW j,
         ~tu[i].friend, ~tv[j].friend,
         tu[i].entity = tv[j].entity, tu[i].kind = tv[j].kind, tu[i].scopes = tv[j].scopes
  PROVE  Decl!Visible(tu, i) <=> Decl!Visible(tv, j)
  <1> DEFINE Parent(scopes) == IF scopes = << >> THEN "file" ELSE scopes[Len(scopes)].is
             Qname(scopes, entity) ==
               IF \A k \in 1 .. Len(scopes) :
                    scopes[k].is \in {"namespace", "enum", "scoped_enum"} \cup Decl!Classes
                    /\ scopes[k] # Decl!Anonymous
               THEN Append(Decl!Names(scopes), entity) ELSE << >>
             AtScope(scopes, kind) ==
               /\ Decl!NamespaceChain(IF kind = "enum_constant"
                                      THEN SubSeq(scopes, 1, Len(scopes) - 1) ELSE scopes) # << >>
               /\ Parent(scopes) # "scoped_enum"
             Seen(scopes, kind, entity) ==
               /\ Parent(scopes) \notin {"function"} \cup Decl!Classes
               /\ Len(Qname(scopes, entity)) > 1 /\ Qname(scopes, entity)[1] = "boost"
               /\ AtScope(scopes, kind)
  <1>1. ASSUME NEW unit, NEW k, ~unit[k].friend
        PROVE  Decl!Visible(unit, k) <=> Seen(unit[k].scopes, unit[k].kind, unit[k].entity)
    <2>1. Decl!SemanticScopes(unit[k]) = unit[k].scopes
      BY <1>1 DEF Decl!SemanticScopes
    <2>2. Decl!LexicalParent(unit[k]) = Parent(unit[k].scopes)
      BY DEF Decl!LexicalParent
    <2>3. Decl!QualifiedName(unit[k]) = Qname(unit[k].scopes, unit[k].entity)
      BY <2>1 DEF Decl!QualifiedName
    <2>4. Decl!AtNamespaceScope(unit, k) <=> AtScope(unit[k].scopes, unit[k].kind)
      BY <2>1, <2>2 DEF Decl!AtNamespaceScope
    <2> HIDE DEF Parent, Qname, AtScope
    <2> QED
      BY <2>2, <2>3, <2>4 DEF Decl!Visible, Decl!InBoost
  <1> HIDE DEF Seen
  <1> QED
    BY <1>1

\* The home of an entity with a definition is that of one of its definitions.
LEMMA HomeOfDefinition ==
  ASSUME NEW tu \in Seq(Decl!Cursors), NEW i \in 1 .. Len(tu),
         DefinitionsOf(tu, tu[i].entity) # {}
  PROVE  \E d \in DefinitionsOf(tu, tu[i].entity) : Decl!Home(tu, i) = tu[d].lib
  <1> DEFINE definitions == {j \in 1 .. Len(tu) : tu[j].entity = tu[i].entity /\ tu[j].definition}
  <1>1. definitions = DefinitionsOf(tu, tu[i].entity)
    BY DEF DefinitionsOf
  <1>2. CASE tu[i].definition
    <2>1. i \in definitions /\ Decl!Home(tu, i) = tu[i].lib
      BY <1>2 DEF Decl!Home
    <2> QED
      BY <1>1, <2>1
  <1>3. CASE ~tu[i].definition
    <2>1. definitions \in SUBSET Nat /\ definitions # {}
      BY <1>1
    <2>2. Decl!Home(tu, i) = tu[Decl!Min(definitions)].lib
      BY <1>3, <2>1 DEF Decl!Home
    <2> HIDE DEF definitions
    <2>3. Decl!Min(definitions) \in definitions
      BY <2>1, LeastMember DEF Decl!Min
    <2> QED
      BY <1>1, <2>2, <2>3
  <1> QED
    BY <1>2, <1>3

\* The same declarations in another order: whoever exports an entity that one library
\* defines still does.
LEMMA ExportedInAnyOrder ==
  ASSUME NEW tu \in Seq(Decl!Cursors), NEW tv \in Seq(Decl!Cursors), EntitiesAgree(tu),
         \A i \in 1 .. Len(tu) : \E j \in 1 .. Len(tv) : tv[j] = tu[i],
         \A j \in 1 .. Len(tv) : \E i \in 1 .. Len(tu) : tu[i] = tv[j],
         NEW lib, NEW e \in Exports(tu, lib), e \in DefinedInOne(tu)
  PROVE  e \in Exports(tv, lib)
  <1>1. PICK i \in Decl!Candidates(tu, lib) : tu[i].entity = e
    BY DEF Exports
  <1>2. /\ i \in 1 .. Len(tu) /\ ~tu[i].friend
        /\ tu[i].kind \in Decl!ExportKinds
        /\ Decl!Home(tu, i) \in {lib, "shared"}
        /\ Decl!LinkageOk(tu[i])
        /\ tu[i].special = "no"
        /\ Decl!Visible(tu, i)
    BY <1>1 DEF Decl!Candidates, Decl!Index, Decl!OwnOrShared
  <1> DEFINE S == {j \in 1 .. Len(tv) : tv[j].entity = e /\ ~tv[j].friend}
  <1>3. S \in SUBSET Nat /\ S # {}
    <2>1. PICK j \in 1 .. Len(tv) : tv[j] = tu[i]
      BY <1>2
    <2>2. j \in S
      BY <1>1, <1>2, <2>1
    <2>3. Len(tv) \in Nat
      OBVIOUS
    <2> QED
      BY <2>2, <2>3
  <1>4. PICK j \in S : \A m \in S : j <= m
    BY <1>3, LeastMember
  <1>5. j \in 1 .. Len(tv) /\ tv[j].entity = e /\ ~tv[j].friend
    BY <1>4
  <1>6. j \in Decl!Index(tv)
    <2>1. ASSUME NEW m \in 1 .. j - 1 PROVE tv[m].friend \/ tv[m].entity # e
      <3>1. m \in 1 .. Len(tv) /\ ~(j <= m)
        BY <1>5
      <3>2. m \notin S
        BY <1>4, <3>1
      <3> QED
        BY <3>1, <3>2
    <2> HIDE DEF S
    <2> QED
      BY <1>5, <2>1 DEF Decl!Index
  <1> HIDE DEF S
  <1>7. PICK k \in 1 .. Len(tu) : tu[k] = tv[j]
    BY <1>5
  <1>8. /\ tv[j].kind = tu[i].kind /\ tv[j].external = tu[i].external
        /\ tv[j].special = tu[i].special /\ tv[j].entity = tu[i].entity
        /\ Decl!SemanticScopes(tv[j]) = Decl!SemanticScopes(tu[i])
    <2>1. tu[k].entity = tu[i].entity
      BY <1>1, <1>5, <1>7
    <2>2. /\ tu[k].kind = tu[i].kind /\ tu[k].external = tu[i].external
          /\ tu[k].special = tu[i].special
          /\ Decl!SemanticScopes(tu[k]) = Decl!SemanticScopes(tu[i])
      BY <1>2, <2>1 DEF EntitiesAgree
    <2> QED
      BY <1>7, <2>1, <2>2
  <1>9. tv[j].scopes = tu[i].scopes
    BY <1>2, <1>5, <1>8 DEF Decl!SemanticScopes
  <1>10. Decl!Visible(tv, j)
    BY <1>2, <1>5, <1>8, <1>9, VisibleByScopes
  <1>11. Decl!LinkageOk(tv[j])
    BY <1>2, <1>8 DEF Decl!LinkageOk
  <1>12. Decl!Home(tv, j) = Decl!Home(tu, i)
    <2>1. /\ DefinitionsOf(tu, e) # {}
          /\ \A x, y \in DefinitionsOf(tu, e) : tu[x].lib = tu[y].lib
      BY DEF DefinedInOne
    <2>2. PICK d \in DefinitionsOf(tu, e) : Decl!Home(tu, i) = tu[d].lib
      BY <1>1, <1>2, <2>1, HomeOfDefinition
    <2>3. DefinitionsOf(tv, e) # {}
      <3>1. d \in 1 .. Len(tu) /\ tu[d].entity = e /\ tu[d].definition
        BY <2>2 DEF DefinitionsOf
      <3>2. PICK x \in 1 .. Len(tv) : tv[x] = tu[d]
        BY <3>1
      <3> QED
        BY <3>1, <3>2 DEF DefinitionsOf
    <2>4. PICK x \in DefinitionsOf(tv, e) : Decl!Home(tv, j) = tv[x].lib
      BY <1>5, <2>3, HomeOfDefinition
    <2>5. x \in 1 .. Len(tv) /\ tv[x].entity = e /\ tv[x].definition
      BY <2>4 DEF DefinitionsOf
    <2>6. PICK y \in 1 .. Len(tu) : tu[y] = tv[x]
      BY <2>5
    <2>7. y \in DefinitionsOf(tu, e)
      BY <2>5, <2>6 DEF DefinitionsOf
    <2> QED
      BY <2>1, <2>2, <2>4, <2>6, <2>7
  <1>13. j \in Decl!Candidates(tv, lib)
    BY <1>2, <1>6, <1>8, <1>10, <1>11, <1>12 DEF Decl!Candidates, Decl!OwnOrShared
  <1> QED
    BY <1>5, <1>13 DEF Exports

\* Putting declarations in another order changes neither what is known of them nor
\* which entities one library defines.
LEMMA Reordered ==
  ASSUME NEW tu \in Seq(Decl!Cursors), EntitiesAgree(tu), NEW p \in Orders(Len(tu)),
         NEW tv \in Seq(Decl!Cursors), Len(tv) = Len(tu),
         \A i \in 1 .. Len(tu) : tv[i] = tu[p[i]]
  PROVE  /\ EntitiesAgree(tv)
         /\ \A i \in 1 .. Len(tu) : \E j \in 1 .. Len(tv) : tv[j] = tu[i]
         /\ \A j \in 1 .. Len(tv) : \E i \in 1 .. Len(tu) : tu[i] = tv[j]
         /\ DefinedInOne(tv) = DefinedInOne(tu)
  <1>1. Len(tu) \in Nat /\ p \in [1 .. Len(tu) -> 1 .. Len(tu)]
    BY DEF Orders
  <1>3. Len(tv) = Len(tu)
    OBVIOUS
  <1>4. \A i \in 1 .. Len(tu) : p[i] \in 1 .. Len(tu) /\ tv[i] = tu[p[i]]
    BY <1>1
  <1>5. EntitiesAgree(tv)
    <2> SUFFICES ASSUME NEW i \in 1 .. Len(tu), NEW j \in 1 .. Len(tu),
                        tv[i].entity = tv[j].entity
                 PROVE  /\ tv[i].kind = tv[j].kind
                        /\ tv[i].external = tv[j].external
                        /\ tv[i].special = tv[j].special
                        /\ Decl!SemanticScopes(tv[i]) = Decl!SemanticScopes(tv[j])
      BY <1>3 DEF EntitiesAgree
    <2>1. /\ p[i] \in 1 .. Len(tu) /\ tv[i] = tu[p[i]]
          /\ p[j] \in 1 .. Len(tu) /\ tv[j] = tu[p[j]]
      BY <1>4
    <2>2. tu[p[i]].entity = tu[p[j]].entity
      BY <2>1
    <2>3. /\ tu[p[i]].kind = tu[p[j]].kind
          /\ tu[p[i]].external = tu[p[j]].external
          /\ tu[p[i]].special = tu[p[j]].special
          /\ Decl!SemanticScopes(tu[p[i]]) = Decl!SemanticScopes(tu[p[j]])
      BY <2>1, <2>2 DEF EntitiesAgree
    <2> QED
      BY <2>1, <2>3
  <1>6. \A i \in 1 .. Len(tu) : \E j \in 1 .. Len(tv) : tv[j] = tu[i]
    BY <1>3, <1>4 DEF Orders
  <1>7. \A j \in 1 .. Len(tv) : \E i \in 1 .. Len(tu) : tu[i] = tv[j]
    BY <1>3, <1>4
  <1>8. {tv[i].entity : i \in 1 .. Len(tv)} = {tu[i].entity : i \in 1 .. Len(tu)}
    <2>1. ASSUME NEW j \in 1 .. Len(tv) PROVE \E i \in 1 .. Len(tu) : tu[i].entity = tv[j].entity
      BY <1>7
    <2>2. ASSUME NEW i \in 1 .. Len(tu) PROVE \E j \in 1 .. Len(tv) : tu[i].entity = tv[j].entity
      BY <1>6
    <2>3. {tv[i].entity : i \in 1 .. Len(tv)} \subseteq {tu[i].entity : i \in 1 .. Len(tu)}
      BY <2>1
    <2>4. {tu[i].entity : i \in 1 .. Len(tu)} \subseteq {tv[i].entity : i \in 1 .. Len(tv)}
      BY <2>2
    <2> QED
      BY <2>3, <2>4
  <1>9. ASSUME NEW e, NEW x \in DefinitionsOf(tv, e)
        PROVE  \E y \in DefinitionsOf(tu, e) : tv[x] = tu[y]
    <2>1. x \in 1 .. Len(tv) /\ tv[x].entity = e /\ tv[x].definition
      BY <1>9 DEF DefinitionsOf
    <2>2. PICK y \in 1 .. Len(tu) : tu[y] = tv[x]
      BY <1>7, <2>1
    <2>3. y \in DefinitionsOf(tu, e)
      BY <2>1, <2>2 DEF DefinitionsOf
    <2> QED
      BY <2>2, <2>3
  <1>10. ASSUME NEW e, NEW y \in DefinitionsOf(tu, e)
         PROVE  \E x \in DefinitionsOf(tv, e) : tv[x] = tu[y]
    <2>1. y \in 1 .. Len(tu) /\ tu[y].entity = e /\ tu[y].definition
      BY <1>10 DEF DefinitionsOf
    <2>2. PICK x \in 1 .. Len(tv) : tv[x] = tu[y]
      BY <1>6, <2>1
    <2>3. x \in DefinitionsOf(tv, e)
      BY <2>1, <2>2 DEF DefinitionsOf
    <2> QED
      BY <2>2, <2>3
  <1>11. \A e : (\A x, y \in DefinitionsOf(tv, e) : tv[x].lib = tv[y].lib)
                <=> (\A x, y \in DefinitionsOf(tu, e) : tu[x].lib = tu[y].lib)
    <2> TAKE e
    <2>1. ASSUME \A x, y \in DefinitionsOf(tu, e) : tu[x].lib = tu[y].lib,
                 NEW x \in DefinitionsOf(tv, e), NEW y \in DefinitionsOf(tv, e)
          PROVE  tv[x].lib = tv[y].lib
      <3>1. PICK v \in DefinitionsOf(tu, e) : tv[x] = tu[v]
        BY <1>9
      <3>2. PICK w \in DefinitionsOf(tu, e) : tv[y] = tu[w]
        BY <1>9
      <3> QED
        BY <2>1, <3>1, <3>2
    <2>2. ASSUME \A x, y \in DefinitionsOf(tv, e) : tv[x].lib = tv[y].lib,
                 NEW x \in DefinitionsOf(tu, e), NEW y \in DefinitionsOf(tu, e)
          PROVE  tu[x].lib = tu[y].lib
      <3>1. PICK v \in DefinitionsOf(tv, e) : tv[v] = tu[x]
        BY <1>10
      <3>2. PICK w \in DefinitionsOf(tv, e) : tv[w] = tu[y]
        BY <1>10
      <3> QED
        BY <2>2, <3>1, <3>2
    <2> QED
      BY <2>1, <2>2
  <1>12. DefinedInOne(tv) = DefinedInOne(tu)
    <2>1. \A e : DefinitionsOf(tv, e) # {} <=> DefinitionsOf(tu, e) # {}
      BY <1>9, <1>10
    <2> DEFINE In(e) == e \in {tu[i].entity : i \in 1 .. Len(tu)}
    <2>2. \A e : e \in {tv[i].entity : i \in 1 .. Len(tv)} <=> In(e)
      BY <1>8
    <2>3. \A e : e \in DefinedInOne(tv) <=>
             /\ In(e) /\ DefinitionsOf(tv, e) # {}
             /\ \A x, y \in DefinitionsOf(tv, e) : tv[x].lib = tv[y].lib
      BY <2>2, Zenon DEF DefinedInOne
    <2>4. \A e : e \in DefinedInOne(tu) <=>
             /\ In(e) /\ DefinitionsOf(tu, e) # {}
             /\ \A x, y \in DefinitionsOf(tu, e) : tu[x].lib = tu[y].lib
      BY Zenon DEF DefinedInOne
    <2> HIDE DEF In
    <2>5. \A e : e \in DefinedInOne(tv) <=> e \in DefinedInOne(tu)
      BY <1>11, <2>1, <2>3, <2>4
    <2>6. \A e \in DefinedInOne(tv) : e \in DefinedInOne(tu)
      BY <2>5
    <2>7. \A e \in DefinedInOne(tu) : e \in DefinedInOne(tv)
      BY <2>5
    <2> QED
      BY <2>6, <2>7
  <1> QED
    BY <1>5, <1>6, <1>7, <1>12

\* For any headers, in any order: the library that exports an entity is the one that
\* defines it, if only one does; and an #include counts for the owner of the file.
THEOREM OwnersAreDefined == Spec => []OwnerIsDefined
  <1>1. input \in Inputs => OwnersAgree
    BY InputsAssumption
    DEF OwnersAgree, Decl!LibOfInclude, Decl!HomeLibOfFile, Decl!Owned
  <1>2. input \in Inputs => ClaimsIgnoreOrder
    <2> SUFFICES ASSUME input \in Inputs, Asks("unit"), NEW p \in Orders(Len(input.tu)),
                        NEW lib \in Libraries
                 PROVE  Exports([i \in 1 .. Len(input.tu) |-> input.tu[p[i]]], lib)
                          \cap DefinedInOne(input.tu)
                        = Exports(input.tu, lib) \cap DefinedInOne(input.tu)
      BY DEF ClaimsIgnoreOrder
    <2> DEFINE tu == input.tu
               tv == [i \in 1 .. Len(tu) |-> tu[p[i]]]
    <2>1. tu \in Seq(Decl!Cursors) /\ EntitiesAgree(tu)
      BY InputsAssumption DEF Asks
    <2>2. /\ tv \in Seq(Decl!Cursors) /\ EntitiesAgree(tv)
          /\ \A i \in 1 .. Len(tu) : \E j \in 1 .. Len(tv) : tv[j] = tu[i]
          /\ \A j \in 1 .. Len(tv) : \E i \in 1 .. Len(tu) : tu[i] = tv[j]
          /\ DefinedInOne(tv) = DefinedInOne(tu)
      <3>1. Len(tu) \in Nat /\ p \in [1 .. Len(tu) -> 1 .. Len(tu)]
        BY <2>1 DEF Orders
      <3> HIDE DEF tu
      <3>2. \A i \in 1 .. Len(tu) : tu[p[i]] \in Decl!Cursors
        BY <2>1, <3>1
      <3>3. /\ tv \in Seq(Decl!Cursors) /\ Len(tv) = Len(tu)
            /\ \A i \in 1 .. Len(tu) : tv[i] = tu[p[i]]
        BY <3>1, <3>2
      <3>4. p \in Orders(Len(tu))
        BY DEF tu
      <3> HIDE DEF tv
      <3> QED
        BY <2>1, <3>3, <3>4, Reordered
    <2> HIDE DEF tu, tv
    <2>3. ASSUME NEW e \in DefinedInOne(tu)
          PROVE  e \in Exports(tv, lib) <=> e \in Exports(tu, lib)
      <3>1. e \in Exports(tu, lib) => e \in Exports(tv, lib)
        BY <2>1, <2>2, ExportedInAnyOrder
      <3>2. e \in Exports(tv, lib) => e \in Exports(tu, lib)
        BY <2>1, <2>2, ExportedInAnyOrder
      <3> QED
        BY <3>1, <3>2
    <2>4. Exports(tv, lib) \cap DefinedInOne(tu) = Exports(tu, lib) \cap DefinedInOne(tu)
      BY <2>3
    <2> QED
      BY <2>4 DEF tu, tv
  <1>3. input \in Inputs => OwnerIsDefined
    BY <1>1, <1>2 DEF OwnerIsDefined
  <1> QED
    BY <1>3, AlwaysAnInput, PTL

-----------------------------------------------------------------------------
(***************************************************************************)
(* What the audit lists.                                                   *)
(***************************************************************************)
\* A declaration of the library that the audit knows the kind of is listed whenever
\* one like it would be passed over by the exporter.
LEMMA ListedIsAudited ==
  ASSUME NEW tu \in Seq(Decl!Cursors), NEW lib, NEW i \in 1 .. Len(tu), NEW a \in 1 .. Len(tu),
         tu[a].lib = lib, tu[a].kind = tu[i].kind, tu[a].entity = tu[i].entity,
         tu[a].external = tu[i].external, tu[a].special = tu[i].special,
         Decl!SemanticScopes(tu[a]) = Decl!SemanticScopes(tu[i]),
         tu[i].kind \in {"class", "function"}, Decl!Visible(tu, i),
         tu[i].special # "no" \/ (tu[i].kind = "function" /\ ~tu[i].external)
  PROVE  a \in Audited(tu, lib)
  <1>1. CASE a \in Decl!Friends(tu, lib)
    BY <1>1 DEF Audited
  <1>2. CASE a \notin Decl!Friends(tu, lib)
    <2>1. a \in Decl!Listed(tu, lib)
      BY <1>2 DEF Decl!Listed, Decl!Walked, Decl!Functions, Decl!Aliases
    <2>2. CASE tu[i].special # "no"
      <3>1. Decl!InBoost(tu[a])
        <4>1. Decl!QualifiedName(tu[a]) = Decl!QualifiedName(tu[i])
          BY DEF Decl!QualifiedName
        <4> QED
          BY <4>1 DEF Decl!Visible, Decl!InBoost
      <3>2. a \in Decl!Specializations(tu, lib)
        BY <2>1, <2>2, <3>1 DEF Decl!Specializations, Decl!Functions
      <3> QED
        BY <3>2 DEF Audited
    <2>3. CASE tu[i].kind = "function" /\ ~tu[i].external
      <3>1. Decl!NamespaceChain(Decl!SemanticScopes(tu[a])) # << >>
        BY <2>3 DEF Decl!Visible, Decl!AtNamespaceScope
      <3>2. a \in Decl!Statics(tu, lib)
        BY <2>1, <2>3, <3>1 DEF Decl!Statics, Decl!LinkageOk, Decl!Functions, Decl!Aliases
      <3> QED
        BY <3>2 DEF Audited
    <2> QED
      BY <2>2, <2>3
  <1> QED
    BY <1>1, <1>2

\* For any headers, in any order: what the exporter passes over is in the audit, by
\* the declaration it saw first or by the definition that made it the library's.
THEOREM DroppedAreAudited == Spec => []DroppedIsAudited
  <1>1. input \in Inputs => DroppedIsAudited
    <2> SUFFICES ASSUME input \in Inputs, Asks("unit"), NEW lib \in Libraries,
                        NEW i \in Dropped(input.tu, lib)
                 PROVE  \E a \in Audited(input.tu, lib) : input.tu[a].entity = input.tu[i].entity
      BY DEF DroppedIsAudited
    <2> DEFINE tu == input.tu
    <2>1. tu \in Seq(Decl!Cursors) /\ EntitiesAgree(tu)
      BY InputsAssumption DEF Asks
    <2>2. /\ i \in 1 .. Len(tu)
          /\ ~tu[i].friend
          /\ Decl!Home(tu, i) = lib
          /\ Decl!Visible(tu, i)
          /\ tu[i].kind \in {"class", "function"}
      BY DEF Dropped, Decl!Index
    <2>3. tu[i].special # "no" \/ (tu[i].kind = "function" /\ ~tu[i].external)
      <3>1. i \in Decl!Index(tu) /\ i \notin Decl!Candidates(tu, lib)
            /\ (tu[i].kind = "class" => tu[i].special # "no")
        BY DEF Dropped
      <3> QED
        BY <2>2, <3>1
        DEF Decl!Candidates, Decl!OwnOrShared, Decl!LinkageOk, Decl!Aliases, Decl!ExportKinds,
            Decl!Classes, Decl!Functions
    <2> HIDE DEF tu
    <2>4. CASE tu[i].lib = lib
      <3>1. i \in Audited(tu, lib)
        BY <2>1, <2>2, <2>3, <2>4, ListedIsAudited
      <3> QED
        BY <3>1 DEF tu
    <2>5. CASE tu[i].lib # lib
      <3>1. DefinitionsOf(tu, tu[i].entity) # {}
        BY <2>2, <2>5 DEF DefinitionsOf, Decl!Home
      <3>2. PICK d \in DefinitionsOf(tu, tu[i].entity) : Decl!Home(tu, i) = tu[d].lib
        BY <2>1, <2>2, <3>1, HomeOfDefinition
      <3>3. d \in 1 .. Len(tu) /\ tu[d].entity = tu[i].entity /\ tu[d].lib = lib
        BY <2>2, <3>2 DEF DefinitionsOf
      <3>4. /\ tu[d].kind = tu[i].kind
            /\ tu[d].external = tu[i].external
            /\ tu[d].special = tu[i].special
            /\ Decl!SemanticScopes(tu[d]) = Decl!SemanticScopes(tu[i])
        BY <2>1, <2>2, <3>3 DEF EntitiesAgree
      <3>5. d \in Audited(tu, lib)
        BY <2>1, <2>2, <2>3, <3>3, <3>4, ListedIsAudited
      <3> QED
        BY <3>3, <3>5 DEF tu
    <2> QED
      BY <2>4, <2>5
  <1> QED
    BY <1>1, AlwaysAnInput, PTL

-----------------------------------------------------------------------------
(***************************************************************************)
(* Using-declarations.                                                     *)
(***************************************************************************)
\* Any overloads, any using-declaration: what has a record is what C++ finds for it,
\* or it has none.
THEOREM RecordsAreRight == Spec => []RecordsDenote
  <1>1. input \in Inputs => RecordsDenote
    <2> SUFFICES ASSUME input \in Inputs, Asks("using"),
                        Denoted(input.entities, input.using) # {},
                        Denoted(input.entities, input.using)
                          = Names!Declared(input.entities, Names!Target(input.using))
                 PROVE  /\ (Emitted # {}) = AllExternal(Denoted(input.entities, input.using))
                        /\ \A r \in Emitted :
                             r.name = IF Names!FullyQualified(input.using)
                                      THEN input.using.segs ELSE Public(input.using)
      BY DEF RecordsDenote
    <2> DEFINE entities == input.entities
               u == input.using
               found == Denoted(entities, u)
               name == Names!Injected(u)
    <2>1. /\ entities \subseteq [chain: Seq(STRING), name: STRING, external: BOOLEAN]
          /\ \A e \in entities : Names!InBoost(e.chain)
          /\ u.scope \in Seq(STRING) /\ u.segs \in Seq(STRING) \ {<< >>}
      BY InputsAssumption DEF Asks
    <2> HIDE DEF entities, u
    <2>2. found # {} /\ found = Names!Declared(entities, Names!Target(u))
      BY DEF entities, u
    <2>3. Names!InBoost(Names!Target(u))
      <3>1. PICK e \in found : TRUE
        BY <2>2
      <3>2. e \in entities /\ Names!QName(e) = Names!Target(u)
        BY <2>2, <3>1 DEF Names!Declared
      <3>3. e.chain \in Seq(STRING) /\ e.name \in STRING /\ Len(e.chain) > 0
            /\ e.chain[1] = "boost"
        BY <2>1, <3>2 DEF Names!InBoost
      <3>4. Len(Append(e.chain, e.name)) > 0 /\ Append(e.chain, e.name)[1] = "boost"
        BY <3>3
      <3> QED
        BY <3>2, <3>4 DEF Names!QName, Names!InBoost
    <2>4. name = IF Names!FullyQualified(u) THEN u.segs ELSE Public(u)
      <3>1. CASE Names!FullyQualified(u)
        BY <3>1 DEF Names!Injected
      <3>2. CASE ~Names!FullyQualified(u)
        <4>1. Names!InBoost(u.scope)
          <5>1. ~Names!InBoost(<< >>)
            BY DEF Names!InBoost
          <5>2. ~Names!InBoost(u.scope) => Names!Target(u) = << >>
            BY <3>2 DEF Names!Target, Names!Unusable
          <5> QED
            BY <2>3, <5>1, <5>2
        <4> QED
          BY <3>2, <4>1 DEF Names!Injected, Public, Last, Names!Last
      <3> QED
        BY <3>1, <3>2
    <2>5. name # Names!Unusable
      <3>1. Append(u.scope, u.segs[Len(u.segs)]) # << >>
        BY <2>1
      <3> QED
        BY <2>1, <2>4, <3>1 DEF Names!Unusable, Public, Last
    <2>6. Names!Injectable(entities, u) = AllExternal(found)
      BY <2>2, <2>3 DEF Names!Injectable, AllExternal
    <2> HIDE DEF found, name
    <2>7. Emitted = IF AllExternal(found)
                    THEN {Names!Record(Names!Front(name), name, FALSE)} ELSE {}
      BY <2>3, <2>5, <2>6 DEF Emitted, Names!UsingRecords, entities, u, name
    <2>8. (Emitted # {}) = AllExternal(found)
      BY <2>7 DEF AllExternal
    <2>9. \A r \in Emitted : r.name = name
      BY <2>7 DEF Names!Record
    <2> QED
      BY <2>4, <2>8, <2>9 DEF found, entities, u
  <1> QED
    BY <1>1, AlwaysAnInput, PTL

-----------------------------------------------------------------------------
(***************************************************************************)
(* The toolchain.                                                          *)
(***************************************************************************)
\* Any directories and any installations: the generator and the fetch script agree on
\* the sysroot, and libclang parses with headers of its own release.
THEOREM ToolchainsFit == Spec => []ToolchainFits
  <1>1. input \in Inputs => SameSysroot
    <2> SUFFICES ASSUME input \in Inputs, Asks("sysroot"),
                        \A i \in DOMAIN input.dirs : input.dirs[i].windows_h
                          => input.dirs[i].include /\ input.dirs[i].depth > 0
                 PROVE  Host!BundledSysroot(input.dirs, input.marker)
                          = Host!CurrentRoot(input.dirs, input.marker)
      BY DEF SameSysroot
    <2> DEFINE dirs == input.dirs
               scanned == {i \in 1 .. Len(dirs) :
                             dirs[i].depth \in 1 .. 3 /\ Host!LooksLikeSysroot(dirs[i])}
               looked == {i \in 1 .. Len(dirs) :
                            dirs[i].depth \in 0 .. 3 /\ Host!IsSysroot(dirs[i])}
    <2>1. dirs \in Seq([depth: Nat, windows_h: BOOLEAN, include: BOOLEAN])
          /\ input.marker \in {None} \cup DOMAIN dirs
      BY InputsAssumption DEF Asks
    <2>2. \A i \in DOMAIN dirs : Host!LooksLikeSysroot(dirs[i]) <=> Host!IsSysroot(dirs[i])
      BY DEF Host!LooksLikeSysroot, Host!IsSysroot
    <2>3. \A i \in 1 .. Len(dirs) :
            (dirs[i].depth \in 1 .. 3 /\ Host!LooksLikeSysroot(dirs[i]))
              <=> (dirs[i].depth \in 0 .. 3 /\ Host!IsSysroot(dirs[i]))
      <3> SUFFICES ASSUME NEW i \in 1 .. Len(dirs)
                   PROVE  (dirs[i].depth \in 1 .. 3 /\ Host!LooksLikeSysroot(dirs[i]))
                            <=> (dirs[i].depth \in 0 .. 3 /\ Host!IsSysroot(dirs[i]))
        OBVIOUS
      <3>1. i \in DOMAIN dirs /\ dirs[i].depth \in Nat
        <4> DEFINE Dirs == [depth: Nat, windows_h: BOOLEAN, include: BOOLEAN]
        <4>1. dirs \in Seq(Dirs)
          BY <2>1
        <4> HIDE DEF dirs, Dirs
        <4>2. i \in DOMAIN dirs /\ dirs[i] \in Dirs
          BY <4>1
        <4> QED
          BY <4>2 DEF Dirs
      <3>2. dirs[i].windows_h => dirs[i].depth > 0
        BY <3>1
      <3> QED
        BY <2>2, <3>1, <3>2 DEF Host!LooksLikeSysroot, Host!IsSysroot
    <2>4. scanned = looked
      BY <2>3
    <2>5. Host!BundledSysroot(dirs, input.marker)
            = IF input.marker # None /\ Host!LooksLikeSysroot(dirs[input.marker])
              THEN input.marker
              ELSE IF scanned = {} THEN None ELSE Host!Min(scanned)
      BY DEF Host!BundledSysroot, Host!First
    <2>6. Host!CurrentRoot(dirs, input.marker)
            = IF input.marker # None /\ Host!IsSysroot(dirs[input.marker])
              THEN input.marker
              ELSE IF looked = {} THEN None ELSE Host!Min(looked)
      BY DEF Host!CurrentRoot, Host!First
    <2>7. input.marker # None => (Host!LooksLikeSysroot(dirs[input.marker])
                                    <=> Host!IsSysroot(dirs[input.marker]))
      BY <2>1, <2>2
    <2> HIDE DEF dirs, scanned, looked
    <2>8. Host!BundledSysroot(dirs, input.marker) = Host!CurrentRoot(dirs, input.marker)
      BY <2>4, <2>5, <2>6, <2>7
    <2> QED
      BY <2>8 DEF dirs
  <1>2. input \in Inputs => HeadersOfTheParser
    <2> SUFFICES ASSUME input \in Inputs, Asks("host"), Parser # None,
                        \A i \in {input.path, input.cxx, input.wheel} : ~Ambiguous(i)
                 PROVE  Parser.headers = Parser.release
      BY DEF HeadersOfTheParser
    <2> DEFINE from == Host!LoadLibclang(input.path, input.cxx, input.wheel)
    <2>1. from \in {input.path, input.cxx, input.wheel} \/ from = None
      BY DEF Host!LoadLibclang
    <2> HIDE DEF from
    <2>2. /\ from # None /\ Host!ResourceDir(from, None) # None
          /\ Parser = [release |-> from.release, headers |-> Host!ResourceDir(from, None)]
      BY DEF Parser, Host!GetCi, from
    <2>3. from.headers # << >> /\ Host!ResourceDir(from, None) = Head(from.headers)
      BY <2>2 DEF Host!ResourceDir
    <2>4. OwnHeaders(from) /\ ~Ambiguous(from)
      BY <2>1, <2>2, InputsAssumption DEF Asks
    <2>5. PICK i \in DOMAIN from.headers : from.headers[i] = from.release
      BY <2>2, <2>3, <2>4 DEF OwnHeaders
    <2>6. from.headers \in Seq(ToSet(from.headers)) /\ Len(from.headers) <= 1
      <3>1. from.headers \in Seq(ToSet(from.headers))
        BY <2>2, <2>4 DEF OwnHeaders
      <3>2. Len(from.headers) \in Nat
        BY <3>1
      <3> QED
        BY <2>2, <2>4, <3>1, <3>2 DEF Ambiguous
    <2>7. i = 1
      <3>1. i \in 1 .. Len(from.headers)
        BY <2>5, <2>6
      <3> QED
        BY <2>6, <3>1
    <2>8. Head(from.headers) = from.headers[1]
      BY <2>3, <2>6
    <2> QED
      BY <2>2, <2>3, <2>5, <2>7, <2>8
  <1>3. input \in Inputs => ToolchainFits
    BY <1>1, <1>2 DEF ToolchainFits
  <1> QED
    BY <1>3, AlwaysAnInput, PTL

-----------------------------------------------------------------------------
(***************************************************************************)
(* The initializers of variable templates.                                 *)
(***************************************************************************)
LEMMA LongestPrefix ==
  ASSUME NEW n \in Nat, NEW S \in SUBSET (1 .. n), n \in S
  PROVE  Token!Max(S) = n
  <1>1. \A y \in S : n >= y
    OBVIOUS
  <1>2. ASSUME NEW x \in S, \A y \in S : x >= y PROVE x = n
    BY <1>2
  <1> QED
    BY <1>1, <1>2 DEF Token!Max

LEMMA FirstHit ==
  ASSUME NEW S \in SUBSET Nat, NEW n \in S, \A y \in S : n <= y
  PROVE  Token!Min(S) = n
  <1>1. ASSUME NEW x \in S, \A y \in S : x <= y PROVE x = n
    BY <1>1
  <1> QED
    BY <1>1 DEF Token!Min

LEMMA GreatestMember ==
  ASSUME NEW n \in Nat, NEW S \in SUBSET (0 .. n), S # {}
  PROVE  Max(S) \in S /\ \A y \in S : y <= Max(S)
  <1> DEFINE T == {k \in 0 .. n : n - k \in S}
  <1>1. PICK x \in S : TRUE
    OBVIOUS
  <1>2. T \in SUBSET Nat /\ T # {}
    <2>1. x \in 0 .. n
      OBVIOUS
    <2>2. n - x \in 0 .. n /\ n - (n - x) = x
      BY <2>1
    <2>3. n - x \in T
      BY <2>2
    <2>4. \A k \in T : k \in Nat
      OBVIOUS
    <2> HIDE DEF T
    <2> QED
      BY <2>3, <2>4
  <1>3. PICK k \in T : \A m \in T : k <= m
    BY <1>2, LeastMember
  <1>4. k \in 0 .. n /\ n - k \in S
    BY <1>3
  <1>5. ASSUME NEW y \in S PROVE n - k >= y
    <2>1. y \in 0 .. n
      OBVIOUS
    <2>2. n - y \in 0 .. n /\ n - (n - y) = y
      BY <2>1
    <2>3. n - y \in T
      BY <2>2
    <2>4. k <= n - y
      BY <1>3, <2>3
    <2> QED
      BY <1>4, <2>1, <2>4
  <1>6. \E m \in S : \A y \in S : m >= y
    BY <1>4, <1>5
  <1>7. Max(S) \in S /\ \A y \in S : Max(S) >= y
    BY <1>6 DEF Max
  <1>8. \A y \in S : y \in Int
    OBVIOUS
  <1> QED
    BY <1>7, <1>8

\* One chain: its edge is that of the first base with a useful name.
LEMMA EdgesOfOne ==
  ASSUME NEW index, NEW face, NEW lib, NEW ref
  PROVE  Token!EdgesOf(index, face, lib, <<ref>>)
           = {pair[2] : pair \in Token!Referred(index, face, lib, {}, ref)}
  <1> DEFINE Step(s, n) ==
               IF n = 0 THEN {} ELSE Token!Referred(index, face, lib, s[n - 1], <<ref>>[n])
             seen == CHOOSE s : s = [n \in 0 .. Len(<<ref>>) |-> Step(s, n)]
             once == [n \in 0 .. 1 |-> IF n = 0 THEN {}
                                       ELSE Token!Referred(index, face, lib, {}, ref)]
  <1>1. Len(<<ref>>) = 1 /\ <<ref>>[1] = ref
    OBVIOUS
  <1>2. once = [n \in 0 .. Len(<<ref>>) |-> Step(once, n)]
    <2>1. once[0] = {} /\ once[1] = Token!Referred(index, face, lib, {}, ref)
      OBVIOUS
    <2> HIDE DEF once
    <2>2. Step(once, 0) = {} /\ Step(once, 1) = Token!Referred(index, face, lib, {}, ref)
      BY <1>1, <2>1
    <2> HIDE DEF Step
    <2>3. \A n \in 0 .. 1 : n = 0 \/ n = 1
      OBVIOUS
    <2>4. \A n \in 0 .. 1 : Step(once, n) = once[n]
      BY <2>1, <2>2, <2>3
    <2> QED
      BY <1>1, <2>4 DEF once
  <1>3. seen = [n \in 0 .. Len(<<ref>>) |-> Step(seen, n)]
    <2> HIDE DEF once, Step
    <2> QED
      BY <1>2
  <1>4. seen[1] = Token!Referred(index, face, lib, {}, ref)
    <2> HIDE DEF seen
    <2>1. 0 \in 0 .. 1 /\ 1 \in 0 .. 1 /\ 1 - 1 = 0
      OBVIOUS
    <2>2. seen[0] = Step(seen, 0) /\ seen[1] = Step(seen, 1)
      <3> HIDE DEF Step
      <3> QED
        BY <1>1, <1>3, <2>1
    <2>3. seen[0] = {}
      BY <2>2
    <2> QED
      BY <1>1, <2>1, <2>2, <2>3
  <1>5. Token!EdgesOf(index, face, lib, <<ref>>) = {pair[2] : pair \in seen[Len(<<ref>>)]}
    BY DEF Token!EdgesOf
  <1> HIDE DEF seen
  <1> QED
    BY <1>1, <1>4, <1>5

\* The n-th base is the first with a useful name, and is itself that name.
FirstUse(index, face, lib, bases, n, name) ==
  /\ n \in 1 .. Len(bases) /\ name = bases[n]
  /\ Token!AddsEdge(index, face, lib, {}, name)
  /\ \A i \in 1 .. n - 1 : \A k \in 1 .. Len(bases[i]) :
       ~Token!AddsEdge(index, face, lib, {}, SubSeq(bases[i], 1, k))

LEMMA ReferredFirst ==
  ASSUME NEW index, NEW face, NEW lib, NEW ref,
         NEW bases \in Seq(Seq(STRING)), bases = Token!Bases(ref.chain, ref.scope),
         NEW name \in Seq(STRING), NEW n, FirstUse(index, face, lib, bases, n, name)
  PROVE  Token!Referred(index, face, lib, {}, ref) = {<<name, index[name].home>>}
  <1> DEFINE useful(i) == {k \in 1 .. Len(bases[i]) :
                             Token!AddsEdge(index, face, lib, {}, SubSeq(bases[i], 1, k))}
             hits == {i \in 1 .. Len(bases) : useful(i) # {}}
             found == SubSeq(bases[Token!Min(hits)], 1, Token!Max(useful(Token!Min(hits))))
  <1>1. Token!Referred(index, face, lib, {}, ref)
          = IF hits = {} THEN {} ELSE {} \cup {<<found, index[found].home>>}
    BY DEF Token!Referred
  <1>2. /\ bases \in Seq(Seq(STRING)) /\ n \in 1 .. Len(bases) /\ name = bases[n]
        /\ \A i \in 1 .. n - 1 : \A k \in 1 .. Len(bases[i]) :
             ~Token!AddsEdge(index, face, lib, {}, SubSeq(bases[i], 1, k))
    BY DEF FirstUse
  <1>3. Len(name) \in Nat /\ Len(name) > 0 /\ SubSeq(name, 1, Len(name)) = name
    <2>1. Len(name) > 1
      BY DEF FirstUse, Token!AddsEdge, Token!InBoost
    <2>2. Len(name) \in Nat
      OBVIOUS
    <2>3. SubSeq(name, 1, Len(name)) = name
      BY <2>2
    <2> QED
      BY <2>1, <2>2, <2>3
  <1>4. useful(n) \in SUBSET (1 .. Len(name)) /\ Len(name) \in useful(n)
    <2>1. Len(name) \in 1 .. Len(bases[n]) /\ SubSeq(bases[n], 1, Len(name)) = name
      BY <1>2, <1>3
    <2>2. Token!AddsEdge(index, face, lib, {}, SubSeq(bases[n], 1, Len(name)))
      BY <2>1 DEF FirstUse
    <2>3. \A k \in useful(n) : k \in 1 .. Len(name)
      BY <1>2
    <2> QED
      BY <2>1, <2>2, <2>3
  <1>5. hits \in SUBSET Nat /\ n \in hits
    <2>1. Len(bases) \in Nat
      BY <1>2
    <2> HIDE DEF useful
    <2> QED
      BY <1>2, <1>4, <2>1
  <1>6. \A i \in hits : n <= i
    <2> SUFFICES ASSUME NEW i \in hits, ~(n <= i) PROVE FALSE
      OBVIOUS
    <2>1. i \in 1 .. Len(bases) /\ useful(i) # {} /\ n \in Nat
      <3> HIDE DEF useful
      <3> QED
        BY <1>2
    <2>2. i \in 1 .. n - 1
      BY <2>1
    <2>3. useful(i) = {}
      BY <1>2, <2>2
    <2> QED
      BY <2>1, <2>3
  <1> HIDE DEF useful, hits
  <1>7. Token!Min(hits) = n
    BY <1>5, <1>6, FirstHit
  <1>8. Token!Max(useful(n)) = Len(name)
    BY <1>3, <1>4, LongestPrefix
  <1>9. found = name
    BY <1>2, <1>3, <1>7, <1>8
  <1> HIDE DEF found
  <1> QED
    BY <1>1, <1>5, <1>9

\* The first k segments of a name.
LEMMA PrefixOf ==
  ASSUME NEW name \in Seq(STRING), NEW k \in 0 .. Len(name)
  PROVE  /\ Prefix(name, k) \in Seq(STRING)
         /\ Len(Prefix(name, k)) = k
         /\ \A i \in 1 .. k : Prefix(name, k)[i] = name[i]
  <1>1. k \in Int /\ 1 \in Int /\ Len(name) \in Nat
    OBVIOUS
  <1>2. \A i \in 1 .. k : name[i] \in STRING
    OBVIOUS
  <1>3. /\ SubSeq(name, 1, k) \in Seq(STRING)
        /\ Len(SubSeq(name, 1, k)) = IF 1 <= k THEN k - 1 + 1 ELSE 0
        /\ \A i \in 1 .. k - 1 + 1 : SubSeq(name, 1, k)[i] = name[1 + i - 1]
    BY <1>1, <1>2, SubSeqProperties
  <1> QED
    BY <1>1, <1>3 DEF Prefix

LEMMA PrefixOfPrefix ==
  ASSUME NEW name \in Seq(STRING), NEW m \in 0 .. Len(name), NEW k \in 0 .. m
  PROVE  Prefix(Prefix(name, m), k) = Prefix(name, k)
  <1>1. k \in 0 .. Len(name) /\ m \in Nat /\ k \in Nat
    OBVIOUS
  <1>2. /\ Prefix(name, m) \in Seq(STRING) /\ Len(Prefix(name, m)) = m
        /\ \A i \in 1 .. m : Prefix(name, m)[i] = name[i]
    BY PrefixOf
  <1>3. /\ Prefix(name, k) \in Seq(STRING) /\ Len(Prefix(name, k)) = k
        /\ \A i \in 1 .. k : Prefix(name, k)[i] = name[i]
    BY <1>1, PrefixOf
  <1>4. /\ Prefix(Prefix(name, m), k) \in Seq(STRING) /\ Len(Prefix(Prefix(name, m), k)) = k
        /\ \A i \in 1 .. k : Prefix(Prefix(name, m), k)[i] = Prefix(name, m)[i]
    BY <1>2, PrefixOf
  <1>5. \A i \in 1 .. k : Prefix(Prefix(name, m), k)[i] = Prefix(name, k)[i]
    BY <1>1, <1>2, <1>3, <1>4
  <1> QED
    BY <1>3, <1>4, <1>5, SeqEqual

\* A relative name in one of the namespaces around it.
LEMMA BaseOf ==
  ASSUME NEW scope \in Seq(STRING), NEW chain \in Seq(STRING) \ {<< >>},
         NEW k \in 0 .. Len(scope)
  PROVE  LET base == Prefix(scope, k) \o chain
         IN  /\ base \in Seq(STRING)
             /\ Len(base) = k + Len(chain) /\ Len(chain) > 0
             /\ \A m \in 0 .. k : Prefix(base, m) = Prefix(scope, m)
             /\ Prefix(base, k + 1) = Append(Prefix(scope, k), chain[1])
  <1> DEFINE base == Prefix(scope, k) \o chain
  <1>1. k \in Nat /\ Len(scope) \in Nat /\ Len(chain) \in Nat /\ Len(chain) > 0
        /\ chain[1] \in STRING
    OBVIOUS
  <1>2. /\ Prefix(scope, k) \in Seq(STRING) /\ Len(Prefix(scope, k)) = k
        /\ \A i \in 1 .. k : Prefix(scope, k)[i] = scope[i]
    BY PrefixOf
  <1>3. /\ base \in Seq(STRING) /\ Len(base) = k + Len(chain)
        /\ \A i \in 1 .. k + Len(chain) :
             base[i] = IF i <= k THEN Prefix(scope, k)[i] ELSE chain[i - k]
    <2> DEFINE p == Prefix(scope, k)
    <2>1. p \in Seq(STRING) /\ Len(p) = k /\ chain \in Seq(STRING)
      BY <1>2
    <2> HIDE DEF p
    <2>2. /\ p \o chain \in Seq(STRING) /\ Len(p \o chain) = Len(p) + Len(chain)
          /\ \A i \in 1 .. Len(p) + Len(chain) :
               (p \o chain)[i] = IF i <= Len(p) THEN p[i] ELSE chain[i - Len(p)]
      BY <2>1, ConcatProperties
    <2> QED
      BY <2>1, <2>2 DEF p
  <1> HIDE DEF base
  <1>4. ASSUME NEW m \in 0 .. k PROVE Prefix(base, m) = Prefix(scope, m)
    <2>1. m \in 0 .. Len(base) /\ m \in 0 .. Len(scope)
      BY <1>1, <1>3
    <2>2. /\ Prefix(base, m) \in Seq(STRING) /\ Len(Prefix(base, m)) = m
          /\ \A i \in 1 .. m : Prefix(base, m)[i] = base[i]
      BY <1>3, <2>1, PrefixOf
    <2>3. /\ Prefix(scope, m) \in Seq(STRING) /\ Len(Prefix(scope, m)) = m
          /\ \A i \in 1 .. m : Prefix(scope, m)[i] = scope[i]
      BY <2>1, PrefixOf
    <2>4. \A i \in 1 .. m : base[i] = scope[i]
      BY <1>1, <1>2, <1>3
    <2>5. \A i \in 1 .. m : Prefix(base, m)[i] = Prefix(scope, m)[i]
      BY <2>2, <2>3, <2>4
    <2> QED
      BY <2>2, <2>3, <2>5, SeqEqual
  <1>5. Prefix(base, k + 1) = Append(Prefix(scope, k), chain[1])
    <2>1. k + 1 \in 0 .. Len(base)
      BY <1>1, <1>3
    <2>2. /\ Prefix(base, k + 1) \in Seq(STRING) /\ Len(Prefix(base, k + 1)) = k + 1
          /\ \A i \in 1 .. k + 1 : Prefix(base, k + 1)[i] = base[i]
      BY <1>3, <2>1, PrefixOf
    <2> DEFINE longer == Append(Prefix(scope, k), chain[1])
    <2>3. /\ longer \in Seq(STRING) /\ Len(longer) = k + 1
          /\ \A i \in 1 .. k : longer[i] = Prefix(scope, k)[i]
          /\ longer[k + 1] = chain[1]
      BY <1>1, <1>2, AppendProperties
    <2> HIDE DEF longer
    <2>4. \A i \in 1 .. k + 1 : base[i] = longer[i]
      <3>1. \A i \in 1 .. k : base[i] = longer[i]
        BY <1>1, <1>3, <2>3
      <3>2. base[k + 1] = chain[1]
        BY <1>1, <1>3
      <3> QED
        BY <1>1, <2>3, <3>1, <3>2
    <2>5. \A i \in 1 .. k + 1 : Prefix(base, k + 1)[i] = longer[i]
      BY <2>2, <2>4
    <2>6. Prefix(base, k + 1) = longer
      BY <2>2, <2>3, <2>5, SeqEqual
    <2> QED
      BY <2>6 DEF longer
  <1> QED
    BY <1>1, <1>3, <1>4, <1>5 DEF base

\* The namespace of the template is like the name of its own library only.
OwnNamespace(index, lib, scope) ==
  \A home \in {index[x].home : x \in DOMAIN index} : <<scope[2], home>> \in Similar => home = lib

\* Where the namespaces are declared, a relative name in a namespace that is not the
\* one it is found in leads nowhere: its own segments are not declared there, and the
\* namespaces around it are those of the library itself.
LEMMA DeeperLeadsNowhere ==
  ASSUME NEW index, NEW face, NEW lib, NEW ref,
         DOMAIN index \subseteq Seq(STRING), NamespacesDeclared(index, ref),
         ref.scope \in Seq(STRING), ref.chain \in Seq(STRING) \ {<< >>},
         OwnNamespace(index, lib, ref.scope),
         NEW k \in 1 .. Len(ref.scope),
         Append(Prefix(ref.scope, k), ref.chain[1]) \notin DOMAIN index,
         NEW m \in 1 .. k + Len(ref.chain)
  PROVE  ~Token!AddsEdge(index, face, lib, {}, Prefix(Prefix(ref.scope, k) \o ref.chain, m))
  <1> DEFINE scope == ref.scope
             base == Prefix(scope, k) \o ref.chain
             name == Prefix(base, m)
  <1>1. k \in 0 .. Len(scope) /\ k \in Nat /\ m \in Nat /\ Len(ref.chain) \in Nat
        /\ Len(scope) \in Nat
    OBVIOUS
  <1>2. /\ base \in Seq(STRING)
        /\ Len(base) = k + Len(ref.chain) /\ Len(ref.chain) > 0
        /\ \A i \in 0 .. k : Prefix(base, i) = Prefix(scope, i)
        /\ Prefix(base, k + 1) = Append(Prefix(scope, k), ref.chain[1])
    BY <1>1, BaseOf
  <1>3. Prefix(base, k + 1) \notin DOMAIN index
    BY <1>2
  <1>4. \A i \in 2 .. Len(scope) : Prefix(scope, i) \in DOMAIN index
                                     => index[Prefix(scope, i)].namespace
    BY DEF NamespacesDeclared
  <1>5. \A x \in DOMAIN index : \A i \in 2 .. Len(x) : Prefix(x, i) \in DOMAIN index
    BY DEF NamespacesDeclared
  <1>6. \A home \in {index[x].home : x \in DOMAIN index} :
          <<scope[2], home>> \in Similar => home = lib
    BY DEF OwnNamespace
  <1>7. scope \in Seq(STRING) /\ k \in 1 .. Len(scope) /\ m \in 1 .. Len(base)
    BY <1>2
  <1> HIDE DEF scope, base
  <1> SUFFICES ASSUME Token!AddsEdge(index, face, lib, {}, name)
               PROVE  FALSE
    BY DEF base, scope
  <1>8. /\ name \in DOMAIN index /\ Token!InBoost(name)
        /\ index[name].home # lib
        /\ index[name].namespace => <<name[2], index[name].home>> \in Similar
    BY DEF Token!AddsEdge
  <1>9. Len(name) = m /\ m > 1
    <2>1. Len(name) = m
      BY <1>1, <1>2, <1>7, PrefixOf
    <2> QED
      BY <1>8, <2>1 DEF Token!InBoost
  <1>10. CASE m <= k
    <2>1. name = Prefix(scope, m) /\ m \in 2 .. Len(scope)
      BY <1>1, <1>2, <1>7, <1>9, <1>10
    <2>2. index[name].namespace
      BY <1>4, <1>8, <2>1
    <2>3. name[2] = scope[2]
      <3>1. m \in 0 .. Len(scope) /\ 2 \in 1 .. m
        BY <2>1
      <3>2. \A i \in 1 .. m : Prefix(scope, m)[i] = scope[i]
        BY <1>7, <3>1, PrefixOf
      <3> QED
        BY <2>1, <3>1, <3>2
    <2> QED
      BY <1>6, <1>8, <2>2, <2>3
  <1>11. CASE m > k
    <2>1. k + 1 \in 2 .. m /\ m \in 0 .. Len(base) /\ k + 1 \in 0 .. m
      BY <1>1, <1>7, <1>11
    <2>2. Prefix(name, k + 1) = Prefix(base, k + 1)
      BY <1>2, <2>1, PrefixOfPrefix
    <2>3. Prefix(name, k + 1) \in DOMAIN index
      BY <1>5, <1>8, <1>9, <2>1
    <2> QED
      BY <1>3, <2>2, <2>3
  <1> QED
    BY <1>1, <1>10, <1>11

\* In a template at home the chain gives the edge of what it means: its own name in the
\* innermost namespace that declares its first segment.
LEMMA ReferredMeant ==
  ASSUME NEW index, NEW face, NEW lib, NEW ref, NEW name \in DOMAIN index \ face,
         DOMAIN index \subseteq Seq(STRING), NamespacesDeclared(index, ref),
         ref.scope \in Seq(STRING), ref.chain \in Seq(STRING) \ {<< >>},
         OwnNamespace(index, lib, ref.scope),
         Token!InBoost(name), index[name].home \notin {lib, "shared"},
         name = MeantIn(index, ref)
  PROVE  Token!Referred(index, face, lib, {}, ref) = {<<name, index[name].home>>}
  <1> DEFINE scope == ref.scope
             chain == ref.chain
             bases == Token!Bases(chain, scope)
             around == {k \in 1 .. Len(scope) : Append(Prefix(scope, k), chain[1]) \in DOMAIN index}
             inner == Max(around \cup {0})
  <1>1. /\ DOMAIN index \subseteq Seq(STRING)
        /\ scope \in Seq(STRING) /\ chain \in Seq(STRING) \ {<< >>}
        /\ NamespacesDeclared(index, ref)
    OBVIOUS
  <1>2. /\ name \in DOMAIN index \ face /\ Token!InBoost(name)
        /\ index[name].home \notin {lib, "shared"}
    OBVIOUS
  <1>3. OwnNamespace(index, lib, scope)
    OBVIOUS
  <1>5. \A k \in 0 .. Len(scope) : Prefix(scope, k) \o chain \in DOMAIN index
                                     => ~index[Prefix(scope, k) \o chain].namespace
    BY DEF NamespacesDeclared
  <1>6. ~index[name].namespace => Token!AddsEdge(index, face, lib, {}, name)
    BY <1>2 DEF Token!AddsEdge, Token!Shared
  <1>7. name \in Seq(STRING)
    BY <1>1, <1>2
  <1>8. name = IF chain[1] = "boost" THEN chain ELSE Prefix(scope, inner) \o chain
    BY DEF MeantIn
  <1>9. CASE chain[1] = "boost"
    <2>1. Prefix(scope, 0) \o chain = chain /\ 0 \in 0 .. Len(scope)
      <3>1. Len(scope) \in Nat
        BY <1>1
      <3>2. Prefix(scope, 0) = << >>
        <4>1. /\ Prefix(scope, 0) \in Seq(STRING) /\ Len(Prefix(scope, 0)) = 0
          BY <1>1, <3>1, PrefixOf
        <4> QED
          BY <4>1
      <3>3. chain \in Seq(STRING)
        BY <1>1
      <3>4. << >> \o chain = chain
        BY <3>3, ConcatEmptySeq
      <3>5. 0 \in 0 .. Len(scope)
        BY <3>1
      <3> QED
        BY <3>2, <3>4, <3>5, Zenon
    <2>2. Token!AddsEdge(index, face, lib, {}, name)
      BY <1>2, <1>5, <1>6, <1>8, <1>9, <2>1
    <2>3. bases = <<chain>>
      BY <1>9 DEF Token!Bases
    <2>4. bases \in Seq(Seq(STRING)) /\ 1 \in 1 .. Len(bases) /\ name = bases[1]
      BY <1>1, <1>8, <1>9, <2>3
    <2>5. \A i \in 1 .. 1 - 1 : FALSE
      OBVIOUS
    <2> HIDE DEF bases
    <2>6. bases = Token!Bases(ref.chain, ref.scope)
      BY DEF bases
    <2>7. FirstUse(index, face, lib, bases, 1, name)
      BY <2>2, <2>4, <2>5 DEF FirstUse
    <2>8. bases \in Seq(Seq(STRING))
      BY <2>4
    <2> QED
      BY <1>7, <2>8, <2>6, <2>7, ReferredFirst
  <1>10. CASE chain[1] # "boost"
    <2>1. Len(scope) \in Nat /\ chain \in Seq(STRING)
      BY <1>1
    <2>2. inner \in 0 .. Len(scope) /\ \A k \in around : k <= inner
      <3>1. around \cup {0} \in SUBSET (0 .. Len(scope)) /\ around \cup {0} # {}
        BY <2>1
      <3> HIDE DEF around
      <3>2. Max(around \cup {0}) \in around \cup {0} /\ \A y \in around \cup {0} : y <= Max(around \cup {0})
        BY <2>1, <3>1, GreatestMember
      <3> QED
        BY <3>1, <3>2
    <2>3. \A k \in 1 .. Len(scope) : k > inner => Append(Prefix(scope, k), chain[1]) \notin DOMAIN index
      <3> HIDE DEF inner
      <3> SUFFICES ASSUME NEW k \in 1 .. Len(scope), k > inner,
                          Append(Prefix(scope, k), chain[1]) \in DOMAIN index
                   PROVE  FALSE
        OBVIOUS
      <3>1. k \in around
        OBVIOUS
      <3>2. k <= inner /\ k \in Nat /\ inner \in Int
        BY <2>2, <3>1
      <3> QED
        BY <3>2
    <2> HIDE DEF inner, around
    <2>4. name = Prefix(scope, inner) \o chain
      BY <1>8, <1>10
    <2>5. Token!AddsEdge(index, face, lib, {}, name)
      BY <1>2, <1>5, <1>6, <2>2, <2>4
    <2>6. bases = [i \in 1 .. Len(scope) + 1 |-> Prefix(scope, Len(scope) + 1 - i) \o chain]
      BY <1>10 DEF Token!Bases, Prefix
    <2> HIDE DEF bases
    <2>7. \A i \in 1 .. Len(scope) + 1 :
            /\ Len(scope) + 1 - i \in 0 .. Len(scope)
            /\ bases[i] = Prefix(scope, Len(scope) + 1 - i) \o chain
            /\ bases[i] \in Seq(STRING)
            /\ Len(bases[i]) = Len(scope) + 1 - i + Len(chain)
      <3> SUFFICES ASSUME NEW i \in 1 .. Len(scope) + 1
                   PROVE  /\ Len(scope) + 1 - i \in 0 .. Len(scope)
                          /\ bases[i] = Prefix(scope, Len(scope) + 1 - i) \o chain
                          /\ bases[i] \in Seq(STRING)
                          /\ Len(bases[i]) = Len(scope) + 1 - i + Len(chain)
        OBVIOUS
      <3>1. Len(scope) + 1 - i \in 0 .. Len(scope)
        BY <2>1
      <3>2. bases[i] = Prefix(scope, Len(scope) + 1 - i) \o chain
        BY <2>6
      <3> DEFINE k == Len(scope) + 1 - i
                 base == Prefix(scope, k) \o chain
      <3>3. k \in 0 .. Len(scope) /\ scope \in Seq(STRING) /\ chain \in Seq(STRING) \ {<< >>}
        BY <1>1, <3>1
      <3> HIDE DEF k
      <3>4. base \in Seq(STRING) /\ Len(base) = k + Len(chain)
        BY <3>3, BaseOf
      <3> HIDE DEF base
      <3> QED
        BY <3>1, <3>2, <3>4 DEF k, base
    <2> DEFINE n == Len(scope) + 1 - inner
    <2>8. n \in 1 .. Len(scope) + 1 /\ Len(scope) + 1 - n = inner
      BY <2>1, <2>2
    <2>9. /\ bases \in Seq(Seq(STRING)) /\ Len(bases) = Len(scope) + 1
          /\ n \in 1 .. Len(bases) /\ name = bases[n]
      <3>1. DOMAIN bases = 1 .. Len(scope) + 1 /\ \A i \in 1 .. Len(scope) + 1 : bases[i] \in Seq(STRING)
        BY <2>6, <2>7
      <3>2. bases \in [1 .. Len(scope) + 1 -> Seq(STRING)]
        BY <2>6, <3>1
      <3>3. bases \in Seq(Seq(STRING)) /\ Len(bases) = Len(scope) + 1
        <4> DEFINE Strings == Seq(STRING)
        <4>1. Len(scope) + 1 \in Nat /\ bases \in [1 .. Len(scope) + 1 -> Strings]
          BY <2>1, <3>2
        <4> HIDE DEF Strings
        <4>2. bases \in Seq(Strings) /\ Len(bases) = Len(scope) + 1
          BY <4>1
        <4> QED
          BY <4>2 DEF Strings
      <3> HIDE DEF n
      <3>4. name = bases[n]
        BY <2>4, <2>7, <2>8
      <3> QED
        BY <2>8, <3>3, <3>4
    <2> HIDE DEF n
    <2>10. \A i \in 1 .. n - 1 : \A m \in 1 .. Len(bases[i]) :
             ~Token!AddsEdge(index, face, lib, {}, SubSeq(bases[i], 1, m))
      <3> SUFFICES ASSUME NEW i \in 1 .. n - 1, NEW m \in 1 .. Len(bases[i])
                   PROVE  ~Token!AddsEdge(index, face, lib, {}, SubSeq(bases[i], 1, m))
        OBVIOUS
      <3> DEFINE k == Len(scope) + 1 - i
      <3>1. i \in 1 .. Len(scope) + 1 /\ k \in 1 .. Len(scope) /\ k > inner
        BY <2>1, <2>2, <2>8
      <3>2. bases[i] = Prefix(scope, k) \o chain /\ Len(bases[i]) = k + Len(chain)
        BY <2>7, <3>1
      <3>3. m \in 1 .. k + Len(chain)
        BY <3>2
      <3> HIDE DEF k
      <3>4. Append(Prefix(scope, k), chain[1]) \notin DOMAIN index
        BY <2>3, <3>1
      <3>5. ~Token!AddsEdge(index, face, lib, {}, Prefix(Prefix(scope, k) \o chain, m))
        BY <1>1, <1>3, <3>1, <3>3, <3>4, DeeperLeadsNowhere
      <3> QED
        BY <3>2, <3>5 DEF Prefix
    <2>11. bases = Token!Bases(ref.chain, ref.scope)
      BY DEF bases
    <2>12. FirstUse(index, face, lib, bases, n, name)
      BY <2>5, <2>9, <2>10 DEF FirstUse
    <2>13. bases \in Seq(Seq(STRING))
      BY <2>9
    <2> HIDE DEF scope, chain
    <2> QED
      BY <1>7, <2>11, <2>12, <2>13, ReferredFirst
  <1> QED
    BY <1>9, <1>10

\* Any names, any chain: a chain in a template at home leads to the library of what it
\* means in C++, and nowhere else.
THEOREM EdgesLead == Spec => []EdgeForReferenced
  <1>1. input \in Inputs => EdgeForReferenced
    <2> SUFFICES ASSUME input \in Inputs, Asks("reference"), AtHome, Foreign(Meant)
                 PROVE  Leads(<<input.ref>>) = {input.index[Meant].home}
      BY DEF EdgeForReferenced
    <2> DEFINE index == input.index
               face == input.face
               lib == input.lib
               ref == input.ref
    <2>1. /\ DOMAIN index \subseteq Seq(STRING)
          /\ ref.scope \in Seq(STRING) /\ ref.chain \in Seq(STRING) \ {<< >>}
          /\ NamespacesDeclared(index, ref)
      BY InputsAssumption DEF Asks
    <2>2. /\ Meant \in DOMAIN index \ face /\ Token!InBoost(Meant)
          /\ index[Meant].home \notin {lib, "shared"}
          /\ Meant = MeantIn(index, ref)
      BY DEF Foreign, Meant
    <2>3. OwnNamespace(index, lib, ref.scope)
      BY DEF AtHome, OwnNamespace
    <2>4. Leads(<<ref>>) = {pair[2] : pair \in Token!Referred(index, face, lib, {}, ref)}
      BY EdgesOfOne DEF Leads
    <2> HIDE DEF index, face, lib, ref
    <2>5. Token!Referred(index, face, lib, {}, ref) = {<<Meant, index[Meant].home>>}
      BY <2>1, <2>2, <2>3, ReferredMeant
    <2>6. {pair[2] : pair \in {<<Meant, index[Meant].home>>}} = {index[Meant].home}
      OBVIOUS
    <2>7. Leads(<<ref>>) = {index[Meant].home}
      BY <2>4, <2>5, <2>6
    <2> QED
      BY <2>7 DEF ref, index
  <1> QED
    BY <1>1, AlwaysAnInput, PTL

-----------------------------------------------------------------------------
(***************************************************************************)
(* The tokens of a variable template.                                      *)
(***************************************************************************)
AnyToken == STRING \cup {"template", "<", "bool", "v", "=", Token!Semicolon, "b", "::", "z"}

Code == Seq(AnyToken)

\* The chain read at token i.
Chain(toks, i) == [k \in 1 .. Token!Joins(toks, i) + 1 |-> toks[i + 2 * k - 2]]

\* Where a chain may go on, and how many times it does.
Joined(toks, i, m) ==
  Token!At(toks, i + 2 * m - 1) = "::" /\ Token!Identifier(Token!At(toks, i + 2 * m))

\* A chain ends where it first does not go on.
LEMMA JoinsAre ==
  ASSUME NEW toks \in Code, NEW i \in 1 .. Len(toks), NEW n \in 0 .. Len(toks),
         \A m \in 1 .. n : Joined(toks, i, m), ~Joined(toks, i, n + 1)
  PROVE  Token!Joins(toks, i) = n
  <1> DEFINE S == {k \in 0 .. Len(toks) : \A m \in 1 .. k : Joined(toks, i, m)}
  <1>0. Len(toks) \in Nat
    BY LenProperties DEF Code
  <1>1. n \in S
    OBVIOUS
  <1>2. ASSUME NEW k \in S PROVE k <= n
    <2> SUFFICES ASSUME ~(k <= n) PROVE FALSE
      OBVIOUS
    <2>1. n + 1 \in 1 .. k
      BY <1>0
    <2> QED
      BY <2>1
  <1>3. Token!Joins(toks, i) = Token!Max(S)
    BY DEF Token!Joins, Joined
  <1>4. S \in SUBSET Nat
    BY <1>0
  <1> HIDE DEF S
  <1>5. ASSUME NEW x \in S, \A y \in S : x >= y PROVE x = n
    BY <1>1, <1>2, <1>4, <1>5
  <1>6. \A y \in S : n >= y
    BY <1>1, <1>2, <1>4
  <1> QED
    BY <1>1, <1>3, <1>5, <1>6 DEF Token!Max

\* A chain is read to its end, and the scan goes on behind it.
LEMMA JoinsFit ==
  ASSUME NEW toks \in Code, NEW i \in 1 .. Len(toks)
  PROVE  /\ Token!Joins(toks, i) \in Nat
         /\ i + 2 * Token!Joins(toks, i) + 1 \in i + 1 .. Len(toks) + 1
         /\ Chain(toks, i) \in Code
  <1> DEFINE S == {k \in 0 .. Len(toks) : \A m \in 1 .. k : Joined(toks, i, m)}
             J == Token!Joins(toks, i)
  <1>0. Len(toks) \in Nat
    BY LenProperties DEF Code
  <1>1. 0 \in S
    BY <1>0
  <1>2. J = Token!Max(S)
    BY DEF Token!Joins, Joined
  <1>3. S \in SUBSET (0 .. Len(toks))
    OBVIOUS
  <1>4. Max(S) \in S
    <2> HIDE DEF S
    <2> QED
      BY <1>0, <1>1, <1>3, GreatestMember
  <1>5. Token!Max(S) = Max(S)
    BY DEF Token!Max, Max
  <1>6. J \in 0 .. Len(toks) /\ \A m \in 1 .. J : Joined(toks, i, m)
    BY <1>2, <1>4, <1>5
  <1> HIDE DEF J, S
  <1>7. i + 2 * J <= Len(toks)
    <2>1. CASE J = 0
      BY <2>1, <1>0
    <2>2. CASE J # 0
      <3>1. J \in 1 .. J
        BY <2>2, <1>6, <1>0
      <3>2. Token!Identifier(Token!At(toks, i + 2 * J))
        BY <3>1, <1>6 DEF Joined
      <3> QED
        <4>1. Token!At(toks, i + 2 * J) # ""
          BY <3>2 DEF Token!Identifier
        <4>2. i + 2 * J \in 1 .. Len(toks)
          BY <4>1 DEF Token!At
        <4> QED
          BY <4>2
    <2> QED
      BY <2>1, <2>2
  <1>8. ASSUME NEW k \in 1 .. J + 1 PROVE toks[i + 2 * k - 2] \in AnyToken
    <2>1. i + 2 * k - 2 \in 1 .. Len(toks)
      BY <1>0, <1>6, <1>7
    <2> QED
      BY <2>1, ElementOfSeq DEF Code
  <1>9. Chain(toks, i) \in [1 .. J + 1 -> AnyToken]
    BY <1>8 DEF Chain, J
  <1>10. Chain(toks, i) \in Code
    BY <1>9, <1>6, <1>0, FunctionIsSeq DEF Code
  <1> QED
    BY <1>0, <1>6, <1>7, <1>10 DEF J

Codes == Seq(Code)

\* Whether a chain is read at token i, and where the scan goes on.
Reads(toks, i) == Token!Identifier(toks[i]) /\ Token!At(toks, i + 1) = "::"
Behind(toks, i) == i + 2 * Token!Joins(toks, i) + 1

\* A scan goes on further behind.
LEMMA BehindIsBelow ==
  ASSUME NEW toks \in Code, NEW i \in 1 .. Len(toks)
  PROVE  Behind(toks, i) \in i + 1 .. Len(toks) + 1
  BY JoinsFit DEF Behind

\* f is what the scan finds from token i on.
Scans(toks, f) ==
  /\ f[Len(toks) + 1] = << >>
  /\ \A i \in 1 .. Len(toks) + 1 : f[i] \in Codes
  /\ \A i \in 1 .. Len(toks) :
       f[i] = IF Reads(toks, i) THEN <<Chain(toks, i)>> \o f[Behind(toks, i)] ELSE f[i + 1]

\* The scan as steps from the last token to the first.
LEMMA ScanSteps ==
  ASSUME NEW toks \in Code
  PROVE  \E f : Scans(toks, f) /\ f[1] = Token!Chains(toks)
  <1> DEFINE L == Len(toks)
             next(f, i) == IF i > L THEN << >>
                           ELSE IF Reads(toks, i) THEN <<Chain(toks, i)>> \o f[Behind(toks, i)]
                           ELSE f[i + 1]
             Is(m, f) == \A i \in L + 1 - m .. L + 1 : f[i] = next(f, i)
             D == {m \in Nat : m <= L => \E f \in [L + 1 - m .. L + 1 -> Codes] : Is(m, f)}
  <1>0. L \in Nat
    BY LenProperties DEF Code
  <1>1. 0 \in D
    <2> DEFINE g == [i \in L + 1 .. L + 1 |-> << >>]
    <2>1. << >> \in Codes
      BY EmptySeq DEF Codes
    <2>2. g \in [L + 1 - 0 .. L + 1 -> Codes]
      BY <1>0, <2>1
    <2>3. Is(0, g)
      BY <1>0
    <2> HIDE DEF Is, g
    <2> QED
      BY <2>2, <2>3
  <1>2. ASSUME NEW m \in D PROVE m + 1 \in D
    <2> SUFFICES ASSUME m + 1 <= L
                 PROVE  \E f \in [L + 1 - (m + 1) .. L + 1 -> Codes] : Is(m + 1, f)
      <3> HIDE DEF Is
      <3> QED
        OBVIOUS
    <2>0. m \in Nat /\ m <= L
      BY <1>0
    <2>1. PICK h \in [L + 1 - m .. L + 1 -> Codes] : Is(m, h)
      <3> HIDE DEF Is
      <3> QED
        BY <2>0
    <2> DEFINE k == L - m
    <2>2. k \in 1 .. L /\ L + 1 - (m + 1) = k /\ L + 1 - m = k + 1
      BY <1>0, <2>0
    <2>3. Behind(toks, k) \in k + 1 .. L + 1 /\ k + 1 \in k + 1 .. L + 1
      BY <2>2, BehindIsBelow
    <2>4. Chain(toks, k) \in Code
      BY <2>2, JoinsFit
    <2> HIDE DEF k, next
    <2> DEFINE g == [i \in k .. L + 1 |-> IF i = k THEN next(h, k) ELSE h[i]]
    <2>5. \A i \in k + 1 .. L + 1 : h[i] \in Codes
      BY <2>2
    <2>6. next(h, k) \in Codes
      <3> DEFINE e == Behind(toks, k)
      <3> HIDE DEF e
      <3>1. h[e] \in Codes /\ h[k + 1] \in Codes
        BY <2>3, <2>5 DEF e
      <3>2. <<Chain(toks, k)>> \o h[e] \in Codes
        <4>1. <<Chain(toks, k)>> \in Codes
          BY <2>4 DEF Codes
        <4> QED
          BY <3>1, <4>1, ConcatProperties DEF Codes
      <3>3. ~(k > L)
        BY <1>0, <2>2
      <3> QED
        BY <3>1, <3>2, <3>3 DEF next, e
    <2>7. g \in [L + 1 - (m + 1) .. L + 1 -> Codes]
      BY <1>0, <2>2, <2>5, <2>6
    <2>8. \A i \in k + 1 .. L + 1 : g[i] = h[i]
      BY <1>0, <2>2
    <2>9. ASSUME NEW i \in k .. L + 1 PROVE g[i] = next(g, i)
      <3>1. CASE i = k
        <4>1. g[i] = next(h, k)
          BY <3>1, <1>0, <2>2
        <4>2. g[Behind(toks, k)] = h[Behind(toks, k)] /\ g[k + 1] = h[k + 1]
          BY <2>3, <2>8
        <4> HIDE DEF g
        <4>3. next(h, k) = next(g, k)
          BY <4>2 DEF next
        <4> QED
          BY <3>1, <4>1, <4>3
      <3>2. CASE i # k
        <4>1. i \in k + 1 .. L + 1
          BY <3>2, <1>0, <2>2
        <4>2. h[i] = next(h, i)
          BY <4>1, <2>1, <2>2
        <4>3. g[i] = h[i]
          BY <4>1, <2>8
        <4> HIDE DEF g
        <4>4. ASSUME i <= L PROVE next(h, i) = next(g, i)
          <5>1. Behind(toks, i) \in i + 1 .. L + 1
            BY <4>1, <4>4, <1>0, <2>2, BehindIsBelow
          <5>2. Behind(toks, i) \in k + 1 .. L + 1 /\ i + 1 \in k + 1 .. L + 1
            BY <4>1, <4>4, <5>1, <1>0, <2>2
          <5>3. /\ g[Behind(toks, i)] = h[Behind(toks, i)]
                /\ g[i + 1] = h[i + 1]
            BY <5>2, <2>8
          <5> QED
            BY <5>3 DEF next
        <4>5. ASSUME ~(i <= L) PROVE next(h, i) = next(g, i)
          <5>1. i > L
            BY <4>1, <4>5, <1>0, <2>2
          <5> QED
            BY <5>1 DEF next
        <4> QED
          BY <4>2, <4>3, <4>4, <4>5
      <3> QED
        BY <3>1, <3>2
    <2>10. Is(m + 1, g)
      BY <2>2, <2>9
    <2> HIDE DEF g, Is
    <2> QED
      BY <2>7, <2>10
  <1> HIDE DEF D
  <1>3. D = Nat
    BY <1>1, <1>2, SetInduction DEF D
  <1>4. PICK f \in [1 .. L + 1 -> Codes] : Is(L, f)
    <2>1. L + 1 - L = 1
      BY <1>0
    <2> HIDE DEF Is
    <2>2. \E f \in [L + 1 - L .. L + 1 -> Codes] : Is(L, f)
      BY <1>0, <1>3 DEF D
    <2> QED
      BY <2>1, <2>2
  <1> DEFINE Eq(k) == k = [i \in 1 .. L + 1 |-> next(k, i)]
             found == CHOOSE k : Eq(k)
  <1>5. Eq(f)
    <2>1. \A i \in 1 .. L + 1 : f[i] = next(f, i)
      <3>1. L + 1 - L = 1
        BY <1>0
      <3> QED
        BY <1>4, <3>1
    <2> HIDE DEF next
    <2> QED
      BY <2>1, <1>4
  <1>6. Eq(found)
    <2> HIDE DEF Eq
    <2> QED
      BY <1>5
  <1>7. Token!Chains(toks) = found[1]
    BY DEF Token!Chains, Reads, Chain, Behind
  <1> HIDE DEF found
  <1>8. \A i \in 1 .. L + 1 : found[i] = next(found, i)
    <2> HIDE DEF next
    <2> QED
      BY <1>6
  <1>9. found[L + 1] = << >>
    <2>1. L + 1 \in 1 .. L + 1 /\ L + 1 > L
      BY <1>0
    <2>2. found[L + 1] = next(found, L + 1)
      <3> HIDE DEF next
      <3> QED
        BY <2>1, <1>8
    <2> QED
      BY <2>1, <2>2
  <1> DEFINE E == {m \in Nat : m <= L => \A i \in L + 1 - m .. L + 1 : found[i] \in Codes}
  <1>10. 0 \in E
    <2>1. found[L + 1] = << >>
      BY <1>9
    <2>2. << >> \in Codes
      BY EmptySeq DEF Codes
    <2>3. \A i \in L + 1 - 0 .. L + 1 : i = L + 1
      BY <1>0
    <2> QED
      BY <2>1, <2>2, <2>3
  <1>11. ASSUME NEW m \in E PROVE m + 1 \in E
    <2> SUFFICES ASSUME m + 1 <= L, NEW i \in L + 1 - (m + 1) .. L + 1 PROVE found[i] \in Codes
      OBVIOUS
    <2>0. m \in Nat /\ m <= L /\ \A j \in L + 1 - m .. L + 1 : found[j] \in Codes
      BY <1>0
    <2>1. CASE i \in L + 1 - m .. L + 1
      BY <2>0, <2>1
    <2>2. CASE i \notin L + 1 - m .. L + 1
      <3>1. i \in 1 .. L /\ i + 1 \in L + 1 - m .. L + 1 /\ i = L - m
        BY <1>0, <2>0, <2>2
      <3>2. Behind(toks, i) \in i + 1 .. L + 1
        BY <3>1, BehindIsBelow
      <3> DEFINE e == Behind(toks, i)
      <3> HIDE DEF e
      <3>3. e \in L + 1 - m .. L + 1
        BY <3>1, <3>2, <1>0, <2>0 DEF e
      <3>4. found[e] \in Codes /\ found[i + 1] \in Codes
        BY <3>1, <3>3, <2>0
      <3>5. <<Chain(toks, i)>> \in Codes
        BY <3>1, JoinsFit DEF Codes
      <3>6. <<Chain(toks, i)>> \o found[e] \in Codes
        BY <3>4, <3>5, ConcatProperties DEF Codes
      <3>7. found[i] = next(found, i) /\ ~(i > L)
        BY <3>1, <1>0, <1>8
      <3> QED
        BY <3>4, <3>6, <3>7 DEF e
    <2> QED
      BY <2>1, <2>2
  <1> HIDE DEF E
  <1>12. E = Nat
    BY <1>10, <1>11, SetInduction DEF E
  <1>13. \A i \in 1 .. L + 1 : found[i] \in Codes
    BY <1>0, <1>12 DEF E
  <1>14. found[L + 1] = << >>
    BY <1>9
  <1>15. ASSUME NEW i \in 1 .. L
         PROVE  found[i] = IF Reads(toks, i) THEN <<Chain(toks, i)>> \o found[Behind(toks, i)]
                          ELSE found[i + 1]
    <2>1. i \in 1 .. L + 1 /\ ~(i > L)
      BY <1>0
    <2>2. found[i] = next(found, i)
      BY <2>1, <1>8
    <2> QED
      BY <2>1, <2>2
  <1> QED
    BY <1>7, <1>13, <1>14, <1>15 DEF Scans


\* The scan passes over tokens that are no identifiers.
LEMMA PunctuationPassed ==
  ASSUME NEW toks \in Code, NEW f, NEW p \in Nat, NEW q \in Nat,
         Scans(toks, f), p <= q, q <= Len(toks),
         \A j \in p + 1 .. q : toks[j] \in Punctuation
  PROVE  f[p + 1] = f[q + 1]
  <1> DEFINE D == {k \in Nat : p + k <= q => f[p + 1] = f[p + k + 1]}
  <1>1. 0 \in D
    OBVIOUS
  <1>2. ASSUME NEW k \in D PROVE k + 1 \in D
    <2> SUFFICES ASSUME p + (k + 1) <= q PROVE f[p + 1] = f[p + (k + 1) + 1]
      OBVIOUS
    <2> DEFINE i == p + (k + 1)
    <2>1. k \in Nat /\ f[p + 1] = f[p + k + 1] /\ p + k + 1 = i
      OBVIOUS
    <2>2. i \in 1 .. Len(toks) /\ i \in p + 1 .. q
      BY <2>1, LenProperties DEF Code
    <2> HIDE DEF i
    <2>3. ~Reads(toks, i)
      BY <2>2 DEF Reads, Token!Identifier
    <2>4. f[i] = f[i + 1]
      BY <2>2, <2>3 DEF Scans
    <2> QED
      BY <2>1, <2>4 DEF i
  <1> HIDE DEF D
  <1>3. D = Nat
    <2>1. D \in SUBSET Nat
      BY DEF D
    <2> QED
      BY <1>1, <1>2, <2>1, SetInduction
  <1>4. q - p \in D /\ p + (q - p) <= q /\ p + (q - p) + 1 = q + 1
    BY <1>3
  <1> QED
    BY <1>4 DEF D

\* A name with the punctuation behind it, and what is found of the two.
WrittenPart(part) == Qualified(part.name) \o part.behind

Found(part) ==
  IF Len(part.name) > 1 \/ (part.behind # << >> /\ part.behind[1] = "::")
  THEN <<part.name>> ELSE << >>

IsPart(part) ==
  /\ part.name \in Seq(STRING) \ {<< >>} /\ part.behind \in Seq(Punctuation)
  /\ \A j \in 1 .. Len(part.name) : Token!Identifier(part.name[j])

\* A qualified name is its segments with :: between them.
LEMMA QualifiedTokens ==
  ASSUME NEW name \in Seq(STRING) \ {<< >>}
  PROVE  /\ Len(name) \in Nat \ {0}
         /\ Qualified(name) \in Code /\ Len(Qualified(name)) = 2 * Len(name) - 1
         /\ \A k \in 1 .. Len(name) : Qualified(name)[2 * k - 1] = name[k]
         /\ \A k \in 1 .. Len(name) - 1 : Qualified(name)[2 * k] = "::"
  <1> DEFINE n == Len(name)
             q == Qualified(name)
  <1>1. n \in Nat \ {0}
    BY EmptySeq, LenProperties
  <1>2. \A k \in 1 .. n : name[k] \in STRING
    BY ElementOfSeq
  <1>3. q = [k \in 1 .. 2 * n - 1 |-> IF k % 2 = 1 THEN name[(k + 1) \div 2] ELSE "::"]
    BY DEF Qualified
  <1> HIDE DEF n, q
  <1>4. ASSUME NEW k \in 1 .. 2 * n - 1 PROVE k % 2 = 1 => (k + 1) \div 2 \in 1 .. n
    BY <1>1
  <1>5. q \in [1 .. 2 * n - 1 -> AnyToken] /\ 2 * n - 1 \in Nat
    <2>1. "::" \in AnyToken /\ STRING \subseteq AnyToken
      BY DEF AnyToken
    <2>2. \A k \in 1 .. n : name[k] \in AnyToken
      BY <1>2, <2>1 DEF n
    <2>3. \A k \in 1 .. 2 * n - 1 : (IF k % 2 = 1 THEN name[(k + 1) \div 2] ELSE "::") \in AnyToken
      BY <2>1, <2>2, <1>4
    <2>4. q \in [1 .. 2 * n - 1 -> AnyToken]
      BY ONLY <1>3, <2>3
    <2>5. 2 * n - 1 \in Nat
      BY <1>1
    <2> QED
      BY <2>4, <2>5
  <1>6. q \in Code /\ Len(q) = 2 * n - 1
    BY <1>5, FunctionIsSeq DEF Code
  <1>7. ASSUME NEW k \in 1 .. n PROVE q[2 * k - 1] = name[k]
    <2>1. 2 * k - 1 \in 1 .. 2 * n - 1 /\ (2 * k - 1) % 2 = 1 /\ ((2 * k - 1) + 1) \div 2 = k
      BY <1>1
    <2> QED
      BY <2>1, <1>3
  <1>8. ASSUME NEW k \in 1 .. n - 1 PROVE q[2 * k] = "::"
    <2>1. 2 * k \in 1 .. 2 * n - 1 /\ (2 * k) % 2 # 1
      BY <1>1
    <2> QED
      BY <2>1, <1>3
  <1> QED
    BY <1>1, <1>6, <1>7, <1>8 DEF n, q

\* A written name gives its chain, or none, and what is behind it is read on its own.
LEMMA PartIsRead ==
  ASSUME NEW toks \in Code, NEW f, NEW p \in Nat, NEW part,
         Scans(toks, f), IsPart(part),
         "::" \in Punctuation, Punctuation \subseteq STRING,
         p + Len(WrittenPart(part)) <= Len(toks),
         \A j \in 1 .. Len(WrittenPart(part)) : toks[p + j] = WrittenPart(part)[j],
         part.behind \notin {<< >>, <<"::">>} \/ p + Len(WrittenPart(part)) = Len(toks)
  PROVE  f[p + 1] = Found(part) \o f[p + Len(WrittenPart(part)) + 1]
  <1> DEFINE name == part.name
             n == Len(name)
             b == part.behind
             m == Len(b)
             q == Qualified(name)
             w == WrittenPart(part)
             i == p + 1
  <1>1. /\ name \in Seq(STRING) \ {<< >>} /\ b \in Seq(Punctuation)
        /\ \A k \in 1 .. n : Token!Identifier(name[k])
    BY DEF IsPart
  <1> HIDE DEF name
  <1>2. /\ n \in Nat \ {0} /\ q \in Code /\ Len(q) = 2 * n - 1
        /\ \A k \in 1 .. n : q[2 * k - 1] = name[k]
        /\ \A k \in 1 .. n - 1 : q[2 * k] = "::"
    BY <1>1, QualifiedTokens
  <1>3. m \in Nat /\ b \in Code /\ \A j \in 1 .. m : b[j] \in Punctuation
    <2>1. Punctuation \subseteq AnyToken
      BY DEF AnyToken
    <2> HIDE DEF b
    <2>2. m \in Nat /\ \A j \in 1 .. m : b[j] \in Punctuation
      BY <1>1, LenProperties, ElementOfSeq
    <2>3. b \in Seq(AnyToken)
      BY <1>1, <2>1, <2>2, SeqMonotonic
    <2> QED
      BY <2>2, <2>3 DEF Code
  <1>4. w = q \o b
    BY DEF WrittenPart, name
  <1> HIDE DEF n, b, m, q, w
  <1>5. /\ w \in Code /\ Len(w) = 2 * n - 1 + m
        /\ \A k \in 1 .. 2 * n - 1 + m : w[k] = IF k <= 2 * n - 1 THEN q[k] ELSE b[k - (2 * n - 1)]
    <2>1. Len(b) = m
      BY DEF m
    <2>2. /\ w \in Seq(AnyToken) /\ Len(w) = Len(q) + Len(b)
          /\ \A k \in 1 .. Len(q) + Len(b) : w[k] = IF k <= Len(q) THEN q[k] ELSE b[k - Len(q)]
      <3>1. q \in Seq(AnyToken) /\ b \in Seq(AnyToken)
        BY <1>2, <1>3 DEF Code
      <3> QED
        BY ONLY <3>1, <1>4, ConcatProperties
    <2> QED
      BY <2>1, <2>2, <1>2 DEF Code
  <1>6. /\ p + (2 * n - 1 + m) <= Len(toks) /\ Len(toks) \in Nat
        /\ \A j \in 1 .. 2 * n - 1 + m : toks[p + j] = w[j]
        /\ b \notin {<< >>, <<"::">>} \/ p + (2 * n - 1 + m) = Len(toks)
    BY <1>5, LenProperties DEF w, Code, b
  <1>7. ASSUME NEW k \in 1 .. n PROVE toks[p + (2 * k - 1)] = name[k]
    <2>1. 2 * k - 1 \in 1 .. 2 * n - 1 + m /\ 2 * k - 1 <= 2 * n - 1
      BY <1>2, <1>3
    <2> QED
      BY <2>1, <1>2, <1>5, <1>6
  <1>8. ASSUME NEW k \in 1 .. n - 1 PROVE toks[p + 2 * k] = "::"
    <2>1. 2 * k \in 1 .. 2 * n - 1 + m /\ 2 * k <= 2 * n - 1
      BY <1>2, <1>3
    <2> QED
      BY <2>1, <1>2, <1>5, <1>6
  <1>9. ASSUME NEW j \in 1 .. m PROVE toks[p + (2 * n - 1) + j] = b[j]
    <2>1. /\ (2 * n - 1) + j \in 1 .. 2 * n - 1 + m /\ ~((2 * n - 1) + j <= 2 * n - 1)
          /\ ((2 * n - 1) + j) - (2 * n - 1) = j /\ p + (2 * n - 1) + j = p + ((2 * n - 1) + j)
      BY <1>2, <1>3
    <2> QED
      BY <2>1, <1>5, <1>6
  <1>10. ASSUME NEW k \in 1 .. n - 1 PROVE Joined(toks, i, k)
    <2>1. /\ i + 2 * k - 1 = p + 2 * k /\ i + 2 * k = p + (2 * (k + 1) - 1) /\ k + 1 \in 1 .. n
          /\ p + 2 * k \in 1 .. Len(toks) /\ p + (2 * (k + 1) - 1) \in 1 .. Len(toks)
      BY <1>2, <1>3, <1>6
    <2>2. Token!At(toks, i + 2 * k - 1) = "::"
      BY <2>1, <1>8 DEF Token!At
    <2>3. Token!At(toks, i + 2 * k) = name[k + 1]
      BY <2>1, <1>7 DEF Token!At
    <2> QED
      BY <2>1, <2>2, <2>3, <1>1 DEF Joined, n
  <1>11. ~Joined(toks, i, n)
    <2> SUFFICES ASSUME Joined(toks, i, n) PROVE FALSE
      OBVIOUS
    <2>1. i + 2 * n - 1 = p + 2 * n /\ i + 2 * n = p + 2 * n + 1 /\ i \in Nat
      BY <1>2
    <2>2. Token!At(toks, p + 2 * n) = "::" /\ Token!Identifier(Token!At(toks, p + 2 * n + 1))
      BY <2>1 DEF Joined
    <2>3. p + 2 * n \in 1 .. Len(toks)
      BY <2>2 DEF Token!At
    <2>4. p + 2 * n + 1 \in 1 .. Len(toks) /\ toks[p + 2 * n + 1] \notin Punctuation
      <3>1. Token!At(toks, p + 2 * n + 1) \notin Punctuation \cup {""}
        BY <2>2 DEF Token!Identifier
      <3> QED
        BY <3>1 DEF Token!At
    <2>5. CASE m > 1
      <3>1. 2 \in 1 .. m /\ p + (2 * n - 1) + 2 = p + 2 * n + 1
        BY <2>5, <1>2, <1>3
      <3> QED
        BY <3>1, <2>4, <1>3, <1>9
    <2>6. CASE ~(m > 1)
      <3>1. m = 1
        <4>1. m = 0 => b = << >>
          BY <1>3, EmptySeq DEF m, Code
        <4>2. m # 0
          BY <4>1, <2>3, <1>2, <1>6
        <4> QED
          BY <4>2, <2>6, <1>3
      <3>2. b[1] = "::"
        <4>1. 1 \in 1 .. m /\ p + (2 * n - 1) + 1 = p + 2 * n
          BY <3>1, <1>2
        <4>2. toks[p + 2 * n] = b[1]
          BY <4>1, <1>9
        <4> QED
          BY <4>2, <2>2, <2>3 DEF Token!At
      <3>3. b = <<"::">>
        <4>1. Len(b) = 1 /\ <<"::">> \in Code /\ Len(<<"::">>) = 1 /\ <<"::">>[1] = "::"
          <5>1. Len(b) = 1
            BY <3>1 DEF m
          <5>2. "::" \in AnyToken
            BY DEF AnyToken
          <5> QED
            BY <5>1, <5>2 DEF Code
        <4>2. \A j \in 1 .. 1 : b[j] = <<"::">>[j]
          BY <3>2
        <4> QED
          BY <4>1, <4>2, <1>3, SeqEqual DEF Code
      <3> QED
        BY <3>1, <3>3, <2>4, <1>2, <1>6
    <2> QED
      BY <2>5, <2>6
  <1>12. i \in 1 .. Len(toks) /\ Token!Joins(toks, i) = n - 1
    <2>1. i \in 1 .. Len(toks) /\ n - 1 \in 0 .. Len(toks) /\ (n - 1) + 1 = n
      BY <1>2, <1>3, <1>6
    <2> HIDE DEF i
    <2> QED
      BY <2>1, <1>10, <1>11, JoinsAre
  <1>13. Chain(toks, i) = name
    <2>1. Chain(toks, i) = [k \in 1 .. n |-> toks[i + 2 * k - 2]]
      BY <1>2, <1>12 DEF Chain
    <2>2. \A k \in 1 .. n : toks[i + 2 * k - 2] = name[k]
      <3> TAKE k \in 1 .. n
      <3>1. i + 2 * k - 2 = p + (2 * k - 1)
        BY <1>2
      <3> QED
        BY <3>1, <1>7
    <2>3. name = [k \in 1 .. n |-> name[k]]
      BY <1>1 DEF n
    <2> QED
      BY <2>1, <2>2, <2>3
  <1>14. f[p + (2 * n - 1) + 1] = f[p + (2 * n - 1) + m + 1]
    <2> DEFINE r == p + (2 * n - 1)
               u == r + m
    <2>1. r \in Nat /\ u \in Nat /\ r <= u /\ u <= Len(toks)
      BY <1>2, <1>3, <1>6
    <2>2. ASSUME NEW k \in r + 1 .. u PROVE toks[k] \in Punctuation
      <3>1. k - r \in 1 .. m /\ r + (k - r) = k
        BY <2>1, <1>3
      <3> QED
        BY <3>1, <1>3, <1>9
    <2> HIDE DEF r, u
    <2>3. f[r + 1] = f[u + 1]
      BY <2>1, <2>2, PunctuationPassed
    <2> QED
      BY <2>3 DEF r, u
  <1>15. Behind(toks, i) = p + (2 * n - 1) + 1 /\ i + 1 = p + 1 + 1
    BY <1>2, <1>12 DEF Behind
  <1>16. f[p + (2 * n - 1) + m + 1] \in Codes
    <2>1. p + (2 * n - 1) + m + 1 \in 1 .. Len(toks) + 1
      BY <1>2, <1>3, <1>6
    <2> QED
      BY <2>1 DEF Scans
  <1>17. Reads(toks, i) <=> n > 1 \/ (b # << >> /\ b[1] = "::")
    <2>1. Token!Identifier(toks[i])
      <3>1. 1 \in 1 .. n /\ p + (2 * 1 - 1) = i
        BY <1>2
      <3> QED
        BY <3>1, <1>1, <1>7 DEF n
    <2>2. Reads(toks, i) <=> Token!At(toks, p + 2) = "::"
      <3>1. i + 1 = p + 2
        OBVIOUS
      <3> QED
        BY <2>1, <3>1 DEF Reads
    <2>3. CASE n > 1
      <3>1. 1 \in 1 .. n - 1 /\ p + 2 * 1 = p + 2 /\ p + 2 \in 1 .. Len(toks)
        BY <2>3, <1>2, <1>3, <1>6
      <3>2. Token!At(toks, p + 2) = "::"
        BY <3>1, <1>8 DEF Token!At
      <3> QED
        BY <2>2, <2>3, <3>2
    <2>4. CASE n = 1 /\ m > 0
      <3>1. 1 \in 1 .. m /\ p + (2 * n - 1) + 1 = p + 2 /\ p + 2 \in 1 .. Len(toks)
        BY <2>4, <1>3, <1>6
      <3>2. Token!At(toks, p + 2) = b[1]
        BY <3>1, <1>9 DEF Token!At
      <3>3. b # << >>
        BY <2>4 DEF m
      <3> QED
        BY <2>2, <2>4, <3>2, <3>3
    <2>5. CASE n = 1 /\ m = 0
      <3>1. b = << >>
        BY <2>5, <1>3, EmptySeq DEF m, Code
      <3>2. p + 2 \notin 1 .. Len(toks)
        BY <2>5, <3>1, <1>6
      <3>3. Token!At(toks, p + 2) # "::"
        BY <3>2 DEF Token!At
      <3> QED
        BY <2>2, <2>5, <3>1, <3>3
    <2> QED
      BY <1>2, <1>3, <2>3, <2>4, <2>5
  <1>18. Found(part) = IF n > 1 \/ (b # << >> /\ b[1] = "::") THEN <<name>> ELSE << >>
    BY DEF Found, n, b, name
  <1>19. p + Len(WrittenPart(part)) + 1 = p + (2 * n - 1) + m + 1
    BY <1>2, <1>3, <1>5 DEF w
  <1>20. CASE Reads(toks, i)
    <2>1. f[i] = <<name>> \o f[p + (2 * n - 1) + m + 1]
      BY <1>20, <1>12, <1>13, <1>14, <1>15 DEF Scans
    <2> QED
      BY <2>1, <1>17, <1>18, <1>19, <1>20
  <1>21. CASE ~Reads(toks, i)
    <2>1. n = 1 /\ i + 1 = p + (2 * n - 1) + 1
      BY <1>21, <1>17, <1>2
    <2>2. f[i] = f[i + 1]
      BY <1>21, <1>12 DEF Scans
    <2>3. f[i] = f[p + (2 * n - 1) + m + 1]
      BY <2>1, <2>2, <1>14
    <2>4. Found(part) = << >>
      BY <1>17, <1>18, <1>21
    <2> QED
      BY <2>3, <2>4, <1>16, <1>19, ConcatEmptySeq DEF Codes
  <1> QED
    BY <1>20, <1>21

\* What is written first stays at the beginning.
LEMMA FlattenGrows ==
  ASSUME NEW n \in Nat, NEW ss, NEW f \in [0 .. n -> Code],
         \A k \in 1 .. n : ss[k] \in Code /\ f[k] = f[k - 1] \o ss[k]
  PROVE  \A k \in 0 .. n : /\ Len(f[k]) <= Len(f[n])
                           /\ \A j \in 1 .. Len(f[k]) : f[n][j] = f[k][j]
  <1> DEFINE Grown(k) == /\ Len(f[k]) <= Len(f[n])
                         /\ \A j \in 1 .. Len(f[k]) : f[n][j] = f[k][j]
             D == {m \in Nat : m <= n => Grown(n - m)}
  <1>0. \A k \in 0 .. n : f[k] \in Code /\ Len(f[k]) \in Nat
    BY LenProperties DEF Code
  <1>1. 0 \in D
    <2>1. n - 0 = n /\ n \in 0 .. n
      OBVIOUS
    <2> QED
      BY <2>1, <1>0
  <1>2. ASSUME NEW m \in D PROVE m + 1 \in D
    <2> SUFFICES ASSUME m + 1 <= n PROVE Grown(n - (m + 1))
      <3> HIDE DEF Grown
      <3> QED
        OBVIOUS
    <2> DEFINE k == n - m
               a == f[k - 1]
               b == ss[k]
    <2>1. k \in 1 .. n /\ k - 1 \in 0 .. n /\ k \in 0 .. n /\ n - (m + 1) = k - 1
      OBVIOUS
    <2>2. Grown(k)
      <3> HIDE DEF Grown
      <3> QED
        OBVIOUS
    <2> HIDE DEF k
    <2>3. f[k] = a \o b /\ a \in Code /\ b \in Code /\ Len(a) \in Nat
      BY <2>1, <1>0
    <2> HIDE DEF a, b
    <2>4. /\ Len(f[k]) = Len(a) + Len(b) /\ Len(b) \in Nat
          /\ \A j \in 1 .. Len(a) + Len(b) :
               f[k][j] = IF j <= Len(a) THEN a[j] ELSE b[j - Len(a)]
      BY <2>3, ConcatProperties, LenProperties DEF Code
    <2>5. Len(a) <= Len(f[k]) /\ \A j \in 1 .. Len(a) : f[k][j] = a[j]
      BY <2>3, <2>4
    <2>6. Len(a) <= Len(f[n]) /\ \A j \in 1 .. Len(a) : f[n][j] = a[j]
      <3>1. Len(f[n]) \in Nat /\ Len(f[k]) \in Nat
        BY <2>1, <1>0
      <3>2. Len(f[k]) <= Len(f[n]) /\ \A j \in 1 .. Len(f[k]) : f[n][j] = f[k][j]
        BY <2>2
      <3>3. \A j \in 1 .. Len(a) : j \in 1 .. Len(f[k])
        BY <2>3, <2>5, <3>1
      <3> QED
        BY <2>3, <2>5, <3>1, <3>2, <3>3
    <2> QED
      BY <2>1, <2>6 DEF a
  <1> HIDE DEF D, Grown
  <1>3. D = Nat
    <2>1. D \in SUBSET Nat
      BY DEF D
    <2> QED
      BY <1>1, <1>2, <2>1, SetInduction
  <1>4. ASSUME NEW k \in 0 .. n PROVE Grown(k)
    <2>1. n - k \in D /\ n - k <= n /\ n - (n - k) = k
      BY <1>3
    <2> QED
      BY <2>1 DEF D
  <1> QED
    BY <1>4 DEF Grown

\* The scan of an initializer finds the names written with :: and no others.
LEMMA InitializerIsRead ==
  ASSUME NEW lead \in Seq(Punctuation), NEW parts, parts \in Seq(ToSet(parts)), NamesApart(parts),
         "::" \in Punctuation, Punctuation \subseteq STRING
  PROVE  Token!Chains(lead \o Written(parts)) = QualifiedNames(parts)
  <1> DEFINE N == Len(parts)
             L == Len(lead)
             blocks == [k \in 1 .. N |-> WrittenPart(parts[k])]
             finds == [k \in 1 .. N |-> Found(parts[k])]
             toks == lead \o Written(parts)
  <1>0. N \in Nat /\ L \in Nat /\ lead \in Code /\ Punctuation \subseteq AnyToken
    <2>1. Punctuation \subseteq AnyToken
      BY DEF AnyToken
    <2>2. N \in Nat /\ L \in Nat
      BY LenProperties
    <2> QED
      BY <2>1, <2>2, SeqMonotonic DEF Code
  <1>1. ASSUME NEW k \in 1 .. N PROVE IsPart(parts[k])
    BY DEF NamesApart, IsPart
  <1>2. ASSUME NEW k \in 1 .. N PROVE WrittenPart(parts[k]) \in Code /\ Found(parts[k]) \in Codes
    <2>1. /\ parts[k].name \in Seq(STRING) \ {<< >>} /\ parts[k].behind \in Seq(Punctuation)
      BY <1>1 DEF IsPart
    <2>2. Qualified(parts[k].name) \in Code
      BY <2>1, QualifiedTokens
    <2>3. parts[k].behind \in Code
      BY <2>1, <1>0, SeqMonotonic DEF Code
    <2>4. parts[k].name \in Code
      <3>1. STRING \subseteq AnyToken
        BY DEF AnyToken
      <3> QED
        BY <2>1, <3>1, SeqMonotonic DEF Code
    <2>5. <<parts[k].name>> \in Codes /\ << >> \in Codes
      BY <2>4 DEF Codes
    <2> QED
      BY <2>2, <2>3, <2>5, ConcatProperties DEF WrittenPart, Found, Code
  <1>3. /\ blocks \in Seq(Code) /\ Len(blocks) = N
        /\ finds \in Seq(Codes) /\ Len(finds) = N
    <2>1. blocks \in [1 .. N -> Code] /\ finds \in [1 .. N -> Codes]
      BY <1>2
    <2> HIDE DEF blocks, finds, N
    <2> QED
      BY <2>1, <1>0, FunctionIsSeq
  <1>4. Written(parts) = FlattenSeq(blocks) /\ QualifiedNames(parts) = FlattenSeq(finds)
    BY DEF Written, QualifiedNames, WrittenPart, Found
  <1>5. \A k \in 1 .. N : blocks[k] = WrittenPart(parts[k]) /\ finds[k] = Found(parts[k])
    OBVIOUS
  <1> HIDE DEF blocks, finds, N, L
  <1>6. PICK g \in [0 .. N -> Code] :
          /\ g[0] = << >>
          /\ \A k \in 1 .. N : g[k] = g[k - 1] \o blocks[k]
          /\ g[N] = Written(parts)
    BY <1>3, <1>4, FlattenSteps DEF Code
  <1>7. PICK h \in [0 .. N -> Codes] :
          /\ h[0] = << >>
          /\ \A k \in 1 .. N : h[k] = h[k - 1] \o finds[k]
          /\ h[N] = QualifiedNames(parts)
    BY <1>3, <1>4, FlattenSteps DEF Codes
  <1>8. \A k \in 0 .. N : /\ g[k] \in Code /\ Len(g[k]) \in Nat /\ h[k] \in Codes
                          /\ Len(g[k]) <= Len(g[N])
                          /\ \A j \in 1 .. Len(g[k]) : g[N][j] = g[k][j]
    <2>1. \A k \in 1 .. N : blocks[k] \in Code /\ g[k] = g[k - 1] \o blocks[k]
      BY <1>2, <1>5, <1>6
    <2>2. g \in [0 .. N -> Code]
      BY <1>6
    <2>3. \A k \in 0 .. N : /\ Len(g[k]) <= Len(g[N])
                            /\ \A j \in 1 .. Len(g[k]) : g[N][j] = g[k][j]
      BY ONLY <1>0, <2>1, <2>2, FlattenGrows
    <2> QED
      BY <2>2, <2>3, <1>7, LenProperties DEF Code
  <1>9. /\ toks \in Code /\ Len(toks) = L + Len(g[N])
        /\ \A j \in 1 .. L : toks[j] = lead[j]
        /\ \A j \in 1 .. Len(g[N]) : toks[L + j] = g[N][j]
    <2>1. N \in 0 .. N
      BY <1>0
    <2>2. g[N] \in Seq(AnyToken) /\ lead \in Seq(AnyToken) /\ toks = lead \o g[N]
          /\ Len(g[N]) \in Nat
      BY <2>1, <1>0, <1>6, <1>8 DEF Code
    <2> HIDE DEF toks
    <2>3. /\ toks \in Seq(AnyToken) /\ Len(toks) = Len(lead) + Len(g[N])
          /\ \A j \in 1 .. Len(lead) + Len(g[N]) :
               toks[j] = IF j <= Len(lead) THEN lead[j] ELSE g[N][j - Len(lead)]
      BY ONLY <2>2, ConcatProperties
    <2>4. ASSUME NEW j \in 1 .. Len(g[N]) PROVE toks[L + j] = g[N][j]
      <3>1. L + j \in 1 .. Len(lead) + Len(g[N]) /\ ~(L + j <= Len(lead)) /\ (L + j) - Len(lead) = j
        BY <1>0, <2>2 DEF L
      <3> QED
        BY <3>1, <2>3
    <2> QED
      BY <1>0, <2>2, <2>3, <2>4 DEF L, Code
  <1> HIDE DEF toks
  <1>10. PICK s : Scans(toks, s) /\ s[1] = Token!Chains(toks)
    BY <1>9, ScanSteps
  <1> DEFINE At(k) == L + Len(g[k])
             D == {k \in Nat : k <= N => s[1] = h[k] \o s[At(k) + 1]}
  <1>11. \A k \in 0 .. N : At(k) \in Nat /\ At(k) <= Len(toks) /\ s[At(k) + 1] \in Codes
    <2> TAKE k \in 0 .. N
    <2>1. At(k) \in Nat /\ At(k) <= Len(toks)
      BY <1>0, <1>8, <1>9
    <2>2. At(k) + 1 \in 1 .. Len(toks) + 1
      BY <2>1, <1>9, LenProperties DEF Code
    <2> QED
      BY <2>1, <2>2, <1>10 DEF Scans
  <1>12. 0 \in D
    <2>1. At(0) = L /\ 0 \in 0 .. N
      BY <1>0, <1>6
    <2>2. L <= Len(toks) /\ 0 <= L
      BY <2>1, <1>11, <1>0
    <2> DEFINE z == 0
    <2>3. z \in Nat /\ z <= L /\ \A j \in z + 1 .. L : toks[j] \in Punctuation
      BY <1>0, <1>9, ElementOfSeq DEF L
    <2> HIDE DEF z
    <2>6. s[z + 1] = s[L + 1]
      BY <2>2, <2>3, <1>0, <1>9, <1>10, PunctuationPassed
    <2>4. s[1] = s[L + 1]
      BY <2>6 DEF z
    <2>5. s[L + 1] \in Codes
      BY <2>1, <1>11
    <2> QED
      BY <2>1, <2>4, <2>5, <1>7, ConcatEmptySeq DEF Codes
  <1>13. ASSUME NEW k \in D PROVE k + 1 \in D
    <2> DEFINE Upto(l) == s[1] = h[l] \o s[At(l) + 1]
    <2>0. At(k) = L + Len(g[k]) /\ At(k + 1) = L + Len(g[k + 1])
      OBVIOUS
    <2>13. D = {l \in Nat : l <= N => Upto(l)}
      OBVIOUS
    <2> HIDE DEF At, D, Upto
    <2> SUFFICES ASSUME k + 1 <= N PROVE Upto(k + 1)
      BY <2>13
    <2>14. k \in Nat /\ k + 1 \in 1 .. N /\ Upto(k)
      BY <2>13, <1>0
    <2>1. /\ k \in Nat /\ k + 1 \in 1 .. N /\ k \in 0 .. N /\ k + 1 \in 0 .. N
          /\ (k + 1) - 1 = k /\ s[1] = h[k] \o s[At(k) + 1]
      BY <2>14, <1>0 DEF Upto
    <2> DEFINE part == parts[k + 1]
               w == WrittenPart(part)
               p == At(k)
    <2>2. IsPart(part) /\ w \in Code /\ Found(part) \in Codes /\ w = blocks[k + 1]
      BY <2>1, <1>1, <1>2, <1>5
    <2>3. h[k + 1] = h[k] \o Found(part) /\ g[k + 1] = g[k] \o w
      BY <2>1, <1>5, <1>6, <1>7
    <2>4. part.behind \notin {<< >>, <<"::">>} \/ k + 1 = N
      BY <2>1, <1>0 DEF NamesApart, N
    <2> HIDE DEF part, w
    <2>5. /\ Len(g[k + 1]) = Len(g[k]) + Len(w) /\ Len(w) \in Nat /\ Len(g[k]) \in Nat
          /\ \A j \in 1 .. Len(w) : g[k + 1][Len(g[k]) + j] = w[j]
      <3>1. g[k] \in Seq(AnyToken) /\ w \in Seq(AnyToken) /\ Len(g[k]) \in Nat
        BY <2>1, <2>2, <1>8 DEF Code
      <3>2. /\ Len(g[k + 1]) = Len(g[k]) + Len(w) /\ Len(w) \in Nat
            /\ \A j \in 1 .. Len(g[k]) + Len(w) :
                 g[k + 1][j] = IF j <= Len(g[k]) THEN g[k][j] ELSE w[j - Len(g[k])]
        BY ONLY <3>1, <2>3, ConcatProperties, LenProperties
      <3>3. ASSUME NEW j \in 1 .. Len(w) PROVE g[k + 1][Len(g[k]) + j] = w[j]
        <4>1. /\ Len(g[k]) + j \in 1 .. Len(g[k]) + Len(w) /\ ~(Len(g[k]) + j <= Len(g[k]))
              /\ (Len(g[k]) + j) - Len(g[k]) = j
          BY <3>1, <3>2
        <4> QED
          BY <4>1, <3>2
      <3> QED
        BY <3>1, <3>2, <3>3
    <2>6. p \in Nat /\ p + Len(w) = At(k + 1) /\ p + Len(w) <= Len(toks)
      BY <2>0, <2>1, <2>5, <1>0, <1>11
    <2>7. ASSUME NEW j \in 1 .. Len(w) PROVE toks[p + j] = w[j]
      <3> DEFINE i == Len(g[k]) + j
      <3>1. i \in 1 .. Len(g[k + 1]) /\ i \in 1 .. Len(g[N]) /\ p + j = L + i
        BY <2>0, <2>1, <2>5, <1>0, <1>8
      <3>2. g[k + 1][i] = w[j]
        BY <2>5
      <3> HIDE DEF i, p
      <3>3. g[N][i] = g[k + 1][i]
        BY <2>1, <3>1, <1>8
      <3>4. toks[L + i] = g[N][i]
        BY <3>1, <1>9
      <3> QED
        BY <3>1, <3>2, <3>3, <3>4
    <2>8. part.behind \notin {<< >>, <<"::">>} \/ p + Len(w) = Len(toks)
      BY <2>0, <2>4, <2>6, <1>9
    <2> HIDE DEF p
    <2>9. s[p + 1] = Found(part) \o s[p + Len(w) + 1]
      <3>1. \A j \in 1 .. Len(WrittenPart(part)) : toks[p + j] = WrittenPart(part)[j]
        BY <2>7 DEF w
      <3>2. /\ p + Len(WrittenPart(part)) <= Len(toks)
            /\ part.behind \notin {<< >>, <<"::">>} \/ p + Len(WrittenPart(part)) = Len(toks)
        BY <2>6, <2>8 DEF w
      <3>3. s[p + 1] = Found(part) \o s[p + Len(WrittenPart(part)) + 1]
        <4>1. toks \in Code /\ Scans(toks, s) /\ IsPart(part) /\ p \in Nat
          BY <2>2, <2>6, <1>9, <1>10
        <4> QED
          BY ONLY <3>1, <3>2, <4>1, PartIsRead, "::" \in Punctuation, Punctuation \subseteq STRING
      <3> QED
        BY <3>3 DEF w
    <2>10. s[At(k + 1) + 1] \in Codes /\ h[k] \in Codes
      BY <2>1, <1>8, <1>11
    <2>11. s[1] = h[k] \o (Found(part) \o s[At(k + 1) + 1])
      BY <2>1, <2>6, <2>9 DEF p
    <2>12. h[k] \o (Found(part) \o s[At(k + 1) + 1]) = (h[k] \o Found(part)) \o s[At(k + 1) + 1]
      <3> DEFINE a == h[k]
                 b == Found(part)
                 c == s[At(k + 1) + 1]
      <3>1. a \in Seq(Code) /\ b \in Seq(Code) /\ c \in Seq(Code)
        BY <2>2, <2>10 DEF Codes
      <3> HIDE DEF a, b, c
      <3>2. a \o (b \o c) = (a \o b) \o c
        BY ONLY <3>1, ConcatAssociative
      <3> QED
        BY <3>2 DEF a, b, c
    <2> QED
      BY <2>3, <2>11, <2>12 DEF Upto
  <1> HIDE DEF D
  <1>14. D = Nat
    <2>1. D \in SUBSET Nat
      BY DEF D
    <2> QED
      BY <1>12, <1>13, <2>1, SetInduction
  <1>15. s[1] = h[N] \o s[At(N) + 1]
    <2>1. N \in D /\ N <= N
      BY <1>0, <1>14
    <2> QED
      BY <2>1 DEF D
  <1>16. At(N) = Len(toks) /\ h[N] \in Codes
    <2>1. N \in 0 .. N
      BY <1>0
    <2> QED
      BY <2>1, <1>8, <1>9
  <1>17. s[Len(toks) + 1] = << >>
    BY <1>10 DEF Scans
  <1>18. h[N] \o << >> = h[N]
    BY <1>16, ConcatEmptySeq DEF Codes
  <1> QED
    BY <1>7, <1>10, <1>15, <1>16, <1>17, <1>18 DEF toks

\* Where the tokens of two sequences are when they are written one behind the other.
LEMMA ConcatAt ==
  ASSUME NEW a \in Code, NEW b \in Code
  PROVE  /\ a \o b \in Code /\ Len(a) \in Nat /\ Len(b) \in Nat
         /\ Len(a \o b) = Len(a) + Len(b)
         /\ \A j \in 1 .. Len(a) : (a \o b)[j] = a[j]
         /\ \A j \in 1 .. Len(b) : (a \o b)[Len(a) + j] = b[j]
  <1> DEFINE m == Len(a)
             n == Len(b)
             ab == a \o b
  <1>1. m \in Nat /\ n \in Nat
    BY LenProperties DEF Code
  <1>2. /\ ab \in Code /\ Len(ab) = m + n
        /\ \A j \in 1 .. m + n : ab[j] = IF j <= m THEN a[j] ELSE b[j - m]
    BY ConcatProperties DEF Code
  <1> HIDE DEF ab, m, n
  <1>3. ASSUME NEW j \in 1 .. n PROVE ab[m + j] = b[j]
    <2>1. m + j \in 1 .. m + n /\ ~(m + j <= m) /\ (m + j) - m = j
      BY <1>1
    <2> QED
      BY <2>1, <1>2
  <1>4. \A j \in 1 .. m : ab[j] = a[j]
    BY <1>1, <1>2
  <1> QED
    BY <1>1, <1>2, <1>3, <1>4 DEF ab, m, n

\* A declaration with header h and arguments a, up to its semicolon, and the tokens
\* that follow it.
Declaration(h, a, i) == (h \o <<"bool", "v">>) \o (a \o (<<"=">> \o i))

Tail5 == <<Token!Semicolon, "b", "::", "z", Token!Semicolon>>

\* Where its tokens are.
Declares(d, h, a, i) ==
  /\ d \in Code /\ Len(h) \in Nat /\ Len(a) \in Nat /\ Len(i) \in Nat
  /\ Len(d) = Len(h) + Len(a) + Len(i) + 3
  /\ \A j \in 1 .. Len(h) : d[j] = h[j]
  /\ d[Len(h) + 1] = "bool" /\ d[Len(h) + 2] = "v"
  /\ \A j \in 1 .. Len(a) : d[Len(h) + 2 + j] = a[j]
  /\ d[Len(h) + Len(a) + 3] = "="
  /\ \A j \in 1 .. Len(i) : d[Len(h) + Len(a) + 3 + j] = i[j]

LEMMA DeclarationTokens ==
  ASSUME NEW h \in Code, NEW a \in Code, NEW i \in Code
  PROVE  Declares(Declaration(h, a, i), h, a, i)
  <1> DEFINE v == <<"bool", "v">>
             e == <<"=">>
             hv == h \o v
             ei == e \o i
             aei == a \o ei
             d == hv \o aei
  <1>1. /\ v \in Code /\ Len(v) = 2 /\ v[1] = "bool" /\ v[2] = "v"
        /\ e \in Code /\ Len(e) = 1 /\ e[1] = "="
    <2>1. "bool" \in AnyToken /\ "v" \in AnyToken /\ "=" \in AnyToken
      BY DEF AnyToken
    <2> QED
      BY <2>1 DEF Code
  <1> HIDE DEF v, e
  <1>2. /\ hv \in Code /\ Len(hv) = Len(h) + 2 /\ Len(h) \in Nat
        /\ \A j \in 1 .. Len(h) : hv[j] = h[j]
        /\ \A j \in 1 .. 2 : hv[Len(h) + j] = v[j]
    <2>1. /\ hv \in Code /\ Len(hv) = Len(h) + Len(v) /\ Len(h) \in Nat
          /\ \A j \in 1 .. Len(h) : hv[j] = h[j]
          /\ \A j \in 1 .. Len(v) : hv[Len(h) + j] = v[j]
      BY <1>1, ConcatAt
    <2> QED
      BY <2>1, <1>1
  <1>3. /\ ei \in Code /\ Len(ei) = 1 + Len(i) /\ Len(i) \in Nat
        /\ \A j \in 1 .. 1 : ei[j] = e[j]
        /\ \A j \in 1 .. Len(i) : ei[1 + j] = i[j]
    <2>1. /\ ei \in Code /\ Len(ei) = Len(e) + Len(i) /\ Len(i) \in Nat
          /\ \A j \in 1 .. Len(e) : ei[j] = e[j]
          /\ \A j \in 1 .. Len(i) : ei[Len(e) + j] = i[j]
      BY <1>1, ConcatAt
    <2> QED
      BY <2>1, <1>1
  <1> HIDE DEF hv, ei
  <1>4. /\ aei \in Code /\ Len(aei) = Len(a) + Len(ei) /\ Len(a) \in Nat
        /\ \A j \in 1 .. Len(a) : aei[j] = a[j]
        /\ \A j \in 1 .. Len(ei) : aei[Len(a) + j] = ei[j]
    BY <1>3, ConcatAt
  <1> HIDE DEF aei
  <1>5. /\ d \in Code /\ Len(d) = Len(hv) + Len(aei)
        /\ \A j \in 1 .. Len(hv) : d[j] = hv[j]
        /\ \A j \in 1 .. Len(aei) : d[Len(hv) + j] = aei[j]
    BY <1>2, <1>4, ConcatAt
  <1> HIDE DEF d
  <1>6. \A j \in 1 .. Len(h) : d[j] = h[j]
    BY <1>2, <1>5
  <1>7. d[Len(h) + 1] = "bool" /\ d[Len(h) + 2] = "v"
    <2>1. /\ 1 \in 1 .. 2 /\ 2 \in 1 .. 2
          /\ Len(h) + 1 \in 1 .. Len(hv) /\ Len(h) + 2 \in 1 .. Len(hv)
      BY <1>2
    <2> QED
      BY <2>1, <1>1, <1>2, <1>5
  <1>8. ASSUME NEW j \in 1 .. Len(a) PROVE d[Len(h) + 2 + j] = a[j]
    <2>1. j \in 1 .. Len(aei) /\ Len(hv) + j = Len(h) + 2 + j
      BY <1>2, <1>3, <1>4
    <2> QED
      BY <2>1, <1>4, <1>5
  <1>9. d[Len(h) + Len(a) + 3] = "="
    <2>1. /\ 1 \in 1 .. Len(ei) /\ 1 \in 1 .. 1 /\ Len(a) + 1 \in 1 .. Len(aei)
          /\ Len(hv) + (Len(a) + 1) = Len(h) + Len(a) + 3
      BY <1>2, <1>3, <1>4
    <2>2. d[Len(hv) + (Len(a) + 1)] = aei[Len(a) + 1] /\ aei[Len(a) + 1] = ei[1]
      BY <2>1, <1>4, <1>5
    <2> QED
      BY <2>1, <2>2, <1>1, <1>3
  <1>10. ASSUME NEW j \in 1 .. Len(i) PROVE d[Len(h) + Len(a) + 3 + j] = i[j]
    <2>1. /\ 1 + j \in 1 .. Len(ei) /\ Len(a) + (1 + j) \in 1 .. Len(aei)
          /\ Len(hv) + (Len(a) + (1 + j)) = Len(h) + Len(a) + 3 + j
      BY <1>2, <1>3, <1>4
    <2>2. /\ d[Len(hv) + (Len(a) + (1 + j))] = aei[Len(a) + (1 + j)]
          /\ aei[Len(a) + (1 + j)] = ei[1 + j]
      BY <2>1, <1>4, <1>5
    <2> QED
      BY <2>1, <2>2, <1>3
  <1>11. Len(d) = Len(h) + Len(a) + Len(i) + 3
    BY <1>2, <1>3, <1>4, <1>5
  <1>12. Declares(d, h, a, i)
    BY <1>2, <1>3, <1>4, <1>5, <1>6, <1>7, <1>8, <1>9, <1>10, <1>11 DEF Declares
  <1> QED
    BY <1>12 DEF d, hv, aei, ei, v, e, Declaration

\* The number of tokens up to p that are in S.
Tally(s, p, S) == Cardinality({j \in 1 .. p : s[j] \in S})

LEMMA TallySteps ==
  ASSUME NEW s, NEW p \in Nat, NEW S
  PROVE  /\ Tally(s, 0, S) = 0
         /\ Tally(s, p, S) \in Nat
         /\ s[p + 1] \in S => Tally(s, p + 1, S) = Tally(s, p, S) + 1
         /\ s[p + 1] \notin S => Tally(s, p + 1, S) = Tally(s, p, S)
  <1> DEFINE R(q) == {j \in 1 .. q : s[j] \in S}
  <1>1. IsFiniteSet(R(p)) /\ Cardinality(R(p)) \in Nat
    <2>1. IsFiniteSet(1 .. p)
      BY FS_Interval
    <2> QED
      BY <2>1, FS_Subset, FS_CardinalityType
  <1>2. R(0) = {}
    OBVIOUS
  <1>3. \A j \in 1 .. p + 1 : j \in 1 .. p \/ j = p + 1
    OBVIOUS
  <1>4. 1 .. p \subseteq 1 .. p + 1 /\ p + 1 \in 1 .. p + 1 /\ p + 1 \notin 1 .. p
    OBVIOUS
  <1>5. s[p + 1] \in S => R(p + 1) = R(p) \cup {p + 1}
    BY <1>3, <1>4
  <1>6. s[p + 1] \notin S => R(p + 1) = R(p)
    BY <1>3, <1>4
  <1>7. p + 1 \notin R(p)
    BY <1>4
  <1> HIDE DEF R
  <1>8. Cardinality(R(p) \cup {p + 1}) = Cardinality(R(p)) + 1
    BY <1>1, <1>7, FS_AddElement
  <1>9. Cardinality({}) = 0
    BY FS_EmptySet
  <1> QED
    BY <1>1, <1>2, <1>5, <1>6, <1>8, <1>9 DEF R, Tally

\* What is counted depends on the tokens up to there only.
LEMMA TallyAgrees ==
  ASSUME NEW s, NEW t, NEW p, NEW S, \A j \in 1 .. p : s[j] = t[j]
  PROVE  Tally(s, p, S) = Tally(t, p, S)
  <1>1. {j \in 1 .. p : s[j] \in S} = {j \in 1 .. p : t[j] \in S}
    OBVIOUS
  <1> QED
    BY <1>1 DEF Tally

\* What is nested where nothing ends that did not open: what opened less what ended.
Deep(toks, i) == Tally(toks, i, Token!Opening) - Tally(toks, i, Token!Ending)

LEMMA NestingIsDeep ==
  ASSUME NEW toks \in Code, \A i \in 1 .. Len(toks) : Deep(toks, i) >= 0
  PROVE  \A i \in 0 .. Len(toks) : Token!Nesting(toks)[i] = Deep(toks, i)
  <1> DEFINE L == Len(toks)
             next(d, i) == IF i = 0 THEN 0
                           ELSE IF toks[i] \in Token!Opening THEN d[i - 1] + 1
                           ELSE IF toks[i] \in Token!Ending /\ d[i - 1] > 0 THEN d[i - 1] - 1
                           ELSE d[i - 1]
             Eq(d) == d = [i \in 0 .. L |-> next(d, i)]
             h == [i \in 0 .. L |-> Deep(toks, i)]
             nest == CHOOSE d : Eq(d)
  <1>0. L \in Nat
    BY LenProperties DEF Code
  <1>1. Deep(toks, 0) = 0 /\ \A i \in Nat : Deep(toks, i) \in Int
    <2>1. Tally(toks, 0, Token!Opening) = 0 /\ Tally(toks, 0, Token!Ending) = 0
      BY TallySteps
    <2>2. \A i \in Nat : Tally(toks, i, Token!Opening) \in Nat /\ Tally(toks, i, Token!Ending) \in Nat
      BY TallySteps
    <2> QED
      BY <2>1, <2>2 DEF Deep
  <1>2. ASSUME NEW i \in 1 .. L
        PROVE  /\ Deep(toks, i - 1) \in Nat
               /\ toks[i] \in Token!Opening => Deep(toks, i) = Deep(toks, i - 1) + 1
               /\ toks[i] \in Token!Ending =>
                    Deep(toks, i) = Deep(toks, i - 1) - 1 /\ Deep(toks, i - 1) > 0
               /\ toks[i] \notin Token!Opening \cup Token!Ending =>
                    Deep(toks, i) = Deep(toks, i - 1)
    <2> DEFINE p == i - 1
    <2>1. p \in Nat /\ p + 1 = i /\ (p = 0 \/ p \in 1 .. L)
      BY <1>0
    <2> HIDE DEF p
    <2>2. /\ Tally(toks, p, Token!Opening) \in Nat
          /\ toks[p + 1] \in Token!Opening =>
               Tally(toks, p + 1, Token!Opening) = Tally(toks, p, Token!Opening) + 1
          /\ toks[p + 1] \notin Token!Opening =>
               Tally(toks, p + 1, Token!Opening) = Tally(toks, p, Token!Opening)
      BY <2>1, TallySteps
    <2>3. /\ Tally(toks, p, Token!Ending) \in Nat
          /\ toks[p + 1] \in Token!Ending =>
               Tally(toks, p + 1, Token!Ending) = Tally(toks, p, Token!Ending) + 1
          /\ toks[p + 1] \notin Token!Ending =>
               Tally(toks, p + 1, Token!Ending) = Tally(toks, p, Token!Ending)
      BY <2>1, TallySteps
    <2>4. \A x : ~(x \in Token!Opening /\ x \in Token!Ending)
      BY DEF Token!Opening, Token!Ending
    <2>5. Deep(toks, p) \in Int /\ Deep(toks, p) >= 0 /\ Deep(toks, p + 1) >= 0
      BY <2>1, <1>1, <1>0
    <2>6. /\ Deep(toks, p) = Tally(toks, p, Token!Opening) - Tally(toks, p, Token!Ending)
          /\ Deep(toks, p + 1)
               = Tally(toks, p + 1, Token!Opening) - Tally(toks, p + 1, Token!Ending)
      BY DEF Deep
    <2>7. /\ Deep(toks, p) \in Nat
          /\ toks[p + 1] \in Token!Opening => Deep(toks, p + 1) = Deep(toks, p) + 1
          /\ toks[p + 1] \in Token!Ending =>
               Deep(toks, p + 1) = Deep(toks, p) - 1 /\ Deep(toks, p) > 0
          /\ toks[p + 1] \notin Token!Opening \cup Token!Ending =>
               Deep(toks, p + 1) = Deep(toks, p)
      BY <2>2, <2>3, <2>4, <2>5, <2>6
    <2> QED
      BY <2>1, <2>7 DEF p
  <1>3. Token!Nesting(toks) = nest
    BY DEF Token!Nesting
  <1>4. Eq(h)
    <2>1. ASSUME NEW i \in 0 .. L PROVE Deep(toks, i) = next(h, i)
      <3>1. CASE i = 0
        BY <3>1, <1>1
      <3>2. CASE i # 0
        <4>1. i \in 1 .. L /\ i - 1 \in 0 .. L
          BY <3>2, <1>0
        <4>2. h[i - 1] = Deep(toks, i - 1)
          BY <4>1
        <4> HIDE DEF h
        <4> QED
          BY <3>2, <4>1, <4>2, <1>2
      <3> QED
        BY <3>1, <3>2
    <2> HIDE DEF next
    <2> QED
      BY <2>1
  <1>5. Eq(nest)
    <2> HIDE DEF Eq, h
    <2> QED
      BY <1>4
  <1> HIDE DEF nest, h
  <1>6. \A i \in 0 .. L : nest[i] = next(nest, i)
    <2> HIDE DEF next
    <2> QED
      BY <1>5
  <1> DEFINE E == {i \in Nat : i <= L => nest[i] = Deep(toks, i)}
  <1> HIDE DEF Eq
  <1>7. 0 \in E
    <2>1. 0 \in 0 .. L
      BY <1>0
    <2>2. nest[0] = 0
      BY <2>1, <1>6
    <2> QED
      BY <2>2, <1>1
  <1>8. ASSUME NEW i \in E PROVE i + 1 \in E
    <2> SUFFICES ASSUME i + 1 <= L PROVE nest[i + 1] = Deep(toks, i + 1)
      OBVIOUS
    <2>1. i \in Nat /\ i <= L /\ nest[i] = Deep(toks, i)
      BY <1>0
    <2>2. i + 1 \in 0 .. L /\ i + 1 \in 1 .. L /\ i + 1 # 0 /\ (i + 1) - 1 = i
      BY <2>1, <1>0
    <2>3. nest[i + 1] = next(nest, i + 1)
      <3> HIDE DEF next
      <3> QED
        BY <2>2, <1>6
    <2> QED
      BY <2>1, <2>2, <2>3, <1>2
  <1> HIDE DEF E
  <1>9. E = Nat
    <2>1. E \in SUBSET Nat
      BY DEF E
    <2> QED
      BY <1>7, <1>8, <2>1, SetInduction
  <1>10. ASSUME NEW i \in 0 .. L PROVE nest[i] = Deep(toks, i)
    <2>1. i \in E /\ i <= L
      BY <1>0, <1>9
    <2> QED
      BY <2>1 DEF E
  <1> QED
    BY <1>3, <1>10

\* The tokens of a declaration d and those behind it.
LEMMA TailTokens ==
  ASSUME NEW d \in Code
  PROVE  LET toks == d \o Tail5
         IN  /\ toks \in Code /\ Len(d) \in Nat /\ Len(toks) = Len(d) + 5
             /\ \A j \in 1 .. Len(d) : toks[j] = d[j]
             /\ toks[Len(d) + 1] = Token!Semicolon /\ toks[Len(d) + 2] = "b" /\ toks[Len(d) + 3] = "::"
             /\ toks[Len(d) + 4] = "z" /\ toks[Len(d) + 5] = Token!Semicolon
  <1> DEFINE t == Tail5
             toks == d \o t
  <1>1. /\ t \in Code /\ Len(t) = 5
        /\ t[1] = Token!Semicolon /\ t[2] = "b" /\ t[3] = "::" /\ t[4] = "z" /\ t[5] = Token!Semicolon
    <2>1. Token!Semicolon \in AnyToken /\ "b" \in AnyToken /\ "::" \in AnyToken /\ "z" \in AnyToken
      BY DEF AnyToken
    <2> QED
      BY <2>1 DEF Tail5, Code
  <1> HIDE DEF t
  <1>2. /\ toks \in Code /\ Len(d) \in Nat /\ Len(toks) = Len(d) + Len(t)
        /\ \A j \in 1 .. Len(d) : toks[j] = d[j]
        /\ \A j \in 1 .. Len(t) : toks[Len(d) + j] = t[j]
    BY <1>1, ConcatAt
  <1>3. /\ 1 \in 1 .. Len(t) /\ 2 \in 1 .. Len(t) /\ 3 \in 1 .. Len(t) /\ 4 \in 1 .. Len(t)
        /\ 5 \in 1 .. Len(t)
    BY <1>1
  <1> HIDE DEF toks
  <1>4. /\ toks[Len(d) + 1] = Token!Semicolon /\ toks[Len(d) + 2] = "b" /\ toks[Len(d) + 3] = "::"
        /\ toks[Len(d) + 4] = "z" /\ toks[Len(d) + 5] = Token!Semicolon
    BY <1>1, <1>2, <1>3
  <1> QED
    BY <1>1, <1>2, <1>4 DEF toks, t

\* What opens in a declaration ends in it, and its semicolon is in nothing.
LEMMA DeepTokens ==
  ASSUME NEW d \in Code, Bracketed(d)
  PROVE  LET toks == d \o Tail5
         IN  /\ \A i \in 1 .. Len(toks) : Deep(toks, i) >= 0
             /\ Deep(toks, Len(d) + 1) = 0
             /\ \A i \in 1 .. Len(d) : toks[i] = Token!Semicolon => Deep(toks, i) > 0
  <1> DEFINE toks == d \o Tail5
             n == Len(d)
  <1>1. /\ toks \in Code /\ n \in Nat /\ Len(toks) = n + 5
        /\ \A j \in 1 .. n : toks[j] = d[j]
        /\ toks[n + 1] = Token!Semicolon /\ toks[n + 2] = "b" /\ toks[n + 3] = "::"
        /\ toks[n + 4] = "z" /\ toks[n + 5] = Token!Semicolon
    BY TailTokens
  <1>2. /\ \A j \in 1 .. n : Tally(d, j, Token!Opening) >= Tally(d, j, Token!Ending)
        /\ Tally(d, n, Token!Opening) = Tally(d, n, Token!Ending)
        /\ \A j \in 1 .. n : d[j] = Token!Semicolon => Tally(d, j, Token!Opening) > Tally(d, j, Token!Ending)
    BY DEF Bracketed, Tally
  <1> HIDE DEF toks, n
  <1>3. ASSUME NEW p \in 0 .. n
        PROVE  /\ Tally(toks, p, Token!Opening) = Tally(d, p, Token!Opening)
               /\ Tally(toks, p, Token!Ending) = Tally(d, p, Token!Ending)
    <2>1. \A j \in 1 .. p : toks[j] = d[j]
      BY <1>1
    <2> QED
      BY <2>1, TallyAgrees
  <1>4. \A p \in Nat : Tally(d, p, Token!Opening) \in Nat /\ Tally(d, p, Token!Ending) \in Nat
    BY TallySteps
  <1>5. ASSUME NEW i \in 1 .. n
        PROVE  Deep(toks, i) >= 0 /\ (toks[i] = Token!Semicolon => Deep(toks, i) > 0)
    <2>1. i \in 0 .. n /\ i \in Nat
      BY <1>1
    <2>2. /\ Tally(toks, i, Token!Opening) = Tally(d, i, Token!Opening)
          /\ Tally(toks, i, Token!Ending) = Tally(d, i, Token!Ending)
      BY <2>1, <1>3
    <2>3. Tally(d, i, Token!Opening) \in Nat /\ Tally(d, i, Token!Ending) \in Nat
      BY <2>1, <1>4
    <2>4. Tally(d, i, Token!Opening) >= Tally(d, i, Token!Ending)
      BY <1>2
    <2>5. toks[i] = Token!Semicolon => Tally(d, i, Token!Opening) > Tally(d, i, Token!Ending)
      BY <1>1, <1>2
    <2> QED
      BY <2>2, <2>3, <2>4, <2>5 DEF Deep
  <1>6. Deep(toks, n) = 0
    <2>1. n \in 0 .. n
      BY <1>1
    <2> QED
      BY <2>1, <1>1, <1>2, <1>3, <1>4 DEF Deep
  <1>7. ASSUME NEW p \in Nat, Deep(toks, p) = 0,
               toks[p + 1] \in {Token!Semicolon, "b", "::", "z"}
        PROVE  Deep(toks, p + 1) = 0
    <2>1. toks[p + 1] \notin Token!Opening /\ toks[p + 1] \notin Token!Ending
      BY <1>7, Zenon DEF Token!Opening, Token!Ending, Token!Semicolon
    <2>2. /\ Tally(toks, p + 1, Token!Opening) = Tally(toks, p, Token!Opening)
          /\ Tally(toks, p + 1, Token!Ending) = Tally(toks, p, Token!Ending)
      BY <2>1, TallySteps
    <2> QED
      BY <1>7, <2>2 DEF Deep
  <1>8. /\ Deep(toks, n + 1) = 0 /\ Deep(toks, n + 2) = 0 /\ Deep(toks, n + 3) = 0
        /\ Deep(toks, n + 4) = 0 /\ Deep(toks, n + 5) = 0
    <2>1. Deep(toks, n + 1) = 0
      BY <1>1, <1>6, <1>7
    <2>2. Deep(toks, (n + 1) + 1) = 0
      BY <2>1, <1>1, <1>7
    <2>3. Deep(toks, (n + 2) + 1) = 0
      BY <2>2, <1>1, <1>7
    <2>4. Deep(toks, (n + 3) + 1) = 0
      BY <2>3, <1>1, <1>7
    <2>5. Deep(toks, (n + 4) + 1) = 0
      BY <2>4, <1>1, <1>7
    <2> QED
      BY <2>1, <2>2, <2>3, <2>4, <2>5, <1>1
  <1>9. ASSUME NEW i \in 1 .. Len(toks) PROVE Deep(toks, i) >= 0
    <2>1. i \in 1 .. n \/ i = n + 1 \/ i = n + 2 \/ i = n + 3 \/ i = n + 4 \/ i = n + 5
      BY <1>1
    <2> QED
      BY <2>1, <1>5, <1>8
  <1> QED
    BY <1>5, <1>8, <1>9 DEF toks, n

\* The initializer is what is written behind the = of the declaration.
LEMMA InitializerIsFound ==
  ASSUME NEW h \in Code, NEW a \in Code, NEW i \in Code,
         Bracketed(Declaration(h, a, i)), AssignedOnce(h, a)
  PROVE  Token!Initializer(Declaration(h, a, i) \o Tail5, "v") = i
  <1> DEFINE d == Declaration(h, a, i)
             toks == d \o Tail5
             m == Len(h)
             g == Len(a)
             n == Len(i)
             e == m + g + n + 4
             eq == m + g + 3
  <1>1. /\ d \in Code /\ m \in Nat /\ g \in Nat /\ n \in Nat /\ Len(d) = m + g + n + 3
        /\ \A j \in 1 .. m : d[j] = h[j]
        /\ d[m + 1] = "bool" /\ d[m + 2] = "v"
        /\ \A j \in 1 .. g : d[m + 2 + j] = a[j]
        /\ d[m + g + 3] = "="
        /\ \A j \in 1 .. n : d[m + g + 3 + j] = i[j]
    <2>1. Declares(d, h, a, i)
      BY DeclarationTokens
    <2> HIDE DEF d
    <2> QED
      BY <2>1 DEF Declares
  <1>2. /\ toks \in Code /\ Len(toks) = Len(d) + 5
        /\ \A j \in 1 .. Len(d) : toks[j] = d[j]
        /\ toks[Len(d) + 1] = Token!Semicolon
    <2> HIDE DEF d
    <2> QED
      BY <1>1, TailTokens
  <1>3. /\ \A j \in 1 .. Len(toks) : Deep(toks, j) >= 0
        /\ Deep(toks, Len(d) + 1) = 0
        /\ \A j \in 1 .. Len(d) : toks[j] = Token!Semicolon => Deep(toks, j) > 0
    <2>1. Bracketed(d)
      OBVIOUS
    <2> HIDE DEF d
    <2> QED
      BY <1>1, <2>1, DeepTokens
  <1> HIDE DEF d, toks, m, g, n
  <1>4. \A j \in 0 .. Len(toks) : Token!Nesting(toks)[j] = Deep(toks, j)
    BY <1>2, <1>3, NestingIsDeep
  <1>5. /\ e \in Nat /\ Len(d) + 1 = e /\ Len(toks) = e + 4 /\ e - 1 = Len(d)
        /\ eq \in 1 .. e - 1 /\ m + 2 \in 1 .. e - 1
        /\ \A j \in 1 .. e - 1 : toks[j] = d[j]
    BY <1>1, <1>2
  <1> DEFINE ends == {j \in 1 .. Len(toks) : toks[j] = Token!Semicolon /\ Token!Nesting(toks)[j] = 0}
             end == Token!Min(ends)
             names == {j \in 1 .. end - 1 : toks[j] = "v"}
             v == Token!Min(names)
             assigns == {j \in v + 1 .. end - 1 : toks[j] = "="}
             at == Token!Min(assigns)
  <1>6. end = e /\ ends # {}
    <2>1. e \in ends
      <3>1. e \in 1 .. Len(toks) /\ e \in 0 .. Len(toks)
        BY <1>5
      <3> QED
        BY <3>1, <1>2, <1>3, <1>4, <1>5
    <2>2. ASSUME NEW j \in ends PROVE e <= j
      <3> SUFFICES ASSUME ~(e <= j) PROVE FALSE
        OBVIOUS
      <3>1. j \in 1 .. Len(d) /\ j \in 0 .. Len(toks) /\ toks[j] = Token!Semicolon
        BY <1>5
      <3>2. Deep(toks, j) > 0 /\ Deep(toks, j) = 0
        BY <3>1, <1>3, <1>4
      <3> QED
        BY <3>2
    <2>3. ends \in SUBSET Nat
      BY <1>5
    <2> HIDE DEF ends, e
    <2> QED
      BY <2>1, <2>2, <2>3, FirstHit
  <1> HIDE DEF end, ends
  <1>7. /\ names # {} /\ v \in 1 .. m + 2 /\ toks[v] = "v"
    <2>1. m + 2 \in names
      BY <1>1, <1>5, <1>6
    <2>2. names \in SUBSET Nat
      BY <1>5, <1>6
    <2> DEFINE u == names
    <2> HIDE DEF u
    <2>3. PICK k \in u : \A j \in u : k <= j
      BY <2>1, <2>2, LeastMember DEF u
    <2>4. v = k
      <3>1. v = Token!Min(u)
        BY DEF u
      <3>2. u \in SUBSET Nat
        BY <2>2 DEF u
      <3> QED
        BY <2>3, <3>1, <3>2, FirstHit
    <2>5. k <= m + 2
      BY <2>1, <2>3 DEF u
    <2>6. k \in 1 .. end - 1 /\ toks[k] = "v"
      BY <2>3 DEF u
    <2> QED
      BY <2>1, <2>4, <2>5, <2>6, <1>5, <1>6, <1>1
  <1> HIDE DEF v, names
  <1>8. at = eq /\ assigns # {}
    <2>1. eq \in assigns
      BY <1>1, <1>5, <1>6, <1>7
    <2>2. ASSUME NEW j \in assigns PROVE eq <= j
      <3> SUFFICES ASSUME ~(eq <= j) PROVE FALSE
        OBVIOUS
      <3>1. j \in 1 .. e - 1 /\ v < j /\ d[j] = "=" /\ j < m + g + 3 /\ d[v] = "v"
        BY <1>1, <1>5, <1>6, <1>7
      <3>2. CASE j <= m
        <4>1. j \in 1 .. m /\ v \in 1 .. m
          BY <3>1, <3>2, <1>1, <1>7
        <4>2. h[v] = "v" /\ h[j] = "="
          BY <4>1, <3>1, <1>1
        <4> QED
          BY <4>1, <4>2, <3>1 DEF AssignedOnce, m
      <3>3. CASE j = m + 1 \/ j = m + 2
        BY <3>1, <3>3, <1>1
      <3>4. CASE j > m + 2
        <4>1. j - (m + 2) \in 1 .. g /\ m + 2 + (j - (m + 2)) = j
          BY <3>1, <3>4, <1>1
        <4>2. a[j - (m + 2)] = "="
          BY <4>1, <3>1, <1>1
        <4> QED
          BY <4>1, <4>2 DEF AssignedOnce, ToSet, g
      <3> QED
        BY <3>1, <3>2, <3>3, <3>4, <1>1
    <2>3. assigns \in SUBSET Nat
      BY <1>5, <1>6, <1>7
    <2> HIDE DEF assigns, eq
    <2> QED
      BY <2>1, <2>2, <2>3, FirstHit
  <1>9. Token!Initializer(toks, "v") = SubSeq(toks, eq + 1, e - 1)
    <2>1. Token!Initializer(toks, "v") = SubSeq(toks, at + 1, end - 1)
      BY <1>6, <1>7, <1>8 DEF Token!Initializer, ends, end, names, v
    <2> QED
      BY <2>1, <1>6, <1>8
  <1>10. SubSeq(toks, eq + 1, e - 1) = i
    <2> DEFINE x == eq + 1
               y == e - 1
               s == SubSeq(toks, x, y)
    <2>1. /\ x \in Int /\ y \in Int /\ \A j \in x .. y : toks[j] \in AnyToken
      BY <1>2, <1>5, ElementOfSeq DEF Code
    <2>2. y - x + 1 = n /\ x \in Nat /\ x = m + g + 4
      BY <1>1
    <2> HIDE DEF x, y
    <2>3. /\ s \in Seq(AnyToken)
          /\ Len(s) = IF x <= y THEN y - x + 1 ELSE 0
          /\ \A j \in 1 .. y - x + 1 : s[j] = toks[x + j - 1]
      BY <2>1, SubSeqProperties
    <2>4. Len(s) = n
      BY <2>1, <2>2, <2>3, <1>1
    <2>5. ASSUME NEW j \in 1 .. n PROVE s[j] = i[j]
      <3>1. /\ x + j - 1 = m + g + 3 + j /\ m + g + 3 + j \in 1 .. e - 1
            /\ j \in 1 .. y - x + 1
        BY <2>2, <1>1
      <3> QED
        BY <3>1, <2>3, <1>1, <1>5
    <2>6. i \in Seq(AnyToken) /\ Len(i) = n
      BY DEF Code, n
    <2> HIDE DEF s
    <2>7. s = i
      BY <2>3, <2>4, <2>5, <2>6, SeqEqual
    <2> QED
      BY <2>7 DEF s, x, y
  <1> QED
    BY <1>9, <1>10 DEF toks, d

\* An angle bracket opens, closes, or the token is none.
LEMMA DepthSteps ==
  ASSUME NEW t, NEW p \in Nat
  PROVE  /\ Token!Depth(t, 0) = 0
         /\ Token!Depth(t, p) \in Int
         /\ t[p + 1] = "<" => Token!Depth(t, p + 1) = Token!Depth(t, p) + 1
         /\ Token!Closing(t[p + 1]) => Token!Depth(t, p + 1) = Token!Depth(t, p) - 1
         /\ t[p + 1] # "<" /\ ~Token!Closing(t[p + 1]) =>
              Token!Depth(t, p + 1) = Token!Depth(t, p)
  <1>1. \A q : Token!Depth(t, q) = Tally(t, q, {"<"}) - Tally(t, q, {">", ">>"})
    <2> TAKE q
    <2>1. /\ {j \in 1 .. q : t[j] = "<"} = {j \in 1 .. q : t[j] \in {"<"}}
          /\ {j \in 1 .. q : Token!Closing(t[j])} = {j \in 1 .. q : t[j] \in {">", ">>"}}
      BY DEF Token!Closing
    <2>2. Tally(t, q, {"<"}) = Cardinality({j \in 1 .. q : t[j] = "<"})
      BY <2>1 DEF Tally
    <2>3. Tally(t, q, {">", ">>"}) = Cardinality({j \in 1 .. q : Token!Closing(t[j])})
      BY <2>1 DEF Tally
    <2>4. Token!Depth(t, q) = Cardinality({j \in 1 .. q : t[j] = "<"})
                                - Cardinality({j \in 1 .. q : Token!Closing(t[j])})
      BY Zenon DEF Token!Depth, Token!Cardinality, Cardinality
    <2> QED
      BY <2>2, <2>3, <2>4, Zenon
  <1>2. /\ Tally(t, 0, {"<"}) = 0 /\ Tally(t, p, {"<"}) \in Nat
        /\ t[p + 1] \in {"<"} => Tally(t, p + 1, {"<"}) = Tally(t, p, {"<"}) + 1
        /\ t[p + 1] \notin {"<"} => Tally(t, p + 1, {"<"}) = Tally(t, p, {"<"})
    BY TallySteps
  <1>3. /\ Tally(t, 0, {">", ">>"}) = 0 /\ Tally(t, p, {">", ">>"}) \in Nat
        /\ t[p + 1] \in {">", ">>"} =>
             Tally(t, p + 1, {">", ">>"}) = Tally(t, p, {">", ">>"}) + 1
        /\ t[p + 1] \notin {">", ">>"} => Tally(t, p + 1, {">", ">>"}) = Tally(t, p, {">", ">>"})
    BY TallySteps
  <1>4. t[p + 1] \in {">", ">>"} <=> Token!Closing(t[p + 1])
    BY DEF Token!Closing
  <1>5. t[p + 1] \in {"<"} => t[p + 1] \notin {">", ">>"}
    OBVIOUS
  <1>6. t[p + 1] \in {"<"} <=> t[p + 1] = "<"
    OBVIOUS
  <1> HIDE DEF Tally
  <1> QED
    BY <1>1, <1>2, <1>3, <1>4, <1>5, <1>6

\* The depth at a token depends on the tokens up to it only.
LEMMA DepthAgrees ==
  ASSUME NEW s, NEW t, NEW p, \A j \in 1 .. p : s[j] = t[j]
  PROVE  Token!Depth(s, p) = Token!Depth(t, p)
  <1>1. /\ {j \in 1 .. p : s[j] = "<"} = {j \in 1 .. p : t[j] = "<"}
        /\ {j \in 1 .. p : Token!Closing(s[j])} = {j \in 1 .. p : Token!Closing(t[j])}
    OBVIOUS
  <1> QED
    BY <1>1 DEF Token!Depth

\* A header begins at depth one, and its third token closes it if no angle bracket is
\* open behind it.
LEMMA DepthOfHeader ==
  ASSUME NEW t, t[1] = "template", t[2] = "<"
  PROVE  Token!Depth(t, 2) = 1 /\ (Token!Depth(t, 3) <= 0 <=> Token!Closing(t[3]))
  <1>1. Token!Depth(t, 0) = 0 /\ 0 + 1 = 1 /\ 1 + 1 = 2 /\ 2 + 1 = 3
    BY DepthSteps
  <1>2. Token!Depth(t, 1) = 0
    <2>1. t[0 + 1] # "<" /\ ~Token!Closing(t[0 + 1])
      BY <1>1 DEF Token!Closing
    <2>2. Token!Depth(t, 0 + 1) = Token!Depth(t, 0)
      BY <2>1, DepthSteps
    <2> QED
      BY <1>1, <2>2
  <1>3. Token!Depth(t, 2) = 1
    <2>1. Token!Depth(t, 1 + 1) = Token!Depth(t, 1) + 1
      BY <1>1, DepthSteps
    <2> QED
      BY <1>1, <1>2, <2>1
  <1>4. Token!Closing(t[3]) => Token!Depth(t, 3) = 0
    <2>1. Token!Closing(t[2 + 1]) => Token!Depth(t, 2 + 1) = Token!Depth(t, 2) - 1
      BY DepthSteps
    <2> QED
      BY <1>1, <1>3, <2>1
  <1>5. ~Token!Closing(t[3]) => Token!Depth(t, 3) \in {1, 2}
    <2>1. /\ t[2 + 1] = "<" => Token!Depth(t, 2 + 1) = Token!Depth(t, 2) + 1
          /\ t[2 + 1] # "<" /\ ~Token!Closing(t[2 + 1]) =>
               Token!Depth(t, 2 + 1) = Token!Depth(t, 2)
      BY DepthSteps
    <2> QED
      BY <1>1, <1>3, <2>1
  <1> QED
    BY <1>3, <1>4, <1>5

\* The least of what is found and of a bound behind all of it.
LEMMA BoundIsLeast ==
  ASSUME NEW n \in Nat, NEW S, S = {}
  PROVE  Token!Min(S \cup {n}) = n
  <1>1. {n} \in SUBSET Nat /\ n \in {n} /\ \A y \in {n} : n <= y
    OBVIOUS
  <1>2. S \cup {n} = {n}
    OBVIOUS
  <1> QED
    BY <1>1, <1>2, FirstHit

\* A variable template is told by its header and its arguments.
LEMMA ClassIsTold ==
  ASSUME NEW h \in Code, NEW a \in Code, NEW i \in Code,
         AnglesPair(h, Declaration(h, a, i)), a = << >> \/ a[1] = "<"
  PROVE  Token!Classify(Declaration(h, a, i) \o Tail5, "v")
           = IF Len(h) = 3 THEN "explicit"
             ELSE IF a = << >> THEN "primary"
             ELSE IF ">>" \in ToSet(h) THEN "primary" ELSE "partial"
  <1> DEFINE d == Declaration(h, a, i)
             toks == d \o Tail5
             m == Len(h)
             g == Len(a)
             n == Len(i)
             L == Len(toks)
  <1>1. /\ d \in Code /\ m \in Nat /\ g \in Nat /\ n \in Nat /\ Len(d) = m + g + n + 3
        /\ \A j \in 1 .. m : d[j] = h[j]
        /\ d[m + 1] = "bool" /\ d[m + 2] = "v"
        /\ \A j \in 1 .. g : d[m + 2 + j] = a[j]
        /\ d[m + g + 3] = "="
    <2>1. Declares(d, h, a, i)
      BY DeclarationTokens
    <2> HIDE DEF d
    <2> QED
      BY <2>1 DEF Declares
  <1>2. AnglesPair(h, d)
    OBVIOUS
  <1> HIDE DEF d
  <1>3. /\ toks \in Code /\ Len(d) \in Nat /\ L = Len(d) + 5
        /\ \A j \in 1 .. Len(d) : toks[j] = d[j]
        /\ toks[Len(d) + 1] = Token!Semicolon /\ toks[Len(d) + 2] = "b"
        /\ toks[Len(d) + 3] = "::" /\ toks[Len(d) + 4] = "z" /\ toks[Len(d) + 5] = Token!Semicolon
    BY <1>1, TailTokens
  <1> HIDE DEF toks, m, g, n, L
  <1>4. m > 2 /\ h[1] = "template" /\ h[2] = "<"
    BY <1>2 DEF AnglesPair, m
  <1>5. \A j \in 1 .. m : d[j] = h[j] /\ toks[j] = h[j] /\ j \in 1 .. L
    BY <1>1, <1>3
  <1>6. /\ Token!At(toks, 1) = "template" /\ Token!At(toks, 2) = "<"
        /\ Token!At(toks, 3) = h[3]
    <2>1. 1 \in 1 .. m /\ 2 \in 1 .. m /\ 3 \in 1 .. m
      BY <1>1, <1>4
    <2>2. L = Len(toks)
      BY DEF L
    <2> QED
      BY <2>1, <2>2, <1>4, <1>5 DEF Token!At
  <1>7. L \in Nat /\ L + 1 \in Nat /\ m + 2 \in 1 .. Len(d) /\ Len(d) + 5 = L
    BY <1>1, <1>3
  <1> DEFINE S == {j \in 2 .. L : Token!Depth(toks, j) = 0}
             he == Token!Min(S \cup {L + 1})
             R == {j \in he + 1 .. L : toks[j] = "v"}
             here == Token!Min(R \cup {L + 1})
  <1>8. Token!Classify(toks, "v")
          = IF Token!Closing(h[3]) THEN "explicit"
            ELSE IF Token!At(toks, here + 1) = "<" THEN "partial" ELSE "primary"
    <2>1. he = Token!HeaderEnd(toks)
      BY DEF Token!HeaderEnd, L
    <2> HIDE DEF he
    <2>2. here = Token!Min({j \in Token!HeaderEnd(toks) + 1 .. Len(toks) : toks[j] = "v"}
                             \cup {Len(toks) + 1})
      BY <2>1 DEF L
    <2> HIDE DEF here
    <2> QED
      BY <2>2, <1>6 DEF Token!Classify
  <1> HIDE DEF he, here, S, R
  <1>9. CASE ">>" \notin ToSet(h)
    <2>1. /\ \A j \in 2 .. m - 1 : Token!Depth(h, j) > 0
          /\ Token!Depth(h, m) = 0
      BY <1>2, <1>9 DEF AnglesPair, m
    <2>2. ASSUME NEW j \in 2 .. m PROVE Token!Depth(toks, j) = Token!Depth(h, j)
      <3>1. \A k \in 1 .. j : toks[k] = h[k]
        BY <1>1, <1>5
      <3> QED
        BY <3>1, DepthAgrees
    <2>3. he = m
      <3>1. m \in 2 .. m /\ m \in 2 .. L
        BY <1>1, <1>3, <1>4
      <3>2. m \in S \cup {L + 1}
        BY <3>1, <2>1, <2>2 DEF S
      <3>3. ASSUME NEW j \in S \cup {L + 1} PROVE m <= j
        <4> SUFFICES ASSUME ~(m <= j) PROVE FALSE
          OBVIOUS
        <4>1. j \in 2 .. m - 1 /\ j \in 2 .. m /\ Token!Depth(toks, j) = 0
          BY <3>1, <1>1, <1>7 DEF S
        <4>2. Token!Depth(h, j) > 0 /\ Token!Depth(h, j) = 0
          BY <4>1, <2>1, <2>2
        <4> QED
          BY <4>2
      <3>4. S \cup {L + 1} \in SUBSET Nat
        BY <1>7 DEF S
      <3> DEFINE U == S \cup {L + 1}
      <3> HIDE DEF U
      <3>5. m \in U /\ U \in SUBSET Nat /\ \A j \in U : m <= j
        BY <3>2, <3>3, <3>4 DEF U
      <3>6. Token!Min(U) = m
        BY <3>5, FirstHit
      <3> QED
        BY <3>6 DEF U, he
    <2>4. here = m + 2
      <3>1. toks[m + 2] = "v" /\ toks[m + 1] = "bool" /\ m + 2 \in he + 1 .. L
        BY <2>3, <1>1, <1>3, <1>7
      <3>2. m + 2 \in R \cup {L + 1}
        BY <3>1 DEF R
      <3>3. ASSUME NEW j \in R \cup {L + 1} PROVE m + 2 <= j
        <4>1. j = m + 1 \/ m + 2 <= j
          BY <2>3, <1>1, <1>7 DEF R
        <4>2. j # m + 1
          BY <3>1, <1>1, <1>7 DEF R
        <4> QED
          BY <4>1, <4>2
      <3>4. R \cup {L + 1} \in SUBSET Nat
        BY <2>3, <1>1, <1>7 DEF R
      <3> DEFINE U == R \cup {L + 1}
      <3> HIDE DEF U
      <3>5. m + 2 \in U /\ U \in SUBSET Nat /\ \A j \in U : m + 2 <= j
        BY <3>2, <3>3, <3>4 DEF U
      <3>6. Token!Min(U) = m + 2
        BY <3>5, FirstHit
      <3> QED
        BY <3>6 DEF U, here
    <2>5. Token!At(toks, here + 1) = "<" <=> a # << >>
      <3>1. here + 1 = m + 3 /\ m + 3 \in 1 .. Len(d) /\ m + 3 \in 1 .. Len(toks)
        BY <2>4, <1>1, <1>3, <1>7 DEF L
      <3>2. Token!At(toks, here + 1) = d[m + 3]
        BY <3>1, <1>3 DEF Token!At
      <3>3. CASE a = << >>
        <4>1. g = 0
          BY <3>3, EmptySeq DEF g
        <4>2. m + g + 3 = m + 3
          BY <4>1, <1>1
        <4> QED
          BY <3>2, <3>3, <4>2, <1>1
      <3>4. CASE a # << >>
        <4>1. g # 0
          BY <3>4, EmptySeq DEF g, Code
        <4>2. 1 \in 1 .. g /\ m + 2 + 1 = m + 3
          BY <4>1, <1>1
        <4>3. d[m + 3] = a[1]
          BY <4>2, <1>1
        <4> QED
          BY <3>2, <3>4, <4>3
      <3> QED
        BY <3>3, <3>4
    <2>6. Token!Closing(h[3]) <=> m = 3
      <3>1. Token!Depth(h, 3) <= 0 <=> Token!Closing(h[3])
        BY <1>4, DepthOfHeader
      <3>2. CASE m = 3
        BY <3>1, <3>2, <2>1
      <3>3. CASE m # 3
        <4>1. 3 \in 2 .. m - 1
          BY <3>3, <1>1, <1>4
        <4>2. Token!Depth(h, 3) > 0 /\ Token!Depth(h, 3) \in Int
          BY <4>1, <2>1, DepthSteps
        <4> QED
          BY <3>1, <3>3, <4>2
      <3> QED
        BY <3>2, <3>3
    <2> QED
      BY <2>5, <2>6, <1>8, <1>9 DEF toks, d, m
  <1>10. CASE ">>" \in ToSet(h)
    <2>1. \A j \in 2 .. Len(d) : Token!Depth(d, j) > 0
      BY <1>2, <1>10 DEF AnglesPair
    <2>2. ASSUME NEW j \in 2 .. Len(d) PROVE Token!Depth(toks, j) > 0
      <3>1. \A k \in 1 .. j : toks[k] = d[k]
        BY <1>3
      <3> QED
        BY <3>1, <2>1, DepthAgrees
    <2>3. ASSUME NEW p \in Nat, Token!Depth(toks, p) > 0,
                 toks[p + 1] \in {Token!Semicolon, "b", "::", "z"}
          PROVE  Token!Depth(toks, p + 1) > 0
      <3>1. toks[p + 1] # "<" /\ ~Token!Closing(toks[p + 1])
        BY <2>3, Zenon DEF Token!Closing, Token!Semicolon
      <3>2. Token!Depth(toks, p + 1) = Token!Depth(toks, p)
        BY <3>1, DepthSteps
      <3> QED
        BY <2>3, <3>2
    <2> DEFINE w == Len(d)
    <2>4. w \in Nat /\ w \in 2 .. Len(d) /\ L = w + 5
      BY <1>1, <1>3, <1>4
    <2>5. /\ toks[w + 1] = Token!Semicolon /\ toks[w + 2] = "b" /\ toks[w + 3] = "::"
          /\ toks[w + 4] = "z" /\ toks[w + 5] = Token!Semicolon
      BY <1>3
    <2>6. Token!Depth(toks, w) > 0
      BY <2>2, <2>4
    <2> HIDE DEF w
    <2>7. /\ Token!Depth(toks, w + 1) > 0 /\ Token!Depth(toks, w + 2) > 0
          /\ Token!Depth(toks, w + 3) > 0 /\ Token!Depth(toks, w + 4) > 0
          /\ Token!Depth(toks, w + 5) > 0
      <3>1. Token!Depth(toks, w + 1) > 0
        BY <2>3, <2>4, <2>5, <2>6
      <3>2. Token!Depth(toks, (w + 1) + 1) > 0
        BY <3>1, <2>3, <2>4, <2>5
      <3>3. Token!Depth(toks, (w + 2) + 1) > 0
        BY <3>2, <2>3, <2>4, <2>5
      <3>4. Token!Depth(toks, (w + 3) + 1) > 0
        BY <3>3, <2>3, <2>4, <2>5
      <3>5. Token!Depth(toks, (w + 4) + 1) > 0
        BY <3>4, <2>3, <2>4, <2>5
      <3> QED
        BY <3>1, <3>2, <3>3, <3>4, <3>5, <2>4
    <2>8. S = {}
      <3>1. ASSUME NEW j \in 2 .. L PROVE Token!Depth(toks, j) > 0
        <4>1. \/ j \in 2 .. Len(d) \/ j = w + 1 \/ j = w + 2 \/ j = w + 3 \/ j = w + 4
              \/ j = w + 5
          BY <2>4 DEF w
        <4> QED
          BY <4>1, <2>2, <2>7
      <3> QED
        BY <3>1 DEF S
    <2>9. he = L + 1
      BY <2>8, <1>7, BoundIsLeast DEF he
    <2>10. R = {}
      BY <2>9, <1>7 DEF R
    <2>11. here = L + 1
      BY <2>10, <1>7, BoundIsLeast DEF here
    <2>12. Token!At(toks, here + 1) # "<"
      <3>1. here + 1 \notin 1 .. Len(toks)
        BY <2>11, <1>7 DEF L
      <3> QED
        BY <3>1 DEF Token!At
    <2>13. ~Token!Closing(h[3])
      <3>1. 1 \in 1 .. m /\ 2 \in 1 .. m /\ 3 \in 1 .. m /\ 3 \in 2 .. Len(d)
        BY <1>1, <1>4
      <3>2. d[1] = "template" /\ d[2] = "<" /\ d[3] = h[3]
        BY <3>1, <1>4, <1>5
      <3>3. Token!Depth(d, 3) > 0 /\ Token!Depth(d, 3) \in Int
        BY <3>1, <2>1, DepthSteps
      <3>4. Token!Depth(d, 3) <= 0 <=> Token!Closing(d[3])
        BY <3>2, DepthOfHeader
      <3> QED
        BY <3>2, <3>3, <3>4
    <2>14. m # 3
      <3> SUFFICES ASSUME m = 3 PROVE FALSE
        OBVIOUS
      <3>1. PICK j \in 1 .. m : h[j] = ">>"
        BY <1>10 DEF ToSet, m, Code
      <3>2. j = 1 \/ j = 2 \/ j = 3
        BY <3>1
      <3> QED
        BY <3>1, <3>2, <1>4, <2>13 DEF Token!Closing
    <2> QED
      BY <2>12, <2>13, <2>14, <1>8, <1>10 DEF toks, d, m
  <1> QED
    BY <1>9, <1>10

\* The names and punctuation of an initializer are tokens.
LEMMA WrittenIsCode ==
  ASSUME NEW parts, parts \in Seq(ToSet(parts)), NamesApart(parts), Punctuation \subseteq STRING
  PROVE  Written(parts) \in Code
  <1> DEFINE n == Len(parts)
             blocks == [k \in 1 .. n |-> WrittenPart(parts[k])]
  <1>1. n \in Nat /\ Punctuation \subseteq AnyToken
    <2>1. n \in Nat
      BY LenProperties
    <2> QED
      BY <2>1 DEF AnyToken
  <1>2. ASSUME NEW k \in 1 .. n PROVE WrittenPart(parts[k]) \in Code
    <2>1. /\ parts[k].name \in Seq(STRING) \ {<< >>} /\ parts[k].behind \in Seq(Punctuation)
      BY DEF NamesApart
    <2>2. Qualified(parts[k].name) \in Code
      BY <2>1, QualifiedTokens
    <2>3. parts[k].behind \in Code
      BY <2>1, <1>1, SeqMonotonic DEF Code
    <2> QED
      BY <2>2, <2>3, ConcatProperties DEF WrittenPart, Code
  <1>3. blocks \in Seq(Code)
    <2>1. blocks \in [1 .. n -> Code]
      BY <1>2
    <2> HIDE DEF blocks, n
    <2> QED
      BY <2>1, <1>1, FunctionIsSeq
  <1>4. Written(parts) = FlattenSeq(blocks)
    BY DEF Written, WrittenPart
  <1> HIDE DEF blocks
  <1> QED
    BY <1>3, <1>4, FlattenIsSeq DEF Code

\* What is known of a variable template.
IsTemplate(t) ==
  /\ t.header \in Seq(STRING) /\ t.arguments \in Seq(STRING)
  /\ t.arguments # << >> => t.arguments[1] = "<"
  /\ t.lead \in Seq(Punctuation) /\ t.parts \in Seq(ToSet(t.parts))
  /\ NamesApart(t.parts)
  /\ AnglesPair(t.header, Declared(t))
  /\ Bracketed(Declared(t))
  /\ AssignedOnce(t.header, t.arguments)

\* TemplatesRead: a variable template is read right off its tokens (gen_exports.py,
\* _classify_var_template and _var_template_initializer_names): it is classed by its
\* header and its arguments, and the qualified names of its initializer are found.
THEOREM TemplatesAreRead == Spec => []TemplatesRead
  <1>1. ASSUME input \in Inputs, Asks("template")
        PROVE  TemplatesRead
    <2> DEFINE h == input.header
               a == input.arguments
               i == input.lead \o Written(input.parts)
    <2>1. IsTemplate(input) /\ "::" \in Punctuation /\ Punctuation \subseteq STRING
      BY <1>1, InputsAssumption DEF Asks, IsTemplate
    <2>2. /\ h \in Seq(STRING) /\ a \in Seq(STRING) /\ input.lead \in Seq(Punctuation)
          /\ a = << >> \/ a[1] = "<"
          /\ input.parts \in Seq(ToSet(input.parts)) /\ NamesApart(input.parts)
          /\ AnglesPair(h, Declared(input)) /\ Bracketed(Declared(input)) /\ AssignedOnce(h, a)
      BY <2>1 DEF IsTemplate
    <2>3. h \in Code /\ a \in Code /\ input.lead \in Code
      <3>1. STRING \subseteq AnyToken /\ Punctuation \subseteq AnyToken
        BY <2>1 DEF AnyToken
      <3> QED
        BY <2>2, <3>1, SeqMonotonic DEF Code
    <2>4. Written(input.parts) \in Code
      BY <2>1, <2>2, WrittenIsCode
    <2>5. i \in Code
      BY <2>3, <2>4, ConcatAt
    <2>6. Token!Chains(i) = QualifiedNames(input.parts)
      BY <2>1, <2>2, InitializerIsRead
    <2>7. Declared(input) = Declaration(h, a, i)
      BY DEF Declared, Declaration
    <2>8. Tokens = Declaration(h, a, i) \o Tail5
      BY <2>7 DEF Tokens, Tail5
    <2> HIDE DEF h, a, i
    <2>9. Token!Initializer(Tokens, "v") = i
      BY <2>2, <2>3, <2>5, <2>7, <2>8, InitializerIsFound
    <2>10. Token!Classify(Tokens, "v")
             = IF Len(h) = 3 THEN "explicit"
               ELSE IF a = << >> THEN "primary"
               ELSE IF ">>" \in ToSet(h) THEN "primary" ELSE "partial"
      BY <2>2, <2>3, <2>5, <2>7, <2>8, ClassIsTold
    <2>11. ClassifiedRight
      BY <2>10 DEF ClassifiedRight, h, a
    <2>12. InitializerNamesFound
      BY <2>6, <2>9 DEF InitializerNamesFound
    <2> QED
      BY <2>11, <2>12 DEF TemplatesRead
  <1>2. ~Asks("template") => TemplatesRead
    BY DEF TemplatesRead, ClassifiedRight, InitializerNamesFound
  <1>3. input \in Inputs => TemplatesRead
    BY <1>1, <1>2
  <1> QED
    BY <1>3, AlwaysAnInput, PTL
=============================================================================
