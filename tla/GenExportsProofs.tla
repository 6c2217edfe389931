-------------------------- MODULE GenExportsProofs --------------------------
(***************************************************************************)
(* What a run of the generator leaves, for any headers, libraries, command *)
(* lines and faults: the snapshots of a full run, whatever was replayed    *)
(* from the cache (Inductive), values of their kind (TypeCorrect), imports *)
(* without circles (NoImportCircles) that reach what exported bodies       *)
(* mention (BodiesResolve).                                                *)
(***************************************************************************)
EXTENDS GenExports, TLAPS, WellFoundedInduction, FiniteSetTheorems

\* A set of naturals with 0 and every successor of a member holds them all.
LEMMA SetInduction ==
  ASSUME NEW S \in SUBSET Nat, 0 \in S, \A n \in S : n + 1 \in S
  PROVE  S = Nat
  <1> SUFFICES ASSUME Nat \ S # {} PROVE FALSE
    OBVIOUS
  <1>1. PICK n \in Nat \ S : \A m \in Nat \ S : ~(<<m, n>> \in OpToRel(<, Nat))
    BY NatLessThanWellFounded, WFMin
  <1>2. \A m \in Nat \ S : ~(m < n)
    BY <1>1 DEF OpToRel
  <1>3. n # 0 /\ n - 1 \in Nat
    OBVIOUS
  <1>4. n - 1 \in S
    BY <1>2, <1>3
  <1>5. (n - 1) + 1 \in S
    BY <1>4
  <1> QED
    BY <1>5

-----------------------------------------------------------------------------
(***************************************************************************)
(* The full run is defined by recursion on the place in the order.         *)
(***************************************************************************)
FullBase ==
  [inc |-> [l \in Libs |-> None], deps |-> [l \in Libs |-> {}],
   records |-> [l \in Libs |-> {}],
   claimed |-> NoClaims, inject |-> NoInjects]

\* What the loop makes, at place n, of what it made before.
FullNext(v, o, before, n) ==
  IF Survey[v].order[n] \notin Work(o) THEN before
  ELSE FullStep(before, Survey[v].order[n], Bundle[v][v][Survey[v].order[n]],
                o.full_closure)

IsPass(v, o, k, pass) ==
  pass = [n \in 0..k |-> IF n = 0 THEN FullBase ELSE FullNext(v, o, pass[n - 1], n)]

LEMMA PassExists ==
  ASSUME NEW v, NEW o, NEW k \in Nat
  PROVE  \E pass : IsPass(v, o, k, pass)
  <1> DEFINE D == {m \in Nat : \E pass : IsPass(v, o, m, pass)}
  <1>1. 0 \in D
    <2> DEFINE g == [n \in 0..0 |-> FullBase]
    <2>1. IsPass(v, o, 0, g)
      BY DEF IsPass
    <2> QED
      BY <2>1
  <1>2. ASSUME NEW m \in D PROVE m + 1 \in D
    <2>1. PICK h : IsPass(v, o, m, h)
      OBVIOUS
    <2> DEFINE g == [n \in 0..(m + 1) |->
                       IF n = m + 1 THEN FullNext(v, o, h[m], n) ELSE h[n]]
    <2>2. \A n \in 0..m : g[n] = h[n]
      OBVIOUS
    <2>3. ASSUME NEW n \in 0..(m + 1)
          PROVE  g[n] = IF n = 0 THEN FullBase ELSE FullNext(v, o, g[n - 1], n)
      <3>1. CASE n = m + 1
        <4>1. g[n] = FullNext(v, o, h[m], n) /\ n # 0
          BY <3>1
        <4>2. g[n - 1] = h[m]
          BY <3>1, <2>2
        <4> HIDE DEF g
        <4> QED
          BY <4>1, <4>2
      <3>2. CASE n # m + 1
        <4>1. n \in 0..m /\ (n # 0 => n - 1 \in 0..m)
          BY <3>2
        <4>2. h[n] = IF n = 0 THEN FullBase ELSE FullNext(v, o, h[n - 1], n)
          BY <4>1, <2>1 DEF IsPass
        <4>3. g[n] = h[n] /\ (n # 0 => g[n - 1] = h[n - 1])
          BY <4>1, <2>2
        <4> HIDE DEF g
        <4> QED
          BY <4>2, <4>3
      <3> QED
        BY <3>1, <3>2
    <2>4. IsPass(v, o, m + 1, g)
      <3>1. g = [n \in 0..(m + 1) |-> g[n]]
        OBVIOUS
      <3> HIDE DEF g
      <3> QED
        BY <2>3, <3>1 DEF IsPass
    <2> HIDE DEF g
    <2> QED
      BY <2>4
  <1> HIDE DEF D
  <1>3. D = Nat
    <2>1. D \in SUBSET Nat
      BY DEF D
    <2> QED
      BY <1>1, <1>2, <2>1, SetInduction
  <1> QED
    BY <1>3 DEF D

\* What SurveyAssumption says of the order on one revision.
LEMMA Order ==
  ASSUME NEW v \in Versions
  PROVE  /\ Survey[v].order \in Seq(Libs)
         /\ Len(Survey[v].order) \in Nat
         /\ \A i \in 1..Len(Survey[v].order) : Survey[v].order[i] \in Libs
         /\ \A l \in Libs : \E i \in 1..Len(Survey[v].order) : Survey[v].order[i] = l
         /\ \A i, j \in 1..Len(Survey[v].order) :
              Survey[v].order[i] = Survey[v].order[j] => i = j
  <1> DEFINE order == Survey[v].order
  <1>1. /\ order \in Seq(Libs)
        /\ \A l \in Libs : \E i \in DOMAIN order : order[i] = l
        /\ \A i, j \in DOMAIN order : order[i] = order[j] => i = j
    BY SurveyAssumption
  <1> HIDE DEF order
  <1>2. DOMAIN order = 1..Len(order) /\ Len(order) \in Nat
        /\ \A i \in 1..Len(order) : order[i] \in Libs
    BY <1>1
  <1>3. /\ \A l \in Libs : \E i \in 1..Len(order) : order[i] = l
        /\ \A i, j \in 1..Len(order) : order[i] = order[j] => i = j
    BY <1>1, <1>2
  <1> QED
    BY <1>1, <1>2, <1>3 DEF order

\* The full run, one library after the other.
LEMMA FullPassStep ==
  ASSUME NEW v \in Versions, NEW o \in RunOpts, NEW n \in 0..Len(Survey[v].order)
  PROVE  FullAt[v][o][n] =
           IF n = 0 THEN FullBase ELSE FullNext(v, o, FullAt[v][o][n - 1], n)
  <1> DEFINE k == Len(Survey[v].order)
  <1>1. FullPass1(v, o) = CHOOSE pass : IsPass(v, o, k, pass)
    BY DEF FullPass1, IsPass, FullBase, FullNext
  <1>2. k \in Nat
    BY Order
  <1>3. FullAt[v][o] = FullPass1(v, o)
    BY DEF FullAt
  <1> DEFINE F == FullAt[v][o]
  <1>4. IsPass(v, o, k, F)
    BY <1>1, <1>2, <1>3, PassExists
  <1> HIDE DEF F
  <1>5. F[n] = IF n = 0 THEN FullBase ELSE FullNext(v, o, F[n - 1], n)
    BY <1>4 DEF IsPass
  <1> QED
    BY <1>5 DEF F

\* The step of a library that the loop does not pass over.
LEMMA FullWorkStep ==
  ASSUME NEW v \in Versions, NEW o \in RunOpts, NEW n \in 1..Len(Survey[v].order),
         Survey[v].order[n] \in Work(o)
  PROVE  FullAt[v][o][n] =
           FullStep(FullAt[v][o][n - 1], Survey[v].order[n],
                    Bundle[v][v][Survey[v].order[n]], o.full_closure)
  BY FullPassStep, Order DEF FullNext

\* A full run fills the tables of the libraries; a name belongs to a library it
\* has passed, and to none when the closures are full.
FullShape(v, o, n) ==
  LET full == FullAt[v][o][n]
  IN  /\ full.inc = [l \in Libs |-> full.inc[l]]
      /\ full.deps = [l \in Libs |-> full.deps[l]]
      /\ \A l \in Libs \ Work(o) : full.deps[l] = {}
      /\ full.records = [l \in Libs |-> full.records[l]]
      /\ full.inject = [q \in Headers |-> full.inject[q]]
      /\ \A q \in Headers : \/ full.inject[q] = Shared
                            \/ \E i \in 1..n : full.inject[q] = Survey[v].order[i]
      /\ o.full_closure => full.inject = NoInjects

LEMMA FullShaped ==
  ASSUME NEW v \in Versions, NEW o \in RunOpts, NEW n \in 0..Len(Survey[v].order)
  PROVE  FullShape(v, o, n)
  <1> DEFINE D == {m \in Nat : m \in 0..Len(Survey[v].order) => FullShape(v, o, m)}
  <1>1. 0 \in D
    <2>1. FullAt[v][o][0] = FullBase
      BY FullPassStep
    <2> QED
      BY <2>1 DEF FullShape, FullBase, NoInjects
  <1>2. ASSUME NEW m \in D PROVE m + 1 \in D
    <2> SUFFICES ASSUME m + 1 \in 0..Len(Survey[v].order)
                 PROVE  FullShape(v, o, m + 1)
      OBVIOUS
    <2> DEFINE before == FullAt[v][o][m]
               after  == FullAt[v][o][m + 1]
               l      == Survey[v].order[m + 1]
    <2>1. m \in Nat /\ m \in 0..Len(Survey[v].order) /\ m + 1 \in 1..Len(Survey[v].order)
      BY Order
    <2>2. FullShape(v, o, m)
      BY <2>1
    <2> HIDE DEF D
    <2>3. after = FullNext(v, o, before, m + 1)
      BY <2>1, FullPassStep
    <2>4. CASE l \notin Work(o)
      <3>1. after = before
        BY <2>3, <2>4 DEF FullNext
      <3> QED
        BY <3>1, <2>1, <2>2 DEF FullShape
    <2>5. CASE l \in Work(o)
      <3> DEFINE names   == NewNames(Bundle[v][v][l], before.inject)
                 records == Records(Bundle[v][v][l], names)
                 claimed == IF o.full_closure THEN NoClaims ELSE before.claimed
                 imports == HintedHomes(l, records, claimed)
                              \cup IF o.full_closure THEN {} ELSE Bundle[v][v][l].extra_deps
      <3>1. /\ after.inc = [before.inc EXCEPT ![l] = Exported(l, records, claimed)]
            /\ after.deps = [before.deps EXCEPT ![l] = imports]
            /\ after.records = [before.records EXCEPT ![l] = records]
            /\ after.inject = IF o.full_closure THEN NoInjects
                              ELSE InjectAll(before.inject, names, l)
        <4>1. after = FullStep(before, l, Bundle[v][v][l], o.full_closure)
          BY <2>3, <2>5 DEF FullNext
        <4> HIDE DEF after, before, l
        <4> QED
          BY <4>1 DEF FullStep
      <3>2. \A q \in Headers : \/ after.inject[q] = Shared
                               \/ after.inject[q] = l
                               \/ after.inject[q] = before.inject[q]
        BY <3>1 DEF InjectAll, NoInjects
      <3>3. \A q \in Headers : \/ after.inject[q] = Shared
                               \/ \E i \in 1..(m + 1) : after.inject[q] = Survey[v].order[i]
        BY <3>2, <2>1, <2>2 DEF FullShape
      <3>4. after.inject = [q \in Headers |-> after.inject[q]]
        BY <3>1, Zenon DEF InjectAll, NoInjects
      <3>5. /\ after.inc = [k \in Libs |-> after.inc[k]]
            /\ after.records = [k \in Libs |-> after.records[k]]
        BY <3>1, <2>2, Zenon DEF FullShape
      <3>7. /\ after.deps = [k \in Libs |-> after.deps[k]]
            /\ \A k \in Libs \ Work(o) : after.deps[k] = {}
        <4> HIDE DEF imports, after, before, l
        <4> QED
          BY <3>1, <2>2, <2>5 DEF FullShape, before
      <3> HIDE DEF after, before
      <3>6. o.full_closure => after.inject = NoInjects
        BY <3>1
      <3> QED
        BY <3>3, <3>4, <3>5, <3>6, <3>7 DEF FullShape, after
    <2> QED
      BY <2>4, <2>5
  <1> HIDE DEF D
  <1>3. D = Nat
    <2>1. D \in SUBSET Nat
      BY DEF D
    <2> QED
      BY <1>1, <1>2, <2>1, SetInduction
  <1> QED
    BY <1>3, Order DEF D

\* What the loop made of a library stays as it is.
Kept(v, o, n, m) ==
  LET l     == Survey[v].order[n]
      then  == FullAt[v][o][n]
      later == FullAt[v][o][m]
  IN  /\ later.inc[l] = then.inc[l]
      /\ later.deps[l] = then.deps[l]
      /\ later.records[l] = then.records[l]
      /\ \A q \in Headers : later.inject[q] = l <=> then.inject[q] = l

LEMMA FullKeeps ==
  ASSUME NEW v \in Versions, NEW o \in RunOpts,
         NEW n \in 1..Len(Survey[v].order), NEW m \in n..Len(Survey[v].order)
  PROVE  Kept(v, o, n, m)
  <1> DEFINE k == Len(Survey[v].order)
             D == {d \in Nat : n + d \in n..k => Kept(v, o, n, n + d)}
  <1>0. k \in Nat
    BY Order
  <1>1. 0 \in D
    <2>1. n + 0 = n
      OBVIOUS
    <2> QED
      BY <2>1 DEF Kept
  <1>2. ASSUME NEW d \in D PROVE d + 1 \in D
    <2> DEFINE i      == n + d + 1
               before == FullAt[v][o][i - 1]
               after  == FullAt[v][o][i]
               l      == Survey[v].order[n]
               other  == Survey[v].order[i]
    <2> SUFFICES ASSUME i \in n..k PROVE Kept(v, o, n, i)
      OBVIOUS
    <2>1. i - 1 = n + d /\ i \in 1..k /\ i - 1 \in 0..k /\ i - 1 \in n..k /\ n # i
      BY <1>0
    <2>2. Kept(v, o, n, i - 1)
      BY <2>1
    <2>3. l \in Libs /\ other \in Libs /\ l # other /\ l # Shared
      BY <2>1, Order, LibsAssumption
    <2>4. FullShape(v, o, i - 1) /\ FullShape(v, o, i)
      BY <2>1, FullShaped
    <2> HIDE DEF D, k
    <2>5. CASE other \notin Work(o)
      <3>1. after = before
        BY <2>1, <2>5, FullPassStep DEF FullNext, k
      <3> QED
        BY <3>1, <2>2 DEF Kept
    <2>6. CASE other \in Work(o)
      <3> DEFINE names   == NewNames(Bundle[v][v][other], before.inject)
                 records == Records(Bundle[v][v][other], names)
                 claimed == IF o.full_closure THEN NoClaims ELSE before.claimed
                 imports == HintedHomes(other, records, claimed)
                              \cup IF o.full_closure THEN {}
                                   ELSE Bundle[v][v][other].extra_deps
      <3>1. after = FullStep(before, other, Bundle[v][v][other], o.full_closure)
        BY <2>1, <2>6, FullWorkStep DEF k
      <3>2. /\ after.inc = [before.inc EXCEPT ![other] = Exported(other, records, claimed)]
            /\ after.deps = [before.deps EXCEPT ![other] = imports]
            /\ after.records = [before.records EXCEPT ![other] = records]
            /\ ~o.full_closure => after.inject = InjectAll(before.inject, names, other)
        <4> HIDE DEF after, before, other
        <4> QED
          BY <3>1 DEF FullStep
      <3>3. /\ after.inc[l] = before.inc[l] /\ after.records[l] = before.records[l]
            /\ after.deps[l] = before.deps[l]
        <4>1. /\ before.inc = [j \in Libs |-> before.inc[j]]
              /\ before.records = [j \in Libs |-> before.records[j]]
              /\ before.deps = [j \in Libs |-> before.deps[j]]
          BY <2>4 DEF FullShape
        <4> HIDE DEF imports, records, claimed, names, after, before, l, other
        <4> QED
          BY <2>3, <3>2, <4>1
      <3>4. ASSUME NEW q \in Headers PROVE after.inject[q] = l <=> before.inject[q] = l
        <4>1. CASE o.full_closure
          BY <4>1, <2>4 DEF FullShape
        <4>2. CASE ~o.full_closure
          <5>1. after.inject[q] = IF before.inject[q] = Shared /\ q \in names
                                  THEN other ELSE before.inject[q]
            BY <4>2, <3>2 DEF InjectAll
          <5> HIDE DEF after, before, names
          <5> QED
            BY <5>1, <2>3
        <4> QED
          BY <4>1, <4>2
      <3> QED
        BY <2>2, <3>3, <3>4, Zenon DEF Kept
    <2> QED
      BY <2>5, <2>6
  <1> HIDE DEF D
  <1>3. D = Nat
    <2>1. D \in SUBSET Nat
      BY DEF D
    <2> QED
      BY <1>1, <1>2, <2>1, SetInduction
  <1>4. m - n \in Nat /\ n + (m - n) = m
    BY <1>0
  <1>5. m - n \in D
    BY <1>3, <1>4
  <1> QED
    BY <1>4, <1>5 DEF D

\* What a full run injects, records and sees claimed at place n.
NamesAt(v, o, n) ==
  NewNames(Bundle[v][v][Survey[v].order[n]], FullAt[v][o][n - 1].inject)

RecordsAt(v, o, n) == Records(Bundle[v][v][Survey[v].order[n]], NamesAt(v, o, n))

ClaimedAt(v, o, n) ==
  IF o.full_closure THEN NoClaims ELSE FullAt[v][o][n - 1].claimed

\* What it makes of the library there, and what a replay of the names that the
\* library injected comes to.
LEMMA FullPlace ==
  ASSUME NEW v \in Versions, NEW o \in RunOpts, NEW n \in 1..Len(Survey[v].order),
         NEW l, l = Survey[v].order[n], l \in Work(o)
  PROVE  /\ FullRun(v, o).inc[l] = Exported(l, RecordsAt(v, o, n), ClaimedAt(v, o, n))
         /\ FullRun(v, o).records[l] = RecordsAt(v, o, n)
         /\ FullRun(v, o).deps[l]
              = HintedHomes(l, RecordsAt(v, o, n), ClaimedAt(v, o, n))
                  \cup IF o.full_closure THEN {} ELSE Bundle[v][v][l].extra_deps
         /\ FullAt[v][o][n].claimed
              = ClaimAll(ClaimedAt(v, o, n), RecordsAt(v, o, n), l)
         /\ FullAt[v][o][n].inject
              = IF o.full_closure THEN NoInjects
                ELSE InjectAll(FullAt[v][o][n - 1].inject, NamesAt(v, o, n), l)
         /\ InjectedBy(v, o, l) = {q \in Headers : FullAt[v][o][n].inject[q] = l}
         /\ FullAt[v][o][n].inject
              = InjectAll(FullAt[v][o][n - 1].inject, InjectedBy(v, o, l), l)
  <1> DEFINE before  == FullAt[v][o][n - 1]
             after   == FullAt[v][o][n]
             names   == NamesAt(v, o, n)
             records == RecordsAt(v, o, n)
             claimed == ClaimedAt(v, o, n)
             imports == HintedHomes(l, records, claimed)
                          \cup IF o.full_closure THEN {} ELSE Bundle[v][v][l].extra_deps
  <1>a. /\ names = NewNames(Bundle[v][v][l], before.inject)
        /\ records = Records(Bundle[v][v][l], names)
        /\ claimed = IF o.full_closure THEN NoClaims ELSE before.claimed
    BY DEF NamesAt, RecordsAt, ClaimedAt
  <1> DEFINE k == Len(Survey[v].order)
             later == FullAt[v][o][k]
  <1>0. k \in Nat /\ n - 1 \in 0..k /\ n \in 0..k /\ k \in n..k
    BY Order
  <1>1. after = FullStep(before, l, Bundle[v][v][l], o.full_closure)
    BY FullWorkStep
  <1> HIDE DEF names, records, claimed
  <1>2. FullShape(v, o, n - 1) /\ FullShape(v, o, n)
    BY <1>0, FullShaped
  <1>3. Kept(v, o, n, k)
    BY <1>0, FullKeeps
  <1>4. l \in Libs /\ l # Shared
    BY Order, LibsAssumption
  <1>5. FullRun(v, o) = later
    BY DEF FullRun
  <1>6. \A q \in Headers : before.inject[q] # l
    <2>1. \A q \in Headers : \/ before.inject[q] = Shared
                             \/ \E i \in 1..(n - 1) : before.inject[q] = Survey[v].order[i]
      BY <1>2 DEF FullShape
    <2>2. ASSUME NEW i \in 1..(n - 1) PROVE Survey[v].order[i] # l
      <3>1. i \in 1..k /\ n \in 1..k /\ i # n
        BY <1>0
      <3> QED
        BY <3>1, Order
    <2> QED
      BY <2>1, <2>2, <1>4
  <1> HIDE DEF later, k
  <1>7. /\ after.inc = [before.inc EXCEPT ![l] = Exported(l, records, claimed)]
        /\ after.deps = [before.deps EXCEPT ![l] = imports]
        /\ after.records = [before.records EXCEPT ![l] = records]
        /\ after.claimed = ClaimAll(claimed, records, l)
        /\ after.inject = IF o.full_closure THEN NoInjects
                          ELSE InjectAll(before.inject, names, l)
    <2> DEFINE bundle == Bundle[v][v][l]
    <2>1. /\ after = FullStep(before, l, bundle, o.full_closure)
          /\ names = NewNames(bundle, before.inject)
          /\ records = Records(bundle, names)
          /\ claimed = IF o.full_closure THEN NoClaims ELSE before.claimed
      BY <1>1, <1>a
    <2> HIDE DEF bundle, before, after
    <2> USE DEF FullStep
    <2>2. /\ after.inc = [before.inc EXCEPT ![l] = Exported(l, records, claimed)]
          /\ after.deps = [before.deps EXCEPT ![l] = imports]
          /\ after.records = [before.records EXCEPT ![l] = records]
      <3> DEFINE r == Records(bundle, NewNames(bundle, before.inject))
                 c == IF o.full_closure THEN NoClaims ELSE before.claimed
                 d == HintedHomes(l, r, c)
                        \cup IF o.full_closure THEN {} ELSE bundle.extra_deps
      <3>1. /\ after.inc = [before.inc EXCEPT ![l] = Exported(l, r, c)]
            /\ after.deps = [before.deps EXCEPT ![l] = d]
            /\ after.records = [before.records EXCEPT ![l] = r]
        BY <2>1
      <3>2. r = records /\ c = claimed
        BY <2>1
      <3>3. d = imports
        BY <3>2, Zenon DEF bundle
      <3> HIDE DEF r, c, d, imports
      <3> QED
        BY <3>1, <3>2, <3>3, Zenon
    <2>3. after.claimed = ClaimAll(claimed, records, l)
      BY <2>1
    <2>4. after.inject = IF o.full_closure THEN NoInjects
                         ELSE InjectAll(before.inject, names, l)
      BY <2>1
    <2> QED
      BY <2>2, <2>3, <2>4
  <1>8. before.inc = [j \in Libs |-> before.inc[j]]
        /\ before.records = [j \in Libs |-> before.records[j]]
        /\ before.deps = [j \in Libs |-> before.deps[j]]
    BY <1>2 DEF FullShape
  <1> HIDE DEF imports
  <1>9. after.inc[l] = Exported(l, records, claimed) /\ after.records[l] = records
        /\ after.deps[l] = imports
    BY <1>4, <1>7, <1>8
  <1>10. /\ later.inc[l] = after.inc[l] /\ later.records[l] = after.records[l]
         /\ later.deps[l] = after.deps[l]
         /\ \A q \in Headers : later.inject[q] = l <=> after.inject[q] = l
    BY <1>3 DEF Kept, later
  <1>11. InjectedBy(v, o, l) = {q \in Headers : after.inject[q] = l}
    BY <1>5, <1>10 DEF InjectedBy
  <1>12. after.inject = InjectAll(before.inject, InjectedBy(v, o, l), l)
    <2>1. CASE o.full_closure
      <3>1. after.inject = NoInjects /\ before.inject = NoInjects
        BY <2>1, <1>2 DEF FullShape
      <3>2. InjectedBy(v, o, l) = {}
        BY <3>1, <1>11, <1>4 DEF NoInjects
      <3> QED
        BY <3>1, <3>2 DEF InjectAll, NoInjects
    <2>2. CASE ~o.full_closure
      <3>1. after.inject = InjectAll(before.inject, names, l)
        BY <1>7, <2>2
      <3>2. \A q \in Headers :
              q \in InjectedBy(v, o, l) <=> before.inject[q] = Shared /\ q \in names
        BY <3>1, <1>6, <1>11 DEF InjectAll
      <3> QED
        BY <3>1, <3>2 DEF InjectAll
    <2> QED
      BY <2>1, <2>2
  <1> QED
    BY <1>5, <1>7, <1>9, <1>10, <1>11, <1>12 DEF names, records, claimed, imports

\* What a replay of the library at that place comes to.
LEMMA FullReplay ==
  ASSUME NEW v \in Versions, NEW o \in RunOpts, NEW n \in 1..Len(Survey[v].order),
         NEW l, l = Survey[v].order[n], l \in Work(o)
  PROVE  /\ ~o.full_closure =>
              FullAt[v][o][n].claimed
                = ClaimAll(FullAt[v][o][n - 1].claimed, FullRun(v, o).records[l], l)
         /\ InjectedBy(v, o, l) = {q \in Headers : FullAt[v][o][n].inject[q] = l}
         /\ FullAt[v][o][n].inject
              = InjectAll(FullAt[v][o][n - 1].inject, InjectedBy(v, o, l), l)
  <1>1. /\ FullRun(v, o).records[l] = RecordsAt(v, o, n)
        /\ FullAt[v][o][n].claimed = ClaimAll(ClaimedAt(v, o, n), RecordsAt(v, o, n), l)
    BY FullPlace
  <1>2. ~o.full_closure => ClaimedAt(v, o, n) = FullAt[v][o][n - 1].claimed
    BY DEF ClaimedAt
  <1> QED
    BY <1>1, <1>2, FullPlace

-----------------------------------------------------------------------------
(***************************************************************************)
(* The drafts, whatever the cache does and whatever goes wrong.            *)
(***************************************************************************)
IsRun(r) ==
  r = [phase |-> r.phase, opts |-> r.opts, start |-> r.start, order |-> r.order,
       keys |-> r.keys, next |-> r.next, claimed |-> r.claimed, inject |-> r.inject,
       cur |-> r.cur, body |-> r.body, payload |-> r.payload, gfm |-> r.gfm,
       graph |-> r.graph, pending |-> r.pending, added |-> r.added]

Looping == run.phase \in {"pass1", "parsed"}

\* The library l is behind the loop.
Passed(l) == \E i \in 1..(run.next - 1) : run.order[i] = l

\* The locals hold what main() computed before the loop; what the loop has passed
\* is in gfm_by_lib.
Locals ==
  ~Running("idle") =>
    /\ IsRun(run)
    /\ run.opts \in RunOpts /\ run.start \in Versions
    /\ run.order = Survey[run.start].order
    /\ run.keys = KeysAt[run.start][run.opts]
    /\ run.next \in 1..(Len(run.order) + 1)
    /\ Running("parsed") => run.next <= Len(run.order) /\ Current \in Work(run.opts)
    /\ \A l \in Work(run.opts) : ~Looping \/ Passed(l) => l \in run.gfm

Disk ==
  /\ rev \in Versions
  /\ inc = [l \in Libs |-> inc[l]]
  /\ deps = [l \in Libs |-> deps[l]]
  /\ cppm = [l \in Libs |-> cppm[l]]
  /\ skip = [l \in Libs |-> skip[l]]
  /\ run.phase \in {"idle", "pass1", "parsed", "merge", "cache", "emit"}
  /\ last # None => last.opts \in RunOpts /\ last.rev \in Versions

\* The drafts written so far, and those the last run left.
Drafted(l) == inc[l] # None => cppm[l] = DepsGraph[l]

Drafts ==
  /\ Running("emit") /\ run.opts.emit_cppm =>
       \A l \in run.gfm \cap Libs : l \in run.pending \/ Drafted(l)
  /\ Running("idle") /\ last # None =>
       (last.outcome = "ok" /\ last.opts.emit_cppm =>
         \A l \in Work(last.opts) : Drafted(l))

DraftInv == Disk /\ Locals /\ Drafts


\* The locals when the loop leaves its library behind, or has parsed it.
LEMMA LocalsMoveOn ==
  ASSUME Locals, Looping, run.next <= Len(run.order), Current \in Work(run.opts),
         IsRun(run'), run'.opts = run.opts, run'.start = run.start,
         run'.order = run.order, run'.keys = run.keys,
         \/ /\ run'.phase = "pass1" /\ run'.next = run.next + 1
            /\ run'.gfm = run.gfm \cup {Current}
         \/ run'.phase = "parsed" /\ run'.next = run.next /\ run'.gfm = run.gfm
  PROVE  Locals'
  <1> USE DEF Locals, Looping, Passed, Running, Current
  <1>1. run.start \in Versions /\ Len(run.order) \in Nat
    BY Order
  <1>2. CASE run'.phase = "pass1"
    BY <1>1, <1>2
  <1>3. CASE run'.phase = "parsed"
    BY <1>1, <1>3
  <1> QED
    BY <1>2, <1>3

\* The locals after the loop.
LEMMA LocalsAfter ==
  ASSUME Locals, ~Running("idle"), ~Running("parsed"), Looping => LoopDone,
         IsRun(run'), run'.opts = run.opts, run'.start = run.start,
         run'.order = run.order, run'.keys = run.keys, run'.next = run.next,
         run'.gfm = run.gfm, run'.phase \in {"merge", "cache", "emit"}
  PROVE  Locals'
  <1> USE DEF Locals, Looping, Passed, Running, LoopDone
  <1>1. run.start \in Versions /\ Len(run.order) \in Nat
        /\ \A l \in Libs : \E i \in 1..Len(run.order) : run.order[i] = l
    BY Order
  <1>2. Work(run.opts) \subseteq Libs
    BY OptionsAssumption DEF Work, Options
  <1>3. \A l \in Work(run.opts) : l \in run.gfm
    BY <1>1, <1>2
  <1> QED
    BY <1>1, <1>3

LEMMA DraftInvariance == Spec => []DraftInv
  <1>1. Init => DraftInv
    BY DEF Init, DraftInv, Disk, Locals, Drafts, Running, Idle
  <1>2. DraftInv /\ [Next]_vars => DraftInv'
    <2> SUFFICES ASSUME DraftInv, [Next]_vars PROVE DraftInv'
      OBVIOUS
    <2> USE DEF DraftInv
    <2>1. CASE PassOver
      BY <2>1 DEF PassOver, AtLoop, Current, IsRun, LoopDone, Disk, Locals, Drafts,
                  Running, Looping, Passed
    <2>2. CASE Replay
      <3>1. Locals'
        <4>1. /\ run'.opts = run.opts /\ run'.start = run.start /\ run'.keys = run.keys
              /\ run'.order = run.order /\ IsRun(run') /\ run'.phase = "pass1"
              /\ run'.next = run.next + 1 /\ run'.gfm = run.gfm \cup {Current}
          BY <2>2 DEF Replay, AtLibrary, AtLoop, IsRun, Locals, Running
        <4>2. Looping /\ run.next <= Len(run.order) /\ Current \in Work(run.opts)
          BY <2>2, Order DEF Replay, AtLibrary, AtLoop, LoopDone, Locals, Running, Looping
        <4> QED
          BY <4>1, <4>2, LocalsMoveOn
      <3> QED
        BY <2>2, <3>1 DEF Replay, AtLibrary, AtLoop, Disk, Drafts, Running, Locals, IsRun
    <2>3. CASE ParseAndEmitInc
      <3>1. Locals'
        <4>1. /\ run'.opts = run.opts /\ run'.start = run.start /\ run'.keys = run.keys
              /\ run'.order = run.order /\ IsRun(run') /\ run'.phase = "parsed"
              /\ run'.next = run.next /\ run'.gfm = run.gfm
          BY <2>3 DEF ParseAndEmitInc, AtLibrary, AtLoop, IsRun, Locals, Running
        <4>2. Looping /\ run.next <= Len(run.order) /\ Current \in Work(run.opts)
          BY <2>3, Order
          DEF ParseAndEmitInc, AtLibrary, AtLoop, LoopDone, Locals, Running, Looping
        <4> QED
          BY <4>1, <4>2, LocalsMoveOn
      <3> QED
        <4>1. run'.phase = "parsed" /\ UNCHANGED <<rev, deps, cppm, skip, last>>
          BY <2>3 DEF ParseAndEmitInc, AtLibrary, AtLoop, Running, Locals, IsRun
        <4>2. inc' = [l \in Libs |-> inc'[l]]
          BY <2>3 DEF ParseAndEmitInc, Disk
        <4> QED
          BY <3>1, <4>1, <4>2 DEF Disk, Drafts, Running
    <2>4. CASE EmitDeps
      <3>1. Locals'
        BY <2>4, LocalsMoveOn DEF EmitDeps, IsRun, Locals, Running, Looping, Current
      <3> QED
        <4>1. run'.phase = "pass1"
          BY <2>4 DEF EmitDeps, Running, Locals, IsRun
        <4>2. deps' = [l \in Libs |-> deps'[l]]
          BY <2>4 DEF EmitDeps, Disk
        <4> QED
          BY <2>4, <3>1, <4>1, <4>2 DEF EmitDeps, Disk, Drafts, Running
    <2>5. CASE Merge
      <3>1. Locals'
        BY <2>5, LocalsAfter DEF Merge, IsRun, Locals, Running, Looping
      <3> QED
        BY <2>5, <3>1 DEF Merge, Disk, Drafts, Running, Locals, IsRun
    <2>6. CASE WriteMergedDeps
      <3>1. Locals'
        BY <2>6, LocalsAfter DEF WriteMergedDeps, IsRun, Locals, Running, Looping
      <3> QED
        BY <2>6, <3>1 DEF WriteMergedDeps, Disk, Drafts, Running, Locals, IsRun
    <2>7. CASE MergeDone
      <3>1. Locals'
        BY <2>7, LocalsAfter DEF MergeDone, IsRun, Locals, Running, Looping
      <3> QED
        BY <2>7, <3>1 DEF MergeDone, Disk, Drafts, Running, Locals, IsRun
    <2>8. CASE \E l \in Libs : DropCacheEntry(l)
      <3>1. Locals'
        BY <2>8, LocalsAfter DEF DropCacheEntry, IsRun, Locals, Running, Looping
      <3> QED
        BY <2>8, <3>1 DEF DropCacheEntry, Disk, Drafts, Running, Locals, IsRun
    <2>9. CASE WriteCacheEntry
      <3>1. Locals'
        BY <2>9, LocalsAfter DEF WriteCacheEntry, IsRun, Locals, Running, Looping
      <3> QED
        BY <2>9, <3>1 DEF WriteCacheEntry, Disk, Drafts, Running, Locals, IsRun
    <2>10. CASE CacheDone
      <3>1. Locals'
        BY <2>10, LocalsAfter DEF CacheDone, IsRun, Locals, Running, Looping
      <3> QED
        BY <2>10, <3>1 DEF CacheDone, Disk, Drafts, Running, Locals, IsRun
    <2>11. CASE EmitCppm
      <3>1. Locals'
        BY <2>11, LocalsAfter DEF EmitCppm, IsRun, Locals, Running, Looping
      <3>2. Disk'
        BY <2>11 DEF EmitCppm, Disk, Locals, IsRun, Running
      <3>3. Drafts'
        BY <2>11 DEF EmitCppm, Disk, Drafts, Drafted, DepsGraph, Locals, IsRun, Running
      <3> QED
        BY <3>1, <3>2, <3>3
    <2>12. CASE Return
      <3>1. Locals' /\ Disk'
        BY <2>12 DEF Return, End, Idle, Locals, Disk, Running
      <3>2. Drafts'
        <4>1. \A l \in Work(run.opts) : l \in run.gfm \cap Libs
          BY <2>12, OptionsAssumption DEF Return, Locals, Running, Looping, Work, Options
        <4> QED
          BY <2>12, <4>1 DEF Return, End, Idle, Drafts, Drafted, DepsGraph, Running
      <3> QED
        BY <3>1, <3>2
    <2>13. CASE \E v \in Versions : EditHeaders(v)
      <3>1. rev' \in Versions /\ UNCHANGED <<inc, deps, cppm, skip, run, last>>
        BY <2>13 DEF EditHeaders
      <3>2. Disk'
        BY <3>1 DEF Disk
      <3>3. Locals'
        BY <3>1 DEF Locals, Running, Looping, Passed, Current
      <3>4. Drafts'
        BY <3>1 DEF Drafts, Drafted, DepsGraph, Running
      <3> QED
        BY <3>2, <3>3, <3>4
    <2>14. CASE \E l \in Libs : LoseOutput(l)
      <3>1. PICK l \in Libs : LoseOutput(l)
        BY <2>14
      <3>2. Disk' /\ Locals'
        BY <3>1 DEF LoseOutput, Disk, Locals, Running
      <3>3. \A k \in Libs \ {l} : inc'[k] = inc[k] /\ deps'[k] = deps[k]
        BY <3>1 DEF LoseOutput, Disk
      <3>4. inc'[l] = None
        BY <3>1 DEF LoseOutput, Disk
      <3>5. last # None => Work(last.opts) \subseteq Libs
        BY OptionsAssumption DEF Work, Options, Disk
      <3>6. ASSUME NEW k \in Libs, Drafted(k) PROVE Drafted(k)'
        <4>1. cppm' = cppm
          BY <3>1 DEF LoseOutput
        <4> QED
          BY <3>3, <3>4, <3>6, <4>1 DEF Drafted, DepsGraph
      <3>7. Drafts'
        BY <3>1, <3>5, <3>6 DEF LoseOutput, Drafts, Running
      <3> QED
        BY <3>2, <3>7
    <2>15. CASE \E o \in RunOpts : Start(o)
      BY <2>15, Order DEF Start, IsRun, Disk, Locals, Drafts, Running, Looping, Passed
    <2>16. CASE ParseFails \/ Kill
      <3>1. ~Running("idle") /\ UNCHANGED <<rev, inc, deps, cppm, skip>>
            /\ (End("failed") \/ End("killed"))
        BY <2>16 DEF ParseFails, AtLibrary, AtLoop, Kill, Running
      <3> QED
        BY <3>1 DEF End, Idle, Disk, Locals, Drafts, Running
    <2>17. CASE UNCHANGED vars
      BY <2>17 DEF vars, Disk, Locals, Drafts, Drafted, DepsGraph, Current, Running,
                   Looping, Passed
    <2> QED
      BY <2>1, <2>2, <2>3, <2>4, <2>5, <2>6, <2>7, <2>8, <2>9, <2>10, <2>11, <2>12,
         <2>13, <2>14, <2>15, <2>16, <2>17 DEF Next, Generator, Users
  <1> QED
    BY <1>1, <1>2, PTL DEF Spec

\* After a run that drafts the modules, the draft of every library whose snapshot
\* is there imports what its .deps file lists, whatever was cached, killed or
\* lost before (emit_cppm after merge_body_edges).
THEOREM DraftsReflectDeps == Spec => []CppmReflectsDeps
  <1>1. DraftInv => CppmReflectsDeps
    BY DEF DraftInv, Drafts, Drafted, CppmReflectsDeps, Settled, Work
  <1> QED
    BY <1>1, DraftInvariance, PTL

-----------------------------------------------------------------------------
(***************************************************************************)
(* The snapshots, when runs are orderly.                                   *)
(***************************************************************************)
\* The full run the present run is measured by, up to place n and at its end.
Reference(n) == FullAt[run.start][run.opts][n]
ReferenceRun == FullRun(run.start, run.opts)

\* The loop is where the full run is at the same place.
OnCourse ==
  Looping =>
    /\ run.inject = Reference(IF Running("parsed") THEN run.next ELSE run.next - 1).inject
    /\ ~run.opts.full_closure => run.claimed = Reference(run.next - 1).claimed
    /\ Running("parsed") => run.cur.records = ReferenceRun.records[Current]

\* What the run is done with is what the full run writes.
FilesTrue ==
  ~Running("idle") =>
    \A l \in Work(run.opts) :
      ~Looping \/ Passed(l) \/ (Running("parsed") /\ l = Current)
        => inc[l] = ReferenceRun.inc[l]

\* What the cache is going to be told.
PayloadsTrue ==
  ~Running("idle") =>
    /\ DOMAIN run.payload \subseteq Work(run.opts)
    /\ \A l \in DOMAIN run.payload :
         /\ run.opts.use_cache
         /\ run.keys[l] # None
         /\ run.payload[l].key = run.keys[l]
         /\ run.payload[l].claims = ReferenceRun.records[l]
         /\ run.payload[l].inject_claims = InjectedBy(run.start, run.opts, l)
         /\ Looping => Passed(l)
    /\ Running("cache") => run.pending \subseteq Libs
    /\ Running("cache") /\ ~run.added => run.pending \subseteq DOMAIN run.payload

\* The file of l was written since its cache entry was.
Rewritten(l) ==
  \/ Running("parsed") /\ l = Current
  \/ /\ l \in DOMAIN run.payload
     /\ Looping \/ Running("merge") \/ (Running("cache") /\ l \in run.pending)

\* An entry speaks for every full run that has its key.
EntryTrue(l) ==
  skip[l] # None =>
    /\ skip[l].key # None
    /\ \A o \in RunOpts : o.use_cache
    /\ \A v \in Versions, o \in RunOpts :
         l \in Work(o) /\ skip[l].key = KeysAt[v][o][l] =>
           /\ skip[l].claims = FullRun(v, o).records[l]
           /\ skip[l].inject_claims = InjectedBy(v, o, l)
           /\ Rewritten(l) \/ inc[l] \in {None, FullRun(v, o).inc[l]}

EntriesTrue == \A l \in Libs : EntryTrue(l)

LastTrue ==
  Running("idle") /\ last # None =>
    (last.outcome = "ok" =>
       \A l \in Work(last.opts) : inc[l] \in {None, FullRun(last.rev, last.opts).inc[l]})

IInv ==
  /\ DraftInv
  /\ ~Running("idle") => run.start = rev
  /\ OnCourse /\ FilesTrue /\ PayloadsTrue /\ EntriesTrue /\ LastTrue

-----------------------------------------------------------------------------
\* The place of the loop and the facts about it.
LEMMA AtPlace ==
  ASSUME IInv, Looping, run.next <= Len(run.order), Current \in Work(run.opts)
  PROVE  /\ run.start = rev /\ rev \in Versions /\ run.opts \in RunOpts
         /\ run.next \in 1..Len(Survey[rev].order)
         /\ Current = Survey[rev].order[run.next]
         /\ Current \in Libs
         /\ ~Passed(Current)
         /\ Current \notin DOMAIN run.payload
  <1>1. /\ run.start = rev /\ rev \in Versions /\ run.opts \in RunOpts
        /\ run.order = Survey[rev].order
        /\ run.next \in 1..(Len(run.order) + 1)
    BY DEF IInv, DraftInv, Disk, Locals, Looping, Running
  <1>2. run.next \in 1..Len(Survey[rev].order)
    BY <1>1, Order
  <1>3. Current = Survey[rev].order[run.next] /\ Current \in Libs
    BY <1>1, <1>2, Order DEF Current
  <1>4. ~Passed(Current)
    <2> SUFFICES ASSUME NEW i \in 1..(run.next - 1), run.order[i] = Current PROVE FALSE
      BY DEF Passed
    <2>1. i \in 1..Len(Survey[rev].order) /\ i # run.next
      BY <1>2, Order, <1>1
    <2> QED
      BY <2>1, <1>1, <1>2, <1>3, Order
  <1>5. Current \notin DOMAIN run.payload
    BY <1>4 DEF IInv, PayloadsTrue, Looping, Running
  <1> QED
    BY <1>1, <1>2, <1>3, <1>4, <1>5

\* A usable entry says what the full run would.
LEMMA UsableIsTrue ==
  ASSUME IInv, AtLibrary, Usable(Current)
  PROVE  /\ skip[Current].claims = ReferenceRun.records[Current]
         /\ skip[Current].inject_claims = InjectedBy(run.start, run.opts, Current)
         /\ inc[Current] = ReferenceRun.inc[Current]
  <1> DEFINE l == Current
  <1>1. Looping /\ Running("pass1") /\ run.next <= Len(run.order) /\ l \in Work(run.opts)
    BY Order DEF AtLibrary, AtLoop, Looping, Running, LoopDone, IInv, DraftInv, Locals
  <1>2. /\ run.start = rev /\ rev \in Versions /\ run.opts \in RunOpts
        /\ l \in Libs /\ l \notin DOMAIN run.payload
    BY <1>1, AtPlace
  <1>3. run.keys = KeysAt[run.start][run.opts]
    BY <1>1 DEF IInv, DraftInv, Locals, Running
  <1>4. ~Rewritten(l)
    BY <1>1, <1>2 DEF Rewritten, Running
  <1> HIDE DEF l
  <1>5. EntryTrue(l)
    BY <1>2 DEF IInv, EntriesTrue
  <1>6. skip[l] # None /\ skip[l].key = KeysAt[run.start][run.opts][l] /\ inc[l] # None
    BY <1>3 DEF Usable, Key, l
  <1>7. /\ skip[l].claims = FullRun(run.start, run.opts).records[l]
        /\ skip[l].inject_claims = InjectedBy(run.start, run.opts, l)
        /\ inc[l] \in {None, FullRun(run.start, run.opts).inc[l]}
    BY <1>1, <1>2, <1>4, <1>5, <1>6 DEF EntryTrue, l
  <1> QED
    BY <1>6, <1>7 DEF ReferenceRun, l

\* An entry stays true as long as nothing it speaks of changes.
LEMMA EntryStays ==
  ASSUME NEW l \in Libs, EntryTrue(l), skip'[l] = skip[l], inc'[l] = inc[l],
         Rewritten(l) => Rewritten(l)'
  PROVE  EntryTrue(l)'
  BY DEF EntryTrue

LEMMA PassOverKeeps ==
  ASSUME IInv, PassOver, DraftInv'
  PROVE  IInv'
  <1>1. /\ run' = [run EXCEPT !.next = @ + 1]
        /\ UNCHANGED <<rev, inc, deps, cppm, skip, last>>
        /\ Running("pass1") /\ run.next <= Len(run.order) /\ Current \notin Work(run.opts)
        /\ IsRun(run) /\ run.start \in Versions /\ run.opts \in RunOpts
        /\ run.order = Survey[run.start].order
        /\ run.next \in 1..Len(run.order)
    BY Order DEF PassOver, AtLoop, LoopDone, IInv, DraftInv, Locals, Running
  <1>2. /\ run'.phase = "pass1" /\ run'.next = run.next + 1 /\ run'.opts = run.opts
        /\ run'.start = run.start /\ run'.order = run.order /\ run'.keys = run.keys
        /\ run'.claimed = run.claimed /\ run'.inject = run.inject
        /\ run'.payload = run.payload /\ run'.pending = run.pending
        /\ run'.added = run.added
    BY <1>1 DEF IsRun, Running
  <1>3. Reference(run.next) = Reference(run.next - 1)
    <2>1. run.next \in 0..Len(Survey[run.start].order) /\ run.next # 0
      BY <1>1
    <2>2. Survey[run.start].order[run.next] \notin Work(run.opts)
      BY <1>1 DEF Current
    <2>3. Reference(run.next)
            = FullNext(run.start, run.opts, Reference(run.next - 1), run.next)
      BY <1>1, <2>1, FullPassStep DEF Reference
    <2> QED
      BY <2>2, <2>3 DEF FullNext
  <1>4. \A l : Passed(l)' => Passed(l) \/ l = Current
    BY <1>1, <1>2 DEF Passed, Current
  <1>5. \A l : Passed(l) => Passed(l)'
    BY <1>1, <1>2 DEF Passed
  <1>6. OnCourse'
    BY <1>1, <1>2, <1>3 DEF IInv, OnCourse, Looping, Running, Reference
  <1>7. FilesTrue'
    BY <1>1, <1>2, <1>4 DEF IInv, FilesTrue, Looping, Running, ReferenceRun
  <1>8. PayloadsTrue'
    BY <1>1, <1>2, <1>5 DEF IInv, PayloadsTrue, Looping, Running, ReferenceRun
  <1>9. \A l \in Libs : Rewritten(l) => Rewritten(l)'
    BY <1>1, <1>2 DEF Rewritten, Looping, Running
  <1>10. EntriesTrue'
    BY <1>1, <1>9, EntryStays DEF IInv, EntriesTrue
  <1> QED
    BY <1>1, <1>2, <1>6, <1>7, <1>8, <1>10 DEF IInv, LastTrue, Running

LEMMA ReplayKeeps ==
  ASSUME IInv, Replay, DraftInv'
  PROVE  IInv'
  <1> DEFINE l == Current
             n == run.next
  <1>1. /\ UNCHANGED <<rev, inc, deps, cppm, skip, last>>
        /\ Running("pass1") /\ n <= Len(run.order) /\ l \in Work(run.opts)
        /\ IsRun(run) /\ run.start \in Versions /\ run.opts \in RunOpts
        /\ run.order = Survey[run.start].order
        /\ n \in 1..Len(run.order)
        /\ AtLibrary /\ Usable(l)
    BY Order DEF Replay, AtLibrary, AtLoop, LoopDone, IInv, DraftInv, Locals, Running
  <1>2. /\ run'.phase = "pass1" /\ run'.next = n + 1 /\ run'.opts = run.opts
        /\ run'.start = run.start /\ run'.order = run.order /\ run'.keys = run.keys
        /\ run'.claimed = ClaimAll(run.claimed, skip[l].claims, l)
        /\ run'.inject = InjectAll(run.inject, skip[l].inject_claims, l)
        /\ run'.payload = run.payload /\ run'.pending = run.pending
        /\ run'.added = run.added
    BY <1>1 DEF IsRun, Running, Replay
  <1>3. /\ skip[l].claims = ReferenceRun.records[l]
        /\ skip[l].inject_claims = InjectedBy(run.start, run.opts, l)
        /\ inc[l] = ReferenceRun.inc[l]
    BY <1>1, UsableIsTrue
  <1>4. run.inject = Reference(n - 1).inject
        /\ (~run.opts.full_closure => run.claimed = Reference(n - 1).claimed)
    BY <1>1 DEF IInv, OnCourse, Looping, Running
  <1>5. /\ Reference(n).inject
             = InjectAll(Reference(n - 1).inject, InjectedBy(run.start, run.opts, l), l)
        /\ ~run.opts.full_closure =>
             Reference(n).claimed
               = ClaimAll(Reference(n - 1).claimed, ReferenceRun.records[l], l)
    <2>1. l = Survey[run.start].order[n] /\ n \in 1..Len(Survey[run.start].order)
      BY <1>1 DEF Current
    <2>2. run.start \in Versions /\ run.opts \in RunOpts /\ l \in Work(run.opts)
      BY <1>1
    <2> HIDE DEF l, n
    <2>3. /\ ~run.opts.full_closure =>
               FullAt[run.start][run.opts][n].claimed
                 = ClaimAll(FullAt[run.start][run.opts][n - 1].claimed,
                            FullRun(run.start, run.opts).records[l], l)
          /\ FullAt[run.start][run.opts][n].inject
               = InjectAll(FullAt[run.start][run.opts][n - 1].inject,
                           InjectedBy(run.start, run.opts, l), l)
      BY <2>1, <2>2, FullReplay
    <2> QED
      BY <2>3 DEF Reference, ReferenceRun
  <1>6. \A k : Passed(k)' => Passed(k) \/ k = l
    BY <1>1, <1>2 DEF Passed, Current
  <1>7. \A k : Passed(k) => Passed(k)'
    BY <1>1, <1>2 DEF Passed
  <1> HIDE DEF l
  <1>8. OnCourse'
    BY <1>1, <1>2, <1>3, <1>4, <1>5 DEF OnCourse, Looping, Running, Reference
  <1>9. FilesTrue'
    BY <1>1, <1>2, <1>3, <1>6 DEF IInv, FilesTrue, Looping, Running, ReferenceRun
  <1>10. PayloadsTrue'
    BY <1>1, <1>2, <1>7 DEF IInv, PayloadsTrue, Looping, Running, ReferenceRun
  <1>11. \A k \in Libs : Rewritten(k) => Rewritten(k)'
    BY <1>1, <1>2 DEF Rewritten, Looping, Running
  <1>12. EntriesTrue'
    BY <1>1, <1>11, EntryStays DEF IInv, EntriesTrue
  <1> QED
    BY <1>1, <1>2, <1>8, <1>9, <1>10, <1>12 DEF IInv, LastTrue, Running

LEMMA ParseKeeps ==
  ASSUME IInv, ParseAndEmitInc, DraftInv'
  PROVE  IInv'
  <1>0. PICK l : l = Current
    OBVIOUS
  <1> DEFINE n       == run.next
             bundle  == Bundle[run.start][rev][l]
             names   == NewNames(bundle, run.inject)
             records == Records(bundle, names)
             full    == run.opts.full_closure
             claimed == IF full THEN NoClaims ELSE run.claimed
  <1>1. /\ UNCHANGED <<rev, deps, cppm, skip, last>>
        /\ Running("pass1") /\ n <= Len(run.order) /\ l \in Work(run.opts)
        /\ IsRun(run) /\ run.start \in Versions /\ run.opts \in RunOpts
        /\ run.order = Survey[run.start].order
        /\ n \in 1..Len(run.order) /\ inc = [k \in Libs |-> inc[k]]
    BY <1>0, Order
    DEF ParseAndEmitInc, AtLibrary, AtLoop, LoopDone, IInv, DraftInv, Disk, Locals, Running
  <1>2. /\ run'.phase = "parsed" /\ run'.next = n /\ run'.opts = run.opts
        /\ run'.start = run.start /\ run'.order = run.order /\ run'.keys = run.keys
        /\ run'.claimed = claimed
        /\ run'.inject = IF full THEN NoInjects ELSE InjectAll(run.inject, names, l)
        /\ run'.cur.records = records
        /\ run'.payload = run.payload /\ run'.pending = run.pending
        /\ run'.added = run.added
    BY <1>0, <1>1 DEF IsRun, ParseAndEmitInc
  <1>3. inc' = [inc EXCEPT ![l] = Exported(l, records, claimed)]
    BY <1>0 DEF ParseAndEmitInc
  <1>4. /\ run.start = rev /\ l \in Libs /\ l = Survey[run.start].order[n]
        /\ ~Passed(l) /\ l \notin DOMAIN run.payload
    BY <1>0, <1>1, AtPlace DEF Looping, Running
  <1>5. run.inject = Reference(n - 1).inject
        /\ (~full => run.claimed = Reference(n - 1).claimed)
    BY <1>1 DEF IInv, OnCourse, Looping, Running
  <1>6. /\ ReferenceRun.inc[l] = Exported(l, records, claimed)
        /\ ReferenceRun.records[l] = records
        /\ Reference(n).inject = IF full THEN NoInjects ELSE InjectAll(run.inject, names, l)
    <2>1. n \in 1..Len(Survey[run.start].order)
      BY <1>1
    <2>2. /\ names = NamesAt(run.start, run.opts, n)
          /\ records = RecordsAt(run.start, run.opts, n)
          /\ claimed = ClaimedAt(run.start, run.opts, n)
      BY <1>4, <1>5 DEF NamesAt, RecordsAt, ClaimedAt, Reference
    <2> HIDE DEF n, names, records, claimed
    <2> QED
      BY <1>1, <1>4, <1>5, <2>1, <2>2, FullPlace DEF Reference, ReferenceRun
  <1> HIDE DEF records, names, claimed, bundle
  <1>7. \A k : Passed(k)' <=> Passed(k)
    BY <1>2 DEF Passed
  <1>8. Current' = l
    BY <1>0, <1>2 DEF Current
  <1>9. inc'[l] = ReferenceRun.inc[l] /\ \A k \in Libs \ {l} : inc'[k] = inc[k]
    BY <1>1, <1>3, <1>4, <1>6
  <1>10. Work(run.opts) \subseteq Libs
    BY <1>1, OptionsAssumption DEF Work, Options
  <1>11. OnCourse'
    BY <1>1, <1>2, <1>5, <1>6, <1>8
    DEF OnCourse, Looping, Running, Reference, ReferenceRun, claimed
  <1>12. FilesTrue'
    BY <1>1, <1>2, <1>7, <1>8, <1>9, <1>10
    DEF IInv, FilesTrue, Looping, Running, ReferenceRun
  <1>13. PayloadsTrue'
    BY <1>1, <1>2, <1>7 DEF IInv, PayloadsTrue, Looping, Running, ReferenceRun
  <1>14. \A k \in Libs \ {l} : Rewritten(k) => Rewritten(k)'
    BY <1>1, <1>2 DEF Rewritten, Looping, Running
  <1>15. EntriesTrue'
    <2>1. ASSUME NEW k \in Libs \ {l} PROVE EntryTrue(k)'
      BY <1>1, <1>9, <1>14, EntryStays DEF IInv, EntriesTrue
    <2>2. Rewritten(l)'
      BY <1>2, <1>8 DEF Rewritten, Running
    <2>3. EntryTrue(l)'
      BY <1>1, <1>4, <2>2 DEF IInv, EntriesTrue, EntryTrue
    <2> QED
      BY <2>1, <2>3 DEF EntriesTrue
  <1> QED
    BY <1>1, <1>2, <1>4, <1>11, <1>12, <1>13, <1>15 DEF IInv, LastTrue, Running

\* Whatever has the key of a sound run is a full run that writes the same.
LEMMA SoundKeys ==
  ASSUME Orderly, NEW o \in RunOpts, o.use_cache
  PROVE  KeyIsSound
  BY DEF Orderly

LEMMA EmitDepsKeeps ==
  ASSUME Orderly, IInv, EmitDeps, DraftInv'
  PROVE  IInv'
  <1>0. PICK l : l = Current
    OBVIOUS
  <1> DEFINE n       == run.next
             records == run.cur.records
             entry   == [key |-> Key(l), claims |-> records,
                         inject_claims |-> {q \in Headers : run.inject[q] = l}]
  <1>1. /\ UNCHANGED <<rev, inc, cppm, skip, last>>
        /\ Running("parsed") /\ n <= Len(run.order) /\ l \in Work(run.opts)
        /\ IsRun(run) /\ run.start \in Versions /\ run.opts \in RunOpts
        /\ run.order = Survey[run.start].order /\ run.keys = KeysAt[run.start][run.opts]
        /\ n \in 1..Len(run.order)
    BY <1>0, Order DEF EmitDeps, IInv, DraftInv, Locals, Running
  <1>2. /\ run'.phase = "pass1" /\ run'.next = n + 1 /\ run'.opts = run.opts
        /\ run'.start = run.start /\ run'.order = run.order /\ run'.keys = run.keys
        /\ run'.claimed = ClaimAll(run.claimed, records, l)
        /\ run'.inject = run.inject
        /\ run'.pending = run.pending /\ run'.added = run.added
    BY <1>0, <1>1 DEF IsRun, EmitDeps, Parsed
  <1>3. run'.payload = IF run.opts.use_cache /\ Key(l) # None
                       THEN [m \in DOMAIN run.payload \cup {l} |->
                               IF m # l THEN run.payload[m] ELSE entry]
                       ELSE run.payload
    BY <1>0, <1>1 DEF IsRun, EmitDeps, Parsed
  <1>4. /\ run.start = rev /\ l \in Libs /\ l = Survey[run.start].order[n]
        /\ ~Passed(l) /\ l \notin DOMAIN run.payload
    BY <1>0, <1>1, AtPlace DEF Looping, Running
  <1>5. /\ run.inject = Reference(n).inject
        /\ (~run.opts.full_closure => run.claimed = Reference(n - 1).claimed)
        /\ records = ReferenceRun.records[l]
        /\ inc[l] = ReferenceRun.inc[l]
    BY <1>0, <1>1 DEF IInv, OnCourse, FilesTrue, Looping, Running
  <1>6. /\ InjectedBy(run.start, run.opts, l) = {q \in Headers : run.inject[q] = l}
        /\ ~run.opts.full_closure =>
             Reference(n).claimed
               = ClaimAll(Reference(n - 1).claimed, ReferenceRun.records[l], l)
    <2> HIDE DEF n
    <2> QED
      BY <1>1, <1>4, <1>5, FullReplay DEF Reference, ReferenceRun
  <1> HIDE DEF records, entry
  <1>7. \A k : Passed(k)' <=> Passed(k) \/ k = l
    <2>1. run.order[n] = l /\ n \in 1..(run'.next - 1) /\ run'.order = run.order
      BY <1>0, <1>1, <1>2 DEF Current
    <2>2. \A i \in 1..(run'.next - 1) : i = n \/ i \in 1..(run.next - 1)
      BY <1>1, <1>2
    <2>3. \A i \in 1..(run.next - 1) : i \in 1..(run'.next - 1)
      BY <1>1, <1>2
    <2> QED
      BY <2>1, <2>2, <2>3 DEF Passed
  <1>8. /\ \A k \in DOMAIN run.payload :
             k \in DOMAIN run'.payload /\ run'.payload[k] = run.payload[k]
        /\ l \in DOMAIN run'.payload =>
             run.opts.use_cache /\ run.keys[l] # None /\ run'.payload[l] = entry
        /\ \A k \in DOMAIN run'.payload : k \in DOMAIN run.payload \/ k = l
        /\ run.opts.use_cache /\ run.keys[l] # None => l \in DOMAIN run'.payload
    BY <1>3, <1>4 DEF Key
  <1>9. OnCourse'
    BY <1>1, <1>2, <1>5, <1>6 DEF OnCourse, Looping, Running, Reference, ReferenceRun
  <1>10. FilesTrue'
    BY <1>1, <1>2, <1>5, <1>7 DEF IInv, FilesTrue, Looping, Running, ReferenceRun
  <1>11. PayloadsTrue'
    <2>1. ReferenceRun' = ReferenceRun
      BY <1>2 DEF ReferenceRun
    <2>2. ASSUME NEW k \in DOMAIN run.payload
          PROVE  /\ k \in Work(run.opts) /\ run.opts.use_cache /\ run.keys[k] # None
                 /\ run.payload[k].key = run.keys[k]
                 /\ run.payload[k].claims = ReferenceRun.records[k]
                 /\ run.payload[k].inject_claims = InjectedBy(run.start, run.opts, k)
                 /\ Passed(k)
      BY <1>1 DEF IInv, PayloadsTrue, Looping, Running
    <2>3. /\ entry.key = run.keys[l] /\ entry.claims = ReferenceRun.records[l]
          /\ entry.inject_claims = InjectedBy(run.start, run.opts, l)
      BY <1>5, <1>6 DEF entry, Key
    <2>4. ASSUME NEW k \in DOMAIN run'.payload
          PROVE  /\ k \in Work(run.opts) /\ run.opts.use_cache /\ run.keys[k] # None
                 /\ run'.payload[k].key = run.keys[k]
                 /\ run'.payload[k].claims = ReferenceRun.records[k]
                 /\ run'.payload[k].inject_claims = InjectedBy(run.start, run.opts, k)
                 /\ Passed(k)'
      BY <1>1, <1>7, <1>8, <2>2, <2>3
    <2> QED
      BY <1>2, <2>1, <2>4 DEF PayloadsTrue, Running
  <1>12. EntriesTrue'
    <2>1. ASSUME NEW k \in Libs \ {l} PROVE EntryTrue(k)'
      <3>1. Rewritten(k) => Rewritten(k)'
        BY <1>0, <1>1, <1>2, <1>8 DEF Rewritten, Looping, Running
      <3> QED
        BY <1>1, <3>1, EntryStays DEF IInv, EntriesTrue
    <2>2. CASE l \in DOMAIN run'.payload
      <3>1. Rewritten(l)'
        BY <1>2, <2>2 DEF Rewritten, Looping
      <3>2. EntryTrue(l)'
        BY <1>1, <1>4, <3>1 DEF IInv, EntriesTrue, EntryTrue
      <3> QED
        BY <2>1, <3>2 DEF EntriesTrue
    <2>3. CASE l \notin DOMAIN run'.payload
      <3>1. ASSUME skip[l] # None, NEW v \in Versions, NEW o \in RunOpts,
                   l \in Work(o), skip[l].key = KeysAt[v][o][l]
            PROVE  FALSE
        <4>1. skip[l].key # None /\ run.opts.use_cache
          BY <1>1, <1>4, <3>1 DEF IInv, EntriesTrue, EntryTrue
        <4>2. KeysAt[run.start][run.opts][l] = None
          BY <1>1, <1>8, <2>3, <4>1
        <4>3. KeyIsSound
          BY <1>1, <4>1, SoundKeys
        <4>4. KeysAt[v][o][l] = None
          BY <1>1, <3>1, <4>2, <4>3 DEF KeyIsSound
        <4> QED
          BY <3>1, <4>1, <4>4
      <3>2. EntryTrue(l)'
        BY <1>1, <1>4, <3>1 DEF IInv, EntriesTrue, EntryTrue
      <3> QED
        BY <2>1, <3>2 DEF EntriesTrue
    <2> QED
      BY <2>2, <2>3
  <1> QED
    BY <1>1, <1>2, <1>4, <1>9, <1>10, <1>11, <1>12 DEF IInv, LastTrue, Running

\* A set of naturals that is not empty has a smallest member.
LEMMA MinMember ==
  ASSUME NEW S \in SUBSET Nat, S # {}
  PROVE  Min(S) \in S
  <1>1. PICK n \in S : \A m \in S : ~(<<m, n>> \in OpToRel(<, Nat))
    BY NatLessThanWellFounded, WFMin
  <1>2. ASSUME NEW m \in S PROVE n <= m
    <2>1. m \in Nat /\ n \in Nat
      OBVIOUS
    <2>2. ~(m < n)
      BY <1>1, <2>1 DEF OpToRel
    <2> QED
      BY <2>1, <2>2
  <1> QED
    BY <1>2 DEF Min

\* The first of a set of libraries is one of them.
LEMMA FirstOfMember ==
  ASSUME Locals, ~Running("idle"), NEW S \in SUBSET Libs, S # {}
  PROVE  FirstOf(S) \in S
  <1> DEFINE places == {i \in DOMAIN run.order : run.order[i] \in S}
  <1>1. /\ run.order \in Seq(Libs)
        /\ \A l \in Libs : \E i \in 1..Len(run.order) : run.order[i] = l
    <2>1. PICK v \in Versions : run.order = Survey[v].order
      BY DEF Locals
    <2> QED
      BY <2>1, Order
  <1>2. places \in SUBSET Nat /\ places # {}
    BY <1>1
  <1>3. Min(places) \in places
    BY <1>2, MinMember
  <1> HIDE DEF places
  <1> QED
    BY <1>3 DEF FirstOf, places

\* A step after the loop that touches neither the snapshots nor the cache.
LEMMA LaterKeeps ==
  ASSUME IInv, DraftInv', ~Running("idle"), ~Running("parsed"), Looping => LoopDone,
         UNCHANGED <<rev, inc, skip, last>>,
         run'.phase \in {"merge", "cache", "emit"}, run'.opts = run.opts,
         run'.start = run.start, run'.keys = run.keys, run'.payload = run.payload,
         run'.phase = "cache" =>
           /\ run'.pending \subseteq Libs
           /\ ~run'.added => run'.pending \subseteq DOMAIN run.payload,
         \A l \in Libs : skip[l] # None /\ Rewritten(l) => Rewritten(l)'
  PROVE  IInv'
  <1>1. \A l \in Work(run.opts) : ~Looping \/ Passed(l)
    <2>1. /\ run.order = Survey[run.start].order /\ run.start \in Versions
          /\ run.opts \in RunOpts
      BY DEF IInv, DraftInv, Locals
    <2>2. Work(run.opts) \subseteq Libs
      BY <2>1, OptionsAssumption DEF Work, Options
    <2>3. /\ Len(run.order) \in Nat
          /\ \A l \in Libs : \E i \in 1..Len(run.order) : run.order[i] = l
      BY <2>1, Order
    <2>4. run.next \in 1..(Len(run.order) + 1)
      BY DEF IInv, DraftInv, Locals
    <2>5. Looping => run.next - 1 = Len(run.order)
      BY <2>3, <2>4 DEF LoopDone
    <2> QED
      BY <2>2, <2>3, <2>5 DEF Passed
  <1>2. OnCourse'
    BY DEF OnCourse, Looping
  <1>3. FilesTrue'
    BY <1>1 DEF IInv, FilesTrue, ReferenceRun
  <1>4. PayloadsTrue'
    BY DEF IInv, PayloadsTrue, ReferenceRun, Looping, Running
  <1>5. EntriesTrue'
    BY DEF IInv, EntriesTrue, EntryTrue
  <1> QED
    BY <1>2, <1>3, <1>4, <1>5 DEF IInv, LastTrue, Running

LEMMA AfterLoopKeeps ==
  ASSUME IInv, DraftInv',
         Merge \/ WriteMergedDeps \/ MergeDone \/ CacheDone \/ EmitCppm
  PROVE  IInv'
  <1>1. ~Running("idle") => IsRun(run)
    BY DEF IInv, DraftInv, Locals
  <1>2. CASE Merge
    BY <1>1, <1>2, LaterKeeps DEF Merge, IsRun, Running, Rewritten, Looping
  <1>3. CASE WriteMergedDeps
    BY <1>1, <1>3, LaterKeeps DEF WriteMergedDeps, IsRun, Running, Rewritten, Looping
  <1>4. CASE MergeDone
    <2>1. DOMAIN run.payload \subseteq Libs
      BY <1>4, OptionsAssumption
      DEF MergeDone, IInv, DraftInv, Locals, PayloadsTrue, Work, Options, Running
    <2> QED
      BY <1>1, <1>4, <2>1, LaterKeeps
      DEF MergeDone, IsRun, Running, Rewritten, Looping, Parsed
  <1>5. CASE CacheDone
    BY <1>1, <1>5, LaterKeeps DEF CacheDone, IsRun, Running, Rewritten, Looping
  <1>6. CASE EmitCppm
    BY <1>1, <1>6, LaterKeeps DEF EmitCppm, IsRun, Running, Rewritten, Looping
  <1> QED
    BY <1>2, <1>3, <1>4, <1>5, <1>6

LEMMA DropCacheEntryKeeps ==
  ASSUME IInv, DraftInv', NEW d \in Libs, DropCacheEntry(d)
  PROVE  IInv'
  <1>1. /\ IsRun(run) /\ Running("cache") /\ skip = [l \in Libs |-> skip[l]]
        /\ skip' = [skip EXCEPT ![d] = None] /\ run' = [run EXCEPT !.pending = @ \ {d}]
        /\ UNCHANGED <<rev, inc, deps, cppm, last>> /\ run.added
    BY DEF DropCacheEntry, IInv, DraftInv, Disk, Locals, Running
  <1>2. /\ run'.phase = "cache" /\ run'.opts = run.opts /\ run'.start = run.start
        /\ run'.keys = run.keys /\ run'.payload = run.payload /\ run'.added = run.added
        /\ run'.pending = run.pending \ {d}
    BY <1>1 DEF IsRun, Running
  <1>3. OnCourse' /\ FilesTrue' /\ PayloadsTrue'
    BY <1>1, <1>2
    DEF IInv, OnCourse, FilesTrue, PayloadsTrue, ReferenceRun, Looping, Running
  <1>4. ASSUME NEW l \in Libs PROVE EntryTrue(l)'
    <2>1. CASE l = d
      <3>1. skip'[l] = None
        BY <1>1, <2>1
      <3> QED
        BY <3>1 DEF EntryTrue
    <2>2. CASE l # d
      <3>1. skip'[l] = skip[l] /\ inc'[l] = inc[l] /\ (Rewritten(l) => Rewritten(l)')
        BY <1>1, <1>2, <2>2 DEF Rewritten, Looping, Running
      <3> QED
        BY <3>1, EntryStays DEF IInv, EntriesTrue
    <2> QED
      BY <2>1, <2>2
  <1> QED
    BY <1>1, <1>2, <1>3, <1>4 DEF IInv, EntriesTrue, LastTrue, Running

LEMMA WriteCacheEntryKeeps ==
  ASSUME Orderly, IInv, DraftInv', WriteCacheEntry
  PROVE  IInv'
  <1>0. PICK d : d = FirstOf(run.pending)
    OBVIOUS
  <1>1. /\ IsRun(run) /\ Running("cache") /\ skip = [l \in Libs |-> skip[l]]
        /\ run.pending # {} /\ ~run.added
        /\ skip' = [skip EXCEPT ![d] =
                       [key |-> run.payload[d].key, claims |-> run.payload[d].claims,
                        inject_claims |-> run.payload[d].inject_claims,
                        deps_present |-> deps[d] # None]]
        /\ run' = [run EXCEPT !.pending = @ \ {d}]
        /\ UNCHANGED <<rev, inc, deps, cppm, last>>
    BY <1>0 DEF WriteCacheEntry, IInv, DraftInv, Disk, Locals, Running
  <1>2. /\ run'.phase = "cache" /\ run'.opts = run.opts /\ run'.start = run.start
        /\ run'.keys = run.keys /\ run'.payload = run.payload /\ run'.added = run.added
        /\ run'.pending = run.pending \ {d}
    BY <1>1 DEF IsRun, Running
  <1>3. OnCourse' /\ FilesTrue' /\ PayloadsTrue'
    BY <1>1, <1>2
    DEF IInv, OnCourse, FilesTrue, PayloadsTrue, ReferenceRun, Looping, Running
  <1>4. d \in Libs /\ d \in DOMAIN run.payload
    <2>1. run.pending \subseteq Libs /\ run.pending \subseteq DOMAIN run.payload
      BY <1>1 DEF IInv, PayloadsTrue, Running
    <2>2. d \in run.pending
      BY <1>0, <1>1, <2>1, FirstOfMember DEF IInv, DraftInv, Running
    <2> QED
      BY <2>1, <2>2
  <1>5. /\ run.opts \in RunOpts /\ run.start \in Versions /\ d \in Work(run.opts)
        /\ run.keys = KeysAt[run.start][run.opts]
        /\ run.opts.use_cache /\ run.keys[d] # None
        /\ inc[d] = ReferenceRun.inc[d]
        /\ skip'[d].key = run.keys[d]
        /\ skip'[d].claims = ReferenceRun.records[d]
        /\ skip'[d].inject_claims = InjectedBy(run.start, run.opts, d)
    <2>1. /\ run.opts \in RunOpts /\ run.start \in Versions
          /\ run.keys = KeysAt[run.start][run.opts]
      BY <1>1 DEF IInv, DraftInv, Locals, Running
    <2>2. /\ d \in Work(run.opts) /\ run.opts.use_cache /\ run.keys[d] # None
          /\ run.payload[d].key = run.keys[d]
          /\ run.payload[d].claims = ReferenceRun.records[d]
          /\ run.payload[d].inject_claims = InjectedBy(run.start, run.opts, d)
      BY <1>1, <1>4 DEF IInv, PayloadsTrue, Running
    <2>3. inc[d] = ReferenceRun.inc[d]
      BY <1>1, <2>2 DEF IInv, FilesTrue, Looping, Running
    <2> QED
      BY <1>1, <1>4, <2>1, <2>2, <2>3
  <1>6. KeyIsSound /\ \A o \in RunOpts : o.use_cache
    BY <1>5 DEF Orderly
  <1>7. ASSUME NEW v \in Versions, NEW o \in RunOpts, d \in Work(o),
               skip'[d].key = KeysAt[v][o][d]
        PROVE  /\ skip'[d].claims = FullRun(v, o).records[d]
               /\ skip'[d].inject_claims = InjectedBy(v, o, d)
               /\ inc[d] = FullRun(v, o).inc[d]
    <2>1. /\ KeysAt[run.start][run.opts][d] # None
          /\ KeysAt[run.start][run.opts][d] = KeysAt[v][o][d]
          /\ d \in Work(run.opts) \cap Work(o)
      BY <1>5, <1>7
    <2>2. /\ FullRun(run.start, run.opts).inc[d] = FullRun(v, o).inc[d]
          /\ FullRun(run.start, run.opts).records[d] = FullRun(v, o).records[d]
          /\ InjectedBy(run.start, run.opts, d) = InjectedBy(v, o, d)
      BY <1>5, <1>6, <2>1 DEF KeyIsSound
    <2> QED
      BY <1>5, <2>2 DEF ReferenceRun
  <1>8. ASSUME NEW l \in Libs PROVE EntryTrue(l)'
    <2>1. CASE l = d
      BY <1>1, <1>5, <1>6, <1>7, <2>1 DEF EntryTrue
    <2>2. CASE l # d
      <3>1. skip'[l] = skip[l] /\ inc'[l] = inc[l] /\ (Rewritten(l) => Rewritten(l)')
        BY <1>1, <1>2, <2>2 DEF Rewritten, Looping, Running
      <3> QED
        BY <3>1, EntryStays DEF IInv, EntriesTrue
    <2> QED
      BY <2>1, <2>2
  <1> QED
    BY <1>1, <1>2, <1>3, <1>8 DEF IInv, EntriesTrue, LastTrue, Running

LEMMA StartKeeps ==
  ASSUME IInv, DraftInv', NEW o \in RunOpts, Start(o)
  PROVE  IInv'
  <1>1. /\ run'.phase = "pass1" /\ run'.opts = o /\ run'.start = rev
        /\ run'.order = Survey[rev].order /\ run'.next = 1
        /\ run'.claimed = NoClaims /\ run'.inject = NoInjects /\ run'.payload = << >>
        /\ UNCHANGED <<rev, inc, deps, cppm, skip, last>> /\ Running("idle")
        /\ rev \in Versions
    BY DEF Start, IInv, DraftInv, Disk
  <1>2. FullAt[rev][o][0] = FullBase
    BY <1>1, Order, FullPassStep
  <1>3. OnCourse'
    <2>1. Reference(0)' = FullBase
      BY <1>1, <1>2 DEF Reference
    <2> QED
      BY <1>1, <2>1 DEF OnCourse, Looping, Running, FullBase
  <1>4. \A l : ~Passed(l)'
    BY <1>1 DEF Passed
  <1>5. FilesTrue'
    BY <1>1, <1>4 DEF FilesTrue, Looping, Running
  <1>6. DOMAIN run'.payload = {}
    BY <1>1
  <1>7. PayloadsTrue'
    BY <1>1, <1>6 DEF PayloadsTrue, Running
  <1>8. \A l \in Libs : ~Rewritten(l)
    BY <1>1 DEF Rewritten, Looping, Running
  <1>9. EntriesTrue'
    BY <1>1, <1>8, EntryStays DEF IInv, EntriesTrue
  <1> QED
    BY <1>1, <1>3, <1>5, <1>7, <1>9 DEF IInv, LastTrue, Running

\* A run that ends before its time leaves no entry behind that it made false: there
\* is none, or the file it stands for is the one every full run writes.
LEMMA BreakOffKeeps ==
  ASSUME Orderly, IInv, DraftInv', ParseFails \/ Kill
  PROVE  IInv'
  <1>1. /\ ~Running("idle") /\ UNCHANGED <<rev, inc, deps, cppm, skip>>
        /\ run' = Idle /\ last'.outcome # "ok"
        /\ {"kill", "parse_failure"} \cap Faults # {}
    BY DEF ParseFails, AtLibrary, AtLoop, Kill, Running, End
  <1>2. run.opts \in RunOpts /\ run.start \in Versions
    BY <1>1 DEF IInv, DraftInv, Locals
  <1>3. EntriesTrue'
    <2>1. CASE \A o \in RunOpts : ~o.use_cache
      <3>1. \A l \in Libs : skip[l] = None
        BY <1>2, <2>1 DEF IInv, EntriesTrue, EntryTrue
      <3> QED
        BY <1>1, <3>1 DEF EntriesTrue, EntryTrue
    <2>2. CASE FilesAgree
      <3>1. ASSUME NEW l \in Libs, Rewritten(l)
            PROVE  /\ l \in Work(run.opts)
                   /\ inc[l] = FullRun(run.start, run.opts).inc[l]
        BY <1>1, <3>1
        DEF Rewritten, IInv, DraftInv, Locals, FilesTrue, PayloadsTrue, Looping, Running,
            ReferenceRun
      <3>2. ASSUME NEW l \in Libs, Rewritten(l), NEW v \in Versions, NEW o \in RunOpts,
                   l \in Work(o)
            PROVE  inc[l] = FullRun(v, o).inc[l]
        BY <1>2, <2>2, <3>1, <3>2 DEF FilesAgree
      <3> QED
        BY <1>1, <3>2 DEF IInv, EntriesTrue, EntryTrue
    <2> QED
      BY <1>1, <2>1, <2>2 DEF Orderly
  <1>4. run'.phase = "idle"
    BY <1>1 DEF Idle
  <1> QED
    BY <1>1, <1>3, <1>4
    DEF IInv, OnCourse, FilesTrue, PayloadsTrue, LastTrue, Looping, Running

LEMMA ReturnKeeps ==
  ASSUME IInv, DraftInv', Return
  PROVE  IInv'
  <1>1. /\ Running("emit") /\ UNCHANGED <<rev, inc, deps, cppm, skip>>
        /\ run'.phase = "idle"
        /\ last' = [outcome |-> "ok", rev |-> run.start, opts |-> run.opts]
    BY DEF Return, End, Idle
  <1>2. \A l \in Work(run.opts) : inc[l] = ReferenceRun.inc[l]
    BY <1>1 DEF IInv, FilesTrue, Looping, Running
  <1>3. LastTrue'
    BY <1>1, <1>2 DEF LastTrue, ReferenceRun
  <1>4. \A l \in Libs : ~Rewritten(l)
    BY <1>1 DEF Rewritten, Looping, Running
  <1>5. EntriesTrue'
    BY <1>1, <1>4, EntryStays DEF IInv, EntriesTrue, Disk, DraftInv
  <1> QED
    BY <1>1, <1>3, <1>5 DEF IInv, OnCourse, FilesTrue, PayloadsTrue, Looping, Running

LEMMA UsersKeep ==
  ASSUME Orderly, IInv, DraftInv',
         (\E v \in Versions : EditHeaders(v)) \/ (\E l \in Libs : LoseOutput(l))
  PROVE  IInv'
  <1>1. Running("idle") /\ UNCHANGED <<skip, run, last>>
    BY DEF EditHeaders, LoseOutput, Orderly
  <1>2. \A l \in Libs : inc'[l] \in {None, inc[l]}
    BY DEF EditHeaders, LoseOutput, IInv, DraftInv, Disk
  <1>3. \A l \in Libs : ~Rewritten(l) /\ ~Rewritten(l)'
    BY <1>1 DEF Rewritten, Looping, Running
  <1>4. EntriesTrue'
    BY <1>1, <1>2, <1>3 DEF IInv, EntriesTrue, EntryTrue
  <1>5. last # None => Work(last.opts) \subseteq Libs
    BY OptionsAssumption DEF IInv, DraftInv, Disk, Work, Options
  <1>6. LastTrue'
    BY <1>1, <1>2, <1>5 DEF IInv, LastTrue, Running
  <1> QED
    BY <1>1, <1>4, <1>6 DEF IInv, OnCourse, FilesTrue, PayloadsTrue, Looping, Running

\* Every reachable state satisfies the inductive invariant.
THEOREM Inductive ==
  ASSUME Orderly
  PROVE  Spec => []IInv
  <1>1. Init => IInv
    BY DEF Init, IInv, DraftInv, Disk, Locals, Drafts, OnCourse, FilesTrue, PayloadsTrue,
           EntriesTrue, EntryTrue, LastTrue, Running, Looping, Idle
  <1>2. IInv /\ DraftInv' /\ [Next]_vars => IInv'
    <2> SUFFICES ASSUME IInv, DraftInv', [Next]_vars PROVE IInv'
      OBVIOUS
    <2>1. CASE PassOver
      BY <2>1, PassOverKeeps
    <2>2. CASE Replay
      BY <2>2, ReplayKeeps
    <2>3. CASE ParseAndEmitInc
      BY <2>3, ParseKeeps
    <2>4. CASE EmitDeps
      BY <2>4, EmitDepsKeeps
    <2>5. CASE Merge \/ WriteMergedDeps \/ MergeDone \/ CacheDone \/ EmitCppm
      BY <2>5, AfterLoopKeeps
    <2>6. CASE \E l \in Libs : DropCacheEntry(l)
      BY <2>6, DropCacheEntryKeeps
    <2>7. CASE WriteCacheEntry
      BY <2>7, WriteCacheEntryKeeps
    <2>8. CASE Return
      BY <2>8, ReturnKeeps
    <2>9. CASE (\E v \in Versions : EditHeaders(v)) \/ (\E l \in Libs : LoseOutput(l))
      BY <2>9, UsersKeep
    <2>10. CASE \E o \in RunOpts : Start(o)
      BY <2>10, StartKeeps
    <2>11. CASE ParseFails \/ Kill
      BY <2>11, BreakOffKeeps
    <2>12. CASE UNCHANGED vars
      <3>1. OnCourse'
        BY <2>12 DEF vars, IInv, OnCourse, Looping, Running, Reference, ReferenceRun, Current
      <3>2. FilesTrue' /\ LastTrue'
        BY <2>12
        DEF vars, IInv, FilesTrue, LastTrue, Looping, Running, ReferenceRun, Current, Passed
      <3>3. PayloadsTrue'
        BY <2>12 DEF vars, IInv, PayloadsTrue, Looping, Running, ReferenceRun, Passed
      <3>4. EntriesTrue'
        BY <2>12
        DEF vars, IInv, EntriesTrue, EntryTrue, Rewritten, Looping, Running, Current
      <3> QED
        BY <2>12, <3>1, <3>2, <3>3, <3>4 DEF IInv, vars, Running
    <2> QED
      BY <2>1, <2>2, <2>3, <2>4, <2>5, <2>6, <2>7, <2>8, <2>9, <2>10, <2>11, <2>12
      DEF Next, Generator, Users
  <1> QED
    BY <1>1, <1>2, DraftInvariance, PTL DEF Spec
-----------------------------------------------------------------------------
\* When runs leave the cache alone, or all of them use it, under sound keys, and
\* come to their end, a library is generated as a run from an empty disk would,
\* whatever ran, was edited or was lost before (the loop of main()).
THEOREM SnapshotsAreFullRun ==
  ASSUME Orderly
  PROVE  Spec => []SettledIsFullRun
  <1>1. IInv => SettledIsFullRun
    BY DEF IInv, LastTrue, SettledIsFullRun, Settled
  <1> QED
    BY <1>1, Inductive, PTL

\* Under the same conditions the claims are, at every place of the loop, those of
\* a full run, whatever mixture of hits and misses came before.
THEOREM ReplayIsExact ==
  ASSUME Orderly
  PROVE  Spec => []ReplayEqualsFullRun
  <1>1. IInv => ReplayEqualsFullRun
    BY DEF IInv, OnCourse, ReplayEqualsFullRun, Reference, Looping, Running
  <1> QED
    BY <1>1, Inductive, PTL

\* And a hit leaves a file in place that a full run would write the same
\* (_artifacts_ok looks only at whether it exists).
THEOREM HitsAreUpToDate ==
  ASSUME Orderly
  PROVE  Spec => []HitMeansUpToDate
  <1>1. IInv => HitMeansUpToDate
    BY UsableIsTrue DEF HitMeansUpToDate, ReferenceRun
  <1> QED
    BY <1>1, Inductive, PTL

\* What the records of a library hold is claimed from then on.
LEMMA ClaimsCover ==
  ASSUME NEW v \in Versions, NEW o \in RunOpts, ~o.full_closure,
         NEW i \in 1..Len(Survey[v].order), Survey[v].order[i] \in Work(o),
         NEW u \in FullRun(v, o).records[Survey[v].order[i]] \cap Usrs,
         NEW j \in i..Len(Survey[v].order)
  PROVE  FullAt[v][o][j].claimed[u] # None
  <1> DEFINE k == Len(Survey[v].order)
             D == {d \in Nat : i + d \in i..k => FullAt[v][o][i + d].claimed[u] # None}
  <1>0. k \in Nat
    BY Order
  <1>1. 0 \in D
    <2>1. FullAt[v][o][i].claimed
            = ClaimAll(FullAt[v][o][i - 1].claimed,
                       FullRun(v, o).records[Survey[v].order[i]], Survey[v].order[i])
      BY FullReplay
    <2>2. Survey[v].order[i] # None
      BY Order, OptionsAssumption
    <2>3. FullAt[v][o][i].claimed[u] # None
      BY <2>1, <2>2 DEF ClaimAll
    <2>4. i + 0 = i
      OBVIOUS
    <2> QED
      BY <2>3, <2>4
  <1>2. ASSUME NEW d \in D PROVE d + 1 \in D
    <2> DEFINE n == i + d + 1
    <2> SUFFICES ASSUME n \in i..k PROVE FullAt[v][o][n].claimed[u] # None
      OBVIOUS
    <2>1. n - 1 = i + d /\ n \in 1..k /\ n - 1 \in i..k /\ n \in 0..k /\ n # 0
      BY <1>0
    <2>2. FullAt[v][o][n - 1].claimed[u] # None
      BY <2>1
    <2> HIDE DEF D, n
    <2>3. CASE Survey[v].order[n] \notin Work(o)
      BY <2>1, <2>2, <2>3, FullPassStep DEF FullNext
    <2>4. CASE Survey[v].order[n] \in Work(o)
      <3>1. FullAt[v][o][n].claimed
              = ClaimAll(FullAt[v][o][n - 1].claimed,
                         FullRun(v, o).records[Survey[v].order[n]], Survey[v].order[n])
        BY <2>1, <2>4, FullReplay
      <3> QED
        BY <2>2, <3>1 DEF ClaimAll
    <2> QED
      BY <2>3, <2>4
  <1> HIDE DEF D
  <1>3. D = Nat
    <2>1. D \in SUBSET Nat
      BY DEF D
    <2> QED
      BY <1>1, <1>2, <2>1, SetInduction
  <1>4. j - i \in D /\ i + (j - i) = j
    BY <1>0, <1>3
  <1> QED
    BY <1>4 DEF D

\* Of two libraries of a full run the later leaves out what the earlier exports.
LEMMA LaterLeavesOut ==
  ASSUME OwnersFirst, NEW v \in Versions, NEW o \in RunOpts, ~o.full_closure,
         NEW i \in 1..Len(Survey[v].order), NEW j \in 1..Len(Survey[v].order), i < j,
         Survey[v].order[i] \in Work(o), Survey[v].order[j] \in Work(o), NEW h \in Headers,
         Decl(h) \in FullRun(v, o).inc[Survey[v].order[i]],
         Decl(h) \in FullRun(v, o).inc[Survey[v].order[j]]
  PROVE  FALSE
  <1> DEFINE l == Survey[v].order[i]
             m == Survey[v].order[j]
  <1>1. Decl(h) \in FullRun(v, o).records[l]
    BY FullPlace DEF Exported
  <1>2. Home(m, Decl(h)) = m \/ ClaimedAt(v, o, j)[Decl(h)] = None
    BY FullPlace DEF Exported
  <1>3. Decl(h) \in Usrs /\ Home(m, Decl(h)) = Owner[h]
    BY DEF Usrs, Decl, Home
  <1>4. ClaimedAt(v, o, j)[Decl(h)] # None
    <2>1. j - 1 \in i..Len(Survey[v].order)
      BY Order
    <2>2. FullAt[v][o][j - 1].claimed[Decl(h)] # None
      BY <1>1, <1>3, <2>1, ClaimsCover
    <2> QED
      BY <2>2 DEF ClaimedAt
  <1> QED
    BY <1>1, <1>2, <1>3, <1>4 DEF OwnersFirst

\* When, besides, no library sees entities of one that is processed after it, the
\* first to claim an entity is the only one to export it (claimed.setdefault).
THEOREM NoTwoExporters ==
  ASSUME Orderly, OwnersFirst
  PROVE  Spec => []ExportedOnce
  <1>1. IInv => ExportedOnce
    <2> SUFFICES ASSUME IInv, Settled, last.opts.libs = Libs, ~last.opts.full_closure,
                        NEW l \in Libs \ Special, NEW m \in Libs \ Special, l # m,
                        NEW h \in Headers, inc[l] # None, inc[m] # None,
                        Decl(h) \in inc[l], Decl(h) \in inc[m]
                 PROVE  FALSE
      BY DEF ExportedOnce
    <2>1. /\ last.opts \in RunOpts /\ rev \in Versions /\ last.rev = rev
          /\ l \in Work(last.opts) /\ m \in Work(last.opts)
      BY DEF IInv, DraftInv, Disk, Settled, Work
    <2>2. /\ inc[l] = FullRun(rev, last.opts).inc[l]
          /\ inc[m] = FullRun(rev, last.opts).inc[m]
      BY <2>1 DEF IInv, LastTrue, Settled
    <2>3. PICK i \in 1..Len(Survey[rev].order) : Survey[rev].order[i] = l
      BY <2>1, Order
    <2>4. PICK j \in 1..Len(Survey[rev].order) : Survey[rev].order[j] = m
      BY <2>1, Order
    <2>5. i < j \/ j < i
      BY <2>3, <2>4
    <2> QED
      BY <2>1, <2>2, <2>3, <2>4, <2>5, LaterLeavesOut
  <1> QED
    BY <1>1, Inductive, PTL

-----------------------------------------------------------------------------
(***************************************************************************)
(* The generator implements Regeneration: parsing is the only step that    *)
(* writes, and it writes what a full run would.                            *)
(***************************************************************************)
LEMMA Covers ==
  ASSUME NEW o \in RunOpts
  PROVE  /\ Covered[o] = Work(o) /\ Work(o) \subseteq Libs \ Special /\ o # None
         /\ \A v \in Versions : FullFiles[v][o] = FullRun(v, o).inc
  BY OptionsAssumption DEF Covered, Work, Options, FullFiles

\* A run shows nothing of its steps but the file it parses.
LEMMA HiddenStep ==
  ASSUME IInv, ~Running("idle"), ~Running("idle")', UNCHANGED <<rev, inc>>,
         run'.opts = run.opts
  PROVE  UNCHANGED Regen!vars
  BY DEF Regen!vars, Snapshots, CommandLine, Complete, Settled

LEMMA RunStepsHidden ==
  ASSUME IInv,
         \/ PassOver \/ Replay \/ EmitDeps \/ Merge \/ WriteMergedDeps \/ MergeDone
         \/ (\E l \in Libs : DropCacheEntry(l)) \/ WriteCacheEntry \/ CacheDone \/ EmitCppm
  PROVE  UNCHANGED Regen!vars
  <1> USE DEF Running
  <1>1. ~Running("idle")
    BY DEF PassOver, AtLoop, Replay, AtLibrary, EmitDeps, Merge, WriteMergedDeps,
           MergeDone, DropCacheEntry, WriteCacheEntry, CacheDone, EmitCppm
  <1>2. IsRun(run)
    BY <1>1 DEF IInv, DraftInv, Locals
  <1>3. UNCHANGED <<rev, inc>>
    BY DEF PassOver, Replay, EmitDeps, Merge, WriteMergedDeps,
           MergeDone, DropCacheEntry, WriteCacheEntry, CacheDone, EmitCppm
  <1>4. run'.opts = run.opts /\ run'.phase # "idle"
    <2>1. CASE PassOver \/ Replay
      BY <1>1, <1>2, <2>1 DEF PassOver, Replay, IsRun
    <2>2. CASE EmitDeps
      BY <1>2, <2>2 DEF EmitDeps, IsRun
    <2>3. CASE Merge \/ WriteMergedDeps \/ MergeDone
      BY <1>1, <1>2, <2>3 DEF Merge, WriteMergedDeps, MergeDone, IsRun
    <2>4. CASE (\E l \in Libs : DropCacheEntry(l)) \/ WriteCacheEntry
      BY <1>1, <1>2, <2>4 DEF DropCacheEntry, WriteCacheEntry, IsRun
    <2>5. CASE CacheDone \/ EmitCppm
      BY <1>1, <1>2, <2>5 DEF CacheDone, EmitCppm, IsRun
    <2> QED
      BY <2>1, <2>2, <2>3, <2>4, <2>5
  <1> QED
    BY <1>1, <1>3, <1>4, HiddenStep

LEMMA ParseWrites ==
  ASSUME IInv, IInv', ParseAndEmitInc
  PROVE  \E l \in Libs \ Special : Regen!Write(l)
  <1>0. PICK l : l = Current
    OBVIOUS
  <1>1. /\ Running("pass1") /\ run.next <= Len(run.order) /\ l \in Work(run.opts)
        /\ IsRun(run) /\ run.opts \in RunOpts /\ run.start = rev /\ rev \in Versions
        /\ inc = [k \in Libs |-> inc[k]]
    BY <1>0, Order
    DEF ParseAndEmitInc, AtLibrary, AtLoop, LoopDone, IInv, DraftInv, Disk, Locals, Running
  <1>2. run'.phase = "parsed" /\ run'.opts = run.opts /\ run'.start = run.start
        /\ run'.order = run.order /\ run'.next = run.next /\ rev' = rev
    BY <1>1 DEF IsRun, ParseAndEmitInc
  <1>3. l \in Libs \ Special /\ l \in Covered[run.opts] /\ run.opts # None
    BY <1>1, Covers
  <1>4. PICK x : inc' = [inc EXCEPT ![l] = x]
    BY <1>0 DEF ParseAndEmitInc
  <1>5. inc'[l] = FullFiles[rev][run.opts][l]
    <2>1. Current' = l
      BY <1>0, <1>2 DEF Current
    <2>2. inc'[l] = FullRun(run'.start, run'.opts).inc[l]
      BY <1>1, <1>2, <2>1 DEF IInv, FilesTrue, ReferenceRun, Looping, Running
    <2> QED
      BY <1>1, <1>2, <2>2, Covers
  <1>6. Snapshots' = [Snapshots EXCEPT ![l] = FullFiles[rev][run.opts][l]]
    BY <1>1, <1>3, <1>4, <1>5 DEF Snapshots
  <1>7. CommandLine = run.opts /\ CommandLine' = run.opts /\ Complete = FALSE /\ Complete' = FALSE
    BY <1>1, <1>2 DEF CommandLine, Complete, Settled, Running
  <1>8. Regen!Write(l)
    BY <1>2, <1>3, <1>6, <1>7 DEF Regen!Write
  <1> QED
    BY <1>3, <1>8

\* Files that are all there, after a run that ended well on revision v, are up to
\* date for v.
LEMMA CompleteIsUpToDate ==
  ASSUME IInv, Running("idle"), last # None, last.outcome = "ok",
         \A l \in Covered[last.opts] : inc[l] # None
  PROVE  Regen!UpToDate(last.rev)
  <1>1. last.opts \in RunOpts /\ last.rev \in Versions /\ CommandLine = last.opts
    BY DEF IInv, DraftInv, Disk, CommandLine
  <1>2. \A l \in Work(last.opts) : inc[l] = FullRun(last.rev, last.opts).inc[l]
    BY <1>1, Covers DEF IInv, LastTrue
  <1>3. \A l \in Work(last.opts) : Snapshots[l] = inc[l]
    BY <1>1, Covers DEF Snapshots
  <1> QED
    BY <1>1, <1>2, <1>3, Covers DEF Regen!UpToDate

LEMMA ReturnSettles ==
  ASSUME IInv, IInv', Return
  PROVE  Regen!Settle \/ UNCHANGED Regen!vars
  <1>1. /\ Running("emit") /\ UNCHANGED <<rev, inc, deps, cppm, skip>>
        /\ run'.phase = "idle" /\ run.start = rev /\ run.opts \in RunOpts
        /\ last' = [outcome |-> "ok", rev |-> run.start, opts |-> run.opts]
    BY DEF Return, End, Idle, IInv, DraftInv, Locals, Running
  <1>2. Complete = FALSE /\ CommandLine = run.opts
    BY <1>1 DEF Complete, Settled, CommandLine, Running
  <1>3. \A l \in Work(run.opts) : inc[l] = FullRun(rev, run.opts).inc[l]
    BY <1>1 DEF IInv, FilesTrue, ReferenceRun, Looping, Running
  <1>4. UNCHANGED Snapshots
    BY <1>1 DEF Snapshots
  <1>5. CASE Complete'
    <2>1. last' # None
      BY <1>5 DEF Complete, Settled
    <2>2. CommandLine' = run.opts /\ Complete' = TRUE
      BY <1>1, <1>5, <2>1 DEF CommandLine, Running, Complete
    <2>3. \A l \in Work(run.opts) : Snapshots[l] = FullFiles[rev][run.opts][l]
      BY <1>1, <1>3, Covers DEF Snapshots, IInv, DraftInv, Disk
    <2>4. Regen!UpToDate(rev)
      BY <1>1, <1>2, <2>3, Covers DEF Regen!UpToDate
    <2> QED
      BY <1>1, <1>2, <1>4, <2>2, <2>4 DEF Regen!Settle
  <1>6. CASE ~Complete'
    <2>1. Complete' = FALSE
      BY <1>6 DEF Complete
    <2>2. CommandLine' = run.opts
      BY <1>1, OptionsAssumption DEF CommandLine, Running, Endings, IInv, DraftInv, Locals
    <2> QED
      BY <1>1, <1>2, <1>4, <2>1, <2>2 DEF Regen!vars
  <1> QED
    BY <1>5, <1>6

LEMMA EditIsEdit ==
  ASSUME Orderly, IInv, IInv', NEW v \in Versions, EditHeaders(v)
  PROVE  Regen!Edit(v)
  <1>1. Running("idle") /\ rev' = v /\ UNCHANGED <<inc, run, last>>
    BY DEF EditHeaders, Orderly
  <1>2. UNCHANGED <<Snapshots, CommandLine>>
    BY <1>1 DEF Snapshots, CommandLine, Running
  <1>3. Complete' \in {FALSE, Regen!UpToDate(v)}
    <2>1. CASE Complete'
      <3>1. /\ last # None /\ last.outcome = "ok" /\ last.rev = v
            /\ \A l \in Covered[last.opts] : inc[l] # None
        BY <1>1, <2>1 DEF Complete, Settled
      <3>2. Regen!UpToDate(v)
        BY <1>1, <3>1, CompleteIsUpToDate
      <3>3. Complete' = TRUE /\ Regen!UpToDate(v) = TRUE
        BY <2>1, <3>2 DEF Complete, Regen!UpToDate
      <3> QED
        BY <3>3
    <2>2. CASE ~Complete'
      BY <2>2 DEF Complete
    <2> QED
      BY <2>1, <2>2
  <1> QED
    BY <1>1, <1>2, <1>3 DEF Regen!Edit

LEMMA LossIsLoss ==
  ASSUME IInv, IInv', NEW l \in Libs, LoseOutput(l)
  PROVE  \/ UNCHANGED Regen!vars
         \/ l \in Libs \ Special /\ Regen!Lose(l)
  <1>1. /\ Running("idle") /\ UNCHANGED <<rev, run, last>>
        /\ inc' = [inc EXCEPT ![l] = None] /\ inc = [k \in Libs |-> inc[k]]
    BY DEF LoseOutput, IInv, DraftInv, Disk
  <1>2. UNCHANGED CommandLine
    BY <1>1 DEF CommandLine, Running
  <1>3. last # None => Covered[last.opts] \subseteq Libs \ Special
    BY Covers DEF IInv, DraftInv, Disk
  <1>4. CASE l \in Special
    <2>1. \A k \in Libs \ Special : inc'[k] = inc[k]
      BY <1>1, <1>4
    <2>2. UNCHANGED Snapshots
      BY <2>1 DEF Snapshots
    <2>3. Complete' = Complete
      BY <1>1, <1>3, <2>1 DEF Complete, Settled, Running
    <2> QED
      BY <1>1, <1>2, <1>4, <2>2, <2>3 DEF Regen!vars
  <1>5. CASE l \notin Special
    <2>1. Snapshots' = [Snapshots EXCEPT ![l] = None]
      BY <1>1, <1>5 DEF Snapshots
    <2>2. Complete' => Complete
      <3>1. \A k \in Libs : inc'[k] # None => inc[k] # None
        BY <1>1
      <3> QED
        BY <1>1, <1>3, <3>1 DEF Complete, Settled, Running
    <2>3. Complete' \in {FALSE, Complete}
      BY <2>2 DEF Complete
    <2> QED
      BY <1>1, <1>2, <1>5, <2>1, <2>3 DEF Regen!Lose
  <1> QED
    BY <1>4, <1>5

LEMMA StartBegins ==
  ASSUME IInv, IInv', NEW o \in RunOpts, Start(o)
  PROVE  Regen!Begin(o)
  <1>1. run'.phase = "pass1" /\ run'.opts = o /\ UNCHANGED <<rev, inc>>
    BY DEF Start
  <1>2. Complete' = FALSE /\ CommandLine' = o /\ UNCHANGED Snapshots
    BY <1>1 DEF Complete, Settled, CommandLine, Snapshots, Running
  <1> QED
    BY <1>1, <1>2 DEF Regen!Begin

LEMMA BreakOffHidden ==
  ASSUME IInv, IInv', ParseFails \/ Kill
  PROVE  UNCHANGED Regen!vars
  <1>1. /\ ~Running("idle") /\ UNCHANGED <<rev, inc>> /\ run'.phase = "idle"
        /\ last'.outcome # "ok" /\ last'.opts = run.opts /\ last' \in Endings
    BY DEF ParseFails, AtLibrary, AtLoop, Kill, Running, End, Idle, Endings,
           IInv, DraftInv, Locals
  <1>2. Complete = FALSE /\ Complete' = FALSE /\ UNCHANGED Snapshots
    BY <1>1 DEF Complete, Settled, Snapshots, Running
  <1>3. UNCHANGED CommandLine
    BY <1>1, OptionsAssumption DEF CommandLine, Running
  <1> QED
    BY <1>1, <1>2, <1>3 DEF Regen!vars

\* The generator with its cache does what Regeneration promises: a file is only
\* ever written with what a full run would write, and counts as settled only when
\* every file the run covers is such (main() of gen_exports.py as a whole).
THEOREM Implements ==
  ASSUME Orderly
  PROVE  Spec => ImplementsRegeneration
  <1>1. Init => Regen!Init
    BY DEF Init, Regen!Init, Snapshots, CommandLine, Complete, Settled, Running, Idle
  <1>2. IInv /\ IInv' /\ [Next]_vars => [Regen!Next]_Regen!vars
    <2> SUFFICES ASSUME IInv, IInv', [Next]_vars PROVE Regen!Next \/ UNCHANGED Regen!vars
      OBVIOUS
    <2>1. CASE ParseAndEmitInc
      BY <2>1, ParseWrites DEF Regen!Next
    <2>2. CASE Return
      BY <2>2, ReturnSettles DEF Regen!Next
    <2>3. CASE \E v \in Versions : EditHeaders(v)
      BY <2>3, EditIsEdit DEF Regen!Next
    <2>4. CASE \E l \in Libs : LoseOutput(l)
      BY <2>4, LossIsLoss DEF Regen!Next
    <2>5. CASE \E o \in RunOpts : Start(o)
      BY <2>5, StartBegins DEF Regen!Next
    <2>6. CASE ParseFails \/ Kill
      BY <2>6, BreakOffHidden
    <2>7. CASE UNCHANGED vars
      BY <2>7 DEF vars, Regen!vars, Snapshots, CommandLine, Complete, Settled, Running
    <2> QED
      BY <2>1, <2>2, <2>3, <2>4, <2>5, <2>6, <2>7, RunStepsHidden
      DEF Next, Generator, Users
  <1> QED
    BY <1>1, <1>2, Inductive, PTL DEF Spec, ImplementsRegeneration, Regen!Spec

-----------------------------------------------------------------------------
(***************************************************************************)
(* What the walks of BoostTree visit, for every text of the headers.       *)
(***************************************************************************)
LeadsInto(next, T) == \A h \in T : next[h] \subseteq T

\* What every set holds that has the seeds and is left by no step of the walk.
Visited(next, S) ==
  {x \in Headers : \A T \in SUBSET Headers : S \subseteq T /\ LeadsInto(next, T) => x \in T}

\* A set that loses members, and only that, has fewer.
LEMMA FewerMembers ==
  ASSUME NEW S, IsFiniteSet(S), NEW T \in SUBSET S, T # S
  PROVE  Cardinality(T) \in Nat /\ Cardinality(S) \in Nat /\ Cardinality(T) < Cardinality(S)
  BY FS_Subset, FS_CardinalityType

\* The worklist ends with the smallest such set, in whatever order it is taken
\* (Closure: the walks of gfm_headers_of, dep_graph, closure_from and the gate).
LEMMA ClosureIsVisited ==
  ASSUME NEW next \in [Headers -> SUBSET Headers], NEW seeds \in SUBSET Headers
  PROVE  /\ Closure(next, seeds) = Visited(next, seeds)
         /\ Closure(next, seeds) \in SUBSET Headers
         /\ seeds \subseteq Closure(next, seeds)
         /\ LeadsInto(next, Closure(next, seeds))
  <1> DEFINE Step(S) == S \cup UNION {next[h] : h \in S}
             Is(f) == f = [S \in SUBSET Headers |->
                             LET T == S \cup UNION {next[h] : h \in S}
                             IN  IF T = S THEN S ELSE f[T]]
             grow == CHOOSE f : Is(f)
             v == [S \in SUBSET Headers |-> Visited(next, S)]
  <1>1. ASSUME NEW S \in SUBSET Headers
        PROVE  /\ Step(S) \in SUBSET Headers /\ S \subseteq Step(S)
               /\ Step(S) = S => Visited(next, S) = S
               /\ Visited(next, Step(S)) = Visited(next, S)
               /\ S \subseteq Visited(next, S)
               /\ LeadsInto(next, Visited(next, S))
    <2>1. Step(S) \in SUBSET Headers /\ S \subseteq Step(S)
      OBVIOUS
    <2>2. ASSUME NEW T \in SUBSET Headers, LeadsInto(next, T)
          PROVE  S \subseteq T <=> Step(S) \subseteq T
      BY <2>2 DEF LeadsInto
    <2>3. Step(S) = S => LeadsInto(next, S)
      BY DEF LeadsInto
    <2> HIDE DEF Step
    <2>4. Step(S) = S => Visited(next, S) = S
      BY <2>3 DEF Visited
    <2>5. Visited(next, Step(S)) = Visited(next, S)
      BY <2>1, <2>2 DEF Visited
    <2>6. LeadsInto(next, Visited(next, S))
      BY DEF LeadsInto, Visited
    <2> QED
      BY <2>1, <2>4, <2>5, <2>6 DEF Visited
  <1>2. Is(v)
    <2> HIDE DEF Step, Visited
    <2>1. ASSUME NEW S \in SUBSET Headers
          PROVE  v[S] = LET T == S \cup UNION {next[h] : h \in S}
                        IN  IF T = S THEN S ELSE v[T]
      BY <1>1 DEF Step
    <2>2. v = [S \in SUBSET Headers |-> v[S]]
      OBVIOUS
    <2> HIDE DEF v
    <2> QED
      BY <2>1, <2>2
  <1>3. Is(grow)
    <2> HIDE DEF Is, v
    <2> QED
      BY <1>2
  <1>4. Closure(next, seeds) = grow[seeds]
    BY DEF Closure
  <1> HIDE DEF grow, v
  <1>5. \A S \in SUBSET Headers : grow[S] = IF Step(S) = S THEN S ELSE grow[Step(S)]
    BY <1>3
  <1> HIDE DEF Is, Step
  <1> DEFINE D == {n \in Nat : \A S \in SUBSET Headers :
                     Cardinality(Headers \ S) <= n => grow[S] = Visited(next, S)}
             Left(S) == Cardinality(Headers \ S)
  <1>6. \A S \in SUBSET Headers :
          Left(S) \in Nat /\ (Step(S) # S => Left(Step(S)) < Left(S))
    <2> SUFFICES ASSUME NEW S \in SUBSET Headers
                 PROVE  Left(S) \in Nat /\ (Step(S) # S => Left(Step(S)) < Left(S))
      OBVIOUS
    <2>1. IsFiniteSet(Headers \ S)
      BY FS_Subset, HeadersAssumption
    <2>2. Left(S) \in Nat
      BY <2>1, FS_CardinalityType
    <2>3. Headers \ Step(S) \in SUBSET (Headers \ S)
          /\ (Step(S) # S => Headers \ Step(S) # Headers \ S)
      BY <1>1
    <2> QED
      BY <2>1, <2>2, <2>3, FewerMembers
  <1> HIDE DEF Left
  <1>7. 0 \in D
    <2> SUFFICES ASSUME NEW S \in SUBSET Headers, Left(S) <= 0
                 PROVE  grow[S] = Visited(next, S)
      BY DEF Left
    <2>1. Step(S) = S
      BY <1>1, <1>6
    <2> QED
      BY <1>1, <1>5, <2>1
  <1>8. ASSUME NEW n \in D PROVE n + 1 \in D
    <2>0. n \in Nat /\ n + 1 \in Nat
      OBVIOUS
    <2> SUFFICES ASSUME NEW S \in SUBSET Headers, Left(S) <= n + 1
                 PROVE  grow[S] = Visited(next, S)
      BY <2>0 DEF Left
    <2>1. CASE Step(S) = S
      BY <1>1, <1>5, <2>1
    <2>2. CASE Step(S) # S
      <3>1. Left(Step(S)) <= n
        BY <1>1, <1>6, <2>0, <2>2
      <3>2. grow[Step(S)] = Visited(next, Step(S))
        BY <1>1, <3>1 DEF Left
      <3> QED
        BY <1>1, <1>5, <2>2, <3>2
    <2> QED
      BY <2>1, <2>2
  <1> HIDE DEF D
  <1>9. D = Nat
    <2>1. D \in SUBSET Nat
      BY DEF D
    <2> QED
      BY <1>7, <1>8, <2>1, SetInduction
  <1>10. grow[seeds] = Visited(next, seeds)
    <2>1. Left(seeds) \in D /\ Left(seeds) <= Left(seeds)
      BY <1>6, <1>9
    <2> QED
      BY <2>1 DEF D, Left
  <1>11. Visited(next, seeds) \in SUBSET Headers
    BY DEF Visited
  <1> QED
    BY <1>1, <1>4, <1>10, <1>11

\* The include list of a library is taken from its public headers.
LEMMA IncludeList ==
  ASSUME NEW g \in Versions, NEW l \in Libs
  PROVE  GfmHeadersOf(g, l) \in SUBSET Public[l]
  <1> DEFINE P == Public[l]
             missing(c) == P \ PublicReach(g, l, c)
             sources(c) == SourcesOf(g, missing(c))
             Next_(c) == c \cup IF sources(c) # {} THEN sources(c) ELSE {Min(missing(c))}
             Is(f) == f = [c \in SUBSET P |->
                             LET miss == P \ PublicReach(g, l, c)
                                 src  == SourcesOf(g, miss)
                             IN  IF miss = {} THEN c
                                 ELSE f[c \cup IF src # {} THEN src ELSE {Min(miss)}]]
             extend == CHOOSE f : Is(f)
  <1>1. P \in SUBSET Headers /\ IsFiniteSet(P) /\ P \in SUBSET Nat
    BY HeadersAssumption, FS_Subset
  <1>2. ASSUME NEW c \in SUBSET P
        PROVE  /\ c \cap missing(c) = {}
               /\ missing(c) # {} => Next_(c) \in SUBSET P /\ c # Next_(c) /\ c \subseteq Next_(c)
    <2> DEFINE next == [h \in Headers |-> Tree[g][h].inc \cap Public[l]]
    <2>1. next \in [Headers -> SUBSET Headers]
      BY <1>1
    <2>2. c \subseteq PublicReach(g, l, c)
      BY <1>1, <2>1, ClosureIsVisited DEF PublicReach
    <2>3. missing(c) # {} => Min(missing(c)) \in missing(c)
      BY <1>1, MinMember
    <2>4. sources(c) \subseteq missing(c)
      BY DEF SourcesOf
    <2> HIDE DEF missing, sources, P
    <2>5. missing(c) \subseteq P
      BY DEF missing
    <2>6. c \cap missing(c) = {}
      BY <2>2 DEF missing
    <2> QED
      BY <2>3, <2>4, <2>5, <2>6
  <1> DEFINE Left(c) == Cardinality(P \ c)
             Rest(c, f) == IF missing(c) = {} THEN c ELSE f[Next_(c)]
             D == {n \in Nat : \E f \in [SUBSET P -> SUBSET P] :
                     \A c \in SUBSET P : Left(c) <= n => f[c] = Rest(c, f)}
  <1>3. ASSUME NEW c \in SUBSET P
        PROVE  /\ Left(c) \in Nat
               /\ missing(c) # {} => Left(Next_(c)) \in Nat /\ Left(Next_(c)) < Left(c)
    <2>1. IsFiniteSet(P \ c)
      BY <1>1, FS_Subset
    <2> HIDE DEF P, missing, Next_
    <2>2. missing(c) # {} => P \ Next_(c) \in SUBSET (P \ c) /\ P \ Next_(c) # P \ c
      BY <1>2
    <2> QED
      BY <2>1, <2>2, FewerMembers, FS_CardinalityType
  <1> HIDE DEF P, missing, Next_, Left
  <1>4. 0 \in D
    <2> DEFINE id == [c \in SUBSET P |-> c]
    <2>1. id \in [SUBSET P -> SUBSET P]
      OBVIOUS
    <2>2. \A c \in SUBSET P : Left(c) <= 0 => missing(c) = {}
      BY <1>3
    <2> QED
      BY <2>1, <2>2
  <1>5. ASSUME NEW n \in D PROVE n + 1 \in D
    <2>1. n \in Nat /\ n + 1 \in Nat
      OBVIOUS
    <2>2. PICK f \in [SUBSET P -> SUBSET P] :
            \A c \in SUBSET P : Left(c) <= n => f[c] = Rest(c, f)
      OBVIOUS
    <2> DEFINE h == [c \in SUBSET P |-> IF Left(c) <= n THEN f[c] ELSE Rest(c, f)]
    <2> HIDE DEF D
    <2>3. ASSUME NEW c \in SUBSET P PROVE Rest(c, f) \in SUBSET P
      BY <1>2
    <2>4. h \in [SUBSET P -> SUBSET P]
      <3> HIDE DEF Rest
      <3> QED
        BY <2>3
    <2>5. ASSUME NEW c \in SUBSET P, Left(c) <= n + 1
          PROVE  h[c] = Rest(c, h)
      <3>1. h[c] = Rest(c, f)
        BY <2>2
      <3>2. missing(c) # {} => h[Next_(c)] = f[Next_(c)]
        <4> SUFFICES ASSUME missing(c) # {} PROVE h[Next_(c)] = f[Next_(c)]
          OBVIOUS
        <4>1. Next_(c) \in SUBSET P /\ Left(Next_(c)) <= n
          BY <1>2, <1>3, <2>1, <2>5
        <4> QED
          BY <4>1
      <3> HIDE DEF h
      <3> QED
        BY <3>1, <3>2
    <2> HIDE DEF h
    <2>6. \E x \in [SUBSET P -> SUBSET P] :
            \A c \in SUBSET P : Left(c) <= n + 1 => x[c] = Rest(c, x)
      BY <2>4, <2>5
    <2> QED
      BY <2>1, <2>6 DEF D
  <1> HIDE DEF D
  <1>6. D = Nat
    <2>1. D \in SUBSET Nat
      BY DEF D
    <2> QED
      BY <1>4, <1>5, <2>1, SetInduction
  <1>7. PICK f \in [SUBSET P -> SUBSET P] : \A c \in SUBSET P : f[c] = Rest(c, f)
    <2>1. Cardinality(P) \in Nat
      BY <1>1, FS_CardinalityType
    <2>2. \A c \in SUBSET P : Left(c) <= Cardinality(P)
      BY <1>1, FS_Subset DEF Left
    <2>3. Cardinality(P) \in D
      BY <1>6, <2>1
    <2> QED
      BY <2>2, <2>3 DEF D
  <1>8. Is(f)
    <2>1. ASSUME NEW c \in SUBSET P
          PROVE  f[c] = LET miss == P \ PublicReach(g, l, c)
                            src  == SourcesOf(g, miss)
                        IN  IF miss = {} THEN c
                            ELSE f[c \cup IF src # {} THEN src ELSE {Min(miss)}]
      BY <1>7 DEF Next_, missing
    <2> QED
      BY <2>1
  <1>9. Is(extend)
    <2> HIDE DEF Is
    <2> QED
      BY <1>8
  <1> HIDE DEF extend
  <1>10. \A c \in SUBSET P : extend[c] = Rest(c, extend)
    BY <1>9 DEF Next_, missing
  <1> HIDE DEF Is
  <1> DEFINE E == {n \in Nat : \A c \in SUBSET P : Left(c) <= n => extend[c] \in SUBSET P}
  <1>11. 0 \in E
    BY <1>3, <1>10
  <1>12. ASSUME NEW n \in E PROVE n + 1 \in E
    <2>1. n \in Nat /\ n + 1 \in Nat
      OBVIOUS
    <2> SUFFICES ASSUME NEW c \in SUBSET P, Left(c) <= n + 1 PROVE extend[c] \in SUBSET P
      BY <2>1
    <2>2. CASE missing(c) = {}
      BY <1>10, <2>2
    <2>3. CASE missing(c) # {}
      <3>1. Next_(c) \in SUBSET P /\ Left(Next_(c)) <= n
        BY <1>2, <1>3, <2>1, <2>3
      <3>2. extend[Next_(c)] \in SUBSET P
        BY <3>1
      <3> QED
        BY <1>10, <2>3, <3>2
    <2> QED
      BY <2>2, <2>3
  <1> HIDE DEF E
  <1>13. E = Nat
    <2>1. E \in SUBSET Nat
      BY DEF E
    <2> QED
      BY <1>11, <1>12, <2>1, SetInduction
  <1>14. \A c \in SUBSET P : extend[c] \in SUBSET P
    BY <1>3, <1>13 DEF E
  <1>15. SourcesOf(g, P) \in SUBSET P
    BY DEF SourcesOf
  <1>16. GfmHeadersOf(g, l) = IF SourcesOf(g, P) = {} THEN P ELSE extend[SourcesOf(g, P)]
    BY DEF GfmHeadersOf, extend, P, Is
  <1> QED
    BY <1>14, <1>15, <1>16 DEF P

-----------------------------------------------------------------------------
(***************************************************************************)
(* Pass 2 on the whole: merge_body_edges takes every candidate of every    *)
(* library once.                                                           *)
(***************************************************************************)
\* A finite set of naturals that is not empty has a largest member.
LEMMA MaxMember ==
  ASSUME NEW S \in SUBSET Nat, IsFiniteSet(S), S # {}
  PROVE  /\ Max(S) \in S
         /\ \A x \in S : x <= Max(S)
  <1>1. PICK k \in Nat : ExistsSurjection(1..k, S)
    BY FS_NatSurjection
  <1>2. PICK f \in [1..k -> S] : \A x \in S : \E i \in 1..k : f[i] = x
    BY <1>1 DEF ExistsSurjection, Surjection
  <1> DEFINE Bounded == {m \in Nat : \E b \in Nat : \A i \in 1..k : i <= m => f[i] <= b}
  <1>3. 0 \in Bounded
    OBVIOUS
  <1>4. ASSUME NEW m \in Bounded PROVE m + 1 \in Bounded
    <2>1. PICK b \in Nat : \A i \in 1..k : i <= m => f[i] <= b
      OBVIOUS
    <2> SUFFICES \E c \in Nat : \A i \in 1..k : i <= m + 1 => f[i] <= c
      OBVIOUS
    <2>2. CASE m + 1 \in 1..k
      <3>1. f[m + 1] \in Nat
        BY <2>2
      <3>2. \A i \in 1..k : i <= m + 1 => f[i] <= b + f[m + 1]
        <4> SUFFICES ASSUME NEW i \in 1..k, i <= m + 1 PROVE f[i] <= b + f[m + 1]
          OBVIOUS
        <4>0. m \in Nat /\ i \in Nat /\ f[i] \in S
          OBVIOUS
        <4>1. i <= m \/ i = m + 1
          BY <4>0
        <4>2. f[i] \in Nat
          BY <4>0
        <4> QED
          BY <2>1, <3>1, <4>1, <4>2
      <3>3. b + f[m + 1] \in Nat
        BY <3>1
      <3> QED
        BY <3>2, <3>3
    <2>3. CASE m + 1 \notin 1..k
      <3>0. m \in Nat /\ \A i \in 1..k : i <= m + 1 => i <= m
        BY <2>3
      <3>1. \A i \in 1..k : i <= m + 1 => f[i] <= b
        BY <2>1, <3>0
      <3> QED
        BY <3>1
    <2> QED
      BY <2>2, <2>3
  <1>5. k \in Bounded
    <2> HIDE DEF Bounded
    <2>1. Bounded \in SUBSET Nat
      BY DEF Bounded
    <2> QED
      BY <1>3, <1>4, <2>1, SetInduction
  <1>6. PICK b \in Nat : \A i \in 1..k : f[i] <= b
    BY <1>5
  <1> DEFINE above == {c \in Nat : \A x \in S : x <= c}
  <1>7. b \in above
    BY <1>2, <1>6
  <1>8. PICK c \in above : \A d \in above : ~(d < c)
    <2>1. PICK c \in above : \A d \in above : ~(<<d, c>> \in OpToRel(<, Nat))
      BY <1>7, NatLessThanWellFounded, WFMin
    <2> QED
      BY <2>1 DEF OpToRel
  <1>9. c \in S
    <2> SUFFICES ASSUME c \notin S PROVE FALSE
      OBVIOUS
    <2>1. PICK x \in S : TRUE
      OBVIOUS
    <2>2. c \in Nat /\ \A y \in S : y < c
      OBVIOUS
    <2>3. c - 1 \in above /\ c - 1 < c
      BY <2>1, <2>2
    <2> QED
      BY <1>8, <2>3
  <1>10. c \in S /\ \A x \in S : c >= x
    BY <1>9
  <1> HIDE DEF above
  <1>11. Max(S) \in S /\ \A x \in S : Max(S) >= x
    BY <1>10, Zenon DEF Max
  <1> QED
    BY <1>11

ImportGraphs == [Libs -> SUBSET Libs]

\* A graph made step by step exists, and the steps say what it is.
LEMMA Stepwise ==
  ASSUME NEW base \in ImportGraphs, NEW k \in Nat, NEW step \in [1..k -> [ImportGraphs -> ImportGraphs]]
  PROVE  \E f \in [0..k -> ImportGraphs] :
           \A n \in 0..k : f[n] = IF n = 0 THEN base ELSE step[n][f[n - 1]]
  <1> DEFINE Is(m, f) == \A n \in 0..m : f[n] = IF n = 0 THEN base ELSE step[n][f[n - 1]]
             D == {m \in Nat : m <= k => \E f \in [0..m -> ImportGraphs] : Is(m, f)}
  <1>1. 0 \in D
    <2> DEFINE g == [n \in 0..0 |-> base]
    <2>1. g \in [0..0 -> ImportGraphs] /\ Is(0, g)
      OBVIOUS
    <2> QED
      BY <2>1
  <1>2. ASSUME NEW m \in D PROVE m + 1 \in D
    <2>0. m \in Nat /\ m + 1 \in Nat
      OBVIOUS
    <2> SUFFICES ASSUME m + 1 <= k PROVE \E f \in [0..(m + 1) -> ImportGraphs] : Is(m + 1, f)
      <3> HIDE DEF Is
      <3> QED
        BY <2>0
    <2>1. PICK h \in [0..m -> ImportGraphs] : Is(m, h)
      OBVIOUS
    <2> DEFINE g == [n \in 0..(m + 1) |-> IF n = m + 1 THEN step[n][h[m]] ELSE h[n]]
    <2>2. \A n \in 0..m : g[n] = h[n]
      OBVIOUS
    <2>3. g[m + 1] = step[m + 1][h[m]] /\ step[m + 1][h[m]] \in ImportGraphs
      OBVIOUS
    <2>4. g \in [0..(m + 1) -> ImportGraphs]
      BY <2>3
    <2>5. ASSUME NEW n \in 0..(m + 1)
          PROVE  g[n] = IF n = 0 THEN base ELSE step[n][g[n - 1]]
      <3>1. CASE n = m + 1
        <4>1. n # 0 /\ n - 1 = m /\ m \in 0..m
          BY <3>1
        <4> HIDE DEF g
        <4> QED
          BY <2>2, <2>3, <3>1, <4>1
      <3>2. CASE n # m + 1
        <4>1. n \in 0..m /\ (n # 0 => n - 1 \in 0..m)
          BY <3>2
        <4>2. h[n] = IF n = 0 THEN base ELSE step[n][h[n - 1]]
          BY <4>1, <2>1
        <4> HIDE DEF g, Is
        <4> QED
          BY <2>2, <4>1, <4>2
      <3> QED
        BY <3>1, <3>2
    <2> HIDE DEF g
    <2>6. Is(m + 1, g)
      BY <2>4, <2>5
    <2> QED
      BY <2>4, <2>6
  <1> HIDE DEF D
  <1>3. D = Nat
    <2>1. D \in SUBSET Nat
      BY DEF D
    <2> QED
      BY <1>1, <1>2, <2>1, SetInduction
  <1>4. k \in D /\ k <= k
    BY <1>3
  <1> QED
    BY <1>4 DEF D

\* h completes g: it has the imports of g, and a circle only if g had one.
Completes(h, g) ==
  /\ h \in ImportGraphs
  /\ \A l \in Libs : g[l] \subseteq h[l]
  /\ Files!Acyclic(g) => Files!Acyclic(h)

\* An edge from lib to home is there in effect, or would close a circle.
Linked(g, lib, home) ==
  lib = home \/ Files!Reachable(g, lib, home) \/ Files!Reachable(g, home, lib)

\* More imports reach no less.
LEMMA LinksStay ==
  ASSUME NEW g \in ImportGraphs, NEW h \in ImportGraphs, \A l \in Libs : g[l] \subseteq h[l],
         NEW a \in Libs, NEW b \in Libs
  PROVE  /\ Files!Reachable(g, a, b) => Files!Reachable(h, a, b)
         /\ Linked(g, a, b) => Linked(h, a, b)
  <1>1. \A S \in SUBSET Libs : Files!Closed(h, S) => Files!Closed(g, S)
    BY DEF Files!Closed, ImportGraphs
  <1>2. \A x, y \in Libs : Files!Reachable(g, x, y) => Files!Reachable(h, x, y)
    BY <1>1 DEF Files!Reachable
  <1> QED
    BY <1>2 DEF Linked

\* Taking imports away closes no circle.
LEMMA FewerImports ==
  ASSUME NEW g \in ImportGraphs, NEW h \in ImportGraphs, \A l \in Libs : g[l] \subseteq h[l],
         Files!Acyclic(h)
  PROVE  Files!Acyclic(g)
  <1> SUFFICES ASSUME NEW l \in Libs, NEW m \in g[l], Files!Reachable(g, m, l)
               PROVE  FALSE
    BY DEF Files!Acyclic
  <1>1. m \in Libs /\ m \in h[l]
    BY DEF ImportGraphs
  <1>2. Files!Reachable(h, m, l)
    BY <1>1, LinksStay
  <1> QED
    BY <1>1, <1>2 DEF Files!Acyclic

\* Completing twice is completing.
LEMMA CompletionsCompose ==
  ASSUME NEW g, NEW h, NEW k, Completes(h, g), Completes(k, h)
  PROVE  Completes(k, g)
  BY DEF Completes

\* What MergeBodyEdges proves of one candidate.
Merging ==
  INSTANCE MergeBodyEdgesProofs WITH
    CandidateLists <- {}, found <- DepsGraph, disk <- DepsGraph, graph <- run.graph,
    todo <- << >>, decided <- {}, added <- << >>

\* Taking one candidate completes the graph and links its two libraries.
LEMMA CandidateTaken ==
  ASSUME NEW g \in ImportGraphs, NEW lib \in Libs, NEW home \in Libs
  PROVE  /\ Completes(Considered[g][lib][home], g)
         /\ Linked(Considered[g][lib][home], lib, home)
  <1> DEFINE h == Files!Consider(g, lib, home)
  <1>1. Considered[g][lib][home] = h
    BY DEF Considered, ImportGraphs
  <1>2. h = Merging!Consider(g, lib, home)
    BY DEF Files!Consider, Files!Wanted, Files!AddEdge, Files!Reachable, Files!Closed,
           Merging!Consider, Merging!Wanted, Merging!AddEdge, Merging!Reachable,
           Merging!Closed
  <1>3. g \in Merging!Graphs
    BY DEF Merging!Graphs, ImportGraphs
  <1>4. /\ h \in Merging!Graphs
        /\ \A l \in Libs : g[l] \subseteq h[l]
        /\ lib = home \/ Merging!Reachable(h, lib, home) \/ Merging!Reachable(h, home, lib)
    BY <1>2, <1>3, Merging!ConsiderServes
  <1>5. Files!Acyclic(g) => Files!Acyclic(h)
    <2> SUFFICES ASSUME Files!Acyclic(g), Files!Wanted(g, lib, home)
                 PROVE  Files!Acyclic(Files!AddEdge(g, lib, home))
      BY DEF Files!Consider
    <2>1. Merging!Acyclic(g) /\ ~Merging!Reachable(g, home, lib)
      BY DEF Files!Wanted, Files!Acyclic, Files!Reachable, Files!Closed,
             Merging!Acyclic, Merging!Reachable, Merging!Closed
    <2>2. Merging!Acyclic(Merging!AddEdge(g, lib, home))
      BY <1>3, <2>1, Merging!AddEdgeAcyclic
    <2> QED
      BY <2>2 DEF Files!Acyclic, Files!Reachable, Files!Closed, Files!AddEdge,
                  Merging!Acyclic, Merging!Reachable, Merging!Closed, Merging!AddEdge
  <1> HIDE DEF h
  <1>6. Linked(h, lib, home)
    BY <1>4 DEF Linked, Files!Reachable, Files!Closed, Merging!Reachable, Merging!Closed
  <1> QED
    BY <1>1, <1>4, <1>5, <1>6 DEF Completes, ImportGraphs, Merging!Graphs

\* The graphs the inner loop goes through, one for each home up to the last.
HomeSteps(body, lib, g, f) ==
  /\ f[0] = g
  /\ \A n \in 1..Max(Libs) :
       f[n] = IF n \in body[lib] THEN Considered[f[n - 1]][lib][n] ELSE f[n - 1]
  /\ f[Max(Libs)] = MergeHomes(body, lib, g)

LEMMA LibsAreNumbers ==
  /\ Max(Libs) \in Nat
  /\ \A l \in Libs : l \in 1..Max(Libs)
  <1>1. Libs \in SUBSET Nat /\ IsFiniteSet(Libs) /\ Libs # {} /\ 0 \notin Libs
    BY LibsAssumption DEF Shared
  <1>2. Max(Libs) \in Libs /\ \A x \in Libs : x <= Max(Libs)
    BY <1>1, MaxMember
  <1>3. \A l \in Libs : l \in Nat /\ l # 0
    BY <1>1
  <1> QED
    BY <1>2, <1>3

LEMMA HomesInSteps ==
  ASSUME NEW g \in ImportGraphs, NEW body \in [Libs -> SUBSET Libs], NEW lib \in Libs
  PROVE  \E f : HomeSteps(body, lib, g, f)
  <1> DEFINE k == Max(Libs)
             take(n, x) == IF n \in body[lib] THEN Considered[x][lib][n] ELSE x
             Is(f) == f = [n \in 0..k |->
                             IF n = 0 THEN g
                             ELSE IF n \in body[lib] THEN Considered[f[n - 1]][lib][n]
                             ELSE f[n - 1]]
             after == CHOOSE f : Is(f)
  <1>1. k \in Nat /\ \A l \in Libs : l \in 1..k
    BY LibsAreNumbers
  <1>2. \A n \in 1..k : \A x \in ImportGraphs : take(n, x) \in ImportGraphs
    BY CandidateTaken DEF Completes
  <1> HIDE DEF k
  <1>3. \E f \in [0..k -> ImportGraphs] : Is(f)
    <2> DEFINE step == [n \in 1..k |-> [x \in ImportGraphs |-> take(n, x)]]
    <2>1. step \in [1..k -> [ImportGraphs -> ImportGraphs]]
      BY <1>2
    <2> HIDE DEF step
    <2>2. PICK f \in [0..k -> ImportGraphs] :
            \A n \in 0..k : f[n] = IF n = 0 THEN g ELSE step[n][f[n - 1]]
      BY <1>1, <2>1, Stepwise
    <2>3. ASSUME NEW n \in 0..k
          PROVE  f[n] = IF n = 0 THEN g ELSE take(n, f[n - 1])
      <3>1. CASE n = 0
        BY <2>2, <3>1
      <3>2. CASE n # 0
        <4>1. n \in 1..k /\ n - 1 \in 0..k
          BY <1>1, <3>2
        <4>2. f[n - 1] \in ImportGraphs /\ f[n] = step[n][f[n - 1]]
          BY <2>2, <3>2, <4>1
        <4> QED
          BY <3>2, <4>1, <4>2 DEF step
      <3> QED
        BY <3>1, <3>2
    <2>4. Is(f)
      BY <2>3
    <2> QED
      BY <2>4
  <1>4. Is(after)
    <2> HIDE DEF Is
    <2> QED
      BY <1>3
  <1>5. MergeHomes(body, lib, g) = after[k]
    BY DEF MergeHomes, k
  <1> HIDE DEF after
  <1>6. \A n \in 0..k : after[n] = IF n = 0 THEN g ELSE take(n, after[n - 1])
    BY <1>4
  <1> HIDE DEF Is
  <1>7. after[0] = g /\ \A n \in 1..k : after[n] = take(n, after[n - 1])
    BY <1>1, <1>6
  <1> QED
    BY <1>5, <1>7 DEF HomeSteps, k

\* The candidates of one library.
LEMMA HomesTaken ==
  ASSUME NEW g \in ImportGraphs, NEW body \in [Libs -> SUBSET Libs], NEW lib \in Libs
  PROVE  /\ Completes(MergeHomes(body, lib, g), g)
         /\ \A home \in body[lib] : Linked(MergeHomes(body, lib, g), lib, home)
  <1> DEFINE k == Max(Libs)
             take(n, x) == IF n \in body[lib] THEN Considered[x][lib][n] ELSE x
  <1>1. k \in Nat /\ \A l \in Libs : l \in 1..k
    BY LibsAreNumbers
  <1>2. PICK after : HomeSteps(body, lib, g, after)
    BY HomesInSteps
  <1>3. MergeHomes(body, lib, g) = after[k]
    BY <1>2 DEF HomeSteps
  <1>4. after[0] = g /\ \A n \in 1..k : after[n] = take(n, after[n - 1])
    BY <1>2 DEF HomeSteps
  <1> HIDE DEF k
  <1> DEFINE D == {n \in Nat : n <= k =>
                     /\ Completes(after[n], g)
                     /\ \A home \in body[lib] : home <= n => Linked(after[n], lib, home)}
  <1>5. 0 \in D
    <2>1. after[0] = g
      BY <1>1, <1>4
    <2>2. \A home \in body[lib] : ~(home <= 0)
      BY LibsAssumption DEF Shared
    <2> QED
      BY <2>1, <2>2 DEF Completes
  <1>6. ASSUME NEW n \in D PROVE n + 1 \in D
    <2>0. n \in Nat /\ n + 1 \in Nat
      OBVIOUS
    <2> SUFFICES ASSUME n + 1 <= k
                 PROVE  /\ Completes(after[n + 1], g)
                        /\ \A home \in body[lib] :
                             home <= n + 1 => Linked(after[n + 1], lib, home)
      BY <2>0
    <2>1. /\ Completes(after[n], g)
          /\ \A home \in body[lib] : home <= n => Linked(after[n], lib, home)
      BY <1>1, <2>0
    <2>2. after[n + 1] = take(n + 1, after[n])
      BY <1>1, <1>4, <2>0
    <2>3. after[n] \in ImportGraphs
      BY <2>1 DEF Completes
    <2> HIDE DEF D
    <2>4. CASE n + 1 \in body[lib]
      <3>1. n + 1 \in Libs /\ after[n + 1] = Considered[after[n]][lib][n + 1]
        BY <2>2, <2>4
      <3>2. Completes(after[n + 1], after[n]) /\ Linked(after[n + 1], lib, n + 1)
        BY <2>3, <3>1, CandidateTaken
      <3>3. Completes(after[n + 1], g)
        BY <2>1, <3>2, CompletionsCompose
      <3>4. ASSUME NEW home \in body[lib], home <= n + 1
            PROVE  Linked(after[n + 1], lib, home)
        <4>1. home \in Libs /\ home \in Nat
          BY LibsAssumption
        <4>2. CASE home = n + 1
          BY <3>2, <4>2
        <4>3. CASE home <= n
          BY <2>1, <2>3, <3>2, <4>1, <4>3, LinksStay DEF Completes
        <4> QED
          BY <2>0, <3>4, <4>1, <4>2, <4>3
      <3> QED
        BY <3>3, <3>4
    <2>5. CASE n + 1 \notin body[lib]
      <3>1. after[n + 1] = after[n]
        BY <2>2, <2>5
      <3>2. \A home \in body[lib] : home <= n + 1 => home <= n
        BY <2>0, <2>5, LibsAssumption
      <3> QED
        BY <2>1, <3>1, <3>2
    <2> QED
      BY <2>4, <2>5
  <1> HIDE DEF D
  <1>7. k \in D
    <2>1. D \in SUBSET Nat
      BY DEF D
    <2> QED
      BY <1>1, <1>5, <1>6, <2>1, SetInduction
  <1>8. \A home \in body[lib] : home <= k
    BY <1>1
  <1> QED
    BY <1>1, <1>3, <1>7, <1>8 DEF D

\* The graphs the outer loop goes through, one for each library.
LibrarySteps(body, order, g, f) ==
  /\ f[0] = g
  /\ \A n \in 1..Len(order) : f[n] = MergeHomes(body, order[n], f[n - 1])
  /\ f[Len(order)] = MergedGraph(body, order, g)

LEMMA LibrariesInSteps ==
  ASSUME NEW g \in ImportGraphs, NEW body \in [Libs -> SUBSET Libs], NEW order \in Seq(Libs)
  PROVE  \E f : LibrarySteps(body, order, g, f)
  <1> DEFINE k == Len(order)
             Is(f) == f = [n \in 0..k |->
                             IF n = 0 THEN g ELSE MergeHomes(body, order[n], f[n - 1])]
             after == CHOOSE f : Is(f)
  <1>1. k \in Nat /\ \A n \in 1..k : order[n] \in Libs
    OBVIOUS
  <1>2. \A n \in 1..k : \A x \in ImportGraphs :
          MergeHomes(body, order[n], x) \in ImportGraphs
    BY <1>1, HomesTaken DEF Completes
  <1> HIDE DEF k
  <1>3. \E f \in [0..k -> ImportGraphs] : Is(f)
    <2> DEFINE step == [n \in 1..k |->
                          [x \in ImportGraphs |-> MergeHomes(body, order[n], x)]]
    <2>1. step \in [1..k -> [ImportGraphs -> ImportGraphs]]
      BY <1>2
    <2> HIDE DEF step
    <2>2. PICK f \in [0..k -> ImportGraphs] :
            \A n \in 0..k : f[n] = IF n = 0 THEN g ELSE step[n][f[n - 1]]
      BY <1>1, <2>1, Stepwise
    <2>3. ASSUME NEW n \in 0..k
          PROVE  f[n] = IF n = 0 THEN g ELSE MergeHomes(body, order[n], f[n - 1])
      <3>1. CASE n = 0
        BY <2>2, <3>1
      <3>2. CASE n # 0
        <4>1. n \in 1..k /\ n - 1 \in 0..k
          BY <1>1, <3>2
        <4>2. f[n - 1] \in ImportGraphs /\ f[n] = step[n][f[n - 1]]
          BY <2>2, <3>2, <4>1
        <4> QED
          BY <3>2, <4>1, <4>2 DEF step
      <3> QED
        BY <3>1, <3>2
    <2>4. Is(f)
      BY <2>3
    <2> QED
      BY <2>4
  <1>4. Is(after)
    <2> HIDE DEF Is
    <2> QED
      BY <1>3
  <1>5. MergedGraph(body, order, g) = after[k]
    BY DEF MergedGraph, k
  <1> HIDE DEF after
  <1>6. \A n \in 0..k : after[n] = IF n = 0 THEN g ELSE MergeHomes(body, order[n], after[n - 1])
    BY <1>4
  <1> HIDE DEF Is
  <1>7. after[0] = g /\ \A n \in 1..k : after[n] = MergeHomes(body, order[n], after[n - 1])
    BY <1>1, <1>6
  <1> QED
    BY <1>5, <1>7 DEF LibrarySteps, k

\* All candidates: every import stays, no circle is closed, and what a body asked
\* for can be imported, unless that would close one.
LEMMA AllTaken ==
  ASSUME NEW g \in ImportGraphs, NEW body \in [Libs -> SUBSET Libs], NEW order \in Seq(Libs)
  PROVE  /\ Completes(MergedGraph(body, order, g), g)
         /\ \A i \in 1..Len(order) : \A home \in body[order[i]] :
              Linked(MergedGraph(body, order, g), order[i], home)
  <1> DEFINE k == Len(order)
  <1>1. k \in Nat /\ \A n \in 1..k : order[n] \in Libs
    OBVIOUS
  <1>2. PICK after : LibrarySteps(body, order, g, after)
    BY LibrariesInSteps
  <1>3. MergedGraph(body, order, g) = after[k]
    BY <1>2 DEF LibrarySteps
  <1>4. after[0] = g /\ \A n \in 1..k : after[n] = MergeHomes(body, order[n], after[n - 1])
    BY <1>2 DEF LibrarySteps
  <1> HIDE DEF k
  <1> DEFINE D == {n \in Nat : n <= k =>
                     /\ Completes(after[n], g)
                     /\ \A i \in 1..n : \A home \in body[order[i]] :
                          Linked(after[n], order[i], home)}
  <1>5. 0 \in D
    <2>1. after[0] = g
      BY <1>1, <1>4
    <2> QED
      BY <2>1 DEF Completes
  <1>6. ASSUME NEW n \in D PROVE n + 1 \in D
    <2>0. n \in Nat /\ n + 1 \in Nat
      OBVIOUS
    <2> SUFFICES ASSUME n + 1 <= k
                 PROVE  /\ Completes(after[n + 1], g)
                        /\ \A i \in 1..(n + 1) : \A home \in body[order[i]] :
                             Linked(after[n + 1], order[i], home)
      BY <2>0
    <2>1. /\ Completes(after[n], g)
          /\ \A i \in 1..n : \A home \in body[order[i]] : Linked(after[n], order[i], home)
      BY <1>1, <2>0
    <2> HIDE DEF D
    <2>2. /\ after[n + 1] = MergeHomes(body, order[n + 1], after[n])
          /\ order[n + 1] \in Libs
      BY <1>1, <1>4, <2>0
    <2>3. after[n] \in ImportGraphs
      BY <2>1 DEF Completes
    <2>4. /\ Completes(after[n + 1], after[n])
          /\ \A home \in body[order[n + 1]] : Linked(after[n + 1], order[n + 1], home)
      BY <2>2, <2>3, HomesTaken
    <2>5. Completes(after[n + 1], g)
      BY <2>1, <2>4, CompletionsCompose
    <2>6. ASSUME NEW i \in 1..(n + 1), NEW home \in body[order[i]]
          PROVE  Linked(after[n + 1], order[i], home)
      <3>1. CASE i = n + 1
        BY <2>4, <3>1
      <3>2. CASE i # n + 1
        <4>1. i \in 1..n /\ i \in 1..k
          BY <1>1, <2>0, <3>2
        <4>2. order[i] \in Libs /\ home \in Libs
          BY <1>1, <4>1
        <4> QED
          BY <2>1, <2>3, <2>4, <4>1, <4>2, LinksStay DEF Completes
      <3> QED
        BY <3>1, <3>2
    <2> QED
      BY <2>5, <2>6
  <1> HIDE DEF D
  <1>7. k \in D
    <2>1. D \in SUBSET Nat
      BY DEF D
    <2> QED
      BY <1>1, <1>5, <1>6, <2>1, SetInduction
  <1> QED
    BY <1>1, <1>3, <1>7 DEF D, k

-----------------------------------------------------------------------------
(***************************************************************************)
(* The two loops are the one of MergeBodyEdges, over a list of candidates. *)
(***************************************************************************)
Candidate == Libs \X Libs

\* c is a candidate of the first p libraries, and of the p-th one up to home n.
Upto(c, body, order, p, n) ==
  \E q \in 1..p : order[q] = c[1] /\ c[2] \in body[c[1]] /\ (q = p => c[2] <= n)

\* c comes before d: of an earlier library, or of the same with a smaller home.
Before(c, d, order) ==
  \E q, r \in 1..Len(order) :
    /\ order[q] = c[1] /\ order[r] = d[1]
    /\ q < r \/ (q = r /\ c[2] < d[2])

\* s lists those candidates in order.
Taken(s, body, order, p, n) ==
  /\ s \in Seq(Candidate)
  /\ \A i \in 1..Len(s) : Upto(s[i], body, order, p, n)
  /\ \A c \in Candidate : Upto(c, body, order, p, n) => \E i \in 1..Len(s) : s[i] = c
  /\ \A i, j \in 1..Len(s) : i < j => Before(s[i], s[j], order)

\* s lists the candidates of pass 2: those of each library in processing order, by home.
InOrder(s, body, order) ==
  /\ s \in Seq(Candidate)
  /\ \A c \in Candidate :
       (\E i \in 1..Len(s) : s[i] = c)
         <=> \E q \in 1..Len(order) : order[q] = c[1] /\ c[2] \in body[c[1]]
  /\ \A i, j \in 1..Len(s) : i < j => Before(s[i], s[j], order)

\* The next home is a candidate.
LEMMA TakenNext ==
  ASSUME NEW body \in [Libs -> SUBSET Libs], NEW order \in Seq(Libs),
         NEW p \in 1..Len(order), NEW n \in Nat, NEW s, Taken(s, body, order, p, n),
         n + 1 \in body[order[p]]
  PROVE  Taken(Append(s, <<order[p], n + 1>>), body, order, p, n + 1)
  <1> DEFINE c == <<order[p], n + 1>>
             t == Append(s, c)
             k == Len(s)
  <1>0. /\ s \in Seq(Candidate)
        /\ \A i \in 1..Len(s) : Upto(s[i], body, order, p, n)
        /\ \A d \in Candidate : Upto(d, body, order, p, n) => \E i \in 1..Len(s) : s[i] = d
        /\ \A i, j \in 1..Len(s) : i < j => Before(s[i], s[j], order)
    BY DEF Taken
  <1>1. /\ order[p] \in Libs /\ n + 1 \in Libs /\ Len(order) \in Nat
        /\ c \in Candidate /\ c[1] = order[p] /\ c[2] = n + 1
    BY DEF Candidate
  <1>2. Libs \in SUBSET Nat
    BY LibsAssumption
  <1> HIDE DEF c
  <1>3. /\ k \in Nat /\ t \in Seq(Candidate) /\ Len(t) = k + 1 /\ t[k + 1] = c
        /\ \A i \in 1..k : t[i] = s[i]
    BY <1>0, <1>1
  <1> HIDE DEF t
  <1>4. ASSUME NEW i \in 1..(k + 1) PROVE Upto(t[i], body, order, p, n + 1)
    <2>1. CASE i = k + 1
      BY <1>1, <1>3, <2>1 DEF Upto
    <2>2. CASE i # k + 1
      <3>1. i \in 1..k /\ t[i] = s[i] /\ s[i] \in Candidate
        BY <1>0, <1>3, <2>2
      <3>2. Upto(s[i], body, order, p, n)
        BY <1>0, <3>1
      <3>3. s[i][2] \in Nat
        BY <1>2, <3>1 DEF Candidate
      <3>4. s[i][2] <= n => s[i][2] <= n + 1
        BY <3>3
      <3> QED
        BY <3>1, <3>2, <3>4 DEF Upto
    <2> QED
      BY <2>1, <2>2
  <1>5. ASSUME NEW d \in Candidate, Upto(d, body, order, p, n + 1)
        PROVE  \E i \in 1..(k + 1) : t[i] = d
    <2>1. PICK q \in 1..p : order[q] = d[1] /\ d[2] \in body[d[1]] /\ (q = p => d[2] <= n + 1)
      BY <1>5 DEF Upto
    <2>2. d[2] \in Nat /\ d = <<d[1], d[2]>>
      <3>1. d \in Libs \X Libs
        BY DEF Candidate
      <3>2. d[2] \in Libs /\ d = <<d[1], d[2]>>
        BY ONLY <3>1
      <3> QED
        BY <1>2, <3>2
    <2>3. CASE q = p /\ d[2] = n + 1
      <3>1. d = c
        BY <2>1, <2>2, <2>3 DEF c
      <3> QED
        BY <1>3, <3>1
    <2>4. CASE ~(q = p /\ d[2] = n + 1)
      <3>1. q = p => d[2] <= n
        BY <2>1, <2>2, <2>4
      <3>2. Upto(d, body, order, p, n)
        BY <2>1, <3>1 DEF Upto
      <3>3. PICK i \in 1..k : s[i] = d
        BY <1>0, <3>2
      <3> QED
        BY <1>3, <3>3
    <2> QED
      BY <2>3, <2>4
  <1>6. ASSUME NEW i \in 1..(k + 1), NEW j \in 1..(k + 1), i < j
        PROVE  Before(t[i], t[j], order)
    <2>1. i \in 1..k /\ t[i] = s[i] /\ s[i] \in Candidate
      BY <1>0, <1>3, <1>6
    <2>2. CASE j = k + 1
      <3>1. PICK q \in 1..p : order[q] = s[i][1] /\ (q = p => s[i][2] <= n)
        BY <1>0, <2>1 DEF Upto
      <3>2. q \in 1..Len(order) /\ (q < p \/ q = p)
        BY <1>1
      <3>3. s[i][2] \in Nat
        BY <1>2, <2>1 DEF Candidate
      <3>4. q = p => s[i][2] < n + 1
        BY <3>1, <3>3
      <3>5. t[j] = c
        BY <1>3, <2>2
      <3> QED
        BY <1>1, <2>1, <3>1, <3>2, <3>4, <3>5 DEF Before
    <2>3. CASE j # k + 1
      <3>1. j \in 1..k /\ t[j] = s[j]
        BY <1>3, <2>3
      <3> QED
        BY <1>0, <1>6, <2>1, <3>1
    <2> QED
      BY <2>2, <2>3
  <1> QED
    BY <1>3, <1>4, <1>5, <1>6 DEF Taken, t, c

\* The next home is none.
LEMMA TakenSkips ==
  ASSUME NEW body \in [Libs -> SUBSET Libs], NEW order \in Seq(Libs),
         NEW p \in 1..Len(order), NEW n \in Nat, NEW s, Taken(s, body, order, p, n),
         n + 1 \notin body[order[p]]
  PROVE  Taken(s, body, order, p, n + 1)
  <1>1. ASSUME NEW d \in Candidate
        PROVE  Upto(d, body, order, p, n + 1) <=> Upto(d, body, order, p, n)
    <2>1. d[2] \in Nat
      BY LibsAssumption DEF Candidate
    <2>2. d[2] <= n => d[2] <= n + 1
      BY <2>1
    <2>3. d[2] <= n + 1 => d[2] <= n \/ d[2] = n + 1
      BY <2>1
    <2>4. d[1] = order[p] /\ d[2] \in body[d[1]] => d[2] # n + 1
      OBVIOUS
    <2> QED
      BY <2>2, <2>3, <2>4 DEF Upto
  <1>2. \A i \in 1..Len(s) : s[i] \in Candidate
    BY DEF Taken
  <1> QED
    BY <1>1, <1>2 DEF Taken

\* The candidates of p libraries are those of the next up to none of its homes.
LEMMA TakenMovesOn ==
  ASSUME NEW body \in [Libs -> SUBSET Libs], NEW order \in Seq(Libs),
         NEW m \in Nat, m + 1 <= Len(order), NEW s, Taken(s, body, order, m, Max(Libs))
  PROVE  Taken(s, body, order, m + 1, 0)
  <1>1. ASSUME NEW d \in Candidate
        PROVE  Upto(d, body, order, m + 1, 0) <=> Upto(d, body, order, m, Max(Libs))
    <2>1. /\ d[2] \in Nat /\ d[2] # 0 /\ d[2] <= Max(Libs)
      BY LibsAreNumbers DEF Candidate
    <2>2. ~(d[2] <= 0)
      BY <2>1
    <2>3. \A q \in 1..(m + 1) : q # m + 1 <=> q \in 1..m
      OBVIOUS
    <2>4. 1..m \subseteq 1..(m + 1)
      OBVIOUS
    <2> QED
      BY <2>1, <2>2, <2>3, <2>4 DEF Upto
  <1>2. \A i \in 1..Len(s) : s[i] \in Candidate
    BY DEF Taken
  <1> QED
    BY <1>1, <1>2 DEF Taken

\* One more candidate takes pass 2 one step further.
LEMMA OutcomeGrows ==
  ASSUME NEW g \in ImportGraphs, NEW s \in Seq(Candidate), NEW lib \in Libs, NEW home \in Libs
  PROVE  /\ Merging!Outcome(g, s) \in ImportGraphs
         /\ Merging!Outcome(g, Append(s, <<lib, home>>))
              = Considered[Merging!Outcome(g, s)][lib][home]
  <1> DEFINE h == Merging!Outcome(g, s)
             c == <<lib, home>>
  <1>1. g \in Merging!Graphs /\ s \in Seq(Libs \X Libs) /\ c \in Libs \X Libs
    BY DEF Merging!Graphs, ImportGraphs, Candidate
  <1>2. c[1] = lib /\ c[2] = home
    OBVIOUS
  <1> HIDE DEF c
  <1>3. /\ h \in Merging!Graphs
        /\ Merging!Outcome(g, Append(s, c)) = Merging!Consider(h, c[1], c[2])
    BY <1>1, Merging!OutcomeOfAppend
  <1> HIDE DEF h
  <1>4. h \in ImportGraphs
    BY <1>3 DEF Merging!Graphs, ImportGraphs
  <1>5. Considered[h][lib][home] = Files!Consider(h, lib, home)
    BY <1>4 DEF Considered, ImportGraphs
  <1>6. Files!Consider(h, lib, home) = Merging!Consider(h, lib, home)
    BY DEF Files!Consider, Files!Wanted, Files!AddEdge, Files!Reachable, Files!Closed,
           Merging!Consider, Merging!Wanted, Merging!AddEdge, Merging!Reachable,
           Merging!Closed
  <1> QED
    BY <1>2, <1>3, <1>4, <1>5, <1>6 DEF h, c

\* The inner loop takes the candidates of its library.
LEMMA HomesListed ==
  ASSUME NEW g \in ImportGraphs, NEW body \in [Libs -> SUBSET Libs], NEW order \in Seq(Libs),
         NEW p \in 1..Len(order), NEW s, Taken(s, body, order, p, 0)
  PROVE  \E t : /\ Taken(t, body, order, p, Max(Libs))
                /\ MergeHomes(body, order[p], Merging!Outcome(g, s)) = Merging!Outcome(g, t)
  <1> DEFINE k == Max(Libs)
             lib == order[p]
             h == Merging!Outcome(g, s)
  <1>1. k \in Nat /\ lib \in Libs /\ s \in Seq(Candidate)
    BY LibsAreNumbers DEF Taken
  <1>2. h \in ImportGraphs
    BY <1>1, OutcomeGrows
  <1> HIDE DEF h
  <1>3. PICK f : HomeSteps(body, lib, h, f)
    BY <1>1, <1>2, HomesInSteps
  <1> DEFINE D == {n \in Nat : n <= k =>
                     \E t : Taken(t, body, order, p, n) /\ f[n] = Merging!Outcome(g, t)}
  <1>4. /\ f[0] = h
        /\ \A n \in 1..k :
             f[n] = IF n \in body[lib] THEN Considered[f[n - 1]][lib][n] ELSE f[n - 1]
        /\ f[k] = MergeHomes(body, lib, h)
    BY <1>3 DEF HomeSteps
  <1> HIDE DEF k, lib
  <1>5. 0 \in D
    BY <1>4 DEF h
  <1>6. ASSUME NEW n \in D PROVE n + 1 \in D
    <2>0. n \in Nat
      OBVIOUS
    <2> SUFFICES ASSUME n + 1 <= k
                 PROVE  \E t : /\ Taken(t, body, order, p, n + 1)
                               /\ f[n + 1] = Merging!Outcome(g, t)
      OBVIOUS
    <2>1. n + 1 \in 1..k /\ (n + 1) - 1 = n /\ n <= k
      BY <1>1, <2>0
    <2>2. PICK t : Taken(t, body, order, p, n) /\ f[n] = Merging!Outcome(g, t)
      BY <2>1
    <2>3. t \in Seq(Candidate)
      BY <2>2 DEF Taken
    <2>4. f[n + 1] = IF n + 1 \in body[lib] THEN Considered[f[n]][lib][n + 1] ELSE f[n]
      BY <1>4, <2>1
    <2> HIDE DEF D
    <2>5. CASE n + 1 \in body[lib]
      <3>1. n + 1 \in Libs
        BY <1>1, <2>5
      <3>2. f[n + 1] = Merging!Outcome(g, Append(t, <<lib, n + 1>>))
        BY <1>1, <2>2, <2>3, <2>4, <2>5, <3>1, OutcomeGrows
      <3>3. Taken(Append(t, <<lib, n + 1>>), body, order, p, n + 1)
        BY <2>0, <2>2, <2>5, TakenNext DEF lib
      <3> QED
        BY <3>2, <3>3
    <2>6. CASE n + 1 \notin body[lib]
      <3>1. Taken(t, body, order, p, n + 1)
        BY <2>0, <2>2, <2>6, TakenSkips DEF lib
      <3> QED
        BY <2>2, <2>4, <2>6, <3>1
    <2> QED
      BY <2>5, <2>6
  <1> HIDE DEF D
  <1>7. D = Nat
    <2>1. D \in SUBSET Nat
      BY DEF D
    <2> QED
      BY <1>5, <1>6, <2>1, SetInduction
  <1>8. k \in D /\ k <= k
    BY <1>1, <1>7
  <1>9. \E t : Taken(t, body, order, p, k) /\ f[k] = Merging!Outcome(g, t)
    BY <1>8 DEF D
  <1> QED
    BY <1>4, <1>9 DEF k, lib, h

\* Both loops take all candidates in order.
LEMMA CandidatesListed ==
  ASSUME NEW g \in ImportGraphs, NEW body \in [Libs -> SUBSET Libs], NEW order \in Seq(Libs)
  PROVE  \E s : InOrder(s, body, order) /\ MergedGraph(body, order, g) = Merging!Outcome(g, s)
  <1> DEFINE k == Len(order)
  <1>1. k \in Nat
    OBVIOUS
  <1>2. PICK f : LibrarySteps(body, order, g, f)
    BY LibrariesInSteps
  <1>3. /\ f[0] = g
        /\ \A n \in 1..k : f[n] = MergeHomes(body, order[n], f[n - 1])
        /\ f[k] = MergedGraph(body, order, g)
    BY <1>2 DEF LibrarySteps
  <1> DEFINE D == {n \in Nat : n <= k =>
                     \E s : Taken(s, body, order, n, Max(Libs)) /\ f[n] = Merging!Outcome(g, s)}
  <1>4. 0 \in D
    <2>1. Taken(<< >>, body, order, 0, Max(Libs))
      BY DEF Taken, Upto
    <2>2. Merging!Outcome(g, << >>) = g
      <3>1. g \in Merging!Graphs
        BY DEF Merging!Graphs, ImportGraphs
      <3> QED
        BY <3>1, Merging!OutcomeOfNone
    <2> QED
      BY <1>3, <2>1, <2>2
  <1>5. ASSUME NEW n \in D PROVE n + 1 \in D
    <2>0. n \in Nat
      OBVIOUS
    <2> SUFFICES ASSUME n + 1 <= k
                 PROVE  \E s : /\ Taken(s, body, order, n + 1, Max(Libs))
                               /\ f[n + 1] = Merging!Outcome(g, s)
      OBVIOUS
    <2>1. n + 1 \in 1..k /\ (n + 1) - 1 = n /\ n <= k
      BY <1>1, <2>0
    <2>2. PICK s : Taken(s, body, order, n, Max(Libs)) /\ f[n] = Merging!Outcome(g, s)
      BY <2>1
    <2> HIDE DEF D
    <2>3. Taken(s, body, order, n + 1, 0)
      BY <2>0, <2>1, <2>2, TakenMovesOn
    <2>4. PICK t : /\ Taken(t, body, order, n + 1, Max(Libs))
                   /\ MergeHomes(body, order[n + 1], Merging!Outcome(g, s))
                        = Merging!Outcome(g, t)
      BY <2>1, <2>3, HomesListed
    <2>5. f[n + 1] = MergeHomes(body, order[n + 1], f[n])
      BY <1>3, <2>1
    <2> QED
      BY <2>2, <2>4, <2>5
  <1> HIDE DEF D
  <1>6. D = Nat
    <2>1. D \in SUBSET Nat
      BY DEF D
    <2> QED
      BY <1>4, <1>5, <2>1, SetInduction
  <1>7. PICK s : Taken(s, body, order, k, Max(Libs)) /\ f[k] = Merging!Outcome(g, s)
    BY <1>1, <1>6 DEF D
  <1>8. InOrder(s, body, order)
    <2>1. ASSUME NEW c \in Candidate
          PROVE  Upto(c, body, order, k, Max(Libs))
                   <=> \E q \in 1..k : order[q] = c[1] /\ c[2] \in body[c[1]]
      <3>1. c[2] <= Max(Libs)
        BY LibsAreNumbers DEF Candidate
      <3> QED
        BY <3>1 DEF Upto
    <2>2. \A i \in 1..Len(s) : s[i] \in Candidate
      BY <1>7 DEF Taken
    <2> QED
      BY <1>7, <2>1, <2>2 DEF Taken, InOrder
  <1> QED
    BY <1>3, <1>7, <1>8

-----------------------------------------------------------------------------
(***************************************************************************)
(* What every file and every local of main() holds.                        *)
(***************************************************************************)
\* The walks stay among the headers.
LEMMA WalksTyped ==
  ASSUME NEW v \in Versions, NEW S \in SUBSET Headers
  PROVE  /\ Reach(v, S) \in SUBSET Headers
         /\ SignatureClosure(v, S) \in SUBSET Headers
         /\ WalkedFrom(v, S) \in SUBSET Headers
  <1>1. Tree[v] \in [Headers -> HeaderText]
    BY HeadersAssumption
  <1>2. \A h \in Headers : Tree[v][h].inc \in SUBSET Headers /\ Tree[v][h].sig \in SUBSET Headers
    BY <1>1 DEF HeaderText
  <1> DEFINE inc_ == [h \in Headers |-> Tree[v][h].inc]
             sig_ == [h \in Headers |-> Tree[v][h].sig]
             shared_ == [h \in Headers |-> {i \in Tree[v][h].inc : Owner[i] = Shared}]
  <1>3. /\ inc_ \in [Headers -> SUBSET Headers] /\ sig_ \in [Headers -> SUBSET Headers]
        /\ shared_ \in [Headers -> SUBSET Headers]
    BY <1>2
  <1>4. /\ Reach(v, S) = Closure(inc_, S) /\ SignatureClosure(v, S) = Closure(sig_, S)
        /\ WalkedFrom(v, S) = Closure(shared_, S)
    BY DEF Reach, SignatureClosure, WalkedFrom
  <1> HIDE DEF inc_, sig_, shared_
  <1> QED
    BY <1>3, <1>4, ClosureIsVisited

\* What a bundle holds.
LEMMA BundleTyped ==
  ASSUME NEW g \in Versions, NEW v \in Versions, NEW l \in Libs
  PROVE  /\ Bundle[g][v][l].declarations \in SUBSET Usrs
         /\ Bundle[g][v][l].using_names \in SUBSET Headers
         /\ Bundle[g][v][l].curated \in SUBSET Headers
         /\ Bundle[g][v][l].extra_deps \in SUBSET Libs
  <1> DEFINE kept  == GatePruned(v, GfmHeadersOf(g, l))
             seeds == IF kept = {} THEN Public[l] ELSE kept
             b     == Bundle[g][v][l]
  <1>1. Public[l] \in SUBSET Headers
    BY HeadersAssumption
  <1>2. kept \in SUBSET Headers /\ seeds \in SUBSET Headers
    BY <1>1, IncludeList DEF GatePruned
  <1>3. /\ b.declarations = Declarations(v, l, kept)
        /\ b.using_names = UsingNames(v, l, kept)
        /\ b.curated = CuratedNames(v, l, kept)
        /\ b.extra_deps = DepsFrom(v, l, seeds)
    <2>1. b = BundleOf(g, v, l)
      BY BundleAssumption
    <2> HIDE DEF b, kept
    <2>2. BundleOf(g, v, l) =
            [declarations |-> Declarations(v, l, kept),
             using_names  |-> UsingNames(v, l, kept),
             curated      |-> CuratedNames(v, l, kept),
             headers      |-> Reach(v, kept),
             extra_deps   |-> DepsFrom(v, l, seeds)]
      BY <1>2 DEF BundleOf, kept
    <2> QED
      BY <2>1, <2>2
  <1> HIDE DEF kept, seeds, b
  <1>4. /\ Tree[v] \in [Headers -> HeaderText]
        /\ \A h \in Headers : Owner[h] \in Libs \cup {Shared}
        /\ Curated[v][l] \in SUBSET Headers
    BY HeadersAssumption
  <1>5. Candidates(v, l, kept) \in SUBSET Headers /\ Reach(v, kept) \in SUBSET Headers
    BY <1>2, WalksTyped DEF Candidates
  <1>6. Declarations(v, l, kept) \in SUBSET Usrs
    <2>1. SignatureClosure(v, Candidates(v, l, kept)) \in SUBSET Headers
      BY <1>5, WalksTyped
    <2> QED
      BY <2>1 DEF Declarations, Usrs, Decl
  <1>7. UsingNames(v, l, kept) \in SUBSET Headers
    BY <1>4, <1>5 DEF UsingNames, HeaderText
  <1>8. CuratedNames(v, l, kept) \in SUBSET Headers
    BY <1>4 DEF CuratedNames
  <1>9. DepsFrom(v, l, seeds) \in SUBSET Libs
    <2>1. WalkedFrom(v, seeds) \in SUBSET Headers
      BY <1>2, WalksTyped
    <2>2. UNION {Tree[v][h].inc : h \in WalkedFrom(v, seeds)} \in SUBSET Headers
      BY <1>4, <2>1 DEF HeaderText
    <2> QED
      BY <1>4, <2>2 DEF DepsFrom
  <1> QED
    BY <1>3, <1>6, <1>7, <1>8, <1>9 DEF b

\* The records, and the imports and bodies that come of them.
LEMMA RecordsTyped ==
  ASSUME NEW g \in Versions, NEW v \in Versions, NEW l \in Libs,
         NEW injected \in [Headers -> Libs \cup {Shared}]
  PROVE  /\ NewNames(Bundle[g][v][l], injected) \in SUBSET Headers
         /\ Records(Bundle[g][v][l], NewNames(Bundle[g][v][l], injected)) \in SUBSET Usrs
  <1>1. NewNames(Bundle[g][v][l], injected) \in SUBSET Headers
    BY BundleTyped DEF NewNames
  <1> QED
    BY <1>1, BundleTyped DEF Records, Usrs, Inject

\* What emit_inc and collect_body_edges find are libraries.
LEMMA EdgesTyped ==
  ASSUME NEW v \in Versions, NEW l \in Libs, NEW records \in SUBSET Usrs, NEW claimed
  PROVE  /\ HintedHomes(l, records, claimed) \in SUBSET Libs
         /\ BodyEdges(v, l, records, claimed) \in SUBSET Libs
  <1>1. \A h \in Headers : Owner[h] \in Libs \cup {Shared}
    BY HeadersAssumption
  <1>2. \A u \in Usrs : Home(l, u) \in Libs \cup {Shared}
    BY <1>1 DEF Usrs, Home
  <1>3. \A u \in Mentions(v, Exported(l, records, claimed)) : u[2] \in Headers
    <2> DEFINE S == {x \in Headers : Decl(x) \in Exported(l, records, claimed)}
               G == UNION {Tree[v][h].sig \cup Tree[v][h].body : h \in S}
    <2>1. G \in SUBSET Headers
      <3>1. \A h \in Headers : Tree[v][h] \in HeaderText
        BY HeadersAssumption
      <3>2. \A h \in S : Tree[v][h].sig \cup Tree[v][h].body \in SUBSET Headers
        BY <3>1 DEF HeaderText
      <3> HIDE DEF S
      <3> QED
        BY <3>2
    <2>2. Mentions(v, Exported(l, records, claimed)) = {Decl(x) : x \in G}
      BY DEF Mentions
    <2> HIDE DEF G
    <2> QED
      BY <2>1, <2>2 DEF Decl
  <1> QED
    BY <1>1, <1>2, <1>3 DEF HintedHomes, BodyEdges

\* Every library has a key, or None.
LEMMA KeysTyped ==
  ASSUME NEW v \in Versions, NEW o \in RunOpts
  PROVE  DOMAIN KeysAt[v][o] = Libs
  <1> DEFINE order == Survey[v].order
             k == Len(order)
             base == [l \in Libs |-> None]
             add(keys, n) ==
               [keys EXCEPT ![order[n]] =
                  IF \E u \in Survey[v].graph[order[n]] : keys[u] = None THEN None
                  ELSE SkipKey(v, order[n], [u \in Survey[v].graph[order[n]] |-> keys[u]], o)]
             Is(m, f) == f = [n \in 0..m |-> IF n = 0 THEN base ELSE add(f[n - 1], n)]
             keys == CHOOSE f : Is(k, f)
             D == {m \in Nat : \E f : Is(m, f)}
  <1>0. k \in Nat
    BY Order
  <1>1. KeysAt[v][o] = keys[k]
    BY DEF KeysAt, LibKeys
  <1>2. \A x, n : DOMAIN add(x, n) = DOMAIN x
    OBVIOUS
  <1> HIDE DEF add, base, k, order, keys
  <1>3. 0 \in D
    <2> DEFINE f == [n \in 0..0 |-> base]
    <2>1. Is(0, f)
      OBVIOUS
    <2> QED
      BY <2>1
  <1>4. ASSUME NEW m \in D PROVE m + 1 \in D
    <2>0. m \in Nat /\ m + 1 \in Nat
      OBVIOUS
    <2>1. PICK h : Is(m, h)
      OBVIOUS
    <2> DEFINE f == [n \in 0..(m + 1) |-> IF n = m + 1 THEN add(h[m], n) ELSE h[n]]
    <2>2. \A n \in 0..m : f[n] = h[n]
      BY <2>0
    <2>3. f[m + 1] = add(h[m], m + 1)
      BY <2>0
    <2>4. ASSUME NEW n \in 0..(m + 1)
          PROVE  f[n] = IF n = 0 THEN base ELSE add(f[n - 1], n)
      <3> HIDE DEF f
      <3>1. CASE n = m + 1
        <4>1. n # 0 /\ n - 1 = m /\ m \in 0..m
          BY <2>0, <3>1
        <4> QED
          BY <2>2, <2>3, <3>1, <4>1
      <3>2. CASE n # m + 1
        <4>1. n \in 0..m /\ (n # 0 => n - 1 \in 0..m)
          BY <2>0, <3>2
        <4>2. h[n] = IF n = 0 THEN base ELSE add(h[n - 1], n)
          BY <2>1, <4>1
        <4> QED
          BY <2>2, <4>1, <4>2
      <3> QED
        BY <3>1, <3>2
    <2>5. f = [n \in 0..(m + 1) |-> f[n]]
      OBVIOUS
    <2> HIDE DEF f
    <2>6. Is(m + 1, f)
      BY <2>4, <2>5
    <2> QED
      BY <2>0, <2>6
  <1> HIDE DEF D
  <1>5. k \in D
    <2>1. D \in SUBSET Nat
      BY DEF D
    <2> QED
      BY <1>0, <1>3, <1>4, <2>1, SetInduction
  <1>6. Is(k, keys)
    <2> HIDE DEF Is
    <2> QED
      BY <1>5 DEF D, keys
  <1>7. \A n \in 0..k : keys[n] = IF n = 0 THEN base ELSE add(keys[n - 1], n)
    BY <1>6
  <1> HIDE DEF Is
  <1> DEFINE E == {n \in Nat : n <= k => DOMAIN keys[n] = Libs}
  <1>8. 0 \in E
    BY <1>0, <1>7 DEF base
  <1>9. ASSUME NEW n \in E PROVE n + 1 \in E
    BY <1>0, <1>2, <1>7
  <1> HIDE DEF E
  <1>10. k \in E
    <2>1. E \in SUBSET Nat
      BY DEF E
    <2> QED
      BY <1>0, <1>8, <1>9, <2>1, SetInduction
  <1> QED
    BY <1>0, <1>1, <1>10 DEF E

\* What the later phases have to work with.
Prepared ==
  /\ Running("merge") => run.graph \in ImportGraphs
  /\ Running("cache") /\ ~run.added => run.pending \subseteq Parsed

TypeInv == TypeOK /\ Prepared

\* A step of a run leaves the kinds of its locals alone, apart from what it assigns.
LEMMA ClaimsTyped ==
  ASSUME NEW claimed \in [Usrs -> Libs \cup {None}], NEW records, NEW l \in Libs
  PROVE  ClaimAll(claimed, records, l) \in [Usrs -> Libs \cup {None}]
  BY DEF ClaimAll

LEMMA InjectsTyped ==
  ASSUME NEW injected \in [Headers -> Libs \cup {Shared}], NEW names, NEW l \in Libs
  PROVE  InjectAll(injected, names, l) \in [Headers -> Libs \cup {Shared}]
  BY DEF InjectAll

\* Where the loop is, for the steps that look at the current library.
LEMMA CurrentTyped ==
  ASSUME DraftInv, ~Running("idle"), run.next <= Len(run.order)
  PROVE  Current \in Libs
  BY Order DEF DraftInv, Locals, Current

LEMMA ParseTyped ==
  ASSUME TypeInv, DraftInv, DraftInv', ParseAndEmitInc
  PROVE  TypeInv'
  <1>0. PICK l : l = Current
    OBVIOUS
  <1> DEFINE bundle  == Bundle[run.start][rev][l]
             names   == NewNames(bundle, run.inject)
             records == Records(bundle, names)
             full    == run.opts.full_closure
             claimed == IF full THEN NoClaims ELSE run.claimed
             cur     == [records |-> records, text |-> rev,
                         extra_deps |-> IF full THEN {} ELSE bundle.extra_deps]
  <1>1. /\ IsRun(run) /\ IsLocals(run) /\ Running("pass1") /\ run.next <= Len(run.order)
        /\ rev \in Versions /\ run.start \in Versions
    BY Order DEF ParseAndEmitInc, AtLibrary, AtLoop, LoopDone, TypeInv, TypeOK, DraftInv,
                 Locals, Disk, Running
  <1>2. l \in Libs
    BY <1>0, <1>1, CurrentTyped DEF Running
  <1>3. run.inject \in [Headers -> Libs \cup {Shared}]
        /\ run.claimed \in [Usrs -> Libs \cup {None}]
    BY <1>1 DEF IsLocals
  <1>4. names \in SUBSET Headers /\ records \in SUBSET Usrs
    BY <1>1, <1>2, <1>3, RecordsTyped
  <1>5. bundle.extra_deps \in SUBSET Libs
    BY <1>1, <1>2, BundleTyped
  <1>6. claimed \in [Usrs -> Libs \cup {None}]
    BY <1>3 DEF NoClaims
  <1>7. (IF full THEN NoInjects ELSE InjectAll(run.inject, names, l))
          \in [Headers -> Libs \cup {Shared}]
    BY <1>2, <1>3, InjectsTyped DEF NoInjects
  <1>8. /\ run' = [run EXCEPT !.claimed = claimed,
                     !.inject = IF full THEN NoInjects ELSE InjectAll(@, names, l),
                     !.phase = "parsed", !.cur = cur]
        /\ inc' = [inc EXCEPT ![l] = Exported(l, records, claimed)]
        /\ UNCHANGED <<rev, deps, cppm, skip, last>>
    BY <1>0 DEF ParseAndEmitInc
  <1>9. cur \in Parsing
    BY <1>1, <1>4, <1>5 DEF Parsing
  <1>10. inc' \in [Libs -> (SUBSET Usrs) \cup {None}]
    BY <1>2, <1>4, <1>8 DEF TypeInv, TypeOK, Exported
  <1> HIDE DEF records, claimed, names, bundle, cur
  <1>11. /\ run'.phase = "parsed" /\ run'.opts = run.opts /\ run'.start = run.start
         /\ run'.order = run.order /\ run'.keys = run.keys /\ run'.next = run.next
         /\ run'.claimed = claimed /\ run'.cur = cur
         /\ run'.inject = IF full THEN NoInjects ELSE InjectAll(run.inject, names, l)
         /\ run'.body = run.body /\ run'.payload = run.payload /\ run'.gfm = run.gfm
         /\ run'.graph = run.graph /\ run'.pending = run.pending /\ run'.added = run.added
    BY <1>1, <1>8 DEF IsRun
  <1>12. IsLocals(run')
    BY <1>1, <1>6, <1>7, <1>9, <1>11 DEF IsLocals
  <1> QED
    BY <1>8, <1>10, <1>11, <1>12 DEF TypeInv, TypeOK, Prepared, Running

LEMMA EmitDepsTyped ==
  ASSUME TypeInv, DraftInv, DraftInv', EmitDeps
  PROVE  TypeInv'
  <1>0. PICK l : l = Current
    OBVIOUS
  <1> DEFINE records == run.cur.records
             imports == HintedHomes(l, records, run.claimed) \cup run.cur.extra_deps
             body    == IF run.opts.full_closure \/ run.opts.no_body_deps THEN {}
                        ELSE BodyEdges(run.cur.text, l, records, run.claimed)
             entry   == [key |-> Key(l), claims |-> records,
                         inject_claims |-> {q \in Headers : run.inject[q] = l}]
             payload == IF run.opts.use_cache /\ Key(l) # None
                        THEN [m \in Parsed \cup {l} |->
                                IF m # l THEN run.payload[m] ELSE entry]
                        ELSE run.payload
  <1>1. /\ IsRun(run) /\ IsLocals(run) /\ Running("parsed") /\ run.next <= Len(run.order)
        /\ run.next \in 1..Len(run.order)
    BY Order DEF EmitDeps, TypeInv, TypeOK, DraftInv, Locals, Running
  <1>2. l \in Libs
    BY <1>0, <1>1, CurrentTyped DEF Running
  <1>3. /\ records \in SUBSET Usrs /\ run.cur.text \in Versions
        /\ run.cur.extra_deps \in SUBSET Libs
    BY <1>1 DEF IsLocals, Parsing, Running
  <1>4. imports \in SUBSET Libs /\ body \in SUBSET Libs
    BY <1>2, <1>3, EdgesTyped
  <1>5. IsPayload(entry)
    BY <1>3 DEF IsPayload
  <1>6. /\ deps' = IF imports = {} THEN deps ELSE [deps EXCEPT ![l] = imports]
        /\ run' = [run EXCEPT !.claimed = ClaimAll(@, records, l), !.body[l] = body,
                     !.payload = payload, !.gfm = @ \cup {l}, !.phase = "pass1",
                     !.cur = None, !.next = @ + 1]
        /\ UNCHANGED <<rev, inc, cppm, skip, last>>
    BY <1>0 DEF EmitDeps
  <1>7. DOMAIN payload \subseteq Libs /\ \A m \in DOMAIN payload : IsPayload(payload[m])
    <2> HIDE DEF entry
    <2> QED
      BY <1>1, <1>2, <1>5 DEF IsLocals, Parsed
  <1> HIDE DEF records, imports, body, payload, entry
  <1>8. deps' \in [Libs -> (SUBSET Libs) \cup {None}]
    BY <1>2, <1>4, <1>6 DEF TypeInv, TypeOK
  <1>9. /\ run'.phase = "pass1" /\ run'.opts = run.opts /\ run'.start = run.start
        /\ run'.order = run.order /\ run'.keys = run.keys /\ run'.next = run.next + 1
        /\ run'.claimed = ClaimAll(run.claimed, records, l) /\ run'.cur = None
        /\ run'.inject = run.inject
        /\ run'.body = [run.body EXCEPT ![l] = body] /\ run'.payload = payload
        /\ run'.gfm = run.gfm \cup {l}
        /\ run'.graph = run.graph /\ run'.pending = run.pending /\ run'.added = run.added
    BY <1>1, <1>6 DEF IsRun
  <1>10. run'.claimed \in [Usrs -> Libs \cup {None}]
    BY <1>1, <1>2, <1>9, ClaimsTyped DEF IsLocals
  <1>11. run'.body \in [Libs -> SUBSET Libs] /\ run'.gfm \in SUBSET Libs
    BY <1>1, <1>2, <1>4, <1>9 DEF IsLocals
  <1>12. run'.next \in 1..(Len(run'.order) + 1)
    BY <1>1, <1>9, Order DEF DraftInv, Locals, Running
  <1>13. IsLocals(run')
    BY <1>1, <1>7, <1>9, <1>10, <1>11, <1>12 DEF IsLocals
  <1> QED
    BY <1>6, <1>8, <1>9, <1>13 DEF TypeInv, TypeOK, Prepared, Running

\* The graph of the files, and what pass 2 makes of it.
LEMMA MergeTyped ==
  ASSUME TypeInv, DraftInv, Merge
  PROVE  TypeInv'
  <1> DEFINE merged == MergedGraph(run.body, run.order, DepsGraph)
             grown  == {l \in Libs : merged[l] # DepsGraph[l]}
  <1>1. /\ IsRun(run) /\ IsLocals(run) /\ Running("pass1")
        /\ UNCHANGED <<rev, inc, deps, cppm, skip, last>>
    BY DEF Merge, TypeInv, TypeOK, DraftInv, Locals, Running
  <1>2. DepsGraph \in ImportGraphs
    BY DEF DepsGraph, ImportGraphs, TypeInv, TypeOK
  <1>3. merged \in ImportGraphs
    BY <1>1, <1>2, AllTaken DEF IsLocals, Completes
  <1>4. /\ run' = [run EXCEPT !.phase = "merge", !.graph = merged,
                              !.pending = grown, !.added = (grown # {})]
    BY DEF Merge
  <1>5. grown \subseteq Libs
    OBVIOUS
  <1> HIDE DEF merged, grown
  <1>6. /\ run'.phase = "merge" /\ run'.opts = run.opts /\ run'.start = run.start
        /\ run'.order = run.order /\ run'.keys = run.keys /\ run'.next = run.next
        /\ run'.claimed = run.claimed /\ run'.cur = run.cur /\ run'.inject = run.inject
        /\ run'.body = run.body /\ run'.payload = run.payload /\ run'.gfm = run.gfm
        /\ run'.graph = merged /\ run'.pending = grown /\ run'.added = (grown # {})
    BY <1>1, <1>4 DEF IsRun
  <1>7. IsLocals(run')
    BY <1>1, <1>3, <1>5, <1>6 DEF IsLocals, ImportGraphs, Running
  <1> QED
    BY <1>1, <1>3, <1>6, <1>7 DEF TypeInv, TypeOK, Prepared, Running

LEMMA TypeInvariance == Spec => []TypeInv
  <1>1. Init => TypeInv
    BY DEF Init, TypeInv, TypeOK, Prepared, Running, Idle
  <1>2. TypeInv /\ DraftInv /\ DraftInv' /\ [Next]_vars => TypeInv'
    <2> SUFFICES ASSUME TypeInv, DraftInv, DraftInv', [Next]_vars PROVE TypeInv'
      OBVIOUS
    <2>0. ~Running("idle") => IsRun(run) /\ IsLocals(run)
      BY DEF TypeInv, TypeOK, DraftInv, Locals
    <2>1. CASE PassOver
      <3>1. run.next \in 1..Len(run.order)
        BY <2>1, Order DEF PassOver, AtLoop, LoopDone, DraftInv, Locals, Running
      <3>2. IsLocals(run')
        BY <2>0, <2>1, <3>1 DEF PassOver, AtLoop, IsRun, IsLocals, Running
      <3> QED
        BY <2>0, <2>1, <3>2 DEF PassOver, AtLoop, IsRun, TypeInv, TypeOK, Prepared, Running
    <2>2. CASE Replay
      <3>0. PICK l : l = Current
        OBVIOUS
      <3>1. /\ run.next \in 1..Len(run.order) /\ run.next <= Len(run.order)
            /\ Running("pass1")
        BY <2>2, Order DEF Replay, AtLibrary, AtLoop, LoopDone, DraftInv, Locals, Running
      <3>2. l \in Libs
        BY <3>0, <3>1, CurrentTyped DEF Running
      <3>3. /\ run'.phase = "pass1" /\ run'.opts = run.opts /\ run'.start = run.start
            /\ run'.order = run.order /\ run'.keys = run.keys /\ run'.next = run.next + 1
            /\ run'.claimed = ClaimAll(run.claimed, skip[l].claims, l)
            /\ run'.inject = InjectAll(run.inject, skip[l].inject_claims, l)
            /\ run'.cur = run.cur /\ run'.body = run.body /\ run'.payload = run.payload
            /\ run'.gfm = run.gfm \cup {l} /\ run'.graph = run.graph
            /\ run'.pending = run.pending /\ run'.added = run.added
            /\ UNCHANGED <<rev, inc, deps, cppm, skip, last>>
        BY <2>0, <2>2, <3>0, <3>1 DEF Replay, IsRun, Running
      <3>4. /\ run'.claimed \in [Usrs -> Libs \cup {None}]
            /\ run'.inject \in [Headers -> Libs \cup {Shared}]
        BY <2>0, <3>1, <3>2, <3>3, ClaimsTyped, InjectsTyped DEF IsLocals, Running
      <3>5. IsLocals(run')
        BY <2>0, <3>1, <3>2, <3>3, <3>4 DEF IsLocals, Running
      <3> QED
        BY <3>3, <3>5 DEF TypeInv, TypeOK, Prepared, Running
    <2>3. CASE ParseAndEmitInc
      BY <2>3, ParseTyped
    <2>4. CASE EmitDeps
      BY <2>4, EmitDepsTyped
    <2>5. CASE Merge
      BY <2>5, MergeTyped
    <2>6. CASE WriteMergedDeps
      <3>0. PICK l : l = FirstOf(run.pending)
        OBVIOUS
      <3>1. /\ l \in Libs /\ run.graph \in ImportGraphs /\ Running("merge")
        BY <2>0, <2>6, <3>0, FirstOfMember
        DEF WriteMergedDeps, DraftInv, TypeInv, Prepared, IsLocals, Running
      <3>2. deps' = [deps EXCEPT ![l] = run.graph[l]]
            /\ run' = [run EXCEPT !.pending = @ \ {l}]
            /\ UNCHANGED <<rev, inc, cppm, skip, last>>
        BY <2>6, <3>0 DEF WriteMergedDeps
      <3>3. deps' \in [Libs -> (SUBSET Libs) \cup {None}]
        BY <3>1, <3>2 DEF TypeInv, TypeOK, ImportGraphs
      <3>4. IsLocals(run') /\ run'.phase = "merge" /\ run'.graph = run.graph
        BY <2>0, <3>1, <3>2 DEF IsRun, IsLocals, Running
      <3> QED
        BY <3>1, <3>2, <3>3, <3>4 DEF TypeInv, TypeOK, Prepared, Running
    <2>7. CASE MergeDone
      <3>1. Parsed \subseteq Libs
        BY <2>0, <2>7 DEF MergeDone, IsLocals, Parsed, Running
      <3>2. /\ run'.phase = "cache" /\ run'.pending \subseteq Libs
            /\ ~run'.added => run'.pending \subseteq DOMAIN run'.payload
            /\ IsLocals(run')
        BY <2>0, <2>7, <3>1 DEF MergeDone, IsRun, IsLocals, Running, Parsed
      <3> QED
        BY <2>7, <3>2 DEF MergeDone, TypeInv, TypeOK, Prepared, Running, Parsed
    <2>8. CASE \E l \in Libs : DropCacheEntry(l)
      <3>1. PICK l \in Libs : DropCacheEntry(l)
        BY <2>8
      <3>2. IsLocals(run') /\ run'.phase = "cache" /\ run'.added
        BY <2>0, <3>1 DEF DropCacheEntry, IsRun, IsLocals, Running
      <3>3. \A m \in Libs : skip'[m] # None => IsEntry(skip'[m])
        BY <3>1 DEF DropCacheEntry, TypeInv, TypeOK, DraftInv, Disk
      <3> QED
        BY <3>1, <3>2, <3>3 DEF DropCacheEntry, TypeInv, TypeOK, Prepared, Running
    <2>9. CASE WriteCacheEntry
      <3>0. PICK l : l = FirstOf(run.pending)
        OBVIOUS
      <3>1. l \in DOMAIN run.payload /\ l \in Libs /\ Running("cache") /\ ~run.added
        BY <2>0, <2>9, <3>0, FirstOfMember
        DEF WriteCacheEntry, DraftInv, TypeInv, Prepared, IsLocals, Parsed, Running
      <3> DEFINE entry == [key |-> run.payload[l].key, claims |-> run.payload[l].claims,
                           inject_claims |-> run.payload[l].inject_claims,
                           deps_present |-> deps[l] # None]
      <3>2. /\ skip' = [skip EXCEPT ![l] = entry]
            /\ run' = [run EXCEPT !.pending = @ \ {l}]
            /\ UNCHANGED <<rev, inc, deps, cppm, last>>
        BY <2>9, <3>0 DEF WriteCacheEntry
      <3>3. IsEntry(entry)
        BY <2>0, <3>1 DEF IsLocals, IsPayload, IsEntry, Running
      <3> HIDE DEF entry
      <3>4. \A m \in Libs : skip'[m] # None => IsEntry(skip'[m])
        BY <3>1, <3>2, <3>3 DEF TypeInv, TypeOK, DraftInv, Disk
      <3>5. /\ IsLocals(run') /\ run'.phase = "cache" /\ run'.payload = run.payload
            /\ run'.pending \subseteq run.pending /\ run'.added = run.added
        BY <2>0, <3>1, <3>2 DEF IsRun, IsLocals, Running
      <3> QED
        BY <3>1, <3>2, <3>4, <3>5 DEF TypeInv, TypeOK, Prepared, Parsed, Running
    <2>10. CASE CacheDone
      <3>1. IsLocals(run') /\ run'.phase = "emit"
        BY <2>0, <2>10 DEF CacheDone, IsRun, IsLocals, Running
      <3> QED
        BY <2>10, <3>1 DEF CacheDone, TypeInv, TypeOK, Prepared, Running
    <2>11. CASE EmitCppm
      <3>0. PICK l : l = FirstOf(run.pending)
        OBVIOUS
      <3>1. l \in Libs
        BY <2>0, <2>11, <3>0, FirstOfMember
        DEF EmitCppm, DraftInv, IsLocals, Running
      <3>2. IsLocals(run') /\ run'.phase = "emit"
        BY <2>0, <2>11 DEF EmitCppm, IsRun, IsLocals, Running
      <3>3. DepsGraph[l] \in SUBSET Libs
        BY <3>1 DEF DepsGraph, TypeInv, TypeOK
      <3>4. cppm' \in [Libs -> (SUBSET Libs) \cup {None}]
        BY <2>11, <3>0, <3>1, <3>3 DEF EmitCppm, TypeInv, TypeOK
      <3> QED
        BY <2>11, <3>2, <3>4 DEF EmitCppm, TypeInv, TypeOK, Prepared, Running
    <2>12. CASE Return \/ ParseFails \/ Kill
      <3>1. /\ ~Running("idle") /\ UNCHANGED <<rev, inc, deps, cppm, skip>>
            /\ run'.phase = "idle" /\ \E x \in {"ok", "failed", "killed"} : End(x)
        BY <2>12 DEF Return, ParseFails, AtLibrary, AtLoop, Kill, Running, End, Idle
      <3>2. last' \in Endings
        BY <2>0, <3>1 DEF End, Endings, IsLocals
      <3> QED
        BY <3>1, <3>2 DEF TypeInv, TypeOK, Prepared, Running
    <2>13. CASE \E v \in Versions : EditHeaders(v)
      <3>1. rev' \in Versions /\ UNCHANGED <<inc, deps, cppm, skip, run, last>>
        BY <2>13 DEF EditHeaders
      <3> QED
        BY <3>1 DEF TypeInv, TypeOK, Prepared, Running, Parsed
    <2>14. CASE \E l \in Libs : LoseOutput(l)
      BY <2>14 DEF LoseOutput, TypeInv, TypeOK, Prepared, Running
    <2>15. CASE \E o \in RunOpts : Start(o)
      <3>0. PICK o \in RunOpts : Start(o)
        BY <2>15
      <3>1. rev \in Versions /\ DOMAIN KeysAt[rev][o] = Libs
        BY KeysTyped DEF DraftInv, Disk
      <3>2. /\ run'.phase = "pass1" /\ run'.opts = o /\ run'.start = rev
            /\ run'.order = Survey[rev].order /\ run'.keys = KeysAt[rev][o]
            /\ run'.next = 1 /\ run'.claimed = NoClaims /\ run'.inject = NoInjects
            /\ run'.cur = None /\ run'.body = [l \in Libs |-> {}]
            /\ run'.payload = << >> /\ run'.gfm = {} /\ run'.graph = None
            /\ run'.pending = {} /\ run'.added = FALSE
            /\ UNCHANGED <<rev, inc, deps, cppm, skip, last>>
        BY <3>0 DEF Start
      <3>3. run'.order \in Seq(Libs) /\ 1 \in 1..(Len(run'.order) + 1)
        BY <3>1, <3>2, Order
      <3>4. NoClaims \in [Usrs -> Libs \cup {None}]
            /\ NoInjects \in [Headers -> Libs \cup {Shared}]
        BY DEF NoClaims, NoInjects
      <3>5. DOMAIN run'.payload = {}
        BY <3>2
      <3>6. IsLocals(run')
        BY <3>1, <3>2, <3>3, <3>4, <3>5 DEF IsLocals
      <3> QED
        BY <3>2, <3>6 DEF TypeInv, TypeOK, Prepared, Running
    <2>16. CASE UNCHANGED vars
      BY <2>16 DEF vars, TypeInv, TypeOK, Prepared, Running, Parsed
    <2> QED
      BY <2>1, <2>2, <2>3, <2>4, <2>5, <2>6, <2>7, <2>8, <2>9, <2>10, <2>11, <2>12,
         <2>13, <2>14, <2>15, <2>16 DEF Next, Generator, Users
  <1> QED
    BY <1>1, <1>2, DraftInvariance, PTL DEF Spec

\* Every file and every local of a run holds a value of its kind, for any vendored
\* headers and command lines, and whatever is cached, killed or lost.
THEOREM TypeCorrect == Spec => []TypeOK
  <1>1. TypeInv => TypeOK
    BY DEF TypeInv
  <1> QED
    BY <1>1, TypeInvariance, PTL

-----------------------------------------------------------------------------
(***************************************************************************)
(* Pass 2 is MergeBodyEdges.                                               *)
(***************************************************************************)
\* The graph is the one MergeBodyEdges ends with when it reads the files there are and
\* is given the candidates in order: library by library, the homes of each sorted.
TakesCandidates ==
  \E s : /\ InOrder(s, run.body, run.order)
         /\ run'.graph = Merging!Outcome(DepsGraph, s)

\* Every import that is new was asked for by a body and was not there in effect.
AddsWhatIsAsked ==
  \A l \in Libs : \A m \in run'.graph[l] \ DepsGraph[l] :
    m \in run.body[l] /\ ~Files!Reachable(DepsGraph, l, m)

LEMMA OutcomeAddsAsked ==
  ASSUME NEW g \in ImportGraphs, NEW body \in [Libs -> SUBSET Libs], NEW order \in Seq(Libs),
         NEW s, InOrder(s, body, order), NEW l \in Libs, NEW m \in Merging!Outcome(g, s)[l] \ g[l]
  PROVE  m \in body[l] /\ ~Files!Reachable(g, l, m)
  <1> DEFINE h == Merging!Outcome(g, s)
             asked == {s[i] : i \in DOMAIN s}
  <1>1. g \in Merging!Graphs /\ s \in Seq(Libs \X Libs)
    BY DEF Merging!Graphs, ImportGraphs, InOrder, Candidate
  <1>2. Merging!Completed(g, g, {})
    BY <1>1 DEF Merging!Completed
  <1>3. Merging!Completed(h, g, {} \cup asked)
    BY <1>1, <1>2, Merging!OutcomeCompletes
  <1>4. <<l, m>> \in asked /\ ~Merging!Reachable(g, l, m)
    BY <1>3 DEF Merging!Completed
  <1>5. PICK i \in 1..Len(s) : s[i] = <<l, m>>
    <2>1. PICK i \in DOMAIN s : <<l, m>> = s[i]
      BY ONLY <1>4
    <2>2. DOMAIN s = 1..Len(s)
      BY ONLY <1>1
    <2> QED
      BY ONLY <2>1, <2>2
  <1>6. <<l, m>> \in Candidate
    BY <1>1, <1>5 DEF Candidate
  <1>7. m \in body[l]
    BY <1>5, <1>6 DEF InOrder
  <1> QED
    BY <1>4, <1>7 DEF Files!Reachable, Files!Closed, Merging!Reachable, Merging!Closed

\* Whatever the run replayed, and whatever files were there, pass 2 makes of them what
\* MergeBodyEdges makes of the candidates (merge_body_edges), and adds nothing else.
THEOREM MergeIsPassTwo == Spec => [][Merge => TakesCandidates /\ AddsWhatIsAsked]_vars
  <1>1. ASSUME TypeInv, DraftInv, Merge PROVE TakesCandidates /\ AddsWhatIsAsked
    <2>1. IsRun(run) /\ IsLocals(run) /\ Running("pass1")
      BY <1>1 DEF Merge, TypeInv, TypeOK, DraftInv, Locals, Running
    <2>2. DepsGraph \in ImportGraphs
      BY <1>1 DEF DepsGraph, ImportGraphs, TypeInv, TypeOK
    <2>3. run.body \in [Libs -> SUBSET Libs] /\ run.order \in Seq(Libs)
      BY <2>1 DEF IsLocals
    <2>4. run'.graph = MergedGraph(run.body, run.order, DepsGraph)
      BY <1>1, <2>1 DEF Merge, IsRun
    <2>5. PICK s : /\ InOrder(s, run.body, run.order)
                   /\ MergedGraph(run.body, run.order, DepsGraph) = Merging!Outcome(DepsGraph, s)
      BY <2>2, <2>3, CandidatesListed
    <2>6. TakesCandidates
      BY <2>4, <2>5 DEF TakesCandidates
    <2>7. AddsWhatIsAsked
      BY <2>2, <2>3, <2>4, <2>5, OutcomeAddsAsked DEF AddsWhatIsAsked
    <2> QED
      BY <2>6, <2>7
  <1>2. TypeInv /\ DraftInv /\ [Next]_vars => [Merge => TakesCandidates /\ AddsWhatIsAsked]_vars
    BY <1>1
  <1> QED
    BY <1>2, TypeInvariance, DraftInvariance, PTL DEF Spec

-----------------------------------------------------------------------------
(***************************************************************************)
(* What pass 1 lists is what a full run lists.                             *)
(***************************************************************************)
\* The bundle that was parsed is that of the headers the run started on.
ParsedTrue ==
  Running("parsed") =>
    /\ run.cur.text = run.start
    /\ run.cur.extra_deps = IF run.opts.full_closure THEN {}
                            ELSE Bundle[run.start][run.start][Current].extra_deps
    /\ run.opts.full_closure => run.claimed = NoClaims

LEMMA ParsedStays ==
  ASSUME IInv, TypeInv, ParsedTrue, IInv', [Next]_vars
  PROVE  ParsedTrue'
  <1>1. CASE ParseAndEmitInc
    <2>0. PICK l : l = Current
      OBVIOUS
    <2> DEFINE bundle  == Bundle[run.start][rev][l]
               names   == NewNames(bundle, run.inject)
               full    == run.opts.full_closure
               cur     == [records |-> Records(bundle, names), text |-> rev,
                           extra_deps |-> IF full THEN {} ELSE bundle.extra_deps]
    <2>1. /\ IsRun(run) /\ Running("pass1") /\ run.start = rev
      BY <1>1 DEF ParseAndEmitInc, AtLibrary, AtLoop, IInv, DraftInv, Locals, Running
    <2>2. run' = [run EXCEPT !.claimed = IF full THEN NoClaims ELSE run.claimed,
                             !.inject = IF full THEN NoInjects ELSE InjectAll(@, names, l),
                             !.phase = "parsed", !.cur = cur]
      BY <1>1, <2>0 DEF ParseAndEmitInc
    <2> HIDE DEF cur, names
    <2>3. /\ run'.start = run.start /\ run'.opts = run.opts /\ run'.cur = cur
          /\ run'.order = run.order /\ run'.next = run.next
          /\ run'.claimed = IF full THEN NoClaims ELSE run.claimed
      BY <2>1, <2>2 DEF IsRun
    <2>4. Current' = l
      BY <2>0, <2>3 DEF Current
    <2> QED
      BY <2>1, <2>3, <2>4 DEF ParsedTrue, cur
  <1>2. CASE Running("parsed") /\ UNCHANGED run
    BY <1>2 DEF ParsedTrue, Running, Current
  <1>3. CASE ~Running("parsed")'
    BY <1>3 DEF ParsedTrue
  <1>4. ~ParseAndEmitInc /\ Running("parsed")' => Running("parsed") /\ UNCHANGED run
    <2> SUFFICES ASSUME ~ParseAndEmitInc, run'.phase = "parsed"
                 PROVE  run.phase = "parsed" /\ UNCHANGED run
      BY DEF Running
    <2>0. ~Running("idle") => IsRun(run)
      BY DEF IInv, DraftInv, Locals
    <2>1. ~(PassOver \/ Replay)
      BY <2>0 DEF PassOver, Replay, AtLibrary, AtLoop, Running, IsRun
    <2>2. ~(EmitDeps \/ Merge \/ WriteMergedDeps \/ MergeDone)
      BY <2>0 DEF EmitDeps, Merge, WriteMergedDeps, MergeDone, Running, IsRun
    <2>3. ~((\E l \in Libs : DropCacheEntry(l)) \/ WriteCacheEntry \/ CacheDone)
      BY <2>0 DEF DropCacheEntry, WriteCacheEntry, CacheDone, Running, IsRun
    <2>4. ~(EmitCppm \/ Return \/ ParseFails \/ Kill)
      BY <2>0 DEF EmitCppm, Return, ParseFails, Kill, End, Idle, Running, IsRun
    <2>5. ~(\E o \in RunOpts : Start(o))
      BY DEF Start
    <2>6. (\E v \in Versions : EditHeaders(v)) \/ (\E l \in Libs : LoseOutput(l))
            \/ UNCHANGED vars
      BY <2>1, <2>2, <2>3, <2>4, <2>5 DEF Next, Generator, Users
    <2>7. UNCHANGED run
      BY <2>6 DEF EditHeaders, LoseOutput, vars
    <2> QED
      BY <2>7
  <1> QED
    BY <1>1, <1>2, <1>3, <1>4

\* The bundle of a run is that of its headers throughout.
LEMMA ParsedInvariance ==
  ASSUME Orderly
  PROVE  Spec => []ParsedTrue
  <1>1. Init => ParsedTrue
    BY DEF Init, Idle, ParsedTrue, Running
  <1>2. IInv /\ TypeInv /\ ParsedTrue /\ IInv' /\ [Next]_vars => ParsedTrue'
    BY ParsedStays
  <1> QED
    BY <1>1, <1>2, Inductive, TypeInvariance, PTL DEF Spec

\* What pass 1 finds for the library it parsed.
LEMMA ParsedIsFullRun ==
  ASSUME IInv, TypeInv, ParsedTrue, Running("parsed"), NEW l, l = Current
  PROVE  /\ l \in Work(run.opts) /\ l \in Libs
         /\ HintedHomes(l, run.cur.records, run.claimed) \cup run.cur.extra_deps
              = ReferenceRun.deps[l]
         /\ ~run.opts.full_closure =>
              Exported(l, run.cur.records, run.claimed) = ReferenceRun.inc[l]
  <1>1. /\ run.next <= Len(run.order) /\ l \in Work(run.opts) /\ Looping
    BY DEF IInv, DraftInv, Locals, Looping, Running
  <1>2. /\ run.start = rev /\ rev \in Versions /\ run.opts \in RunOpts
        /\ run.next \in 1..Len(Survey[run.start].order)
        /\ l = Survey[run.start].order[run.next] /\ l \in Libs
    BY <1>1, AtPlace
  <1>3. /\ ~run.opts.full_closure => run.claimed = Reference(run.next - 1).claimed
        /\ run.cur.records = ReferenceRun.records[l]
    BY <1>1 DEF IInv, OnCourse
  <1> DEFINE n == run.next
  <1>4. run.claimed = ClaimedAt(run.start, run.opts, n)
    BY <1>3 DEF ClaimedAt, Reference, ParsedTrue
  <1>5. /\ ReferenceRun.records[l] = RecordsAt(run.start, run.opts, n)
        /\ ReferenceRun.inc[l] = Exported(l, RecordsAt(run.start, run.opts, n),
                                          ClaimedAt(run.start, run.opts, n))
        /\ ReferenceRun.deps[l]
             = HintedHomes(l, RecordsAt(run.start, run.opts, n),
                           ClaimedAt(run.start, run.opts, n))
                 \cup IF run.opts.full_closure THEN {}
                      ELSE Bundle[run.start][run.start][l].extra_deps
    <2>0. PICK v, o : v = run.start /\ o = run.opts
      OBVIOUS
    <2>1. v \in Versions /\ o \in RunOpts /\ n \in 1..Len(Survey[v].order)
          /\ l = Survey[v].order[n] /\ l \in Work(o)
      BY <1>1, <1>2, <2>0
    <2> HIDE DEF n
    <2>2. /\ FullRun(v, o).records[l] = RecordsAt(v, o, n)
          /\ FullRun(v, o).inc[l] = Exported(l, RecordsAt(v, o, n), ClaimedAt(v, o, n))
          /\ FullRun(v, o).deps[l]
               = HintedHomes(l, RecordsAt(v, o, n), ClaimedAt(v, o, n))
                   \cup IF o.full_closure THEN {} ELSE Bundle[v][v][l].extra_deps
      <3>1. FullRun(v, o).records[l] = RecordsAt(v, o, n)
        BY <2>1, FullPlace
      <3>2. FullRun(v, o).inc[l] = Exported(l, RecordsAt(v, o, n), ClaimedAt(v, o, n))
        BY <2>1, FullPlace
      <3>3. FullRun(v, o).deps[l]
               = HintedHomes(l, RecordsAt(v, o, n), ClaimedAt(v, o, n))
                   \cup IF o.full_closure THEN {} ELSE Bundle[v][v][l].extra_deps
        BY <2>1, FullPlace
      <3> QED
        BY <3>1, <3>2, <3>3
    <2> QED
      BY <2>0, <2>2, Zenon DEF ReferenceRun
  <1>6. run.cur.extra_deps = IF run.opts.full_closure THEN {}
                             ELSE Bundle[run.start][run.start][l].extra_deps
    BY DEF ParsedTrue
  <1> QED
    BY <1>1, <1>2, <1>3, <1>4, <1>5, <1>6

-----------------------------------------------------------------------------
(***************************************************************************)
(* The .deps files, when all full runs list the same imports.              *)
(***************************************************************************)
\* The imports that pass 1 lists, of every library it works on.
Hints ==
  CHOOSE h \in ImportGraphs :
    /\ Files!Acyclic(h)
    /\ \A v \in Versions, o \in RunOpts : FullRun(v, o).deps = h

\* There is such a graph.
LEMMA HintsAgree ==
  ASSUME ImportsAgree
  PROVE  /\ Hints \in ImportGraphs /\ Files!Acyclic(Hints)
         /\ \A v \in Versions, o \in RunOpts : FullRun(v, o).deps = Hints
  <1>1. \E h \in ImportGraphs :
          /\ Files!Acyclic(h)
          /\ \A v \in Versions, o \in RunOpts : FullRun(v, o).deps = h
    <2>1. CASE \E v \in Versions, o \in RunOpts : TRUE
      <3>1. PICK v \in Versions, o \in RunOpts : TRUE
        BY <2>1
      <3>2. /\ FullRun(v, o).deps \in ImportGraphs /\ Files!Acyclic(FullRun(v, o).deps)
            /\ \A w \in Versions, p \in RunOpts : FullRun(w, p).deps = FullRun(v, o).deps
        BY <3>1 DEF ImportsAgree, ImportGraphs
      <3> QED
        BY <3>2
    <2>2. CASE ~\E v \in Versions, o \in RunOpts : TRUE
      <3>1. [l \in Libs |-> {}] \in ImportGraphs
        BY DEF ImportGraphs
      <3>2. Files!Acyclic([l \in Libs |-> {}])
        BY DEF Files!Acyclic
      <3> QED
        BY <2>2, <3>1, <3>2
    <2> QED
      BY <2>1, <2>2
  <1> DEFINE P(h) == /\ Files!Acyclic(h)
                     /\ \A v \in Versions, o \in RunOpts : FullRun(v, o).deps = h
  <1>2. Hints = CHOOSE h \in ImportGraphs : P(h)
    BY DEF Hints
  <1>3. \E h \in ImportGraphs : P(h)
    BY <1>1
  <1> HIDE DEF P
  <1>4. Hints \in ImportGraphs /\ P(Hints)
    BY <1>2, <1>3
  <1> QED
    BY <1>4 DEF P

\* What the files list, and what full runs would add to it.
Joint == [l \in Libs |-> DepsGraph[l] \cup Hints[l]]

\* A .deps file lists what pass 1 finds, an entry knows of it, and nothing pass 2
\* adds closes a circle with it.
HintsListed ==
  /\ \A l \in Libs : deps[l] # None => Hints[l] \subseteq deps[l]
  /\ \A l \in Libs : skip[l] # None => skip[l].deps_present \/ Hints[l] = {}

HintsKept ==
  ~Running("idle") =>
    \A l \in Work(run.opts) : ~Looping \/ Passed(l) => Hints[l] \subseteq DepsGraph[l]

MergedKept ==
  Running("merge") =>
    /\ Files!Acyclic(run.graph)
    /\ \A l \in Libs : Joint[l] \subseteq run.graph[l]

EdgesInv == HintsListed /\ HintsKept /\ MergedKept /\ Files!Acyclic(Joint)

\* Both are graphs of imports, edge for edge what they say.
LEMMA JointTyped ==
  ASSUME ImportsAgree, TypeInv
  PROVE  /\ DepsGraph \in ImportGraphs /\ Joint \in ImportGraphs /\ Hints \in ImportGraphs
         /\ \A l \in Libs : Joint[l] = DepsGraph[l] \cup Hints[l]
         /\ \A l \in Libs : DepsGraph[l] = IF deps[l] = None THEN {} ELSE deps[l]
  <1>1. deps \in [Libs -> (SUBSET Libs) \cup {None}]
    BY DEF TypeInv, TypeOK
  <1>2. DepsGraph \in ImportGraphs
    BY <1>1 DEF DepsGraph, ImportGraphs
  <1> QED
    BY <1>2, HintsAgree DEF Joint, ImportGraphs, DepsGraph

\* A step that leaves the files alone.
LEMMA EdgesStay ==
  ASSUME EdgesInv, UNCHANGED deps,
         \A l \in Libs : skip'[l] = skip[l] \/ skip'[l] = None,
         HintsKept', MergedKept'
  PROVE  EdgesInv'
  <1>1. Joint' = Joint
    BY DEF Joint, DepsGraph
  <1>2. HintsListed'
    BY DEF EdgesInv, HintsListed
  <1> QED
    BY <1>1, <1>2 DEF EdgesInv

\* The facts about a run at work that the steps below share.
LEMMA AtWork ==
  ASSUME IInv, ~Running("idle")
  PROVE  /\ IsRun(run) /\ run.opts \in RunOpts /\ run.start \in Versions
         /\ run.order = Survey[run.start].order
         /\ Len(run.order) \in Nat /\ run.next \in 1..(Len(run.order) + 1)
         /\ Work(run.opts) \subseteq Libs
         /\ LoopDone => \A l \in Work(run.opts) : Passed(l)
  <1>1. /\ IsRun(run) /\ run.opts \in RunOpts /\ run.start \in Versions
        /\ run.order = Survey[run.start].order /\ run.next \in 1..(Len(run.order) + 1)
    BY DEF IInv, DraftInv, Locals
  <1>2. Work(run.opts) \subseteq Libs
    BY <1>1, OptionsAssumption DEF Work, Options
  <1>3. /\ Len(run.order) \in Nat
        /\ \A l \in Libs : \E i \in 1..Len(run.order) : run.order[i] = l
    BY <1>1, Order
  <1>4. LoopDone => run.next - 1 = Len(run.order)
    BY <1>1, <1>3 DEF LoopDone
  <1> QED
    BY <1>1, <1>2, <1>3, <1>4 DEF Passed

\* One more library is behind the loop.
LEMMA PassedGrows ==
  ASSUME run.next \in 1..Len(run.order), Len(run.order) \in Nat,
         run'.next = run.next + 1, run'.order = run.order
  PROVE  \A k : Passed(k)' => Passed(k) \/ k = Current
  <1>1. \A i \in 1..(run'.next - 1) : i = run.next \/ i \in 1..(run.next - 1)
    OBVIOUS
  <1> QED
    BY <1>1 DEF Passed, Current

\* The steps of pass 1 that write no .deps file.
LEMMA EdgesLooping ==
  ASSUME IInv, TypeInv, EdgesInv, ImportsAgree, PassOver \/ Replay \/ ParseAndEmitInc
  PROVE  EdgesInv'
  <1>1. /\ Running("pass1") /\ run.next <= Len(run.order) /\ UNCHANGED <<deps, skip>>
        /\ IsRun(run) /\ Len(run.order) \in Nat /\ run.next \in 1..Len(run.order)
        /\ Looping /\ Current \in Libs
    <2>1. AtLoop /\ UNCHANGED <<deps, skip>>
      BY DEF PassOver, Replay, ParseAndEmitInc, AtLibrary
    <2>2. Running("pass1") /\ ~LoopDone /\ ~Running("idle")
      BY <2>1 DEF AtLoop, Running
    <2>3. /\ IsRun(run) /\ Len(run.order) \in Nat /\ run.next \in 1..(Len(run.order) + 1)
      BY <2>2, AtWork
    <2>4. run.next \in 1..Len(run.order) /\ run.next <= Len(run.order)
      BY <2>2, <2>3 DEF LoopDone
    <2>5. Current \in Libs
      BY <2>2, <2>4, CurrentTyped DEF IInv
    <2> QED
      BY <2>1, <2>2, <2>3, <2>4, <2>5 DEF Looping, Running
  <1>2. CASE PassOver
    <2>1. /\ run'.phase = "pass1" /\ run'.next = run.next + 1 /\ run'.order = run.order
          /\ run'.opts = run.opts /\ Current \notin Work(run.opts)
      BY <1>1, <1>2 DEF PassOver, IsRun, Running
    <2>2. HintsKept'
      BY <1>1, <2>1, PassedGrows
      DEF EdgesInv, HintsKept, Looping, Running, DepsGraph
    <2> QED
      BY <1>1, <2>1, <2>2, EdgesStay DEF MergedKept, Running
  <1>3. CASE Replay
    <2>1. /\ run'.phase = "pass1" /\ run'.next = run.next + 1 /\ run'.order = run.order
          /\ run'.opts = run.opts /\ Usable(Current)
      BY <1>1, <1>3 DEF Replay, IsRun, Running
    <2>2. Hints[Current] \subseteq DepsGraph[Current]
      <3>1. skip[Current] # None /\ ((deps[Current] # None) <=> skip[Current].deps_present)
        BY <2>1 DEF Usable
      <3>2. \/ deps[Current] # None /\ Hints[Current] \subseteq deps[Current]
            \/ Hints[Current] = {}
        BY <1>1, <3>1 DEF EdgesInv, HintsListed
      <3> QED
        BY <1>1, <3>2, JointTyped
    <2>3. HintsKept'
      BY <1>1, <2>1, <2>2, PassedGrows
      DEF EdgesInv, HintsKept, Looping, Running, DepsGraph
    <2> QED
      BY <1>1, <2>1, <2>3, EdgesStay DEF MergedKept, Running
  <1>4. CASE ParseAndEmitInc
    <2>1. /\ run'.phase = "parsed" /\ run'.next = run.next /\ run'.order = run.order
          /\ run'.opts = run.opts
      BY <1>1, <1>4 DEF ParseAndEmitInc, IsRun
    <2>2. HintsKept'
      BY <1>1, <2>1 DEF EdgesInv, HintsKept, Looping, Running, DepsGraph, Passed
    <2> QED
      BY <1>1, <2>1, <2>2, EdgesStay DEF MergedKept, Running
  <1> QED
    BY <1>2, <1>3, <1>4

\* Pass 1 writes the imports of the library, and no others.
LEMMA EdgesEmitted ==
  ASSUME IInv, TypeInv, TypeInv', ParsedTrue, EdgesInv, ImportsAgree, EmitDeps
  PROVE  EdgesInv'
  <1>0. PICK l : l = Current
    OBVIOUS
  <1> DEFINE imports == HintedHomes(l, run.cur.records, run.claimed) \cup run.cur.extra_deps
  <1>1. /\ Running("parsed") /\ IsRun(run) /\ Len(run.order) \in Nat
        /\ run.next \in 1..Len(run.order) /\ Looping
        /\ run.opts \in RunOpts /\ run.start \in Versions
    BY AtWork DEF EmitDeps, IInv, DraftInv, Locals, Running, Looping
  <1>2. /\ l \in Libs /\ imports = ReferenceRun.deps[l]
    BY <1>0, <1>1, ParsedIsFullRun
  <1>3. imports = Hints[l]
    BY <1>1, <1>2, HintsAgree DEF ReferenceRun
  <1>4. /\ deps' = IF imports = {} THEN deps ELSE [deps EXCEPT ![l] = imports]
        /\ UNCHANGED skip
    BY <1>0 DEF EmitDeps
  <1>5. /\ run'.phase = "pass1" /\ run'.next = run.next + 1 /\ run'.order = run.order
        /\ run'.opts = run.opts
    BY <1>1 DEF EmitDeps, IsRun
  <1> HIDE DEF imports
  <1>6. /\ deps = [k \in Libs |-> deps[k]]
        /\ DepsGraph \in ImportGraphs /\ Joint \in ImportGraphs /\ Hints \in ImportGraphs
        /\ \A k \in Libs : Joint[k] = DepsGraph[k] \cup Hints[k]
        /\ \A k \in Libs : DepsGraph[k] = IF deps[k] = None THEN {} ELSE deps[k]
    BY JointTyped DEF IInv, DraftInv, Disk
  <1>7. /\ Joint' \in ImportGraphs
        /\ \A k \in Libs : Joint'[k] = DepsGraph'[k] \cup Hints[k]
        /\ \A k \in Libs : DepsGraph'[k] = IF deps'[k] = None THEN {} ELSE deps'[k]
    <2>1. \A k \in Libs : DepsGraph'[k] = IF deps'[k] = None THEN {} ELSE deps'[k]
      BY DEF DepsGraph
    <2>2. DepsGraph' \in ImportGraphs
      BY DEF DepsGraph, ImportGraphs, TypeInv, TypeOK
    <2> QED
      BY <1>6, <2>1, <2>2 DEF Joint, ImportGraphs
  <1>8. Hints[l] \in SUBSET Libs
    BY <1>2, <1>6 DEF ImportGraphs
  <1>9. Hints[l] # None
    BY <1>8, OptionsAssumption
  <1>10. \A k \in Libs : k # l => deps'[k] = deps[k]
    BY <1>4, <1>6
  <1>11. (deps'[l] = deps[l] /\ Hints[l] = {}) \/ deps'[l] = Hints[l]
    BY <1>2, <1>3, <1>4, <1>6
  <1>12. HintsListed'
    BY <1>4, <1>10, <1>11 DEF EdgesInv, HintsListed
  <1>13. \A k \in Libs : Joint'[k] \subseteq Joint[k]
    BY <1>6, <1>7, <1>10, <1>11
  <1>14. Files!Acyclic(Joint')
    BY <1>6, <1>7, <1>13, FewerImports DEF EdgesInv
  <1>15. HintsKept'
    <2>1. Hints[l] \subseteq DepsGraph'[l]
      BY <1>2, <1>7, <1>9, <1>11
    <2>2. \A k \in Libs : k # l => DepsGraph'[k] = DepsGraph[k]
      BY <1>6, <1>7, <1>10
    <2>3. Work(run.opts) \subseteq Libs
      BY <1>1, AtWork DEF Running
    <2> QED
      BY <1>0, <1>1, <1>5, <2>1, <2>2, <2>3, PassedGrows
      DEF EdgesInv, HintsKept, Looping, Running
  <1> QED
    BY <1>5, <1>12, <1>14, <1>15 DEF EdgesInv, MergedKept, Running

\* Pass 2 starts from a graph without circles, which holds what pass 1 found.
LEMMA EdgesMerged ==
  ASSUME IInv, TypeInv, EdgesInv, ImportsAgree, Merge
  PROVE  EdgesInv'
  <1> DEFINE merged == MergedGraph(run.body, run.order, DepsGraph)
  <1>1. /\ Running("pass1") /\ LoopDone /\ UNCHANGED <<deps, skip>>
        /\ IsRun(run) /\ run.opts \in RunOpts /\ run.start \in Versions
        /\ \A l \in Work(run.opts) : Passed(l)
        /\ run.body \in [Libs -> SUBSET Libs] /\ run.order \in Seq(Libs)
    BY AtWork DEF Merge, TypeInv, TypeOK, IsLocals, Running
  <1>2. /\ run'.phase = "merge" /\ run'.graph = merged /\ run'.opts = run.opts
    BY <1>1 DEF Merge, IsRun
  <1>3. Completes(merged, DepsGraph)
    BY <1>1, JointTyped, AllTaken
  <1> HIDE DEF merged
  <1>4. \A l \in Libs : Hints[l] \subseteq DepsGraph[l]
    <2>1. \A l \in Work(run.opts) : Hints[l] \subseteq DepsGraph[l]
      BY <1>1 DEF EdgesInv, HintsKept, Running
    <2>2. \A l \in Libs \ Work(run.opts) : Hints[l] = {}
      <3>1. Len(Survey[run.start].order) \in 0..Len(Survey[run.start].order)
        BY <1>1, Order
      <3>2. FullShape(run.start, run.opts, Len(Survey[run.start].order))
        BY <1>1, <3>1, FullShaped
      <3>3. \A l \in Libs \ Work(run.opts) : FullRun(run.start, run.opts).deps[l] = {}
        BY <3>2 DEF FullShape, FullRun
      <3> QED
        BY <1>1, <3>3, HintsAgree
    <2> QED
      BY <2>1, <2>2
  <1>5. Files!Acyclic(DepsGraph)
    <2>1. \A l \in Libs : DepsGraph[l] \subseteq Joint[l]
      BY JointTyped
    <2> QED
      BY <2>1, JointTyped, FewerImports DEF EdgesInv
  <1>6. MergedKept'
    <2>1. Files!Acyclic(merged) /\ \A l \in Libs : DepsGraph[l] \subseteq merged[l]
      BY <1>3, <1>5 DEF Completes
    <2>2. Joint' = Joint
      BY <1>1 DEF Joint, DepsGraph
    <2> QED
      BY <1>2, <1>4, <2>1, <2>2, JointTyped DEF MergedKept
  <1>7. HintsKept'
    BY <1>1, <1>2, <1>4, AtWork DEF HintsKept, DepsGraph, Running
  <1> QED
    BY <1>1, <1>6, <1>7, EdgesStay

\* Pass 2 writes one row of its graph.
LEMMA EdgesWritten ==
  ASSUME IInv, TypeInv, TypeInv', EdgesInv, ImportsAgree, WriteMergedDeps
  PROVE  EdgesInv'
  <1>0. PICK l : l = FirstOf(run.pending)
    OBVIOUS
  <1>1. /\ Running("merge") /\ IsRun(run) /\ UNCHANGED skip
        /\ deps' = [deps EXCEPT ![l] = run.graph[l]]
        /\ l \in Libs /\ run.graph \in ImportGraphs /\ run.opts \in RunOpts
    <2>1. /\ Running("merge") /\ run.pending # {} /\ UNCHANGED skip
          /\ deps' = [deps EXCEPT ![l] = run.graph[l]]
      BY <1>0 DEF WriteMergedDeps
    <2>2. ~Running("idle") /\ Locals /\ run.pending \subseteq Libs
      BY <2>1 DEF Running, IInv, DraftInv, TypeInv, TypeOK, IsLocals
    <2>3. l \in Libs
      BY <1>0, <2>1, <2>2, FirstOfMember
    <2> QED
      BY <2>1, <2>2, <2>3, AtWork DEF TypeInv, Prepared
  <1>2. run'.phase = "merge" /\ run'.graph = run.graph /\ run'.opts = run.opts
    BY <1>1 DEF WriteMergedDeps, IsRun, Running
  <1>3. /\ deps = [k \in Libs |-> deps[k]]
        /\ DepsGraph \in ImportGraphs /\ Joint \in ImportGraphs /\ Hints \in ImportGraphs
        /\ \A k \in Libs : Joint[k] = DepsGraph[k] \cup Hints[k]
        /\ \A k \in Libs : DepsGraph[k] = IF deps[k] = None THEN {} ELSE deps[k]
    BY JointTyped DEF IInv, DraftInv, Disk
  <1>4. /\ Joint' \in ImportGraphs
        /\ \A k \in Libs : Joint'[k] = DepsGraph'[k] \cup Hints[k]
        /\ \A k \in Libs : DepsGraph'[k] = IF deps'[k] = None THEN {} ELSE deps'[k]
    <2>1. \A k \in Libs : DepsGraph'[k] = IF deps'[k] = None THEN {} ELSE deps'[k]
      BY DEF DepsGraph
    <2>2. DepsGraph' \in ImportGraphs
      BY DEF DepsGraph, ImportGraphs, TypeInv, TypeOK
    <2> QED
      BY <1>3, <2>1, <2>2 DEF Joint, ImportGraphs
  <1>5. /\ Files!Acyclic(run.graph)
        /\ \A k \in Libs : DepsGraph[k] \subseteq run.graph[k] /\ Hints[k] \subseteq run.graph[k]
    BY <1>1, <1>3 DEF EdgesInv, MergedKept
  <1>6. run.graph[l] # None
    BY <1>1, OptionsAssumption DEF ImportGraphs
  <1>7. /\ deps'[l] = run.graph[l] /\ DepsGraph'[l] = run.graph[l]
        /\ \A k \in Libs : k # l => deps'[k] = deps[k] /\ DepsGraph'[k] = DepsGraph[k]
    BY <1>1, <1>3, <1>4, <1>6
  <1>8. \A k \in Libs : Joint'[k] \subseteq run.graph[k]
    BY <1>3, <1>4, <1>5, <1>7
  <1>9. Files!Acyclic(Joint')
    BY <1>1, <1>4, <1>5, <1>8, FewerImports
  <1>10. HintsListed'
    BY <1>1, <1>5, <1>7 DEF EdgesInv, HintsListed
  <1>11. HintsKept'
    <2>1. \A k \in Work(run.opts) : Hints[k] \subseteq DepsGraph[k] /\ k \in Libs
      BY <1>1, AtWork DEF EdgesInv, HintsKept, Running, Looping
    <2> QED
      BY <1>2, <1>5, <1>7, <2>1 DEF HintsKept
  <1> QED
    BY <1>2, <1>5, <1>8, <1>9, <1>10, <1>11 DEF EdgesInv, MergedKept

\* The steps after pass 2 leave the .deps files alone.
LEMMA EdgesCached ==
  ASSUME IInv, TypeInv, EdgesInv, ImportsAgree,
         \/ MergeDone \/ (\E l \in Libs : DropCacheEntry(l)) \/ WriteCacheEntry
         \/ CacheDone \/ EmitCppm
  PROVE  EdgesInv'
  <1> USE DEF Running
  <1>1. ~Running("idle") /\ UNCHANGED deps /\ run.phase \notin {"pass1", "parsed"}
    BY DEF MergeDone, DropCacheEntry, WriteCacheEntry, CacheDone, EmitCppm
  <1>2. IsRun(run) /\ Work(run.opts) \subseteq Libs
    BY <1>1, AtWork
  <1>3. /\ run'.opts = run.opts
        /\ run'.phase \in {"cache", "emit"}
    <2>1. CASE MergeDone
      BY <1>2, <2>1 DEF MergeDone, IsRun
    <2>2. CASE (\E l \in Libs : DropCacheEntry(l)) \/ WriteCacheEntry
      BY <1>2, <2>2 DEF DropCacheEntry, WriteCacheEntry, IsRun
    <2>3. CASE CacheDone \/ EmitCppm
      BY <1>2, <2>3 DEF CacheDone, EmitCppm, IsRun
    <2> QED
      BY <2>1, <2>2, <2>3
  <1>4. HintsKept' /\ MergedKept'
    BY <1>1, <1>3 DEF EdgesInv, HintsKept, MergedKept, DepsGraph, Looping
  <1>5. CASE WriteCacheEntry
    <2>0. PICK l : l = FirstOf(run.pending)
      OBVIOUS
    <2>1. /\ Running("cache") /\ run.pending # {} /\ ~run.added
          /\ skip' = [skip EXCEPT ![l] =
                       [key |-> run.payload[l].key, claims |-> run.payload[l].claims,
                        inject_claims |-> run.payload[l].inject_claims,
                        deps_present |-> deps[l] # None]]
          /\ skip = [k \in Libs |-> skip[k]]
      BY <1>5, <2>0 DEF WriteCacheEntry, IInv, DraftInv, Disk
    <2>2. l \in Work(run.opts) /\ l \in Libs
      <3>1. Locals /\ run.pending \subseteq Libs /\ run.pending \subseteq Work(run.opts)
        BY <1>1, <2>1 DEF IInv, DraftInv, PayloadsTrue
      <3> QED
        BY <1>1, <1>2, <2>0, <2>1, <3>1, FirstOfMember
    <2>3. Hints[l] \subseteq DepsGraph[l]
      BY <1>1, <2>2 DEF EdgesInv, HintsKept, Looping
    <2>4. skip'[l].deps_present \/ Hints[l] = {}
      BY <2>1, <2>2, <2>3, JointTyped
    <2>5. HintsListed'
      BY <1>1, <2>1, <2>2, <2>4 DEF EdgesInv, HintsListed
    <2>6. Joint' = Joint
      BY <1>1 DEF Joint, DepsGraph
    <2> QED
      BY <1>4, <2>5, <2>6 DEF EdgesInv
  <1>6. CASE ~WriteCacheEntry
    <2>1. \A l \in Libs : skip'[l] = skip[l] \/ skip'[l] = None
      BY <1>6 DEF MergeDone, DropCacheEntry, CacheDone, EmitCppm, IInv, DraftInv, Disk
    <2> QED
      BY <1>1, <1>4, <2>1, EdgesStay
  <1> QED
    BY <1>5, <1>6

\* What the users do takes imports away, if anything.
LEMMA EdgesLeft ==
  ASSUME IInv, TypeInv, TypeInv', EdgesInv, ImportsAgree,
         \/ Return \/ ParseFails \/ Kill \/ (\E v \in Versions : EditHeaders(v))
         \/ (\E l \in Libs : LoseOutput(l)) \/ (\E o \in RunOpts : Start(o))
         \/ UNCHANGED vars
  PROVE  EdgesInv'
  <1> USE DEF Running
  <1>1. CASE Return \/ ParseFails \/ Kill
    <2>1. UNCHANGED <<deps, skip>> /\ run'.phase = "idle"
      BY <1>1 DEF Return, ParseFails, Kill, End, Idle
    <2> QED
      BY <2>1, EdgesStay DEF HintsKept, MergedKept
  <1>2. CASE (\E v \in Versions : EditHeaders(v)) \/ UNCHANGED vars
    <2>1. UNCHANGED <<deps, skip, run>>
      BY <1>2 DEF EditHeaders, vars
    <2>2. UNCHANGED Joint /\ HintsKept' /\ MergedKept'
      BY <2>1 DEF EdgesInv, HintsKept, MergedKept, Joint, DepsGraph, Looping, Passed
    <2> QED
      BY <2>1, <2>2, EdgesStay
  <1>3. CASE \E o \in RunOpts : Start(o)
    <2>1. UNCHANGED <<deps, skip>> /\ run'.phase = "pass1" /\ run'.next = 1
      BY <1>3 DEF Start
    <2> QED
      BY <2>1, EdgesStay DEF HintsKept, MergedKept, Looping, Passed
  <1>4. CASE \E l \in Libs : LoseOutput(l)
    <2>1. PICK l \in Libs : LoseOutput(l)
      BY <1>4
    <2>2. /\ UNCHANGED <<skip, run>> /\ Running("idle")
          /\ \A k \in Libs : deps'[k] = deps[k] \/ deps'[k] = None
      BY <2>1 DEF LoseOutput, IInv, DraftInv, Disk
    <2>3. HintsListed' /\ HintsKept' /\ MergedKept'
      BY <2>2 DEF EdgesInv, HintsListed, HintsKept, MergedKept
    <2>4. /\ Joint \in ImportGraphs
          /\ \A k \in Libs : Joint[k] = DepsGraph[k] \cup Hints[k]
          /\ \A k \in Libs : DepsGraph[k] = IF deps[k] = None THEN {} ELSE deps[k]
      BY JointTyped
    <2>5. /\ Joint' \in ImportGraphs
          /\ \A k \in Libs : Joint'[k] = DepsGraph'[k] \cup Hints[k]
          /\ \A k \in Libs : DepsGraph'[k] = IF deps'[k] = None THEN {} ELSE deps'[k]
      <3>1. \A k \in Libs : DepsGraph'[k] = IF deps'[k] = None THEN {} ELSE deps'[k]
        BY DEF DepsGraph
      <3>2. DepsGraph' \in ImportGraphs
        BY DEF DepsGraph, ImportGraphs, TypeInv, TypeOK
      <3> QED
        BY <3>1, <3>2, HintsAgree DEF Joint, ImportGraphs
    <2>6. \A k \in Libs : Joint'[k] \subseteq Joint[k]
      BY <2>2, <2>4, <2>5
    <2>7. Files!Acyclic(Joint')
      BY <2>4, <2>5, <2>6, FewerImports DEF EdgesInv
    <2> QED
      BY <2>3, <2>7 DEF EdgesInv
  <1> QED
    BY <1>1, <1>2, <1>3, <1>4

\* The files and the pass-1 imports together never form a circle.
LEMMA EdgesInvariance ==
  ASSUME Orderly, ImportsAgree
  PROVE  Spec => []EdgesInv
  <1>1. Init => EdgesInv
    <2> SUFFICES ASSUME Init PROVE EdgesInv
      OBVIOUS
    <2>1. /\ run.phase = "idle" /\ \A l \in Libs : deps[l] = None /\ skip[l] = None
      BY DEF Init, Idle
    <2>2. Joint = Hints
      BY <2>1, HintsAgree DEF Joint, DepsGraph, ImportGraphs
    <2> QED
      BY <2>1, <2>2, HintsAgree
      DEF EdgesInv, HintsListed, HintsKept, MergedKept, Running
  <1>2. /\ IInv /\ TypeInv /\ ParsedTrue /\ EdgesInv /\ IInv' /\ TypeInv' /\ [Next]_vars
        => EdgesInv'
    <2> SUFFICES ASSUME IInv, TypeInv, ParsedTrue, EdgesInv, IInv', TypeInv', [Next]_vars
                 PROVE  EdgesInv'
      OBVIOUS
    <2>1. CASE PassOver \/ Replay \/ ParseAndEmitInc
      BY <2>1, EdgesLooping
    <2>2. CASE EmitDeps
      BY <2>2, EdgesEmitted
    <2>3. CASE Merge
      BY <2>3, EdgesMerged
    <2>4. CASE WriteMergedDeps
      BY <2>4, EdgesWritten
    <2>5. CASE \/ MergeDone \/ (\E l \in Libs : DropCacheEntry(l)) \/ WriteCacheEntry
               \/ CacheDone \/ EmitCppm
      BY <2>5, EdgesCached
    <2>6. CASE \/ Return \/ ParseFails \/ Kill \/ (\E v \in Versions : EditHeaders(v))
               \/ (\E l \in Libs : LoseOutput(l)) \/ (\E o \in RunOpts : Start(o))
               \/ UNCHANGED vars
      BY <2>6, EdgesLeft
    <2> QED
      BY <2>1, <2>2, <2>3, <2>4, <2>5, <2>6 DEF Next, Generator, Users
  <1> QED
    BY <1>1, <1>2, Inductive, TypeInvariance, ParsedInvariance, PTL DEF Spec

\* When every full run lists the same imports and these form no circle, neither do
\* the .deps files, whatever was replayed, lost, killed or started in between: no
\* edge that merge_body_edges adds closes one with an import that pass 1 finds.
THEOREM NoImportCircles ==
  ASSUME Orderly, ImportsAgree
  PROVE  Spec => []DepsAcyclic
  <1>1. TypeInv /\ EdgesInv => DepsAcyclic
    <2> SUFFICES ASSUME TypeInv, EdgesInv PROVE Files!Acyclic(DepsGraph)
      BY DEF DepsAcyclic
    <2>1. /\ DepsGraph \in ImportGraphs /\ Joint \in ImportGraphs
          /\ \A l \in Libs : DepsGraph[l] \subseteq Joint[l]
      BY JointTyped
    <2> QED
      BY <2>1, FewerImports DEF EdgesInv
  <1> QED
    BY <1>1, TypeInvariance, EdgesInvariance, PTL

-----------------------------------------------------------------------------
(***************************************************************************)
(* What exported bodies mention, when no run reads the cache.              *)
(***************************************************************************)
Whole(o) == o.libs = Libs

\* The candidates of l in merge_body_edges, as a full run finds them.
BodyOf(v, o, l) ==
  {Owner[u[2]] : u \in Mentions(v, FullRun(v, o).inc[l]) \ FullRun(v, o).inc[l]}
    \ {l, Shared}

AllLinked(g, v, o) == \A l \in Work(o) : \A home \in BodyOf(v, o, l) : Linked(g, l, home)

\* The candidates are those of the full run; once taken, they are linked in the
\* graph, then in the files, and stay so until a file of the run is lost.
BodiesTrue ==
  ~Running("idle") /\ Whole(run.opts) =>
    \A l \in Work(run.opts) :
      ~Looping \/ Passed(l) => run.body[l] = BodyOf(run.start, run.opts, l)

GraphLinked ==
  Running("merge") =>
    /\ Whole(run.opts) => AllLinked(run.graph, run.start, run.opts)
    /\ \A l \in Libs : l \in run.pending \/ run.graph[l] = DepsGraph[l]

FilesLinked ==
  /\ (Running("cache") \/ Running("emit")) /\ Whole(run.opts) =>
       AllLinked(DepsGraph, run.start, run.opts)
  /\ Running("idle") /\ last # None =>
       (last.outcome = "ok" /\ Whole(last.opts)
          /\ (\A l \in Libs \ Special : inc[l] # None) =>
        AllLinked(DepsGraph, last.rev, last.opts))

SpecialUnwritten == \A l \in Special : inc[l] = None

LinksInv == BodiesTrue /\ GraphLinked /\ FilesLinked /\ SpecialUnwritten

\* Without the cache every library of the run is parsed.
LEMMA LinksLooping ==
  ASSUME BodiesRead, IInv, TypeInv, LinksInv, PassOver \/ Replay \/ ParseAndEmitInc
  PROVE  LinksInv'
  <1>1. /\ Running("pass1") /\ IsRun(run) /\ Len(run.order) \in Nat
        /\ run.next \in 1..Len(run.order) /\ Looping /\ run.opts \in RunOpts
    <2>1. Running("pass1") /\ ~LoopDone /\ ~Running("idle")
      BY DEF PassOver, Replay, ParseAndEmitInc, AtLibrary, AtLoop, Running
    <2>2. /\ IsRun(run) /\ Len(run.order) \in Nat /\ run.next \in 1..(Len(run.order) + 1)
          /\ run.opts \in RunOpts
      BY <2>1, AtWork
    <2> QED
      BY <2>1, <2>2 DEF LoopDone, Looping, Running
  <1>2. ~Replay
    BY <1>1 DEF BodiesRead, Replay, Usable
  <1>3. CASE PassOver
    <2>1. /\ run'.phase = "pass1" /\ run'.next = run.next + 1 /\ run'.order = run.order
          /\ run'.opts = run.opts /\ run'.body = run.body /\ run'.start = run.start
          /\ Current \notin Work(run.opts) /\ inc' = inc
      BY <1>1, <1>3 DEF PassOver, IsRun, Running
    <2>2. BodiesTrue'
      BY <1>1, <2>1, PassedGrows DEF LinksInv, BodiesTrue, Looping, Running
    <2> QED
      BY <2>1, <2>2 DEF LinksInv, GraphLinked, FilesLinked, SpecialUnwritten, Running
  <1>4. CASE ParseAndEmitInc
    <2>1. /\ run'.phase = "parsed" /\ run'.next = run.next /\ run'.order = run.order
          /\ run'.opts = run.opts /\ run'.body = run.body /\ run'.start = run.start
      BY <1>1, <1>4 DEF ParseAndEmitInc, IsRun
    <2>2. BodiesTrue'
      BY <1>1, <2>1 DEF LinksInv, BodiesTrue, Looping, Running, Passed
    <2>3. \A l \in Special : inc'[l] = inc[l]
      BY <1>4 DEF ParseAndEmitInc, AtLibrary, Work, IInv, DraftInv, Disk
    <2> QED
      BY <2>1, <2>2, <2>3 DEF LinksInv, GraphLinked, FilesLinked, SpecialUnwritten, Running
  <1> QED
    BY <1>2, <1>3, <1>4

\* The candidates of the library that was parsed.
LEMMA LinksEmitted ==
  ASSUME BodiesRead, IInv, TypeInv, ParsedTrue, LinksInv, EmitDeps
  PROVE  LinksInv'
  <1>0. PICK l : l = Current
    OBVIOUS
  <1>1. /\ Running("parsed") /\ IsRun(run) /\ Len(run.order) \in Nat
        /\ run.next \in 1..Len(run.order) /\ Looping
        /\ run.opts \in RunOpts /\ run.start \in Versions
    BY AtWork DEF EmitDeps, IInv, DraftInv, Locals, Running, Looping
  <1>2. /\ run'.phase = "pass1" /\ run'.next = run.next + 1 /\ run'.order = run.order
        /\ run'.opts = run.opts /\ run'.start = run.start
        /\ run'.body = [run.body EXCEPT ![l] =
              IF run.opts.full_closure \/ run.opts.no_body_deps THEN {}
              ELSE BodyEdges(run.cur.text, l, run.cur.records, run.claimed)]
        /\ inc' = inc
    BY <1>0, <1>1 DEF EmitDeps, IsRun
  <1>3. l \in Libs /\ l \in Work(run.opts)
    BY <1>0, <1>1, ParsedIsFullRun
  <1>4. run.body \in [Libs -> SUBSET Libs]
    BY <1>1 DEF TypeInv, TypeOK, IsLocals, Running
  <1>5. Whole(run.opts) => run'.body[l] = BodyOf(run.start, run.opts, l)
    <2> SUFFICES ASSUME Whole(run.opts) PROVE run'.body[l] = BodyOf(run.start, run.opts, l)
      OBVIOUS
    <2>1. ~run.opts.full_closure /\ ~run.opts.no_body_deps
      BY <1>1 DEF BodiesRead, Whole
    <2>2. run'.body[l] = BodyEdges(run.cur.text, l, run.cur.records, run.claimed)
      BY <1>2, <1>3, <1>4, <2>1
    <2>3. Exported(l, run.cur.records, run.claimed) = FullRun(run.start, run.opts).inc[l]
      BY <1>0, <1>1, <2>1, ParsedIsFullRun DEF ReferenceRun
    <2>4. run.cur.text = run.start
      BY <1>1 DEF ParsedTrue
    <2> QED
      BY <2>2, <2>3, <2>4 DEF BodyEdges, BodyOf
  <1>6. \A k \in Work(run.opts) : k # l => run'.body[k] = run.body[k]
    BY <1>2, <1>4
  <1>7. BodiesTrue'
    BY <1>0, <1>1, <1>2, <1>5, <1>6, PassedGrows
    DEF LinksInv, BodiesTrue, Looping, Running
  <1> QED
    BY <1>2, <1>7 DEF LinksInv, GraphLinked, FilesLinked, SpecialUnwritten, Running

\* Pass 2 links all candidates, whatever the files listed before.
LEMMA LinksMerged ==
  ASSUME IInv, TypeInv, LinksInv, Merge
  PROVE  LinksInv'
  <1> DEFINE merged == MergedGraph(run.body, run.order, DepsGraph)
             grown  == {l \in Libs : merged[l] # DepsGraph[l]}
  <1>1. /\ Running("pass1") /\ LoopDone /\ UNCHANGED <<deps, inc>>
        /\ IsRun(run) /\ run.opts \in RunOpts /\ run.start \in Versions
        /\ run.order = Survey[run.start].order /\ Work(run.opts) \subseteq Libs
        /\ \A l \in Work(run.opts) : Passed(l)
        /\ run.body \in [Libs -> SUBSET Libs] /\ run.order \in Seq(Libs)
    BY AtWork DEF Merge, TypeInv, TypeOK, IsLocals, Running
  <1>2. /\ run'.phase = "merge" /\ run'.graph = merged /\ run'.pending = grown
        /\ run'.opts = run.opts /\ run'.start = run.start /\ run'.body = run.body
    BY <1>1 DEF Merge, IsRun
  <1>3. deps \in [Libs -> (SUBSET Libs) \cup {None}]
    BY DEF TypeInv, TypeOK
  <1>4. DepsGraph \in ImportGraphs
    BY <1>3 DEF DepsGraph, ImportGraphs
  <1>5. \A i \in 1..Len(run.order) : \A home \in run.body[run.order[i]] :
          Linked(merged, run.order[i], home)
    BY <1>1, <1>4, AllTaken
  <1> HIDE DEF merged
  <1>6. \A l \in Libs : \E i \in 1..Len(run.order) : run.order[i] = l
    BY <1>1, Order
  <1>7. Whole(run.opts) => AllLinked(merged, run.start, run.opts)
    <2> SUFFICES ASSUME Whole(run.opts), NEW l \in Work(run.opts),
                        NEW home \in BodyOf(run.start, run.opts, l)
                 PROVE  Linked(merged, l, home)
      BY DEF AllLinked
    <2>1. run.body[l] = BodyOf(run.start, run.opts, l)
      BY <1>1 DEF LinksInv, BodiesTrue, Running
    <2>2. PICK i \in 1..Len(run.order) : run.order[i] = l
      BY <1>1, <1>6
    <2> QED
      BY <1>5, <2>1, <2>2
  <1>8. GraphLinked'
    BY <1>1, <1>2, <1>7 DEF GraphLinked, DepsGraph
  <1>9. BodiesTrue'
    BY <1>1, <1>2 DEF LinksInv, BodiesTrue, Running
  <1> QED
    BY <1>1, <1>2, <1>8, <1>9 DEF LinksInv, FilesLinked, SpecialUnwritten, Running

\* What is still to be written is pending.
LEMMA LinksWritten ==
  ASSUME IInv, TypeInv, LinksInv, WriteMergedDeps
  PROVE  LinksInv'
  <1>0. PICK l : l = FirstOf(run.pending)
    OBVIOUS
  <1>1. /\ Running("merge") /\ run.pending # {} /\ UNCHANGED inc
        /\ deps' = [deps EXCEPT ![l] = run.graph[l]]
        /\ run' = [run EXCEPT !.pending = @ \ {l}]
    BY <1>0 DEF WriteMergedDeps
  <1>2. ~Running("idle") /\ Locals /\ run.pending \subseteq Libs
    BY <1>1 DEF Running, IInv, DraftInv, TypeInv, TypeOK, IsLocals
  <1>3. l \in Libs /\ IsRun(run) /\ run.graph \in ImportGraphs
    BY <1>0, <1>1, <1>2, FirstOfMember, AtWork DEF TypeInv, Prepared
  <1>4. /\ run'.phase = "merge" /\ run'.graph = run.graph /\ run'.opts = run.opts
        /\ run'.start = run.start /\ run'.body = run.body /\ run'.pending = run.pending \ {l}
    BY <1>1, <1>3 DEF IsRun, Running
  <1>5. run.graph[l] # None
    BY <1>3, OptionsAssumption DEF ImportGraphs
  <1>6. deps = [k \in Libs |-> deps[k]]
    BY DEF IInv, DraftInv, Disk
  <1>7. deps'[l] = run.graph[l] /\ \A k \in Libs : k # l => deps'[k] = deps[k]
    BY <1>1, <1>3, <1>6
  <1>8. /\ DepsGraph'[l] = run.graph[l]
        /\ \A k \in Libs : k # l => DepsGraph'[k] = DepsGraph[k]
    BY <1>3, <1>5, <1>7 DEF DepsGraph
  <1>9. GraphLinked'
    BY <1>1, <1>4, <1>8 DEF LinksInv, GraphLinked
  <1>10. BodiesTrue'
    BY <1>1, <1>4 DEF LinksInv, BodiesTrue, Looping, Running
  <1> QED
    BY <1>1, <1>4, <1>9, <1>10 DEF LinksInv, FilesLinked, SpecialUnwritten, Running

\* All of the graph is in the files.
LEMMA LinksCached ==
  ASSUME IInv, TypeInv, LinksInv,
         \/ MergeDone \/ (\E l \in Libs : DropCacheEntry(l)) \/ WriteCacheEntry
         \/ CacheDone \/ EmitCppm
  PROVE  LinksInv'
  <1> USE DEF Running
  <1>1. /\ ~Running("idle") /\ UNCHANGED <<deps, inc>>
        /\ run.phase \in {"merge", "cache", "emit"}
    BY DEF MergeDone, DropCacheEntry, WriteCacheEntry, CacheDone, EmitCppm
  <1>2. IsRun(run)
    BY <1>1, AtWork
  <1>3. /\ run'.opts = run.opts /\ run'.start = run.start /\ run'.body = run.body
        /\ run'.phase \in {"cache", "emit"}
    <2>1. CASE MergeDone
      BY <1>2, <2>1 DEF MergeDone, IsRun
    <2>2. CASE (\E l \in Libs : DropCacheEntry(l)) \/ WriteCacheEntry
      BY <1>2, <2>2 DEF DropCacheEntry, WriteCacheEntry, IsRun
    <2>3. CASE CacheDone \/ EmitCppm
      BY <1>2, <2>3 DEF CacheDone, EmitCppm, IsRun
    <2> QED
      BY <2>1, <2>2, <2>3
  <1>4. DepsGraph' = DepsGraph
    BY <1>1 DEF DepsGraph
  <1>5. Whole(run.opts) => AllLinked(DepsGraph, run.start, run.opts)
    <2>1. CASE run.phase = "merge"
      <3>1. run.pending = {} /\ run.graph \in ImportGraphs
        BY <2>1 DEF MergeDone, DropCacheEntry, WriteCacheEntry, CacheDone, EmitCppm,
                    TypeInv, Prepared
      <3>2. \A l \in Libs : run.graph[l] = DepsGraph[l]
        BY <2>1, <3>1 DEF LinksInv, GraphLinked
      <3>3. run.graph = DepsGraph
        BY <3>1, <3>2 DEF DepsGraph, ImportGraphs
      <3> QED
        BY <2>1, <3>3 DEF LinksInv, GraphLinked
    <2>2. CASE run.phase # "merge"
      BY <1>1, <2>2 DEF LinksInv, FilesLinked
    <2> QED
      BY <2>1, <2>2
  <1>6. FilesLinked'
    BY <1>3, <1>4, <1>5 DEF FilesLinked
  <1>7. BodiesTrue'
    BY <1>1, <1>3 DEF LinksInv, BodiesTrue, Looping
  <1> QED
    BY <1>1, <1>3, <1>6, <1>7 DEF LinksInv, GraphLinked, SpecialUnwritten

\* Only the loss of a file undoes what the run left.
LEMMA LinksLeft ==
  ASSUME IInv, TypeInv, LinksInv,
         \/ Return \/ ParseFails \/ Kill \/ (\E v \in Versions : EditHeaders(v))
         \/ (\E l \in Libs : LoseOutput(l)) \/ (\E o \in RunOpts : Start(o))
         \/ UNCHANGED vars
  PROVE  LinksInv'
  <1> USE DEF Running
  <1>1. CASE Return
    <2>1. /\ UNCHANGED <<deps, inc>> /\ run'.phase = "idle" /\ run.phase = "emit"
          /\ last'.opts = run.opts /\ last'.rev = run.start
      BY <1>1 DEF Return, End, Idle
    <2>2. DepsGraph' = DepsGraph
      BY <2>1 DEF DepsGraph
    <2>3. FilesLinked'
      BY <2>1, <2>2 DEF LinksInv, FilesLinked
    <2> QED
      BY <2>1, <2>3 DEF LinksInv, BodiesTrue, GraphLinked, SpecialUnwritten
  <1>2. CASE ParseFails \/ Kill
    <2>1. /\ UNCHANGED inc /\ run'.phase = "idle" /\ last'.outcome # "ok"
      BY <1>2 DEF ParseFails, Kill, End, Idle
    <2> QED
      BY <2>1 DEF LinksInv, BodiesTrue, GraphLinked, FilesLinked, SpecialUnwritten
  <1>3. CASE (\E v \in Versions : EditHeaders(v)) \/ UNCHANGED vars
    <2>1. UNCHANGED <<deps, inc, run, last>>
      BY <1>3 DEF EditHeaders, vars
    <2>2. DepsGraph' = DepsGraph
      BY <2>1 DEF DepsGraph
    <2> QED
      BY <2>1, <2>2
      DEF LinksInv, BodiesTrue, GraphLinked, FilesLinked, SpecialUnwritten, Looping, Passed
  <1>4. CASE \E o \in RunOpts : Start(o)
    <2>1. UNCHANGED inc /\ run'.phase = "pass1" /\ run'.next = 1
      BY <1>4 DEF Start
    <2> QED
      BY <2>1 DEF LinksInv, BodiesTrue, GraphLinked, FilesLinked, SpecialUnwritten,
                  Looping, Passed
  <1>5. CASE \E l \in Libs : LoseOutput(l)
    <2>1. PICK l \in Libs : LoseOutput(l)
      BY <1>5
    <2>2. /\ UNCHANGED run /\ run.phase = "idle" /\ inc[l] # None
          /\ inc'[l] = None /\ \A k \in Libs : k # l => inc'[k] = inc[k]
      BY <2>1 DEF LoseOutput, IInv, DraftInv, Disk
    <2>3. l \in Libs \ Special
      BY <2>2 DEF LinksInv, SpecialUnwritten
    <2> QED
      BY <2>2, <2>3, OptionsAssumption
      DEF LinksInv, BodiesTrue, GraphLinked, FilesLinked, SpecialUnwritten
  <1> QED
    BY <1>1, <1>2, <1>3, <1>4, <1>5

\* The candidates of a run over all libraries stay linked.
LEMMA LinksInvariance ==
  ASSUME Orderly, BodiesRead
  PROVE  Spec => []LinksInv
  <1>1. Init => LinksInv
    BY OptionsAssumption
    DEF Init, Idle, LinksInv, BodiesTrue, GraphLinked, FilesLinked, SpecialUnwritten, Running
  <1>2. IInv /\ TypeInv /\ ParsedTrue /\ LinksInv /\ [Next]_vars => LinksInv'
    <2> SUFFICES ASSUME IInv, TypeInv, ParsedTrue, LinksInv, [Next]_vars
                 PROVE  LinksInv'
      OBVIOUS
    <2>1. CASE PassOver \/ Replay \/ ParseAndEmitInc
      BY <2>1, LinksLooping
    <2>2. CASE EmitDeps
      BY <2>2, LinksEmitted
    <2>3. CASE Merge
      BY <2>3, LinksMerged
    <2>4. CASE WriteMergedDeps
      BY <2>4, LinksWritten
    <2>5. CASE \/ MergeDone \/ (\E l \in Libs : DropCacheEntry(l)) \/ WriteCacheEntry
               \/ CacheDone \/ EmitCppm
      BY <2>5, LinksCached
    <2>6. CASE \/ Return \/ ParseFails \/ Kill \/ (\E v \in Versions : EditHeaders(v))
               \/ (\E l \in Libs : LoseOutput(l)) \/ (\E o \in RunOpts : Start(o))
               \/ UNCHANGED vars
      BY <2>6, LinksLeft
    <2> QED
      BY <2>1, <2>2, <2>3, <2>4, <2>5, <2>6 DEF Next, Generator, Users
  <1> QED
    BY <1>1, <1>2, Inductive, TypeInvariance, ParsedInvariance, PTL DEF Spec

\* A library exports what its records hold of its own.
LEMMA OwnersExport ==
  ASSUME NEW v \in Versions, NEW o \in RunOpts, NEW l \in Work(o), NEW h \in Headers,
         Owner[h] = l, Decl(h) \in FullRun(v, o).records[l]
  PROVE  Decl(h) \in FullRun(v, o).inc[l]
  <1>1. l \in Libs
    BY OptionsAssumption DEF Work, Options
  <1>2. PICK n \in 1..Len(Survey[v].order) : Survey[v].order[n] = l
    BY <1>1, Order
  <1>3. FullRun(v, o).inc[l] = Exported(l, RecordsAt(v, o, n), ClaimedAt(v, o, n))
    BY <1>2, FullPlace
  <1>4. FullRun(v, o).records[l] = RecordsAt(v, o, n)
    BY <1>2, FullPlace
  <1>5. Home(l, Decl(h)) = l
    BY DEF Home, Decl
  <1> QED
    BY <1>3, <1>4, <1>5 DEF Exported

\* Where the files link what a full run finds in bodies, an import reaches it.
LEMMA LinkedIsImportable ==
  ASSUME IInv, OwnersDeclare,
         Settled /\ last.opts.libs = Libs /\ (\A l \in Libs \ Special : inc[l] # None)
           => AllLinked(DepsGraph, rev, last.opts)
  PROVE  MentionsImportable
  <1> SUFFICES ASSUME Settled, last.opts.libs = Libs,
                      \A l \in Libs \ Special : inc[l] # None,
                      NEW l \in Libs \ Special, NEW u \in Mentions(rev, inc[l]),
                      Owner[u[2]] # Shared
               PROVE  u \in Visible(l) \/ l \in ImportsOf(Owner[u[2]])
    BY DEF MentionsImportable
  <1> DEFINE w == Owner[u[2]]
             o == last.opts
  <1>1. /\ Running("idle") /\ last # None /\ last.outcome = "ok" /\ last.rev = rev
        /\ o \in RunOpts /\ rev \in Versions
    BY DEF Settled, IInv, DraftInv, Disk
  <1>2. Work(o) = Libs \ Special
    BY DEF Work
  <1>3. \A k \in Libs \ Special : inc[k] = FullRun(rev, o).inc[k]
    BY <1>1, <1>2 DEF IInv, LastTrue
  <1>4. AllLinked(DepsGraph, rev, o)
    OBVIOUS
  <1>5. PICK h \in Headers : u = Decl(h)
    <2>1. PICK g \in UNION {Tree[rev][x].sig \cup Tree[rev][x].body :
                              x \in {y \in Headers : Decl(y) \in inc[l]}} : u = Decl(g)
      BY DEF Mentions
    <2>2. Tree[rev] \in [Headers -> HeaderText]
      BY <1>1, HeadersAssumption
    <2>3. g \in Headers
      BY <2>1, <2>2 DEF HeaderText
    <2> QED
      BY <2>1, <2>3
  <1>6. w = Owner[h]
    BY <1>5 DEF Decl
  <1>7. w \in Work(o) /\ u \in FullRun(rev, o).records[w]
    BY <1>1, <1>2, <1>3 DEF OwnersDeclare
  <1> HIDE DEF w, o
  <1>8. u \in inc[w] /\ w \in Libs /\ inc[w] # None
    BY <1>1, <1>2, <1>3, <1>5, <1>6, <1>7, OwnersExport
  <1>9. \A k \in Libs : Files!Reachable(DepsGraph, l, k) /\ u \in inc[k] /\ inc[k] # None
          => u \in Visible(l)
    BY DEF Visible, ImportsOf
  <1>10. Files!Reachable(DepsGraph, l, l)
    BY DEF Files!Reachable
  <1>11. CASE u \in inc[l]
    BY <1>9, <1>10, <1>11
  <1>12. CASE u \notin inc[l] /\ w = l
    BY <1>8, <1>12
  <1>13. CASE u \notin inc[l] /\ w # l
    <2>1. w \in BodyOf(rev, o, l)
      BY <1>2, <1>3, <1>13 DEF BodyOf, w
    <2>2. Linked(DepsGraph, l, w)
      BY <1>2, <1>4, <2>1 DEF AllLinked
    <2>3. CASE Files!Reachable(DepsGraph, l, w)
      BY <1>8, <1>9, <2>3
    <2>4. CASE Files!Reachable(DepsGraph, w, l)
      BY <2>4 DEF ImportsOf, w
    <2> QED
      BY <1>13, <2>2, <2>3, <2>4 DEF Linked
  <1> QED
    BY <1>11, <1>12, <1>13

\* When no run reads the cache, an import of a library reaches all that its exported
\* code mentions of a library that exports it, but for circles, whatever was edited,
\* lost or killed before: merge_body_edges leaves out an edge only where the files
\* have a path, or where it would close a circle.
THEOREM BodiesResolve ==
  ASSUME Orderly, OwnersDeclare, BodiesRead
  PROVE  Spec => []MentionsImportable
  <1>1. IInv /\ LinksInv => MentionsImportable
    <2> SUFFICES ASSUME IInv, LinksInv PROVE MentionsImportable
      OBVIOUS
    <2>1. Settled /\ last.opts.libs = Libs /\ (\A l \in Libs \ Special : inc[l] # None)
            => AllLinked(DepsGraph, rev, last.opts)
      BY DEF LinksInv, FilesLinked, Settled, Whole
    <2> QED
      BY <2>1, LinkedIsImportable
  <1> QED
    BY <1>1, Inductive, LinksInvariance, PTL

-----------------------------------------------------------------------------
(***************************************************************************)
(* What exported bodies mention, with the cache, where pass 2 adds nothing.*)
(***************************************************************************)
\* After a run over all libraries the files list what a full run lists, until one
\* is lost.
HintsLeft ==
  Running("idle") /\ last # None =>
    (last.outcome = "ok" /\ Whole(last.opts) /\ (\A l \in Libs \ Special : inc[l] # None)
      => \A l \in Libs \ Special : Hints[l] \subseteq DepsGraph[l])

\* Which steps leave no process behind them.
LEMMA IdleAfter ==
  ASSUME IInv, [Next]_vars, Running("idle")'
  PROVE  \/ Return \/ ParseFails \/ Kill \/ (\E v \in Versions : EditHeaders(v))
         \/ (\E l \in Libs : LoseOutput(l)) \/ UNCHANGED vars
  <1>1. ~Running("idle") => IsRun(run)
    BY DEF IInv, DraftInv, Locals
  <1>2. ~(PassOver \/ Replay \/ ParseAndEmitInc \/ EmitDeps)
    BY <1>1 DEF PassOver, Replay, ParseAndEmitInc, EmitDeps, AtLibrary, AtLoop, Running, IsRun
  <1>3. ~(Merge \/ WriteMergedDeps \/ MergeDone)
    BY <1>1 DEF Merge, WriteMergedDeps, MergeDone, Running, IsRun
  <1>4. ~((\E l \in Libs : DropCacheEntry(l)) \/ WriteCacheEntry \/ CacheDone \/ EmitCppm)
    BY <1>1 DEF DropCacheEntry, WriteCacheEntry, CacheDone, EmitCppm, Running, IsRun
  <1>5. ~(\E o \in RunOpts : Start(o))
    BY DEF Start, Running
  <1> QED
    BY <1>2, <1>3, <1>4, <1>5 DEF Next, Generator, Users

\* Only libraries of the run are written.
LEMMA SpecialStays ==
  ASSUME IInv, SpecialUnwritten, [Next]_vars
  PROVE  SpecialUnwritten'
  <1>1. CASE ParseAndEmitInc
    <2>1. \A l \in Special : inc'[l] = inc[l]
      BY <1>1 DEF ParseAndEmitInc, AtLibrary, Work, IInv, DraftInv, Disk
    <2> QED
      BY <2>1 DEF SpecialUnwritten
  <1>2. CASE \E l \in Libs : LoseOutput(l)
    <2>1. PICK k \in Libs : LoseOutput(k)
      BY <1>2
    <2>2. \A l \in Libs : inc'[l] = inc[l] \/ inc'[l] = None
      BY <2>1 DEF LoseOutput, IInv, DraftInv, Disk
    <2> QED
      BY <2>2, OptionsAssumption DEF SpecialUnwritten
  <1>3. CASE PassOver \/ Replay \/ EmitDeps \/ Merge \/ WriteMergedDeps \/ MergeDone
    BY <1>3 DEF PassOver, Replay, EmitDeps, Merge, WriteMergedDeps, MergeDone,
                SpecialUnwritten
  <1>4. CASE \/ (\E l \in Libs : DropCacheEntry(l)) \/ WriteCacheEntry \/ CacheDone
             \/ EmitCppm \/ Return
    BY <1>4 DEF DropCacheEntry, WriteCacheEntry, CacheDone, EmitCppm, Return,
                SpecialUnwritten
  <1>5. CASE \/ ParseFails \/ Kill \/ (\E v \in Versions : EditHeaders(v))
             \/ (\E o \in RunOpts : Start(o)) \/ UNCHANGED vars
    BY <1>5 DEF ParseFails, Kill, EditHeaders, Start, vars, SpecialUnwritten
  <1> QED
    BY <1>1, <1>2, <1>3, <1>4, <1>5 DEF Next, Generator, Users

\* The files of a run that has ended, losses included.
LEMMA HintsLeftStay ==
  ASSUME IInv, TypeInv, EdgesInv, SpecialUnwritten, HintsLeft, [Next]_vars
  PROVE  HintsLeft'
  <1> SUFFICES ASSUME run'.phase = "idle" PROVE HintsLeft'
    BY DEF HintsLeft, Running
  <1>0. \/ Return \/ ParseFails \/ Kill \/ (\E v \in Versions : EditHeaders(v))
        \/ (\E l \in Libs : LoseOutput(l)) \/ UNCHANGED vars
    BY IdleAfter DEF Running
  <1>1. CASE Return
    <2>1. /\ UNCHANGED <<deps, inc>> /\ run.phase = "emit" /\ last'.opts = run.opts
      BY <1>1 DEF Return, End, Running
    <2>2. \A l \in Work(run.opts) : Hints[l] \subseteq DepsGraph[l]
      BY <2>1 DEF EdgesInv, HintsKept, Running, Looping
    <2> QED
      BY <2>1, <2>2 DEF HintsLeft, Whole, Work, DepsGraph
  <1>2. CASE ParseFails \/ Kill
    BY <1>2 DEF ParseFails, Kill, End, HintsLeft
  <1>3. CASE (\E v \in Versions : EditHeaders(v)) \/ UNCHANGED vars
    <2>1. UNCHANGED <<deps, inc, run, last>>
      BY <1>3 DEF EditHeaders, vars
    <2> QED
      BY <2>1 DEF HintsLeft, DepsGraph, Running
  <1>4. CASE \E l \in Libs : LoseOutput(l)
    <2>1. PICK l \in Libs : inc[l] # None /\ inc'[l] = None
      BY <1>4 DEF LoseOutput, IInv, DraftInv, Disk
    <2>2. l \in Libs \ Special
      BY <2>1 DEF SpecialUnwritten
    <2> QED
      BY <2>1, <2>2 DEF HintsLeft
  <1> QED
    BY <1>0, <1>1, <1>2, <1>3, <1>4

\* With the cache, too, an import of a library reaches all that its exported code
\* mentions, but for circles, as long as pass 1 lists enough for that in every full
\* run: what a replayed library stands for can only be lost where pass 2 chooses.
THEOREM HintsResolve ==
  ASSUME Orderly, ImportsAgree, OwnersDeclare, BodiesHinted
  PROVE  Spec => []MentionsImportable
  <1>1. Init => SpecialUnwritten /\ HintsLeft
    BY OptionsAssumption DEF Init, SpecialUnwritten, HintsLeft
  <1>2. /\ IInv /\ TypeInv /\ EdgesInv /\ SpecialUnwritten /\ HintsLeft /\ [Next]_vars
        => (SpecialUnwritten /\ HintsLeft)'
    BY SpecialStays, HintsLeftStay
  <1>3. IInv /\ TypeInv /\ HintsLeft => MentionsImportable
    <2> SUFFICES ASSUME IInv, TypeInv, HintsLeft, Settled, Whole(last.opts),
                        \A l \in Libs \ Special : inc[l] # None,
                        NEW l \in Work(last.opts), NEW home \in BodyOf(rev, last.opts, l)
                 PROVE  Linked(DepsGraph, l, home)
      BY LinkedIsImportable DEF Whole, AllLinked
    <2> DEFINE o == last.opts
    <2>1. /\ Running("idle") /\ last # None /\ last.outcome = "ok"
          /\ o \in RunOpts /\ rev \in Versions /\ l \in Libs /\ Work(o) = Libs \ Special
      BY DEF Settled, IInv, DraftInv, Disk, Work, Whole
    <2>2. \A k \in Libs \ Special : Hints[k] \subseteq DepsGraph[k]
      BY <2>1 DEF HintsLeft
    <2>3. FullRun(rev, o).deps = Hints
      BY <2>1, HintsAgree
    <2>4. \A k \in Libs \ Work(o) : Hints[k] = {}
      <3>1. Len(Survey[rev].order) \in 0..Len(Survey[rev].order)
        BY <2>1, Order
      <3>2. FullShape(rev, o, Len(Survey[rev].order))
        BY <2>1, <3>1, FullShaped
      <3> QED
        BY <2>3, <3>2 DEF FullShape, FullRun
    <2>5. \A k \in Libs : Hints[k] \subseteq DepsGraph[k]
      BY <2>1, <2>2, <2>4
    <2>6. PICK u \in Mentions(rev, FullRun(rev, o).inc[l]) \ FullRun(rev, o).inc[l] :
            home = Owner[u[2]] /\ home # l /\ home # Shared
      BY DEF BodyOf
    <2>7. /\ home \in Libs
          /\ Files!Reachable(Hints, l, home) \/ Files!Reachable(Hints, home, l)
      BY <2>1, <2>3, <2>6, OptionsAssumption DEF OwnersDeclare, BodiesHinted, Whole, Work
    <2> QED
      BY <2>1, <2>5, <2>7, LinksStay, JointTyped DEF Linked
  <1> QED
    BY <1>1, <1>2, <1>3, Inductive, TypeInvariance, EdgesInvariance, PTL DEF Spec
=============================================================================
