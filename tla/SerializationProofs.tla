------------------------- MODULE SerializationProofs -------------------------
(***************************************************************************)
(* Theorems about Serialization, for any segment table, program, list of   *)
(* sizes and pcb, and whatever follows it in its socket.  A message is a   *)
(* FlattenSeq, a recursive function, and its receiver a loop, another: the *)
(* proofs go by induction on the length of the list.  The library states   *)
(* induction for an operator P(_), which no prover here can instantiate,   *)
(* and well-founded induction for a set: NatSet is induction for a set, of *)
(* which S == {n \in Nat : P(n)} is one.                                   *)
(***************************************************************************)
EXTENDS Serialization, TLAPS

WF == INSTANCE WellFoundedInduction

(* Induction.                                                              *)
LEMMA NatSet ==
  ASSUME NEW S, 0 \in S, \A n \in S \cap Nat : n + 1 \in S
  PROVE  Nat \subseteq S
<1> DEFINE R == {ss \in Nat \X Nat : ss[1] < ss[2]}
           T == Nat \ S
<1>1. WF!IsWellFoundedOn(R, Nat)
  BY WF!NatLessThanWellFounded DEF WF!OpToRel
<1>2. SUFFICES ASSUME T # {} PROVE FALSE
  OBVIOUS
<1>3. PICK x \in T : \A y \in T : ~ (<<y, x>> \in R)
  <2> HIDE DEF R
  <2>1. T \subseteq Nat
    OBVIOUS
  <2> HIDE DEF T
  <2>2. QED BY <1>1, <1>2, <2>1, WF!WFMin
<1>4. x \in Nat /\ x # 0
  OBVIOUS
<1>5. x - 1 \in Nat /\ <<x - 1, x>> \in R
  BY <1>4
<1>6. x - 1 \in S
  BY <1>3, <1>5
<1>7. QED BY <1>4, <1>5, <1>6

(* Two functions computed by the same loop are the same.                   *)
Alike(f, g, k) == f[k - 1] = g[k - 1] => f[k] = g[k]

LEMMA SameLoop ==
  ASSUME NEW m \in Nat, NEW n \in Nat, NEW f, NEW g, f[m] = g[m],
         \A k \in m + 1 .. n : Alike(f, g, k)
  PROVE  \A k \in m .. n : f[k] = g[k]
<1> DEFINE S == {k \in Nat : m + k <= n => f[m + k] = g[m + k]}
<1>1. 0 \in S
  OBVIOUS
<1>2. ASSUME NEW k \in S PROVE k + 1 \in S
  <2>1. SUFFICES ASSUME m + (k + 1) <= n PROVE f[m + (k + 1)] = g[m + (k + 1)]
    OBVIOUS
  <2>2. f[m + k] = g[m + k]
    BY <2>1
  <2>3. m + k + 1 \in m + 1 .. n /\ m + k + 1 - 1 = m + k
    BY <2>1
  <2>4. QED BY <2>2, <2>3 DEF Alike
<1>3. Nat \subseteq S
  <2> HIDE DEF S
  <2>1. QED BY <1>1, <1>2, NatSet
<1>4. QED
  <2>1. ASSUME NEW k \in m .. n PROVE f[k] = g[k]
    <3>1. k - m \in Nat /\ m + (k - m) = k
      OBVIOUS
    <3>2. QED BY <3>1, <1>3
  <2>2. QED BY <2>1

(* The same, from the start of the loop to its end.                        *)
LEMMA SameLoopFromZero ==
  ASSUME NEW n \in Nat, NEW f, NEW g, f[0] = g[0], \A k \in 1 .. n : Alike(f, g, k)
  PROVE  f[n] = g[n]
<1> DEFINE m == 0
<1>1. m \in Nat /\ f[m] = g[m] /\ m <= n
  OBVIOUS
<1>2. \A k \in m + 1 .. n : Alike(f, g, k)
  OBVIOUS
<1> HIDE DEF m
<1>3. \A k \in m .. n : f[k] = g[k]
  BY <1>1, <1>2, SameLoop
<1>4. QED BY <1>1, <1>3

-----------------------------------------------------------------------------
(* What is used of \o.                                                     *)
LEMMA ConcatFacts ==
  ASSUME NEW F, NEW s \in Seq(F), NEW t \in Seq(F), NEW u \in Seq(F)
  PROVE  /\ s \o t \in Seq(F)
         /\ (s \o t) \o u = s \o (t \o u)
         /\ << >> \o s = s /\ s \o << >> = s
OBVIOUS

(* Concatenation, folded where it is under a quantifier.                   *)
Joined(s, t) == s \o t

LEMMA JoinedIsSeq ==
  ASSUME NEW F, NEW s \in Seq(F), NEW t \in Seq(F)
  PROVE  Joined(s, t) \in Seq(F)
BY DEF Joined

LEMMA JoinedAssoc ==
  ASSUME NEW F, NEW s \in Seq(F), NEW t \in Seq(F), NEW u \in Seq(F)
  PROVE  Joined(Joined(s, t), u) = Joined(s, Joined(t, u))
BY ConcatFacts DEF Joined

(* n parts of a stream.                                                    *)
Parts(F, n) == [1 .. n -> Seq(F)]

(* The parts of a stream are a sequence of sequences.                      *)
LEMMA PartsFacts ==
  ASSUME NEW F, NEW n \in Nat, NEW ss \in Parts(F, n)
  PROVE  /\ \A k \in 1 .. n : ss[k] \in Seq(F)
         /\ Len(ss) = n
         /\ n = 0 => ss = << >>
<1>1. \A k \in 1 .. n : ss[k] \in Seq(F)
  BY DEF Parts
<1>2. Len(ss) = n
  BY DEF Parts
<1>3. n = 0 => ss = << >>
  BY DEF Parts
<1>4. QED BY <1>1, <1>2, <1>3

FlattensTo(f, ss, n) ==
  f = [i \in 1 .. n |-> IF i = 1 THEN ss[i] ELSE Joined(f[i - 1], ss[i])]

(* The recursion of FlattenSeq has a solution, so that its CHOOSE finds    *)
(* one.                                                                    *)
LEMMA FlattenExists ==
  ASSUME NEW F, NEW m \in Nat, NEW ss \in Parts(F, m)
  PROVE  \A n \in Nat : n <= m => \E f \in Parts(F, n) : FlattensTo(f, ss, n)
<1> DEFINE S == {n \in Nat : n <= m => \E f \in Parts(F, n) : FlattensTo(f, ss, n)}
<1>1. 0 \in S
  <2> DEFINE f == [i \in 1 .. 0 |-> << >>]
  <2>1. f \in Parts(F, 0)
    BY DEF Parts
  <2>2. FlattensTo(f, ss, 0)
    BY DEF FlattensTo
  <2>3. QED BY <2>1, <2>2
<1>2. ASSUME NEW n \in S PROVE n + 1 \in S
  <2>1. SUFFICES ASSUME n + 1 <= m
                 PROVE \E f \in Parts(F, n + 1) : FlattensTo(f, ss, n + 1)
    OBVIOUS
  <2>2. PICK f \in Parts(F, n) : FlattensTo(f, ss, n)
    BY <2>1
  <2> DEFINE new == IF n = 0 THEN ss[1] ELSE Joined(f[n], ss[n + 1])
             g == [i \in 1 .. n + 1 |-> IF i = n + 1 THEN new ELSE f[i]]
  <2>3. new \in Seq(F)
    <3>1. CASE n = 0
      BY <2>1, <3>1, PartsFacts
    <3>2. CASE n # 0
      <4>1. f[n] \in Seq(F) /\ ss[n + 1] \in Seq(F)
        BY <2>1, <3>2, PartsFacts
      <4>2. QED BY <3>2, <4>1, ConcatFacts DEF Joined
    <3>3. QED BY <3>1, <3>2
  <2>4. g \in Parts(F, n + 1)
    <3> HIDE DEF new
    <3>1. \A i \in 1 .. n : f[i] \in Seq(F)
      BY PartsFacts
    <3>2. QED BY <2>3, <3>1 DEF Parts
  <2>5. \A i \in 1 .. n : f[i] = IF i = 1 THEN ss[i] ELSE Joined(f[i - 1], ss[i])
    BY <2>2 DEF FlattensTo
  <2>6. \A i \in 1 .. n + 1 : g[i] = IF i = 1 THEN ss[i] ELSE Joined(g[i - 1], ss[i])
    <3>1. ASSUME NEW i \in 1 .. n + 1
          PROVE  g[i] = IF i = 1 THEN ss[i] ELSE Joined(g[i - 1], ss[i])
      <4>1. CASE i = n + 1 /\ n # 0
        <5>1. g[i - 1] = f[n]
          BY <4>1
        <5>2. QED BY <4>1, <5>1
      <4>2. CASE i = n + 1 /\ n = 0
        BY <4>2
      <4>3. CASE i # n + 1 /\ i # 1
        <5>1. g[i] = f[i] /\ g[i - 1] = f[i - 1]
          BY <4>3
        <5>2. QED BY <4>3, <5>1, <2>5
      <4>4. CASE i # n + 1 /\ i = 1
        BY <4>4, <2>5
      <4>5. QED BY <4>1, <4>2, <4>3, <4>4
    <3>2. QED BY <3>1
  <2>7. g = [i \in 1 .. n + 1 |-> g[i]]
    OBVIOUS
  <2>8. FlattensTo(g, ss, n + 1)
    <3> HIDE DEF g
    <3>1. QED BY <2>6, <2>7 DEF FlattensTo
  <2>9. QED BY <2>4, <2>8
<1>3. Nat \subseteq S
  <2> HIDE DEF S
  <2>1. QED BY <1>1, <1>2, NatSet
<1>4. QED BY <1>3

(* f computes the parts ss up to each of them.                             *)
Flattens(f, ss, n) ==
  f[1] = ss[1] /\ \A k \in 2 .. n : f[k] = Joined(f[k - 1], ss[k])

(* What FlattenSeq computes, part by part.                                 *)
LEMMA FlattenIs ==
  ASSUME NEW F, NEW n \in Nat, n >= 1, NEW ss \in Parts(F, n)
  PROVE  \E f \in Parts(F, n) : Flattens(f, ss, n) /\ Seqs!FlattenSeq(ss) = f[n]
<1> DEFINE f == CHOOSE f : f = [i \in 1 .. Len(ss) |-> IF i = 1 THEN ss[i] ELSE f[i - 1] \o ss[i]]
<1>1. Len(ss) = n
  BY PartsFacts
<1>2. PICK h \in Parts(F, n) : FlattensTo(h, ss, n)
  BY FlattenExists
<1>3. f = [i \in 1 .. Len(ss) |-> IF i = 1 THEN ss[i] ELSE f[i - 1] \o ss[i]]
  <2>1. h = [i \in 1 .. Len(ss) |-> IF i = 1 THEN ss[i] ELSE h[i - 1] \o ss[i]]
    BY <1>1, <1>2 DEF FlattensTo, Joined
  <2>2. QED BY <2>1, Zenon
<1>4. f = [i \in 1 .. n |-> IF i = 1 THEN ss[i] ELSE Joined(f[i - 1], ss[i])]
  <2> HIDE DEF f
  <2>1. QED BY <1>1, <1>3 DEF Joined
<1>5. Seqs!FlattenSeq(ss) = f[n]
  BY <1>1 DEF Seqs!FlattenSeq
<1> HIDE DEF f
<1>6. Flattens(f, ss, n)
  BY <1>4 DEF Flattens
<1>7. Flattens(h, ss, n)
  BY <1>2 DEF Flattens, FlattensTo
<1>8. \A k \in 1 .. n : f[k] = h[k]
  <2>1. \A k \in 1 + 1 .. n : Alike(f, h, k)
    BY <1>6, <1>7 DEF Alike, Flattens
  <2>2. f[1] = h[1]
    BY <1>6, <1>7 DEF Flattens
  <2>3. QED BY <2>1, <2>2, SameLoop
<1>9. Seqs!FlattenSeq(ss) = h[n]
  BY <1>5, <1>8
<1>10. QED BY <1>7, <1>9

LEMMA FlattenEmpty == Seqs!FlattenSeq(<< >>) = << >>
BY DEF Seqs!FlattenSeq

(* A stream of parts is made of fields, and grows at either end.           *)
LEMMA FlattenType ==
  ASSUME NEW F, NEW n \in Nat, NEW ss \in Parts(F, n)
  PROVE  Seqs!FlattenSeq(ss) \in Seq(F)
<1>1. CASE n = 0
  <2>1. ss = << >>
    BY <1>1, PartsFacts
  <2>2. Seqs!FlattenSeq(ss) = << >>
    BY <2>1, FlattenEmpty, Zenon
  <2>3. << >> \in Seq(F)
    OBVIOUS
  <2>4. QED BY <2>2, <2>3, Zenon
<1>2. CASE n # 0
  <2>1. PICK f \in Parts(F, n) : Seqs!FlattenSeq(ss) = f[n]
    BY <1>2, FlattenIs
  <2>2. QED BY <1>2, <2>1, PartsFacts
<1>3. QED BY <1>1, <1>2

LEMMA FlattenAppend ==
  ASSUME NEW F, NEW n \in Nat, NEW ss \in Parts(F, n),
         NEW tt \in Parts(F, n + 1), \A k \in 1 .. n : tt[k] = ss[k]
  PROVE  Seqs!FlattenSeq(tt) = Joined(Seqs!FlattenSeq(ss), tt[n + 1])
<1>1. PICK g \in Parts(F, n + 1) :
        Flattens(g, tt, n + 1) /\ Seqs!FlattenSeq(tt) = g[n + 1]
  BY FlattenIs
<1>2. CASE n = 0
  <2>1. ss = << >>
    BY <1>2, PartsFacts
  <2>2. Joined(<< >>, tt[n + 1]) = tt[n + 1]
    BY PartsFacts, ConcatFacts DEF Joined
  <2>3. g[n + 1] = tt[n + 1]
    BY <1>1, <1>2 DEF Flattens
  <2>4. Seqs!FlattenSeq(ss) = << >>
    BY <2>1, FlattenEmpty, Zenon
  <2>5. QED BY <1>1, <2>2, <2>3, <2>4, Zenon
<1>3. CASE n # 0
  <2>1. PICK f \in Parts(F, n) :
          Flattens(f, ss, n) /\ Seqs!FlattenSeq(ss) = f[n]
    BY <1>3, FlattenIs
  <2>2. f[1] = g[1] /\ 1 \in Nat
    BY <1>1, <1>3, <2>1 DEF Flattens
  <2>3. \A k \in 1 + 1 .. n : Alike(f, g, k)
    BY <1>1, <1>3, <2>1 DEF Alike, Flattens
  <2>4. f[n] = g[n]
    <3>1. \A k \in 1 .. n : f[k] = g[k]
      BY <2>2, <2>3, SameLoop
    <3>2. QED BY <1>3, <3>1
  <2>5. g[n + 1] = Joined(g[n], tt[n + 1])
    <3>1. n + 1 \in 2 .. n + 1 /\ n + 1 - 1 = n
      BY <1>3
    <3>2. QED BY <1>1, <3>1 DEF Flattens
  <2>6. QED BY <1>1, <2>1, <2>4, <2>5
<1>4. QED BY <1>2, <1>3

LEMMA FlattenCons ==
  ASSUME NEW F, NEW m \in Nat, NEW ss \in Parts(F, m),
         NEW tt \in Parts(F, m + 1), \A k \in 1 .. m : tt[k + 1] = ss[k]
  PROVE  Seqs!FlattenSeq(tt) = Joined(tt[1], Seqs!FlattenSeq(ss))
<1> DEFINE upto(n) == [k \in 1 .. n |-> ss[k]]
           onto(n) == [k \in 1 .. n + 1 |-> tt[k]]
           S == {n \in Nat : n <= m => Seqs!FlattenSeq(onto(n)) = Joined(tt[1], Seqs!FlattenSeq(upto(n)))}
<1>1. 0 \in S
  <2>1. upto(0) = << >> /\ onto(0) \in Parts(F, 0 + 1) /\ upto(0) \in Parts(F, 0)
    BY PartsFacts DEF Parts
  <2>2. Seqs!FlattenSeq(onto(0)) = Joined(Seqs!FlattenSeq(upto(0)), onto(0)[0 + 1])
    <3> HIDE DEF upto, onto
    <3>1. 0 \in Nat /\ \A k \in 1 .. 0 : onto(0)[k] = upto(0)[k]
      OBVIOUS
    <3>2. QED BY <2>1, <3>1, FlattenAppend, Zenon
  <2>3. onto(0)[0 + 1] = tt[1] /\ tt[1] \in Seq(F)
    BY PartsFacts
  <2>4. Joined(<< >>, tt[1]) = tt[1] /\ Joined(tt[1], << >>) = tt[1]
    BY <2>3, ConcatFacts DEF Joined
  <2> HIDE DEF upto, onto
  <2>5. Seqs!FlattenSeq(onto(0)) = Joined(tt[1], Seqs!FlattenSeq(upto(0)))
    <3>1. Seqs!FlattenSeq(upto(0)) = << >>
      BY <2>1, FlattenEmpty, Zenon
    <3>2. QED BY <2>2, <2>3, <2>4, <3>1, Zenon
  <2>6. QED BY <2>5
<1>2. ASSUME NEW n \in S PROVE n + 1 \in S
  <2>1. SUFFICES ASSUME n + 1 <= m
                 PROVE Seqs!FlattenSeq(onto(n + 1)) = Joined(tt[1], Seqs!FlattenSeq(upto(n + 1)))
    OBVIOUS
  <2>2. /\ upto(n) \in Parts(F, n) /\ upto(n + 1) \in Parts(F, n + 1)
        /\ \A k \in 1 .. n : upto(n + 1)[k] = upto(n)[k]
    BY <2>1, PartsFacts DEF Parts
  <2>3. /\ onto(n) \in Parts(F, n + 1) /\ onto(n + 1) \in Parts(F, n + 1 + 1)
        /\ \A k \in 1 .. n + 1 : onto(n + 1)[k] = onto(n)[k]
    BY <2>1, PartsFacts DEF Parts
  <2>4. onto(n + 1)[n + 1 + 1] = ss[n + 1] /\ upto(n + 1)[n + 1] = ss[n + 1]
        /\ ss[n + 1] \in Seq(F) /\ tt[1] \in Seq(F)
    BY <2>1, PartsFacts
  <2>5. Seqs!FlattenSeq(onto(n)) = Joined(tt[1], Seqs!FlattenSeq(upto(n)))
    BY <2>1
  <2> HIDE DEF upto, onto
  <2>6. Seqs!FlattenSeq(onto(n + 1)) = Joined(Seqs!FlattenSeq(onto(n)), ss[n + 1])
    <3>1. n + 1 \in Nat
      BY <2>1
    <3>2. Seqs!FlattenSeq(onto(n + 1)) = Joined(Seqs!FlattenSeq(onto(n)), onto(n + 1)[n + 1 + 1])
      BY <2>3, <3>1, FlattenAppend, Zenon
    <3>3. QED BY <3>2, <2>4
  <2>7. Seqs!FlattenSeq(upto(n + 1)) = Joined(Seqs!FlattenSeq(upto(n)), ss[n + 1])
    BY <2>2, <2>4, FlattenAppend
  <2>8. Seqs!FlattenSeq(upto(n)) \in Seq(F)
    BY <2>2, FlattenType
  <2>9. Joined(Joined(tt[1], Seqs!FlattenSeq(upto(n))), ss[n + 1])
          = Joined(tt[1], Joined(Seqs!FlattenSeq(upto(n)), ss[n + 1]))
    BY <2>4, <2>8, JoinedAssoc
  <2>10. QED BY <2>5, <2>6, <2>7, <2>9, Zenon
<1>3. Nat \subseteq S
  <2> HIDE DEF S
  <2>1. QED BY <1>1, <1>2, NatSet
<1>4. m \in S
  BY <1>3
<1>5. upto(m) = ss /\ onto(m) = tt
  BY DEF Parts
<1>6. QED BY <1>4, <1>5

-----------------------------------------------------------------------------
(* r is what is left of the parts ss, and rest behind them, part by part.  *)
Leaves(F, r, ss, rest, n) ==
  /\ r \in [0 .. n -> Seq(F)]
  /\ r[0] = Joined(Seqs!FlattenSeq(ss), rest) /\ r[n] = rest
  /\ \A k \in 1 .. n : r[k - 1] = Joined(ss[k], r[k])

(* What is left of a stream of parts when the first ones are taken.        *)
LEMMA Remaining ==
  ASSUME NEW F, NEW n \in Nat, NEW ss \in Parts(F, n), NEW rest \in Seq(F)
  PROVE  \E r : Leaves(F, r, ss, rest, n)
<1> DEFINE from(k) == [j \in 1 .. n - k |-> ss[k + j]]
           r == [k \in 0 .. n |-> Joined(Seqs!FlattenSeq(from(k)), rest)]
<1>1. \A k \in 0 .. n : from(k) \in Parts(F, n - k)
  BY PartsFacts DEF Parts
<1>2. \A k \in 0 .. n : Seqs!FlattenSeq(from(k)) \in Seq(F)
  <2> HIDE DEF from
  <2>1. ASSUME NEW k \in 0 .. n PROVE Seqs!FlattenSeq(from(k)) \in Seq(F)
    <3>1. n - k \in Nat /\ from(k) \in Parts(F, n - k)
      BY <1>1
    <3>2. QED BY <3>1, FlattenType
  <2>2. QED BY <2>1
<1>3. r \in [0 .. n -> Seq(F)]
  <2> HIDE DEF from
  <2>1. QED BY <1>2, ConcatFacts DEF Joined
<1>4. from(0) = ss
  BY DEF Parts
<1>5. from(n) = << >>
  OBVIOUS
<1>6. \A k \in 1 .. n : r[k - 1] = Joined(ss[k], r[k])
  <2>1. ASSUME NEW k \in 1 .. n PROVE r[k - 1] = Joined(ss[k], r[k])
    <3>1. k - 1 \in 0 .. n /\ k \in 0 .. n /\ n - k \in Nat /\ n - (k - 1) = n - k + 1
      OBVIOUS
    <3>2. \A j \in 1 .. n - k : from(k - 1)[j + 1] = from(k)[j]
      OBVIOUS
    <3>3. from(k - 1)[1] = ss[k] /\ ss[k] \in Seq(F)
      BY PartsFacts
    <3>4. from(k - 1) \in Parts(F, n - k + 1) /\ from(k) \in Parts(F, n - k)
      <4>1. from(k - 1) \in Parts(F, n - (k - 1))
        BY <1>1, <3>1
      <4>2. QED BY <1>1, <3>1, <4>1
    <3> HIDE DEF from
    <3>5. Seqs!FlattenSeq(from(k - 1)) = Joined(from(k - 1)[1], Seqs!FlattenSeq(from(k)))
      BY <3>1, <3>2, <3>4, FlattenCons
    <3>6. Seqs!FlattenSeq(from(k)) \in Seq(F)
      BY <1>2, <3>1
    <3>7. Joined(Joined(ss[k], Seqs!FlattenSeq(from(k))), rest)
            = Joined(ss[k], Joined(Seqs!FlattenSeq(from(k)), rest))
      BY <3>3, <3>6, JoinedAssoc
    <3>8. r[k - 1] = Joined(Seqs!FlattenSeq(from(k - 1)), rest)
          /\ r[k] = Joined(Seqs!FlattenSeq(from(k)), rest)
      BY <3>1
    <3>9. QED BY <3>3, <3>5, <3>7, <3>8, Zenon
  <2>2. QED BY <2>1
<1>7. r[0] = Joined(Seqs!FlattenSeq(ss), rest)
  BY <1>4
<1>8. r[n] = rest
  <2>1. Seqs!FlattenSeq(from(n)) = << >>
    BY <1>5, FlattenEmpty, Zenon
  <2>2. Joined(<< >>, rest) = rest
    BY ConcatFacts DEF Joined
  <2> HIDE DEF from
  <2>3. r[n] = Joined(Seqs!FlattenSeq(from(n)), rest)
    OBVIOUS
  <2>4. QED BY <2>1, <2>2, <2>3, Zenon
<1> HIDE DEF r
<1>9. Leaves(F, r, ss, rest, n)
  BY <1>3, <1>6, <1>7, <1>8 DEF Leaves
<1>10. QED BY <1>9

-----------------------------------------------------------------------------
(* The types of what is sent; F is what a field may be.                    *)
IsField(F)        == BOOLEAN \cup Int \subseteq F
Parameters(F)     == [is_string : BOOLEAN, parameter : F]
ParameterLists(F) == Seq(Parameters(F))
Instructions(F)   == [instruction : F, parameters : ParameterLists(F)]
Listings(F)       == Seq(Instructions(F))
SegmentRows       == [size : Int, page_table_index : Int]
SegmentTables     == Seq(SegmentRows)
Pcbs(F) ==
  [id : Int, interrupt_type : F, program_counter : Int, registers : [1 .. 4 -> F],
   socket_consola : F, segment_table : SegmentTables, instructions : Listings(F)]

(* The first fields of a stream, and those behind them.                    *)
LEMMA OneFirst ==
  ASSUME NEW F, NEW a \in F, NEW t \in Seq(F)
  PROVE  /\ <<a>> \in Seq(F)
         /\ Head(Joined(<<a>>, t)) = a /\ Joined(<<a>>, t)[1] = a
         /\ Tail(Joined(<<a>>, t)) = t
         /\ Joined(<<a>>, t) # << >>
BY DEF Joined

LEMMA TwoFirst ==
  ASSUME NEW F, NEW a \in F, NEW b \in F, NEW t \in Seq(F)
  PROVE  /\ <<a, b>> \in Seq(F)
         /\ Head(Joined(<<a, b>>, t)) = a /\ Joined(<<a, b>>, t)[1] = a
         /\ Joined(<<a, b>>, t)[2] = b
         /\ SubSeq(Joined(<<a, b>>, t), 3, Len(Joined(<<a, b>>, t))) = t
         /\ Joined(<<a, b>>, t) # << >>
<1>1. <<a, b>> \in Seq(F)
  OBVIOUS
<1> DEFINE s == <<a, b>> \o t
<1>2. SubSeq(s, 3, Len(s)) = t
  OBVIOUS
<1>3. Head(s) = a /\ s[1] = a /\ s[2] = b /\ s # << >>
  OBVIOUS
<1>4. QED BY <1>1, <1>2, <1>3 DEF Joined

LEMMA ThreeFirst ==
  ASSUME NEW F, NEW a \in F, NEW b \in F, NEW c \in F, NEW t \in Seq(F)
  PROVE  /\ <<a, b, c>> \in Seq(F)
         /\ Head(Joined(<<a, b, c>>, t)) = a /\ Joined(<<a, b, c>>, t)[2] = b
         /\ Joined(<<a, b, c>>, t)[3] = c
         /\ SubSeq(Joined(<<a, b, c>>, t), 4, Len(Joined(<<a, b, c>>, t))) = t
<1>1. <<a, b, c>> \in Seq(F)
  OBVIOUS
<1> DEFINE s == <<a, b, c>> \o t
<1>2. SubSeq(s, 4, Len(s)) = t
  OBVIOUS
<1>3. Head(s) = a /\ s[1] = a /\ s[2] = b /\ s[3] = c
  OBVIOUS
<1>4. QED BY <1>1, <1>2, <1>3 DEF Joined

(* One object of each kind.                                                *)
LEMMA ParameterTrip ==
  ASSUME NEW F, IsField(F), NEW q \in Parameters(F), NEW t \in Seq(F)
  PROVE  /\ AddParameter(q) \in Seq(F)
         /\ RecvParameter(Joined(AddParameter(q), t)) = Got(q, t)
<1>1. q.parameter \in F /\ 0 \in F /\ q.is_string \in BOOLEAN
  BY DEF IsField, Parameters
<1>2. TRUE \in F /\ FALSE \in F
  BY Zenon DEF IsField
<1>3. q = [is_string |-> q.is_string, parameter |-> q.parameter]
  BY DEF Parameters
<1>4. CASE q.is_string
  <2> DEFINE s == Joined(<<q.is_string, 0, q.parameter>>, t)
  <2>1. q.is_string = TRUE
    BY <1>1, <1>4, Zenon
  <2>2. AddParameter(q) = <<q.is_string, 0, q.parameter>>
    BY <1>4, <2>1, Zenon DEF AddParameter, STRING_OP
  <2>3. /\ <<q.is_string, 0, q.parameter>> \in Seq(F)
        /\ Head(s) = q.is_string /\ s[3] = q.parameter /\ SubSeq(s, 4, Len(s)) = t
    <3>1. q.is_string \in F
      BY <1>2, <2>1, Zenon
    <3>2. QED BY <1>1, <3>1, ThreeFirst
  <2> HIDE DEF s
  <2>4. RecvParameter(s) = Got([is_string |-> Head(s), parameter |-> s[3]], SubSeq(s, 3 + 1, Len(s)))
    BY <2>1, <2>3, Zenon DEF RecvParameter
  <2>5. RecvParameter(s) = Got(q, t)
    <3>1. 3 + 1 = 4
      OBVIOUS
    <3>2. QED BY <1>3, <2>3, <2>4, <3>1, Zenon
  <2>6. QED BY <2>2, <2>3, <2>5, Zenon DEF s
<1>5. CASE ~ q.is_string
  <2> DEFINE s == Joined(<<q.is_string, q.parameter>>, t)
  <2>1. q.is_string = FALSE
    BY <1>1, <1>5, Zenon
  <2>2. AddParameter(q) = <<q.is_string, q.parameter>>
    BY <1>5, <2>1, Zenon DEF AddParameter, STRING_OP
  <2>3. /\ <<q.is_string, q.parameter>> \in Seq(F)
        /\ Head(s) = q.is_string /\ s[2] = q.parameter /\ SubSeq(s, 3, Len(s)) = t
    <3>1. q.is_string \in F
      BY <1>2, <2>1, Zenon
    <3>2. QED BY <1>1, <3>1, TwoFirst
  <2> HIDE DEF s
  <2>4. RecvParameter(s) = Got([is_string |-> Head(s), parameter |-> s[2]], SubSeq(s, 2 + 1, Len(s)))
    BY <2>1, <2>3, Zenon DEF RecvParameter
  <2>5. RecvParameter(s) = Got(q, t)
    <3>1. 2 + 1 = 3
      OBVIOUS
    <3>2. QED BY <1>3, <2>3, <2>4, <3>1, Zenon
  <2>6. QED BY <2>2, <2>3, <2>5, Zenon DEF s
<1>6. QED BY <1>4, <1>5

LEMMA SegmentTrip ==
  ASSUME NEW F, IsField(F), NEW row \in SegmentRows, NEW t \in Seq(F)
  PROVE  /\ AddSegment(row) \in Seq(F)
         /\ RecvSegment(Joined(AddSegment(row), t)) = Got(row, t)
<1>1. row.size \in F /\ row.page_table_index \in F
  BY DEF SegmentRows, IsField
<1> DEFINE s == Joined(<<row.size, row.page_table_index>>, t)
<1>2. /\ AddSegment(row) \in Seq(F)
      /\ s[1] = row.size /\ s[2] = row.page_table_index /\ SubSeq(s, 3, Len(s)) = t
  BY <1>1, TwoFirst DEF AddSegment
<1> HIDE DEF s
<1>3. RecvSegment(s) = Got([size |-> row.size, page_table_index |-> row.page_table_index], t)
  BY <1>2 DEF RecvSegment
<1>4. [size |-> row.size, page_table_index |-> row.page_table_index] = row
  BY DEF SegmentRows
<1>5. QED BY <1>2, <1>3, <1>4 DEF s, AddSegment

-----------------------------------------------------------------------------
(* What the loop of a receiver has when it has read k elements.            *)
SoFar(list, r, k) == Got(SubSeq(list, 1, k), r[k])

(* One more element, and the whole list in the end.                        *)
LEMMA SoFarSteps ==
  ASSUME NEW V, NEW list \in Seq(V), NEW r
  PROVE  /\ SoFar(list, r, 0) = Got(<< >>, r[0])
         /\ SoFar(list, r, Len(list)) = Got(list, r[Len(list)])
         /\ \A k \in 1 .. Len(list) :
              /\ SoFar(list, r, k - 1).rest = r[k - 1]
              /\ Got(Append(SoFar(list, r, k - 1).value, Got(list[k], r[k]).value), Got(list[k], r[k]).rest)
                   = SoFar(list, r, k)
<1>1. SubSeq(list, 1, 0) = << >>
  OBVIOUS
<1>2. SubSeq(list, 1, Len(list)) = list
  OBVIOUS
<1>3. \A k \in 1 .. Len(list) : Append(SubSeq(list, 1, k - 1), list[k]) = SubSeq(list, 1, k)
  OBVIOUS
<1>4. SoFar(list, r, 0) = Got(<< >>, r[0])
  BY <1>1, Zenon DEF SoFar
<1>5. SoFar(list, r, Len(list)) = Got(list, r[Len(list)])
  BY <1>2, Zenon DEF SoFar
<1>6. \A k \in 1 .. Len(list) :
        /\ SoFar(list, r, k - 1).rest = r[k - 1]
        /\ Got(Append(SoFar(list, r, k - 1).value, Got(list[k], r[k]).value), Got(list[k], r[k]).rest)
             = SoFar(list, r, k)
  BY <1>3 DEF SoFar, Got
<1>7. QED BY <1>4, <1>5, <1>6

(* The lists inside a message, each with its own loop: the parameters of   *)
(* an instruction.                                                         *)
LEMMA ParametersTrip ==
  ASSUME NEW F, IsField(F), NEW list \in ParameterLists(F), NEW rest \in Seq(F)
  PROVE  /\ AddEach(AddParameter, list) \in Seq(F)
         /\ RecvEach(RecvParameter, Len(list), Joined(AddEach(AddParameter, list), rest))
              = Got(list, rest)
<1> DEFINE n == Len(list)
           ss == [k \in DOMAIN list |-> AddParameter(list[k])]
           stream == Joined(AddEach(AddParameter, list), rest)
<1>1. n \in Nat /\ list \in Seq(Parameters(F)) /\ DOMAIN list = 1 .. n
      /\ \A k \in 1 .. n : list[k] \in Parameters(F)
  BY DEF ParameterLists
<1>2. ss \in Parts(F, n)
  BY <1>1, ParameterTrip DEF Parts
<1>3. AddEach(AddParameter, list) = Seqs!FlattenSeq(ss)
  BY DEF AddEach
<1> HIDE DEF ss
<1>4. AddEach(AddParameter, list) \in Seq(F)
  BY <1>1, <1>2, <1>3, FlattenType
<1>5. PICK r : Leaves(F, r, ss, rest, n)
  BY <1>1, <1>2, Remaining
<1>6. \A k \in 1 .. n : RecvParameter(r[k - 1]) = Got(list[k], r[k])
  <2>1. ASSUME NEW k \in 1 .. n PROVE RecvParameter(r[k - 1]) = Got(list[k], r[k])
    <3>1. /\ r[k] \in Seq(F) /\ list[k] \in Parameters(F)
          /\ r[k - 1] = Joined(AddParameter(list[k]), r[k])
      BY <1>1, <1>5 DEF Leaves, ss
    <3>2. QED BY <3>1, ParameterTrip
  <2>2. QED BY <2>1
<1> DEFINE loop(f, k) ==
             IF k = 0 THEN Got(<< >>, stream)
             ELSE Then(f[k - 1], LAMBDA before :
                    Then(RecvParameter(before.rest), LAMBDA one :
                      Got(Append(before.value, one.value), one.rest)))
           g == CHOOSE f : f = [k \in 0 .. n |-> loop(f, k)]
           h == [k \in 0 .. n |-> SoFar(list, r, k)]
<1>7. RecvEach(RecvParameter, n, stream) = g[n]
  BY DEF RecvEach
<1>8. \A f, k : loop(f, k) = IF k = 0 THEN Got(<< >>, stream)
        ELSE Got(Append(f[k - 1].value, RecvParameter(f[k - 1].rest).value),
                 RecvParameter(f[k - 1].rest).rest)
  BY DEF Then
<1>9. (\A k \in 0 .. n : h[k] = SoFar(list, r, k)) /\ h = [k \in 0 .. n |-> h[k]]
  OBVIOUS
<1>10. r[0] = stream /\ r[n] = rest
  BY <1>3, <1>5 DEF Leaves
<1> HIDE DEF loop, g, h, n, stream
<1>11. \A k \in 0 .. n : h[k] = loop(h, k)
  <2>1. h[0] = loop(h, 0)
    <3>1. 0 \in 0 .. n
      BY <1>1
    <3>2. h[0] = Got(<< >>, r[0])
      BY <1>1, <1>9, <3>1, SoFarSteps, Zenon
    <3>3. QED BY <1>8, <1>10, <3>2, Zenon
  <2>2. ASSUME NEW k \in 1 .. n PROVE h[k] = loop(h, k)
    <3>1. k - 1 \in 0 .. n /\ k \in 0 .. n /\ k # 0
      BY <1>1
    <3>2. h[k - 1] = SoFar(list, r, k - 1) /\ h[k] = SoFar(list, r, k)
      BY <3>1, <1>9
    <3>3. /\ SoFar(list, r, k - 1).rest = r[k - 1]
          /\ Got(Append(SoFar(list, r, k - 1).value, Got(list[k], r[k]).value), Got(list[k], r[k]).rest)
               = SoFar(list, r, k)
      BY <1>1, SoFarSteps DEF n
    <3>4. RecvParameter(r[k - 1]) = Got(list[k], r[k])
      BY <1>6
    <3>5. QED BY <1>8, <3>1, <3>2, <3>3, <3>4, Zenon
  <2>3. QED BY <2>1, <2>2, <1>1
<1>12. h = [k \in 0 .. n |-> loop(h, k)]
  BY <1>9, <1>11
<1>13. \A k \in 0 .. n : g[k] = loop(g, k)
  <2>1. g = [k \in 0 .. n |-> loop(g, k)]
    BY <1>12, Zenon DEF g
  <2>2. QED BY <2>1
<1>14. g[n] = h[n]
  <2>1. \A k \in 1 .. n : Alike(g, h, k)
    <3>1. ASSUME NEW k \in 1 .. n, g[k - 1] = h[k - 1] PROVE g[k] = h[k]
      <4>1. k \in 0 .. n /\ k # 0
        BY <1>1
      <4>2. g[k] = loop(g, k) /\ h[k] = loop(h, k)
        BY <4>1, <1>11, <1>13
      <4>3. QED BY <1>8, <3>1, <4>1, <4>2, Zenon
    <3>2. QED BY <3>1, Zenon DEF Alike
  <2>2. g[0] = h[0]
    BY <1>1, <1>8, <1>11, <1>13
  <2>3. QED BY <1>1, <2>1, <2>2, SameLoopFromZero
<1>15. h[n] = Got(list, rest)
  BY <1>1, <1>9, <1>10, SoFarSteps DEF n
<1>16. QED BY <1>4, <1>7, <1>14, <1>15 DEF n, stream

(* One instruction, with its parameters (recv_instructions,                *)
(* serialization.c:188).                                                   *)
LEMMA InstructionTrip ==
  ASSUME NEW F, IsField(F), NEW i \in Instructions(F), NEW t \in Seq(F)
  PROVE  /\ AddInstruction(i) \in Seq(F)
         /\ RecvInstruction(Joined(AddInstruction(i), t)) = Got(i, t)
<1> DEFINE n == Len(i.parameters)
           parameters == AddEach(AddParameter, i.parameters)
           s == Joined(<<i.instruction, n>>, Joined(parameters, t))
<1>1. i.parameters \in ParameterLists(F) /\ i.instruction \in F /\ n \in F
      /\ i = [instruction |-> i.instruction, parameters |-> i.parameters]
  BY DEF Instructions, ParameterLists, IsField
<1>2. parameters \in Seq(F)
      /\ RecvEach(RecvParameter, n, Joined(parameters, t)) = Got(i.parameters, t)
  BY <1>1, ParametersTrip
<1>3. AddInstruction(i) = Joined(<<i.instruction, n>>, parameters)
  BY DEF AddInstruction, Joined
<1> HIDE DEF n, parameters
<1>4. Joined(parameters, t) \in Seq(F)
  BY <1>2, ConcatFacts DEF Joined
<1>5. /\ <<i.instruction, n>> \in Seq(F)
      /\ s[1] = i.instruction /\ s[2] = n /\ SubSeq(s, 3, Len(s)) = Joined(parameters, t)
  BY <1>1, <1>4, TwoFirst
<1>6. AddInstruction(i) \in Seq(F)
  BY <1>2, <1>3, <1>5, ConcatFacts DEF Joined
<1>7. Joined(AddInstruction(i), t) = s
  <2> DEFINE front == <<i.instruction, n>>
  <2>1. front \in Seq(F)
    BY <1>5
  <2> HIDE DEF front
  <2>2. Joined(Joined(front, parameters), t) = Joined(front, Joined(parameters, t))
    BY <1>2, <2>1, JoinedAssoc
  <2>3. QED BY <1>3, <2>2, Zenon DEF front
<1> HIDE DEF s
<1>8. RecvInstruction(s) = Got([instruction |-> s[1], parameters |-> Got(i.parameters, t).value],
                               Got(i.parameters, t).rest)
  BY <1>2, <1>5 DEF RecvInstruction, Then
<1>9. RecvInstruction(s) = Got(i, t)
  BY <1>1, <1>5, <1>8 DEF Got
<1>10. QED BY <1>6, <1>7, <1>9

(* The instructions of a program.                                          *)
LEMMA InstructionsTrip ==
  ASSUME NEW F, IsField(F), NEW list \in Listings(F), NEW rest \in Seq(F)
  PROVE  /\ AddEach(AddInstruction, list) \in Seq(F)
         /\ RecvEach(RecvInstruction, Len(list), Joined(AddEach(AddInstruction, list), rest))
              = Got(list, rest)
<1> DEFINE n == Len(list)
           ss == [k \in DOMAIN list |-> AddInstruction(list[k])]
           stream == Joined(AddEach(AddInstruction, list), rest)
<1>1. n \in Nat /\ list \in Seq(Instructions(F)) /\ DOMAIN list = 1 .. n
      /\ \A k \in 1 .. n : list[k] \in Instructions(F)
  BY DEF Listings
<1>2. ss \in Parts(F, n)
  BY <1>1, InstructionTrip DEF Parts
<1>3. AddEach(AddInstruction, list) = Seqs!FlattenSeq(ss)
  BY DEF AddEach
<1> HIDE DEF ss
<1>4. AddEach(AddInstruction, list) \in Seq(F)
  BY <1>1, <1>2, <1>3, FlattenType
<1>5. PICK r : Leaves(F, r, ss, rest, n)
  BY <1>1, <1>2, Remaining
<1>6. \A k \in 1 .. n : RecvInstruction(r[k - 1]) = Got(list[k], r[k])
  <2>1. ASSUME NEW k \in 1 .. n PROVE RecvInstruction(r[k - 1]) = Got(list[k], r[k])
    <3>1. /\ r[k] \in Seq(F) /\ list[k] \in Instructions(F)
          /\ r[k - 1] = Joined(AddInstruction(list[k]), r[k])
      BY <1>1, <1>5 DEF Leaves, ss
    <3>2. QED BY <3>1, InstructionTrip
  <2>2. QED BY <2>1
<1> DEFINE loop(f, k) ==
             IF k = 0 THEN Got(<< >>, stream)
             ELSE Then(f[k - 1], LAMBDA before :
                    Then(RecvInstruction(before.rest), LAMBDA one :
                      Got(Append(before.value, one.value), one.rest)))
           g == CHOOSE f : f = [k \in 0 .. n |-> loop(f, k)]
           h == [k \in 0 .. n |-> SoFar(list, r, k)]
<1>7. RecvEach(RecvInstruction, n, stream) = g[n]
  BY DEF RecvEach
<1>8. \A f, k : loop(f, k) = IF k = 0 THEN Got(<< >>, stream)
        ELSE Got(Append(f[k - 1].value, RecvInstruction(f[k - 1].rest).value),
                 RecvInstruction(f[k - 1].rest).rest)
  BY DEF Then
<1>9. (\A k \in 0 .. n : h[k] = SoFar(list, r, k)) /\ h = [k \in 0 .. n |-> h[k]]
  OBVIOUS
<1>10. r[0] = stream /\ r[n] = rest
  BY <1>3, <1>5 DEF Leaves
<1> HIDE DEF loop, g, h, n, stream
<1>11. \A k \in 0 .. n : h[k] = loop(h, k)
  <2>1. h[0] = loop(h, 0)
    <3>1. 0 \in 0 .. n
      BY <1>1
    <3>2. h[0] = Got(<< >>, r[0])
      BY <1>1, <1>9, <3>1, SoFarSteps, Zenon
    <3>3. QED BY <1>8, <1>10, <3>2, Zenon
  <2>2. ASSUME NEW k \in 1 .. n PROVE h[k] = loop(h, k)
    <3>1. k - 1 \in 0 .. n /\ k \in 0 .. n /\ k # 0
      BY <1>1
    <3>2. h[k - 1] = SoFar(list, r, k - 1) /\ h[k] = SoFar(list, r, k)
      BY <3>1, <1>9
    <3>3. /\ SoFar(list, r, k - 1).rest = r[k - 1]
          /\ Got(Append(SoFar(list, r, k - 1).value, Got(list[k], r[k]).value), Got(list[k], r[k]).rest)
               = SoFar(list, r, k)
      BY <1>1, SoFarSteps DEF n
    <3>4. RecvInstruction(r[k - 1]) = Got(list[k], r[k])
      BY <1>6
    <3>5. QED BY <1>8, <3>1, <3>2, <3>3, <3>4, Zenon
  <2>3. QED BY <2>1, <2>2, <1>1
<1>12. h = [k \in 0 .. n |-> loop(h, k)]
  BY <1>9, <1>11
<1>13. \A k \in 0 .. n : g[k] = loop(g, k)
  <2>1. g = [k \in 0 .. n |-> loop(g, k)]
    BY <1>12, Zenon DEF g
  <2>2. QED BY <2>1
<1>14. g[n] = h[n]
  <2>1. \A k \in 1 .. n : Alike(g, h, k)
    <3>1. ASSUME NEW k \in 1 .. n, g[k - 1] = h[k - 1] PROVE g[k] = h[k]
      <4>1. k \in 0 .. n /\ k # 0
        BY <1>1
      <4>2. g[k] = loop(g, k) /\ h[k] = loop(h, k)
        BY <4>1, <1>11, <1>13
      <4>3. QED BY <1>8, <3>1, <4>1, <4>2, Zenon
    <3>2. QED BY <3>1, Zenon DEF Alike
  <2>2. g[0] = h[0]
    BY <1>1, <1>8, <1>11, <1>13
  <2>3. QED BY <1>1, <2>1, <2>2, SameLoopFromZero
<1>15. h[n] = Got(list, rest)
  BY <1>1, <1>9, <1>10, SoFarSteps DEF n
<1>16. QED BY <1>4, <1>7, <1>14, <1>15 DEF n, stream

(* The rows of a segment table.                                            *)
LEMMA SegmentsTrip ==
  ASSUME NEW F, IsField(F), NEW list \in SegmentTables, NEW rest \in Seq(F)
  PROVE  /\ AddEach(AddSegment, list) \in Seq(F)
         /\ RecvEach(RecvSegment, Len(list), Joined(AddEach(AddSegment, list), rest))
              = Got(list, rest)
<1> DEFINE n == Len(list)
           ss == [k \in DOMAIN list |-> AddSegment(list[k])]
           stream == Joined(AddEach(AddSegment, list), rest)
<1>1. n \in Nat /\ list \in Seq(SegmentRows) /\ DOMAIN list = 1 .. n
      /\ \A k \in 1 .. n : list[k] \in SegmentRows
  BY DEF SegmentTables
<1>2. ss \in Parts(F, n)
  BY <1>1, SegmentTrip DEF Parts
<1>3. AddEach(AddSegment, list) = Seqs!FlattenSeq(ss)
  BY DEF AddEach
<1> HIDE DEF ss
<1>4. AddEach(AddSegment, list) \in Seq(F)
  BY <1>1, <1>2, <1>3, FlattenType
<1>5. PICK r : Leaves(F, r, ss, rest, n)
  BY <1>1, <1>2, Remaining
<1>6. \A k \in 1 .. n : RecvSegment(r[k - 1]) = Got(list[k], r[k])
  <2>1. ASSUME NEW k \in 1 .. n PROVE RecvSegment(r[k - 1]) = Got(list[k], r[k])
    <3>1. /\ r[k] \in Seq(F) /\ list[k] \in SegmentRows
          /\ r[k - 1] = Joined(AddSegment(list[k]), r[k])
      BY <1>1, <1>5 DEF Leaves, ss
    <3>2. QED BY <3>1, SegmentTrip
  <2>2. QED BY <2>1
<1> DEFINE loop(f, k) ==
             IF k = 0 THEN Got(<< >>, stream)
             ELSE Then(f[k - 1], LAMBDA before :
                    Then(RecvSegment(before.rest), LAMBDA one :
                      Got(Append(before.value, one.value), one.rest)))
           g == CHOOSE f : f = [k \in 0 .. n |-> loop(f, k)]
           h == [k \in 0 .. n |-> SoFar(list, r, k)]
<1>7. RecvEach(RecvSegment, n, stream) = g[n]
  BY DEF RecvEach
<1>8. \A f, k : loop(f, k) = IF k = 0 THEN Got(<< >>, stream)
        ELSE Got(Append(f[k - 1].value, RecvSegment(f[k - 1].rest).value),
                 RecvSegment(f[k - 1].rest).rest)
  BY DEF Then
<1>9. (\A k \in 0 .. n : h[k] = SoFar(list, r, k)) /\ h = [k \in 0 .. n |-> h[k]]
  OBVIOUS
<1>10. r[0] = stream /\ r[n] = rest
  BY <1>3, <1>5 DEF Leaves
<1> HIDE DEF loop, g, h, n, stream
<1>11. \A k \in 0 .. n : h[k] = loop(h, k)
  <2>1. h[0] = loop(h, 0)
    <3>1. 0 \in 0 .. n
      BY <1>1
    <3>2. h[0] = Got(<< >>, r[0])
      BY <1>1, <1>9, <3>1, SoFarSteps, Zenon
    <3>3. QED BY <1>8, <1>10, <3>2, Zenon
  <2>2. ASSUME NEW k \in 1 .. n PROVE h[k] = loop(h, k)
    <3>1. k - 1 \in 0 .. n /\ k \in 0 .. n /\ k # 0
      BY <1>1
    <3>2. h[k - 1] = SoFar(list, r, k - 1) /\ h[k] = SoFar(list, r, k)
      BY <3>1, <1>9
    <3>3. /\ SoFar(list, r, k - 1).rest = r[k - 1]
          /\ Got(Append(SoFar(list, r, k - 1).value, Got(list[k], r[k]).value), Got(list[k], r[k]).rest)
               = SoFar(list, r, k)
      BY <1>1, SoFarSteps DEF n
    <3>4. RecvSegment(r[k - 1]) = Got(list[k], r[k])
      BY <1>6
    <3>5. QED BY <1>8, <3>1, <3>2, <3>3, <3>4, Zenon
  <2>3. QED BY <2>1, <2>2, <1>1
<1>12. h = [k \in 0 .. n |-> loop(h, k)]
  BY <1>9, <1>11
<1>13. \A k \in 0 .. n : g[k] = loop(g, k)
  <2>1. g = [k \in 0 .. n |-> loop(g, k)]
    BY <1>12, Zenon DEF g
  <2>2. QED BY <2>1
<1>14. g[n] = h[n]
  <2>1. \A k \in 1 .. n : Alike(g, h, k)
    <3>1. ASSUME NEW k \in 1 .. n, g[k - 1] = h[k - 1] PROVE g[k] = h[k]
      <4>1. k \in 0 .. n /\ k # 0
        BY <1>1
      <4>2. g[k] = loop(g, k) /\ h[k] = loop(h, k)
        BY <4>1, <1>11, <1>13
      <4>3. QED BY <1>8, <3>1, <4>1, <4>2, Zenon
    <3>2. QED BY <3>1, Zenon DEF Alike
  <2>2. g[0] = h[0]
    BY <1>1, <1>8, <1>11, <1>13
  <2>3. QED BY <1>1, <2>1, <2>2, SameLoopFromZero
<1>15. h[n] = Got(list, rest)
  BY <1>1, <1>9, <1>10, SoFarSteps DEF n
<1>16. QED BY <1>4, <1>7, <1>14, <1>15 DEF n, stream

(* send_segments and send_process_started send the sizes one by one.       *)
LEMMA IntsTrip ==
  ASSUME NEW F, IsField(F), NEW list \in Seq(Int), NEW rest \in Seq(F)
  PROVE  /\ list \in Seq(F)
         /\ RecvEach(RecvInt, Len(list), Joined(list, rest)) = Got(list, rest)
<1> DEFINE n == Len(list)
           stream == Joined(list, rest)
           left(k) == [j \in 1 .. n - k |-> list[k + j]]
           r == [k \in 0 .. n |-> Joined(left(k), rest)]
<1>1. n \in Nat /\ list \in Seq(Int) /\ DOMAIN list = 1 .. n
      /\ \A k \in 1 .. n : list[k] \in F
  BY DEF IsField
<1>2. list \in Seq(F)
  BY <1>1
<1>3. \A k \in 0 .. n : r[k] = Joined(left(k), rest)
  OBVIOUS
<1>4. left(0) = list /\ left(n) = << >>
  BY <1>1
<1>5. Joined(<< >>, rest) = rest
  BY ConcatFacts DEF Joined
<1>6. \A k \in 1 .. n : RecvInt(r[k - 1]) = Got(list[k], r[k])
  <2>1. ASSUME NEW k \in 1 .. n PROVE RecvInt(r[k - 1]) = Got(list[k], r[k])
    <3>1. /\ left(k - 1) \in Seq(F) /\ left(k) \in Seq(F) /\ list[k] \in F
          /\ left(k - 1) = <<list[k]>> \o left(k)
      BY <1>1
    <3>2. r[k - 1] = Joined(left(k - 1), rest) /\ r[k] = Joined(left(k), rest)
      BY <1>1, <1>3
    <3> HIDE DEF left, r
    <3>3. Joined(left(k), rest) \in Seq(F) /\ <<list[k]>> \in Seq(F)
      BY <3>1, ConcatFacts, OneFirst DEF Joined
    <3>4. r[k - 1] = Joined(<<list[k]>>, r[k])
      <4> DEFINE one == <<list[k]>>
      <4> HIDE DEF one
      <4>1. Joined(Joined(one, left(k)), rest) = Joined(one, Joined(left(k), rest))
        <5>1. one \in Seq(F)
          BY <3>3 DEF one
        <5>2. left(k) \in Seq(F)
          BY <3>1
        <5>3. QED BY <5>1, <5>2, JoinedAssoc
      <4>2. left(k - 1) = Joined(one, left(k))
        BY <3>1 DEF one, Joined
      <4>3. QED BY <3>2, <4>1, <4>2, Zenon DEF one
    <3>5. Head(Joined(<<list[k]>>, r[k])) = list[k] /\ Tail(Joined(<<list[k]>>, r[k])) = r[k]
      <4>1. r[k] \in Seq(F) /\ list[k] \in F
        BY <3>1, <3>2, <3>3
      <4> DEFINE x == list[k]
                 u == r[k]
      <4>2. x \in F /\ u \in Seq(F)
        BY <4>1
      <4> HIDE DEF x, u
      <4>3. Head(Joined(<<x>>, u)) = x /\ Tail(Joined(<<x>>, u)) = u
        BY <4>2, OneFirst
      <4>4. QED BY <4>3, Zenon DEF x, u
    <3>6. QED BY <3>4, <3>5, Zenon DEF RecvInt
  <2>2. QED BY <2>1
<1> HIDE DEF left, r
<1> DEFINE loop(f, k) ==
             IF k = 0 THEN Got(<< >>, stream)
             ELSE Then(f[k - 1], LAMBDA before :
                    Then(RecvInt(before.rest), LAMBDA one :
                      Got(Append(before.value, one.value), one.rest)))
           g == CHOOSE f : f = [k \in 0 .. n |-> loop(f, k)]
           h == [k \in 0 .. n |-> SoFar(list, r, k)]
<1>7. RecvEach(RecvInt, n, stream) = g[n]
  BY DEF RecvEach
<1>8. \A f, k : loop(f, k) = IF k = 0 THEN Got(<< >>, stream)
        ELSE Got(Append(f[k - 1].value, RecvInt(f[k - 1].rest).value),
                 RecvInt(f[k - 1].rest).rest)
  BY DEF Then
<1>9. (\A k \in 0 .. n : h[k] = SoFar(list, r, k)) /\ h = [k \in 0 .. n |-> h[k]]
  OBVIOUS
<1>10. r[0] = stream /\ r[n] = rest
  <2>1. r[0] = Joined(left(0), rest) /\ r[n] = Joined(left(n), rest)
    BY <1>1, <1>3
  <2>2. QED BY <1>4, <1>5, <2>1, Zenon
<1> HIDE DEF loop, g, h, n, stream
<1>11. \A k \in 0 .. n : h[k] = loop(h, k)
  <2>1. h[0] = loop(h, 0)
    <3>1. 0 \in 0 .. n
      BY <1>1
    <3>2. h[0] = Got(<< >>, r[0])
      BY <1>1, <1>9, <3>1, SoFarSteps, Zenon
    <3>3. QED BY <1>8, <1>10, <3>2, Zenon
  <2>2. ASSUME NEW k \in 1 .. n PROVE h[k] = loop(h, k)
    <3>1. k - 1 \in 0 .. n /\ k \in 0 .. n /\ k # 0
      BY <1>1
    <3>2. h[k - 1] = SoFar(list, r, k - 1) /\ h[k] = SoFar(list, r, k)
      BY <3>1, <1>9
    <3>3. /\ SoFar(list, r, k - 1).rest = r[k - 1]
          /\ Got(Append(SoFar(list, r, k - 1).value, Got(list[k], r[k]).value), Got(list[k], r[k]).rest)
               = SoFar(list, r, k)
      BY <1>1, SoFarSteps DEF n
    <3>4. RecvInt(r[k - 1]) = Got(list[k], r[k])
      BY <1>6
    <3>5. QED BY <1>8, <3>1, <3>2, <3>3, <3>4, Zenon
  <2>3. QED BY <2>1, <2>2, <1>1
<1>12. h = [k \in 0 .. n |-> loop(h, k)]
  BY <1>9, <1>11
<1>13. \A k \in 0 .. n : g[k] = loop(g, k)
  <2>1. g = [k \in 0 .. n |-> loop(g, k)]
    BY <1>12, Zenon DEF g
  <2>2. QED BY <2>1
<1>14. g[n] = h[n]
  <2>1. \A k \in 1 .. n : Alike(g, h, k)
    <3>1. ASSUME NEW k \in 1 .. n, g[k - 1] = h[k - 1] PROVE g[k] = h[k]
      <4>1. k \in 0 .. n /\ k # 0
        BY <1>1
      <4>2. g[k] = loop(g, k) /\ h[k] = loop(h, k)
        BY <4>1, <1>11, <1>13
      <4>3. QED BY <1>8, <3>1, <4>1, <4>2, Zenon
    <3>2. QED BY <3>1, Zenon DEF Alike
  <2>2. g[0] = h[0]
    BY <1>1, <1>8, <1>11, <1>13
  <2>3. QED BY <1>1, <2>1, <2>2, SameLoopFromZero
<1>15. h[n] = Got(list, rest)
  BY <1>1, <1>9, <1>10, SoFarSteps DEF n
<1>16. QED BY <1>2, <1>7, <1>14, <1>15 DEF n, stream

-----------------------------------------------------------------------------
(* Whole messages: what its receiver gets is what its sender sent, and the *)
(* rest of the stream is left in the socket.                               *)

(* send_segment_table and recv_segment_table (serialization.c:463, 478):   *)
(* the kernel gets the sizes and the indices of the page tables that       *)
(* memoria created, in their order, and nothing of what follows them.      *)
THEOREM SegmentTableTrip ==
  ASSUME NEW F, IsField(F), NEW table \in SegmentTables, NEW t \in Seq(F)
  PROVE  /\ AddSegmentTable(table) \in Seq(F)
         /\ RecvSegmentTable(Joined(AddSegmentTable(table), t)) = Got(table, t)
<1> DEFINE n == Len(table)
           rows == AddEach(AddSegment, table)
           s == Joined(<<n>>, Joined(rows, t))
<1>1. n \in F
  BY DEF SegmentTables, IsField
<1>2. rows \in Seq(F) /\ RecvEach(RecvSegment, n, Joined(rows, t)) = Got(table, t)
  BY SegmentsTrip
<1>3. AddSegmentTable(table) = Joined(<<n>>, rows)
  BY DEF AddSegmentTable, Joined
<1> HIDE DEF n, rows
<1>4. Joined(rows, t) \in Seq(F)
  BY <1>2, ConcatFacts DEF Joined
<1>5. <<n>> \in Seq(F) /\ s[1] = n /\ Tail(s) = Joined(rows, t)
  BY <1>1, <1>4, OneFirst
<1>6. AddSegmentTable(table) \in Seq(F)
  BY <1>2, <1>3, <1>5, ConcatFacts DEF Joined
<1>7. Joined(AddSegmentTable(table), t) = s
  <2> DEFINE front == <<n>>
  <2>1. front \in Seq(F)
    BY <1>5
  <2> HIDE DEF front
  <2>2. Joined(Joined(front, rows), t) = Joined(front, Joined(rows, t))
    BY <1>2, <2>1, JoinedAssoc
  <2>3. QED BY <1>3, <2>2, Zenon DEF front
<1> HIDE DEF s
<1>8. RecvSegmentTable(s) = Got(table, t)
  BY <1>2, <1>5, Zenon DEF RecvSegmentTable
<1>9. QED BY <1>6, <1>7, <1>8

(* add_instructions and recv_instructions (serialization.c:76, 188): the   *)
(* program of a console or of a pcb arrives with every instruction and     *)
(* every parameter, numbers and devices alike, whatever their count.       *)
THEOREM ListingTrip ==
  ASSUME NEW F, IsField(F), NEW list \in Listings(F), NEW t \in Seq(F)
  PROVE  /\ AddInstructions(list) \in Seq(F)
         /\ RecvInstructions(Joined(AddInstructions(list), t)) = Got(list, t)
<1> DEFINE n == Len(list)
           lines == AddEach(AddInstruction, list)
           s == Joined(<<INSTRUCTIONS, n>>, Joined(lines, t))
<1>1. INSTRUCTIONS \in F /\ n \in F
  BY DEF Listings, IsField, INSTRUCTIONS
<1>2. lines \in Seq(F) /\ RecvEach(RecvInstruction, n, Joined(lines, t)) = Got(list, t)
  BY InstructionsTrip
<1>3. AddInstructions(list) = Joined(<<INSTRUCTIONS, n>>, lines)
  BY DEF AddInstructions, Joined
<1> HIDE DEF n, lines
<1>4. Joined(lines, t) \in Seq(F)
  BY <1>2, ConcatFacts DEF Joined
<1>5. <<INSTRUCTIONS, n>> \in Seq(F) /\ s[2] = n /\ SubSeq(s, 3, Len(s)) = Joined(lines, t)
  BY <1>1, <1>4, TwoFirst
<1>6. AddInstructions(list) \in Seq(F)
  BY <1>2, <1>3, <1>5, ConcatFacts DEF Joined
<1>7. Joined(AddInstructions(list), t) = s
  <2> DEFINE front == <<INSTRUCTIONS, n>>
  <2>1. front \in Seq(F)
    BY <1>5
  <2> HIDE DEF front
  <2>2. Joined(Joined(front, lines), t) = Joined(front, Joined(lines, t))
    BY <1>2, <2>1, JoinedAssoc
  <2>3. QED BY <1>3, <2>2, Zenon DEF front
<1> HIDE DEF s
<1>8. RecvInstructions(s) = Got(list, t)
  BY <1>2, <1>5, Zenon DEF RecvInstructions
<1>9. QED BY <1>6, <1>7, <1>8

(* send_segments and recv_segments, send_process_started and               *)
(* recv_process_started (serialization.c:373, 388, 403, 418): the sizes of *)
(* the segments arrive behind their count, as many as were sent.           *)
THEOREM SizesTrip ==
  ASSUME NEW F, IsField(F), NEW sizes \in Seq(Int), NEW t \in Seq(F)
  PROVE  /\ Joined(<<Len(sizes)>>, sizes) \in Seq(F)
         /\ RecvSegments(Joined(Joined(<<Len(sizes)>>, sizes), t)) = Got(sizes, t)
<1> DEFINE n == Len(sizes)
           front == <<n>>
           s == Joined(front, Joined(sizes, t))
<1>1. n \in F
  BY DEF IsField
<1>2. sizes \in Seq(F) /\ RecvEach(RecvInt, n, Joined(sizes, t)) = Got(sizes, t)
  BY IntsTrip
<1> HIDE DEF n
<1>3. Joined(sizes, t) \in Seq(F)
  BY <1>2, ConcatFacts DEF Joined
<1>4. front \in Seq(F) /\ s[1] = n /\ Tail(s) = Joined(sizes, t)
  BY <1>1, <1>3, OneFirst
<1> HIDE DEF front
<1>5. Joined(front, sizes) \in Seq(F)
  BY <1>2, <1>4, ConcatFacts DEF Joined
<1>6. Joined(Joined(front, sizes), t) = s
  BY <1>2, <1>4, JoinedAssoc
<1> HIDE DEF s
<1>7. RecvSegments(s) = Got(sizes, t)
  BY <1>2, <1>4, Zenon DEF RecvSegments
<1>8. QED BY <1>5, <1>6, <1>7 DEF front, n

(* The four registers are a sequence.                                      *)
LEMMA ArrayIsSeq ==
  ASSUME NEW F, NEW n \in Nat, NEW b \in [1 .. n -> F]
  PROVE  b \in Seq(F) /\ Len(b) = n
OBVIOUS

(* The length of s, as two bounds.                                         *)
Fields(s, n) == Len(s) <= n /\ n <= Len(s)

(* The nine fields in front of the segment table of a pcb.                 *)
Headers(F, a, b, c) ==
  /\ a \in Seq(F) /\ b \in Seq(F) /\ c \in Seq(F)
  /\ Fields(a, 4) /\ Fields(b, 4) /\ Fields(c, 1)
Header(a, b, c) == Joined(Joined(a, b), c)
IsHeaded(F, s, a, b, c, t) ==
  /\ Header(a, b, c) \in Seq(F)
  /\ s[2] = a[2] /\ s[3] = a[3] /\ s[4] = a[4] /\ s[9] = c[1]
  /\ SubSeq(s, 5, 8) = b
  /\ SubSeq(s, 10, Len(s)) = t

LEMMA NineFirst ==
  ASSUME NEW F, NEW a, NEW b, NEW c, NEW t \in Seq(F), Headers(F, a, b, c)
  PROVE  IsHeaded(F, Joined(Header(a, b, c), t), a, b, c, t)
<1> USE DEF Headers
<1> DEFINE front == Header(a, b, c)
           s == Joined(front, t)
<1> DEFINE ab == Joined(a, b)
<1>1. ab \in Seq(F) /\ Fields(ab, 8)
  BY DEF Joined, Fields
<1>2. \A i \in 1 .. 4 : ab[i] = a[i] /\ ab[4 + i] = b[i]
  BY DEF Joined, Fields
<1>3. front = Joined(ab, c)
  BY DEF Header
<1> HIDE DEF ab, front
<1>4. front \in Seq(F) /\ Fields(front, 9)
  BY <1>1, <1>3 DEF Joined, Fields
<1>5. (\A i \in 1 .. 8 : front[i] = ab[i]) /\ front[9] = c[1]
  BY <1>1, <1>3 DEF Joined, Fields
<1>6. s \in Seq(F) /\ 9 <= Len(s)
  BY <1>4 DEF Joined, Fields
<1>7. \A i \in 1 .. 9 : s[i] = front[i]
  BY <1>4 DEF Joined, Fields
<1>8. SubSeq(s, 10, Len(s)) = t
  BY <1>4 DEF Joined, Fields
<1>9. SubSeq(s, 5, 8) = b
  <2>1. \A i \in 1 .. 4 : s[4 + i] = b[i]
    BY <1>2, <1>5, <1>7
  <2>2. \A i \in 1 .. 4 : SubSeq(s, 5, 8)[i] = s[4 + i]
    BY <1>6
  <2>3. SubSeq(s, 5, 8) \in Seq(F) /\ Fields(SubSeq(s, 5, 8), 4)
    BY <1>6 DEF Fields
  <2>4. \A i \in 1 .. 4 : SubSeq(s, 5, 8)[i] = b[i]
    BY <2>1, <2>2
  <2> DEFINE u == SubSeq(s, 5, 8)
  <2> HIDE DEF u
  <2>5. u \in Seq(F) /\ Fields(u, 4) /\ \A i \in 1 .. 4 : u[i] = b[i]
    BY <2>3, <2>4 DEF u
  <2>6. u = b
    BY <2>5 DEF Fields
  <2>7. QED BY <2>6 DEF u
<1>10. QED BY <1>2, <1>4, <1>5, <1>7, <1>8, <1>9 DEF IsHeaded, front

(* A stream with something in it is not empty.                             *)
LEMMA NotEmpty ==
  ASSUME NEW F, NEW s \in Seq(F), NEW t \in Seq(F)
  PROVE  s # << >> \/ t # << >> => Joined(s, t) # << >>
BY DEF Joined

(* add_pcb and recv_pcb (serialization.c:136, 296): the pcb the other side *)
(* gets is the one that was sent, its registers, its segment table and its *)
(* program in their places, and the rest of the stream is left for the     *)
(* next recv.                                                              *)
THEOREM PcbTrip ==
  ASSUME NEW F, IsField(F), NEW pcb \in Pcbs(F), NEW t \in Seq(F)
  PROVE  /\ AddPcb(pcb) \in Seq(F)
         /\ RecvPcb(Joined(AddPcb(pcb), t)) = Got(pcb, t)
         /\ AddPcb(pcb) # << >>
<1> DEFINE a == <<PCB, pcb.id, pcb.interrupt_type, pcb.program_counter>>
           b == pcb.registers
           c == <<pcb.socket_consola>>
           table == AddSegmentTable(pcb.segment_table)
           lines == AddInstructions(pcb.instructions)
           front == Header(a, b, c)
           behind == Joined(table, Joined(lines, t))
           s == Joined(front, behind)
<1>1. /\ pcb.registers \in [1 .. 4 -> F] /\ pcb.socket_consola \in F
      /\ pcb.segment_table \in SegmentTables /\ pcb.instructions \in Listings(F)
      /\ pcb.id \in F /\ pcb.interrupt_type \in F /\ pcb.program_counter \in F /\ PCB \in F
  BY DEF Pcbs, IsField, PCB
<1>2. /\ a \in Seq(F) /\ b \in Seq(F) /\ c \in Seq(F)
      /\ Fields(a, 4) /\ Fields(b, 4) /\ Fields(c, 1)
  <2>1. a \in Seq(F) /\ Fields(a, 4)
    BY <1>1 DEF Fields
  <2>2. b \in Seq(F) /\ Fields(b, 4)
    <3>1. 4 \in Nat
      OBVIOUS
    <3>2. b \in [1 .. 4 -> F]
      BY <1>1
    <3> HIDE DEF b
    <3>3. b \in Seq(F) /\ Len(b) = 4
      BY <3>1, <3>2, ArrayIsSeq, Zenon
    <3>4. QED BY <3>3 DEF Fields
  <2>3. c \in Seq(F) /\ Fields(c, 1)
    BY <1>1 DEF Fields
  <2>4. QED BY <2>1, <2>2, <2>3
<1>3. a[2] = pcb.id /\ a[3] = pcb.interrupt_type /\ a[4] = pcb.program_counter
      /\ c[1] = pcb.socket_consola
  OBVIOUS
<1>4. /\ lines \in Seq(F)
      /\ RecvInstructions(Joined(lines, t)) = Got(pcb.instructions, t)
  BY <1>1, ListingTrip
<1>5. Joined(lines, t) \in Seq(F)
  <2> HIDE DEF lines
  <2>1. QED BY <1>4, ConcatFacts DEF Joined
<1>6. /\ table \in Seq(F)
      /\ RecvSegmentTable(behind) = Got(pcb.segment_table, Joined(lines, t))
  <2> HIDE DEF lines
  <2>1. QED BY <1>1, <1>5, SegmentTableTrip
<1>7. AddPcb(pcb) = Joined(Joined(front, table), lines)
  BY Zenon DEF AddPcb, Joined, Header
<1> HIDE DEF a, b, c, table, lines
<1>8. behind \in Seq(F)
  BY <1>5, <1>6, ConcatFacts DEF Joined
<1>9. /\ front \in Seq(F)
      /\ s[2] = a[2] /\ s[3] = a[3] /\ s[4] = a[4] /\ s[9] = c[1]
      /\ SubSeq(s, 5, 8) = b
      /\ SubSeq(s, 10, Len(s)) = behind
  <2> HIDE DEF behind
  <2>1. Headers(F, a, b, c)
    BY <1>2 DEF Headers
  <2>2. IsHeaded(F, s, a, b, c, behind)
    BY <1>8, <2>1, NineFirst, Zenon
  <2>3. QED BY <2>2, Zenon DEF IsHeaded
<1> HIDE DEF front
<1>10. Joined(front, table) \in Seq(F)
  BY <1>6, <1>9, ConcatFacts DEF Joined
<1>11. AddPcb(pcb) \in Seq(F)
  BY <1>4, <1>7, <1>10, ConcatFacts DEF Joined
<1>12. AddPcb(pcb) # << >>
  <2>1. front # << >>
    <3>1. Joined(a, b) \in Seq(F) /\ c # << >>
      BY <1>2, ConcatFacts DEF Joined, c
    <3>2. QED BY <1>2, <3>1, NotEmpty DEF front, Header
  <2>2. Joined(front, table) # << >>
    BY <1>6, <1>9, <2>1, NotEmpty
  <2>3. QED BY <1>4, <1>7, <1>10, <2>2, NotEmpty
<1>13. Joined(AddPcb(pcb), t) = s
  <2>1. Joined(Joined(Joined(front, table), lines), t) = Joined(Joined(front, table), Joined(lines, t))
    BY <1>4, <1>10, JoinedAssoc
  <2>2. Joined(Joined(front, table), Joined(lines, t)) = Joined(front, Joined(table, Joined(lines, t)))
    BY <1>5, <1>6, <1>9, JoinedAssoc
  <2>3. QED BY <1>7, <2>1, <2>2, Zenon
<1> HIDE DEF behind
<1> HIDE DEF s
<1>14. SubSeq(s, 10, Len(s)) = behind
  BY <1>9
<1>15. SubSeq(s, 5, 8) = pcb.registers
  BY <1>9 DEF b
<1>16. /\ s[2] = pcb.id /\ s[3] = pcb.interrupt_type /\ s[4] = pcb.program_counter
       /\ s[9] = pcb.socket_consola
  BY <1>3, <1>9
<1>17. RecvPcb(s) =
         Got([id |-> s[2], interrupt_type |-> s[3], program_counter |-> s[4],
              registers |-> SubSeq(s, 5, 8), socket_consola |-> s[9],
              segment_table |-> RecvSegmentTable(SubSeq(s, 10, Len(s))).value,
              instructions |-> RecvInstructions(RecvSegmentTable(SubSeq(s, 10, Len(s))).rest).value],
             RecvInstructions(RecvSegmentTable(SubSeq(s, 10, Len(s))).rest).rest)
  BY DEF RecvPcb, Then
<1>18. /\ RecvSegmentTable(SubSeq(s, 10, Len(s))).value = pcb.segment_table
       /\ RecvSegmentTable(SubSeq(s, 10, Len(s))).rest = Joined(lines, t)
  <2>1. RecvSegmentTable(SubSeq(s, 10, Len(s))) = Got(pcb.segment_table, Joined(lines, t))
    BY <1>6, <1>14, Zenon
  <2>2. QED BY <2>1 DEF Got
<1>19. /\ RecvInstructions(Joined(lines, t)).value = pcb.instructions
       /\ RecvInstructions(Joined(lines, t)).rest = t
  BY <1>4 DEF Got
<1>20. pcb = [id |-> pcb.id, interrupt_type |-> pcb.interrupt_type,
              program_counter |-> pcb.program_counter, registers |-> pcb.registers,
              socket_consola |-> pcb.socket_consola, segment_table |-> pcb.segment_table,
              instructions |-> pcb.instructions]
  BY DEF Pcbs
<1>21. RecvPcb(s) = Got(pcb, t)
  BY <1>15, <1>16, <1>17, <1>18, <1>19, <1>20, Zenon
<1>22. QED BY <1>11, <1>12, <1>13, <1>21
=============================================================================
