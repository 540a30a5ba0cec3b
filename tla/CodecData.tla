------------------------------ MODULE CodecData ------------------------------
(***************************************************************************)
(* What the operators of Codec compute, for every body and every chunk     *)
(* size: the checksum tells a body from the same body with one cell        *)
(* changed, the pieces of a body, joined, are the body, and the packets    *)
(* from an id on are taken from each part of what was sent.                *)
(*                                                                         *)
(* All are recursive, over the length of a sequence.  The prover has no    *)
(* rule of induction for formulas; what it has is that a set of naturals   *)
(* that is not empty has a least element, and that is induction for sets.  *)
(* A recursive function is first shown to exist, then to be what its       *)
(* definition chooses.                                                     *)
(***************************************************************************)
EXTENDS Codec, SequenceTheorems, WellFoundedInduction, TLAPS

\* A non-empty set of naturals has a least element.
LEMMA Least ==
    ASSUME NEW T, T \subseteq Nat, T # {}
    PROVE  \E x \in T : \A y \in T : x <= y
<1> DEFINE R == OpToRel(<, Nat)
<1>1. IsWellFoundedOn(R, Nat)
    BY NatLessThanWellFounded, Zenon
<1>2. \A x \in Nat, y \in Nat : x < y => <<x, y>> \in R
    BY Zenon DEF OpToRel
<1> HIDE DEF R
<1>3. PICK x \in T : \A y \in T : ~(<<y, x>> \in R)
    BY <1>1, WFMin
<1>4. \A y \in T : ~(y < x)
    BY <1>2, <1>3
<1> QED
    BY <1>4

\* Induction over Nat, for a set instead of a formula.
LEMMA Induction ==
    ASSUME NEW S, 0 \in S, \A n \in Nat : n \in S => n + 1 \in S
    PROVE  Nat \subseteq S
<1> SUFFICES ASSUME ~(Nat \subseteq S)
             PROVE  FALSE
    OBVIOUS
<1>1. PICK x \in Nat \ S : \A y \in Nat \ S : x <= y
    BY Least
<1>2. x # 0
    OBVIOUS
<1>3. x - 1 \in Nat /\ x - 1 \notin Nat \ S
    BY <1>1, <1>2
<1> QED
    BY <1>1, <1>3

\* f goes from d by n steps.
Iterates(f, d, step, n) == f[0] = d /\ \A k \in 1..n : f[k] = step[<<f[k - 1], k>>]

\* A recursive function over 0..n exists: it is not only chosen.
LEMMA IterationExists ==
    ASSUME NEW D, NEW d \in D, NEW n \in Nat, NEW step \in [D \X (1..n) -> D]
    PROVE  \E f \in [0..n -> D] : Iterates(f, d, step, n)
<1> DEFINE S == {m \in Nat : m <= n => \E f \in [0..m -> D] : Iterates(f, d, step, m)}
<1>1. 0 \in S
    <2> DEFINE f == [k \in 0..0 |-> d]
    <2>1. f \in [0..0 -> D] /\ Iterates(f, d, step, 0)
        BY DEF Iterates
    <2> QED
        BY <2>1
<1>2. ASSUME NEW m \in Nat, m \in S
      PROVE  m + 1 \in S
    <2> SUFFICES ASSUME m + 1 <= n
                 PROVE  \E f \in [0..(m + 1) -> D] : Iterates(f, d, step, m + 1)
        OBVIOUS
    <2>1. PICK f \in [0..m -> D] : Iterates(f, d, step, m)
        BY <1>2
    <2> DEFINE g == [k \in 0..(m + 1) |-> IF k = m + 1 THEN step[<<f[m], m + 1>>] ELSE f[k]]
    <2>2. f[m] \in D /\ step[<<f[m], m + 1>>] \in D
        BY <2>1
    <2>3. g \in [0..(m + 1) -> D]
        BY <2>1, <2>2
    <2>4. g[0] = d
        BY <2>1 DEF Iterates
    <2>5. ASSUME NEW k \in 1..(m + 1)
          PROVE  g[k] = step[<<g[k - 1], k>>]
        <3>1. k - 1 \in 0..m /\ g[k - 1] = f[k - 1]
            OBVIOUS
        <3>2. CASE k = m + 1
            <4>1. g[k] = step[<<f[m], m + 1>>] /\ k - 1 = m
                BY <3>2
            <4> QED
                BY <3>1, <3>2, <4>1, Zenon
        <3>3. CASE k # m + 1
            BY <2>1, <3>1, <3>3 DEF Iterates
        <3> QED
            BY <3>2, <3>3
    <2> HIDE DEF g
    <2>6. Iterates(g, d, step, m + 1)
        BY <2>4, <2>5 DEF Iterates
    <2> QED
        BY <2>3, <2>6
<1> HIDE DEF S
<1>3. n \in S
    BY <1>1, <1>2, Induction
<1> QED
    BY <1>3 DEF S

-----------------------------------------------------------------------------
(* adler32.                                                                *)

Acc == [a : 0..(MOD - 1), b : 0..(MOD - 1)]

Start == [a |-> 1, b |-> 0]

Add(acc, cell) ==
    LET a == (acc.a + cell) % MOD
    IN [a |-> a, b |-> (acc.b + a) % MOD]

AddType ==
    \A acc \in Acc, cell \in Nat : Add(acc, cell) \in Acc

\* The checksum of one more cell is again two residues.
LEMMA AddIsAcc == AddType
<1>1. MOD \in Nat /\ MOD > 0
    BY CodecAssumption
<1>2. ASSUME NEW x \in Nat
      PROVE  x % MOD \in 0..(MOD - 1)
    BY <1>1
<1> SUFFICES ASSUME NEW acc \in Acc, NEW cell \in Nat
             PROVE  Add(acc, cell) \in Acc
    BY DEF AddType
<1>3. acc.a \in Nat /\ acc.b \in Nat
    BY <1>1 DEF Acc
<1>4. PICK x \in Nat : x = acc.a + cell
    BY <1>3
<1>5. x % MOD \in 0..(MOD - 1) /\ x % MOD \in Nat
    BY <1>1, <1>2
<1>6. PICK y \in Nat : y = acc.b + (x % MOD)
    BY <1>3, <1>5
<1>7. y % MOD \in 0..(MOD - 1)
    BY <1>2
<1>8. Add(acc, cell) = [a |-> x % MOD, b |-> y % MOD]
    BY <1>4, <1>6, Zenon DEF Add
<1> QED
    BY <1>5, <1>7, <1>8 DEF Acc

AddStep(cells) == [p \in Acc \X (1..Len(cells)) |-> Add(p[1], cells[p[2]])]

Glued(acc) == acc.b * 65536 + acc.a

\* f goes through the values that a and b take over the n cells.
Sums(f, cells, n) ==
    /\ f \in [0..n -> Acc]
    /\ f[0] = Start
    /\ \A k \in 1..n : f[k] = Add(f[k - 1], cells[k])
    /\ adler32(cells) = Glued(f[n])

\* The sum is what the loop leaves in a and b.
LEMMA SumIterates ==
    ASSUME NEW cells \in Seq(Nat)
    PROVE  \E f : Sums(f, cells, Len(cells))
<1> DEFINE Loop(s) ==
        [k \in 0..Len(cells) |->
            IF k = 0 THEN [a |-> 1, b |-> 0]
            ELSE LET a == (s[k - 1].a + cells[k]) % MOD
                 IN [a |-> a, b |-> (s[k - 1].b + a) % MOD]]
       sum == CHOOSE s : s = Loop(s)
<1>1. adler32(cells) = sum[Len(cells)].b * 65536 + sum[Len(cells)].a
    BY DEF adler32
<1>2. Len(cells) \in Nat /\ \A k \in 1..Len(cells) : cells[k] \in Nat
    BY LenProperties, ElementOfSeq
<1>3. Start \in Acc
    BY CodecAssumption DEF Start, Acc
<1>4. AddStep(cells) \in [Acc \X (1..Len(cells)) -> Acc]
    BY <1>2, AddIsAcc DEF AddStep, AddType
<1>5. PICK f \in [0..Len(cells) -> Acc] : Iterates(f, Start, AddStep(cells), Len(cells))
    BY <1>2, <1>3, <1>4, IterationExists
<1>6. \A k \in 1..Len(cells) : f[k] = Add(f[k - 1], cells[k])
    <2> SUFFICES ASSUME NEW k \in 1..Len(cells)
                 PROVE  f[k] = Add(f[k - 1], cells[k])
        OBVIOUS
    <2>1. k - 1 \in 0..Len(cells) /\ f[k - 1] \in Acc
        BY <1>2, <1>5
    <2>2. f[k] = AddStep(cells)[<<f[k - 1], k>>]
        BY <1>5, Zenon DEF Iterates
    <2> QED
        BY <2>1, <2>2 DEF AddStep
<1>7. f = Loop(f)
    <2>1. ASSUME NEW k \in 0..Len(cells)
          PROVE  f[k] = Loop(f)[k]
        <3>1. CASE k = 0
            BY <1>5, <3>1 DEF Iterates, Start
        <3>2. CASE k # 0
            <4>1. k \in 1..Len(cells)
                BY <3>2
            <4>2. f[k] = Add(f[k - 1], cells[k])
                BY <1>6, <4>1
            <4>3. Loop(f)[k] = LET a == (f[k - 1].a + cells[k]) % MOD
                               IN [a |-> a, b |-> (f[k - 1].b + a) % MOD]
                BY <3>2
            <4> QED
                BY <4>2, <4>3, Zenon DEF Add
        <3> QED
            BY <3>1, <3>2
    <2> QED
        BY <1>5, <2>1
<1> HIDE DEF Loop
<1>8. sum = Loop(sum)
    BY <1>7
<1> HIDE DEF sum
<1>9. /\ sum = [k \in 0..Len(cells) |-> sum[k]]
      /\ \A k \in 0..Len(cells) : sum[k] = Loop(sum)[k]
    BY <1>8 DEF Loop
<1>10. sum[0] = Start
    <2>1. 0 \in 0..Len(cells)
        BY <1>2
    <2>2. Loop(sum)[0] = Start
        BY <2>1 DEF Loop, Start
    <2> QED
        BY <1>9, <2>1, <2>2, Zenon
<1>11. ASSUME NEW k \in 1..Len(cells)
       PROVE  sum[k] = Add(sum[k - 1], cells[k])
    <2>1. Loop(sum)[k] = LET a == (sum[k - 1].a + cells[k]) % MOD
                         IN [a |-> a, b |-> (sum[k - 1].b + a) % MOD]
        BY DEF Loop
    <2>2. k \in 0..Len(cells)
        OBVIOUS
    <2> QED
        BY <1>9, <2>1, <2>2, Zenon DEF Add
<1>12. \A k \in 0..Len(cells) : sum[k] \in Acc
    <2> DEFINE S == {m \in Nat : m <= Len(cells) => sum[m] \in Acc}
    <2>1. 0 \in S
        BY <1>3, <1>10
    <2>2. ASSUME NEW m \in Nat, m \in S
          PROVE  m + 1 \in S
        <3> SUFFICES ASSUME m + 1 <= Len(cells)
                     PROVE  sum[m + 1] \in Acc
            OBVIOUS
        <3>1. m + 1 \in 1..Len(cells) /\ (m + 1) - 1 = m /\ sum[m] \in Acc
            BY <1>2, <2>2
        <3>2. sum[m + 1] = Add(sum[m], cells[m + 1]) /\ cells[m + 1] \in Nat
            BY <1>2, <1>11, <3>1
        <3> QED
            BY <3>1, <3>2, AddIsAcc DEF AddType
    <2> HIDE DEF S
    <2>3. Nat \subseteq S
        BY <2>1, <2>2, Induction
    <2> QED
        BY <1>2, <2>3 DEF S
<1>13. sum \in [0..Len(cells) -> Acc]
    BY <1>9, <1>12
<1> QED
    BY <1>1, <1>10, <1>11, <1>13 DEF Sums, Glued

\* The next cell value has another residue, as there are at least two.
LEMMA NextRemainder ==
    ASSUME NEW z \in Nat
    PROVE  /\ z % MOD \in 0..(MOD - 1)
           /\ (z + 1) % MOD = IF z % MOD = MOD - 1 THEN 0 ELSE (z % MOD) + 1
           /\ (z + 1) % MOD # z % MOD
<1>1. MOD \in Nat /\ MOD > 1
    BY CodecAssumption
<1> DEFINE q == z \div MOD
           r == z % MOD
<1>2. q \in Int /\ r \in 0..(MOD - 1) /\ z = MOD * q + r
    BY <1>1
<1> HIDE DEF q, r
<1>3. CASE r = MOD - 1
    <2>1. z + 1 = MOD * (q + 1)
        BY <1>1, <1>2, <1>3
    <2>2. (z + 1) % MOD = 0
        BY <1>1, <1>2, <2>1
    <2> QED
        BY <1>1, <1>2, <1>3, <2>2 DEF r
<1>4. CASE r # MOD - 1
    <2>1. z + 1 = MOD * q + (r + 1) /\ r + 1 \in 0..(MOD - 1)
        BY <1>1, <1>2, <1>4
    <2>2. (z + 1) % MOD = r + 1
        BY <1>1, <1>2, <2>1
    <2> QED
        BY <1>2, <1>4, <2>2 DEF r
<1> QED
    BY <1>3, <1>4

\* Different values of a stay different, whatever is added to both.
LEMMA RemaindersDiffer ==
    ASSUME NEW x \in 0..(MOD - 1), NEW y \in 0..(MOD - 1), NEW c \in Nat,
           (x + c) % MOD = (y + c) % MOD
    PROVE  x = y
<1>1. MOD \in Nat /\ MOD > 0
    BY CodecAssumption
<1> DEFINE S == {n \in Nat : (x + n) % MOD = (y + n) % MOD => x = y}
<1>2. 0 \in S
    BY <1>1
<1>3. ASSUME NEW n \in Nat, n \in S
      PROVE  n + 1 \in S
    <2>1. PICK v \in Nat : v = x + n
        BY <1>1
    <2>2. PICK w \in Nat : w = y + n
        BY <1>1
    <2>3. x + (n + 1) = v + 1 /\ y + (n + 1) = w + 1
        BY <1>1, <2>1, <2>2
    <2>4. SUFFICES ASSUME (v + 1) % MOD = (w + 1) % MOD
                   PROVE  x = y
        BY <2>3
    <2>5. v % MOD = w % MOD
        BY <1>1, <2>4, NextRemainder
    <2> QED
        BY <1>3, <2>1, <2>2, <2>5
<1> HIDE DEF S
<1>4. Nat \subseteq S
    BY <1>2, <1>3, Induction
<1> QED
    BY <1>4 DEF S

\* Two different sums stay different when the same cell is added.
LEMMA AddDiffers ==
    ASSUME NEW s \in Acc, NEW t \in Acc, NEW c \in Nat
    PROVE  /\ s.a # t.a => Add(s, c).a # Add(t, c).a
           /\ Add(s, c).a # Add(s, c + 1).a
<1>1. s.a \in 0..(MOD - 1) /\ t.a \in 0..(MOD - 1)
    BY DEF Acc
<1>2. /\ Add(s, c).a = (s.a + c) % MOD
      /\ Add(t, c).a = (t.a + c) % MOD
      /\ Add(s, c + 1).a = (s.a + (c + 1)) % MOD
    BY DEF Add
<1>3. PICK x \in Nat : x = s.a + c
    BY <1>1
<1>4. s.a + (c + 1) = x + 1
    BY <1>1, <1>3
<1>5. x % MOD # (x + 1) % MOD
    BY NextRemainder, Zenon
<1>6. Add(s, c).a # Add(s, c + 1).a
    BY <1>2, <1>3, <1>4, <1>5, Zenon
<1>7. s.a # t.a => (s.a + c) % MOD # (t.a + c) % MOD
    BY <1>1, RemaindersDiffer
<1> QED
    BY <1>2, <1>6, <1>7, Zenon

\* One step of the sums.
LEMMA SumsStep ==
    ASSUME NEW f, NEW cells, NEW n \in Nat, Sums(f, cells, n)
    PROVE  /\ \A m \in 0..n : f[m] \in Acc
           /\ \A m \in Nat : m + 1 <= n => f[m + 1] = Add(f[m], cells[m + 1])
<1>1. \A m \in 0..n : f[m] \in Acc
    BY DEF Sums
<1>2. ASSUME NEW m \in Nat, m + 1 <= n
      PROVE  f[m + 1] = Add(f[m], cells[m + 1])
    <2>1. m + 1 \in 1..n /\ (m + 1) - 1 = m
        BY <1>2
    <2>2. \A k \in 1..n : f[k] = Add(f[k - 1], cells[k])
        BY DEF Sums
    <2>3. f[m + 1] = Add(f[(m + 1) - 1], cells[m + 1])
        BY <2>1, <2>2, Zenon
    <2> QED
        BY <2>1, <2>3, Zenon
<1> QED
    BY <1>1, <1>2

\* The two halves of a checksum, put together.
LEMMA GluedType ==
    ASSUME NEW s \in Acc
    PROVE  Glued(s) \in Nat
BY CodecAssumption DEF Acc, Glued

\* Checksums with different low halves are different.
LEMMA GluedDiffer ==
    ASSUME NEW s \in Acc, NEW t \in Acc, s.a # t.a
    PROVE  Glued(s) # Glued(t)
BY CodecAssumption DEF Acc, Glued

\* Up to the cell p the loops agree, and from there on they differ in a.
ApartFrom(f, g, p, m) == IF m < p THEN f[m] = g[m] ELSE f[m].a # g[m].a

\* One cell that is greater by one changes the sum.
LEMMA SumChanges ==
    ASSUME NEW cells \in Seq(Nat), NEW p \in 1..Len(cells)
    PROVE  adler32([cells EXCEPT ![p] = @ + 1]) # adler32(cells)
<1>1. PICK n \in Nat : n = Len(cells)
    BY LenProperties
<1>2. PICK other \in Seq(Nat) : other = [cells EXCEPT ![p] = @ + 1]
    <2>1. cells \in [1..Len(cells) -> Nat]
        BY LenProperties
    <2>2. [cells EXCEPT ![p] = @ + 1] \in [1..Len(cells) -> Nat]
        BY <2>1
    <2>3. [cells EXCEPT ![p] = @ + 1] \in Seq(Nat)
        BY <1>1, <2>2, SeqDef
    <2> QED
        BY <2>3
<1>3. /\ \A k \in 1..n : cells[k] \in Nat
      /\ p \in 1..n /\ Len(other) = n
      /\ other[p] = cells[p] + 1
      /\ \A k \in 1..n : k # p => other[k] = cells[k]
    BY <1>1, <1>2, ElementOfSeq, LenProperties
<1>4. PICK f : Sums(f, cells, n)
    BY <1>1, SumIterates
<1>5. PICK g : Sums(g, other, n)
    BY <1>3, SumIterates
<1>6. \A m \in 0..n : f[m] \in Acc /\ g[m] \in Acc
    BY <1>4, <1>5, SumsStep
<1>7. ASSUME NEW m \in Nat, m + 1 <= n
      PROVE  /\ f[m + 1] = Add(f[m], cells[m + 1])
             /\ g[m + 1] = Add(g[m], other[m + 1])
    BY <1>4, <1>5, <1>7, SumsStep
<1> DEFINE S == {m \in Nat : m <= n => ApartFrom(f, g, p, m)}
<1>8. 0 \in S
    BY <1>3, <1>4, <1>5 DEF Sums, ApartFrom
<1>9. ASSUME NEW m \in Nat, m <= n => ApartFrom(f, g, p, m), m + 1 <= n
      PROVE  ApartFrom(f, g, p, m + 1)
    <2>1. m + 1 \in 1..n /\ m \in 0..n /\ m <= n /\ p \in 1..n
        BY <1>3, <1>9
    <2>2. f[m] \in Acc /\ g[m] \in Acc /\ cells[m + 1] \in Nat
        BY <1>3, <1>6, <2>1
    <2>3. CASE m + 1 < p
        <3>1. f[m] = g[m] /\ other[m + 1] = cells[m + 1]
            BY <1>3, <1>9, <2>1, <2>3 DEF ApartFrom
        <3> QED
            BY <1>7, <1>9, <2>3, <3>1 DEF ApartFrom
    <2>4. CASE m + 1 = p
        <3>1. f[m] = g[m] /\ other[m + 1] = cells[m + 1] + 1
            BY <1>3, <1>9, <2>1, <2>4 DEF ApartFrom
        <3>2. Add(f[m], cells[m + 1]).a # Add(f[m], cells[m + 1] + 1).a
            BY <2>2, AddDiffers
        <3>3. f[m + 1].a # g[m + 1].a
            BY <1>7, <1>9, <3>1, <3>2, Zenon
        <3> QED
            BY <2>4, <3>3 DEF ApartFrom
    <2>5. CASE m + 1 > p
        <3>1. f[m].a # g[m].a /\ other[m + 1] = cells[m + 1]
            BY <1>3, <1>9, <2>1, <2>5 DEF ApartFrom
        <3>2. Add(f[m], cells[m + 1]).a # Add(g[m], cells[m + 1]).a
            BY <2>2, <3>1, AddDiffers
        <3>3. f[m + 1].a # g[m + 1].a
            BY <1>7, <1>9, <3>1, <3>2, Zenon
        <3> QED
            BY <2>5, <3>3 DEF ApartFrom
    <2>6. m + 1 < p \/ m + 1 = p \/ m + 1 > p
        BY <2>1
    <2> QED
        BY <2>3, <2>4, <2>5, <2>6, Zenon
<1>10. \A m \in Nat : m \in S => m + 1 \in S
    BY <1>9
<1>11. Nat \subseteq S
    <2> HIDE DEF S
    <2> QED
        BY <1>8, <1>10, Induction
<1>12. f[n].a # g[n].a
    BY <1>3, <1>11 DEF ApartFrom
<1>13. f[n] \in Acc /\ g[n] \in Acc
    BY <1>6
<1>14. Glued(f[n]) # Glued(g[n])
    BY <1>12, <1>13, GluedDiffer
<1>15. adler32(cells) # adler32(other)
    BY <1>4, <1>5, <1>14, Zenon DEF Sums
<1> QED
    BY <1>2, <1>15, Zenon

\* A checksum is a natural number.
LEMMA SumType ==
    ASSUME NEW cells \in Seq(Nat)
    PROVE  adler32(cells) \in Nat
<1>1. PICK f : Sums(f, cells, Len(cells))
    BY SumIterates
<1>2. f[Len(cells)] \in Acc
    BY <1>1, LenProperties, SumsStep
<1> QED
    BY <1>1, <1>2, GluedType DEF Sums

-----------------------------------------------------------------------------
(* FlattenSeq.                                                             *)

\* f goes through what the first of seqs make together.
Joins(f, seqs, n) ==
    /\ f[0] = <<>>
    /\ \A k \in 1..n : f[k] = f[k - 1] \o seqs[k]

\* One step of the joins.
LEMMA JoinsStep ==
    ASSUME NEW f, NEW seqs, NEW n \in Nat, Joins(f, seqs, n), NEW m \in Nat, m + 1 <= n
    PROVE  f[m + 1] = f[m] \o seqs[m + 1]
<1>1. m + 1 \in 1..n /\ (m + 1) - 1 = m
    OBVIOUS
<1>2. \A k \in 1..n : f[k] = f[k - 1] \o seqs[k]
    BY DEF Joins
<1>3. f[m + 1] = f[(m + 1) - 1] \o seqs[m + 1]
    BY <1>1, <1>2, Zenon
<1> QED
    BY <1>1, <1>3, Zenon

\* The joins of a sequence of sequences exist.
LEMMA JoinsExist ==
    ASSUME NEW D, NEW seqs \in Seq(Seq(D))
    PROVE  \E f \in [0..Len(seqs) -> Seq(D)] : Joins(f, seqs, Len(seqs))
<1> DEFINE step == [p \in Seq(D) \X (1..Len(seqs)) |-> p[1] \o seqs[p[2]]]
<1>1. Len(seqs) \in Nat /\ \A k \in 1..Len(seqs) : seqs[k] \in Seq(D)
    BY LenProperties, ElementOfSeq
<1>2. step \in [Seq(D) \X (1..Len(seqs)) -> Seq(D)]
    BY <1>1, ConcatProperties
<1>3. \A p \in Seq(D), k \in 1..Len(seqs) : step[<<p, k>>] = p \o seqs[k]
    OBVIOUS
<1>4. <<>> \in Seq(D)
    OBVIOUS
<1> HIDE DEF step
<1>5. PICK f \in [0..Len(seqs) -> Seq(D)] : Iterates(f, <<>>, step, Len(seqs))
    BY <1>1, <1>2, <1>4, IterationExists
<1>6. ASSUME NEW k \in 1..Len(seqs)
      PROVE  f[k] = f[k - 1] \o seqs[k]
    <2>1. k - 1 \in 0..Len(seqs)
        BY <1>1
    <2>2. f[k - 1] \in Seq(D)
        BY <2>1
    <2>3. f[k] = step[<<f[k - 1], k>>]
        BY <1>5, Zenon DEF Iterates
    <2> QED
        BY <1>3, <2>2, <2>3, Zenon
<1> QED
    BY <1>5, <1>6 DEF Joins, Iterates

\* FlattenSeq, which the library defines by recursion, is the last of the
\* joins.
LEMMA FlattenSeqIs ==
    ASSUME NEW D, NEW seqs \in Seq(Seq(D)),
           NEW f, f[Len(seqs)] \in Seq(D), Joins(f, seqs, Len(seqs))
    PROVE  FlattenSeq(seqs) = f[Len(seqs)]
<1>1. PICK n \in Nat : n = Len(seqs)
    BY LenProperties
<1>2. CASE n = 0
    <2>1. f[n] = <<>>
        BY <1>2, Zenon DEF Joins
    <2>2. seqs = <<>>
        BY <1>1, <1>2, EmptySeq
    <2>3. FlattenSeq(<<>>) = <<>>
        BY DEF FlattenSeq
    <2> QED
        BY <1>1, <2>1, <2>2, <2>3, Zenon
<1>3. CASE n # 0
    <2> DEFINE Loop(s) == [i \in 1..n |-> IF i = 1 THEN seqs[i] ELSE s[i - 1] \o seqs[i]]
               flat == CHOOSE s : s = Loop(s)
               g == [i \in 1..n |-> f[i]]
    <2>1. FlattenSeq(seqs) = flat[n]
        BY <1>1, <1>3, Zenon DEF FlattenSeq
    <2>2. \A m \in Nat : m + 1 <= n => f[m + 1] = f[m] \o seqs[m + 1]
        BY <1>1, JoinsStep
    <2>3. f[1] = seqs[1]
        <3>1. f[1] = <<>> \o seqs[1]
            <4>1. 1 \in 1..n /\ 1 - 1 = 0
                BY <1>3
            <4>2. f[1] = f[1 - 1] \o seqs[1] /\ f[0] = <<>>
                BY <1>1, <4>1, Zenon DEF Joins
            <4> QED
                BY <4>1, <4>2, Zenon
        <3>2. seqs[1] \in Seq(D)
            BY <1>1, <1>3, ElementOfSeq
        <3>3. <<>> \o seqs[1] = seqs[1]
            BY <3>2, ConcatEmptySeq
        <3> QED
            BY <3>1, <3>3
    <2>4. g = Loop(g)
        <3>1. ASSUME NEW i \in 1..n
              PROVE  g[i] = Loop(g)[i]
            <4>1. CASE i = 1
                BY <2>3, <4>1
            <4>2. CASE i # 1
                <5>1. i - 1 \in Nat /\ (i - 1) + 1 = i /\ i - 1 \in 1..n
                    BY <4>2
                <5>2. f[i] = f[i - 1] \o seqs[i]
                    BY <1>1, Zenon DEF Joins
                <5> QED
                    BY <4>2, <5>1, <5>2
            <4> QED
                BY <4>1, <4>2
        <3> QED
            BY <3>1
    <2> HIDE DEF g
    <2>5. flat = Loop(flat)
        <3> HIDE DEF Loop
        <3> QED
            BY <2>4
    <2> HIDE DEF flat
    <2>6. flat[1] = seqs[1]
        <3>1. Loop(flat)[1] = seqs[1]
            BY <1>3
        <3> HIDE DEF Loop
        <3> QED
            BY <2>5, <3>1
    <2>7. ASSUME NEW m \in Nat, m + 1 <= n, m # 0
          PROVE  flat[m + 1] = flat[m] \o seqs[m + 1]
        <3>1. m + 1 \in 1..n /\ (m + 1) - 1 = m /\ m + 1 # 1
            BY <2>7
        <3>2. Loop(flat)[m + 1] = flat[(m + 1) - 1] \o seqs[m + 1]
            BY <3>1
        <3> HIDE DEF Loop
        <3> QED
            BY <2>5, <3>1, <3>2, Zenon
    <2> DEFINE S == {m \in Nat : m # 0 /\ m <= n => flat[m] = f[m]}
    <2>8. 0 \in S
        OBVIOUS
    <2>9. ASSUME NEW m \in Nat, m \in S
          PROVE  m + 1 \in S
        <3>1. CASE m = 0
            <4>1. m + 1 = 1
                BY <3>1
            <4>2. flat[m + 1] = f[m + 1]
                BY <2>3, <2>6, <4>1, Zenon
            <4> QED
                BY <4>2
        <3>2. CASE m # 0
            <4> SUFFICES ASSUME m + 1 <= n
                         PROVE  flat[m + 1] = f[m + 1]
                OBVIOUS
            <4>1. flat[m] = f[m]
                BY <2>9, <3>2
            <4>2. flat[m + 1] = flat[m] \o seqs[m + 1]
                BY <2>7, <3>2
            <4>3. f[m + 1] = f[m] \o seqs[m + 1]
                BY <2>2
            <4> QED
                BY <4>1, <4>2, <4>3, Zenon
        <3> QED
            BY <3>1, <3>2
    <2>10. Nat \subseteq S
        <3> HIDE DEF S
        <3> QED
            BY <2>8, <2>9, Induction
    <2>11. flat[n] = f[n]
        BY <1>3, <2>10
    <2> QED
        BY <1>1, <2>1, <2>11
<1> QED
    BY <1>2, <1>3

\* What FlattenSeq makes is a sequence of the same cells.
LEMMA FlattenSeqType ==
    ASSUME NEW D, NEW seqs \in Seq(Seq(D))
    PROVE  FlattenSeq(seqs) \in Seq(D)
<1>1. PICK f \in [0..Len(seqs) -> Seq(D)] : Joins(f, seqs, Len(seqs))
    BY JoinsExist
<1>2. f[Len(seqs)] \in Seq(D)
    BY <1>1, LenProperties
<1> QED
    BY <1>1, <1>2, FlattenSeqIs

\* FlattenSeq of one sequence.
LEMMA FlattenSeqOne ==
    ASSUME NEW D, NEW s \in Seq(D)
    PROVE  FlattenSeq(<<s>>) = s /\ FlattenSeq(<<>>) = <<>>
<1> DEFINE f == [k \in 0..1 |-> IF k = 0 THEN <<>> ELSE s]
<1>1. <<s>> \in Seq(Seq(D)) /\ Len(<<s>>) = 1
    OBVIOUS
<1>2. f[0] = <<>> /\ f[1] = s
    OBVIOUS
<1>3. Joins(f, <<s>>, 1)
    <2>1. <<s>>[1] = s /\ <<>> \o s = s
        BY ConcatEmptySeq
    <2>2. ASSUME NEW k \in 1..1
          PROVE  f[k] = f[k - 1] \o <<s>>[k]
        <3>1. k = 1 /\ k - 1 = 0
            OBVIOUS
        <3> HIDE DEF f
        <3> QED
            BY <1>2, <2>1, <3>1, Zenon
    <2> HIDE DEF f
    <2> QED
        BY <1>2, <2>2 DEF Joins
<1> HIDE DEF f
<1>4. FlattenSeq(<<s>>) = s
    BY <1>1, <1>2, <1>3, FlattenSeqIs
<1>5. FlattenSeq(<<>>) = <<>>
    BY DEF FlattenSeq
<1> QED
    BY <1>4, <1>5

Associates(a, b, c) == (a \o b) \o c = a \o (b \o c)

\* Concatenation is associative; stated as one fact, for Zenon.
LEMMA Associative ==
    ASSUME NEW D, NEW a \in Seq(D), NEW b \in Seq(D), NEW c \in Seq(D)
    PROVE  Associates(a, b, c)
BY ConcatAssociative DEF Associates

\* FlattenSeq of a concatenation.
LEMMA FlattenSeqConcat ==
    ASSUME NEW D, NEW s \in Seq(Seq(D)), NEW t \in Seq(Seq(D))
    PROVE  FlattenSeq(s \o t) = FlattenSeq(s) \o FlattenSeq(t)
<1>1. PICK n \in Nat : n = Len(s)
    BY LenProperties
<1>2. PICK m \in Nat : m = Len(t)
    BY LenProperties
<1>3. PICK u \in Seq(Seq(D)) : u = s \o t
    BY ConcatProperties
<1>4. /\ Len(u) = n + m
      /\ \A k \in 1..(n + m) : u[k] = IF k <= n THEN s[k] ELSE t[k - n]
    BY <1>1, <1>2, <1>3, ConcatProperties
<1>5. PICK f \in [0..n -> Seq(D)] : Joins(f, s, n)
    <2>1. \E f \in [0..Len(s) -> Seq(D)] : Joins(f, s, Len(s))
        BY JoinsExist
    <2> QED
        BY <1>1, <2>1
<1>6. PICK g \in [0..m -> Seq(D)] : Joins(g, t, m)
    <2>1. \E g \in [0..Len(t) -> Seq(D)] : Joins(g, t, Len(t))
        BY JoinsExist
    <2> QED
        BY <1>2, <2>1
<1>7. f[n] \in Seq(D) /\ g[m] \in Seq(D)
    OBVIOUS
<1>8. FlattenSeq(s) = f[n] /\ FlattenSeq(t) = g[m]
    BY <1>1, <1>2, <1>5, <1>6, <1>7, FlattenSeqIs
<1> DEFINE h == [k \in 0..(n + m) |-> IF k <= n THEN f[k] ELSE f[n] \o g[k - n]]
<1>9. /\ \A k \in 0..n : h[k] = f[k]
      /\ \A k \in 1..m : h[n + k] = f[n] \o g[k]
    <2>1. ASSUME NEW k \in 1..m
          PROVE  h[n + k] = f[n] \o g[k]
        <3>1. n + k \in 0..(n + m) /\ ~(n + k <= n) /\ (n + k) - n = k
            OBVIOUS
        <3> QED
            BY <3>1
    <2>2. \A k \in 0..n : h[k] = f[k]
        OBVIOUS
    <2> HIDE DEF h
    <2> QED
        BY <2>1, <2>2
<1>10. f[n] \o g[0] = f[n]
    BY <1>6, <1>7, ConcatEmptySeq DEF Joins
<1>11. \A k \in 0..m : h[n + k] = f[n] \o g[k]
    <2>1. h[n + 0] = f[n] \o g[0]
        BY <1>9, <1>10
    <2> HIDE DEF h
    <2>2. ASSUME NEW k \in 0..m
          PROVE  h[n + k] = f[n] \o g[k]
        <3>1. k = 0 \/ k \in 1..m
            OBVIOUS
        <3> QED
            BY <1>9, <2>1, <3>1, Zenon
    <2> QED
        BY <2>2
<1> HIDE DEF h
<1>12. ASSUME NEW k \in 1..(n + m)
       PROVE  h[k] = h[k - 1] \o u[k]
    <2>1. CASE k <= n
        <3>1. k \in 1..n /\ k \in 0..n /\ k - 1 \in 0..n
            BY <2>1
        <3>2. f[k] = f[k - 1] \o s[k]
            BY <1>5, <3>1, Zenon DEF Joins
        <3>3. u[k] = s[k] /\ h[k] = f[k] /\ h[k - 1] = f[k - 1]
            BY <1>4, <1>9, <2>1, <3>1
        <3> QED
            BY <3>2, <3>3, Zenon
    <2>2. CASE k > n
        <3>1. PICK j \in 1..m : j = k - n
            BY <2>2
        <3>2. j - 1 \in 0..m /\ j \in 0..m /\ n + j = k /\ n + (j - 1) = k - 1
            BY <3>1
        <3>3. g[j] = g[j - 1] \o t[j]
            BY <1>6, Zenon DEF Joins
        <3>4. u[k] = t[j]
            BY <1>4, <2>2, <3>1
        <3>5. h[k] = f[n] \o g[j] /\ h[k - 1] = f[n] \o g[j - 1]
            BY <1>11, <3>2, Zenon
        <3>6. g[j - 1] \in Seq(D) /\ t[j] \in Seq(D)
            <4>1. j \in 1..Len(t) /\ g[j - 1] \in Seq(D)
                BY <1>2, <3>2
            <4> QED
                BY <4>1, ElementOfSeq
        <3>7. f[n] \o (g[j - 1] \o t[j]) = (f[n] \o g[j - 1]) \o t[j]
            <4>1. Associates(f[n], g[j - 1], t[j])
                BY <1>7, <3>6, Associative
            <4> QED
                BY <4>1, Zenon DEF Associates
        <3> QED
            BY <3>3, <3>4, <3>5, <3>7, Zenon
    <2>3. k <= n \/ k > n
        OBVIOUS
    <2> QED
        BY <2>1, <2>2, <2>3, Zenon
<1>13. h[0] = <<>>
    <2>1. 0 \in 0..n
        OBVIOUS
    <2> QED
        BY <1>5, <1>9, <2>1, Zenon DEF Joins
<1>14. Joins(h, u, n + m)
    BY <1>12, <1>13 DEF Joins
<1>15. h[n + m] = f[n] \o g[m]
    BY <1>11
<1>16. h[n + m] \in Seq(D)
    BY <1>7, <1>15, ConcatProperties
<1>17. FlattenSeq(u) = h[n + m]
    BY <1>4, <1>14, <1>16, FlattenSeqIs
<1> QED
    BY <1>3, <1>8, <1>15, <1>17, Zenon

\* The first of the sequences comes first.
LEMMA FlattenSeqCons ==
    ASSUME NEW D, NEW seqs \in Seq(Seq(D)), seqs # <<>>
    PROVE  /\ seqs[1] \in Seq(D) /\ Tail(seqs) \in Seq(Seq(D))
           /\ FlattenSeq(seqs) = seqs[1] \o FlattenSeq(Tail(seqs))
<1>1. /\ seqs[1] \in Seq(D) /\ Tail(seqs) \in Seq(Seq(D))
      /\ seqs = <<seqs[1]>> \o Tail(seqs)
    OBVIOUS
<1>2. <<seqs[1]>> \in Seq(Seq(D))
    BY <1>1
<1>3. FlattenSeq(<<seqs[1]>> \o Tail(seqs)) = FlattenSeq(<<seqs[1]>>) \o FlattenSeq(Tail(seqs))
    BY <1>1, <1>2, FlattenSeqConcat
<1>4. FlattenSeq(<<seqs[1]>>) = seqs[1]
    BY <1>1, FlattenSeqOne
<1> QED
    BY <1>1, <1>3, <1>4, Zenon

-----------------------------------------------------------------------------
(* PacketsFrom.                                                            *)

NextKept(id, kept, packet) == IF packet.msgId >= id THEN Append(kept, packet) ELSE kept

\* f goes through what remains of the first of packets.
Keeps(f, id, packets, n) ==
    /\ f[0] = <<>>
    /\ \A k \in Nat : k + 1 <= n => f[k + 1] = NextKept(id, f[k], packets[k + 1])

KeepStep(id, packets) ==
    [p \in Seq(DecodedPacket) \X (1..Len(packets)) |->
        NextKept(id, p[1], packets[p[2]])]

\* What PacketsFrom gives is what the loop over the packets leaves.
LEMMA KeepsExist ==
    ASSUME NEW id, NEW packets \in Seq(DecodedPacket)
    PROVE  \E f \in [0..Len(packets) -> Seq(DecodedPacket)] :
               Keeps(f, id, packets, Len(packets)) /\ PacketsFrom(id, packets) = f[Len(packets)]
<1> DEFINE Loop(s) ==
        [k \in 0..Len(packets) |->
            IF k = 0 THEN <<>>
            ELSE IF packets[k].msgId >= id THEN Append(s[k - 1], packets[k])
            ELSE s[k - 1]]
       from == CHOOSE s : s = Loop(s)
<1>1. PacketsFrom(id, packets) = from[Len(packets)]
    BY DEF PacketsFrom
<1>2. Len(packets) \in Nat /\ \A k \in 1..Len(packets) : packets[k] \in DecodedPacket
    BY LenProperties, ElementOfSeq
<1>3. <<>> \in Seq(DecodedPacket)
    OBVIOUS
<1>4. KeepStep(id, packets) \in
          [Seq(DecodedPacket) \X (1..Len(packets)) -> Seq(DecodedPacket)]
    <2>1. ASSUME NEW s \in Seq(DecodedPacket), NEW k \in 1..Len(packets)
          PROVE  Append(s, packets[k]) \in Seq(DecodedPacket)
        BY <1>2, AppendProperties
    <2> QED
        BY <2>1 DEF KeepStep, NextKept
<1>5. PICK f \in [0..Len(packets) -> Seq(DecodedPacket)] :
          Iterates(f, <<>>, KeepStep(id, packets), Len(packets))
    BY <1>2, <1>3, <1>4, IterationExists
<1>6. ASSUME NEW k \in 1..Len(packets)
      PROVE  f[k] = NextKept(id, f[k - 1], packets[k])
    <2>1. k - 1 \in 0..Len(packets) /\ f[k - 1] \in Seq(DecodedPacket)
        BY <1>2, <1>5
    <2>2. f[k] = KeepStep(id, packets)[<<f[k - 1], k>>]
        BY <1>5, Zenon DEF Iterates
    <2> QED
        BY <2>1, <2>2 DEF KeepStep
<1>7. f = Loop(f)
    <2>1. ASSUME NEW k \in 0..Len(packets)
          PROVE  f[k] = Loop(f)[k]
        <3>1. CASE k = 0
            BY <1>5, <3>1 DEF Iterates
        <3>2. CASE k # 0
            <4>1. k \in 1..Len(packets)
                BY <3>2
            <4>2. Loop(f)[k] = IF packets[k].msgId >= id THEN Append(f[k - 1], packets[k])
                               ELSE f[k - 1]
                BY <3>2
            <4> QED
                BY <1>6, <4>1, <4>2, Zenon DEF NextKept
        <3> QED
            BY <3>1, <3>2
    <2> QED
        BY <1>5, <2>1
<1> HIDE DEF Loop
<1>8. from = Loop(from)
    BY <1>7
<1> HIDE DEF from
<1>9. /\ from = [k \in 0..Len(packets) |-> from[k]]
      /\ \A k \in 0..Len(packets) : from[k] = Loop(from)[k]
    BY <1>8 DEF Loop
<1>10. from[0] = <<>>
    <2>1. 0 \in 0..Len(packets)
        BY <1>2
    <2>2. Loop(from)[0] = <<>>
        BY <2>1 DEF Loop
    <2> QED
        BY <1>9, <2>1, <2>2, Zenon
<1>11. ASSUME NEW k \in 1..Len(packets)
       PROVE  from[k] = NextKept(id, from[k - 1], packets[k])
    <2>1. Loop(from)[k] = IF packets[k].msgId >= id THEN Append(from[k - 1], packets[k])
                          ELSE from[k - 1]
        BY DEF Loop
    <2>2. k \in 0..Len(packets)
        OBVIOUS
    <2> QED
        BY <1>9, <2>1, <2>2, Zenon DEF NextKept
<1>12. \A k \in 0..Len(packets) : from[k] \in Seq(DecodedPacket)
    <2> DEFINE S == {m \in Nat : m <= Len(packets) => from[m] \in Seq(DecodedPacket)}
    <2>1. 0 \in S
        BY <1>3, <1>10
    <2>2. ASSUME NEW m \in Nat, m \in S
          PROVE  m + 1 \in S
        <3> SUFFICES ASSUME m + 1 <= Len(packets)
                     PROVE  from[m + 1] \in Seq(DecodedPacket)
            OBVIOUS
        <3>1. m + 1 \in 1..Len(packets) /\ (m + 1) - 1 = m /\ from[m] \in Seq(DecodedPacket)
            BY <1>2, <2>2
        <3>2. /\ from[m + 1] = NextKept(id, from[m], packets[m + 1])
              /\ packets[m + 1] \in DecodedPacket
            BY <1>2, <1>11, <3>1
        <3> QED
            BY <3>1, <3>2, AppendProperties DEF NextKept
    <2> HIDE DEF S
    <2>3. Nat \subseteq S
        BY <2>1, <2>2, Induction
    <2> QED
        BY <1>2, <2>3 DEF S
<1>13. from \in [0..Len(packets) -> Seq(DecodedPacket)]
    BY <1>9, <1>12
<1>14. Keeps(from, id, packets, Len(packets))
    <2>1. ASSUME NEW k \in Nat, k + 1 <= Len(packets)
          PROVE  from[k + 1] = NextKept(id, from[k], packets[k + 1])
        <3>1. k + 1 \in 1..Len(packets) /\ (k + 1) - 1 = k
            BY <1>2, <2>1
        <3>2. from[k + 1] = NextKept(id, from[(k + 1) - 1], packets[k + 1])
            BY <1>11, <3>1, Zenon
        <3> QED
            BY <3>1, <3>2, Zenon
    <2> QED
        BY <1>10, <2>1, Zenon DEF Keeps
<1> QED
    BY <1>1, <1>13, <1>14

\* Of no packets, none remain; of one, it or none.
LEMMA PacketsFromType ==
    ASSUME NEW id, NEW packets \in Seq(DecodedPacket)
    PROVE  /\ PacketsFrom(id, packets) \in Seq(DecodedPacket)
           /\ packets = <<>> => PacketsFrom(id, packets) = <<>>
<1>1. PICK n \in Nat : n = Len(packets)
    BY LenProperties
<1>2. PICK f \in [0..Len(packets) -> Seq(DecodedPacket)] :
          Keeps(f, id, packets, Len(packets)) /\ PacketsFrom(id, packets) = f[Len(packets)]
    BY KeepsExist
<1>3. f[n] \in Seq(DecodedPacket)
    BY <1>1, <1>2
<1>4. packets = <<>> => f[n] = <<>>
    BY <1>1, <1>2 DEF Keeps
<1> QED
    BY <1>1, <1>2, <1>3, <1>4, Zenon

\* Of one packet, it or nothing remains.
LEMMA PacketsFromOne ==
    ASSUME NEW id \in Nat, NEW p \in DecodedPacket
    PROVE  PacketsFrom(id, <<p>>) = IF p.msgId >= id THEN <<p>> ELSE <<>>
<1>1. PICK packets \in Seq(DecodedPacket) :
          packets = <<p>> /\ Len(packets) = 1 /\ packets[1] = p
    <2>1. <<p>> \in Seq(DecodedPacket) /\ Len(<<p>>) = 1 /\ <<p>>[1] = p
        OBVIOUS
    <2> QED
        BY <2>1, Zenon
<1>2. PICK f \in [0..Len(packets) -> Seq(DecodedPacket)] :
          Keeps(f, id, packets, Len(packets)) /\ PacketsFrom(id, packets) = f[Len(packets)]
    BY KeepsExist
<1>3. f[0] = <<>>
    BY <1>2 DEF Keeps
<1>4. f[1] = NextKept(id, f[0], p)
    <2>1. 0 \in Nat /\ 1 \in Nat /\ 0 + 1 = 1 /\ 1 <= 1
        OBVIOUS
    <2>2. Keeps(f, id, packets, 1)
        BY <1>1, <1>2, Zenon
    <2>3. f[0 + 1] = NextKept(id, f[0], packets[0 + 1])
        BY <2>1, <2>2, Zenon DEF Keeps
    <2> QED
        BY <1>1, <2>1, <2>3, Zenon
<1>5. Append(<<>>, p) = <<p>>
    OBVIOUS
<1> QED
    BY <1>1, <1>2, <1>3, <1>4, <1>5, Zenon DEF NextKept

\* Nothing remains when all packets have earlier ids.
LEMMA PacketsFromEarlier ==
    ASSUME NEW id \in Nat, NEW packets \in Seq(DecodedPacket),
           \A k \in 1..Len(packets) : packets[k].msgId \in 0..(id - 1)
    PROVE  PacketsFrom(id, packets) = <<>>
<1>1. PICK n \in Nat : n = Len(packets)
    BY LenProperties
<1>2. PICK f \in [0..Len(packets) -> Seq(DecodedPacket)] :
          Keeps(f, id, packets, Len(packets)) /\ PacketsFrom(id, packets) = f[Len(packets)]
    BY KeepsExist
<1>7. Keeps(f, id, packets, n)
    BY <1>1, <1>2, Zenon
<1> DEFINE S == {m \in Nat : m <= n => f[m] = <<>>}
<1>3. 0 \in S
    BY <1>2 DEF Keeps
<1>4. ASSUME NEW m \in Nat, m \in S
      PROVE  m + 1 \in S
    <2> SUFFICES ASSUME m + 1 <= n
                 PROVE  f[m + 1] = <<>>
        OBVIOUS
    <2>1. f[m + 1] = NextKept(id, f[m], packets[m + 1])
        BY <1>7, Zenon DEF Keeps
    <2>2. m <= n /\ m + 1 \in 1..n
        OBVIOUS
    <2>3. ~(packets[m + 1].msgId >= id)
        <3>1. packets[m + 1].msgId \in 0..(id - 1)
            BY <1>1, <2>2
        <3> QED
            BY <3>1
    <2> QED
        BY <1>4, <2>1, <2>2, <2>3 DEF NextKept
<1> HIDE DEF S
<1>5. Nat \subseteq S
    BY <1>3, <1>4, Induction
<1>6. f[n] = <<>>
    <2>1. n <= n
        OBVIOUS
    <2> QED
        BY <1>5, <2>1 DEF S
<1> QED
    BY <1>1, <1>2, <1>6, Zenon

\* All remain when none has an earlier id.
LEMMA PacketsFromAll ==
    ASSUME NEW id \in Nat, NEW packets \in Seq(DecodedPacket),
           \A k \in 1..Len(packets) : packets[k].msgId >= id
    PROVE  PacketsFrom(id, packets) = packets
<1>1. PICK n \in Nat : n = Len(packets)
    BY LenProperties
<1>2. PICK f \in [0..Len(packets) -> Seq(DecodedPacket)] :
          Keeps(f, id, packets, Len(packets)) /\ PacketsFrom(id, packets) = f[Len(packets)]
    BY KeepsExist
<1>3. Keeps(f, id, packets, n) /\ f \in [0..n -> Seq(DecodedPacket)]
    BY <1>1, <1>2, Zenon
<1> DEFINE Whole(s, m) == Len(s) = m /\ \A k \in 1..m : s[k] = packets[k]
       S == {m \in Nat : m <= n => Whole(f[m], m)}
<1>4. 0 \in S
    BY <1>3 DEF Keeps
<1>5. ASSUME NEW m \in Nat, m \in S
      PROVE  m + 1 \in S
    <2> SUFFICES ASSUME m + 1 <= n
                 PROVE  Whole(f[m + 1], m + 1)
        OBVIOUS
    <2>1. f[m + 1] = NextKept(id, f[m], packets[m + 1])
        BY <1>3, Zenon DEF Keeps
    <2>2. m <= n /\ m + 1 \in 1..n /\ m \in 0..n
        OBVIOUS
    <2>3. packets[m + 1].msgId >= id /\ packets[m + 1] \in DecodedPacket
        BY <1>1, <2>2, ElementOfSeq
    <2>4. PICK s \in Seq(DecodedPacket) : s = f[m] /\ Whole(s, m)
        BY <1>3, <1>5, <2>2
    <2>5. PICK p \in DecodedPacket : p = packets[m + 1]
        BY <2>3
    <2>6. f[m + 1] = Append(s, p)
        BY <2>1, <2>3, <2>4, <2>5 DEF NextKept
    <2>7. /\ Len(Append(s, p)) = m + 1
          /\ \A k \in 1..(m + 1) : Append(s, p)[k] = IF k <= m THEN s[k] ELSE p
        BY <2>4, AppendProperties
    <2>8. ASSUME NEW k \in 1..(m + 1)
          PROVE  Append(s, p)[k] = packets[k]
        <3>1. CASE k <= m
            BY <2>4, <2>7, <3>1
        <3>2. CASE ~(k <= m)
            <4>1. k = m + 1
                BY <3>2
            <4> QED
                BY <2>5, <2>7, <3>2, <4>1
        <3> QED
            BY <3>1, <3>2
    <2> QED
        BY <2>6, <2>7, <2>8
<1> HIDE DEF S
<1>6. Nat \subseteq S
    BY <1>4, <1>5, Induction
<1>7. Whole(f[n], n) /\ f[n] \in Seq(DecodedPacket)
    <2>1. n <= n /\ n \in 0..n
        OBVIOUS
    <2> QED
        BY <1>3, <1>6, <2>1 DEF S
<1>8. f[n] = packets
    BY <1>1, <1>7, SeqEqual
<1> QED
    BY <1>1, <1>2, <1>8, Zenon

\* What remains of packets after packets.
LEMMA PacketsFromConcat ==
    ASSUME NEW id \in Nat, NEW a \in Seq(DecodedPacket), NEW b \in Seq(DecodedPacket)
    PROVE  PacketsFrom(id, a \o b) = PacketsFrom(id, a) \o PacketsFrom(id, b)
<1>1. PICK n \in Nat : n = Len(a)
    BY LenProperties
<1>2. PICK m \in Nat : m = Len(b)
    BY LenProperties
<1>3. PICK c \in Seq(DecodedPacket) : c = a \o b
    BY ConcatProperties
<1>4. Len(c) = n + m
    BY <1>1, <1>2, <1>3, ConcatProperties
<1>5. \A i \in 1..(n + m) : c[i] = IF i <= n THEN a[i] ELSE b[i - n]
    BY <1>1, <1>2, <1>3, ConcatProperties
<1>9. PICK l \in Nat : l = n + m /\ Len(c) = l
    BY <1>4
<1>6. PICK f \in [0..n -> Seq(DecodedPacket)] :
          Keeps(f, id, a, n) /\ PacketsFrom(id, a) = f[n]
    <2>1. \E f \in [0..Len(a) -> Seq(DecodedPacket)] :
              Keeps(f, id, a, Len(a)) /\ PacketsFrom(id, a) = f[Len(a)]
        BY KeepsExist
    <2> QED
        BY <1>1, <2>1, Zenon
<1>7. PICK g \in [0..m -> Seq(DecodedPacket)] :
          Keeps(g, id, b, m) /\ PacketsFrom(id, b) = g[m]
    <2>1. \E g \in [0..Len(b) -> Seq(DecodedPacket)] :
              Keeps(g, id, b, Len(b)) /\ PacketsFrom(id, b) = g[Len(b)]
        BY KeepsExist
    <2> QED
        BY <1>2, <2>1, Zenon
<1>8. PICK h \in [0..l -> Seq(DecodedPacket)] :
          Keeps(h, id, c, l) /\ PacketsFrom(id, c) = h[l]
    <2>1. \E h \in [0..Len(c) -> Seq(DecodedPacket)] :
              Keeps(h, id, c, Len(c)) /\ PacketsFrom(id, c) = h[Len(c)]
        BY KeepsExist
    <2> QED
        BY <1>9, <2>1, Zenon
<1>20. /\ \A k \in Nat : k + 1 <= n => f[k + 1] = NextKept(id, f[k], a[k + 1])
      /\ \A k \in Nat : k + 1 <= m => g[k + 1] = NextKept(id, g[k], b[k + 1])
    BY <1>6, <1>7, Zenon DEF Keeps
<1>21. \A k \in Nat : k + 1 <= l => h[k + 1] = NextKept(id, h[k], c[k + 1])
    BY <1>8, Zenon DEF Keeps
<1> DEFINE S == {k \in Nat : k <= n => h[k] = f[k]}
<1>10. 0 \in S
    BY <1>6, <1>8 DEF Keeps
<1>11. ASSUME NEW k \in Nat, k \in S
       PROVE  k + 1 \in S
    <2> SUFFICES ASSUME k + 1 <= n
                 PROVE  h[k + 1] = f[k + 1]
        OBVIOUS
    <2>1. h[k + 1] = NextKept(id, h[k], c[k + 1])
        <3>1. k + 1 <= l
            BY <1>9
        <3> QED
            BY <1>21, <3>1, Zenon
    <2>2. f[k + 1] = NextKept(id, f[k], a[k + 1])
        BY <1>20, Zenon
    <2>3. k <= n /\ k + 1 \in 1..(n + m) /\ k + 1 <= n
        OBVIOUS
    <2>4. c[k + 1] = a[k + 1]
        BY <1>5, <2>3
    <2>5. h[k] = f[k]
        BY <1>11, <2>3
    <2> QED
        BY <2>1, <2>2, <2>4, <2>5, Zenon
<1> HIDE DEF S
<1>12. Nat \subseteq S
    BY <1>10, <1>11, Induction
<1>13. h[n] = f[n]
    <2>1. n <= n
        OBVIOUS
    <2> QED
        BY <1>12, <2>1 DEF S
<1>14. f[n] \in Seq(DecodedPacket) /\ \A k \in 0..m : g[k] \in Seq(DecodedPacket)
    OBVIOUS
<1> DEFINE T == {k \in Nat : k <= m => h[n + k] = f[n] \o g[k]}
<1>15. 0 \in T
    <2>1. g[0] = <<>>
        BY <1>7 DEF Keeps
    <2>2. f[n] \o <<>> = f[n]
        BY <1>14, ConcatEmptySeq
    <2>3. n + 0 = n
        OBVIOUS
    <2> QED
        BY <1>13, <2>1, <2>2, <2>3
<1>16. ASSUME NEW k \in Nat, k \in T
       PROVE  k + 1 \in T
    <2> SUFFICES ASSUME k + 1 <= m
                 PROVE  h[n + (k + 1)] = f[n] \o g[k + 1]
        OBVIOUS
    <2>1. PICK j \in Nat : j = n + k /\ j + 1 = n + (k + 1) /\ j + 1 <= l
        <3>1. /\ n + k \in Nat /\ (n + k) + 1 = n + (k + 1)
              /\ (n + k) + 1 <= l
            BY <1>9
        <3> QED
            BY <3>1, Zenon
    <2>2. h[j + 1] = NextKept(id, h[j], c[j + 1])
        BY <1>21, <2>1, Zenon
    <2>3. g[k + 1] = NextKept(id, g[k], b[k + 1])
        BY <1>20, Zenon
    <2>4. c[j + 1] = b[k + 1]
        <3>1. j + 1 \in 1..(n + m) /\ ~(j + 1 <= n) /\ (j + 1) - n = k + 1
            BY <2>1
        <3> QED
            BY <1>5, <3>1
    <2>5. h[j] = f[n] \o g[k]
        <3>1. k <= m
            OBVIOUS
        <3> QED
            BY <1>16, <2>1, <3>1
    <2>6. g[k] \in Seq(DecodedPacket) /\ b[k + 1] \in DecodedPacket
        <3>1. k \in 0..m /\ k + 1 \in 1..Len(b)
            BY <1>2
        <3> QED
            BY <1>14, <3>1, ElementOfSeq
    <2>7. Append(f[n] \o g[k], b[k + 1]) = f[n] \o Append(g[k], b[k + 1])
        <3>1. PICK s \in Seq(DecodedPacket) : s = f[n]
            BY <1>14
        <3>2. PICK t \in Seq(DecodedPacket) : t = g[k]
            BY <2>6
        <3>3. PICK p \in DecodedPacket : p = b[k + 1]
            BY <2>6
        <3>4. Append(t, p) = t \o <<p>> /\ Append(s \o t, p) = (s \o t) \o <<p>>
            <4>1. s \o t \in Seq(DecodedPacket)
                BY ConcatProperties
            <4> QED
                BY <4>1, AppendIsConcat
        <3>5. <<p>> \in Seq(DecodedPacket)
            OBVIOUS
        <3>6. Associates(s, t, <<p>>)
            BY <3>5, Associative
        <3> QED
            BY <3>1, <3>2, <3>3, <3>4, <3>6, Zenon DEF Associates
    <2>8. h[j + 1] = f[n] \o g[k + 1]
        BY <2>2, <2>3, <2>4, <2>5, <2>7, Zenon DEF NextKept
    <2> QED
        BY <2>1, <2>8, Zenon
<1> HIDE DEF T
<1>17. Nat \subseteq T
    BY <1>15, <1>16, Induction
<1>18. h[n + m] = f[n] \o g[m]
    <2>1. m <= m
        OBVIOUS
    <2> QED
        BY <1>17, <2>1 DEF T
<1> QED
    BY <1>3, <1>6, <1>7, <1>8, <1>9, <1>18, Zenon

-----------------------------------------------------------------------------
(* The chunks of a body.                                                   *)

\* Multiplication is monotonic.
LEMMA TimesMonotonic ==
    ASSUME NEW a \in Nat, NEW b \in Nat, NEW c \in Nat, a <= b
    PROVE  a * c <= b * c
OBVIOUS

\* totalParts is the quotient by CHUNK_SIZE, rounded up.
LEMMA TotalParts ==
    ASSUME NEW body \in Seq(Nat), body # <<>>
    PROVE  /\ totalParts(body) \in Nat \ {0}
           /\ (totalParts(body) - 1) * CHUNK_SIZE < Len(body)
           /\ Len(body) <= totalParts(body) * CHUNK_SIZE
           /\ Len(body) > CHUNK_SIZE => totalParts(body) > 1
<1>1. PICK c \in Nat \ {0} : c = CHUNK_SIZE
    BY CodecAssumption
<1>2. PICK l \in Nat \ {0} : l = Len(body)
    BY EmptySeq
<1>3. PICK x \in Nat : x = l + c - 1
    OBVIOUS
<1>4. PICK n \in Int : n = x \div c
    OBVIOUS
<1>5. totalParts(body) = n
    BY <1>1, <1>2, <1>3, <1>4 DEF totalParts
<1>6. n * c <= x /\ x < n * c + c
    BY <1>4
<1>7. n > 0
    <2>1. n <= 0 => n * c <= 0
        OBVIOUS
    <2>2. n * c > 0
        BY <1>3, <1>6
    <2> QED
        BY <2>1, <2>2
<1>8. (n - 1) * c = n * c - c
    OBVIOUS
<1>9. l > c => n # 1
    BY <1>3, <1>6
<1> QED
    BY <1>1, <1>2, <1>3, <1>5, <1>6, <1>7, <1>8, <1>9

\* The cells of the body that the chunks before the i-th hold.
Before(body, i) == Smaller(i * CHUNK_SIZE, Len(body))

\* Where the pieces of a body begin and end; all but the last are full.
LEMMA Pieces ==
    ASSUME NEW body \in Seq(Nat), body # <<>>, NEW i \in 0..(totalParts(body) - 1)
    PROVE  /\ Before(body, i) = i * CHUNK_SIZE /\ i * CHUNK_SIZE \in Nat
           /\ Before(body, i + 1) \in 0..Len(body) /\ Before(body, i) < Before(body, i + 1)
           /\ msgPiece(body, i) = SubSeq(body, Before(body, i) + 1, Before(body, i + 1))
           /\ Before(body, 0) = 0 /\ Before(body, totalParts(body)) = Len(body)
<1>1. PICK c \in Nat \ {0} : c = CHUNK_SIZE
    BY CodecAssumption
<1>2. PICK l \in Nat \ {0} : l = Len(body)
    BY EmptySeq
<1>3. PICK n \in Nat \ {0} : n = totalParts(body)
    BY TotalParts
<1>4. (n - 1) * c < l /\ l <= n * c
    BY <1>1, <1>2, <1>3, TotalParts
<1>5. i \in Nat /\ i <= n - 1
    BY <1>3
<1>6. i * c \in Nat /\ (i + 1) * c = i * c + c
    BY <1>5
<1>7. i * c <= (n - 1) * c
    <2>1. n - 1 \in Nat
        OBVIOUS
    <2> QED
        BY <1>5, <2>1, TimesMonotonic
<1>8. Before(body, i) = i * c
    <2>1. PICK x \in Nat : x = i * c
        BY <1>6
    <2>2. PICK y \in Nat : y = (n - 1) * c
        <3>1. (n - 1) * c \in Nat
            OBVIOUS
        <3> QED
            BY <3>1, Zenon
    <2>3. x <= y /\ y < l
        BY <1>4, <1>7, <2>1, <2>2, Zenon
    <2>4. x < l
        BY <2>3
    <2> QED
        BY <1>1, <1>2, <2>1, <2>4, Zenon DEF Before, Smaller
<1>9. Before(body, i + 1) = Smaller(i * c + c, l)
    BY <1>1, <1>2, <1>6 DEF Before
<1>10. Before(body, i + 1) \in 0..l /\ i * c < Before(body, i + 1)
    BY <1>4, <1>6, <1>7, <1>9 DEF Smaller
<1>11. msgPiece(body, i) = SubSeq(body, i * c + 1, Before(body, i + 1))
    BY <1>1, Zenon DEF msgPiece, Before
<1>12. Before(body, 0) = 0
    <2>1. 0 * c = 0
        OBVIOUS
    <2> QED
        BY <1>1, <1>2, <2>1 DEF Before, Smaller
<1>13. Before(body, n) = l
    BY <1>1, <1>2, <1>4 DEF Before, Smaller
<1> QED
    BY <1>1, <1>2, <1>3, <1>6, <1>8, <1>10, <1>11, <1>12, <1>13

\* A piece is a part of the body that is not empty.
LEMMA PieceType ==
    ASSUME NEW body \in Seq(Nat), body # <<>>, NEW i \in 0..(totalParts(body) - 1)
    PROVE  /\ msgPiece(body, i) \in Seq(Nat) /\ msgPiece(body, i) # <<>>
           /\ Len(msgPiece(body, i)) = Before(body, i + 1) - Before(body, i)
           /\ \A j \in 1..Len(msgPiece(body, i)) :
                 msgPiece(body, i)[j] = body[i * CHUNK_SIZE + j]
<1>1. PICK a \in Nat : a = i * CHUNK_SIZE
    BY Pieces
<1>2. PICK b \in 0..Len(body) : b = Before(body, i + 1)
    BY Pieces
<1>3. Before(body, i) = a /\ a < b /\ msgPiece(body, i) = SubSeq(body, a + 1, b)
    BY <1>1, <1>2, Pieces
<1>4. \A k \in (a + 1)..b : body[k] \in Nat
    BY <1>1, <1>2, ElementOfSeq, LenProperties
<1> DEFINE s == SubSeq(body, a + 1, b)
<1>5. /\ s \in Seq(Nat) /\ Len(s) = b - a
      /\ \A j \in 1..(b - a) : s[j] = body[a + j]
    <2>1. a + 1 \in Int /\ b \in Int /\ a + 1 <= b /\ b - (a + 1) + 1 = b - a
        BY <1>2, <1>3, LenProperties
    <2>2. /\ s \in Seq(Nat) /\ Len(s) = b - (a + 1) + 1
          /\ \A j \in 1..(b - (a + 1) + 1) : s[j] = body[(a + 1) + j - 1]
        BY <1>4, <2>1, SubSeqProperties
    <2> HIDE DEF s
    <2> QED
        BY <2>1, <2>2
<1> HIDE DEF s
<1>6. s # <<>>
    <2>1. Len(s) # 0
        BY <1>2, <1>3, <1>5, LenProperties
    <2> QED
        BY <2>1
<1>7. msgPiece(body, i) = s
    BY <1>3 DEF s
<1> QED
    BY <1>1, <1>2, <1>3, <1>5, <1>6, <1>7, Zenon

AllPieces(body) == [k \in 1..totalParts(body) |-> msgPiece(body, k - 1)]

\* The pieces are a sequence of as many sequences of cells.
LEMMA AllPiecesType ==
    ASSUME NEW body \in Seq(Nat), body # <<>>
    PROVE  /\ AllPieces(body) \in Seq(Seq(Nat)) /\ Len(AllPieces(body)) = totalParts(body)
           /\ \A k \in 1..totalParts(body) :
                 AllPieces(body)[k] = msgPiece(body, k - 1) /\ AllPieces(body)[k] # <<>>
<1>1. PICK n \in Nat \ {0} : n = totalParts(body)
    BY TotalParts
<1>2. ASSUME NEW k \in 1..n
      PROVE  msgPiece(body, k - 1) \in Seq(Nat) /\ msgPiece(body, k - 1) # <<>>
    <2>1. k - 1 \in 0..(totalParts(body) - 1)
        BY <1>1
    <2> QED
        BY <2>1, PieceType
<1>3. AllPieces(body) = [k \in 1..n |-> msgPiece(body, k - 1)]
    BY <1>1 DEF AllPieces
<1>4. AllPieces(body) \in [1..n -> Seq(Nat)]
    BY <1>2, <1>3
<1>5. AllPieces(body) \in Seq(Seq(Nat)) /\ Len(AllPieces(body)) = n
    BY <1>3, <1>4, SeqDef
<1> QED
    BY <1>1, <1>2, <1>3, <1>5

\* The chunks make the body.
LEMMA PiecesJoin ==
    ASSUME NEW body \in Seq(Nat), body # <<>>
    PROVE  FlattenSeq(AllPieces(body)) = body
<1>1. PICK n \in Nat \ {0} : n = totalParts(body)
    BY TotalParts
<1>2. Len(body) \in Nat
    BY LenProperties
<1> DEFINE f == [k \in 0..n |-> SubSeq(body, 1, Before(body, k))]
<1>3. 0 \in 0..(totalParts(body) - 1) /\ n \in 0..n /\ 0 \in 0..n
    BY <1>1
<1>4. Before(body, 0) = 0 /\ Before(body, n) = Len(body)
    BY <1>1, <1>3, Pieces
<1>5. f[0] = <<>> /\ f[n] = body
    <2>1. SubSeq(body, 1, 0) = <<>>
        BY SubSeqEmpty
    <2>2. SubSeq(body, 1, Len(body)) = body
        BY SubSeqFull
    <2> QED
        BY <1>3, <1>4, <2>1, <2>2
<1>6. ASSUME NEW k \in 1..n
      PROVE  f[k] = f[k - 1] \o AllPieces(body)[k]
    <2>1. k - 1 \in 0..(totalParts(body) - 1) /\ (k - 1) + 1 = k /\ k - 1 \in 0..n /\ k \in 0..n
        BY <1>1
    <2>2. PICK a \in Nat : a = Before(body, k - 1)
        BY <2>1, Pieces
    <2>3. PICK b \in 0..Len(body) : b = Before(body, k)
        BY <2>1, Pieces
    <2>4. a < b /\ msgPiece(body, k - 1) = SubSeq(body, a + 1, b)
        BY <2>1, <2>2, <2>3, Pieces
    <2>5. SubSeq(body, 1, a) \o SubSeq(body, a + 1, b) = SubSeq(body, 1, b)
        BY <1>2, <2>4, ConcatAdjacentSubSeq
    <2>6. f[k] = SubSeq(body, 1, b) /\ f[k - 1] = SubSeq(body, 1, a)
        BY <2>1, <2>2, <2>3
    <2>7. AllPieces(body)[k] = msgPiece(body, k - 1)
        BY <1>1, AllPiecesType
    <2> HIDE DEF f
    <2> QED
        BY <2>4, <2>5, <2>6, <2>7, Zenon
<1> HIDE DEF f
<1>7. Joins(f, AllPieces(body), n)
    BY <1>5, <1>6 DEF Joins
<1>8. AllPieces(body) \in Seq(Seq(Nat)) /\ Len(AllPieces(body)) = n
    BY <1>1, AllPiecesType
<1> QED
    BY <1>5, <1>7, <1>8, FlattenSeqIs

OneMore(s, p) == [s EXCEPT ![p] = @ + 1]

\* One cell changed leaves a sequence of the same length.
LEMMA OneMoreType ==
    ASSUME NEW s \in Seq(Nat), NEW p \in 1..Len(s)
    PROVE  /\ OneMore(s, p) \in Seq(Nat) /\ Len(OneMore(s, p)) = Len(s)
           /\ OneMore(s, p)[p] = s[p] + 1
           /\ \A k \in 1..Len(s) : k # p => OneMore(s, p)[k] = s[k]
<1>1. s[p] + 1 \in Nat
    BY ElementOfSeq
<1>2. OneMore(s, p) = [s EXCEPT ![p] = s[p] + 1]
    BY DEF OneMore
<1> QED
    BY <1>1, <1>2, ExceptSeq

\* What is another body has another first cell in its last chunk.
LEMMA LastPieceChanges ==
    ASSUME NEW body \in Seq(Nat), body # <<>>,
           NEW n \in Nat, n = totalParts(body)
    PROVE  LET other == OneMore(body, (n - 1) * CHUNK_SIZE + 1)
           IN /\ other \in Seq(Nat) /\ other # <<>> /\ adler32(other) # adler32(body)
              /\ AllPieces(other) =
                     [AllPieces(body) EXCEPT ![n] = OneMore(msgPiece(body, n - 1), 1)]
<1> DEFINE p == (n - 1) * CHUNK_SIZE + 1
           other == OneMore(body, p)
<1>1. n \in Nat \ {0} /\ n - 1 \in 0..(totalParts(body) - 1)
    BY TotalParts
<1>2. p \in 1..Len(body)
    <2>1. (n - 1) * CHUNK_SIZE \in Nat /\ (n - 1) * CHUNK_SIZE < Len(body)
        BY <1>1, Pieces, TotalParts
    <2> QED
        BY <2>1, LenProperties
<1> HIDE DEF p
<1>3. /\ other \in Seq(Nat) /\ Len(other) = Len(body)
      /\ other[p] = body[p] + 1
      /\ \A k \in 1..Len(body) : k # p => other[k] = body[k]
    BY <1>2, OneMoreType
<1>4. other # <<>>
    BY <1>2, <1>3, LenProperties
<1>5. adler32(other) # adler32(body)
    BY <1>2, SumChanges DEF OneMore
<1> HIDE DEF other
<1>6. totalParts(other) = n /\ \A i \in Nat : Before(other, i) = Before(body, i)
    BY <1>3 DEF totalParts, Before
<1>7. ASSUME NEW i \in 0..(n - 1)
      PROVE  /\ msgPiece(other, i) \in Seq(Nat) /\ msgPiece(body, i) \in Seq(Nat)
             /\ Len(msgPiece(other, i)) = Len(msgPiece(body, i))
             /\ Len(msgPiece(body, i)) \in Nat \ {0}
             /\ \A j \in 1..Len(msgPiece(body, i)) :
                   /\ msgPiece(body, i)[j] = body[i * CHUNK_SIZE + j]
                   /\ msgPiece(other, i)[j] = other[i * CHUNK_SIZE + j]
                   /\ i * CHUNK_SIZE + j \in 1..Before(body, i + 1)
                   /\ Before(body, i + 1) <= Len(body)
    <2>1. i \in Nat /\ i + 1 \in Nat /\ i \in 0..(totalParts(other) - 1) /\
          i \in 0..(totalParts(body) - 1)
        BY <1>6
    <2>2. /\ msgPiece(body, i) \in Seq(Nat) /\ msgPiece(body, i) # <<>>
          /\ Len(msgPiece(body, i)) = Before(body, i + 1) - Before(body, i)
          /\ \A j \in 1..Len(msgPiece(body, i)) : msgPiece(body, i)[j] = body[i * CHUNK_SIZE + j]
        BY <2>1, PieceType
    <2>3. /\ msgPiece(other, i) \in Seq(Nat)
          /\ Len(msgPiece(other, i)) = Before(other, i + 1) - Before(other, i)
          /\ \A j \in 1..Len(msgPiece(other, i)) : msgPiece(other, i)[j] = other[i * CHUNK_SIZE + j]
        BY <1>3, <1>4, <2>1, PieceType
    <2>4. Len(msgPiece(other, i)) = Len(msgPiece(body, i))
        BY <1>6, <2>1, <2>2, <2>3
    <2>5. PICK a \in Nat : a = i * CHUNK_SIZE
        BY <2>1, Pieces
    <2>6. PICK b \in 0..Len(body) : b = Before(body, i + 1)
        BY <2>1, Pieces
    <2>7. Before(body, i) = a /\ a < b /\ Len(body) \in Nat
        BY <2>1, <2>5, <2>6, Pieces, LenProperties
    <2>8. Len(msgPiece(body, i)) = b - a /\ b \in Nat
        BY <2>2, <2>6, <2>7
    <2>9. \A j \in 1..(b - a) : a + j \in 1..b /\ b <= Len(body)
        BY <2>6, <2>7, <2>8
    <2>10. ASSUME NEW j \in 1..Len(msgPiece(body, i))
           PROVE  /\ msgPiece(body, i)[j] = body[i * CHUNK_SIZE + j]
                  /\ msgPiece(other, i)[j] = other[i * CHUNK_SIZE + j]
                  /\ i * CHUNK_SIZE + j \in 1..Before(body, i + 1)
                  /\ Before(body, i + 1) <= Len(body)
        <3>1. j \in 1..(b - a) /\ j \in 1..Len(msgPiece(other, i))
            BY <2>4, <2>8
        <3>2. a + j \in 1..b /\ b <= Len(body)
            BY <2>9, <3>1
        <3>3. i * CHUNK_SIZE + j \in 1..Before(body, i + 1) /\ Before(body, i + 1) <= Len(body)
            BY <2>5, <2>6, <3>2, Zenon
        <3> QED
            BY <2>2, <2>3, <3>1, <3>3, Zenon
    <2>11. Len(msgPiece(body, i)) \in Nat \ {0}
        BY <2>7, <2>8
    <2> QED
        BY <2>2, <2>3, <2>4, <2>10, <2>11
<1>8. ASSUME NEW i \in 0..(n - 1), i # n - 1
      PROVE  msgPiece(other, i) = msgPiece(body, i)
    <2>1. Before(body, i + 1) < p
        <3>1. i + 1 \in 0..(totalParts(body) - 1) /\ i + 1 \in Nat /\ i + 1 <= n - 1
            BY <1>1, <1>8
        <3>2. PICK c \in Nat \ {0} : c = CHUNK_SIZE
            BY CodecAssumption
        <3>3. Before(body, i + 1) = (i + 1) * c
            BY <3>1, <3>2, Pieces
        <3>4. (i + 1) * c <= (n - 1) * c
            <4>1. n - 1 \in Nat
                BY <1>1
            <4> QED
                BY <3>1, <4>1, TimesMonotonic
        <3>5. PICK x \in Nat : x = (i + 1) * c
            BY <3>1
        <3>6. PICK y \in Nat : y = (n - 1) * c /\ x <= y
            <4>1. (n - 1) * c \in Nat
                OBVIOUS
            <4> QED
                BY <3>4, <3>5, <4>1, Zenon
        <3>7. p = y + 1
            BY <3>2, <3>6, Zenon DEF p
        <3>8. x < y + 1
            BY <3>6
        <3> QED
            BY <3>3, <3>5, <3>7, <3>8, Zenon
    <2>2. ASSUME NEW j \in 1..Len(msgPiece(body, i))
          PROVE  msgPiece(other, i)[j] = msgPiece(body, i)[j]
        <3>1. PICK q \in 1..Before(body, i + 1) : q = i * CHUNK_SIZE + j
            BY <1>7
        <3>2. Before(body, i + 1) \in Nat /\ Before(body, i + 1) <= Len(body) /\ Len(body) \in Nat
            <4>1. i \in 0..(totalParts(body) - 1)
                OBVIOUS
            <4> QED
                BY <4>1, Pieces, LenProperties
        <3>3. q \in 1..Len(body) /\ q # p
            <4>1. PICK b \in Nat : b = Before(body, i + 1) /\ b <= Len(body)
                BY <3>2
            <4>2. PICK l \in Nat : l = Len(body)
                BY <3>2
            <4>3. PICK r \in 1..l : r = p /\ b < r
                BY <1>2, <2>1, <4>1, <4>2, Zenon
            <4>4. q \in 1..b
                BY <4>1
            <4>5. q \in 1..l /\ q # r
                BY <4>1, <4>2, <4>3, <4>4
            <4> QED
                BY <4>2, <4>3, <4>5, Zenon
        <3>4. msgPiece(body, i)[j] = body[q] /\ msgPiece(other, i)[j] = other[q]
            BY <1>7, <3>1
        <3> QED
            BY <1>3, <3>3, <3>4
    <2> QED
        BY <1>7, <2>2, SeqEqual
<1>9. msgPiece(other, n - 1) = OneMore(msgPiece(body, n - 1), 1)
    <2>1. PICK s \in Seq(Nat) : s = msgPiece(body, n - 1)
        BY <1>1, <1>7
    <2>2. PICK t \in Seq(Nat) : t = msgPiece(other, n - 1)
        BY <1>1, <1>7
    <2>3. PICK a \in Nat : a = (n - 1) * CHUNK_SIZE
        BY <1>1, Pieces
    <2>4. /\ Len(t) = Len(s) /\ Len(s) \in Nat \ {0}
          /\ \A j \in 1..Len(s) : s[j] = body[a + j] /\ t[j] = other[a + j]
                                /\ a + j \in 1..Len(body)
        <3>1. n - 1 \in 0..(n - 1) /\ Len(body) \in Nat
            BY <1>1, LenProperties
        <3>2. Before(body, (n - 1) + 1) = Len(body)
            <4>1. (n - 1) + 1 = totalParts(body)
                BY <1>1
            <4>2. Before(body, totalParts(body)) = Len(body)
                BY <1>1, Pieces
            <4> QED
                BY <4>1, <4>2, Zenon
        <3> QED
            BY <1>7, <2>1, <2>2, <2>3, <3>1, <3>2
    <2>5. p = a + 1
        BY <2>3 DEF p
    <2>6. /\ OneMore(s, 1) \in Seq(Nat) /\ Len(OneMore(s, 1)) = Len(s)
          /\ OneMore(s, 1)[1] = s[1] + 1
          /\ \A k \in 1..Len(s) : k # 1 => OneMore(s, 1)[k] = s[k]
        <3>1. 1 \in 1..Len(s)
            BY <2>4
        <3> QED
            BY <3>1, OneMoreType
    <2>7. ASSUME NEW j \in 1..Len(s)
          PROVE  t[j] = OneMore(s, 1)[j]
        <3>1. CASE j = 1
            <4>1. a + j = p
                BY <2>5, <3>1
            <4>2. t[j] = other[p] /\ s[j] = body[p]
                BY <2>4, <4>1, Zenon
            <4>3. other[p] = body[p] + 1
                BY <1>3
            <4> QED
                BY <2>6, <3>1, <4>2, <4>3, Zenon
        <3>2. CASE j # 1
            <4>1. a + j # p /\ a + j \in 1..Len(body)
                BY <2>4, <2>5, <3>2
            <4>2. other[a + j] = body[a + j]
                BY <1>3, <4>1
            <4> QED
                BY <2>4, <2>6, <3>2, <4>2, Zenon
        <3> QED
            BY <3>1, <3>2
    <2>8. t = OneMore(s, 1)
        BY <2>4, <2>6, <2>7, SeqEqual
    <2> QED
        BY <2>1, <2>2, <2>8, Zenon
<1>10. AllPieces(other) = [AllPieces(body) EXCEPT ![n] = OneMore(msgPiece(body, n - 1), 1)]
    <2>1. AllPieces(other) = [k \in 1..n |-> msgPiece(other, k - 1)]
        BY <1>6 DEF AllPieces
    <2>2. AllPieces(body) = [k \in 1..n |-> msgPiece(body, k - 1)]
        BY DEF AllPieces
    <2>3. ASSUME NEW k \in 1..n
          PROVE  msgPiece(other, k - 1) =
              IF k = n THEN OneMore(msgPiece(body, n - 1), 1) ELSE msgPiece(body, k - 1)
        <3>1. k - 1 \in 0..(n - 1) /\ (k # n => k - 1 # n - 1)
            OBVIOUS
        <3> QED
            BY <1>8, <1>9, <3>1, Zenon
    <2>4. PICK mine : mine = AllPieces(body)
        OBVIOUS
    <2>5. PICK last : last = OneMore(msgPiece(body, n - 1), 1)
        OBVIOUS
    <2>6. mine = [k \in 1..n |-> msgPiece(body, k - 1)]
        BY <2>2, <2>4, Zenon
    <2>7. AllPieces(other) = [k \in 1..n |-> IF k = n THEN last ELSE msgPiece(body, k - 1)]
        BY <2>1, <2>3, <2>5
    <2>8. [mine EXCEPT ![n] = last] = [k \in 1..n |-> IF k = n THEN last ELSE msgPiece(body, k - 1)]
        BY <2>6
    <2> QED
        BY <2>4, <2>5, <2>7, <2>8, Zenon
<1> QED
    BY <1>3, <1>4, <1>5, <1>10 DEF other, p
=============================================================================
