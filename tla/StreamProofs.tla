------------------------------ MODULE StreamProofs ------------------------------
(***************************************************************************)
(* Proofs about what is read piece by piece.                               *)
(*                                                                         *)
(* ConvertHistory, for any sessions, streams of events and interleaving:   *)
(* the history rebuilt from the recorded events is the one the sessions    *)
(* had, and no text is lost or made up.                                    *)
(*                                                                         *)
(* ChunkMatcher, for any pattern, chunks and length of the text: however   *)
(* the file is cut, the search says what a search in the whole says.       *)
(*                                                                         *)
(* The conversion folds the rows, the search folds the letters, and the    *)
(* folds, FlattenSeq and the prefix function are recursive functions.      *)
(* Their values for one more element are proved by induction over sets of  *)
(* numbers: a set with 0 and the successor of each of its members holds    *)
(* every number.                                                           *)
(***************************************************************************)
EXTENDS ConvertHistory, ChunkMatcher, SequenceTheorems, FiniteSetTheorems,
        WellFoundedInduction, TLAPS

-----------------------------------------------------------------------------
(* Induction over a set of numbers, from WFMin.                            *)

(* Every set of numbers that is not empty has a least one.                 *)
LEMMA LeastNatural ==
    ASSUME NEW T \in SUBSET Nat, NEW n \in T
    PROVE  \E m \in T : \A k \in T : m <= k
  <1>1. IsWellFoundedOn(OpToRel(<, Nat), Nat)
    BY NatLessThanWellFounded
  <1>2. PICK m \in T : \A k \in T : ~(<<k, m>> \in OpToRel(<, Nat))
    BY <1>1, WFMin
  <1>3. \A k \in T : ~(k < m)
    BY <1>2 DEF OpToRel
  <1> QED  BY <1>3

LEMMA Induction ==
    ASSUME NEW T, 0 \in T, \A n \in Nat : n \in T => n + 1 \in T
    PROVE  \A n \in Nat : n \in T
  <1> SUFFICES ASSUME NEW c \in Nat \ T PROVE FALSE
    OBVIOUS
  <1>1. PICK m \in Nat \ T : \A k \in Nat \ T : m <= k
    BY LeastNatural
  <1>2. m # 0 /\ m - 1 \in Nat /\ ~(m <= m - 1)
    BY <1>1
  <1>3. m - 1 \in T
    BY <1>1, <1>2
  <1> QED  BY <1>1, <1>2, <1>3

-----------------------------------------------------------------------------
(* FlattenSeq.                                                             *)

(* The first n steps of FlattenSeq(q).                                     *)
Flattens(f, q, n) ==
    f = [i \in 1 .. n |-> IF i = 1 THEN q[i] ELSE f[i - 1] \o q[i]]

(* The steps are a function, and the steps over two sequences that agree   *)
(* so far are the same.                                                    *)
LEMMA FlattensExists ==
    ASSUME NEW q, NEW n \in Nat PROVE \E f : Flattens(f, q, n)
  <1> DEFINE T == {k \in Nat : \E f : Flattens(f, q, k)}
  <1>1. 0 \in T
    <2> DEFINE f == [i \in 1 .. 0 |-> 0]
    <2>1. \A g : DOMAIN [i \in 1 .. 0 |-> IF i = 1 THEN q[i] ELSE g[i - 1] \o q[i]] = {}
      OBVIOUS
    <2>2. f = [i \in 1 .. 0 |-> IF i = 1 THEN q[i] ELSE f[i - 1] \o q[i]]
      OBVIOUS
    <2> QED  BY <2>2 DEF Flattens
  <1>2. ASSUME NEW k \in Nat, k \in T PROVE k + 1 \in T
    <2>1. PICK f : Flattens(f, q, k)
      BY <1>2
    <2> DEFINE g == [i \in 1 .. k + 1 |->
                        IF i = k + 1 THEN IF i = 1 THEN q[i] ELSE f[i - 1] \o q[i]
                        ELSE f[i]]
    <2>2. ASSUME NEW i \in 1 .. k + 1
          PROVE  g[i] = IF i = 1 THEN q[i] ELSE g[i - 1] \o q[i]
      <3>1. CASE i = k + 1
        <4>1. i # 1 => i - 1 \in 1 .. k + 1 /\ i - 1 # k + 1
          BY <3>1
        <4>2. i # 1 => g[i - 1] = f[i - 1]
          BY <4>1
        <4> QED  BY <3>1, <4>2
      <3>2. CASE i # k + 1
        <4>1. i \in 1 .. k /\ (i # 1 => i - 1 \in 1 .. k + 1 /\ i - 1 # k + 1)
          BY <3>2
        <4>2. g[i] = f[i] /\ (i # 1 => g[i - 1] = f[i - 1])
          BY <4>1, <3>2
        <4>3. f[i] = IF i = 1 THEN q[i] ELSE f[i - 1] \o q[i]
          BY <2>1, <4>1 DEF Flattens
        <4> QED  BY <4>2, <4>3
      <3> QED  BY <3>1, <3>2
    <2>3. DOMAIN g = 1 .. k + 1 /\ g = [i \in 1 .. k + 1 |-> g[i]]
      OBVIOUS
    <2> HIDE DEF g
    <2>4. Flattens(g, q, k + 1)
      BY <2>2, <2>3 DEF Flattens
    <2> QED  BY <2>4
  <1> HIDE DEF T
  <1>3. n \in T
    BY <1>1, <1>2, Induction
  <1> QED  BY <1>3 DEF T

AgreeTo(f, g, n) == \A i \in 1 .. n : f[i] = g[i]

LEMMA FlattensUnique ==
    ASSUME NEW q, NEW r, NEW n \in Nat, NEW m \in Nat, n <= m,
           AgreeTo(q, r, n),
           NEW f, Flattens(f, q, n), NEW g, Flattens(g, r, m)
    PROVE  AgreeTo(f, g, n)
  <1> DEFINE T == {k \in Nat : k \in 1 .. n => f[k] = g[k]}
  <1>1. /\ \A i \in 1 .. n : f[i] = IF i = 1 THEN q[i] ELSE f[i - 1] \o q[i]
        /\ \A i \in 1 .. m : g[i] = IF i = 1 THEN r[i] ELSE g[i - 1] \o r[i]
    BY Zenon DEF Flattens
  <1>2. 0 \in T
    OBVIOUS
  <1>3. ASSUME NEW k \in Nat, k \in T PROVE k + 1 \in T
    <2> SUFFICES ASSUME k + 1 \in 1 .. n PROVE f[k + 1] = g[k + 1]
      OBVIOUS
    <2>1. k + 1 \in 1 .. m /\ q[k + 1] = r[k + 1] /\ (k + 1) - 1 = k
      BY DEF AgreeTo
    <2>2. k + 1 # 1 => f[k] = g[k]
      BY <1>3
    <2> QED  BY <1>1, <2>1, <2>2
  <1> HIDE DEF T
  <1>4. \A k \in Nat : k \in T
    BY <1>2, <1>3, Induction
  <1> QED  BY <1>4 DEF T, AgreeTo

LEMMA FlattenIs ==
    ASSUME NEW S, NEW q \in Seq(S), q # <<>>
    PROVE  \E f : Flattens(f, q, Len(q)) /\ FlattenSeq(q) = f[Len(q)]
  <1>1. Len(q) \in Nat /\ Len(q) # 0
    OBVIOUS
  <1> DEFINE f == CHOOSE g : Flattens(g, q, Len(q))
  <1>2. Flattens(f, q, Len(q))
    BY <1>1, FlattensExists
  <1>3. FlattenSeq(q) = f[Len(q)]
    BY <1>1, Zenon DEF FlattenSeq, Flattens
  <1> QED  BY <1>2, <1>3

LEMMA AppendFacts ==
    ASSUME NEW S, NEW q \in Seq(S), NEW x \in S, NEW r, r = Append(q, x)
    PROVE  /\ r \in Seq(S) /\ r # <<>> /\ Len(r) = Len(q) + 1
           /\ Len(q) \in Nat /\ Len(r) \in Nat
           /\ DOMAIN q = 1 .. Len(q) /\ DOMAIN r = 1 .. Len(r)
           /\ r[Len(q) + 1] = x
           /\ AgreeTo(q, r, Len(q))
  BY DEF AgreeTo

(* FlattenSeq, one sequence at a time.                                     *)
LEMMA FlattenStep ==
    ASSUME NEW S, NEW q \in Seq(S), NEW x \in S, NEW r, r = Append(q, x), q # <<>>
    PROVE  FlattenSeq(r) = FlattenSeq(q) \o x
  <1>1. /\ r \in Seq(S) /\ r # <<>> /\ Len(r) = Len(q) + 1
        /\ Len(q) \in Nat /\ Len(r) \in Nat
        /\ r[Len(q) + 1] = x
        /\ AgreeTo(q, r, Len(q))
    BY AppendFacts, ZenonT(60)
  <1>2. PICK g : Flattens(g, r, Len(r)) /\ FlattenSeq(r) = g[Len(r)]
    BY <1>1, FlattenIs
  <1>3. PICK f : Flattens(f, q, Len(q)) /\ FlattenSeq(q) = f[Len(q)]
    BY FlattenIs
  <1>4. /\ Len(q) \in 1 .. Len(q) /\ Len(r) \in 1 .. Len(r) /\ Len(r) # 1
        /\ Len(r) - 1 = Len(q) /\ Len(q) <= Len(r)
    BY <1>1
  <1>5. g[Len(r)] = IF Len(r) = 1 THEN r[Len(r)] ELSE g[Len(r) - 1] \o r[Len(r)]
    BY <1>2, <1>4, Zenon DEF Flattens
  <1>6. g[Len(r)] = g[Len(q)] \o x
    BY <1>1, <1>4, <1>5
  <1>7. AgreeTo(f, g, Len(q))
    BY <1>1, <1>2, <1>3, <1>4, FlattensUnique
  <1>8. f[Len(q)] = g[Len(q)]
    BY <1>4, <1>7 DEF AgreeTo
  <1> QED  BY <1>2, <1>3, <1>6, <1>8

(* What FlattenSeq makes of sequences over V is a sequence over V.         *)
LEMMA FlattenType ==
    ASSUME NEW V, NEW q \in Seq(Seq(V)) PROVE FlattenSeq(q) \in Seq(V)
  <1>1. PICK S : S = Seq(V)
    OBVIOUS
  <1>2. CASE q = <<>>
    <2>1. FlattenSeq(q) = q
      BY <1>2 DEF FlattenSeq
    <2>2. <<>> \in Seq(V)
      OBVIOUS
    <2> QED  BY <1>2, <2>1, <2>2, Zenon
  <1>3. CASE q # <<>>
    <2>1. q \in Seq(S) /\ Len(q) \in Nat /\ Len(q) \in 1 .. Len(q)
      BY <1>1, <1>3
    <2>2. PICK f : Flattens(f, q, Len(q)) /\ FlattenSeq(q) = f[Len(q)]
      BY <1>3, <2>1, FlattenIs
    <2>3. \A i \in 1 .. Len(q) : f[i] = IF i = 1 THEN q[i] ELSE f[i - 1] \o q[i]
      BY <2>2, Zenon DEF Flattens
    <2>4. \A i \in 1 .. Len(q) : q[i] \in Seq(V)
      BY <1>1, <2>1
    <2> DEFINE T == {k \in Nat : k \in 1 .. Len(q) => f[k] \in Seq(V)}
    <2>5. 0 \in T
      OBVIOUS
    <2>6. ASSUME NEW k \in Nat, k \in T PROVE k + 1 \in T
      <3> SUFFICES ASSUME k + 1 \in 1 .. Len(q) PROVE f[k + 1] \in Seq(V)
        OBVIOUS
      <3>1. (k + 1) - 1 = k /\ (k + 1 # 1 => k \in 1 .. Len(q))
        BY <2>1
      <3>2. k + 1 # 1 => f[k] \in Seq(V)
        BY <2>6, <3>1
      <3>3. f[k + 1] = IF k + 1 = 1 THEN q[k + 1] ELSE f[k] \o q[k + 1]
        BY <2>3, <3>1, Zenon
      <3>4. q[k + 1] \in Seq(V)
        BY <2>4
      <3> QED  BY <3>2, <3>3, <3>4
    <2> HIDE DEF T
    <2>7. Len(q) \in T
      BY <2>1, <2>5, <2>6, Induction
    <2> QED  BY <2>1, <2>2, <2>7 DEF T
  <1> QED  BY <1>2, <1>3

LEMMA FlattenAppend ==
    ASSUME NEW V, NEW q \in Seq(Seq(V)), NEW x \in Seq(V), NEW r, r = Append(q, x)
    PROVE  FlattenSeq(r) = FlattenSeq(q) \o x
  <1>1. CASE q # <<>>
    <2>1. PICK S : S = Seq(V)
      OBVIOUS
    <2> QED  BY <1>1, <2>1, FlattenStep
  <1>2. CASE q = <<>>
    <2>1. PICK S : S = Seq(V)
      OBVIOUS
    <2>2. r \in Seq(S) /\ r # <<>> /\ Len(r) = 1 /\ r[1] = x
      BY <1>2, <2>1
    <2>3. PICK g : Flattens(g, r, Len(r)) /\ FlattenSeq(r) = g[Len(r)]
      BY <2>2, FlattenIs
    <2>4. g[1] = x
      BY <2>2, <2>3 DEF Flattens
    <2>5. FlattenSeq(q) = q
      BY <1>2 DEF FlattenSeq
    <2>6. <<>> \o x = x
      BY ConcatEmptySeq
    <2> QED  BY <1>2, <2>2, <2>3, <2>4, <2>5, <2>6
  <1> QED  BY <1>1, <1>2
LEMMA FlattenEmpty == \A q : q = <<>> => FlattenSeq(q) = q
  BY DEF FlattenSeq

(* Replacing the last element is appending to the others.                  *)
LEMMA LastReplaced ==
    ASSUME NEW S, NEW q \in Seq(S), q # <<>>, NEW z \in S, NEW p \in Seq(S),
           Len(q) = Len(p) + 1, AgreeTo(p, q, Len(p)),
           NEW u \in Seq(S), Len(u) = Len(p) + 1, AgreeTo(p, u, Len(p)), u[Len(p) + 1] = z
    PROVE  [q EXCEPT ![Len(q)] = z] = u
  <1>1. Len(q) \in 1 .. Len(q)
    OBVIOUS
  <1>2. PICK j \in 1 .. Len(q) : j = Len(q)
    BY <1>1
  <1>3. PICK r : r = [q EXCEPT ![j] = z]
    OBVIOUS
  <1>4. /\ [q EXCEPT ![j] = z] \in Seq(S) /\ Len([q EXCEPT ![j] = z]) = Len(q)
        /\ \A i \in 1 .. Len(q) : [q EXCEPT ![j] = z][i] = IF i = j THEN z ELSE q[i]
    BY ExceptSeq
  <1>5. /\ r \in Seq(S) /\ Len(r) = Len(q)
        /\ \A i \in 1 .. Len(q) : r[i] = IF i = Len(q) THEN z ELSE q[i]
    BY <1>2, <1>3, <1>4, Zenon
  <1>6. ASSUME NEW i \in 1 .. Len(r) PROVE r[i] = u[i]
    BY <1>5 DEF AgreeTo
  <1>7. r = u
    BY <1>5, <1>6, SeqEqual
  <1> QED  BY <1>2, <1>3, <1>7, Zenon

(* The last of the sequences grows.                                        *)
LastGrown(q, x, r) == r = [q EXCEPT ![Len(q)] = @ \o x]

LEMMA FlattenLast ==
    ASSUME NEW V, NEW q \in Seq(Seq(V)), NEW x \in Seq(V), q # <<>>,
           NEW r, LastGrown(q, x, r)
    PROVE  FlattenSeq(r) = FlattenSeq(q) \o x
  <1>1. PICK S : S = Seq(V)
    OBVIOUS
  <1>2. q \in Seq(S)
    BY <1>1
  <1>3. PICK p \in Seq(S), y \in S : q = Append(p, y)
    <2> DEFINE p == SubSeq(q, 1, Len(q) - 1)
    <2>1. p \in Seq(S) /\ q[Len(q)] \in S /\ q = Append(p, q[Len(q)])
      BY <1>2
    <2> QED  BY <2>1
  <1>4. p \in Seq(Seq(V)) /\ y \in Seq(V)
    BY <1>1, <1>3
  <1>5. PICK z : z = y \o x
    OBVIOUS
  <1>6. z \in Seq(V) /\ z \in S
    BY <1>1, <1>4, <1>5
  <1>7. r = Append(p, z)
    <2>1. q[Len(q)] = y
      BY <1>3
    <2>2. r = [q EXCEPT ![Len(q)] = z]
      BY <1>5, <2>1, Zenon DEF LastGrown
    <2>3. PICK u : u = Append(p, z)
      OBVIOUS
    <2>4. /\ u \in Seq(S) /\ Len(u) = Len(p) + 1 /\ u[Len(p) + 1] = z
          /\ AgreeTo(p, u, Len(p)) /\ Len(q) = Len(p) + 1 /\ AgreeTo(p, q, Len(p))
      BY <1>3, <1>6, <2>3, AppendFacts
    <2>5. [q EXCEPT ![Len(q)] = z] = u
      BY <1>2, <1>3, <1>6, <2>4, LastReplaced, Zenon
    <2> QED  BY <2>2, <2>3, <2>5, Zenon
  <1>8. FlattenSeq(q) = FlattenSeq(p) \o y /\ FlattenSeq(r) = FlattenSeq(p) \o z
    BY <1>3, <1>4, <1>6, <1>7, FlattenAppend
  <1>9. PICK t \in Seq(V) : t = FlattenSeq(p)
    BY <1>4, FlattenType
  <1>10. (t \o y) \o x = t \o (y \o x)
    <2>1. t \in Seq(V) /\ y \in Seq(V) /\ x \in Seq(V)
      BY <1>4
    <2> QED  BY <2>1, ConcatAssociative, SMTT(60)
  <1> QED  BY <1>5, <1>8, <1>9, <1>10, Zenon

-----------------------------------------------------------------------------
(* FoldLeft of the operators it is used with: Step(k, a, b) is the one that *)
(* k stands for.                                                           *)

Rows == [of |-> "rows"]
Cuts == [of |-> "cuts"]
Places == [of |-> "places"]
Search(p, f) == [of |-> "letters", pattern |-> p, function |-> f]

Step(k, a, b) ==
    IF k.of = "rows" THEN InSegment(a, b)
    ELSE IF k.of = "cuts" THEN Group(a, b)
    ELSE IF k.of = "places" THEN Record(a, b)
    ELSE Advance(k.pattern, k.function, a, b)

Folds(g, k, base, q, n) ==
    g = [s \in SUBSET (1 .. n) |->
           IF s = {} THEN base
           ELSE LET x == Max(s) IN Step(k, g[s \ {x}], q[x])]

(* FoldLeft takes its elements from the largest index down.                *)
LEMMA MaxIs ==
    ASSUME NEW n \in Nat, NEW s \in SUBSET (1 .. n + 1), n + 1 \in s
    PROVE  Max(s) = n + 1
  <1>1. \A y \in s : n + 1 >= y
    OBVIOUS
  <1>2. Max(s) \in s /\ \A y \in s : Max(s) >= y
    BY <1>1, Zenon DEF Max
  <1>3. Max(s) \in 1 .. n + 1 /\ Max(s) >= n + 1
    BY <1>2
  <1> QED  BY <1>3

(* As with Flattens: the fold is a function, and folds over two sequences  *)
(* that agree so far are the same.                                         *)
LEMMA FoldsExists ==
    ASSUME NEW k, NEW base, NEW q, NEW n \in Nat
    PROVE  \E g : Folds(g, k, base, q, n)
  <1> DEFINE T == {m \in Nat : \E g : Folds(g, k, base, q, m)}
  <1>1. 0 \in T
    <2> DEFINE g == [s \in SUBSET (1 .. 0) |-> base]
    <2>1. \A s \in SUBSET (1 .. 0) : s = {}
      OBVIOUS
    <2>2. Folds(g, k, base, q, 0)
      BY <2>1, Zenon DEF Folds
    <2> QED  BY <2>2
  <1>2. ASSUME NEW m \in Nat, m \in T PROVE m + 1 \in T
    <2>1. PICK f : Folds(f, k, base, q, m)
      BY <1>2
    <2> DEFINE g == [s \in SUBSET (1 .. m + 1) |->
                        IF m + 1 \in s THEN Step(k, f[s \ {m + 1}], q[m + 1]) ELSE f[s]]
    <2>2. DOMAIN g = SUBSET (1 .. m + 1) /\ g = [s \in SUBSET (1 .. m + 1) |-> g[s]]
      OBVIOUS
    <2>3. ASSUME NEW s \in SUBSET (1 .. m + 1), m + 1 \notin s
          PROVE  g[s] = f[s] /\ s \in SUBSET (1 .. m)
      BY <2>3
    <2>4. ASSUME NEW s \in SUBSET (1 .. m + 1), m + 1 \in s
          PROVE  g[s] = Step(k, f[s \ {m + 1}], q[m + 1])
      BY <2>4
    <2> HIDE DEF g
    <2>5. ASSUME NEW s \in SUBSET (1 .. m + 1)
          PROVE  g[s] = IF s = {} THEN base ELSE Step(k, g[s \ {Max(s)}], q[Max(s)])
      <3>1. CASE m + 1 \in s
        <4>1. Max(s) = m + 1 /\ s # {}
          BY <3>1, MaxIs
        <4>2. s \ {m + 1} \in SUBSET (1 .. m + 1) /\ m + 1 \notin s \ {m + 1}
          OBVIOUS
        <4>3. g[s \ {m + 1}] = f[s \ {m + 1}]
          BY <2>3, <4>2
        <4> QED  BY <2>4, <3>1, <4>1, <4>3, Zenon
      <3>2. CASE m + 1 \notin s
        <4>1. g[s] = f[s] /\ s \in SUBSET (1 .. m)
          BY <2>3, <3>2
        <4>2. s \ {Max(s)} \in SUBSET (1 .. m + 1) /\ m + 1 \notin s \ {Max(s)}
          BY <3>2
        <4>3. g[s \ {Max(s)}] = f[s \ {Max(s)}]
          BY <2>3, <4>2
        <4>4. f[s] = IF s = {} THEN base ELSE Step(k, f[s \ {Max(s)}], q[Max(s)])
          BY <2>1, <4>1, Zenon DEF Folds
        <4> QED  BY <4>1, <4>3, <4>4, Zenon
      <3> QED  BY <3>1, <3>2
    <2>6. Folds(g, k, base, q, m + 1)
      BY <2>2, <2>5, Zenon DEF Folds
    <2> QED  BY <2>6
  <1> HIDE DEF T
  <1>3. n \in T
    BY <1>1, <1>2, Induction
  <1> QED  BY <1>3 DEF T

LEMMA FoldsUnique ==
    ASSUME NEW k, NEW base, NEW q, NEW r, NEW n \in Nat, NEW m \in Nat, n <= m,
           AgreeTo(q, r, n),
           NEW f, Folds(f, k, base, q, n), NEW g, Folds(g, k, base, r, m)
    PROVE  f[1 .. n] = g[1 .. n]
  <1> DEFINE T == {i \in Nat : i <= n => f[1 .. i] = g[1 .. i]}
  <1>0. /\ \A s \in SUBSET (1 .. n) :
             f[s] = IF s = {} THEN base ELSE Step(k, f[s \ {Max(s)}], q[Max(s)])
        /\ \A s \in SUBSET (1 .. m) :
             g[s] = IF s = {} THEN base ELSE Step(k, g[s \ {Max(s)}], r[Max(s)])
    BY Zenon DEF Folds
  <1>1. 0 \in T
    <2>1. 1 .. 0 = {} /\ {} \in SUBSET (1 .. n) /\ {} \in SUBSET (1 .. m)
      OBVIOUS
    <2>2. f[{}] = base /\ g[{}] = base
      BY <1>0, <2>1, Zenon
    <2> QED  BY <2>1, <2>2
  <1>2. ASSUME NEW i \in Nat, i \in T PROVE i + 1 \in T
    <2> SUFFICES ASSUME i + 1 <= n PROVE f[1 .. i + 1] = g[1 .. i + 1]
      OBVIOUS
    <2> DEFINE s == 1 .. i + 1
    <2>1. s \in SUBSET (1 .. n) /\ s \in SUBSET (1 .. m) /\ s # {} /\ s \ {i + 1} = 1 .. i
      OBVIOUS
    <2>2. Max(s) = i + 1
      BY MaxIs
    <2>3. f[1 .. i] = g[1 .. i]
      BY <1>2
    <2>4. q[i + 1] = r[i + 1]
      BY DEF AgreeTo
    <2>5. f[s] = Step(k, f[1 .. i], q[i + 1])
      BY <1>0, <2>1, <2>2, Zenon
    <2>6. g[s] = Step(k, g[1 .. i], r[i + 1])
      BY <1>0, <2>1, <2>2, Zenon
    <2> QED  BY <2>3, <2>4, <2>5, <2>6, Zenon
  <1> HIDE DEF T
  <1>3. n \in T
    BY <1>1, <1>2, Induction
  <1> QED  BY <1>3 DEF T

LEMMA FoldsLast ==
    ASSUME NEW k, NEW base, NEW r, NEW n \in Nat, NEW m \in Nat, m = n + 1,
           NEW g, Folds(g, k, base, r, m)
    PROVE  g[1 .. m] = Step(k, g[1 .. n], r[n + 1])
  <1>1. /\ 1 .. m \in SUBSET (1 .. n + 1) /\ 1 .. m \in SUBSET (1 .. m)
        /\ n + 1 \in 1 .. m /\ 1 .. m # {} /\ (1 .. m) \ {n + 1} = 1 .. n
    OBVIOUS
  <1>2. Max(1 .. m) = n + 1
    BY <1>1, MaxIs
  <1>3. g[1 .. m] = IF 1 .. m = {} THEN base
                    ELSE Step(k, g[(1 .. m) \ {Max(1 .. m)}], r[Max(1 .. m)])
    BY <1>1, Zenon DEF Folds
  <1> QED  BY <1>1, <1>2, <1>3, Zenon

Fold(events) == FoldLeft(InSegment, Start, events)

LEMMA FoldIs ==
    ASSUME NEW q, NEW n \in Nat, DOMAIN q = 1 .. n
    PROVE  \E g : Folds(g, Rows, Start, q, n) /\ Fold(q) = g[1 .. n]
  <1> DEFINE g == CHOOSE h : h = [s \in SUBSET (1 .. n) |->
                      IF s = {} THEN Start
                      ELSE InSegment(h[s \ {Max(s)}], q[Max(s)])]
  <1>1. PICK f : Folds(f, Rows, Start, q, n)
    BY FoldsExists
  <1>2. g = [s \in SUBSET (1 .. n) |->
                      IF s = {} THEN Start
                      ELSE InSegment(g[s \ {Max(s)}], q[Max(s)])]
    <2>1. f = [s \in SUBSET (1 .. n) |->
                      IF s = {} THEN Start
                      ELSE InSegment(f[s \ {Max(s)}], q[Max(s)])]
      BY <1>1, Zenon DEF Folds, Step, Rows
    <2> QED  BY <2>1, Zenon
  <1>3. Folds(g, Rows, Start, q, n)
    BY <1>2, Zenon DEF Folds, Step, Rows
  <1>4. Fold(q) = g[1 .. n]
    BY Zenon DEF Fold, FoldLeft, MapThenFoldSet
  <1> QED  BY <1>3, <1>4

Longer(q, r, x) ==
    /\ Len(q) \in Nat /\ Len(r) \in Nat /\ Len(r) = Len(q) + 1
    /\ DOMAIN q = 1 .. Len(q) /\ DOMAIN r = 1 .. Len(r)
    /\ r[Len(q) + 1] = x /\ AgreeTo(q, r, Len(q))

IsFunctionTo(f, n) == f = [i \in 1 .. n |-> f[i]]

LEMMA AppendIsLonger ==
    ASSUME NEW S, NEW q \in Seq(S), NEW x \in S, NEW r, r = Append(q, x)
    PROVE  Longer(q, r, x) /\ IsFunctionTo(r, Len(q) + 1)
  <1>1. Longer(q, r, x)
    BY DEF Longer, AgreeTo
  <1>2. r \in Seq(S) /\ Len(r) = Len(q) + 1
    OBVIOUS
  <1>3. \A u \in Seq(S) : u = [i \in 1 .. Len(u) |-> u[i]]
    OBVIOUS
  <1>4. IsFunctionTo(r, Len(q) + 1)
    BY <1>2, <1>3, Zenon DEF IsFunctionTo
  <1> QED  BY <1>1, <1>4

(* A function of the elements, when the sequence is longer by one.         *)
LEMMA MappedAppend ==
    ASSUME NEW S, NEW q \in Seq(S), NEW x \in S,
           NEW r, IsFunctionTo(r, Len(q) + 1), r[Len(q) + 1] = x,
           AgreeTo(q, r, Len(q))
    PROVE  r = Append(q, x)
  <1>1. PICK u : u = Append(q, x)
    OBVIOUS
  <1>2. Longer(q, u, x) /\ IsFunctionTo(u, Len(q) + 1)
    BY <1>1, AppendIsLonger
  <1>3. Len(q) \in Nat /\ u[Len(q) + 1] = x /\ AgreeTo(q, u, Len(q))
    BY <1>2, Zenon DEF Longer
  <1>4. ASSUME NEW i \in 1 .. Len(q) + 1 PROVE u[i] = r[i]
    <2>1. CASE i = Len(q) + 1
      BY <1>3, <2>1
    <2>2. CASE i # Len(q) + 1
      <3>1. i \in 1 .. Len(q)
        BY <1>3, <2>2
      <3> QED  BY <1>3, <3>1 DEF AgreeTo
    <2> QED  BY <2>1, <2>2
  <1>5. u = r
    BY <1>2, <1>4, Zenon DEF IsFunctionTo
  <1> QED  BY <1>1, <1>5

LEMMA FoldEmpty == ASSUME NEW q, q = <<>> PROVE Fold(q) = Start
  <1>1. DOMAIN q = 1 .. 0 /\ 0 \in Nat
    OBVIOUS
  <1>2. PICK g : Folds(g, Rows, Start, q, 0) /\ Fold(q) = g[1 .. 0]
    BY <1>1, FoldIs
  <1>3. 1 .. 0 = {} /\ {} \in SUBSET (1 .. 0)
    OBVIOUS
  <1>4. g[{}] = Start
    BY <1>2, <1>3, Zenon DEF Folds
  <1> QED  BY <1>2, <1>3, <1>4

(* One more row is one more step of the conversion.                        *)
LEMMA FoldAppend ==
    ASSUME NEW q, NEW x, NEW r, Longer(q, r, x)
    PROVE  Fold(r) = InSegment(Fold(q), x)
  <1>1. /\ Len(q) \in Nat /\ Len(r) \in Nat /\ Len(r) = Len(q) + 1
        /\ DOMAIN q = 1 .. Len(q) /\ DOMAIN r = 1 .. Len(r)
        /\ r[Len(q) + 1] = x /\ AgreeTo(q, r, Len(q))
    BY Zenon DEF Longer
  <1>2. PICK f : Folds(f, Rows, Start, q, Len(q)) /\ Fold(q) = f[1 .. Len(q)]
    BY <1>1, FoldIs
  <1>3. PICK g : Folds(g, Rows, Start, r, Len(r)) /\ Fold(r) = g[1 .. Len(r)]
    BY <1>1, FoldIs
  <1>4. f[1 .. Len(q)] = g[1 .. Len(q)]
    BY <1>1, <1>2, <1>3, FoldsUnique
  <1>5. g[1 .. Len(r)] = Step(Rows, g[1 .. Len(q)], x)
    BY <1>1, <1>3, FoldsLast
  <1> QED  BY <1>2, <1>3, <1>4, <1>5, Zenon DEF Step, Rows

GroupsOf(q) == FoldLeft(Group, <<>>, q)

LEMMA GroupsAre ==
    ASSUME NEW q, NEW n \in Nat, DOMAIN q = 1 .. n
    PROVE  \E g : Folds(g, Cuts, <<>>, q, n) /\ GroupsOf(q) = g[1 .. n]
  <1> DEFINE g == CHOOSE h : h = [s \in SUBSET (1 .. n) |->
                      IF s = {} THEN <<>>
                      ELSE Group(h[s \ {Max(s)}], q[Max(s)])]
  <1>1. PICK f : Folds(f, Cuts, <<>>, q, n)
    BY FoldsExists
  <1>2. \A a, b : Step(Cuts, a, b) = Group(a, b)
    BY DEF Step, Cuts
  <1>3. g = [s \in SUBSET (1 .. n) |->
                IF s = {} THEN <<>> ELSE Group(g[s \ {Max(s)}], q[Max(s)])]
    <2>1. f = [s \in SUBSET (1 .. n) |->
                IF s = {} THEN <<>> ELSE Group(f[s \ {Max(s)}], q[Max(s)])]
      BY <1>1, <1>2, Zenon DEF Folds
    <2> QED  BY <2>1, Zenon
  <1>4. Folds(g, Cuts, <<>>, q, n)
    BY <1>2, <1>3, Zenon DEF Folds
  <1>5. GroupsOf(q) = g[1 .. n]
    BY Zenon DEF GroupsOf, FoldLeft, MapThenFoldSet
  <1> QED  BY <1>4, <1>5

LEMMA GroupsEmpty == ASSUME NEW q, q = <<>> PROVE GroupsOf(q) = <<>>
  <1>1. DOMAIN q = 1 .. 0 /\ 0 \in Nat
    OBVIOUS
  <1>2. PICK g : Folds(g, Cuts, <<>>, q, 0) /\ GroupsOf(q) = g[1 .. 0]
    BY <1>1, GroupsAre
  <1>3. 1 .. 0 = {} /\ {} \in SUBSET (1 .. 0)
    OBVIOUS
  <1>4. g[{}] = <<>>
    BY <1>2, <1>3, Zenon DEF Folds
  <1> QED  BY <1>2, <1>3, <1>4

(* One more row is one more step of the grouping.                          *)
LEMMA GroupsAppend ==
    ASSUME NEW q, NEW x, NEW r, Longer(q, r, x)
    PROVE  GroupsOf(r) = Group(GroupsOf(q), x)
  <1>1. /\ Len(q) \in Nat /\ Len(r) \in Nat /\ Len(r) = Len(q) + 1
        /\ DOMAIN q = 1 .. Len(q) /\ DOMAIN r = 1 .. Len(r)
        /\ r[Len(q) + 1] = x /\ AgreeTo(q, r, Len(q))
    BY Zenon DEF Longer
  <1>2. PICK f : Folds(f, Cuts, <<>>, q, Len(q)) /\ GroupsOf(q) = f[1 .. Len(q)]
    BY <1>1, GroupsAre
  <1>3. PICK g : Folds(g, Cuts, <<>>, r, Len(r)) /\ GroupsOf(r) = g[1 .. Len(r)]
    BY <1>1, GroupsAre
  <1>4. f[1 .. Len(q)] = g[1 .. Len(q)]
    BY <1>1, <1>2, <1>3, FoldsUnique
  <1>5. g[1 .. Len(r)] = Step(Cuts, g[1 .. Len(q)], x)
    BY <1>1, <1>3, FoldsLast
  <1>6. Step(Cuts, g[1 .. Len(q)], x) = Group(g[1 .. Len(q)], x)
    BY DEF Step, Cuts
  <1> QED  BY <1>2, <1>3, <1>4, <1>5, <1>6, Zenon

-----------------------------------------------------------------------------
(* What a converter holds.                                                 *)

Events == UNION {Streams[s] : s \in ChatSessions}

Pieces == {e.content : e \in Events}

IsText(t) == t \in Seq(Pieces)

IsHistory(h) == \E M : h \in Seq(M) /\ \A m \in M : IsText(m.content)

Thoughts == {Reasoning(e) : e \in Events}

IsMessage(m) ==
    /\ m = [content |-> m.content, hasContent |-> m.hasContent,
            reasoning |-> m.reasoning, hasReasoning |-> m.hasReasoning,
            calls |-> m.calls]
    /\ IsText(m.content) /\ m.reasoning \in Seq(Thoughts)

IsConverter(c) ==
    /\ c = [history |-> c.history, current |-> c.current, started |-> c.started,
            id |-> c.id, provider |-> c.provider, failed |-> c.failed]
    /\ c.started \in BOOLEAN /\ c.failed \in BOOLEAN
    /\ IsHistory(c.history) /\ IsMessage(c.current)

Resting(c) == ~c.failed /\ ~c.started => c.current.content = <<>>

Words(e) == IF e.kind \in {"skipped", "no_object"} THEN <<>> ELSE Piece(e.content)

Written(c) == Content(c.history) \o c.current.content

LEMMA ContentIsText == ASSUME NEW h, IsHistory(h) PROVE IsText(Content(h))
  <1>1. PICK M : h \in Seq(M) /\ \A m \in M : IsText(m.content)
    BY DEF IsHistory
  <1>2. PICK q : q = [i \in DOMAIN h |-> h[i].content]
    OBVIOUS
  <1>3. \A i \in 1 .. Len(h) : h[i].content \in Seq(Pieces)
    BY <1>1 DEF IsText
  <1>4. q \in Seq(Seq(Pieces))
    <2>1. DOMAIN h = 1 .. Len(h) /\ Len(h) \in Nat
      BY <1>1
    <2>2. q \in [1 .. Len(h) -> Seq(Pieces)]
      BY <1>2, <1>3, <2>1, Zenon
    <2> QED  BY <2>1, <2>2
  <1>5. FlattenSeq(q) \in Seq(Pieces)
    BY <1>4, FlattenType
  <1> QED  BY <1>2, <1>5, Zenon DEF Content, IsText

(* One more message is its text at the end.                                *)
LEMMA ContentAppend ==
    ASSUME NEW h, IsHistory(h), NEW m, IsText(m.content), NEW k, k = Append(h, m)
    PROVE  IsHistory(k) /\ Content(k) = Content(h) \o m.content
  <1>1. PICK M : h \in Seq(M) /\ \A n \in M : IsText(n.content)
    BY DEF IsHistory
  <1>2. PICK N : N = M \cup {m}
    OBVIOUS
  <1>3. h \in Seq(N) /\ m \in N /\ \A n \in N : IsText(n.content)
    <2>1. \A n \in N : IsText(n.content)
      BY <1>1, <1>2, Zenon
    <2> QED  BY <1>1, <1>2, <2>1
  <1>4. k \in Seq(N)
    BY <1>3
  <1>5. Longer(h, k, m)
    BY <1>3, AppendIsLonger
  <1>6. PICK q, r : /\ q = [i \in DOMAIN h |-> h[i].content]
                    /\ r = [i \in DOMAIN k |-> k[i].content]
    OBVIOUS
  <1>7. PICK x \in Seq(Pieces) : x = m.content
    BY DEF IsText
  <1>8. /\ Len(h) \in Nat /\ Len(k) = Len(h) + 1
        /\ DOMAIN h = 1 .. Len(h) /\ DOMAIN k = 1 .. Len(h) + 1
        /\ k[Len(h) + 1] = m /\ \A i \in 1 .. Len(h) : h[i] = k[i]
    BY <1>5 DEF Longer, AgreeTo
  <1>9. q \in Seq(Seq(Pieces)) /\ Len(q) = Len(h)
    <2>1. \A i \in 1 .. Len(h) : h[i].content \in Seq(Pieces)
      BY <1>1 DEF IsText
    <2>2. q \in [1 .. Len(h) -> Seq(Pieces)]
      BY <1>6, <1>8, <2>1, Zenon
    <2> QED  BY <1>8, <2>2
  <1>10. r = Append(q, x)
    <2>1. PICK S : S = Seq(Pieces)
      OBVIOUS
    <2>2. q \in Seq(S) /\ x \in S
      BY <1>9, <2>1
    <2>3. /\ IsFunctionTo(r, Len(q) + 1) /\ r[Len(q) + 1] = x
          /\ AgreeTo(q, r, Len(q))
      <3>1. IsFunctionTo(r, Len(q) + 1) /\ r[Len(q) + 1] = x
        BY <1>6, <1>7, <1>8, <1>9 DEF IsFunctionTo
      <3>2. AgreeTo(q, r, Len(q))
        BY <1>6, <1>8, <1>9 DEF AgreeTo
      <3> QED  BY <3>1, <3>2
    <2> QED  BY <2>2, <2>3, MappedAppend
  <1>11. FlattenSeq(r) = FlattenSeq(q) \o x
    BY <1>9, <1>10, FlattenAppend
  <1>12. Content(k) = FlattenSeq(r) /\ Content(h) = FlattenSeq(q)
    BY <1>6, Zenon DEF Content
  <1> QED  BY <1>3, <1>4, <1>7, <1>11, <1>12, Zenon DEF IsHistory

LEMMA ContentEmpty == ASSUME NEW h, h = <<>> PROVE IsHistory(h) /\ Content(h) = <<>>
  <1>1. h \in Seq({})
    OBVIOUS
  <1>2. PICK q : q = [i \in DOMAIN h |-> h[i].content]
    OBVIOUS
  <1>3. q = <<>>
    BY <1>2
  <1>4. FlattenSeq(q) = <<>>
    BY <1>3, FlattenEmpty
  <1>5. Content(h) = <<>>
    BY <1>2, <1>4, Zenon DEF Content
  <1>6. \A m \in {} : IsText(m.content)
    OBVIOUS
  <1>7. IsHistory(h)
    BY <1>1, <1>6 DEF IsHistory
  <1> QED  BY <1>5, <1>7

LEMMA NoMessageIs ==
    /\ IsMessage(NoMessage) /\ NoMessage.content = <<>>
    /\ AsBuilt(NoMessage) = NoMessage /\ Complete(NoMessage)
  <1>1. IsMessage(NoMessage) /\ NoMessage.content = <<>>
    BY DEF NoMessage, IsMessage, IsText
  <1>2. PICK has : has = (NoMessage.reasoning # <<>>)
    OBVIOUS
  <1>3. AsBuilt(NoMessage) = [NoMessage EXCEPT !.hasReasoning = FALSE]
    <2>1. NoMessage.reasoning = <<>>
      BY DEF NoMessage
    <2>2. has = FALSE
      BY <1>2, <2>1, Zenon
    <2>3. AsBuilt(NoMessage) = [NoMessage EXCEPT !.hasReasoning = has]
      BY <1>2, Zenon DEF AsBuilt
    <2> QED  BY <2>2, <2>3, Zenon
  <1>4. [NoMessage EXCEPT !.hasReasoning = FALSE] = NoMessage
    <2>1. PICK m : m = NoMessage
      OBVIOUS
    <2>2. /\ m = [content |-> m.content, hasContent |-> m.hasContent,
                  reasoning |-> m.reasoning, hasReasoning |-> FALSE, calls |-> m.calls]
      <3>1. NoMessage.hasReasoning = FALSE
        BY DEF NoMessage
      <3> QED  BY <1>1, <2>1, <3>1, Zenon DEF IsMessage
    <2>3. [m EXCEPT !.hasReasoning = FALSE] = m
      BY <2>2
    <2> QED  BY <2>1, <2>3, Zenon
  <1>5. Complete(NoMessage)
    BY DEF Complete, NoMessage
  <1> QED  BY <1>1, <1>3, <1>4, <1>5, Zenon

LEMMA StartIs ==
    IsConverter(Start) /\ Resting(Start) /\ ~Start.failed /\ Written(Start) = <<>>
  <1>1. PICK n : n = <<>>
    OBVIOUS
  <1>2. IsHistory(n) /\ Content(n) = <<>>
    BY <1>1, ContentEmpty
  <1>3. Start.history = n /\ Start.current.content = n
    BY <1>1 DEF Start, NoMessage
  <1>4. IsMessage(Start.current)
    BY NoMessageIs DEF Start
  <1>5. n \o n = n
    BY <1>1
  <1>6. Written(Start) = <<>>
    BY <1>1, <1>2, <1>3, <1>5, Zenon DEF Written
  <1>7. /\ Start = [history |-> Start.history, current |-> Start.current,
                    started |-> Start.started, id |-> Start.id,
                    provider |-> Start.provider, failed |-> Start.failed]
        /\ Start.started = FALSE /\ Start.failed = FALSE
    BY DEF Start
  <1> QED  BY <1>1, <1>2, <1>3, <1>4, <1>6, <1>7, Zenon DEF IsConverter, Resting

(* finish_message keeps what is written, and flushing leaves no message.   *)
LEMMA FinishedStep ==
    ASSUME NEW c, IsConverter(c), NEW d, d = Finished(c)
    PROVE  /\ IsConverter(d) /\ d.provider = c.provider
           /\ c.failed => d.failed
           /\ d.failed <=> c.failed \/ ~Complete(c.current)
           /\ ~d.failed => /\ d.history = Append(c.history, c.current)
                           /\ d.current = NoMessage /\ ~d.started /\ d.id = Nothing
                           /\ d.current.content = <<>>
                           /\ Written(d) = Written(c) /\ Content(d.history) = Written(c)
  <1>1. CASE ~Complete(c.current)
    <2>1. d = [c EXCEPT !.failed = TRUE]
      BY <1>1 DEF Finished
    <2>2. /\ d = [history |-> d.history, current |-> d.current, started |-> d.started,
                  id |-> d.id, provider |-> d.provider, failed |-> d.failed]
          /\ d.history = c.history /\ d.current = c.current /\ d.started = c.started
          /\ d.provider = c.provider /\ d.failed = TRUE
      BY <2>1 DEF IsConverter
    <2> QED  BY <1>1, <2>2, Zenon DEF IsConverter
  <1>2. CASE Complete(c.current)
    <2>1. d = [c EXCEPT !.history = Append(@, c.current), !.current = NoMessage,
                        !.started = FALSE, !.id = Nothing]
      BY <1>2 DEF Finished
    <2>2. /\ d = [history |-> d.history, current |-> d.current, started |-> d.started,
                  id |-> d.id, provider |-> d.provider, failed |-> d.failed]
          /\ d.history = Append(c.history, c.current) /\ d.current = NoMessage
          /\ d.started = FALSE /\ d.id = Nothing
          /\ d.provider = c.provider /\ d.failed = c.failed
      BY <2>1 DEF IsConverter
    <2>3. /\ IsHistory(d.history)
          /\ Content(d.history) = Content(c.history) \o c.current.content
      BY <2>2, ContentAppend, Zenon DEF IsConverter, IsMessage
    <2>4. IsMessage(d.current) /\ d.current.content = <<>>
      BY <2>2, NoMessageIs, Zenon
    <2>5. PICK t \in Seq(Pieces) : t = Content(d.history)
      BY <2>3, ContentIsText DEF IsText
    <2>6. t \o <<>> = t
      BY ConcatEmptySeq
    <2>7. Written(d) = Written(c) /\ Content(d.history) = Written(c)
      BY <2>3, <2>4, <2>5, <2>6, Zenon DEF Written
    <2>8. IsConverter(d)
      BY <2>2, <2>3, <2>4, Zenon DEF IsConverter
    <2> QED  BY <1>2, <2>2, <2>4, <2>7, <2>8, Zenon
  <1> QED  BY <1>1, <1>2

LEMMA FlushedStep ==
    ASSUME NEW c, IsConverter(c), Resting(c), NEW d, d = Flushed(c)
    PROVE  /\ IsConverter(d) /\ Resting(d) /\ d.provider = c.provider
           /\ ~d.failed => /\ ~c.failed /\ ~d.started /\ d.current.content = <<>>
                           /\ Written(d) = Written(c) /\ Content(d.history) = Written(c)
  <1>1. CASE c.started
    <2>1. d = Finished(c)
      BY <1>1 DEF Flushed
    <2> QED  BY <2>1, FinishedStep, Zenon DEF Resting
  <1>2. CASE ~c.started
    <2>1. d = c
      BY <1>2 DEF Flushed
    <2>2. PICK t \in Seq(Pieces) : t = Content(c.history)
      BY ContentIsText DEF IsText, IsConverter
    <2>3. t \o <<>> = t
      BY ConcatEmptySeq
    <2> QED  BY <1>2, <2>1, <2>2, <2>3, Zenon DEF Resting, Written
  <1> QED  BY <1>1, <1>2 DEF IsConverter

(* A delta applied by a converter and by a builder: the text is the same,  *)
(* and so is the message but for reasoning that is empty.                  *)
LEMMA MessageStep ==
    ASSUME NEW m, IsMessage(m), NEW e \in Events, NEW n, n = Applied(m, e)
    PROVE  /\ IsMessage(n) /\ n.content = m.content \o Piece(e.content)
           /\ AsBuilt(n) = Built(AsBuilt(m), e)
  <1>1. PICK k : k = AsBuilt(m)
    OBVIOUS
  <1>2. PICK given, thought : /\ given = Given(Reasoning(e))
                             /\ thought = Piece(Reasoning(e))
    OBVIOUS
  <1>3. PICK h : h = (m.hasReasoning \/ given)
    OBVIOUS
  <1>4. PICK z : z = (m.hasContent \/ Given(e.content))
    OBVIOUS
  <1>5. PICK calls : calls = IF e.call = NoCall THEN m.calls ELSE WithCall(m, e.call)
    OBVIOUS
  <1>6. PICK y, r : y = m.content \o Piece(e.content) /\ r = m.reasoning \o thought
    OBVIOUS
  <1>7. n = [content |-> y, hasContent |-> z, reasoning |-> r, hasReasoning |-> h,
             calls |-> calls]
    BY <1>2, <1>3, <1>4, <1>5, <1>6, Zenon DEF Applied
  <1>8. thought \in Seq(Thoughts) /\ y \in Seq(Pieces) /\ r \in Seq(Thoughts)
    <2>1. e.content \in Pieces /\ Reasoning(e) \in Thoughts
      BY DEF Pieces, Thoughts
    <2>2. thought \in Seq(Thoughts) /\ Piece(e.content) \in Seq(Pieces)
      BY <1>2, <2>1 DEF Piece
    <2>3. m.content \in Seq(Pieces) /\ m.reasoning \in Seq(Thoughts)
      BY Zenon DEF IsMessage, IsText
    <2> QED  BY <1>6, <2>2, <2>3
  <1>9. IsMessage(n) /\ n.content = m.content \o Piece(e.content)
    BY <1>6, <1>7, <1>8 DEF IsMessage, IsText
  <1>10. PICK had, has : had = (m.reasoning # <<>>) /\ has = (r # <<>>)
    OBVIOUS
  <1>11. has = (had \/ thought # <<>>)
    <2>1. r # <<>> <=> m.reasoning # <<>> \/ thought # <<>>
      BY <1>6, <1>8 DEF IsMessage
    <2> QED  BY <1>10, <2>1, Zenon
  <1>12. k = [content |-> m.content, hasContent |-> m.hasContent,
              reasoning |-> m.reasoning, hasReasoning |-> had, calls |-> m.calls]
    <2>1. k = [m EXCEPT !.hasReasoning = had]
      BY <1>1, <1>10, Zenon DEF AsBuilt
    <2> QED  BY <2>1 DEF IsMessage
  <1>13. AsBuilt(n) = [content |-> y, hasContent |-> z, reasoning |-> r,
                       hasReasoning |-> has, calls |-> calls]
    <2>1. n.reasoning = r
      BY <1>7
    <2>2. AsBuilt(n) = [n EXCEPT !.hasReasoning = has]
      BY <1>10, <2>1, Zenon DEF AsBuilt
    <2> QED  BY <1>7, <2>2
  <1>14. /\ k.content = m.content /\ k.hasContent = m.hasContent
         /\ k.reasoning = m.reasoning /\ k.hasReasoning = had /\ k.calls = m.calls
    BY <1>12
  <1>15. calls = IF e.call = NoCall THEN k.calls ELSE WithCall(k, e.call)
    <2>1. \A i : CallAt(k, i) = CallAt(m, i)
      BY <1>14, Zenon DEF CallAt
    <2>2. WithCall(k, e.call) = WithCall(m, e.call)
      BY <1>14, <2>1, Zenon DEF WithCall
    <2> QED  BY <1>5, <1>14, <2>2, Zenon
  <1>16. PICK g : g = (k.hasReasoning \/ given)
    OBVIOUS
  <1>17. Applied(k, e) = [content |-> y, hasContent |-> z, reasoning |-> r,
                          hasReasoning |-> g, calls |-> calls]
    BY <1>2, <1>4, <1>6, <1>14, <1>15, <1>16, Zenon DEF Applied
  <1>18. Built(k, e) = [Applied(k, e) EXCEPT !.hasReasoning = has]
    BY <1>2, <1>11, <1>14, Zenon DEF Built
  <1>19. Built(k, e) = [content |-> y, hasContent |-> z, reasoning |-> r,
                        hasReasoning |-> has, calls |-> calls]
    BY <1>17, <1>18
  <1> QED  BY <1>1, <1>9, <1>13, <1>19, Zenon

LEMMA AsBuiltKeeps ==
    ASSUME NEW m, IsMessage(m), NEW n, n = AsBuilt(m)
    PROVE  (Complete(n) <=> Complete(m)) /\ n.content = m.content
  <1>1. PICK r : r = (m.reasoning # <<>>)
    OBVIOUS
  <1>2. n = [m EXCEPT !.hasReasoning = r]
    BY <1>1, Zenon DEF AsBuilt
  <1>3. n.calls = m.calls /\ n.content = m.content
    BY <1>2 DEF IsMessage
  <1> QED  BY <1>3, Zenon DEF Complete

(* One more message, as built, is one more of the messages as built.       *)
LEMMA AllAppend ==
    ASSUME NEW h, IsHistory(h), NEW m, NEW k, k = Append(h, m)
    PROVE  AllAsBuilt(k) = Append(AllAsBuilt(h), AsBuilt(m))
  <1>1. PICK M : h \in Seq(M)
    BY DEF IsHistory
  <1>2. PICK N : N = M \cup {m}
    OBVIOUS
  <1>3. h \in Seq(N) /\ m \in N
    BY <1>1, <1>2
  <1>4. Longer(h, k, m)
    BY <1>3, AppendIsLonger
  <1>5. PICK q, r, x : q = AllAsBuilt(h) /\ r = AllAsBuilt(k) /\ x = AsBuilt(m)
    OBVIOUS
  <1>6. PICK S : S = {AsBuilt(n) : n \in N}
    OBVIOUS
  <1>7. /\ Len(h) \in Nat /\ Len(k) = Len(h) + 1
        /\ DOMAIN h = 1 .. Len(h) /\ DOMAIN k = 1 .. Len(h) + 1
        /\ k[Len(h) + 1] = m /\ \A i \in 1 .. Len(h) : h[i] = k[i]
    BY <1>4 DEF Longer, AgreeTo
  <1>8. \A i \in 1 .. Len(h) : h[i] \in N
    BY <1>3
  <1>9. q = [i \in 1 .. Len(h) |-> AsBuilt(h[i])]
    BY <1>5, <1>7, Zenon DEF AllAsBuilt
  <1>10. \A i \in 1 .. Len(h) : AsBuilt(h[i]) \in S
    BY <1>6, <1>8, Zenon
  <1>11. q \in [1 .. Len(h) -> S]
    BY <1>9, <1>10, Zenon
  <1>12. q \in Seq(S) /\ Len(q) = Len(h) /\ x \in S
    <2>1. q \in Seq(S) /\ Len(q) = Len(h)
      BY <1>7, <1>11
    <2>2. x \in S
      BY <1>3, <1>5, <1>6, Zenon
    <2> QED  BY <2>1, <2>2
  <1>13. r = [i \in 1 .. Len(h) + 1 |-> AsBuilt(k[i])]
    BY <1>5, <1>7, Zenon DEF AllAsBuilt
  <1>14. \A i \in 1 .. Len(h) : q[i] = r[i]
    <2> TAKE i \in 1 .. Len(h)
    <2>1. i \in 1 .. Len(h) + 1
      BY <1>7
    <2>2. q[i] = AsBuilt(h[i]) /\ r[i] = AsBuilt(k[i])
      BY <1>9, <1>13, <2>1, Zenon
    <2> QED  BY <1>7, <2>2, Zenon
  <1>15. r[Len(h) + 1] = x
    <2>1. Len(h) + 1 \in 1 .. Len(h) + 1
      BY <1>7
    <2> QED  BY <1>5, <1>7, <1>13, <2>1, Zenon
  <1>16. DOMAIN r = 1 .. Len(h) + 1 /\ r = [i \in 1 .. Len(h) + 1 |-> r[i]]
    BY <1>13, Zenon
  <1>17. IsFunctionTo(r, Len(q) + 1) /\ r[Len(q) + 1] = x /\ AgreeTo(q, r, Len(q))
    BY <1>12, <1>14, <1>15, <1>16, Zenon DEF IsFunctionTo, AgreeTo
  <1>18. r = Append(q, x)
    BY <1>12, <1>17, MappedAppend
  <1> QED  BY <1>5, <1>18, Zenon

LEMMA AllOfNone == ASSUME NEW h, h = <<>> PROVE AllAsBuilt(h) = h
  BY DEF AllAsBuilt

(* A delta writes its piece.                                               *)
LEMMA AppliedStep ==
    ASSUME NEW c, IsConverter(c), NEW e \in Events, NEW d,
           d = [c EXCEPT !.current = Applied(@, e)]
    PROVE  /\ IsConverter(d) /\ Written(d) = Written(c) \o Piece(e.content)
           /\ d.current = Applied(c.current, e) /\ d.history = c.history
           /\ d.started = c.started /\ d.failed = c.failed /\ d.id = c.id
           /\ d.provider = c.provider
  <1>1. /\ d = [history |-> d.history, current |-> d.current, started |-> d.started,
                id |-> d.id, provider |-> d.provider, failed |-> d.failed]
        /\ d.current = Applied(c.current, e) /\ d.history = c.history
        /\ d.started = c.started /\ d.failed = c.failed /\ d.id = c.id
        /\ d.provider = c.provider
    BY DEF IsConverter
  <1>2. IsMessage(d.current) /\ d.current.content = c.current.content \o Piece(e.content)
    <2>1. IsMessage(c.current)
      BY DEF IsConverter
    <2>2. PICK m, n : m = c.current /\ n = d.current
      OBVIOUS
    <2>3. n = Applied(m, e) /\ IsMessage(m)
      BY <1>1, <2>1, <2>2, Zenon
    <2>4. IsMessage(n) /\ n.content = m.content \o Piece(e.content)
      BY <2>3, MessageStep
    <2> QED  BY <2>2, <2>4, Zenon
  <1>3. PICK x \in Seq(Pieces), y \in Seq(Pieces), z \in Seq(Pieces) :
            x = Content(c.history) /\ y = c.current.content /\ z = Piece(e.content)
    <2>1. e.content \in Pieces
      BY DEF Pieces
    <2>2. Piece(e.content) \in Seq(Pieces)
      BY <2>1 DEF Piece
    <2> QED  BY <2>2, ContentIsText DEF IsText, IsConverter, IsMessage
  <1>4. x \o (y \o z) = (x \o y) \o z
    OBVIOUS
  <1>5. IsConverter(d)
    BY <1>1, <1>2, Zenon DEF IsConverter
  <1>6. Written(d) = Written(c) \o Piece(e.content)
    BY <1>1, <1>2, <1>3, <1>4, Zenon DEF Written
  <1> QED  BY <1>1, <1>5, <1>6

(* An event writes its words, or the conversion fails.                     *)
LEMMA ProjectStep ==
    ASSUME NEW c, IsConverter(c), Resting(c), NEW e \in Events, NEW d, d = Project(c, e)
    PROVE  /\ IsConverter(d) /\ Resting(d)
           /\ ~d.failed => ~c.failed /\ Written(d) = Written(c) \o Words(e)
  <1> DEFINE split == /\ e.id # Nothing /\ c.id # Nothing
                      /\ e.id # c.id
  <1>1. CASE c.failed \/ e.kind \in {"skipped", "no_object"}
    <2>1. d = c
      BY <1>1 DEF Project
    <2>2. PICK t \in Seq(Pieces) : t = Written(c)
      <3>1. PICK x \in Seq(Pieces), y \in Seq(Pieces) :
                x = Content(c.history) /\ y = c.current.content
        BY ContentIsText DEF IsText, IsConverter, IsMessage
      <3>2. x \o y \in Seq(Pieces)
        OBVIOUS
      <3> QED  BY <3>1, <3>2, Zenon DEF Written
    <2>3. t \o <<>> = t
      BY ConcatEmptySeq
    <2> QED  BY <1>1, <2>1, <2>2, <2>3, Zenon DEF Words
  <1>2. CASE ~(c.failed \/ e.kind \in {"skipped", "no_object"}) /\ Refused(e)
    <2>1. d = [c EXCEPT !.failed = TRUE]
      BY <1>2 DEF Project
    <2>2. /\ d = [history |-> d.history, current |-> d.current, started |-> d.started,
                  id |-> d.id, provider |-> d.provider, failed |-> d.failed]
          /\ d.history = c.history /\ d.current = c.current /\ d.started = c.started
          /\ d.failed = TRUE
      BY <2>1 DEF IsConverter
    <2> QED  BY <2>2, Zenon DEF IsConverter, Resting
  <1>3. CASE ~(c.failed \/ e.kind \in {"skipped", "no_object"}) /\ ~Refused(e)
    <2>1. PICK b : b = IF split THEN Flushed(c) ELSE c
      OBVIOUS
    <2>2. /\ IsConverter(b)
          /\ ~b.failed => Written(b) = Written(c)
      BY <2>1, FlushedStep, Zenon
    <2>3. PICK o : o = IF b.started THEN b ELSE [b EXCEPT !.started = TRUE, !.id = e.id]
      OBVIOUS
    <2>4. /\ o = [history |-> o.history, current |-> o.current, started |-> o.started,
                  id |-> o.id, provider |-> o.provider, failed |-> o.failed]
          /\ o.history = b.history /\ o.current = b.current /\ o.started = TRUE
          /\ o.failed = b.failed
      <3>1. CASE b.started
        BY <2>2, <2>3, <3>1, Zenon DEF IsConverter
      <3>2. CASE ~b.started
        BY <2>2, <2>3, <3>2 DEF IsConverter
      <3> QED  BY <3>1, <3>2
    <2>5. IsConverter(o) /\ Written(o) = Written(b)
      <3>1. IsConverter(o)
        BY <2>2, <2>4, Zenon DEF IsConverter
      <3>2. Written(o) = Written(b)
        BY <2>4, Zenon DEF Written
      <3> QED  BY <3>1, <3>2
    <2>6. PICK a : a = [o EXCEPT !.current = Applied(@, e)]
      OBVIOUS
    <2>7. /\ IsConverter(a) /\ Written(a) = Written(o) \o Piece(e.content)
          /\ a.started = o.started /\ a.failed = o.failed
      BY <2>5, <2>6, AppliedStep
    <2>8. PICK f : f = Finished(a)
      OBVIOUS
    <2>9. /\ IsConverter(f)
          /\ ~f.failed => ~a.failed /\ Written(f) = Written(a) /\ f.current.content = <<>>
      BY <2>7, <2>8, FinishedStep
    <2>10. d = IF b.failed THEN b ELSE IF e.finish THEN f ELSE a
      BY <1>3, <2>1, <2>3, <2>6, <2>8 DEF Project
    <2>11. Words(e) = Piece(e.content)
      BY <1>3 DEF Words
    <2>12. CASE b.failed
      BY <2>2, <2>10, <2>12, Zenon DEF Resting
    <2>13. CASE ~b.failed /\ e.finish
      BY <1>3, <2>2, <2>5, <2>7, <2>9, <2>10, <2>11, <2>13, Zenon DEF Resting
    <2>14. CASE ~b.failed /\ ~e.finish
      BY <1>3, <2>2, <2>4, <2>5, <2>7, <2>10, <2>11, <2>14, Zenon DEF Resting
    <2> QED  BY <2>12, <2>13, <2>14
  <1> QED  BY <1>1, <1>2, <1>3

(* What a step of the conversion writes.                                   *)
LEMMA InSegmentStep ==
    ASSUME NEW c, IsConverter(c), Resting(c), NEW e \in Events, NEW d, d = InSegment(c, e)
    PROVE  /\ IsConverter(d) /\ Resting(d)
           /\ ~d.failed => ~c.failed /\ Written(d) = Written(c) \o Words(e)
  <1>1. PICK f : f = Flushed(c)
    OBVIOUS
  <1>2. IsConverter(f) /\ Resting(f) /\ (~f.failed => ~c.failed /\ Written(f) = Written(c))
    BY <1>1, FlushedStep
  <1>3. PICK b : b = IF e.provider = c.provider THEN c
                     ELSE [f EXCEPT !.provider = e.provider]
    OBVIOUS
  <1>4. IsConverter(b) /\ Resting(b) /\ (~b.failed => ~c.failed /\ Written(b) = Written(c))
    <2>1. CASE e.provider = c.provider
      BY <1>3, <2>1, Zenon
    <2>2. CASE e.provider # c.provider
      <3>1. /\ b = [history |-> b.history, current |-> b.current, started |-> b.started,
                    id |-> b.id, provider |-> b.provider, failed |-> b.failed]
            /\ b.history = f.history /\ b.current = f.current /\ b.started = f.started
            /\ b.failed = f.failed
        BY <1>2, <1>3, <2>2 DEF IsConverter
      <3> QED  BY <1>2, <3>1, Zenon DEF IsConverter, Resting, Written
    <2> QED  BY <2>1, <2>2
  <1>5. d = Project(b, e)
    BY <1>1, <1>3, Zenon DEF InSegment
  <1> QED  BY <1>4, <1>5, ProjectStep, Zenon

-----------------------------------------------------------------------------
(* A ResponseBuilder beside the converter of the same events.              *)

IsBuilder(l) ==
    /\ l = [message |-> l.message, started |-> l.started, failed |-> l.failed,
            id |-> l.id, provider |-> l.provider, ended |-> l.ended,
            regular |-> l.regular]
    /\ l.started \in BOOLEAN /\ l.failed \in BOOLEAN
    /\ l.ended \in BOOLEAN /\ l.regular \in BOOLEAN
    /\ IsText(l.message.content)

Paired(c, l, a) ==
    /\ ~c.failed
    /\ l.provider # Nothing => c.provider = l.provider
    /\ c.started => l.provider # Nothing
    /\ ~c.started => c.current = NoMessage /\ c.id = Nothing
    /\ l.ended => /\ l.started /\ Complete(l.message)
                  /\ ~c.started /\ AllAsBuilt(c.history) = Append(a, l.message)
    /\ ~l.ended => /\ AllAsBuilt(c.history) = a
                   /\ c.started = l.started /\ AsBuilt(c.current) = l.message
                   /\ l.started => c.id = l.id

Alike(c, l, a) ==
    /\ ~l.failed /\ ~l.started => l.message = NoMessage
    /\ ~l.failed /\ l.regular => Paired(c, l, a)
    /\ ~l.failed /\ ~c.failed => Written(c) = Content(a) \o l.message.content

(* The events, by HistoryAssumption.                                       *)
LEMMA EventFacts ==
    ASSUME NEW e \in Events
    PROVE  /\ e.kind \in {"delta", "skipped", "no_object", "wrong", "empty"}
           /\ e.finish \in BOOLEAN
           /\ e.finish => e.kind = "delta"
           /\ e.provider # Nothing /\ IsText(Piece(e.content))
  <1>1. PICK s \in ChatSessions : e \in Streams[s]
    BY DEF Events
  <1>2. e.content \in Pieces
    BY DEF Pieces
  <1>3. IsText(Piece(e.content))
    BY <1>2 DEF Piece, IsText
  <1> QED  BY <1>1, <1>3, HistoryAssumption, Zenon

LEMMA BuiltText ==
    ASSUME NEW m, IsText(m.content), NEW e \in Events, NEW n, n = Built(m, e)
    PROVE  IsText(n.content) /\ n.content = m.content \o Piece(e.content)
  <1>1. PICK h : h = (m.hasReasoning \/ Piece(Reasoning(e)) # <<>>)
    OBVIOUS
  <1>2. n = [Applied(m, e) EXCEPT !.hasReasoning = h]
    BY <1>1, Zenon DEF Built
  <1>3. n.content = m.content \o Piece(e.content)
    BY <1>2 DEF Applied
  <1>4. m.content \o Piece(e.content) \in Seq(Pieces)
    BY EventFacts DEF IsText
  <1> QED  BY <1>3, <1>4, Zenon DEF IsText

(* What an event does to the message of a builder that does not fail.      *)
Grown(n, l, e) ==
    /\ ~n.failed => ~l.failed
    /\ ~n.failed =>
          \/ e.kind \in {"skipped", "empty"} /\ n.message = l.message /\ n.started = l.started
          \/ e.kind = "delta" /\ n.message = Built(l.message, e) /\ n.started = TRUE

LEMMA TakenStep ==
    ASSUME NEW l, IsBuilder(l), NEW e \in Events, NEW n, n = Taken(l, e)
    PROVE  /\ IsBuilder(n) /\ Grown(n, l, e)
           /\ n.regular = Regular(l, e) /\ n.provider = e.provider
           /\ n.id = IF e.kind = "delta" THEN e.id ELSE l.id
           /\ n.ended = (l.ended \/ e.finish)
  <1>1. PICK p : p = Appended(l, e)
    OBVIOUS
  <1>2. PICK refused : refused = (\/ e.kind \in {"wrong", "no_object"}
                                  \/ /\ e.call # NoCall /\ e.call.arguments = "object"
                                     /\ CallAt(l.message, e.call.index).arguments # <<>>)
    OBVIOUS
  <1>3. p = IF e.kind \in {"skipped", "empty"} THEN l
            ELSE IF refused THEN [l EXCEPT !.failed = TRUE]
            ELSE [l EXCEPT !.message = Built(@, e), !.started = TRUE]
    BY <1>1, <1>2, Zenon DEF Appended
  <1>4. /\ p = [message |-> p.message, started |-> p.started, failed |-> p.failed,
                id |-> p.id, provider |-> p.provider, ended |-> p.ended,
                regular |-> p.regular]
        /\ p.id = l.id /\ p.ended = l.ended
        /\ \/ /\ e.kind \in {"skipped", "empty"}
              /\ p.message = l.message /\ p.started = l.started /\ p.failed = l.failed
           \/ /\ refused
              /\ p.message = l.message /\ p.started = l.started /\ p.failed = TRUE
           \/ /\ e.kind = "delta"
              /\ p.message = Built(l.message, e) /\ p.started = TRUE
              /\ p.failed = l.failed
    <2>1. CASE e.kind \in {"skipped", "empty"}
      <3>1. p = l
        BY <1>3, <2>1, Zenon
      <3> QED  BY <2>1, <3>1, Zenon DEF IsBuilder
    <2>2. CASE e.kind \notin {"skipped", "empty"} /\ refused
      <3>1. p = [l EXCEPT !.failed = TRUE]
        BY <1>3, <2>2, Zenon
      <3> QED  BY <2>2, <3>1 DEF IsBuilder
    <2>3. CASE e.kind \notin {"skipped", "empty"} /\ ~refused
      <3>1. p = [l EXCEPT !.message = Built(@, e), !.started = TRUE]
        BY <1>3, <2>3, Zenon
      <3>2. e.kind = "delta"
        BY <1>2, <2>3, EventFacts
      <3> QED  BY <3>1, <3>2 DEF IsBuilder
    <2> QED  BY <2>1, <2>2, <2>3
  <1>5. /\ n = [message |-> n.message, started |-> n.started, failed |-> n.failed,
                id |-> n.id, provider |-> n.provider, ended |-> n.ended,
                regular |-> n.regular]
        /\ n.message = p.message /\ n.started = p.started /\ n.failed = p.failed
        /\ n.regular = Regular(l, e) /\ n.provider = e.provider
        /\ n.id = IF e.kind = "delta" THEN e.id ELSE l.id
        /\ n.ended = (l.ended \/ e.finish)
    <2>1. n = [p EXCEPT !.regular = Regular(l, e), !.provider = e.provider,
                        !.id = IF e.kind = "delta" THEN e.id ELSE l.id,
                        !.ended = l.ended \/ e.finish]
      BY <1>1, Zenon DEF Taken
    <2>2. PICK r, i, f : /\ r = Regular(l, e)
                         /\ i = IF e.kind = "delta" THEN e.id ELSE l.id
                         /\ f = (l.ended \/ e.finish)
      OBVIOUS
    <2>3. n = [p EXCEPT !.regular = r, !.provider = e.provider, !.id = i, !.ended = f]
      BY <1>4, <2>1, <2>2, Zenon
    <2>4. /\ n = [message |-> n.message, started |-> n.started, failed |-> n.failed,
                  id |-> n.id, provider |-> n.provider, ended |-> n.ended,
                  regular |-> n.regular]
          /\ n.message = p.message /\ n.started = p.started /\ n.failed = p.failed
          /\ n.regular = r /\ n.provider = e.provider /\ n.id = i /\ n.ended = f
      BY <1>4, <2>3
    <2> QED  BY <2>2, <2>4, Zenon
  <1>6. Regular(l, e) \in BOOLEAN /\ (l.ended \/ e.finish) \in BOOLEAN
    BY DEF Regular
  <1>7. IsText(n.message.content)
    BY <1>4, <1>5, BuiltText, ZenonT(60) DEF IsBuilder
  <1>8. n.started \in BOOLEAN /\ n.failed \in BOOLEAN
    BY <1>4, <1>5, Zenon DEF IsBuilder
  <1>9. IsBuilder(n)
    BY <1>5, <1>6, <1>7, <1>8, Zenon DEF IsBuilder
  <1>10. refused => e.kind \in {"wrong", "no_object"} \/ Refused(e)
    BY <1>2 DEF Refused
  <1>11. Grown(n, l, e)
    BY <1>4, <1>5, <1>10, EventFacts DEF Grown, Refused
  <1> QED  BY <1>5, <1>9, <1>11

(* While the responses are regular, the converter and the builder stay     *)
(* together.                                                               *)
LEMMA PairedStep ==
    ASSUME NEW l, IsBuilder(l), NEW c, IsConverter(c), NEW a, NEW e \in Events,
           Paired(c, l, a), Regular(l, e),
           NEW n, n = Taken(l, e), ~n.failed, NEW d, d = InSegment(c, e)
    PROVE  Paired(d, n, a)
  <1>1. /\ l.regular /\ ~Refused(e) /\ l.provider \in {Nothing, e.provider}
        /\ e.kind = "delta" => ~l.ended /\ (l.id = e.id \/ ~l.started)
        /\ e.finish => Complete(Built(l.message, e))
    BY DEF Regular
  <1>2. /\ IsBuilder(n) /\ Grown(n, l, e) /\ n.provider = e.provider
        /\ n.id = IF e.kind = "delta" THEN e.id ELSE l.id
        /\ n.ended = (l.ended \/ e.finish)
    BY TakenStep
  <1>3. PICK b : b = IF e.provider = c.provider THEN c
                     ELSE [Flushed(c) EXCEPT !.provider = e.provider]
    OBVIOUS
  <1>4. d = Project(b, e)
    BY <1>3, Zenon DEF InSegment
  <1>5. /\ IsConverter(b) /\ b.provider = e.provider
        /\ b.history = c.history /\ b.current = c.current /\ b.started = c.started
        /\ b.id = c.id /\ b.failed = FALSE
    <2>1. CASE e.provider = c.provider
      BY <1>3, <2>1, Zenon DEF IsConverter, Paired
    <2>2. CASE e.provider # c.provider
      <3>1. ~c.started
        BY <1>1, <2>2, Zenon DEF Paired
      <3>2. b = [c EXCEPT !.provider = e.provider]
        BY <1>3, <2>2, <3>1, Zenon DEF Flushed
      <3>3. /\ b = [history |-> b.history, current |-> b.current, started |-> b.started,
                    id |-> b.id, provider |-> b.provider, failed |-> b.failed]
            /\ b.provider = e.provider
            /\ b.history = c.history /\ b.current = c.current /\ b.started = c.started
            /\ b.id = c.id /\ b.failed = c.failed
        BY <3>2 DEF IsConverter
      <3> QED  BY <3>3, Zenon DEF IsConverter, Paired
    <2> QED  BY <2>1, <2>2
  <1>6. e.kind \in {"delta", "skipped"} /\ e.provider # Nothing
    <2>1. e.kind # "no_object"
      BY <1>2 DEF Grown
    <2> QED  BY <1>1, <2>1, EventFacts DEF Refused
  <1>7. CASE e.kind = "skipped"
    <2>1. d = b
      BY <1>4, <1>7 DEF Project
    <2>2. ~e.finish
      BY <1>7, EventFacts
    <2>3. n.message = l.message /\ n.started = l.started /\ n.id = l.id /\ n.ended = l.ended
      BY <1>2, <1>7, <2>2 DEF Grown, IsBuilder
    <2> QED  BY <1>2, <1>5, <1>6, <2>1, <2>3, Zenon DEF Paired
  <1>8. CASE e.kind = "delta"
    <2>1. /\ ~l.ended /\ AllAsBuilt(b.history) = a
          /\ b.started = l.started /\ AsBuilt(b.current) = l.message
          /\ l.started => b.id = e.id
          /\ ~b.started => b.id = Nothing
      BY <1>1, <1>5, <1>8, Zenon DEF Paired
    <2>2. /\ n.message = Built(l.message, e) /\ n.started = TRUE
          /\ n.id = e.id /\ n.ended = e.finish
      <3>1. n.message = Built(l.message, e) /\ n.started = TRUE /\ n.id = e.id
        <4>1. n.id = e.id
          BY <1>2, <1>8
        <4>2. e.kind \notin {"skipped", "empty"}
          BY <1>8
        <4> QED  BY <1>2, <4>1, <4>2, Zenon DEF Grown
      <3>2. e.finish \in BOOLEAN
        BY EventFacts
      <3>3. n.ended = e.finish
        <4>1. l.ended = FALSE
          BY <2>1, Zenon DEF IsBuilder
        <4>2. n.ended = (FALSE \/ e.finish)
          BY <1>2, <4>1, Zenon
        <4>3. (FALSE \/ e.finish) = e.finish
          BY <3>2, Zenon
        <4> QED  BY <4>2, <4>3, Zenon
      <3> QED  BY <3>1, <3>3
    <2>3. ~(e.id # Nothing /\ b.id # Nothing /\ e.id # b.id)
      BY <2>1, Zenon
    <2>4. PICK o : o = IF b.started THEN b ELSE [b EXCEPT !.started = TRUE, !.id = e.id]
      OBVIOUS
    <2>5. PICK p : p = [o EXCEPT !.current = Applied(@, e)]
      OBVIOUS
    <2>6. d = IF e.finish THEN Finished(p) ELSE p
      BY <1>1, <1>4, <1>5, <1>8, <2>3, <2>4, <2>5 DEF Project
    <2>7. /\ o = [history |-> o.history, current |-> o.current, started |-> o.started,
                  id |-> o.id, provider |-> o.provider, failed |-> o.failed]
          /\ o.history = b.history /\ o.current = b.current /\ o.started = TRUE
          /\ o.failed = b.failed /\ o.id = e.id /\ o.provider = b.provider
      <3>1. CASE b.started
        BY <1>5, <2>1, <2>4, <3>1, Zenon DEF IsConverter
      <3>2. CASE ~b.started
        BY <1>5, <2>4, <3>2 DEF IsConverter
      <3> QED  BY <3>1, <3>2
    <2>8. IsConverter(o)
      BY <1>5, <2>7, Zenon DEF IsConverter
    <2>9. /\ IsConverter(p)
          /\ AsBuilt(p.current) = n.message /\ AllAsBuilt(p.history) = a
          /\ p.started = TRUE /\ p.failed = FALSE /\ p.id = e.id
          /\ p.provider = e.provider
      <3>1. /\ IsConverter(p) /\ p.current = Applied(o.current, e)
            /\ p.history = o.history /\ p.started = o.started
            /\ p.failed = o.failed /\ p.id = o.id /\ p.provider = o.provider
        BY <2>5, <2>8, AppliedStep
      <3>2. IsMessage(o.current)
        BY <2>8 DEF IsConverter
      <3>3. AsBuilt(p.current) = Built(AsBuilt(o.current), e)
        BY <3>1, <3>2, MessageStep
      <3> QED  BY <1>5, <2>1, <2>2, <2>7, <3>1, <3>3, Zenon
    <2>10. CASE ~e.finish
      <3>1. d = p /\ ~n.ended
        BY <2>2, <2>6, <2>10, Zenon
      <3> QED  BY <1>2, <1>6, <2>2, <2>9, <3>1, Zenon DEF Paired
    <2>11. CASE e.finish
      <3>1. d = Finished(p) /\ n.ended /\ Complete(n.message)
        BY <1>1, <2>2, <2>6, <2>11, Zenon
      <3>2. IsMessage(p.current) /\ IsHistory(p.history)
        BY <2>9 DEF IsConverter
      <3>3. Complete(p.current)
        BY <2>9, <3>1, <3>2, AsBuiltKeeps
      <3>4. /\ ~d.failed /\ d.provider = e.provider
            /\ d.history = Append(p.history, p.current)
            /\ d.current = NoMessage /\ ~d.started /\ d.id = Nothing
        BY <2>9, <3>1, <3>3, FinishedStep
      <3>5. AllAsBuilt(d.history) = Append(a, n.message)
        <4>1. PICK h, m, k : h = p.history /\ m = p.current /\ k = d.history
          OBVIOUS
        <4>2. IsHistory(h) /\ k = Append(h, m)
          BY <3>2, <3>4, <4>1, Zenon
        <4>3. AllAsBuilt(k) = Append(AllAsBuilt(h), AsBuilt(m))
          BY <4>2, AllAppend
        <4> QED  BY <2>9, <4>1, <4>3, Zenon
      <3> QED  BY <1>2, <1>6, <2>2, <3>1, <3>4, <3>5, Zenon DEF Paired
    <2> QED  BY <2>10, <2>11
  <1> QED  BY <1>6, <1>7, <1>8

(* An event of the kind "empty" fails the conversion.                      *)
LEMMA EmptyRefused ==
    ASSUME NEW c, IsConverter(c), Resting(c), NEW e \in Events, e.kind = "empty",
           NEW d, d = InSegment(c, e)
    PROVE  d.failed
  <1>1. PICK b : /\ b = IF e.provider = c.provider THEN c
                        ELSE [Flushed(c) EXCEPT !.provider = e.provider]
                 /\ d = Project(b, e)
    BY Zenon DEF InSegment
  <1>2. PICK f : f = Flushed(c) /\ IsConverter(f)
    BY FlushedStep
  <1>3. b.failed \/ d = [b EXCEPT !.failed = TRUE]
    BY <1>1 DEF Project, Refused
  <1>4. "failed" \in DOMAIN b
    BY <1>1, <1>2 DEF IsConverter
  <1>5. CASE b.failed
    BY <1>1, <1>5 DEF Project
  <1>6. CASE d = [b EXCEPT !.failed = TRUE]
    BY <1>4, <1>6
  <1> QED  BY <1>3, <1>5, <1>6

(* The invariant of a session, over an event that is recorded and          *)
(* streamed.                                                               *)
LEMMA AlikeStep ==
    ASSUME NEW l, IsBuilder(l), NEW c, IsConverter(c), Resting(c), NEW a, IsHistory(a),
           NEW e \in Events, Alike(c, l, a),
           NEW n, n = Taken(l, e), NEW d, d = InSegment(c, e)
    PROVE  Alike(d, n, a)
  <1>1. /\ IsBuilder(n) /\ Grown(n, l, e) /\ n.regular = Regular(l, e)
    BY TakenStep
  <1>2. ~d.failed => ~c.failed /\ Written(d) = Written(c) \o Words(e)
    BY InSegmentStep
  <1>3. ~n.failed /\ ~n.started => n.message = NoMessage
    BY <1>1, Zenon DEF Alike, Grown
  <1>4. ~n.failed /\ n.regular => Paired(d, n, a)
    <2>1. Regular(l, e) => l.regular
      BY DEF Regular
    <2>2. ~n.failed => ~l.failed
      BY <1>1 DEF Grown
    <2> QED  BY <1>1, <2>1, <2>2, PairedStep DEF Alike
  <1>5. ~n.failed /\ ~d.failed => Written(d) = Content(a) \o n.message.content
    <2> SUFFICES ASSUME ~n.failed, ~d.failed
                 PROVE  Written(d) = Content(a) \o n.message.content
      OBVIOUS
    <2>1. Written(c) = Content(a) \o l.message.content
      BY <1>1, <1>2 DEF Alike, Grown
    <2>2. PICK x \in Seq(Pieces), y \in Seq(Pieces), z \in Seq(Pieces) :
              x = Content(a) /\ y = l.message.content /\ z = Words(e)
      <3>1. Words(e) \in Seq(Pieces)
        BY EventFacts DEF Words, IsText
      <3> QED  BY <3>1, ContentIsText DEF IsText, IsBuilder
    <2>3. (x \o y) \o z = x \o (y \o z) /\ y \o <<>> = y
      BY ConcatEmptySeq
    <2>4. n.message.content = y \o z
      <3>1. CASE e.kind = "skipped"
        <4>1. n.message = l.message /\ z = <<>>
          BY <1>1, <2>2, <3>1 DEF Grown, Words
        <4> QED  BY <2>2, <2>3, <4>1, Zenon
      <3>2. CASE e.kind = "delta"
        <4>1. n.message = Built(l.message, e) /\ z = Piece(e.content)
          BY <1>1, <2>2, <3>2 DEF Grown, Words
        <4> QED  BY <2>2, <4>1, BuiltText, Zenon DEF IsBuilder
      <3>3. CASE e.kind = "empty"
        BY <3>3, EmptyRefused
      <3> QED  BY <1>1, <3>1, <3>2, <3>3 DEF Grown
    <2> QED  BY <1>2, <2>1, <2>2, <2>3, <2>4, Zenon
  <1> QED  BY <1>3, <1>4, <1>5 DEF Alike

-----------------------------------------------------------------------------
(* The rows of a session.                                                  *)

Records == [session : ChatSessions, event : Events]

Own(row, s) == IF row.session = s THEN <<row.event>> ELSE <<>>

RowsIn(q, s) == FlattenSeq([i \in DOMAIN q |-> Own(q[i], s)])

LEMMA RowsType == ASSUME NEW q \in Seq(Records), NEW s PROVE RowsIn(q, s) \in Seq(Events)
  <1>1. PICK f : f = [i \in DOMAIN q |-> Own(q[i], s)]
    OBVIOUS
  <1>2. \A row \in Records : Own(row, s) \in Seq(Events)
    BY DEF Own, Records
  <1>3. DOMAIN q = 1 .. Len(q) /\ Len(q) \in Nat /\ \A i \in 1 .. Len(q) : q[i] \in Records
    OBVIOUS
  <1>4. f \in [1 .. Len(q) -> Seq(Events)]
    BY <1>1, <1>2, <1>3, Zenon
  <1>5. f \in Seq(Seq(Events))
    BY <1>3, <1>4
  <1> QED  BY <1>1, <1>5, FlattenType DEF RowsIn

(* One more row is one more event of its session, and none of another.     *)
LEMMA RowsAppend ==
    ASSUME NEW q \in Seq(Records), NEW x \in Records, NEW r, Longer(q, r, x), NEW s
    PROVE  RowsIn(r, s) = IF x.session = s THEN Append(RowsIn(q, s), x.event)
                          ELSE RowsIn(q, s)
  <1>1. PICK f, g : /\ f = [i \in DOMAIN q |-> Own(q[i], s)]
                    /\ g = [i \in DOMAIN r |-> Own(r[i], s)]
    OBVIOUS
  <1>2. \A row \in Records : Own(row, s) \in Seq(Events)
    BY DEF Own, Records
  <1>3. PICK S : S = Seq(Events)
    OBVIOUS
  <1>4. f \in Seq(S) /\ Len(f) = Len(q)
    <2>1. DOMAIN q = 1 .. Len(q) /\ Len(q) \in Nat /\ \A i \in 1 .. Len(q) : q[i] \in Records
      OBVIOUS
    <2>2. f \in [1 .. Len(q) -> S]
      BY <1>1, <1>2, <1>3, <2>1, Zenon
    <2> QED  BY <2>1, <2>2
  <1>5. PICK y \in S : y = Own(x, s)
    BY <1>2, <1>3
  <1>6. g = Append(f, y)
    <2>1. IsFunctionTo(g, Len(q) + 1) /\ g[Len(q) + 1] = y
      BY <1>1, <1>5 DEF Longer, IsFunctionTo
    <2>2. AgreeTo(f, g, Len(q))
      BY <1>1 DEF Longer, AgreeTo
    <2> QED  BY <1>4, <2>1, <2>2, MappedAppend
  <1>7. /\ FlattenSeq(f) \in Seq(Events) /\ FlattenSeq(g) = FlattenSeq(f) \o y
    BY <1>3, <1>4, <1>5, <1>6, FlattenType, FlattenAppend
  <1>8. PICK t \in Seq(Events) : t = FlattenSeq(f)
    BY <1>7
  <1>9. RowsIn(q, s) = t /\ RowsIn(r, s) = t \o y
    BY <1>1, <1>7, <1>8, Zenon DEF RowsIn
  <1>10. CASE x.session = s
    <2>1. y = <<x.event>> /\ x.event \in Events
      BY <1>5, <1>10 DEF Own, Records
    <2>2. t \o <<x.event>> = Append(t, x.event)
      BY <2>1
    <2> QED  BY <1>8, <1>9, <1>10, <2>1, <2>2, Zenon
  <1>11. CASE x.session # s
    <2>1. y = <<>> /\ t \o <<>> = t
      BY <1>5, <1>11, ConcatEmptySeq DEF Own
    <2> QED  BY <1>8, <1>9, <1>11, <2>1, Zenon
  <1> QED  BY <1>10, <1>11

LEMMA RowsEmpty == ASSUME NEW q, q = <<>>, NEW s PROVE RowsIn(q, s) = <<>>
  <1>1. PICK f : f = [i \in DOMAIN q |-> Own(q[i], s)]
    OBVIOUS
  <1>2. f = <<>>
    BY <1>1
  <1>3. FlattenSeq(f) = <<>>
    BY <1>2, FlattenEmpty
  <1> QED  BY <1>1, <1>3, Zenon DEF RowsIn

-----------------------------------------------------------------------------
(* The invariant of the sessions.                                          *)

SessionInv(s) ==
    /\ IsBuilder(live[s])
    /\ IsHistory(answers[s])
    /\ IsConverter(Fold(RowsIn(rows, s)))
    /\ Resting(Fold(RowsIn(rows, s)))
    /\ Alike(Fold(RowsIn(rows, s)), live[s], answers[s])

HistoryInv ==
    /\ rows \in Seq(Records)
    /\ live = [s \in ChatSessions |-> live[s]]
    /\ answers = [s \in ChatSessions |-> answers[s]]
    /\ \A s \in ChatSessions : SessionInv(s)

LEMMA RowsOfIs == ASSUME NEW s PROVE RowsOf(s) = RowsIn(rows, s)
  BY Zenon DEF RowsOf, RowsIn, Own

LEMMA NoResponseIs ==
    ASSUME NEW l, l = [NoResponse EXCEPT !.regular = l.regular], l.regular \in BOOLEAN
    PROVE  /\ IsBuilder(l) /\ l.message = NoMessage /\ ~l.started /\ ~l.failed
           /\ l.provider = Nothing /\ ~l.ended /\ IsText(NoMessage.content)
           /\ NoMessage.content = <<>>
  <1>1. IsText(NoMessage.content) /\ NoMessage.content = <<>>
    BY DEF NoMessage, IsText
  <1>2. /\ l = [message |-> l.message, started |-> l.started, failed |-> l.failed,
                id |-> l.id, provider |-> l.provider, ended |-> l.ended,
                regular |-> l.regular]
        /\ l.message = NoMessage /\ l.started = FALSE /\ l.failed = FALSE
        /\ l.provider = Nothing /\ l.ended = FALSE
    BY DEF NoResponse
  <1> QED  BY <1>1, <1>2, Zenon DEF IsBuilder

LEMMA HistoryInitInv == HistoryInit => HistoryInv
  <1> SUFFICES ASSUME HistoryInit PROVE HistoryInv
    OBVIOUS
  <1>1. /\ rows = <<>>
        /\ live = [s \in ChatSessions |-> NoResponse]
        /\ answers = [s \in ChatSessions |-> <<>>]
    BY DEF HistoryInit
  <1>2. ASSUME NEW s \in ChatSessions PROVE SessionInv(s)
    <2>1. PICK n : n = <<>>
      OBVIOUS
    <2>2. PICK c : c = Fold(RowsIn(rows, s))
      OBVIOUS
    <2>3. PICK l : l = live[s]
      OBVIOUS
    <2>4. c = Start
      <3>1. RowsIn(rows, s) = <<>>
        BY <1>1, RowsEmpty
      <3> QED  BY <2>2, <3>1, FoldEmpty, Zenon
    <2>5. l = NoResponse /\ answers[s] = n
      BY <1>1, <2>1, <2>3
    <2>6. l = [NoResponse EXCEPT !.regular = l.regular] /\ l.regular = TRUE
      BY <2>5 DEF NoResponse
    <2>7. /\ IsBuilder(l) /\ l.message = NoMessage /\ ~l.started /\ ~l.failed
          /\ l.provider = Nothing /\ ~l.ended /\ NoMessage.content = <<>>
      BY <2>6, NoResponseIs
    <2>8. IsHistory(n) /\ Content(n) = <<>>
      BY <2>1, ContentEmpty
    <2>9. IsConverter(c) /\ Resting(c) /\ ~c.failed /\ Written(c) = <<>>
      BY <2>4, StartIs
    <2>10. c.history = n /\ c.current = NoMessage /\ ~c.started /\ c.id = Nothing
      BY <2>1, <2>4 DEF Start
    <2>11. Paired(c, l, n)
      <3>1. c.started = l.started
        BY <2>7, <2>9, <2>10, Zenon DEF IsConverter, IsBuilder
      <3>2. AllAsBuilt(n) = n /\ AsBuilt(NoMessage) = NoMessage
        BY <2>1, AllOfNone, NoMessageIs
      <3> QED  BY <2>7, <2>9, <2>10, <3>1, <3>2, Zenon DEF Paired
    <2>12. <<>> \o <<>> = <<>>
      OBVIOUS
    <2>13. Alike(c, l, n)
      BY <2>7, <2>8, <2>9, <2>11, <2>12, Zenon DEF Alike
    <2> QED  BY <2>2, <2>3, <2>5, <2>7, <2>8, <2>9, <2>13, Zenon DEF SessionInv
  <1> QED  BY <1>1, <1>2 DEF HistoryInv

LEMMA StreamInv ==
    ASSUME HistoryInv, NEW s \in ChatSessions, NEW e \in Streams[s], Stream(s, e)
    PROVE  HistoryInv'
  <1>1. e \in Events /\ rows \in Seq(Records)
    BY DEF Events, HistoryInv
  <1>2. PICK row \in Records : /\ row.session = s /\ row.event = e
                              /\ rows' = Append(rows, row)
    <2>1. [session |-> s, event |-> e] \in Records
      BY <1>1 DEF Records
    <2> QED  BY <2>1 DEF Stream
  <1>3. PICK p, w : p = rows /\ w = rows'
    OBVIOUS
  <1>4. p \in Seq(Records) /\ w = Append(p, row) /\ w \in Seq(Records)
    BY <1>1, <1>2, <1>3
  <1>5. /\ live' = [z \in ChatSessions |-> live'[z]]
        /\ live'[s] = Taken(live[s], e)
        /\ \A z \in ChatSessions \ {s} : live'[z] = live[z]
    <2>1. PICK n : n = Taken(live[s], e)
      OBVIOUS
    <2>2. live' = [live EXCEPT ![s] = n]
      BY <2>1, Zenon DEF Stream
    <2> QED  BY <2>1, <2>2 DEF HistoryInv
  <1>6. answers' = answers
    BY DEF Stream
  <1>7. ASSUME NEW z \in ChatSessions PROVE SessionInv(z)'
    <2>1. SessionInv(z)
      BY DEF HistoryInv
    <2>2. PICK q, r : q = RowsIn(rows, z) /\ r = RowsIn(rows', z)
      OBVIOUS
    <2>3. q \in Seq(Events) /\ r = IF s = z THEN Append(q, e) ELSE q
      <3>1. RowsIn(p, z) \in Seq(Events)
        BY <1>4, RowsType
      <3>2. RowsIn(w, z) = IF row.session = z THEN Append(RowsIn(p, z), row.event)
                           ELSE RowsIn(p, z)
        <4>1. Longer(p, w, row)
          BY <1>4, AppendIsLonger
        <4> QED  BY <1>4, <4>1, RowsAppend
      <3> QED  BY <1>2, <1>3, <2>2, <3>1, <3>2, Zenon
    <2>4. CASE z = s
      <3>1. Longer(q, r, e)
        BY <1>1, <2>3, <2>4, AppendIsLonger
      <3>2. PICK c, d : c = Fold(q) /\ d = Fold(r)
        OBVIOUS
      <3>3. d = InSegment(c, e)
        BY <3>1, <3>2, FoldAppend
      <3>4. /\ IsBuilder(live[s]) /\ IsHistory(answers[s]) /\ IsConverter(c)
            /\ Resting(c) /\ Alike(c, live[s], answers[s])
        BY <2>1, <2>2, <2>4, <3>2, Zenon DEF SessionInv
      <3>5. PICK l, n, a : l = live[s] /\ n = live'[s] /\ a = answers[s]
        OBVIOUS
      <3>6. n = Taken(l, e)
        BY <1>5, <3>5
      <3>7. IsConverter(d) /\ Resting(d)
        BY <1>1, <3>3, <3>4, InSegmentStep
      <3>8. IsBuilder(n)
        BY <1>1, <3>4, <3>5, <3>6, TakenStep
      <3>9. Alike(d, n, a)
        BY <1>1, <3>3, <3>4, <3>5, <3>6, AlikeStep
      <3> QED  BY <1>6, <2>2, <2>4, <3>2, <3>4, <3>5, <3>7, <3>8, <3>9, Zenon DEF SessionInv
    <2>5. CASE z # s
      <3>1. live'[z] = live[z] /\ r = q
        BY <1>5, <2>3, <2>5
      <3> QED  BY <1>6, <2>1, <2>2, <3>1, Zenon DEF SessionInv
    <2> QED  BY <2>4, <2>5
  <1> QED  BY <1>3, <1>4, <1>5, <1>6, <1>7, Zenon DEF HistoryInv

LEMMA RespondedInv ==
    ASSUME HistoryInv, NEW s \in ChatSessions, Responded(s)
    PROVE  HistoryInv'
  <1>1. rows' = rows /\ ~live[s].failed
    BY DEF Responded
  <1>2. SessionInv(s)
    BY DEF HistoryInv
  <1>3. PICK c, l, a : c = Fold(RowsIn(rows, s)) /\ l = live[s] /\ a = answers[s]
    OBVIOUS
  <1>4. IsBuilder(l) /\ IsHistory(a) /\ IsConverter(c) /\ Resting(c) /\ Alike(c, l, a)
    BY <1>2, <1>3, Zenon DEF SessionInv
  <1>5. CASE l.started
    <2>1. PICK k, n : k = Append(a, l.message)
                      /\ n = [NoResponse EXCEPT !.regular = l.regular /\ l.ended]
      OBVIOUS
    <2>2. live' = [live EXCEPT ![s] = n] /\ answers' = [answers EXCEPT ![s] = k]
      BY <1>3, <1>5, <2>1, Zenon DEF Responded
    <2>3. n.regular = (l.regular /\ l.ended) /\ n.regular \in BOOLEAN
      <3>1. PICK b : b = (l.regular /\ l.ended)
        OBVIOUS
      <3>2. n = [NoResponse EXCEPT !.regular = b]
        BY <2>1, <3>1, Zenon
      <3>3. n.regular = b
        BY <3>2 DEF NoResponse
      <3> QED  BY <3>1, <3>3, Zenon
    <2>4. n = [NoResponse EXCEPT !.regular = n.regular]
      BY <2>1, <2>3, Zenon
    <2>5. /\ IsBuilder(n) /\ n.message = NoMessage /\ ~n.started /\ ~n.failed
          /\ n.provider = Nothing /\ ~n.ended /\ NoMessage.content = <<>>
      BY <2>3, <2>4, NoResponseIs
    <2>6. IsHistory(k) /\ Content(k) = Content(a) \o l.message.content
      BY <1>4, <2>1, ContentAppend DEF IsBuilder
    <2>7. n.regular => Paired(c, n, k)
      <3> SUFFICES ASSUME n.regular PROVE Paired(c, n, k)
        OBVIOUS
      <3>1. Paired(c, l, a) /\ l.ended
        BY <1>1, <1>3, <1>4, <2>3, Zenon DEF Alike
      <3>2. /\ ~c.failed /\ ~c.started /\ AllAsBuilt(c.history) = k
            /\ c.current = NoMessage /\ c.id = Nothing
            /\ AsBuilt(NoMessage) = NoMessage
        BY <2>1, <3>1, NoMessageIs, Zenon DEF Paired
      <3>3. c.started = n.started
        BY <1>4, <2>5, <3>2, Zenon DEF IsConverter, IsBuilder
      <3> QED  BY <2>5, <3>2, <3>3, Zenon DEF Paired
    <2>8. ~c.failed => Written(c) = Content(k) \o n.message.content
      <3>1. PICK t \in Seq(Pieces) : t = Content(k)
        BY <2>6, ContentIsText DEF IsText
      <3>2. t \o <<>> = t
        BY ConcatEmptySeq
      <3> QED  BY <1>1, <1>3, <1>4, <2>5, <2>6, <3>1, <3>2, Zenon DEF Alike
    <2>9. Alike(c, n, k)
      BY <2>5, <2>7, <2>8, Zenon DEF Alike
    <2>10. /\ live' = [z \in ChatSessions |-> live'[z]] /\ live'[s] = n
           /\ answers' = [z \in ChatSessions |-> answers'[z]] /\ answers'[s] = k
           /\ \A z \in ChatSessions \ {s} : live'[z] = live[z] /\ answers'[z] = answers[z]
      BY <2>2 DEF HistoryInv
    <2>11. SessionInv(s)'
      BY <1>1, <1>3, <1>4, <2>5, <2>6, <2>9, <2>10, Zenon DEF SessionInv
    <2>12. ASSUME NEW z \in ChatSessions, z # s PROVE SessionInv(z)'
      <3>1. live'[z] = live[z] /\ answers'[z] = answers[z]
        BY <2>10, <2>12
      <3> QED  BY <1>1, <3>1, Zenon DEF SessionInv, HistoryInv
    <2> QED  BY <1>1, <2>10, <2>11, <2>12, Zenon DEF HistoryInv
  <1>6. CASE ~l.started
    <2>1. live' = [live EXCEPT ![s].failed = TRUE] /\ answers' = answers
      BY <1>3, <1>6, Zenon DEF Responded
    <2>2. PICK n : n = [l EXCEPT !.failed = TRUE]
      OBVIOUS
    <2>3. /\ n = [message |-> n.message, started |-> n.started, failed |-> n.failed,
                  id |-> n.id, provider |-> n.provider, ended |-> n.ended,
                  regular |-> n.regular]
          /\ n.message = l.message /\ n.started = l.started /\ n.failed = TRUE
          /\ n.ended = l.ended /\ n.regular = l.regular
      BY <1>4, <2>2 DEF IsBuilder
    <2>4. IsBuilder(n) /\ Alike(c, n, a)
      <3>1. IsBuilder(n)
        BY <1>4, <2>3, Zenon DEF IsBuilder
      <3>2. Alike(c, n, a)
        BY <2>3, Zenon DEF Alike
      <3> QED  BY <3>1, <3>2
    <2>5. live' = [live EXCEPT ![s] = n]
      BY <1>3, <2>1, <2>2, Zenon
    <2>6. /\ live' = [z \in ChatSessions |-> live'[z]] /\ live'[s] = n
          /\ \A z \in ChatSessions \ {s} : live'[z] = live[z]
      BY <2>5 DEF HistoryInv
    <2>7. SessionInv(s)'
      BY <1>1, <1>3, <1>4, <2>1, <2>4, <2>6, Zenon DEF SessionInv
    <2>8. ASSUME NEW z \in ChatSessions, z # s PROVE SessionInv(z)'
      <3>1. live'[z] = live[z]
        BY <2>6, <2>8
      <3> QED  BY <1>1, <2>1, <3>1, Zenon DEF SessionInv, HistoryInv
    <2> QED  BY <1>1, <2>1, <2>6, <2>7, <2>8, Zenon DEF HistoryInv
  <1> QED  BY <1>5, <1>6

LEMMA HistoryNextInv == HistoryInv /\ [HistoryNext]_historyVars => HistoryInv'
  <1> SUFFICES ASSUME HistoryInv, [HistoryNext]_historyVars PROVE HistoryInv'
    OBVIOUS
  <1>1. CASE HistoryNext
    BY <1>1, StreamInv, RespondedInv DEF HistoryNext
  <1>2. CASE UNCHANGED historyVars
    BY <1>2, Zenon DEF historyVars, HistoryInv, SessionInv
  <1> QED  BY <1>1, <1>2

LEMMA HistoryInvHolds == HistorySpec => []HistoryInv
  BY HistoryInitInv, HistoryNextInv, PTL DEF HistorySpec

LEMMA HistoryInvAgrees == HistoryInv => HistoryAgrees
  <1> SUFFICES ASSUME HistoryInv, NEW s \in ChatSessions,
                      live[s].regular, ~live[s].failed
               PROVE  LET converted == Converted(RowsOf(s))
                      IN IF Complete(live[s].message)
                         THEN /\ ~converted.failed
                              /\ AllAsBuilt(converted.history) = SoFar(s)
                         ELSE converted.failed
    BY DEF HistoryAgrees
  <1>1. PICK c, l, a : c = Fold(RowsOf(s)) /\ l = live[s] /\ a = answers[s]
    OBVIOUS
  <1>2. IsBuilder(l) /\ IsHistory(a) /\ IsConverter(c) /\ Paired(c, l, a)
        /\ (~l.started => l.message = NoMessage)
    BY <1>1, RowsOfIs, Zenon DEF HistoryInv, SessionInv, Alike
  <1>3. PICK d : d = Flushed(c)
    OBVIOUS
  <1>4. SoFar(s) = IF l.started THEN Append(a, l.message) ELSE a
    BY <1>1 DEF SoFar
  <1>5. IF Complete(l.message) THEN ~d.failed /\ AllAsBuilt(d.history) = SoFar(s) ELSE d.failed
    <2>1. CASE c.started
      <3>1. /\ ~l.ended /\ AllAsBuilt(c.history) = a /\ l.started
            /\ AsBuilt(c.current) = l.message
        BY <1>2, <2>1, Zenon DEF Paired
      <3>2. d = Finished(c) /\ ~c.failed
        BY <1>2, <1>3, <2>1 DEF Flushed, Paired
      <3>3. IsHistory(c.history) /\ (Complete(l.message) <=> Complete(c.current))
        BY <1>2, <3>1, AsBuiltKeeps DEF IsConverter
      <3>4. CASE Complete(c.current)
        <4>1. ~d.failed /\ d.history = Append(c.history, c.current)
          BY <1>2, <3>2, <3>4, FinishedStep
        <4>2. AllAsBuilt(d.history) = Append(a, l.message)
          <5>1. PICK h, m, k : h = c.history /\ m = c.current /\ k = d.history
            OBVIOUS
          <5>2. IsHistory(h) /\ k = Append(h, m)
            BY <3>3, <4>1, <5>1, Zenon
          <5>3. AllAsBuilt(k) = Append(AllAsBuilt(h), AsBuilt(m))
            BY <5>2, AllAppend
          <5> QED  BY <3>1, <5>1, <5>3, Zenon
        <4> QED  BY <1>4, <3>1, <3>3, <3>4, <4>1, <4>2, Zenon
      <3>5. CASE ~Complete(c.current)
        <4>1. d.failed
          BY <1>2, <3>2, <3>5, FinishedStep
        <4> QED  BY <3>3, <3>5, <4>1, Zenon
      <3> QED  BY <3>4, <3>5
    <2>2. CASE ~c.started
      <3>1. d = c /\ ~c.failed
        BY <1>2, <1>3, <2>2 DEF Flushed, Paired
      <3>2. CASE l.ended
        <4>1. l.started /\ Complete(l.message)
              /\ AllAsBuilt(c.history) = Append(a, l.message)
          BY <1>2, <3>2, Zenon DEF Paired
        <4> QED  BY <1>4, <3>1, <4>1, Zenon
      <3>3. CASE ~l.ended
        <4>1. AllAsBuilt(c.history) = a /\ ~l.started
          BY <1>2, <2>2, <3>3 DEF Paired
        <4>2. Complete(l.message)
          BY <1>2, <4>1, NoMessageIs
        <4> QED  BY <1>4, <3>1, <4>1, <4>2
      <3> QED  BY <3>2, <3>3
    <2> QED  BY <2>1, <2>2
  <1> QED  BY <1>1, <1>3, <1>5, Zenon DEF Converted, Fold

(* convert_history gives back what the sessions had (convert_history.cpp). *)
THEOREM HistoryIsFaithful == HistorySpec => []HistoryAgrees
  BY HistoryInvHolds, HistoryInvAgrees, PTL

-----------------------------------------------------------------------------
(* The groups of rows that convert_all_history converts.                   *)

LEMMA LastOf ==
    ASSUME NEW S, NEW q \in Seq(S), q # <<>>
    PROVE  \E p \in Seq(S), x \in S : q = Append(p, x) /\ x = q[Len(q)]
  <1> DEFINE p == SubSeq(q, 1, Len(q) - 1)
  <1>1. p \in Seq(S) /\ q[Len(q)] \in S /\ q = Append(p, q[Len(q)])
    OBVIOUS
  <1> QED  BY <1>1

(* Every conversion leaves a converter.                                    *)
LEMMA FoldType ==
    ASSUME NEW q \in Seq(Events) PROVE IsConverter(Fold(q)) /\ Resting(Fold(q))
  <1> DEFINE Good(p) == IsConverter(Fold(p)) /\ Resting(Fold(p))
             T == {n \in Nat : \A p \in Seq(Events) : Len(p) = n => Good(p)}
  <1>1. 0 \in T
    <2>1. ASSUME NEW p \in Seq(Events), Len(p) = 0 PROVE Good(p)
      <3>1. p = <<>>
        BY <2>1
      <3> QED  BY <3>1, FoldEmpty, StartIs, Zenon
    <2> QED  BY <2>1
  <1>2. ASSUME NEW n \in Nat, n \in T PROVE n + 1 \in T
    <2>1. ASSUME NEW p \in Seq(Events), Len(p) = n + 1 PROVE Good(p)
      <3>1. PICK o \in Seq(Events), x \in Events : p = Append(o, x)
        <4>1. p # <<>>
          BY <2>1
        <4> QED  BY <4>1, LastOf
      <3>2. Longer(o, p, x)
        BY <3>1, AppendIsLonger
      <3>3. Len(o) = n
        <4>1. PICK i, j : i = Len(o) /\ j = Len(p)
          OBVIOUS
        <4>2. i \in Nat /\ j = i + 1 /\ j = n + 1
          BY <2>1, <3>2, <4>1, Zenon DEF Longer
        <4>3. i = n
          BY <4>2
        <4> QED  BY <4>1, <4>3, Zenon
      <3>4. Good(o)
        BY <1>2, <3>3
      <3>5. Fold(p) = InSegment(Fold(o), x)
        BY <3>2, FoldAppend
      <3> QED  BY <3>4, <3>5, InSegmentStep
    <2> QED  BY <2>1
  <1> HIDE DEF T
  <1>3. Len(q) \in T
    BY <1>1, <1>2, Induction
  <1> QED  BY <1>3 DEF T

GroupSet == [session : ChatSessions, events : Seq(Events)]

GroupText(g, s) == IF g.session = s THEN Written(Fold(g.events)) ELSE <<>>

PartsOf(groups, s) == [i \in DOMAIN groups |-> GroupText(groups[i], s)]

BrokenGroup(g, s) == g.session = s /\ Fold(g.events).failed

Broken(groups, s) == \E i \in DOMAIN groups : BrokenGroup(groups[i], s)

RowText(row, s) == IF row.session = s THEN Words(row.event) ELSE <<>>

LEMMA WrittenIsText ==
    ASSUME NEW c, IsConverter(c) PROVE Written(c) \in Seq(Pieces)
  <1>1. PICK x \in Seq(Pieces), y \in Seq(Pieces) :
            x = Content(c.history) /\ y = c.current.content
    BY ContentIsText DEF IsText, IsConverter, IsMessage
  <1>2. x \o y \in Seq(Pieces)
    OBVIOUS
  <1> QED  BY <1>1, <1>2, Zenon DEF Written

LEMMA GroupTextType ==
    ASSUME NEW g \in GroupSet, NEW s PROVE GroupText(g, s) \in Seq(Pieces)
  <1>1. g.events \in Seq(Events)
    BY DEF GroupSet
  <1>2. Written(Fold(g.events)) \in Seq(Pieces)
    BY <1>1, FoldType, WrittenIsText
  <1>3. <<>> \in Seq(Pieces)
    OBVIOUS
  <1> QED  BY <1>2, <1>3, Zenon DEF GroupText

LEMMA PartsType ==
    ASSUME NEW G \in Seq(GroupSet), NEW s
    PROVE  /\ PartsOf(G, s) \in Seq(Seq(Pieces)) /\ Len(PartsOf(G, s)) = Len(G)
           /\ FlattenSeq(PartsOf(G, s)) \in Seq(Pieces)
  <1>1. PICK f : f = PartsOf(G, s)
    OBVIOUS
  <1>2. DOMAIN G = 1 .. Len(G) /\ Len(G) \in Nat /\ \A i \in 1 .. Len(G) : G[i] \in GroupSet
    OBVIOUS
  <1>3. f \in [1 .. Len(G) -> Seq(Pieces)]
    BY <1>1, <1>2, GroupTextType, Zenon DEF PartsOf
  <1>4. f \in Seq(Seq(Pieces)) /\ Len(f) = Len(G)
    BY <1>2, <1>3
  <1> QED  BY <1>1, <1>4, FlattenType

(* A row that begins a group, and one that is added to a group.            *)
LEMMA NewGroup ==
    ASSUME NEW row \in Records, NEW g, NEW s,
           g = [session |-> row.session, events |-> <<row.event>>]
    PROVE  /\ g \in GroupSet
           /\ ~BrokenGroup(g, s) => GroupText(g, s) = RowText(row, s)
  <1>1. row.session \in ChatSessions /\ row.event \in Events
    BY DEF Records
  <1>2. PICK q, r : q = <<>> /\ r = <<row.event>>
    OBVIOUS
  <1>3. q \in Seq(Events) /\ r = Append(q, row.event) /\ r \in Seq(Events)
    BY <1>1, <1>2
  <1>4. Longer(q, r, row.event)
    BY <1>1, <1>3, AppendIsLonger
  <1>5. PICK d : d = Fold(r)
    OBVIOUS
  <1>6. d = InSegment(Start, row.event)
    BY <1>2, <1>4, <1>5, FoldAppend, FoldEmpty
  <1>7. ~d.failed => Written(d) = Written(Start) \o Words(row.event)
    BY <1>1, <1>6, StartIs, InSegmentStep
  <1>8. PICK w \in Seq(Pieces) : w = Words(row.event)
    <2>1. Words(row.event) \in Seq(Pieces)
      BY <1>1, EventFacts DEF Words, IsText
    <2> QED  BY <2>1
  <1>9. <<>> \o w = w
    BY ConcatEmptySeq
  <1>10. ~d.failed => Written(d) = Words(row.event)
    BY <1>7, <1>8, <1>9, StartIs, Zenon
  <1>11. g \in GroupSet /\ g.session = row.session /\ g.events = r
    BY <1>1, <1>2, <1>3 DEF GroupSet
  <1> QED  BY <1>5, <1>10, <1>11, Zenon DEF BrokenGroup, GroupText, RowText

LEMMA GrownGroup ==
    ASSUME NEW row \in Records, NEW g \in GroupSet, g.session = row.session, NEW h, NEW s,
           h = [g EXCEPT !.events = Append(@, row.event)]
    PROVE  /\ h \in GroupSet
           /\ ~BrokenGroup(h, s) =>
                 /\ ~BrokenGroup(g, s)
                 /\ GroupText(h, s) = GroupText(g, s) \o RowText(row, s)
  <1>1. row.session \in ChatSessions /\ row.event \in Events
    BY DEF Records
  <1>2. PICK q \in Seq(Events) : q = g.events
    BY DEF GroupSet
  <1>3. PICK r \in Seq(Events) : r = Append(q, row.event)
    <2>1. Append(q, row.event) \in Seq(Events)
      BY <1>1
    <2> QED  BY <2>1, Zenon
  <1>4. h \in GroupSet /\ h.session = g.session /\ h.events = r
    <2>1. h = [g EXCEPT !.events = r]
      BY <1>2, <1>3, Zenon
    <2> QED  BY <2>1 DEF GroupSet
  <1>5. Longer(q, r, row.event)
    BY <1>1, <1>3, AppendIsLonger
  <1>6. PICK c, d : c = Fold(q) /\ d = Fold(r)
    OBVIOUS
  <1>7. d = InSegment(c, row.event) /\ IsConverter(c) /\ Resting(c)
    BY <1>5, <1>6, FoldAppend, FoldType
  <1>8. ~d.failed => ~c.failed /\ Written(d) = Written(c) \o Words(row.event)
    BY <1>1, <1>7, InSegmentStep
  <1>9. CASE g.session = s
    BY <1>2, <1>4, <1>6, <1>8, <1>9, Zenon DEF BrokenGroup, GroupText, RowText
  <1>10. CASE g.session # s
    <2>1. <<>> \o <<>> = <<>>
      OBVIOUS
    <2> QED  BY <1>4, <1>10, <2>1, Zenon DEF BrokenGroup, GroupText, RowText
  <1> QED  BY <1>4, <1>9, <1>10

LEMMA RowTextType == ASSUME NEW row \in Records, NEW s PROVE RowText(row, s) \in Seq(Pieces)
  <1>1. Words(row.event) \in Seq(Pieces)
    BY EventFacts DEF Words, IsText, Records
  <1> QED  BY <1>1 DEF RowText

LEMMA AddedGroup ==
    ASSUME NEW G \in Seq(GroupSet), NEW g \in GroupSet, NEW t, NEW s,
           NEW H, Longer(G, H, g), ~BrokenGroup(g, s) => GroupText(g, s) = t,
           ~Broken(H, s)
    PROVE  ~Broken(G, s) /\ FlattenSeq(PartsOf(H, s)) = FlattenSeq(PartsOf(G, s)) \o t
  <1>1. /\ Len(G) \in Nat /\ DOMAIN G = 1 .. Len(G) /\ DOMAIN H = 1 .. Len(G) + 1
        /\ H[Len(G) + 1] = g /\ \A i \in 1 .. Len(G) : G[i] = H[i]
    BY DEF Longer, AgreeTo
  <1>2. ~Broken(G, s)
    BY <1>1 DEF Broken
  <1>3. GroupText(g, s) = t
    BY <1>1 DEF Broken
  <1>4. PICK p, r : p = PartsOf(G, s) /\ r = PartsOf(H, s)
    OBVIOUS
  <1>5. p \in Seq(Seq(Pieces)) /\ Len(p) = Len(G)
    BY <1>4, PartsType
  <1>6. PICK S : S = Seq(Pieces)
    OBVIOUS
  <1>7. p \in Seq(S) /\ t \in S /\ t \in Seq(Pieces)
    BY <1>3, <1>5, <1>6, GroupTextType
  <1>8. /\ IsFunctionTo(r, Len(p) + 1) /\ r[Len(p) + 1] = t
        /\ AgreeTo(p, r, Len(p))
    <2>1. IsFunctionTo(r, Len(p) + 1) /\ r[Len(p) + 1] = t
      BY <1>1, <1>3, <1>4, <1>5 DEF PartsOf, IsFunctionTo
    <2>2. AgreeTo(p, r, Len(p))
      BY <1>1, <1>4, <1>5 DEF PartsOf, AgreeTo
    <2> QED  BY <2>1, <2>2
  <1>9. r = Append(p, t)
    BY <1>7, <1>8, MappedAppend
  <1>10. FlattenSeq(r) = FlattenSeq(p) \o t
    BY <1>5, <1>7, <1>9, FlattenAppend
  <1> QED  BY <1>2, <1>4, <1>10

ChangedLast(G, H, h) ==
    /\ Len(G) \in 1 .. Len(G) /\ DOMAIN G = 1 .. Len(G)
    /\ DOMAIN H = DOMAIN G /\ H[Len(G)] = h
    /\ \A i \in 1 .. Len(G) : i # Len(G) => H[i] = G[i]

LEMMA ExtendedGroup ==
    ASSUME NEW G \in Seq(GroupSet), NEW h \in GroupSet, NEW t \in Seq(Pieces), NEW s,
           NEW H, ChangedLast(G, H, h),
           ~BrokenGroup(h, s) => /\ ~BrokenGroup(G[Len(G)], s)
                                 /\ GroupText(h, s) = GroupText(G[Len(G)], s) \o t,
           ~Broken(H, s)
    PROVE  ~Broken(G, s) /\ FlattenSeq(PartsOf(H, s)) = FlattenSeq(PartsOf(G, s)) \o t
  <1>1. /\ Len(G) \in 1 .. Len(G) /\ DOMAIN G = 1 .. Len(G)
        /\ DOMAIN H = DOMAIN G /\ H[Len(G)] = h
        /\ \A i \in 1 .. Len(G) : i # Len(G) => H[i] = G[i]
    BY DEF ChangedLast
  <1>2. ~BrokenGroup(h, s)
    BY <1>1, Zenon DEF Broken
  <1>3. ~Broken(G, s)
    BY <1>1, <1>2, Zenon DEF Broken
  <1>4. PICK p, r : p = PartsOf(G, s) /\ r = PartsOf(H, s)
    OBVIOUS
  <1>5. p \in Seq(Seq(Pieces)) /\ Len(p) = Len(G)
    BY <1>4, PartsType
  <1>6. /\ p = [i \in 1 .. Len(G) |-> GroupText(G[i], s)]
        /\ r = [i \in 1 .. Len(G) |-> GroupText(H[i], s)]
    BY <1>1, <1>4, Zenon DEF PartsOf
  <1>7. GroupText(h, s) = p[Len(G)] \o t
    BY <1>1, <1>2, <1>6, Zenon
  <1>8. LastGrown(p, t, r)
    <2>1. PICK n, u : n = Len(G) /\ u = p[Len(G)] \o t
      OBVIOUS
    <2>2. r[n] = u /\ \A i \in 1 .. n : i # n => r[i] = p[i]
      BY <1>1, <1>6, <1>7, <2>1, Zenon
    <2>3. r = [p EXCEPT ![n] = u]
      BY <1>1, <1>6, <2>1, <2>2
    <2> QED  BY <1>5, <2>1, <2>3, Zenon DEF LastGrown
  <1>9. p # <<>>
    <2>1. ASSUME p = <<>> PROVE FALSE
      <3>1. Len(p) = 0
        BY <2>1
      <3>2. Len(G) \in 1 .. Len(G) /\ Len(G) = 0
        BY <1>1, <1>5, <3>1, Zenon
      <3> QED  BY <3>2
    <2> QED  BY <2>1
  <1>10. FlattenSeq(r) = FlattenSeq(p) \o t
    BY <1>5, <1>8, <1>9, FlattenLast
  <1> QED  BY <1>3, <1>4, <1>10

(* A row writes its words in the groups of its session, and in no other.   *)
LEMMA GroupStep ==
    ASSUME NEW G \in Seq(GroupSet), NEW row \in Records, NEW H, H = Group(G, row)
    PROVE  /\ H \in Seq(GroupSet)
           /\ \A s : ~Broken(H, s) =>
                 /\ ~Broken(G, s)
                 /\ FlattenSeq(PartsOf(H, s)) = FlattenSeq(PartsOf(G, s)) \o RowText(row, s)
  <1>1. CASE G # <<>> /\ Last(G).session = row.session
    <2>1. PICK g \in GroupSet : g = G[Len(G)] /\ g.session = row.session
      BY <1>1 DEF Last
    <2>2. PICK h : h = [g EXCEPT !.events = Append(@, row.event)]
      OBVIOUS
    <2>3. H = [G EXCEPT ![Len(G)] = h]
      BY <1>1, <2>1, <2>2 DEF Group
    <2>4. h \in GroupSet
      BY <2>1, <2>2, GrownGroup
    <2>5. H \in Seq(GroupSet)
      BY <1>1, <2>3, <2>4
    <2>6. ASSUME NEW s, ~Broken(H, s)
          PROVE  /\ ~Broken(G, s)
                 /\ FlattenSeq(PartsOf(H, s)) = FlattenSeq(PartsOf(G, s)) \o RowText(row, s)
      <3>1. ~BrokenGroup(h, s) => /\ ~BrokenGroup(g, s)
                                  /\ GroupText(h, s) = GroupText(g, s) \o RowText(row, s)
        BY <2>1, <2>2, GrownGroup, ZenonT(60)
      <3>2. PICK t \in Seq(Pieces) : t = RowText(row, s)
        BY RowTextType
      <3>3. ~BrokenGroup(h, s) => /\ ~BrokenGroup(G[Len(G)], s)
                                  /\ GroupText(h, s) = GroupText(G[Len(G)], s) \o t
        BY <2>1, <3>1, <3>2, Zenon
      <3>4. ~Broken(G, s) /\ FlattenSeq(PartsOf(H, s)) = FlattenSeq(PartsOf(G, s)) \o t
        <4>1. ChangedLast(G, H, h)
          BY <1>1, <2>3 DEF ChangedLast
        <4> QED  BY <2>4, <2>6, <3>3, <4>1, ExtendedGroup
      <3> QED  BY <3>2, <3>4
    <2> QED  BY <2>5, <2>6
  <1>2. CASE ~(G # <<>> /\ Last(G).session = row.session)
    <2>1. PICK g : g = [session |-> row.session, events |-> <<row.event>>]
      OBVIOUS
    <2>2. H = Append(G, g)
      BY <1>2, <2>1, Zenon DEF Group
    <2>3. g \in GroupSet
      BY <2>1, NewGroup
    <2>4. H \in Seq(GroupSet) /\ Longer(G, H, g)
      <3>1. Append(G, g) \in Seq(GroupSet)
        BY <2>3
      <3>2. Longer(G, H, g)
        BY <2>2, <2>3, AppendIsLonger
      <3> QED  BY <2>2, <3>1, <3>2, Zenon
    <2>5. ASSUME NEW s, ~Broken(H, s)
          PROVE  /\ ~Broken(G, s)
                 /\ FlattenSeq(PartsOf(H, s)) = FlattenSeq(PartsOf(G, s)) \o RowText(row, s)
      <3>1. ~BrokenGroup(g, s) => GroupText(g, s) = RowText(row, s)
        BY <2>1, NewGroup
      <3> QED  BY <2>3, <2>4, <2>5, <3>1, AddedGroup
    <2> QED  BY <2>4, <2>5
  <1> QED  BY <1>1, <1>2

(* What the groups of a session write is what its rows write.              *)
GroupsAgree(q) ==
    /\ GroupsOf(q) \in Seq(GroupSet)
    /\ \A s : ~Broken(GroupsOf(q), s) /\ ~Fold(RowsIn(q, s)).failed =>
          FlattenSeq(PartsOf(GroupsOf(q), s)) = Written(Fold(RowsIn(q, s)))

LEMMA GroupsAgreeStep ==
    ASSUME NEW q \in Seq(Records), GroupsAgree(q), NEW row \in Records,
           NEW r, Longer(q, r, row)
    PROVE  GroupsAgree(r)
  <1>1. PICK G, H : G = GroupsOf(q) /\ H = GroupsOf(r)
    OBVIOUS
  <1>2. H = Group(G, row) /\ G \in Seq(GroupSet)
    BY <1>1, GroupsAppend DEF GroupsAgree
  <1>3. H \in Seq(GroupSet)
    BY <1>2, GroupStep
  <1>4. ASSUME NEW s, ~Broken(H, s), ~Fold(RowsIn(r, s)).failed
        PROVE  FlattenSeq(PartsOf(H, s)) = Written(Fold(RowsIn(r, s)))
    <2>1. /\ ~Broken(G, s)
          /\ FlattenSeq(PartsOf(H, s)) = FlattenSeq(PartsOf(G, s)) \o RowText(row, s)
      BY <1>2, <1>4, GroupStep
    <2>2. PICK o, p : o = RowsIn(q, s) /\ p = RowsIn(r, s)
      OBVIOUS
    <2>3. o \in Seq(Events) /\ p = IF row.session = s THEN Append(o, row.event) ELSE o
      BY <2>2, RowsType, RowsAppend
    <2>4. PICK c, d : c = Fold(o) /\ d = Fold(p)
      OBVIOUS
    <2>5. IsConverter(c) /\ Resting(c) /\ ~d.failed
      BY <1>4, <2>2, <2>3, <2>4, FoldType
    <2>6. ~c.failed /\ Written(d) = Written(c) \o RowText(row, s)
      <3>1. CASE row.session = s
        <4>1. row.event \in Events
          BY DEF Records
        <4>2. Longer(o, p, row.event)
          BY <2>3, <3>1, <4>1, AppendIsLonger
        <4>3. d = InSegment(c, row.event)
          BY <2>4, <4>2, FoldAppend
        <4>4. Written(d) = Written(c) \o Words(row.event) /\ ~c.failed
          BY <2>5, <4>1, <4>3, InSegmentStep
        <4> QED  BY <3>1, <4>4 DEF RowText
      <3>2. CASE row.session # s
        <4>1. d = c
          BY <2>3, <2>4, <3>2
        <4>2. PICK t \in Seq(Pieces) : t = Written(c)
          BY <2>5, WrittenIsText
        <4>3. t \o <<>> = t
          BY ConcatEmptySeq
        <4> QED  BY <2>5, <3>2, <4>1, <4>2, <4>3, Zenon DEF RowText
      <3> QED  BY <3>1, <3>2
    <2>7. FlattenSeq(PartsOf(G, s)) = Written(c)
      BY <1>1, <2>1, <2>2, <2>4, <2>6, Zenon DEF GroupsAgree
    <2> QED  BY <2>1, <2>2, <2>4, <2>6, <2>7, Zenon
  <1> QED  BY <1>1, <1>3, <1>4, Zenon DEF GroupsAgree

LEMMA GroupsAgreeEmpty == ASSUME NEW q, q = <<>> PROVE GroupsAgree(q)
  <1>1. PICK G : G = GroupsOf(q)
    OBVIOUS
  <1>2. G = <<>>
    BY <1>1, GroupsEmpty, Zenon
  <1>3. G \in Seq(GroupSet)
    BY <1>2
  <1>4. ASSUME NEW s PROVE FlattenSeq(PartsOf(G, s)) = Written(Fold(RowsIn(q, s)))
    <2>1. PICK f : f = PartsOf(G, s)
      OBVIOUS
    <2>2. f = <<>>
      BY <1>2, <2>1 DEF PartsOf
    <2>3. FlattenSeq(f) = <<>>
      BY <2>2, FlattenEmpty
    <2>4. RowsIn(q, s) = <<>>
      BY RowsEmpty
    <2>5. Fold(RowsIn(q, s)) = Start
      BY <2>4, FoldEmpty, Zenon
    <2> QED  BY <2>1, <2>3, <2>5, StartIs, Zenon
  <1> QED  BY <1>1, <1>3, <1>4, Zenon DEF GroupsAgree

(* By induction over the rows.                                             *)
LEMMA GroupsAlwaysAgree == ASSUME NEW q \in Seq(Records) PROVE GroupsAgree(q)
  <1> DEFINE T == {n \in Nat : \A p \in Seq(Records) : Len(p) = n => GroupsAgree(p)}
  <1>1. 0 \in T
    <2>1. ASSUME NEW p \in Seq(Records), Len(p) = 0 PROVE GroupsAgree(p)
      <3>1. p = <<>>
        BY <2>1
      <3> QED  BY <3>1, GroupsAgreeEmpty, Zenon
    <2> QED  BY <2>1
  <1>2. ASSUME NEW n \in Nat, n \in T PROVE n + 1 \in T
    <2>1. ASSUME NEW p \in Seq(Records), Len(p) = n + 1 PROVE GroupsAgree(p)
      <3>1. PICK o \in Seq(Records), x \in Records : p = Append(o, x)
        <4>1. p # <<>>
          BY <2>1
        <4> QED  BY <4>1, LastOf
      <3>2. Longer(o, p, x)
        BY <3>1, AppendIsLonger
      <3>3. PICK i, j : i = Len(o) /\ j = Len(p)
        OBVIOUS
      <3>4. i \in Nat /\ j = i + 1 /\ j = n + 1
        BY <2>1, <3>2, <3>3, Zenon DEF Longer
      <3>5. i = n
        BY <3>4
      <3>6. GroupsAgree(o)
        BY <1>2, <3>3, <3>5
      <3> QED  BY <3>2, <3>6, GroupsAgreeStep
    <2> QED  BY <2>1
  <1> HIDE DEF T
  <1>3. Len(q) \in T
    BY <1>1, <1>2, Induction
  <1> QED  BY <1>3 DEF T

LEMMA HistoryInvKeeps == HistoryInv => TextKept
  <1> SUFFICES ASSUME HistoryInv PROVE TextKept
    OBVIOUS
  <1>1. ASSUME NEW s \in ChatSessions
        PROVE  ~Converted(RowsOf(s)).failed /\ ~live[s].failed =>
                  Content(Converted(RowsOf(s)).history) = Content(SoFar(s))
    <2> SUFFICES ASSUME ~Converted(RowsOf(s)).failed, ~live[s].failed
                 PROVE  Content(Converted(RowsOf(s)).history) = Content(SoFar(s))
      OBVIOUS
    <2>1. PICK c, l, a, d : /\ c = Fold(RowsOf(s)) /\ l = live[s] /\ a = answers[s]
                            /\ d = Converted(RowsOf(s))
      OBVIOUS
    <2>2. /\ IsBuilder(l) /\ IsHistory(a) /\ IsConverter(c) /\ Resting(c) /\ Alike(c, l, a)
      BY <2>1, RowsOfIs, Zenon DEF HistoryInv, SessionInv
    <2>3. d = Flushed(c)
      BY <2>1, Zenon DEF Converted, Fold
    <2>4. ~c.failed /\ Content(d.history) = Written(c)
      BY <2>1, <2>2, <2>3, FlushedStep
    <2>5. Written(c) = Content(a) \o l.message.content
      BY <2>1, <2>2, <2>4, Zenon DEF Alike
    <2>6. Content(SoFar(s)) = Content(a) \o l.message.content
      <3>1. CASE l.started
        <4>1. PICK k : k = Append(a, l.message)
          OBVIOUS
        <4>2. SoFar(s) = k
          BY <2>1, <3>1, <4>1 DEF SoFar
        <4>3. Content(k) = Content(a) \o l.message.content
          BY <2>2, <4>1, ContentAppend DEF IsBuilder
        <4> QED  BY <4>2, <4>3
      <3>2. CASE ~l.started
        <4>1. SoFar(s) = a
          BY <2>1, <3>2 DEF SoFar
        <4>2. l.message.content = <<>>
          BY <2>1, <2>2, <3>2 DEF Alike, NoMessage
        <4>3. PICK t \in Seq(Pieces) : t = Content(a)
          BY <2>2, ContentIsText DEF IsText
        <4>4. t \o <<>> = t
          BY ConcatEmptySeq
        <4> QED  BY <4>1, <4>2, <4>3, <4>4, Zenon
      <3> QED  BY <3>1, <3>2
    <2> QED  BY <2>1, <2>4, <2>5, <2>6, Zenon
  <1>2. ASSUME NEW s \in ChatSessions, NEW parts,
               parts = [i \in DOMAIN Groups |->
                          IF Groups[i].session = s THEN Converted(Groups[i].events)
                          ELSE Start],
               ~Converted(RowsOf(s)).failed, \A i \in DOMAIN parts : ~parts[i].failed
        PROVE  FlattenSeq([i \in DOMAIN parts |-> Content(parts[i].history)])
                  = Content(Converted(RowsOf(s)).history)
    <2>1. PICK G, c, d : G = Groups /\ c = Fold(RowsOf(s)) /\ d = Converted(RowsOf(s))
      OBVIOUS
    <2>2. G = GroupsOf(rows) /\ G \in Seq(GroupSet) /\ GroupsAgree(rows)
      <3>1. G = GroupsOf(rows)
        BY <2>1, Zenon DEF Groups, GroupsOf
      <3>2. GroupsAgree(rows)
        BY GroupsAlwaysAgree DEF HistoryInv
      <3> QED  BY <3>1, <3>2 DEF GroupsAgree
    <2>3. IsConverter(c) /\ Resting(c)
      BY <2>1, RowsOfIs, Zenon DEF HistoryInv, SessionInv
    <2>4. d = Flushed(c)
      BY <2>1, Zenon DEF Converted, Fold
    <2>5. ~c.failed /\ Content(d.history) = Written(c)
      BY <1>2, <2>1, <2>3, <2>4, FlushedStep
    <2>6. DOMAIN parts = DOMAIN G
      BY <1>2, <2>1
    <2>7. ASSUME NEW i \in DOMAIN G
          PROVE  /\ ~BrokenGroup(G[i], s)
                 /\ Content(parts[i].history) = GroupText(G[i], s)
      <3>1. PICK g \in GroupSet : g = G[i]
        BY <2>2
      <3>2. PICK p : p = parts[i] /\ ~p.failed
        BY <1>2, <2>6
      <3>3. p = IF g.session = s THEN Converted(g.events) ELSE Start
        BY <1>2, <2>1, <3>1, <3>2, Zenon
      <3>4. CASE g.session = s
        <4>1. PICK f : f = Fold(g.events)
          OBVIOUS
        <4>2. p = Flushed(f)
          BY <3>3, <3>4, <4>1, Zenon DEF Converted, Fold
        <4>3. g.events \in Seq(Events)
          BY DEF GroupSet
        <4>4. IsConverter(f) /\ Resting(f)
          BY <4>1, <4>3, FoldType
        <4>5. ~f.failed /\ Content(p.history) = Written(f)
          BY <3>2, <4>2, <4>4, FlushedStep
        <4> QED  BY <3>1, <3>2, <3>4, <4>1, <4>5, Zenon DEF BrokenGroup, GroupText
      <3>5. CASE g.session # s
        <4>1. p.history = <<>>
          BY <3>3, <3>5 DEF Start
        <4>2. Content(p.history) = <<>>
          BY <4>1, ContentEmpty, Zenon
        <4> QED  BY <3>1, <3>2, <3>5, <4>2, Zenon DEF BrokenGroup, GroupText
      <3> QED  BY <3>4, <3>5
    <2>8. ~Broken(G, s)
      BY <2>7 DEF Broken
    <2>9. [i \in DOMAIN parts |-> Content(parts[i].history)] = PartsOf(G, s)
      BY <2>6, <2>7, Zenon DEF PartsOf
    <2>10. FlattenSeq(PartsOf(G, s)) = Written(c)
      BY <2>1, <2>2, <2>5, <2>8, RowsOfIs, Zenon DEF GroupsAgree
    <2> QED  BY <2>1, <2>5, <2>9, <2>10, Zenon
  <1> QED  BY <1>1, <1>2, Zenon DEF TextKept

(* No text is lost or made up, and a session has the same text whether it  *)
(* is converted alone or with all the others.                              *)
THEOREM TextIsKept == HistorySpec => []TextKept
  BY HistoryInvHolds, HistoryInvKeeps, PTL

-----------------------------------------------------------------------------
(* ChunkMatcher.                                                           *)

-----------------------------------------------------------------------------
(* The prefix function.                                                    *)

(* The last k of the first n letters of u are the first k of p.            *)
Ends(p, u, n, k) == k \in 0 .. n /\ \A j \in 1 .. k : u[n - k + j] = p[j]

(* b is the largest such number that is at most d.                         *)
Best(p, u, n, d, b) ==
    /\ b \in 0 .. d /\ Ends(p, u, n, b)
    /\ \A k \in 0 .. d : Ends(p, u, n, k) => k <= b

(* f gives the longest border of the first i letters, up to n.             *)
IsPrefixFunction(p, f, n) == \A i \in 1 .. n : Best(p, p, i, i - 1, f[i])

(* What ends in a suffix that is a prefix, and the other way round.        *)
LEMMA EndsInEnd ==
    ASSUME NEW p, NEW u, NEW n \in Nat, NEW l, Ends(p, u, n, l), NEW k \in 0 .. l
    PROVE  Ends(p, u, n, k) <=> Ends(p, p, l, k)
  <1>1. l \in Nat /\ l <= n
    BY DEF Ends
  <1>2. \A j \in 1 .. k : /\ l - k + j \in 1 .. l
                          /\ n - l + (l - k + j) = n - k + j
    BY <1>1
  <1>3. \A j \in 1 .. k : u[n - k + j] = p[l - k + j]
    <2> TAKE j \in 1 .. k
    <2>1. u[n - l + (l - k + j)] = p[l - k + j]
      BY <1>2 DEF Ends
    <2> QED  BY <1>2, <2>1
  <1>4. k \in 0 .. n
    BY <1>1
  <1> QED  BY <1>3, <1>4 DEF Ends

(* The letters before: one more letter that matches.                       *)
LEMMA EndsLonger ==
    ASSUME NEW p, NEW u, NEW n \in Nat, NEW k \in 0 .. n
    PROVE  Ends(p, u, n + 1, k + 1) <=> Ends(p, u, n, k) /\ p[k + 1] = u[n + 1]
  <1>1. \A j : n + 1 - (k + 1) + j = n - k + j
    OBVIOUS
  <1> QED  BY <1>1 DEF Ends

(* The search of Advance, as a function of the letters matched.            *)
Advancing(a, p, f, c, n) ==
    a = [k \in 0 .. n |-> IF p[k + 1] = c THEN k + 1
                          ELSE IF k = 0 THEN 0 ELSE a[f[k]]]

LEMMA AdvancingExists ==
    ASSUME NEW p, NEW f, NEW c, NEW n \in Nat,
           \A k \in 1 .. n : f[k] \in Nat /\ f[k] < k
    PROVE  \E a : Advancing(a, p, f, c, n)
  <1> DEFINE T == {m \in Nat : m <= n => \E a : Advancing(a, p, f, c, m)}
  <1>1. 0 \in T
    <2> DEFINE a == [k \in 0 .. 0 |-> IF p[k + 1] = c THEN k + 1 ELSE 0]
    <2>1. Advancing(a, p, f, c, 0)
      BY DEF Advancing
    <2> QED  BY <2>1
  <1>2. ASSUME NEW m \in Nat, m \in T PROVE m + 1 \in T
    <2> SUFFICES ASSUME m + 1 <= n PROVE \E a : Advancing(a, p, f, c, m + 1)
      OBVIOUS
    <2>1. PICK b : Advancing(b, p, f, c, m)
      BY <1>2
    <2> DEFINE a == [k \in 0 .. m + 1 |->
                       IF k = m + 1 THEN IF p[k + 1] = c THEN k + 1 ELSE b[f[k]]
                       ELSE b[k]]
    <2>2. DOMAIN a = 0 .. m + 1 /\ a = [k \in 0 .. m + 1 |-> a[k]]
      OBVIOUS
    <2>3. \A k \in 0 .. m : a[k] = b[k]
      OBVIOUS
    <2>4. a[m + 1] = IF p[m + 1 + 1] = c THEN m + 1 + 1 ELSE b[f[m + 1]]
      OBVIOUS
    <2> HIDE DEF a
    <2>5. ASSUME NEW k \in 0 .. m + 1
          PROVE  a[k] = IF p[k + 1] = c THEN k + 1 ELSE IF k = 0 THEN 0 ELSE a[f[k]]
      <3>1. CASE k = m + 1
        <4>1. f[k] \in 0 .. m /\ k # 0
          BY <3>1
        <4> QED  BY <2>3, <2>4, <3>1, <4>1
      <3>2. CASE k # m + 1
        <4>1. k \in 0 .. m /\ (k # 0 => f[k] \in 0 .. m)
          BY <3>2
        <4>2. b[k] = IF p[k + 1] = c THEN k + 1 ELSE IF k = 0 THEN 0 ELSE b[f[k]]
          BY <2>1, <4>1, Zenon DEF Advancing
        <4> QED  BY <2>3, <4>1, <4>2
      <3> QED  BY <3>1, <3>2
    <2>6. Advancing(a, p, f, c, m + 1)
      BY <2>2, <2>5, Zenon DEF Advancing
    <2> QED  BY <2>6
  <1> HIDE DEF T
  <1>3. n \in T
    BY <1>1, <1>2, Induction
  <1> QED  BY <1>3 DEF T

(* a is the most letters matched after m and then c.                       *)
Advances(p, m, c, a) ==
    /\ a \in 0 .. m + 1
    /\ a # 0 => Ends(p, p, m, a - 1) /\ p[a] = c
    /\ \A k \in 0 .. m : Ends(p, p, m, k) /\ p[k + 1] = c => k + 1 <= a

LEMMA AdvanceIs ==
    ASSUME NEW p, NEW f, NEW m \in Nat, NEW c, IsPrefixFunction(p, f, m)
    PROVE  Advances(p, m, c, Advance(p, f, m, c))
  <1>0. \A k \in 1 .. m : f[k] \in Nat /\ f[k] < k
    BY DEF IsPrefixFunction, Best
  <1> DEFINE a == CHOOSE b : b = [k \in 0 .. m |-> IF p[k + 1] = c THEN k + 1
                                      ELSE IF k = 0 THEN 0 ELSE b[f[k]]]
  <1>1. \E b : b = [k \in 0 .. m |-> IF p[k + 1] = c THEN k + 1
                                      ELSE IF k = 0 THEN 0 ELSE b[f[k]]]
    <2>1. PICK b : Advancing(b, p, f, c, m)
      BY <1>0, AdvancingExists
    <2> QED  BY <2>1, Zenon DEF Advancing
  <1>2. a = [k \in 0 .. m |-> IF p[k + 1] = c THEN k + 1
                                      ELSE IF k = 0 THEN 0 ELSE a[f[k]]]
    BY <1>1, Zenon
  <1>3. Advance(p, f, m, c) = a[m]
    BY Zenon DEF Advance
  <1> HIDE DEF a
  <1>4. \A k \in 0 .. m : a[k] = IF p[k + 1] = c THEN k + 1
                                 ELSE IF k = 0 THEN 0 ELSE a[f[k]]
    BY <1>2, Zenon
  <1> DEFINE T == {n \in Nat : \A k \in 0 .. n : k <= m => Advances(p, k, c, a[k])}
  <1>5. ASSUME NEW k \in 0 .. m, p[k + 1] = c PROVE Advances(p, k, c, a[k])
    <2>1. a[k] = k + 1
      BY <1>4, <1>5
    <2>2. k + 1 - 1 = k /\ \A j \in Int : k - k + j = j
      OBVIOUS
    <2>3. Ends(p, p, k, k)
      BY DEF Ends
    <2> QED  BY <1>5, <2>1, <2>2, <2>3 DEF Advances
  <1>6. ASSUME 0 <= m, p[0 + 1] # c PROVE Advances(p, 0, c, a[0])
    <2>1. a[0] = 0
      BY <1>4, <1>6
    <2> QED  BY <1>6, <2>1 DEF Advances
  <1>7. 0 \in T
    BY <1>5, <1>6
  <1>8. ASSUME NEW n \in Nat, n \in T PROVE n + 1 \in T
    <2> SUFFICES ASSUME n + 1 <= m, p[n + 1 + 1] # c
                 PROVE  Advances(p, n + 1, c, a[n + 1])
      BY <1>5, <1>8
    <2> DEFINE k == n + 1
               b == f[k]
    <2>1. k \in 1 .. m /\ b \in 0 .. n /\ b <= m /\ k # 0
      BY <1>0
    <2>2. Advances(p, b, c, a[b])
      BY <1>8, <2>1
    <2>3. a[k] = a[b]
      BY <1>4, <2>1
    <2>4. Best(p, p, k, k - 1, b)
      BY <2>1 DEF IsPrefixFunction
    <2>5. Ends(p, p, k, b)
      BY <2>4 DEF Best
    <2> HIDE DEF k, b
    <2>6. ASSUME a[b] # 0 PROVE Ends(p, p, k, a[b] - 1) /\ p[a[b]] = c
      <3>1. Ends(p, p, b, a[b] - 1) /\ p[a[b]] = c /\ a[b] - 1 \in 0 .. b
        BY <2>2, <2>6 DEF Advances, Ends
      <3> QED  BY <2>1, <2>5, <3>1, EndsInEnd
    <2>7. ASSUME NEW i \in 0 .. k, Ends(p, p, k, i), p[i + 1] = c
          PROVE  i + 1 <= a[b]
      <3>1. i \in 0 .. k - 1
        BY <2>1, <2>7 DEF k
      <3>2. i \in 0 .. b
        BY <2>4, <2>7, <3>1 DEF Best
      <3>3. Ends(p, p, b, i)
        BY <2>1, <2>5, <2>7, <3>2, EndsInEnd
      <3> QED  BY <2>2, <2>7, <3>2, <3>3 DEF Advances
    <2>8. a[b] \in 0 .. k + 1
      BY <2>1, <2>2 DEF Advances, k
    <2>9. Advances(p, k, c, a[k])
      BY <2>3, <2>6, <2>7, <2>8 DEF Advances
    <2> QED  BY <2>9 DEF k
  <1> HIDE DEF T
  <1>9. m \in T
    BY <1>7, <1>8, Induction
  <1> QED  BY <1>3, <1>9 DEF T

LEMMA BestExists ==
    ASSUME NEW p, NEW u, NEW n \in Nat, NEW d \in 0 .. n
    PROVE  \E b : Best(p, u, n, d, b)
  <1> DEFINE T == {e \in Nat : e <= d /\ Ends(p, u, n, d - e)}
  <1>1. d \in T
    BY DEF Ends
  <1>2. PICK e \in T : \A i \in T : e <= i
    BY <1>1, LeastNatural
  <1>3. d - e \in 0 .. d /\ Ends(p, u, n, d - e)
    OBVIOUS
  <1>4. ASSUME NEW k \in 0 .. d, Ends(p, u, n, k) PROVE k <= d - e
    <2>1. d - (d - k) = k /\ d - k \in Nat /\ d - k <= d
      OBVIOUS
    <2>2. d - k \in T
      BY <1>4, <2>1
    <2> QED  BY <1>2, <2>2
  <1> QED  BY <1>3, <1>4 DEF Best

LEMMA BestIsOne ==
    ASSUME NEW p, NEW u, NEW n, NEW d \in Nat, NEW a, NEW b,
           Best(p, u, n, d, a), Best(p, u, n, d, b)
    PROVE  a = b
  <1>1. a \in Nat /\ b \in Nat /\ a <= b /\ b <= a
    BY DEF Best
  <1> QED  BY <1>1

(* One more letter.                                                        *)
LEMMA BestStep ==
    ASSUME NEW p, NEW u, NEW n \in Nat, NEW d \in 0 .. n, NEW b, Best(p, u, n, d, b),
           NEW a, Advances(p, b, u[n + 1], a)
    PROVE  Best(p, u, n + 1, d + 1, a)
  <1>1. b \in 0 .. d /\ Ends(p, u, n, b) /\ a \in 0 .. b + 1 /\ a \in 0 .. d + 1
    BY DEF Best, Advances
  <1>2. Ends(p, u, n + 1, a)
    <2>1. CASE a = 0
      BY <2>1 DEF Ends
    <2>2. CASE a # 0
      <3>1. a - 1 \in 0 .. b /\ a - 1 \in 0 .. n /\ a - 1 + 1 = a
        BY <1>1, <2>2
      <3>2. Ends(p, p, b, a - 1) /\ p[a] = u[n + 1]
        BY <2>2 DEF Advances
      <3>3. Ends(p, u, n, a - 1)
        BY <1>1, <3>1, <3>2, EndsInEnd
      <3> QED  BY <3>1, <3>2, <3>3, EndsLonger
    <2> QED  BY <2>1, <2>2
  <1>3. ASSUME NEW k \in 0 .. d + 1, Ends(p, u, n + 1, k) PROVE k <= a
    <2>1. CASE k = 0
      BY <1>1, <2>1
    <2>2. CASE k # 0
      <3>1. k - 1 \in 0 .. d /\ k - 1 \in 0 .. n /\ k - 1 + 1 = k
        BY <2>2
      <3>2. Ends(p, u, n, k - 1) /\ p[k] = u[n + 1]
        <4>1. Ends(p, u, n + 1, k - 1 + 1)
                 <=> Ends(p, u, n, k - 1) /\ p[k - 1 + 1] = u[n + 1]
          BY <3>1, EndsLonger
        <4> QED  BY <1>3, <3>1, <4>1
      <3>3. k - 1 \in 0 .. b
        BY <1>1, <3>1, <3>2 DEF Best
      <3>4. Ends(p, p, b, k - 1)
        BY <1>1, <3>2, <3>3, EndsInEnd
      <3> QED  BY <3>1, <3>2, <3>3, <3>4 DEF Advances
    <2> QED  BY <2>1, <2>2
  <1> QED  BY <1>1, <1>2, <1>3 DEF Best

(* The step of PrefixFunction, for any f that is right so far.             *)
LEMMA PrefixStep ==
    ASSUME NEW p, NEW f, NEW i \in Nat, i >= 2,
           \A k \in 1 .. i - 1 : Best(p, p, k, k - 1, f[k])
    PROVE  Best(p, p, i, i - 1, Advance(p, f, f[i - 1], p[i]))
  <1>1. Best(p, p, i - 1, i - 2, f[i - 1])
    BY i - 1 - 1 = i - 2, i - 1 \in 1 .. i - 1
  <1>2. f[i - 1] \in Nat /\ f[i - 1] <= i - 2
    BY <1>1 DEF Best
  <1>3. IsPrefixFunction(p, f, f[i - 1])
    BY <1>2 DEF IsPrefixFunction
  <1>4. Advances(p, f[i - 1], p[i], Advance(p, f, f[i - 1], p[i]))
    BY <1>2, <1>3, AdvanceIs
  <1>5. i - 1 \in Nat /\ i - 2 \in 0 .. i - 1 /\ i - 1 + 1 = i /\ i - 2 + 1 = i - 1
    OBVIOUS
  <1> QED  BY <1>1, <1>4, <1>5, BestStep

LEMMA PrefixFunctionIs ==
    ASSUME NEW p, NEW n \in Nat, Len(p) = n
    PROVE  IsPrefixFunction(p, PrefixFunction(p), n)
  <1> DEFINE f == CHOOSE g : g = [i \in 1 .. Len(p) |->
                     IF i = 1 THEN 0 ELSE Advance(p, g, g[i - 1], p[i])]
             h == [i \in 1 .. n |-> CHOOSE b : Best(p, p, i, i - 1, b)]
  <1>1. PrefixFunction(p) = f
    BY Zenon DEF PrefixFunction
  <1>2. \A i \in 1 .. n : Best(p, p, i, i - 1, h[i])
    <2> TAKE i \in 1 .. n
    <2>1. \E b : Best(p, p, i, i - 1, b)
      BY i \in Nat, i - 1 \in 0 .. i, BestExists
    <2>2. h[i] = CHOOSE b : Best(p, p, i, i - 1, b)
      BY Zenon
    <2> QED  BY <2>1, <2>2, Zenon
  <1>3. h = [i \in 1 .. n |-> h[i]]
    OBVIOUS
  <1> HIDE DEF h
  <1>4. \A i \in 1 .. n : h[i] = IF i = 1 THEN 0 ELSE Advance(p, h, h[i - 1], p[i])
    <2> TAKE i \in 1 .. n
    <2>1. CASE i = 1
      BY <1>2, <2>1 DEF Best
    <2>2. CASE i # 1
      <3>1. Best(p, p, i, i - 1, Advance(p, h, h[i - 1], p[i]))
        BY <1>2, <2>2, PrefixStep
      <3>2. Best(p, p, i, i - 1, h[i]) /\ i - 1 \in Nat
        BY <1>2
      <3> QED  BY <2>2, <3>1, <3>2, BestIsOne
    <2> QED  BY <2>1, <2>2
  <1>5. h = [i \in 1 .. Len(p) |-> IF i = 1 THEN 0 ELSE Advance(p, h, h[i - 1], p[i])]
    BY <1>3, <1>4, Zenon
  <1>6. f = [i \in 1 .. Len(p) |-> IF i = 1 THEN 0 ELSE Advance(p, f, f[i - 1], p[i])]
    BY <1>5, Zenon
  <1> HIDE DEF f
  <1>7. \A i \in 1 .. n : f[i] = IF i = 1 THEN 0 ELSE Advance(p, f, f[i - 1], p[i])
    BY <1>6, Zenon
  <1> DEFINE T == {m \in Nat : \A i \in 1 .. m : i <= n => Best(p, p, i, i - 1, f[i])}
  <1>8. 0 \in T
    OBVIOUS
  <1>9. ASSUME NEW m \in Nat, m \in T PROVE m + 1 \in T
    <2> SUFFICES ASSUME m + 1 <= n PROVE Best(p, p, m + 1, m + 1 - 1, f[m + 1])
      BY <1>9
    <2>1. CASE m = 0
      <3>1. f[m + 1] = 0
        BY <1>7, <2>1
      <3> QED  BY <2>1, <3>1 DEF Best, Ends
    <2>2. CASE m # 0
      <3>1. \A k \in 1 .. m + 1 - 1 : Best(p, p, k, k - 1, f[k])
        BY <1>9
      <3>2. f[m + 1] = Advance(p, f, f[m + 1 - 1], p[m + 1])
        BY <1>7, <2>2
      <3> QED  BY <2>2, <3>1, <3>2, PrefixStep
    <2> QED  BY <2>1, <2>2
  <1> HIDE DEF T
  <1>10. n \in T
    BY <1>8, <1>9, Induction
  <1> QED  BY <1>1, <1>10 DEF T, IsPrefixFunction

-----------------------------------------------------------------------------
(* Selected.                                                               *)

(* r has the elements of q that are in A, in the order of q.               *)
Picks(r, q, A) ==
    /\ \A i \in 1 .. Len(r) : r[i] \in A /\ \E j \in 1 .. Len(q) : q[j] = r[i]
    /\ \A j \in 1 .. Len(q) : q[j] \in A => \E i \in 1 .. Len(r) : r[i] = q[j]
    /\ \A i, k \in 1 .. Len(r) :
          i < k => \E j, l \in 1 .. Len(q) : j < l /\ q[j] = r[i] /\ q[l] = r[k]

Kept(x, A) == IF x \in A THEN <<x>> ELSE <<>>

LEMMA SelectedType ==
    ASSUME NEW S, NEW q \in Seq(S), NEW A PROVE Selected(q, A) \in Seq(S)
  <1>1. PICK f : f = [i \in DOMAIN q |-> Kept(q[i], A)]
    OBVIOUS
  <1>2. \A x \in S : Kept(x, A) \in Seq(S)
    BY DEF Kept
  <1>3. DOMAIN q = 1 .. Len(q) /\ Len(q) \in Nat /\ \A i \in 1 .. Len(q) : q[i] \in S
    OBVIOUS
  <1>4. f \in [1 .. Len(q) -> Seq(S)]
    BY <1>1, <1>2, <1>3, Zenon
  <1>5. f \in Seq(Seq(S))
    BY <1>3, <1>4
  <1>6. Selected(q, A) = FlattenSeq(f)
    BY <1>1, Zenon DEF Selected, Kept
  <1> QED  BY <1>5, <1>6, FlattenType

LEMMA SelectedAppend ==
    ASSUME NEW S, NEW q \in Seq(S), NEW x \in S, NEW r, Longer(q, r, x), NEW A
    PROVE  Selected(r, A) = Selected(q, A) \o Kept(x, A)
  <1>1. PICK f, g : /\ f = [i \in DOMAIN q |-> Kept(q[i], A)]
                    /\ g = [i \in DOMAIN r |-> Kept(r[i], A)]
    OBVIOUS
  <1>2. \A y \in S : Kept(y, A) \in Seq(S)
    BY DEF Kept
  <1>3. PICK V : V = Seq(S)
    OBVIOUS
  <1>4. f \in Seq(V) /\ Len(f) = Len(q)
    <2>1. DOMAIN q = 1 .. Len(q) /\ Len(q) \in Nat /\ \A i \in 1 .. Len(q) : q[i] \in S
      OBVIOUS
    <2>2. f \in [1 .. Len(q) -> V]
      BY <1>1, <1>2, <1>3, <2>1, Zenon
    <2> QED  BY <2>1, <2>2
  <1>5. PICK y \in V : y = Kept(x, A)
    BY <1>2, <1>3
  <1>6. g = Append(f, y)
    <2>1. IsFunctionTo(g, Len(q) + 1) /\ g[Len(q) + 1] = y
      BY <1>1, <1>5 DEF Longer, IsFunctionTo
    <2>2. AgreeTo(f, g, Len(q))
      BY <1>1 DEF Longer, AgreeTo
    <2> QED  BY <1>4, <2>1, <2>2, MappedAppend
  <1>7. FlattenSeq(g) = FlattenSeq(f) \o y
    BY <1>3, <1>4, <1>5, <1>6, FlattenAppend
  <1> QED  BY <1>1, <1>5, <1>7, Zenon DEF Selected, Kept

LEMMA SelectedEmpty == ASSUME NEW q, q = <<>>, NEW A PROVE Selected(q, A) = <<>>
  <1>1. PICK f : f = [i \in DOMAIN q |-> Kept(q[i], A)]
    OBVIOUS
  <1>2. f = <<>>
    BY <1>1
  <1>3. FlattenSeq(f) = <<>>
    BY <1>2, FlattenEmpty
  <1> QED  BY <1>1, <1>3, Zenon DEF Selected, Kept

(* The same elements, and one more that is kept or not.                    *)
LEMMA PicksMore ==
    ASSUME NEW S, NEW q \in Seq(S), NEW x \in S, NEW r, Longer(q, r, x), NEW A,
           NEW s \in Seq(S), Picks(s, q, A),
           NEW u, u = s \o Kept(x, A)
    PROVE  Picks(u, r, A)
  <1>1. /\ Len(q) \in Nat /\ Len(r) = Len(q) + 1 /\ r[Len(q) + 1] = x
        /\ \A j \in 1 .. Len(q) : r[j] = q[j] /\ j \in 1 .. Len(r)
        /\ Len(q) + 1 \in 1 .. Len(r)
    BY DEF Longer, AgreeTo
  <1>2. CASE x \in A
    <2>1. /\ Len(s) \in Nat /\ Len(u) = Len(s) + 1 /\ u[Len(s) + 1] = x
          /\ \A i \in 1 .. Len(s) : u[i] = s[i]
      BY <1>2 DEF Kept
    <2>2. ASSUME NEW i \in 1 .. Len(u)
          PROVE  u[i] \in A /\ \E j \in 1 .. Len(r) : r[j] = u[i]
      <3>1. CASE i = Len(s) + 1
        BY <1>1, <1>2, <2>1, <3>1
      <3>2. CASE i # Len(s) + 1
        <4>1. i \in 1 .. Len(s)
          BY <2>1, <3>2
        <4>2. PICK j \in 1 .. Len(q) : q[j] = s[i]
          BY <4>1 DEF Picks
        <4> QED  BY <1>1, <2>1, <4>1, <4>2 DEF Picks
      <3> QED  BY <3>1, <3>2
    <2>3. ASSUME NEW j \in 1 .. Len(r), r[j] \in A
          PROVE  \E i \in 1 .. Len(u) : u[i] = r[j]
      <3>1. CASE j = Len(q) + 1
        BY <1>1, <2>1, <3>1
      <3>2. CASE j # Len(q) + 1
        <4>1. j \in 1 .. Len(q)
          BY <1>1, <3>2
        <4>2. PICK i \in 1 .. Len(s) : s[i] = q[j]
          BY <1>1, <2>3, <4>1 DEF Picks
        <4> QED  BY <1>1, <2>1, <4>1, <4>2
      <3> QED  BY <3>1, <3>2
    <2>4. ASSUME NEW i \in 1 .. Len(u), NEW k \in 1 .. Len(u), i < k
          PROVE  \E j, l \in 1 .. Len(r) : j < l /\ r[j] = u[i] /\ r[l] = u[k]
      <3>1. i \in 1 .. Len(s)
        BY <2>1, <2>4
      <3>2. CASE k = Len(s) + 1
        <4>1. PICK j \in 1 .. Len(q) : q[j] = s[i]
          BY <3>1 DEF Picks
        <4>2. j < Len(q) + 1 /\ r[j] = u[i] /\ r[Len(q) + 1] = u[k]
          BY <1>1, <2>1, <3>1, <3>2, <4>1
        <4> QED  BY <1>1, <4>2
      <3>3. CASE k # Len(s) + 1
        <4>1. k \in 1 .. Len(s)
          BY <2>1, <3>3
        <4>2. PICK j, l \in 1 .. Len(q) : j < l /\ q[j] = s[i] /\ q[l] = s[k]
          BY <2>4, <3>1, <4>1 DEF Picks
        <4> QED  BY <1>1, <2>1, <3>1, <4>1, <4>2
      <3> QED  BY <3>2, <3>3
    <2> QED  BY <2>2, <2>3, <2>4 DEF Picks
  <1>3. CASE x \notin A
    <2>1. u = s
      BY <1>3, ConcatEmptySeq DEF Kept
    <2>2. ASSUME NEW j \in 1 .. Len(r), r[j] \in A
          PROVE  j \in 1 .. Len(q) /\ q[j] \in A
      BY <1>1, <1>3, <2>2
    <2>3. ASSUME NEW i \in 1 .. Len(s)
          PROVE  s[i] \in A /\ \E j \in 1 .. Len(r) : r[j] = s[i]
      BY <1>1 DEF Picks
    <2>4. ASSUME NEW j \in 1 .. Len(r), r[j] \in A
          PROVE  \E i \in 1 .. Len(s) : s[i] = r[j]
      <3>1. j \in 1 .. Len(q) /\ q[j] \in A
        BY <2>2, <2>4
      <3>2. PICK i \in 1 .. Len(s) : s[i] = q[j]
        BY <3>1 DEF Picks
      <3> QED  BY <1>1, <3>1, <3>2
    <2>5. ASSUME NEW i \in 1 .. Len(s), NEW k \in 1 .. Len(s), i < k
          PROVE  \E j, l \in 1 .. Len(r) : j < l /\ r[j] = s[i] /\ r[l] = s[k]
      <3>1. PICK j, l \in 1 .. Len(q) : j < l /\ q[j] = s[i] /\ q[l] = s[k]
        BY <2>5 DEF Picks
      <3> QED  BY <1>1, <3>1
    <2> QED  BY <2>1, <2>3, <2>4, <2>5 DEF Picks
  <1> QED  BY <1>2, <1>3

LEMMA SelectedPicks ==
    ASSUME NEW S, NEW q \in Seq(S), NEW A
    PROVE  Selected(q, A) \in Seq(S) /\ Picks(Selected(q, A), q, A)
  <1> DEFINE T == {n \in Nat : \A r \in Seq(S) :
                      Len(r) = n => Picks(Selected(r, A), r, A)}
  <1>1. 0 \in T
    <2> SUFFICES ASSUME NEW r \in Seq(S), Len(r) = 0
                 PROVE  Picks(Selected(r, A), r, A)
      OBVIOUS
    <2>1. r = <<>>
      OBVIOUS
    <2>2. Selected(r, A) = <<>>
      BY <2>1, SelectedEmpty
    <2> QED  BY <2>1, <2>2 DEF Picks
  <1>2. ASSUME NEW n \in Nat, n \in T PROVE n + 1 \in T
    <2> SUFFICES ASSUME NEW r \in Seq(S), Len(r) = n + 1
                 PROVE  Picks(Selected(r, A), r, A)
      OBVIOUS
    <2>1. PICK p, x : p = SubSeq(r, 1, n) /\ x = r[n + 1]
      OBVIOUS
    <2>2. p \in Seq(S) /\ Len(p) = n /\ x \in S /\ Longer(p, r, x)
      BY <2>1 DEF Longer, AgreeTo
    <2>3. Picks(Selected(p, A), p, A)
      BY <1>2, <2>2
    <2>4. Selected(p, A) \in Seq(S)
      BY <2>2, SelectedType
    <2>5. Selected(r, A) = Selected(p, A) \o Kept(x, A)
      BY <2>2, SelectedAppend
    <2> QED  BY <2>2, <2>3, <2>4, <2>5, PicksMore
  <1> HIDE DEF T
  <1>3. Len(q) \in T
    <2>1. Len(q) \in Nat
      OBVIOUS
    <2> QED  BY <1>1, <1>2, <2>1, Induction
  <1> QED  BY <1>3, SelectedType DEF T

-----------------------------------------------------------------------------
(* The search in the boundary.                                             *)

(* The values of a fold, an element after the other.                       *)
Unfolds(g, k, base, q, n) ==
    /\ g[1 .. 0] = base
    /\ \A i \in 0 .. n - 1 : g[1 .. i + 1] = Step(k, g[1 .. i], q[i + 1])

LEMMA FoldsSteps ==
    ASSUME NEW k, NEW base, NEW q, NEW n \in Nat, NEW g, Folds(g, k, base, q, n)
    PROVE  Unfolds(g, k, base, q, n)
  <1>1. \A s \in SUBSET (1 .. n) :
           g[s] = IF s = {} THEN base ELSE Step(k, g[s \ {Max(s)}], q[Max(s)])
    BY Zenon DEF Folds
  <1>2. g[1 .. 0] = base
    <2>1. 1 .. 0 = {} /\ {} \in SUBSET (1 .. n)
      OBVIOUS
    <2> QED  BY <1>1, <2>1, Zenon
  <1>3. ASSUME NEW i \in 0 .. n - 1
        PROVE  g[1 .. i + 1] = Step(k, g[1 .. i], q[i + 1])
    <2> DEFINE s == 1 .. i + 1
    <2>1. s \in SUBSET (1 .. n) /\ s # {} /\ s \ {i + 1} = 1 .. i
      OBVIOUS
    <2>2. Max(s) = i + 1
      BY MaxIs
    <2> QED  BY <1>1, <2>1, <2>2, Zenon
  <1> QED  BY <1>2, <1>3, Zenon DEF Unfolds

Searched(p, f, q) == FoldLeft(LAMBDA m, c : Advance(p, f, m, c), 0, q)

LEMMA SearchSteps ==
    ASSUME NEW p, NEW f, NEW a, NEW b
    PROVE  Step(Search(p, f), a, b) = Advance(p, f, a, b)
  <1>1. PICK k : k = Search(p, f)
    OBVIOUS
  <1>2. k.of = "letters" /\ k.pattern = p /\ k.function = f
    BY <1>1 DEF Search
  <1>3. k.of # "rows" /\ k.of # "cuts" /\ k.of # "places"
    BY <1>2
  <1>4. Step(k, a, b) = Advance(k.pattern, k.function, a, b)
    BY <1>3, Zenon DEF Step
  <1> QED  BY <1>1, <1>2, <1>4

LEMMA SearchedIs ==
    ASSUME NEW p, NEW f, NEW q, NEW n \in Nat, DOMAIN q = 1 .. n
    PROVE  \E g : Folds(g, Search(p, f), 0, q, n) /\ Searched(p, f, q) = g[1 .. n]
  <1> DEFINE g == CHOOSE h : h = [s \in SUBSET (1 .. n) |->
                      IF s = {} THEN 0
                      ELSE Advance(p, f, h[s \ {Max(s)}], q[Max(s)])]
  <1>1. PICK d : Folds(d, Search(p, f), 0, q, n)
    BY FoldsExists
  <1>2. \A a, b : Step(Search(p, f), a, b) = Advance(p, f, a, b)
    BY SearchSteps, Zenon
  <1>3. g = [s \in SUBSET (1 .. n) |->
                IF s = {} THEN 0 ELSE Advance(p, f, g[s \ {Max(s)}], q[Max(s)])]
    <2>1. d = [s \in SUBSET (1 .. n) |->
                IF s = {} THEN 0 ELSE Advance(p, f, d[s \ {Max(s)}], q[Max(s)])]
      BY <1>1, <1>2, Zenon DEF Folds
    <2> QED  BY <2>1, Zenon
  <1>4. Folds(g, Search(p, f), 0, q, n)
    BY <1>2, <1>3, Zenon DEF Folds
  <1>5. Searched(p, f, q) = g[1 .. n]
    BY Zenon DEF Searched, FoldLeft, MapThenFoldSet
  <1> QED  BY <1>4, <1>5

LEMMA SearchedBest ==
    ASSUME NEW p, NEW f, NEW q, NEW n \in Nat, DOMAIN q = 1 .. n,
           IsPrefixFunction(p, f, n)
    PROVE  Best(p, q, n, n, Searched(p, f, q))
  <1>1. PICK g : Folds(g, Search(p, f), 0, q, n) /\ Searched(p, f, q) = g[1 .. n]
    BY SearchedIs
  <1>2. /\ g[1 .. 0] = 0
        /\ \A i \in 0 .. n - 1 : g[1 .. i + 1] = Step(Search(p, f), g[1 .. i], q[i + 1])
    <2>1. Folds(g, Search(p, f), 0, q, n)
      BY <1>1
    <2>2. Unfolds(g, Search(p, f), 0, q, n)
      BY <2>1, FoldsSteps
    <2> QED  BY <2>2, Zenon DEF Unfolds
  <1>3. \A a, b : Step(Search(p, f), a, b) = Advance(p, f, a, b)
    BY SearchSteps, Zenon
  <1> DEFINE T == {i \in Nat : i <= n => Best(p, q, i, i, g[1 .. i])}
  <1>4. 0 \in T
    BY <1>2 DEF Best, Ends
  <1>5. ASSUME NEW i \in Nat, i \in T PROVE i + 1 \in T
    <2> SUFFICES ASSUME i + 1 <= n PROVE Best(p, q, i + 1, i + 1, g[1 .. i + 1])
      OBVIOUS
    <2> DEFINE m == g[1 .. i]
    <2>1. Best(p, q, i, i, m) /\ i \in 0 .. i /\ i \in 0 .. n - 1
      BY <1>5
    <2>2. m \in Nat /\ m <= n
      BY <2>1 DEF Best
    <2>3. IsPrefixFunction(p, f, m)
      BY <2>2 DEF IsPrefixFunction
    <2>4. Advances(p, m, q[i + 1], Advance(p, f, m, q[i + 1]))
      BY <2>2, <2>3, AdvanceIs
    <2>5. g[1 .. i + 1] = Advance(p, f, m, q[i + 1])
      BY <1>2, <1>3, <2>1
    <2> QED  BY <2>1, <2>4, <2>5, BestStep
  <1> HIDE DEF T
  <1>6. n \in T
    BY <1>4, <1>5, Induction
  <1> QED  BY <1>1, <1>6 DEF T

(* A suffix that fits into the boundary is a suffix of the boundary.       *)
LEMMA EndsInBoundary ==
    ASSUME NEW S, NEW p, NEW u \in Seq(S), NEW b \in 0 .. Len(u),
           NEW q, q = SubSeq(u, Len(u) - b + 1, Len(u)), NEW k \in 0 .. b
    PROVE  Ends(p, q, b, k) <=> Ends(p, u, Len(u), k)
  <1>1. Len(u) \in Nat /\ \A i \in 1 .. b : q[i] = u[Len(u) - b + i]
    OBVIOUS
  <1>2. \A j \in 1 .. k : /\ b - k + j \in 1 .. b
                          /\ Len(u) - b + (b - k + j) = Len(u) - k + j
    BY <1>1
  <1>3. \A j \in 1 .. k : q[b - k + j] = u[Len(u) - k + j]
    BY <1>1, <1>2
  <1>4. k \in 0 .. Len(u)
    BY <1>1
  <1> QED  BY <1>3, <1>4 DEF Ends

Least(a, b) == IF a < b THEN a ELSE b

LEMMA LongestBest ==
    ASSUME NEW S, pattern \in Seq(S), pattern # <<>>, NEW chunk \in Seq(S),
           NEW f, IsPrefixFunction(pattern, f, Len(pattern))
    PROVE  Best(pattern, chunk, Len(chunk), Least(Len(chunk), Len(pattern) - 1),
                Longest(f, chunk))
  <1> DEFINE b == Least(Len(chunk), Len(pattern) - 1)
             q == Boundary(chunk)
  <1>1. /\ b \in 0 .. Len(chunk) /\ b \in Nat /\ b <= Len(pattern)
        /\ Len(chunk) \in Nat /\ Len(pattern) \in Nat
    BY DEF Least
  <1>2. q = SubSeq(chunk, Len(chunk) - b + 1, Len(chunk))
    BY DEF Boundary, Least
  <1> HIDE DEF b, q
  <1>3. DOMAIN q = 1 .. b
    BY <1>1, <1>2
  <1>4. IsPrefixFunction(pattern, f, b)
    BY <1>1 DEF IsPrefixFunction
  <1>5. Best(pattern, q, b, b, Searched(pattern, f, q))
    BY <1>1, <1>3, <1>4, SearchedBest
  <1>6. Longest(f, chunk) = Searched(pattern, f, q)
    BY Zenon DEF Longest, Searched, q
  <1>7. \A k \in 0 .. b : Ends(pattern, q, b, k) <=> Ends(pattern, chunk, Len(chunk), k)
    BY <1>1, <1>2, EndsInBoundary
  <1>8. Best(pattern, chunk, Len(chunk), b, Longest(f, chunk))
    BY <1>5, <1>6, <1>7 DEF Best
  <1> QED  BY <1>8 DEF b

-----------------------------------------------------------------------------
(* The places where an occurrence may have begun.                          *)

Checkpoint == [start : Nat, matched : Nat]

(* q has a checkpoint for each place of O, in order, up to the letter l.   *)
Lists(q, l, O) ==
    /\ q \in Seq(Checkpoint)
    /\ \A i \in 1 .. Len(q) : q[i].start + q[i].matched = l /\ q[i].start \in O
    /\ \A x \in O : \E i \in 1 .. Len(q) : q[i].start = x
    /\ \A i, k \in 1 .. Len(q) : i < k => q[i].start < q[k].start

LEMMA ListsJoin ==
    ASSUME NEW l, NEW q, NEW r, NEW A \in SUBSET Nat, NEW B \in SUBSET Nat,
           Lists(q, l, A), Lists(r, l, B), \A a \in A, b \in B : a < b
    PROVE  Lists(q \o r, l, A \cup B)
  <1>1. PICK u : u = q \o r
    OBVIOUS
  <1>2. q \in Seq(Checkpoint) /\ r \in Seq(Checkpoint)
    BY DEF Lists
  <1>3. /\ u \in Seq(Checkpoint) /\ Len(u) = Len(q) + Len(r)
        /\ Len(q) \in Nat /\ Len(r) \in Nat
        /\ \A i \in 1 .. Len(q) : u[i] = q[i] /\ i \in 1 .. Len(u)
        /\ \A i \in 1 .. Len(r) : u[Len(q) + i] = r[i] /\ Len(q) + i \in 1 .. Len(u)
    BY <1>1, <1>2
  <1>4. \A i \in 1 .. Len(u) :
           i \notin 1 .. Len(q) => i - Len(q) \in 1 .. Len(r) /\ u[i] = r[i - Len(q)]
    <2> TAKE i \in 1 .. Len(u)
    <2> HAVE i \notin 1 .. Len(q)
    <2>1. i - Len(q) \in 1 .. Len(r) /\ Len(q) + (i - Len(q)) = i
      BY <1>3
    <2> QED  BY <1>3, <2>1
  <1>5. ASSUME NEW i \in 1 .. Len(u)
        PROVE  u[i].start + u[i].matched = l /\ u[i].start \in A \cup B
    <2>1. CASE i \in 1 .. Len(q)
      BY <1>3, <2>1 DEF Lists
    <2>2. CASE i \notin 1 .. Len(q)
      <3>1. i - Len(q) \in 1 .. Len(r) /\ u[i] = r[i - Len(q)]
        BY <1>4, <2>2
      <3> QED  BY <3>1 DEF Lists
    <2> QED  BY <2>1, <2>2
  <1>6. ASSUME NEW x \in A \cup B PROVE \E i \in 1 .. Len(u) : u[i].start = x
    <2>1. CASE x \in A
      <3>1. PICK i \in 1 .. Len(q) : q[i].start = x
        BY <2>1 DEF Lists
      <3> QED  BY <1>3, <3>1
    <2>2. CASE x \in B
      <3>1. PICK i \in 1 .. Len(r) : r[i].start = x
        BY <2>2 DEF Lists
      <3> QED  BY <1>3, <3>1
    <2> QED  BY <2>1, <2>2
  <1>7. ASSUME NEW i \in 1 .. Len(u), NEW k \in 1 .. Len(u), i < k
        PROVE  u[i].start < u[k].start
    <2>1. CASE k \in 1 .. Len(q)
      <3>1. i \in 1 .. Len(q)
        BY <1>3, <1>7, <2>1
      <3> QED  BY <1>3, <1>7, <2>1, <3>1 DEF Lists
    <2>2. CASE i \in 1 .. Len(q) /\ k \notin 1 .. Len(q)
      <3>1. u[i].start \in A /\ u[k].start \in B
        BY <1>3, <1>4, <2>2 DEF Lists
      <3> QED  BY <3>1
    <2>3. CASE i \notin 1 .. Len(q) /\ k \notin 1 .. Len(q)
      <3>1. /\ i - Len(q) \in 1 .. Len(r) /\ k - Len(q) \in 1 .. Len(r)
            /\ i - Len(q) < k - Len(q)
        BY <1>3, <1>4, <1>7, <2>3
      <3> QED  BY <1>4, <2>3, <3>1 DEF Lists
    <2> QED  BY <2>1, <2>2, <2>3
  <1>8. Lists(u, l, A \cup B)
    BY <1>3, <1>5, <1>6, <1>7 DEF Lists
  <1> QED  BY <1>1, <1>8

(* The places before l whose letters end the first n letters of u.         *)
Tails(p, u, n, d, l) == {i \in 0 .. l - 1 : l - i <= d /\ Ends(p, u, n, l - i)}

LEMMA TailsOfBest ==
    ASSUME NEW p, NEW u, NEW n \in Nat, NEW d \in 0 .. n, NEW m, Best(p, u, n, d, m),
           NEW l \in Nat
    PROVE  Tails(p, p, m, m, l) = Tails(p, u, n, d, l)
  <1>1. m \in 0 .. d /\ Ends(p, u, n, m)
    BY DEF Best
  <1>2. ASSUME NEW i \in 0 .. l - 1
        PROVE  l - i <= m /\ Ends(p, p, m, l - i) <=> l - i <= d /\ Ends(p, u, n, l - i)
    <2>1. l - i \in Nat
      OBVIOUS
    <2>2. CASE l - i <= m
      <3>1. l - i \in 0 .. m /\ l - i <= d
        BY <1>1, <2>1, <2>2
      <3>2. Ends(p, u, n, l - i) <=> Ends(p, p, m, l - i)
        BY <1>1, <3>1, EndsInEnd
      <3> QED  BY <2>2, <3>1, <3>2
    <2>3. CASE ~(l - i <= m)
      <3>1. ASSUME l - i <= d, Ends(p, u, n, l - i) PROVE FALSE
        <4>1. l - i \in 0 .. d
          BY <1>1, <2>1, <3>1
        <4> QED  BY <2>3, <3>1, <4>1 DEF Best
      <3> QED  BY <2>3, <3>1
    <2> QED  BY <2>2, <2>3
  <1> QED  BY <1>2 DEF Tails

(* The longest suffix, and then its own.                                   *)
LEMMA TailsStep ==
    ASSUME NEW p, NEW m \in Nat, m # 0, NEW b, Best(p, p, m, m - 1, b),
           NEW l \in Nat, m <= l
    PROVE  /\ Tails(p, p, m, m, l) = {l - m} \cup Tails(p, p, b, b, l)
           /\ \A i \in Tails(p, p, b, b, l) : l - m < i
  <1>1. m - 1 \in 0 .. m /\ b \in 0 .. m - 1
    BY DEF Best
  <1>2. Tails(p, p, b, b, l) = Tails(p, p, m, m - 1, l)
    BY <1>1, TailsOfBest
  <1>3. Ends(p, p, m, m)
    <2>1. \A j \in Int : m - m + j = j
      OBVIOUS
    <2> QED  BY <2>1 DEF Ends
  <1>4. l - m \in 0 .. l - 1 /\ l - (l - m) = m
    OBVIOUS
  <1>5. ASSUME NEW i \in 0 .. l - 1, i # l - m
        PROVE  l - i <= m <=> l - i <= m - 1
    BY <1>5
  <1>6. Tails(p, p, m, m, l) = {l - m} \cup Tails(p, p, m, m - 1, l)
    <2>1. l - m \in Tails(p, p, m, m, l)
      BY <1>3, <1>4 DEF Tails
    <2> QED  BY <1>5, <2>1 DEF Tails
  <1>7. \A i \in Tails(p, p, m, m - 1, l) : l - m < i
    BY DEF Tails
  <1> QED  BY <1>2, <1>6, <1>7

Made(l, m) == [start |-> l - m, matched |-> m]

(* The chain of failures from m, as a function of m.                       *)
Chaining(g, f, l, n) ==
    g = [m \in 0 .. n |-> IF m = 0 THEN <<>> ELSE <<Made(l, m)>> \o g[f[m]]]

LEMMA ChainingExists ==
    ASSUME NEW f, NEW l, NEW n \in Nat, \A k \in 1 .. n : f[k] \in Nat /\ f[k] < k
    PROVE  \E g : Chaining(g, f, l, n)
  <1> DEFINE T == {m \in Nat : m <= n => \E g : Chaining(g, f, l, m)}
  <1>1. 0 \in T
    <2> DEFINE g == [k \in 0 .. 0 |-> <<>>]
    <2>1. \A k \in 0 .. 0 : k = 0
      OBVIOUS
    <2>2. Chaining(g, f, l, 0)
      BY <2>1, Zenon DEF Chaining
    <2> QED  BY <2>2
  <1>2. ASSUME NEW m \in Nat, m \in T PROVE m + 1 \in T
    <2> SUFFICES ASSUME m + 1 <= n PROVE \E g : Chaining(g, f, l, m + 1)
      OBVIOUS
    <2>1. PICK h : Chaining(h, f, l, m)
      BY <1>2
    <2> DEFINE g == [k \in 0 .. m + 1 |->
                       IF k = m + 1 THEN <<Made(l, m + 1)>> \o h[f[m + 1]] ELSE h[k]]
    <2>2. DOMAIN g = 0 .. m + 1 /\ g = [k \in 0 .. m + 1 |-> g[k]]
      OBVIOUS
    <2>3. \A k \in 0 .. m : g[k] = h[k]
      OBVIOUS
    <2>4. g[m + 1] = <<Made(l, m + 1)>> \o h[f[m + 1]]
      OBVIOUS
    <2> HIDE DEF g
    <2>5. ASSUME NEW k \in 0 .. m + 1
          PROVE  g[k] = IF k = 0 THEN <<>> ELSE <<Made(l, k)>> \o g[f[k]]
      <3>1. CASE k = m + 1
        <4>1. f[m + 1] \in 0 .. m /\ k # 0
          BY <3>1
        <4>2. g[f[m + 1]] = h[f[m + 1]]
          BY <2>3, <4>1
        <4> QED  BY <2>4, <3>1, <4>1, <4>2, Zenon
      <3>2. CASE k # m + 1
        <4>1. k \in 0 .. m /\ (k # 0 => f[k] \in 0 .. m)
          BY <3>2
        <4>2. h[k] = IF k = 0 THEN <<>> ELSE <<Made(l, k)>> \o h[f[k]]
          BY <2>1, <4>1, Zenon DEF Chaining
        <4>3. g[k] = h[k] /\ (k # 0 => g[f[k]] = h[f[k]])
          BY <2>3, <4>1
        <4> QED  BY <4>2, <4>3, Zenon
      <3> QED  BY <3>1, <3>2
    <2>6. Chaining(g, f, l, m + 1)
      BY <2>2, <2>5, Zenon DEF Chaining
    <2> QED  BY <2>6
  <1> HIDE DEF T
  <1>3. n \in T
    BY <1>1, <1>2, Induction
  <1> QED  BY <1>3 DEF T

LEMMA ChainLists ==
    ASSUME NEW p, NEW f, NEW n \in Nat, IsPrefixFunction(p, f, n), NEW l \in Nat,
           NEW g, Chaining(g, f, l, n), NEW m \in 0 .. n, m <= l
    PROVE  Lists(g[m], l, Tails(p, p, m, m, l))
  <1>1. \A k \in 0 .. n : g[k] = IF k = 0 THEN <<>> ELSE <<Made(l, k)>> \o g[f[k]]
    BY Zenon DEF Chaining
  <1> DEFINE T == {k \in Nat : \A i \in 0 .. k :
                      i <= n /\ i <= l => Lists(g[i], l, Tails(p, p, i, i, l))}
  <1>2. Lists(g[0], l, Tails(p, p, 0, 0, l))
    <2>1. g[0] = <<>>
      <3>1. 0 \in 0 .. n
        OBVIOUS
      <3> QED  BY <1>1, <3>1, Zenon
    <2>2. Tails(p, p, 0, 0, l) = {}
      BY DEF Tails
    <2> QED  BY <2>1, <2>2 DEF Lists
  <1>3. 0 \in T
    BY <1>2
  <1>4. ASSUME NEW k \in Nat, k \in T PROVE k + 1 \in T
    <2> SUFFICES ASSUME NEW i \in Nat, i = k + 1, i <= n, i <= l
                 PROVE  Lists(g[i], l, Tails(p, p, i, i, l))
      BY <1>4
    <2>1. PICK b : b = f[i]
      OBVIOUS
    <2>2. Best(p, p, i, i - 1, b) /\ i # 0
      BY <2>1 DEF IsPrefixFunction
    <2>3. b \in 0 .. k /\ b <= n /\ b <= l
      BY <2>2 DEF Best
    <2>4. Lists(g[b], l, Tails(p, p, b, b, l))
      BY <1>4, <2>3
    <2>5. g[i] = <<Made(l, i)>> \o g[b]
      <3>1. i \in 0 .. n
        OBVIOUS
      <3> QED  BY <1>1, <2>1, <2>2, <3>1, Zenon
    <2>6. Lists(<<Made(l, i)>>, l, {l - i})
      BY DEF Lists, Made, Checkpoint
    <2>7. /\ Tails(p, p, i, i, l) = {l - i} \cup Tails(p, p, b, b, l)
          /\ \A x \in Tails(p, p, b, b, l) : l - i < x
      BY <2>2, TailsStep
    <2>8. {l - i} \in SUBSET Nat /\ Tails(p, p, b, b, l) \in SUBSET Nat
      BY DEF Tails
    <2>9. Lists(<<Made(l, i)>> \o g[b], l, {l - i} \cup Tails(p, p, b, b, l))
      BY <2>4, <2>6, <2>7, <2>8, ListsJoin
    <2> QED  BY <2>5, <2>7, <2>9
  <1> HIDE DEF T
  <1>5. n \in T
    BY <1>3, <1>4, Induction
  <1> QED  BY <1>5 DEF T

(* Begun finds every place in the chunk where an occurrence may begin.     *)
LEMMA BegunLists ==
    ASSUME NEW S, pattern \in Seq(S), pattern # <<>>, text \in Seq(S),
           NEW chunk \in Seq(S), NEW l, l = Len(text) + Len(chunk)
    PROVE  Lists(Begun(chunk), l, Tails(pattern, chunk, Len(chunk), Len(pattern) - 1, l))
  <1>1. PICK f, n : f = PrefixFunction(pattern) /\ n = Len(pattern)
    OBVIOUS
  <1>2. n \in Nat /\ n # 0 /\ l \in Nat /\ Len(chunk) \in Nat /\ Len(chunk) <= l
    BY <1>1
  <1>3. IsPrefixFunction(pattern, f, n)
    BY <1>1, <1>2, PrefixFunctionIs
  <1> DEFINE g == CHOOSE h : h = [m \in 0 .. Len(pattern) |->
                     IF m = 0 THEN <<>> ELSE <<Candidate(chunk, m)>> \o h[f[m]]]
             b == Least(Len(chunk), n - 1)
             m == Longest(f, chunk)
  <1>4. Begun(chunk) = g[m]
    BY <1>1, Zenon DEF Begun
  <1>5. \A k \in 0 .. Len(pattern) : Candidate(chunk, k) = Made(l, k)
    <2> TAKE k \in 0 .. Len(pattern)
    <2>1. Len(text) + Len(chunk) - k = l - k
      OBVIOUS
    <2> QED  BY <2>1, Zenon DEF Candidate, Made
  <1>6. \E h : Chaining(h, f, l, n)
    <2>1. \A k \in 1 .. n : f[k] \in Nat /\ f[k] < k
      BY <1>3 DEF IsPrefixFunction, Best
    <2> QED  BY <1>2, <2>1, ChainingExists
  <1>7. Chaining(g, f, l, n)
    <2>1. PICK h : Chaining(h, f, l, n)
      BY <1>6
    <2>2. h = [k \in 0 .. Len(pattern) |->
                 IF k = 0 THEN <<>> ELSE <<Candidate(chunk, k)>> \o h[f[k]]]
      BY <1>1, <1>5, <2>1, Zenon DEF Chaining
    <2>3. g = [k \in 0 .. Len(pattern) |->
                 IF k = 0 THEN <<>> ELSE <<Candidate(chunk, k)>> \o g[f[k]]]
      BY <2>2, Zenon
    <2> QED  BY <1>1, <1>5, <2>3, Zenon DEF Chaining
  <1> HIDE DEF g, m
  <1>8. Best(pattern, chunk, Len(chunk), b, m)
    BY <1>1, <1>3, LongestBest DEF m
  <1>9. b \in 0 .. Len(chunk) /\ b <= n
    BY <1>2 DEF Least
  <1>10. m \in 0 .. n /\ m <= l
    BY <1>2, <1>8, <1>9 DEF Best
  <1>11. Lists(g[m], l, Tails(pattern, pattern, m, m, l))
    BY <1>2, <1>3, <1>7, <1>10, ChainLists
  <1>12. Tails(pattern, pattern, m, m, l) = Tails(pattern, chunk, Len(chunk), b, l)
    BY <1>2, <1>8, <1>9, TailsOfBest
  <1>13. Tails(pattern, chunk, Len(chunk), b, l)
            = Tails(pattern, chunk, Len(chunk), n - 1, l)
    <2>1. \A k : Ends(pattern, chunk, Len(chunk), k) => (k <= b <=> k <= n - 1)
      BY <1>2 DEF Ends, Least
    <2> QED  BY <2>1 DEF Tails
  <1> QED  BY <1>1, <1>4, <1>11, <1>12, <1>13

-----------------------------------------------------------------------------
(* The places in a text that is longer by a chunk.                         *)

LEMMA SameSequence ==
    ASSUME NEW S, NEW s \in Seq(S), NEW t \in Seq(S), Len(s) = Len(t)
    PROVE  s = t <=> \A i \in 1 .. Len(s) : s[i] = t[i]
  OBVIOUS

LEMMA PrefixIs ==
    ASSUME NEW S, NEW s \in Seq(S), NEW t \in Seq(S)
    PROVE  IsPrefix(s, t) <=> Len(s) <= Len(t) /\ \A i \in 1 .. Len(s) : s[i] = t[i]
  <1>1. Len(s) \in Nat /\ Len(t) \in Nat
    OBVIOUS
  <1> SUFFICES ASSUME Len(s) <= Len(t)
               PROVE  SubSeq(s, 1, Len(s)) = SubSeq(t, 1, Len(s))
                         <=> \A i \in 1 .. Len(s) : s[i] = t[i]
    BY <1>1 DEF IsPrefix
  <1>2. PICK a, b : a = SubSeq(s, 1, Len(s)) /\ b = SubSeq(t, 1, Len(s))
    OBVIOUS
  <1>3. /\ a \in Seq(S) /\ b \in Seq(S) /\ Len(a) = Len(s) /\ Len(b) = Len(s)
        /\ \A i \in 1 .. Len(s) : a[i] = s[i] /\ b[i] = t[i]
    BY <1>1, <1>2
  <1>4. a = b <=> \A i \in 1 .. Len(s) : a[i] = b[i]
    BY <1>3, SameSequence
  <1> QED  BY <1>2, <1>3, <1>4

(* The rest of p after its first m letters begins c, or goes on after it.  *)
Fits(p, m, c) == Len(p) - m <= Len(c) /\ \A j \in 1 .. Len(p) - m : c[j] = p[m + j]

GoesOn(p, m, c) == Len(c) < Len(p) - m /\ \A j \in 1 .. Len(c) : c[j] = p[m + j]

(* r is the rest of p after its first m letters.                          *)
Remains(r, p, m) ==
    Len(r) = Len(p) - m /\ \A j \in 1 .. Len(p) - m : r[j] = p[m + j]

LEMMA RestRemains ==
    ASSUME NEW S, NEW p \in Seq(S), NEW m \in 0 .. Len(p)
    PROVE  /\ SubSeq(p, m + 1, Len(p)) \in Seq(S)
           /\ Remains(SubSeq(p, m + 1, Len(p)), p, m)
  BY DEF Remains

LEMMA RestIs ==
    ASSUME NEW S, NEW p \in Seq(S), NEW m \in 0 .. Len(p), NEW c \in Seq(S),
           NEW r \in Seq(S), Remains(r, p, m)
    PROVE  /\ IsPrefix(r, c) <=> Fits(p, m, c)
           /\ IsStrictPrefix(c, r) <=> GoesOn(p, m, c)
  <1>1. /\ Len(r) = Len(p) - m /\ Len(r) \in Nat /\ Len(c) \in Nat
        /\ \A j \in 1 .. Len(r) : r[j] = p[m + j]
    BY DEF Remains
  <1>2. IsPrefix(r, c) <=> Fits(p, m, c)
    <2>1. IsPrefix(r, c) <=> Len(r) <= Len(c) /\ \A j \in 1 .. Len(r) : r[j] = c[j]
      BY PrefixIs
    <2> QED  BY <1>1, <2>1 DEF Fits
  <1>3. IsStrictPrefix(c, r) <=> GoesOn(p, m, c)
    <2>1. IsPrefix(c, r) <=> Len(c) <= Len(r) /\ \A j \in 1 .. Len(c) : c[j] = r[j]
      BY PrefixIs
    <2>2. Len(c) = Len(r) => (c = r <=> \A j \in 1 .. Len(c) : c[j] = r[j])
      BY SameSequence
    <2>3. c = r => Len(c) = Len(r)
      OBVIOUS
    <2>4. IsStrictPrefix(c, r) <=> Len(c) < Len(r) /\ \A j \in 1 .. Len(c) : c[j] = r[j]
      <3>1. CASE Len(c) = Len(r)
        BY <1>1, <2>1, <2>2, <3>1 DEF IsStrictPrefix
      <3>2. CASE Len(c) # Len(r)
        <4>1. c # r /\ (Len(c) <= Len(r) <=> Len(c) < Len(r))
          BY <1>1, <2>3, <3>2
        <4> QED  BY <2>1, <4>1 DEF IsStrictPrefix
      <3> QED  BY <3>1, <3>2
    <2> QED  BY <1>1, <2>4 DEF GoesOn
  <1> QED  BY <1>2, <1>3

LEMMA AtIs ==
    ASSUME NEW S, NEW p \in Seq(S), NEW u \in Seq(S), NEW i \in Nat
    PROVE  At(p, u, i) <=> /\ i + Len(p) <= Len(u)
                           /\ \A j \in 1 .. Len(p) : u[i + j] = p[j]
  <1>1. Len(p) \in Nat /\ Len(u) \in Nat
    OBVIOUS
  <1> SUFFICES ASSUME i + Len(p) <= Len(u)
               PROVE  SubSeq(u, i + 1, i + Len(p)) = p
                         <=> \A j \in 1 .. Len(p) : u[i + j] = p[j]
    BY DEF At
  <1>2. PICK a : a = SubSeq(u, i + 1, i + Len(p))
    OBVIOUS
  <1>3. /\ a \in Seq(S) /\ Len(a) = Len(p)
        /\ \A j \in 1 .. Len(p) : a[j] = u[i + j]
    <2>1. PICK x, y : x = i + 1 /\ y = i + Len(p)
      OBVIOUS
    <2>2. /\ x \in Int /\ y \in Int /\ y - x + 1 = Len(p) /\ a = SubSeq(u, x, y)
          /\ \A j \in 1 .. Len(p) : x + j - 1 = i + j
          /\ x <= y \/ Len(p) = 0
      BY <1>1, <1>2, <2>1
    <2>3. \A j \in x .. y : u[j] \in S
      BY <1>1, <2>1
    <2>4. /\ a \in Seq(S)
          /\ Len(a) = IF x <= y THEN y - x + 1 ELSE 0
          /\ \A j \in 1 .. y - x + 1 : a[j] = u[x + j - 1]
      BY <2>2, <2>3, SubSeqProperties
    <2> QED  BY <1>1, <2>2, <2>4
  <1>4. a = p <=> \A j \in 1 .. Len(a) : a[j] = p[j]
    BY <1>3, SameSequence
  <1> QED  BY <1>2, <1>3, <1>4

(* u is t and then c.                                                      *)
Joined(u, t, c) ==
    /\ Len(t) \in Nat /\ Len(c) \in Nat /\ Len(u) = Len(t) + Len(c)
    /\ \A i \in 1 .. Len(t) : u[i] = t[i]
    /\ \A i \in 1 .. Len(c) : u[Len(t) + i] = c[i]

LEMMA JoinedIs ==
    ASSUME NEW S, NEW t \in Seq(S), NEW c \in Seq(S)
    PROVE  t \o c \in Seq(S) /\ Joined(t \o c, t, c)
  BY DEF Joined

LEMMA EndsFrom ==
    ASSUME NEW p, NEW u, NEW n \in Nat, NEW i \in 0 .. n
    PROVE  Ends(p, u, n, n - i) <=> \A j \in 1 .. n - i : u[i + j] = p[j]
  <1>1. n - i \in 0 .. n /\ \A j \in Int : n - (n - i) + j = i + j
    OBVIOUS
  <1> QED  BY <1>1 DEF Ends

(* An end that lies in c.                                                  *)
LEMMA EndsInside ==
    ASSUME NEW p, NEW u, NEW t, NEW c, Joined(u, t, c), NEW k \in 0 .. Len(c)
    PROVE  Ends(p, u, Len(u), k) <=> Ends(p, c, Len(c), k)
  <1>1. /\ Len(t) \in Nat /\ Len(c) \in Nat /\ Len(u) \in Nat /\ k \in 0 .. Len(u)
        /\ \A j \in 1 .. k : /\ Len(c) - k + j \in 1 .. Len(c)
                             /\ Len(u) - k + j = Len(t) + (Len(c) - k + j)
    BY DEF Joined
  <1>2. \A j \in 1 .. k : u[Len(u) - k + j] = c[Len(c) - k + j]
    BY <1>1 DEF Joined
  <1> QED  BY <1>1, <1>2 DEF Ends

(* An end that begins in t and goes through c.                             *)
LEMMA EndsAcross ==
    ASSUME NEW p, NEW u, NEW t, NEW c, Joined(u, t, c), NEW i \in 0 .. Len(t)
    PROVE  Ends(p, u, Len(u), Len(u) - i)
              <=> /\ Ends(p, t, Len(t), Len(t) - i)
                  /\ \A j \in 1 .. Len(c) : c[j] = p[Len(t) - i + j]
  <1>1. /\ Len(t) \in Nat /\ Len(c) \in Nat /\ Len(u) \in Nat
        /\ Len(u) = Len(t) + Len(c) /\ i \in 0 .. Len(u)
    BY DEF Joined
  <1>2. Ends(p, u, Len(u), Len(u) - i) <=> \A j \in 1 .. Len(u) - i : u[i + j] = p[j]
    BY <1>1, EndsFrom, ZenonT(60)
  <1>3. Ends(p, t, Len(t), Len(t) - i) <=> \A j \in 1 .. Len(t) - i : t[i + j] = p[j]
    BY <1>1, EndsFrom, ZenonT(60)
  <1>4. \A j \in 1 .. Len(t) - i : u[i + j] = t[i + j] /\ j \in 1 .. Len(u) - i
    <2> TAKE j \in 1 .. Len(t) - i
    <2>1. i + j \in 1 .. Len(t) /\ j \in 1 .. Len(u) - i
      BY <1>1
    <2> QED  BY <2>1 DEF Joined
  <1>5. \A j \in 1 .. Len(c) : /\ u[i + (Len(t) - i + j)] = c[j]
                               /\ Len(t) - i + j \in 1 .. Len(u) - i
    <2> TAKE j \in 1 .. Len(c)
    <2>1. i + (Len(t) - i + j) = Len(t) + j /\ Len(t) - i + j \in 1 .. Len(u) - i
      BY <1>1
    <2> QED  BY <2>1 DEF Joined
  <1>6. \A j \in 1 .. Len(u) - i :
           j \notin 1 .. Len(t) - i => /\ j - (Len(t) - i) \in 1 .. Len(c)
                                     /\ Len(t) - i + (j - (Len(t) - i)) = j
    BY <1>1
  <1>7. ASSUME \A j \in 1 .. Len(u) - i : u[i + j] = p[j]
        PROVE  /\ \A j \in 1 .. Len(t) - i : t[i + j] = p[j]
               /\ \A j \in 1 .. Len(c) : c[j] = p[Len(t) - i + j]
    BY <1>4, <1>5, <1>7
  <1>8. ASSUME \A j \in 1 .. Len(t) - i : t[i + j] = p[j],
               \A j \in 1 .. Len(c) : c[j] = p[Len(t) - i + j],
               NEW j \in 1 .. Len(u) - i
        PROVE  u[i + j] = p[j]
    <2>1. CASE j \in 1 .. Len(t) - i
      BY <1>4, <1>8, <2>1
    <2>2. CASE j \notin 1 .. Len(t) - i
      <3>1. PICK k : k = j - (Len(t) - i)
        OBVIOUS
      <3>2. k \in 1 .. Len(c) /\ Len(t) - i + k = j
        BY <1>6, <2>2, <3>1
      <3> QED  BY <1>5, <1>8, <3>2
    <2> QED  BY <2>1, <2>2
  <1> QED  BY <1>2, <1>3, <1>7, <1>8

(* The places open at the end of t whose occurrence goes on through c.     *)
WentOn(p, t, c, d) == {i \in Tails(p, t, Len(t), d, Len(t)) : GoesOn(p, Len(t) - i, c)}

(* The open places after a chunk: those that went on, and those in it.     *)
LEMMA TailsGrow ==
    ASSUME NEW p, Len(p) \in Nat, NEW u, NEW t, NEW c, Joined(u, t, c),
           NEW d, d = Len(p) - 1
    PROVE  Tails(p, u, Len(u), d, Len(u)) = WentOn(p, t, c, d) \cup Tails(p, c, Len(c), d, Len(u))
  <1>1. /\ Len(t) \in Nat /\ Len(c) \in Nat /\ Len(u) \in Nat
        /\ Len(u) = Len(t) + Len(c)
    BY DEF Joined
  <1>2. ASSUME NEW i \in 0 .. Len(u) - 1, i < Len(t)
        PROVE  i \in Tails(p, u, Len(u), d, Len(u))
                 <=> i \in Tails(p, t, Len(t), d, Len(t)) /\ GoesOn(p, Len(t) - i, c)
    <2>1. i \in 0 .. Len(t) /\ i \in 0 .. Len(t) - 1
      BY <1>1, <1>2
    <2>2. Len(u) - i <= d <=> Len(c) < Len(p) - (Len(t) - i)
      BY <1>1
    <2>3. Len(u) - i <= d => Len(t) - i <= d
      BY <1>1
    <2>4. Ends(p, u, Len(u), Len(u) - i)
              <=> /\ Ends(p, t, Len(t), Len(t) - i)
                  /\ \A j \in 1 .. Len(c) : c[j] = p[Len(t) - i + j]
      BY <2>1, EndsAcross, SMTT(60)
    <2> QED  BY <2>1, <2>2, <2>3, <2>4 DEF Tails, GoesOn
  <1>3. ASSUME NEW i \in 0 .. Len(u) - 1, i >= Len(t)
        PROVE  i \in Tails(p, u, Len(u), d, Len(u))
                 <=> i \in Tails(p, c, Len(c), d, Len(u))
    <2>1. Len(u) - i \in 0 .. Len(c)
      BY <1>1, <1>3
    <2>2. Ends(p, u, Len(u), Len(u) - i) <=> Ends(p, c, Len(c), Len(u) - i)
      BY <2>1, EndsInside
    <2> QED  BY <2>2 DEF Tails
  <1>4. \A i \in Tails(p, u, Len(u), d, Len(u)) : i \in 0 .. Len(u) - 1
    BY DEF Tails
  <1>5. \A i \in Tails(p, t, Len(t), d, Len(t)) : i \in 0 .. Len(u) - 1 /\ i < Len(t)
    BY <1>1 DEF Tails
  <1>6. \A i \in Tails(p, c, Len(c), d, Len(u)) : i \in 0 .. Len(u) - 1 /\ i >= Len(t)
    BY <1>1 DEF Tails, Ends
  <1>7. \A i \in 0 .. Len(u) - 1 : i < Len(t) \/ i >= Len(t)
    BY <1>1
  <1> QED  BY <1>2, <1>3, <1>4, <1>5, <1>6, <1>7 DEF WentOn

PlacesIn(p, u) == {i \in 0 .. Len(u) : At(p, u, i)}

(* The places open at the end of t whose occurrence ends in c.             *)
EndIn(p, t, c, d) == {i \in Tails(p, t, Len(t), d, Len(t)) : Fits(p, Len(t) - i, c)}

(* The places of c, moved by l.                                            *)
Moved(p, c, l) == {i \in l .. l + Len(c) : At(p, c, i - l)}

(* The occurrences after a chunk: those before, those that it completes,   *)
(* and those in it.                                                        *)
LEMMA PlacesGrow ==
    ASSUME NEW S, NEW p \in Seq(S), p # <<>>, NEW t \in Seq(S), NEW c \in Seq(S),
           NEW u \in Seq(S), Joined(u, t, c)
    PROVE  PlacesIn(p, u)
              = PlacesIn(p, t) \cup EndIn(p, t, c, Len(p) - 1) \cup Moved(p, c, Len(t))
  <1>1. /\ Len(t) \in Nat /\ Len(c) \in Nat /\ Len(u) \in Nat
        /\ Len(u) = Len(t) + Len(c) /\ Len(p) \in Nat /\ Len(p) >= 1
    BY DEF Joined
  <1> DEFINE O == Tails(p, t, Len(t), Len(p) - 1, Len(t))
  <1>2. ASSUME NEW i \in 0 .. Len(u), i + Len(p) <= Len(t)
        PROVE  /\ At(p, u, i) <=> At(p, t, i)
               /\ i \in 0 .. Len(t) /\ i \notin O /\ i < Len(t)
    <2>1. i \in Nat /\ i + Len(p) <= Len(u) /\ i \in 0 .. Len(t) /\ i < Len(t)
      BY <1>1, <1>2
    <2>2. \A j \in 1 .. Len(p) : u[i + j] = t[i + j]
      <3> TAKE j \in 1 .. Len(p)
      <3>1. i + j \in 1 .. Len(t)
        BY <1>1, <1>2
      <3> QED  BY <3>1 DEF Joined
    <2>3. At(p, u, i) <=> \A j \in 1 .. Len(p) : u[i + j] = p[j]
      BY <2>1, AtIs
    <2>4. At(p, t, i) <=> \A j \in 1 .. Len(p) : t[i + j] = p[j]
      BY <1>2, <2>1, AtIs
    <2>5. i \notin O
      BY <1>1, <1>2 DEF Tails
    <2> QED  BY <2>1, <2>2, <2>3, <2>4, <2>5
  <1>3. ASSUME NEW i \in 0 .. Len(u), i < Len(t), ~(i + Len(p) <= Len(t))
        PROVE  /\ At(p, u, i) <=> i \in O /\ Fits(p, Len(t) - i, c)
               /\ ~At(p, t, i)
    <2>1. i \in Nat /\ i \in 0 .. Len(t) /\ i \in 0 .. Len(t) - 1
      BY <1>1, <1>3
    <2>2. ~At(p, t, i)
      BY <1>1, <1>3, <2>1, AtIs
    <2>3. At(p, u, i) <=> /\ i + Len(p) <= Len(u)
                          /\ \A j \in 1 .. Len(p) : u[i + j] = p[j]
      BY <2>1, AtIs
    <2>4. i \in O <=> \A j \in 1 .. Len(t) - i : t[i + j] = p[j]
      <3>1. Len(t) - i <= Len(p) - 1
        BY <1>1, <1>3, <2>1
      <3>2. Ends(p, t, Len(t), Len(t) - i) <=> \A j \in 1 .. Len(t) - i : t[i + j] = p[j]
        <4>1. PICK n : n = Len(t)
          OBVIOUS
        <4>2. n \in Nat /\ i \in 0 .. n
          BY <1>1, <2>1, <4>1
        <4>3. Ends(p, t, n, n - i) <=> \A j \in 1 .. n - i : t[i + j] = p[j]
          BY <4>2, EndsFrom
        <4> QED  BY <4>1, <4>3
      <3>3. i \in O <=> Ends(p, t, Len(t), Len(t) - i)
        BY <2>1, <3>1 DEF Tails
      <3> QED  BY <3>2, <3>3
    <2>5. PICK r : r = Len(p) - (Len(t) - i)
      OBVIOUS
    <2>6. r \in Nat /\ (r <= Len(c) <=> i + Len(p) <= Len(u))
      BY <1>1, <1>3, <2>1, <2>5
    <2>7. Fits(p, Len(t) - i, c)
            <=> r <= Len(c) /\ \A j \in 1 .. r : c[j] = p[Len(t) - i + j]
      BY <2>5 DEF Fits
    <2>8. \A j \in 1 .. Len(t) - i : u[i + j] = t[i + j] /\ j \in 1 .. Len(p)
      <3> TAKE j \in 1 .. Len(t) - i
      <3>1. i + j \in 1 .. Len(t) /\ j \in 1 .. Len(p)
        BY <1>1, <1>3, <2>1
      <3> QED  BY <3>1 DEF Joined
    <2>9. \A j \in 1 .. Len(c) : u[i + (Len(t) - i + j)] = c[j]
      <3> TAKE j \in 1 .. Len(c)
      <3>1. i + (Len(t) - i + j) = Len(t) + j
        BY <1>1
      <3> QED  BY <3>1 DEF Joined
    <2>10. \A j \in 1 .. r : Len(t) - i + j \in 1 .. Len(p)
      BY <1>1, <1>3, <2>1, <2>5
    <2>11. ASSUME r <= Len(c), \A j \in 1 .. Len(p) : u[i + j] = p[j]
           PROVE  /\ \A j \in 1 .. Len(t) - i : t[i + j] = p[j]
                  /\ \A j \in 1 .. r : c[j] = p[Len(t) - i + j]
      <3>1. \A j \in 1 .. r : j \in 1 .. Len(c)
        BY <1>1, <2>6, <2>11
      <3>2. \A j \in 1 .. r : u[i + (Len(t) - i + j)] = p[Len(t) - i + j]
        BY <2>10, <2>11
      <3>3. \A j \in 1 .. r : c[j] = p[Len(t) - i + j]
        BY <2>9, <3>1, <3>2
      <3> QED  BY <2>8, <2>11, <3>3
    <2>12. ASSUME r <= Len(c),
                  \A j \in 1 .. Len(t) - i : t[i + j] = p[j],
                  \A j \in 1 .. r : c[j] = p[Len(t) - i + j],
                  NEW j \in 1 .. Len(p)
           PROVE  u[i + j] = p[j]
      <3>1. CASE j \in 1 .. Len(t) - i
        BY <2>8, <2>12, <3>1
      <3>2. CASE j \notin 1 .. Len(t) - i
        <4>1. PICK k : k = j - (Len(t) - i)
          OBVIOUS
        <4>2. k \in 1 .. r /\ k \in 1 .. Len(c) /\ Len(t) - i + k = j
          BY <1>1, <2>1, <2>5, <2>6, <2>12, <3>2, <4>1
        <4> QED  BY <2>9, <2>12, <4>2
      <3> QED  BY <3>1, <3>2
    <2> QED  BY <2>2, <2>3, <2>4, <2>6, <2>7, <2>11, <2>12
  <1>4. ASSUME NEW i \in 0 .. Len(u), i >= Len(t)
        PROVE  At(p, u, i) <=> At(p, c, i - Len(t))
    <2>1. PICK k : k = i - Len(t)
      OBVIOUS
    <2>2. k \in Nat /\ i \in Nat /\ (i + Len(p) <= Len(u) <=> k + Len(p) <= Len(c))
      BY <1>1, <1>4, <2>1
    <2>3. At(p, u, i) <=> /\ i + Len(p) <= Len(u)
                          /\ \A j \in 1 .. Len(p) : u[i + j] = p[j]
      BY <2>2, AtIs
    <2>4. At(p, c, k) <=> /\ k + Len(p) <= Len(c)
                          /\ \A j \in 1 .. Len(p) : c[k + j] = p[j]
      BY <2>2, AtIs
    <2>5. ASSUME k + Len(p) <= Len(c), NEW j \in 1 .. Len(p) PROVE u[i + j] = c[k + j]
      <3>1. k + j \in 1 .. Len(c) /\ i + j = Len(t) + (k + j)
        BY <1>1, <1>4, <2>1, <2>2, <2>5
      <3> QED  BY <3>1 DEF Joined
    <2>6. At(p, u, i) <=> At(p, c, k)
      BY <2>2, <2>3, <2>4, <2>5
    <2> QED  BY <2>1, <2>6
  <1>5. ASSUME NEW i \in 0 .. Len(u), i >= Len(t) PROVE i \notin O /\ ~(At(p, t, i))
    <2>1. ~(i + Len(p) <= Len(t)) /\ i \in Nat
      BY <1>1, <1>5
    <2> QED  BY <1>5, <2>1, AtIs DEF Tails
  <1>6. \A i \in O : i \in 0 .. Len(u) /\ i < Len(t)
    BY <1>1 DEF Tails
  <1>7. \A i \in 0 .. Len(t) : i \in 0 .. Len(u)
    BY <1>1
  <1>8. \A i \in Len(t) .. Len(u) : i \in 0 .. Len(u) /\ i >= Len(t) /\ ~(i < Len(t))
    BY <1>1
  <1>9. \A i \in 0 .. Len(u) : i < Len(t) => i \in 0 .. Len(t) /\ i \notin Len(t) .. Len(u)
    BY <1>1
  <1>10. \A i \in 0 .. Len(u) : ~(i < Len(t)) => i >= Len(t) /\ i \in Len(t) .. Len(u)
    BY <1>1
  <1> HIDE DEF O
  <1>11. ASSUME NEW i \in 0 .. Len(u)
         PROVE  At(p, u, i) <=> \/ i \in PlacesIn(p, t)
                                \/ i \in O /\ Fits(p, Len(t) - i, c)
                                \/ i \in Len(t) .. Len(u) /\ At(p, c, i - Len(t))
    <2>1. CASE i < Len(t) /\ i + Len(p) <= Len(t)
      BY <1>2, <1>9, <2>1 DEF PlacesIn
    <2>2. CASE i < Len(t) /\ ~(i + Len(p) <= Len(t))
      BY <1>3, <1>9, <2>2 DEF PlacesIn
    <2>3. CASE ~(i < Len(t))
      BY <1>4, <1>5, <1>10, <2>3 DEF PlacesIn
    <2> QED  BY <2>1, <2>2, <2>3
  <1>12. PlacesIn(p, u) = PlacesIn(p, t) \cup {i \in O : Fits(p, Len(t) - i, c)}
                         \cup {i \in Len(t) .. Len(u) : At(p, c, i - Len(t))}
    BY <1>6, <1>7, <1>8, <1>11 DEF PlacesIn, O
  <1>13. Moved(p, c, Len(t)) = {i \in Len(t) .. Len(u) : At(p, c, i - Len(t))}
    BY <1>1, Zenon DEF Moved
  <1>14. EndIn(p, t, c, Len(p) - 1) = {i \in O : Fits(p, Len(t) - i, c)}
    BY Zenon DEF EndIn, O
  <1> HIDE DEF O
  <1> QED  BY <1>12, <1>13, <1>14

-----------------------------------------------------------------------------
(* The places found, in their order.                                       *)

LEMMA FunctionIsSequence ==
    ASSUME NEW S, NEW n \in Nat, NEW f \in [1 .. n -> S]
    PROVE  f \in Seq(S) /\ Len(f) = n
  OBVIOUS

(* q has the numbers of O, in order.                                       *)
Rises(q, O) ==
    /\ q \in Seq(Nat)
    /\ \A i \in 1 .. Len(q) : q[i] \in O
    /\ \A x \in O : \E i \in 1 .. Len(q) : q[i] = x
    /\ \A i, k \in 1 .. Len(q) : i < k => q[i] < q[k]

LEMMA SelectedLists ==
    ASSUME NEW q, NEW l, NEW O, Lists(q, l, O), NEW A, NEW C \in SUBSET O,
           \A i \in 1 .. Len(q) : q[i] \in A <=> q[i].start \in C
    PROVE  Lists(Selected(q, A), l, C)
  <1>1. PICK r : r = Selected(q, A)
    OBVIOUS
  <1>2. q \in Seq(Checkpoint)
    BY DEF Lists
  <1>3. r \in Seq(Checkpoint) /\ Picks(r, q, A)
    BY <1>1, <1>2, SelectedPicks
  <1>4. ASSUME NEW i \in 1 .. Len(r)
        PROVE  r[i].start + r[i].matched = l /\ r[i].start \in C
    <2>1. PICK j \in 1 .. Len(q) : q[j] = r[i] /\ r[i] \in A
      BY <1>3 DEF Picks
    <2> QED  BY <2>1 DEF Lists
  <1>5. ASSUME NEW x \in C PROVE \E i \in 1 .. Len(r) : r[i].start = x
    <2>1. PICK j \in 1 .. Len(q) : q[j].start = x
      BY DEF Lists
    <2>2. q[j] \in A
      BY <2>1
    <2>3. PICK i \in 1 .. Len(r) : r[i] = q[j]
      BY <1>3, <2>2 DEF Picks
    <2> QED  BY <2>1, <2>3
  <1>6. ASSUME NEW i \in 1 .. Len(r), NEW k \in 1 .. Len(r), i < k
        PROVE  r[i].start < r[k].start
    <2>1. PICK j, m \in 1 .. Len(q) : j < m /\ q[j] = r[i] /\ q[m] = r[k]
      BY <1>3, <1>6 DEF Picks
    <2>2. q[j].start < q[m].start
      BY <2>1 DEF Lists
    <2> QED  BY <2>1, <2>2
  <1>7. Lists(r, l, C)
    BY <1>3, <1>4, <1>5, <1>6 DEF Lists
  <1> QED  BY <1>1, <1>7

LEMMA StartsRise ==
    ASSUME NEW q, NEW l, NEW O, Lists(q, l, O)
    PROVE  Rises([i \in DOMAIN q |-> q[i].start], O)
  <1>1. PICK r : r = [i \in DOMAIN q |-> q[i].start]
    OBVIOUS
  <1>2. q \in Seq(Checkpoint)
    BY DEF Lists
  <1>3. DOMAIN q = 1 .. Len(q) /\ Len(q) \in Nat /\ \A i \in 1 .. Len(q) : q[i].start \in Nat
    <2>1. \A i \in 1 .. Len(q) : q[i] \in Checkpoint
      BY <1>2
    <2>2. DOMAIN q = 1 .. Len(q) /\ Len(q) \in Nat
      BY <1>2
    <2> QED  BY <2>1, <2>2 DEF Checkpoint
  <1>4. r \in [1 .. Len(q) -> Nat]
    BY <1>1, <1>3
  <1>5. r \in Seq(Nat) /\ Len(r) = Len(q)
    BY <1>3, <1>4
  <1>6. \A i \in 1 .. Len(q) : r[i] = q[i].start
    BY <1>1, <1>3
  <1>7. Rises(r, O)
    BY <1>5, <1>6 DEF Rises, Lists
  <1> QED  BY <1>1, <1>7

(* The numbers of a range that are in A.                                   *)
LEMMA NumbersRise ==
    ASSUME NEW n \in Nat, NEW A
    PROVE  Rises(Selected([i \in 1 .. n |-> i - 1], A), {i \in 0 .. n - 1 : i \in A})
  <1>1. PICK q, r : q = [i \in 1 .. n |-> i - 1] /\ r = Selected(q, A)
    OBVIOUS
  <1>2. q \in [1 .. n -> Nat]
    BY <1>1
  <1>3. q \in Seq(Nat) /\ Len(q) = n
    BY <1>2
  <1>4. \A i \in 1 .. n : q[i] = i - 1 /\ i - 1 \in 0 .. n - 1
    BY <1>1
  <1>5. r \in Seq(Nat) /\ Picks(r, q, A)
    BY <1>1, <1>3, SelectedPicks
  <1>6. ASSUME NEW i \in 1 .. Len(r) PROVE r[i] \in A /\ r[i] \in 0 .. n - 1
    <2>1. PICK j \in 1 .. n : q[j] = r[i] /\ r[i] \in A
      BY <1>3, <1>5 DEF Picks
    <2> QED  BY <1>4, <2>1
  <1>7. ASSUME NEW x \in 0 .. n - 1, x \in A PROVE \E i \in 1 .. Len(r) : r[i] = x
    <2>1. x + 1 \in 1 .. n /\ x + 1 - 1 = x
      OBVIOUS
    <2>2. q[x + 1] = x
      BY <1>4, <2>1
    <2>3. x + 1 \in 1 .. Len(q) /\ q[x + 1] \in A
      BY <1>3, <1>7, <2>1, <2>2
    <2>4. PICK i \in 1 .. Len(r) : r[i] = q[x + 1]
      BY <1>5, <2>3 DEF Picks
    <2> QED  BY <2>2, <2>4
  <1>8. ASSUME NEW i \in 1 .. Len(r), NEW k \in 1 .. Len(r), i < k PROVE r[i] < r[k]
    <2>1. PICK j, m \in 1 .. n : j < m /\ q[j] = r[i] /\ q[m] = r[k]
      BY <1>3, <1>5, <1>8 DEF Picks
    <2> QED  BY <1>4, <2>1
  <1>9. Rises(r, {i \in 0 .. n - 1 : i \in A})
    BY <1>5, <1>6, <1>7, <1>8 DEF Rises
  <1> QED  BY <1>1, <1>9

LEMMA RisesMoved ==
    ASSUME NEW q, NEW O, Rises(q, O), NEW l \in Nat, NEW C,
           \A x \in Nat : x \in C <=> x - l \in O, C \in SUBSET Nat
    PROVE  Rises([i \in DOMAIN q |-> l + q[i]], C)
  <1>1. PICK r : r = [i \in DOMAIN q |-> l + q[i]]
    OBVIOUS
  <1>2. q \in Seq(Nat)
    BY DEF Rises
  <1>3. DOMAIN q = 1 .. Len(q) /\ Len(q) \in Nat /\ \A i \in 1 .. Len(q) : q[i] \in Nat
    BY <1>2
  <1>4. r \in [1 .. Len(q) -> Nat]
    BY <1>1, <1>3
  <1>5. r \in Seq(Nat) /\ Len(r) = Len(q)
    BY <1>3, <1>4, FunctionIsSequence
  <1>6. \A i \in 1 .. Len(q) : r[i] = l + q[i] /\ r[i] \in Nat /\ r[i] - l = q[i]
    BY <1>1, <1>3
  <1>7. ASSUME NEW x \in C PROVE \E i \in 1 .. Len(q) : r[i] = x
    <2>1. PICK i \in 1 .. Len(q) : q[i] = x - l
      BY DEF Rises
    <2>2. l + (x - l) = x
      OBVIOUS
    <2> QED  BY <1>6, <2>1, <2>2
  <1>8. \A i \in 1 .. Len(q) : r[i] \in C
    BY <1>6 DEF Rises
  <1>9. ASSUME NEW i \in 1 .. Len(q), NEW k \in 1 .. Len(q), i < k PROVE r[i] < r[k]
    <2>1. q[i] < q[k]
      BY <1>9 DEF Rises
    <2> QED  BY <1>3, <1>6, <2>1
  <1>10. Rises(r, C)
    BY <1>5, <1>7, <1>8, <1>9 DEF Rises
  <1> QED  BY <1>1, <1>10

LEMMA RisesJoin ==
    ASSUME NEW q, NEW r, NEW A, NEW B, Rises(q, A), Rises(r, B),
           \A a \in A, b \in B : a < b
    PROVE  Rises(q \o r, A \cup B)
  <1>1. PICK u : u = q \o r
    OBVIOUS
  <1>2. q \in Seq(Nat) /\ r \in Seq(Nat)
    BY DEF Rises
  <1>3. /\ u \in Seq(Nat) /\ Len(u) = Len(q) + Len(r)
        /\ Len(q) \in Nat /\ Len(r) \in Nat
        /\ \A i \in 1 .. Len(q) : u[i] = q[i] /\ i \in 1 .. Len(u)
        /\ \A i \in 1 .. Len(r) : u[Len(q) + i] = r[i] /\ Len(q) + i \in 1 .. Len(u)
    BY <1>1, <1>2
  <1>4. \A i \in 1 .. Len(u) :
           i \notin 1 .. Len(q) => i - Len(q) \in 1 .. Len(r) /\ u[i] = r[i - Len(q)]
    <2> TAKE i \in 1 .. Len(u)
    <2> HAVE i \notin 1 .. Len(q)
    <2>1. i - Len(q) \in 1 .. Len(r) /\ Len(q) + (i - Len(q)) = i
      BY <1>3
    <2> QED  BY <1>3, <2>1
  <1>5. ASSUME NEW i \in 1 .. Len(u) PROVE u[i] \in A \cup B
    BY <1>3, <1>4 DEF Rises
  <1>6. ASSUME NEW x \in A \cup B PROVE \E i \in 1 .. Len(u) : u[i] = x
    <2>1. CASE x \in A
      <3>1. PICK i \in 1 .. Len(q) : q[i] = x
        BY <2>1 DEF Rises
      <3> QED  BY <1>3, <3>1
    <2>2. CASE x \in B
      <3>1. PICK i \in 1 .. Len(r) : r[i] = x
        BY <2>2 DEF Rises
      <3> QED  BY <1>3, <3>1
    <2> QED  BY <2>1, <2>2
  <1>7. ASSUME NEW i \in 1 .. Len(u), NEW k \in 1 .. Len(u), i < k PROVE u[i] < u[k]
    <2>1. CASE k \in 1 .. Len(q)
      <3>1. i \in 1 .. Len(q)
        BY <1>3, <1>7, <2>1
      <3> QED  BY <1>3, <1>7, <2>1, <3>1 DEF Rises
    <2>2. CASE i \in 1 .. Len(q) /\ k \notin 1 .. Len(q)
      <3>1. u[i] \in A /\ u[k] \in B
        BY <1>3, <1>4, <2>2 DEF Rises
      <3> QED  BY <3>1
    <2>3. CASE i \notin 1 .. Len(q) /\ k \notin 1 .. Len(q)
      <3>1. /\ i - Len(q) \in 1 .. Len(r) /\ k - Len(q) \in 1 .. Len(r)
            /\ i - Len(q) < k - Len(q)
        BY <1>3, <1>4, <1>7, <2>3
      <3> QED  BY <1>4, <2>3, <3>1 DEF Rises
    <2> QED  BY <2>1, <2>2, <2>3
  <1>8. Rises(u, A \cup B)
    BY <1>3, <1>5, <1>6, <1>7 DEF Rises
  <1> QED  BY <1>1, <1>8

-----------------------------------------------------------------------------
(* What is recorded of the places found.                                   *)

Note(distance) == IF distance < Len(pattern) THEN "overlap" ELSE "more_than_once"

(* The first two of the places O make the note.                            *)
Told(w, O) ==
    /\ w = [first |-> w.first, note |-> w.note] /\ w.first \in Nat \cup {NoOccurrence}
    /\ w.note = "none" => O = {w.first} \ {NoOccurrence}
    /\ w.note # "none" => \E a, b \in O : /\ a < b /\ \A x \in O : x = a \/ b <= x
                                          /\ w.note = Note(b - a)

LEMMA RecordTells ==
    ASSUME NEW w, NEW O \in SUBSET Nat, Told(w, O), NEW x \in Nat, \A y \in O : y < x,
           Len(pattern) \in Nat, NEW r, r = Record(w, x), NEW P, P = O \cup {x}
    PROVE  Told(r, P)
  <1>1. CASE w.note # "none"
    <2>1. r = w
      BY <1>1 DEF Record, Duplicate
    <2>2. PICK a, b \in O : /\ a < b /\ \A y \in O : y = a \/ b <= y
                            /\ w.note = Note(b - a)
      BY <1>1 DEF Told
    <2>3. \A y \in P : y = a \/ b <= y
      BY <2>2
    <2> QED  BY <1>1, <2>1, <2>2, <2>3 DEF Told
  <1>2. CASE w.note = "none" /\ w.first = NoOccurrence
    <2>1. O = {} /\ P = {x} /\ x # w.first
      BY <1>2 DEF Told, NoOccurrence
    <2>2. r = [first |-> x, note |-> "none"]
      BY <1>2, <2>1 DEF Record, Duplicate, Told
    <2> QED  BY <2>1, <2>2 DEF Told, NoOccurrence
  <1>3. CASE w.note = "none" /\ w.first # NoOccurrence
    <2>1. PICK a \in Nat : a = w.first
      BY <1>3 DEF Told
    <2>2. O = {a} /\ a < x /\ P = {a, x}
      BY <1>3, <2>1 DEF Told
    <2>3. x - a < Len(pattern) /\ a - x < Len(pattern) <=> x - a < Len(pattern)
      BY <2>2
    <2>4. r = [w EXCEPT !.note = IF x - a < Len(pattern) /\ a - x < Len(pattern)
                                 THEN "overlap" ELSE "more_than_once"]
      BY <1>3, <2>1, <2>2 DEF Record, Duplicate
    <2>5. r = [first |-> a, note |-> Note(x - a)]
      BY <2>1, <2>3, <2>4 DEF Told, Note
    <2>6. Note(x - a) # "none"
      BY DEF Note
    <2> QED  BY <2>2, <2>5, <2>6 DEF Told
  <1> QED  BY <1>1, <1>2, <1>3

Recorded(w, q) == FoldLeft(Record, w, q)

LEMMA RecordSteps ==
    ASSUME NEW a, NEW b PROVE Step(Places, a, b) = Record(a, b)
  <1>1. PICK k : k = Places
    OBVIOUS
  <1>2. k.of = "places" /\ k.of # "rows" /\ k.of # "cuts"
    BY <1>1 DEF Places
  <1>3. Step(k, a, b) = Record(a, b)
    BY <1>2, Zenon DEF Step
  <1> QED  BY <1>1, <1>3

LEMMA RecordedIs ==
    ASSUME NEW w, NEW q, NEW n \in Nat, DOMAIN q = 1 .. n
    PROVE  \E g : Folds(g, Places, w, q, n) /\ Recorded(w, q) = g[1 .. n]
  <1> DEFINE g == CHOOSE h : h = [s \in SUBSET (1 .. n) |->
                      IF s = {} THEN w ELSE Record(h[s \ {Max(s)}], q[Max(s)])]
  <1>1. PICK d : Folds(d, Places, w, q, n)
    BY FoldsExists
  <1>2. \A a, b : Step(Places, a, b) = Record(a, b)
    BY RecordSteps, Zenon
  <1>3. g = [s \in SUBSET (1 .. n) |->
                IF s = {} THEN w ELSE Record(g[s \ {Max(s)}], q[Max(s)])]
    <2>1. d = [s \in SUBSET (1 .. n) |->
                IF s = {} THEN w ELSE Record(d[s \ {Max(s)}], q[Max(s)])]
      BY <1>1, <1>2, Zenon DEF Folds
    <2> QED  BY <2>1, Zenon
  <1>4. Folds(g, Places, w, q, n)
    BY <1>2, <1>3, Zenon DEF Folds
  <1>5. Recorded(w, q) = g[1 .. n]
    BY Zenon DEF Recorded, FoldLeft, MapThenFoldSet
  <1> QED  BY <1>4, <1>5

LEMMA RecordedTells ==
    ASSUME NEW w, NEW O \in SUBSET Nat, Told(w, O), NEW N \in SUBSET Nat,
           \A a \in O, b \in N : a < b, NEW q, Rises(q, N), Len(pattern) \in Nat
    PROVE  Told(Recorded(w, q), O \cup N)
  <1>1. PICK n \in Nat : n = Len(q) /\ DOMAIN q = 1 .. n
    BY DEF Rises
  <1>2. PICK g : Folds(g, Places, w, q, n) /\ Recorded(w, q) = g[1 .. n]
    BY <1>1, RecordedIs
  <1>3. /\ g[1 .. 0] = w
        /\ \A i \in 0 .. n - 1 : g[1 .. i + 1] = Step(Places, g[1 .. i], q[i + 1])
    <2>1. Folds(g, Places, w, q, n)
      BY <1>2
    <2>2. Unfolds(g, Places, w, q, n)
      BY <2>1, FoldsSteps
    <2> QED  BY <2>2, Zenon DEF Unfolds
  <1>4. \A a, b : Step(Places, a, b) = Record(a, b)
    BY RecordSteps, Zenon
  <1> DEFINE Seen(i) == O \cup {x \in N : \E j \in 1 .. i : q[j] = x}
             T == {i \in Nat : i <= n => Told(g[1 .. i], Seen(i))}
  <1>5. 0 \in T
    <2>1. Seen(0) = O
      OBVIOUS
    <2> QED  BY <1>3, <2>1
  <1>6. ASSUME NEW i \in Nat, i \in T PROVE i + 1 \in T
    <2> SUFFICES ASSUME i + 1 <= n PROVE Told(g[1 .. i + 1], Seen(i + 1))
      OBVIOUS
    <2>1. /\ i + 1 \in 1 .. n /\ i \in 0 .. n - 1 /\ i <= n
          /\ \A j \in 1 .. i : j \in 1 .. n /\ j < i + 1
          /\ \A j \in 1 .. i + 1 : j \in 1 .. i \/ j = i + 1
          /\ \A j \in 1 .. i : j \in 1 .. i + 1
          /\ i + 1 \in 1 .. i + 1
      OBVIOUS
    <2>2. PICK x \in N : x = q[i + 1]
      BY <1>1, <2>1 DEF Rises
    <2>3. \A j \in 1 .. i : q[j] < x
      BY <1>1, <2>1, <2>2 DEF Rises
    <2>4. \A y \in Seen(i) : y < x
      BY <2>3
    <2>5. Seen(i + 1) = Seen(i) \cup {x}
      BY <2>1, <2>2
    <2>6. g[1 .. i + 1] = Record(g[1 .. i], x)
      BY <1>3, <1>4, <2>1, <2>2
    <2>7. Told(g[1 .. i], Seen(i)) /\ Seen(i) \in SUBSET Nat /\ x \in Nat
      BY <1>6, <2>1
    <2> HIDE DEF Seen
    <2> QED  BY <2>4, <2>5, <2>6, <2>7, RecordTells
  <1>7. Seen(n) = O \cup N
    BY <1>1 DEF Rises
  <1> HIDE DEF T, Seen
  <1>8. n \in T
    BY <1>5, <1>6, Induction
  <1>9. Told(g[1 .. n], Seen(n))
    BY <1>8 DEF T
  <1> QED  BY <1>2, <1>7, <1>9

-----------------------------------------------------------------------------
(* One chunk.                                                              *)

Open == Tails(pattern, text, Len(text), Len(pattern) - 1, Len(text))

(* What is left of an open occurrence ends in the chunk, or goes on.       *)
LEMMA RestOfOpen ==
    ASSUME NEW S, pattern \in Seq(S), text \in Seq(S), NEW c \in Seq(S),
           NEW k \in Checkpoint, k.start + k.matched = Len(text), k.start \in Open
    PROVE  /\ IsPrefix(Rest(k), c) <=> Fits(pattern, Len(text) - k.start, c)
           /\ IsStrictPrefix(c, Rest(k)) <=> GoesOn(pattern, Len(text) - k.start, c)
  <1>1. PICK m : m = k.matched
    OBVIOUS
  <1>2. m \in Nat /\ k.start \in Nat /\ Len(text) \in Nat /\ Len(pattern) \in Nat
    BY <1>1 DEF Checkpoint
  <1>3. m = Len(text) - k.start /\ m \in 0 .. Len(pattern)
    BY <1>1, <1>2 DEF Open, Tails
  <1>4. Rest(k) = SubSeq(pattern, m + 1, Len(pattern))
    BY <1>1, Zenon DEF Rest
  <1>5. Rest(k) \in Seq(S) /\ Remains(Rest(k), pattern, m)
    BY <1>3, <1>4, RestRemains
  <1>6. /\ IsPrefix(Rest(k), c) <=> Fits(pattern, m, c)
        /\ IsStrictPrefix(c, Rest(k)) <=> GoesOn(pattern, m, c)
    BY <1>3, <1>5, RestIs
  <1> QED  BY <1>3, <1>6

LEMMA CompletedLists ==
    ASSUME NEW S, pattern \in Seq(S), text \in Seq(S), NEW c \in Seq(S),
           Lists(checkpoints, Len(text), Open)
    PROVE  Lists(Completed(c), Len(text),
                 {i \in Open : Fits(pattern, Len(text) - i, c)})
  <1> DEFINE A == {k \in Range(checkpoints) : IsPrefix(Rest(k), c)}
             C == {i \in Open : Fits(pattern, Len(text) - i, c)}
  <1>1. ASSUME NEW i \in 1 .. Len(checkpoints)
        PROVE  checkpoints[i] \in A <=> checkpoints[i].start \in C
    <2>1. PICK k : k = checkpoints[i]
      OBVIOUS
    <2>2. k \in Checkpoint /\ k.start + k.matched = Len(text) /\ k.start \in Open
      BY <2>1 DEF Lists
    <2>3. k \in Range(checkpoints)
      <3>1. i \in DOMAIN checkpoints
        BY DEF Lists
      <3> QED  BY <2>1, <3>1 DEF Range
    <2>4. IsPrefix(Rest(k), c) <=> Fits(pattern, Len(text) - k.start, c)
      BY <2>2, RestOfOpen
    <2> QED  BY <2>1, <2>2, <2>3, <2>4
  <1>2. Completed(c) = Selected(checkpoints, A)
    BY Zenon DEF Completed
  <1> HIDE DEF A
  <1>3. Lists(Selected(checkpoints, A), Len(text), C)
    <2>1. C \in SUBSET Open
      OBVIOUS
    <2> HIDE DEF C
    <2> QED  BY <1>1, <2>1, SelectedLists
  <1> QED  BY <1>2, <1>3

(* The candidates that go on have matched the letters of the chunk.        *)
LEMMA ListsMoved ==
    ASSUME NEW q, NEW l \in Nat, NEW O, Lists(q, l, O), NEW n \in Nat
    PROVE  Lists([i \in DOMAIN q |-> [q[i] EXCEPT !.matched = @ + n]], l + n, O)
  <1>1. PICK r : r = [i \in DOMAIN q |-> [q[i] EXCEPT !.matched = @ + n]]
    OBVIOUS
  <1>2. q \in Seq(Checkpoint)
    BY DEF Lists
  <1>3. DOMAIN q = 1 .. Len(q) /\ Len(q) \in Nat
    BY <1>2
  <1>4. ASSUME NEW i \in 1 .. Len(q)
        PROVE  /\ r[i] \in Checkpoint /\ r[i].start = q[i].start
               /\ r[i].matched = q[i].matched + n
    <2>1. q[i] \in Checkpoint
      BY <1>2
    <2>2. r[i] = [q[i] EXCEPT !.matched = @ + n]
      BY <1>1, <1>3
    <2> QED  BY <2>1, <2>2 DEF Checkpoint
  <1>5. r \in [1 .. Len(q) -> Checkpoint]
    <2>1. r = [i \in 1 .. Len(q) |-> r[i]]
      BY <1>1, <1>3
    <2> QED  BY <1>4, <2>1
  <1>6. r \in Seq(Checkpoint) /\ Len(r) = Len(q)
    BY <1>3, <1>5, FunctionIsSequence
  <1>7. \A i \in 1 .. Len(q) : r[i].start + r[i].matched = l + n
    <2> TAKE i \in 1 .. Len(q)
    <2>1. q[i] \in Checkpoint /\ q[i].start + q[i].matched = l
      BY <1>2 DEF Lists
    <2>2. PICK a \in Nat, b \in Nat : a = q[i].start /\ b = q[i].matched
      BY <2>1 DEF Checkpoint
    <2>3. r[i].start = a /\ r[i].matched = b + n
      BY <1>4, <2>2
    <2>4. a + b = l
      BY <2>1, <2>2
    <2>5. a + (b + n) = l + n
      BY <2>4
    <2> QED  BY <2>3, <2>5
  <1>8. Lists(r, l + n, O)
    BY <1>4, <1>6, <1>7 DEF Lists
  <1> QED  BY <1>1, <1>8

LEMMA PendingLists ==
    ASSUME NEW S, pattern \in Seq(S), text \in Seq(S), NEW c \in Seq(S),
           Lists(checkpoints, Len(text), Open)
    PROVE  Lists(Pending(c), Len(text) + Len(c),
                 {i \in Open : GoesOn(pattern, Len(text) - i, c)})
  <1> DEFINE A == {k \in Range(checkpoints) : IsStrictPrefix(c, Rest(k))}
             C == {i \in Open : GoesOn(pattern, Len(text) - i, c)}
             open == Selected(checkpoints, A)
  <1>1. ASSUME NEW i \in 1 .. Len(checkpoints)
        PROVE  checkpoints[i] \in A <=> checkpoints[i].start \in C
    <2>1. PICK k : k = checkpoints[i]
      OBVIOUS
    <2>2. k \in Checkpoint /\ k.start + k.matched = Len(text) /\ k.start \in Open
      BY <2>1 DEF Lists
    <2>3. k \in Range(checkpoints)
      <3>1. i \in DOMAIN checkpoints
        BY DEF Lists
      <3> QED  BY <2>1, <3>1 DEF Range
    <2>4. IsStrictPrefix(c, Rest(k)) <=> GoesOn(pattern, Len(text) - k.start, c)
      BY <2>2, RestOfOpen
    <2> QED  BY <2>1, <2>2, <2>3, <2>4
  <1>2. Pending(c) = [i \in DOMAIN open |-> [open[i] EXCEPT !.matched = @ + Len(c)]]
    BY Zenon DEF Pending
  <1> HIDE DEF A
  <1>3. Lists(open, Len(text), C)
    <2>1. C \in SUBSET Open
      OBVIOUS
    <2> HIDE DEF C
    <2> QED  BY <1>1, <2>1, SelectedLists
  <1>4. Len(text) \in Nat /\ Len(c) \in Nat
    OBVIOUS
  <1> HIDE DEF open, C
  <1>5. Lists([i \in DOMAIN open |-> [open[i] EXCEPT !.matched = @ + Len(c)]],
              Len(text) + Len(c), C)
    BY <1>3, <1>4, ListsMoved
  <1> QED  BY <1>2, <1>5 DEF C

(* The open places after the chunk are those the matcher goes on with.     *)
LEMMA OpenGrows ==
    ASSUME NEW S, pattern \in Seq(S), pattern # <<>>, text \in Seq(S),
           NEW c \in Seq(S), NEW u, u = text \o c,
           Lists(checkpoints, Len(text), Open)
    PROVE  Lists(Pending(c) \o Begun(c), Len(u),
                 Tails(pattern, u, Len(u), Len(pattern) - 1, Len(u)))
  <1>1. Joined(u, text, c) /\ Len(u) = Len(text) + Len(c)
    BY JoinedIs DEF Joined
  <1> DEFINE A == {i \in Open : GoesOn(pattern, Len(text) - i, c)}
             B == Tails(pattern, c, Len(c), Len(pattern) - 1, Len(u))
  <1>2. Lists(Pending(c), Len(u), A)
    BY <1>1, PendingLists
  <1>3. Lists(Begun(c), Len(u), B)
    BY <1>1, BegunLists
  <1>4. Tails(pattern, u, Len(u), Len(pattern) - 1, Len(u)) = A \cup B
    <2>1. PICK d : d = Len(pattern) - 1
      OBVIOUS
    <2>2. Len(pattern) \in Nat
      OBVIOUS
    <2>3. Tails(pattern, u, Len(u), d, Len(u))
             = WentOn(pattern, text, c, d) \cup Tails(pattern, c, Len(c), d, Len(u))
      BY <1>1, <2>1, <2>2, TailsGrow, ZenonT(60)
    <2>4. WentOn(pattern, text, c, d) = A
      BY <2>1, Zenon DEF WentOn, Open
    <2> QED  BY <2>1, <2>3, <2>4
  <1>5. A \in SUBSET Nat /\ B \in SUBSET Nat /\ \A a \in A, b \in B : a < b
    <2>1. Len(text) \in Nat /\ Len(c) \in Nat
      OBVIOUS
    <2>2. \A a \in Open : a \in Nat /\ a < Len(text)
      BY <2>1 DEF Open, Tails
    <2>3. \A b \in B : b \in Nat /\ b >= Len(text)
      BY <1>1, <2>1 DEF Tails, Ends
    <2> QED  BY <2>1, <2>2, <2>3
  <1> HIDE DEF A, B
  <1> QED  BY <1>2, <1>3, <1>4, <1>5, ListsJoin

-----------------------------------------------------------------------------
(* What a chunk adds to the places found.                                  *)

LEMMA InsideRises ==
    ASSUME NEW S, pattern \in Seq(S), pattern # <<>>, NEW c \in Seq(S), NEW l \in Nat,
           NEW q, q = Selected([i \in 1 .. Len(c) |-> i - 1],
                               {i \in 0 .. Len(c) : At(pattern, c, i)})
    PROVE  Rises([i \in DOMAIN q |-> l + q[i]],
                 {i \in l .. l + Len(c) : At(pattern, c, i - l)})
  <1>1. PICK n : n = Len(c)
    OBVIOUS
  <1> DEFINE A == {i \in 0 .. n : At(pattern, c, i)}
             B == {i \in 0 .. n - 1 : i \in A}
             C == {i \in l .. l + n : At(pattern, c, i - l)}
  <1>2. n \in Nat /\ Len(pattern) \in Nat /\ Len(pattern) >= 1
    BY <1>1
  <1>3. ~ At(pattern, c, n)
    BY <1>1, <1>2 DEF At
  <1>4. \A x \in Nat : x \in C <=> x - l \in B
    BY <1>2, <1>3
  <1>5. C \in SUBSET Nat
    BY <1>2
  <1>6. q = Selected([i \in 1 .. n |-> i - 1], A)
    BY <1>1, Zenon
  <1> HIDE DEF A
  <1>7. Rises(Selected([i \in 1 .. n |-> i - 1], A), B)
    BY <1>2, NumbersRise
  <1> HIDE DEF B, C
  <1>8. Rises(q, B)
    BY <1>6, <1>7
  <1>9. Rises([i \in DOMAIN q |-> l + q[i]], C)
    BY <1>4, <1>5, <1>8, RisesMoved
  <1> QED  BY <1>1, <1>9 DEF C

LEMMA FoundTells ==
    ASSUME NEW S, pattern \in Seq(S), pattern # <<>>, text \in Seq(S),
           NEW c \in Seq(S), NEW u, u = text \o c,
           Lists(checkpoints, Len(text), Open),
           Told([first |-> first, note |-> note], PlacesIn(pattern, text))
    PROVE  Told(Found(c), PlacesIn(pattern, u))
  <1>1. Joined(u, text, c) /\ u \in Seq(S) /\ Len(u) = Len(text) + Len(c)
    BY JoinedIs DEF Joined
  <1>2. PICK l : l = Len(text)
    OBVIOUS
  <1>3. l \in Nat /\ Len(c) \in Nat /\ Len(pattern) \in Nat /\ Len(pattern) >= 1
    BY <1>2
  <1> DEFINE w == [first |-> first, note |-> note]
             inside == Selected([i \in 1 .. Len(c) |-> i - 1],
                                {i \in 0 .. Len(c) : At(pattern, c, i)})
             O == PlacesIn(pattern, text)
             A == {i \in Open : Fits(pattern, Len(text) - i, c)}
             B == {i \in l .. l + Len(c) : At(pattern, c, i - l)}
             starts == [i \in DOMAIN Completed(c) |-> Completed(c)[i].start]
                       \o [i \in DOMAIN inside |-> l + inside[i]]
  <1>4. Rises([i \in DOMAIN Completed(c) |-> Completed(c)[i].start], A)
    <2>1. Lists(Completed(c), Len(text), A)
      BY CompletedLists
    <2> HIDE DEF A
    <2> QED  BY <2>1, StartsRise
  <1>5. Rises([i \in DOMAIN inside |-> l + inside[i]], B)
    <2>1. PICK q : q = inside
      OBVIOUS
    <2>2. Rises([i \in DOMAIN q |-> l + q[i]],
                {i \in l .. l + Len(c) : At(pattern, c, i - l)})
      BY <1>3, <2>1, InsideRises
    <2> QED  BY <2>1, <2>2
  <1>6. \A a \in A : a \in Nat /\ a < l /\ l - a < Len(pattern)
    BY <1>2, <1>3 DEF Open, Tails
  <1>7. \A b \in B : b \in Nat /\ l <= b
    BY <1>3
  <1>8. \A o \in O : o \in Nat /\ o + Len(pattern) <= l
    BY <1>2, <1>3 DEF PlacesIn, At
  <1>9. PlacesIn(pattern, u) = O \cup A \cup B
    <2>1. \A p \in Seq(S), t \in Seq(S), v \in Seq(S) :
             p # <<>> /\ Joined(v, t, c) =>
                PlacesIn(p, v) = PlacesIn(p, t) \cup EndIn(p, t, c, Len(p) - 1)
                                 \cup Moved(p, c, Len(t))
      BY PlacesGrow
    <2>2. PlacesIn(pattern, u) = PlacesIn(pattern, text)
                                  \cup EndIn(pattern, text, c, Len(pattern) - 1)
                                  \cup Moved(pattern, c, Len(text))
      BY <1>1, <2>1, Zenon
    <2>3. B = Moved(pattern, c, Len(text))
      BY <1>2, Zenon DEF Moved
    <2>4. A = EndIn(pattern, text, c, Len(pattern) - 1)
      BY Zenon DEF EndIn, Open
    <2> HIDE DEF A, B
    <2> QED  BY <2>2, <2>3, <2>4
  <1>10. Found(c) = Recorded(w, starts)
    BY <1>2, Zenon DEF Found, Recorded
  <1> HIDE DEF inside, A, B, O
  <1>11. Rises(starts, A \cup B)
    <2>1. \A a \in A, b \in B : a < b
      BY <1>3, <1>6, <1>7
    <2> QED  BY <1>4, <1>5, <2>1, RisesJoin
  <1>12. \A o \in O, x \in A \cup B : o < x
    BY <1>3, <1>6, <1>7, <1>8
  <1>13. O \in SUBSET Nat /\ A \cup B \in SUBSET Nat
    BY <1>6, <1>7, <1>8
  <1>14. Told(w, O)
    BY DEF O
  <1> HIDE DEF w, starts
  <1>15. Told(Recorded(w, starts), O \cup (A \cup B))
    BY <1>3, <1>11, <1>12, <1>13, <1>14, RecordedTells
  <1>16. PlacesIn(pattern, u) = O \cup (A \cup B)
    BY <1>9
  <1> QED  BY <1>10, <1>15, <1>16

-----------------------------------------------------------------------------
(* The verdict.                                                            *)

LEMMA VerdictTold ==
    ASSUME NEW w, NEW n \in Nat, NEW O \in SUBSET (0 .. n), Told(w, O)
    PROVE  /\ w.note # "none" => w.note = Verdict(O)
           /\ w.note = "none" /\ w.first # NoOccurrence =>
                 Verdict(O) = "none" /\ O = {w.first}
           /\ w.note = "none" /\ w.first = NoOccurrence => Verdict(O) = "not_found"
  <1>1. IsFiniteSet(O)
    <2>1. IsFiniteSet(0 .. n)
      BY FS_Interval
    <2> QED  BY <2>1, FS_Subset
  <1>2. ASSUME w.note # "none" PROVE w.note = Verdict(O)
    <2>1. PICK a, b \in O : /\ a < b /\ \A x \in O : x = a \/ b <= x
                            /\ w.note = Note(b - a)
      BY <1>2 DEF Told
    <2>2. a \in Nat /\ b \in Nat /\ \A x \in O : x \in Nat
      OBVIOUS
    <2>3. O # {} /\ Cardinality(O) # 1
      <3>1. Cardinality(O) = 1 => \E x : O = {x}
        BY <1>1, FS_Singleton
      <3> QED  BY <2>1, <2>2, <3>1
    <2>4. Min(O) = a
      <3>1. a \in O /\ \A y \in O : a <= y
        BY <2>1, <2>2
      <3>2. \A x \in O : (\A y \in O : x <= y) => x = a
        BY <2>2, <3>1
      <3> QED  BY <3>1, <3>2, Zenon DEF Min
    <2>5. Min(O \ {a}) = b
      <3>1. b \in O \ {a} /\ \A y \in O \ {a} : b <= y
        BY <2>1, <2>2
      <3>2. \A x \in O \ {a} : (\A y \in O \ {a} : x <= y) => x = b
        BY <2>2, <3>1
      <3> QED  BY <3>1, <3>2, Zenon DEF Min
    <2>6. Verdict(O) = IF b - a < Len(pattern) THEN "overlap" ELSE "more_than_once"
      BY <2>3, <2>4, <2>5, Zenon DEF Verdict
    <2>7. Note(b - a) = IF b - a < Len(pattern) THEN "overlap" ELSE "more_than_once"
      BY Zenon DEF Note
    <2> QED  BY <2>1, <2>6, <2>7
  <1>3. ASSUME w.note = "none", w.first # NoOccurrence
        PROVE  Verdict(O) = "none" /\ O = {w.first}
    <2>1. O = {w.first}
      BY <1>3 DEF Told
    <2>2. Cardinality(O) = 1 /\ O # {}
      BY <1>1, <2>1, FS_Singleton
    <2> QED  BY <2>1, <2>2, Zenon DEF Verdict
  <1>4. ASSUME w.note = "none", w.first = NoOccurrence PROVE Verdict(O) = "not_found"
    <2>1. O = {}
      BY <1>4 DEF Told
    <2> QED  BY <2>1, Zenon DEF Verdict
  <1> QED  BY <1>2, <1>3, <1>4

(* The empty text is found at each place.                                  *)
LEMMA EmptyTold ==
    ASSUME NEW S, pattern = <<>>, text \in Seq(S),
           NEW n, n = IF text = <<>> THEN "none" ELSE "more_than_once"
    PROVE  Told([first |-> 0, note |-> n], Occurrences)
  <1>1. Len(text) \in Nat /\ (text = <<>> <=> Len(text) = 0)
    OBVIOUS
  <1>2. ASSUME NEW i \in 0 .. Len(text) PROVE At(pattern, text, i)
    <2>1. PICK p : p = pattern
      OBVIOUS
    <2>2. p \in Seq(S) /\ Len(p) = 0
      BY <2>1
    <2>3. i + Len(p) <= Len(text) /\ \A j \in 1 .. Len(p) : text[i + j] = p[j]
      BY <1>1, <2>2
    <2>4. i \in Nat
      OBVIOUS
    <2>5. At(p, text, i)
      BY <2>2, <2>3, <2>4, AtIs
    <2> QED  BY <2>1, <2>5
  <1>3. Occurrences = 0 .. Len(text)
    BY <1>2 DEF Occurrences
  <1>4. PICK O : O = Occurrences
    OBVIOUS
  <1>5. CASE text = <<>>
    <2>1. O = {0} /\ n = "none"
      BY <1>1, <1>3, <1>4, <1>5
    <2>2. Told([first |-> 0, note |-> n], O)
      BY <2>1 DEF Told, NoOccurrence
    <2> QED  BY <1>4, <2>2
  <1>6. CASE text # <<>>
    <2>1. /\ 0 \in O /\ 1 \in O /\ 0 < 1 /\ \A x \in O : x = 0 \/ 1 <= x
          /\ n = "more_than_once"
      BY <1>1, <1>3, <1>4, <1>6
    <2>2. Len(pattern) = 0
      OBVIOUS
    <2>3. n = Note(1 - 0)
      BY <2>1, <2>2 DEF Note
    <2>4. Told([first |-> 0, note |-> n], O)
      BY <2>1, <2>3 DEF Told
    <2> QED  BY <1>4, <2>4
  <1> QED  BY <1>5, <1>6

-----------------------------------------------------------------------------
(* The inductive invariant: while the search goes on, what is recorded is  *)
(* what a search in the text so far would say, and the checkpoints are the *)
(* places where an occurrence may have begun that the text does not end.   *)

Letters == UNION {Range(t) : t \in Patterns \cup Chunks}

Searching == ~finished /\ ~invalid /\ pattern # <<>>

MatcherInv ==
    /\ pattern \in Seq(Letters) /\ text \in Seq(Letters)
    /\ Searching =>
          /\ Told([first |-> first, note |-> note], Occurrences)
          /\ note = "none" => Lists(checkpoints, Len(text), Open)
    /\ ~finished /\ ~invalid /\ pattern = <<>> => note = "none"
    /\ finished /\ ~invalid =>
          /\ note = Verdict(Occurrences)
          /\ note = "none" => Occurrences = {first}

LEMMA OfLetters ==
    ASSUME NEW t \in Patterns \cup Chunks PROVE t \in Seq(Letters)
  <1>1. t \in Seq(Range(t))
    BY MatcherAssumption
  <1>2. PICK R : R = Range(t)
    OBVIOUS
  <1>3. R \in SUBSET Letters
    BY <1>2, Zenon DEF Letters
  <1>4. PICK L : L = Letters
    OBVIOUS
  <1> QED  BY <1>1, <1>2, <1>3, <1>4

LEMMA MatcherStarts == MatcherInit => MatcherInv
  <1> SUFFICES ASSUME MatcherInit PROVE MatcherInv
    OBVIOUS
  <1>1. pattern \in Seq(Letters)
    BY OfLetters DEF MatcherInit
  <1>2. text = <<>> /\ checkpoints = <<>> /\ first = NoOccurrence /\ note = "none"
        /\ finished = FALSE
    BY DEF MatcherInit
  <1>3. text \in Seq(Letters) /\ Len(text) = 0
    BY <1>2
  <1>4. ASSUME pattern # <<>>
        PROVE  /\ Told([first |-> first, note |-> note], Occurrences)
               /\ Lists(checkpoints, Len(text), Open)
    <2>1. Len(pattern) \in Nat /\ Len(pattern) >= 1
      BY <1>1, <1>4
    <2>2. Occurrences = {}
      BY <1>3, <2>1 DEF Occurrences, At
    <2>3. Open = {}
      BY <1>3 DEF Open, Tails
    <2>4. Told([first |-> first, note |-> note], {})
      BY <1>2 DEF Told, NoOccurrence
    <2>5. Lists(<<>>, 0, {})
      BY DEF Lists
    <2> QED  BY <1>2, <1>3, <2>2, <2>3, <2>4, <2>5
  <1> QED  BY <1>1, <1>2, <1>3, <1>4 DEF MatcherInv, Searching

LEMMA MatcherConsumes ==
    ASSUME MatcherInv, NEW inPlace \in BOOLEAN, NEW c \in Chunks, Consume(inPlace, c)
    PROVE  MatcherInv'
  <1>1. /\ pattern' = pattern /\ finished' = finished /\ finished = FALSE
        /\ ~ finished /\ ~ invalid /\ note = "none"
    BY DEF Consume, MatcherInv
  <1>2. c \in Seq(Letters) /\ pattern \in Seq(Letters) /\ text \in Seq(Letters)
    BY OfLetters DEF MatcherInv
  <1>3. CASE ~ inPlace
    <2>1. invalid' = TRUE /\ text' = text
      BY <1>3 DEF Consume
    <2> QED  BY <1>1, <1>2, <2>1 DEF MatcherInv, Searching
  <1>4. CASE inPlace
    <2>1. text' = text \o c /\ text' \in Seq(Letters)
      <3>1. text' = text \o c
        BY <1>4 DEF Consume
      <3> QED  BY <1>2, <3>1, JoinedIs
    <2>2. CASE pattern = <<>>
      <3>1. note' = note
        BY <1>4, <2>2 DEF Consume
      <3> QED  BY <1>1, <1>2, <2>1, <2>2, <3>1 DEF MatcherInv, Searching
    <2>3. CASE pattern # <<>>
      <3>1. /\ first' = Found(c).first /\ note' = Found(c).note
            /\ checkpoints' = IF Duplicate(Found(c)) THEN checkpoints
                              ELSE Pending(c) \o Begun(c)
        BY <1>4, <2>3 DEF Consume
      <3>2. /\ Told([first |-> first, note |-> note], PlacesIn(pattern, text))
            /\ Lists(checkpoints, Len(text), Open)
        <4>1. PlacesIn(pattern, text) = Occurrences
          BY Zenon DEF PlacesIn, Occurrences
        <4> QED  BY <1>1, <2>3, <4>1 DEF MatcherInv, Searching
      <3>3. Told(Found(c), PlacesIn(pattern, text'))
        BY <1>2, <2>1, <2>3, <3>2, FoundTells
      <3>4. Found(c) = [first |-> first', note |-> note']
        BY <3>1, <3>3 DEF Told
      <3>5. Occurrences' = PlacesIn(pattern, text')
        BY <1>1, Zenon DEF PlacesIn, Occurrences
      <3>6. Told([first |-> first, note |-> note], Occurrences)'
        BY <1>1, <3>3, <3>4, <3>5 DEF Told, Note
      <3>7. ASSUME note' = "none" PROVE Lists(checkpoints, Len(text), Open)'
        <4>1. checkpoints' = Pending(c) \o Begun(c)
          BY <3>1, <3>7 DEF Duplicate
        <4>2. Lists(Pending(c) \o Begun(c), Len(text'),
                    Tails(pattern, text', Len(text'), Len(pattern) - 1, Len(text')))
          BY <1>2, <2>1, <2>3, <3>2, OpenGrows
        <4>3. Open' = Tails(pattern, text', Len(text'), Len(pattern) - 1, Len(text'))
          BY <1>1, Zenon DEF Open, Tails, Ends
        <4> QED  BY <4>1, <4>2, <4>3 DEF Lists
      <3> QED  BY <1>1, <1>2, <2>1, <2>3, <3>6, <3>7 DEF MatcherInv, Searching
    <2> QED  BY <2>2, <2>3
  <1> QED  BY <1>3, <1>4

LEMMA MatcherFinishes ==
    ASSUME MatcherInv, FinishMatching PROVE MatcherInv'
  <1>1. /\ pattern' = pattern /\ text' = text /\ invalid' = invalid /\ finished' = TRUE
        /\ ~ finished
    BY DEF FinishMatching
  <1>2. pattern \in Seq(Letters) /\ text \in Seq(Letters) /\ Len(text) \in Nat
    BY DEF MatcherInv
  <1>3. Occurrences' = Occurrences /\ Occurrences \in SUBSET (0 .. Len(text))
    BY <1>1 DEF Occurrences
  <1>4. \A O : Verdict(O)' = Verdict(O)
    BY <1>1 DEF Verdict
  <1> SUFFICES ASSUME ~ invalid
               PROVE  /\ note' = Verdict(Occurrences)
                      /\ note' = "none" => Occurrences = {first'}
    BY <1>1, <1>2, <1>3, <1>4 DEF MatcherInv, Searching
  <1>5. CASE pattern = <<>>
    <2>1. /\ first' = 0 /\ note' = IF text = <<>> THEN "none" ELSE "more_than_once"
      BY <1>1, <1>5 DEF FinishMatching, MatcherInv
    <2>2. PICK w : w = [first |-> 0, note |-> note']
      OBVIOUS
    <2>3. Told(w, Occurrences)
      BY <1>2, <1>5, <2>1, <2>2, EmptyTold
    <2>4. w.first = first' /\ w.note = note' /\ w.first # NoOccurrence
      BY <2>1, <2>2 DEF NoOccurrence
    <2>5. /\ w.note # "none" => w.note = Verdict(Occurrences)
          /\ w.note = "none" /\ w.first # NoOccurrence =>
                Verdict(Occurrences) = "none" /\ Occurrences = {w.first}
          /\ w.note = "none" /\ w.first = NoOccurrence => Verdict(Occurrences) = "not_found"
      BY <1>2, <1>3, <2>3, VerdictTold
    <2> QED  BY <2>4, <2>5
  <1>6. CASE pattern # <<>>
    <2>1. PICK w : w = [first |-> first, note |-> note]
      OBVIOUS
    <2>2. w.first = first /\ w.note = note /\ Told(w, Occurrences)
      BY <1>1, <1>6, <2>1 DEF MatcherInv, Searching
    <2>3. /\ note # "none" => note = Verdict(Occurrences)
          /\ note = "none" /\ first # NoOccurrence =>
                Verdict(Occurrences) = "none" /\ Occurrences = {first}
          /\ note = "none" /\ first = NoOccurrence => Verdict(Occurrences) = "not_found"
      BY <1>2, <1>3, <2>2, VerdictTold
    <2>4. CASE note # "none"
      <3>1. note' = note /\ first' = first
        BY <1>6, <2>4 DEF FinishMatching
      <3> QED  BY <2>3, <2>4, <3>1
    <2>5. CASE note = "none"
      <3>1. note' = (IF first = NoOccurrence THEN "not_found" ELSE "none") /\ first' = first
        BY <1>6, <2>5 DEF FinishMatching
      <3> QED  BY <2>3, <2>5, <3>1
    <2> QED  BY <2>4, <2>5
  <1> QED  BY <1>5, <1>6

LEMMA MatcherStutters ==
    ASSUME MatcherInv, UNCHANGED matcherVars PROVE MatcherInv'
  <1>1. /\ pattern' = pattern /\ text' = text /\ checkpoints' = checkpoints
        /\ first' = first /\ note' = note /\ invalid' = invalid /\ finished' = finished
    BY DEF matcherVars
  <1>2. \A w, O : Told(w, O)' <=> Told(w, O)
    BY <1>1 DEF Told, Note
  <1>3. Open' = Open
    BY <1>1, Zenon DEF Open, Tails, Ends
  <1>4. Occurrences' = Occurrences
    BY <1>1, Zenon DEF Occurrences, At
  <1>5. \A O : Verdict(O)' = Verdict(O)
    BY <1>1, Zenon DEF Verdict
  <1>6. /\ Told([first |-> first, note |-> note], Occurrences)'
              <=> Told([first |-> first, note |-> note], Occurrences)
        /\ Lists(checkpoints, Len(text), Open)' <=> Lists(checkpoints, Len(text), Open)
    BY <1>1, <1>2, <1>3, <1>4, Zenon DEF Told, Note, Lists
  <1> QED  BY <1>1, <1>3, <1>4, <1>5, <1>6, Zenon DEF MatcherInv, Searching

LEMMA MatcherTells == MatcherInv => MatcherAgrees
  <1> SUFFICES ASSUME MatcherInv PROVE MatcherAgrees
    OBVIOUS
  <1>1. ASSUME Searching
        PROVE  IF note = "none" THEN Occurrences = {first} \ {NoOccurrence}
               ELSE note = Verdict(Occurrences)
    <2>1. PICK w : w = [first |-> first, note |-> note]
      OBVIOUS
    <2>2. w.first = first /\ w.note = note /\ Told(w, Occurrences)
      BY <1>1, <2>1 DEF MatcherInv
    <2>3. note = "none" => Occurrences = {first} \ {NoOccurrence}
      BY <2>2 DEF Told
    <2>4. Len(text) \in Nat /\ Occurrences \in SUBSET (0 .. Len(text))
      BY DEF MatcherInv, Occurrences
    <2>5. note # "none" => note = Verdict(Occurrences)
      BY <2>2, <2>4, VerdictTold
    <2> QED  BY <2>3, <2>5
  <1> QED  BY <1>1 DEF MatcherInv, MatcherAgrees, Searching

(* However the file is cut into chunks, and whatever the pattern, the      *)
(* matcher says what a search in the whole text says.                      *)
THEOREM MatcherIsRight == MatcherSpec => []MatcherAgrees
  <1>1. MatcherInit => MatcherInv
    BY MatcherStarts
  <1>2. MatcherInv /\ [MatcherNext]_matcherVars => MatcherInv'
    <2> SUFFICES ASSUME MatcherInv, [MatcherNext]_matcherVars PROVE MatcherInv'
      OBVIOUS
    <2>1. CASE \E inPlace \in BOOLEAN, c \in Chunks : Consume(inPlace, c)
      BY <2>1, MatcherConsumes
    <2>2. CASE FinishMatching
      BY <2>2, MatcherFinishes
    <2>3. CASE UNCHANGED matcherVars
      BY <2>3, MatcherStutters
    <2> QED  BY <2>1, <2>2, <2>3 DEF MatcherNext
  <1>3. MatcherInv => MatcherAgrees
    BY MatcherTells
  <1> QED  BY <1>1, <1>2, <1>3, PTL DEF MatcherSpec
=============================================================================
