----------------------------- MODULE RecallProofs -----------------------------
(***************************************************************************)
(* The two parts that stand behind one chat request, proved for all of     *)
(* their constants: the recall cascade (RecallCascade), for every set of   *)
(* memories, stack of switches and request, and the text stream            *)
(* (TextStream), for every vocabulary, request and list of stop strings.   *)
(*                                                                         *)
(* CascadeInv: until its first token a turn has sent no text, nor while    *)
(* its draft is held; a vetoed or a declined turn never does; the cache    *)
(* is one that the undo journal covers.  It holds for every stack.         *)
(* OnePick: a stage that is reached finds no memory in the cache and none  *)
(* recalled, and once one is recalled only the answer follows.  That is so *)
(* only for the stacks of Uncombined: two of the stages do not ask whether *)
(* a memory was recalled before them.                                      *)
(* What a probe does to the cache is followed row by row: it is over what  *)
(* it began with, and the journal reaches back to there.                   *)
(*                                                                         *)
(* StreamInv: while a turn runs, what was sent and what is held back make  *)
(* up the decoded text, no stop string is in it, and so much is held back  *)
(* that one which the next token completes begins in what is held.         *)
(***************************************************************************)
EXTENDS TurnParts, Integers, FiniteSetTheorems, SequenceTheorems, TLAPS

\* Who may match: of finitely many memories one has the highest rank.
LEMMA Highest ==
  ASSUME NEW S, IsFiniteSet(S), S # {}, NEW cos \in [S -> Nat]
  PROVE  \E x \in S : \A y \in S : cos[y] <= cos[x]
<1> DEFINE Bad == {U \in SUBSET S : U # {} /\ ~ \E x \in U : \A y \in U : cos[y] <= cos[x]}
<1>1. SUFFICES Bad = {}
  <2>1. S \notin Bad BY <1>1
  <2> QED BY <2>1
<1>2. SUFFICES ASSUME Bad # {} PROVE FALSE
  OBVIOUS
<1>3. Bad \subseteq FiniteSubsetsOf(S)
  BY FS_FiniteSubsetsOfFinite
<1>4. PICK U \in Bad : \A W \in Bad : ~ (<<W, U>> \in StrictSubsetOrdering(S))
  <2> HIDE DEF Bad
  <2> QED BY <1>2, <1>3, FS_StrictSubsetOrderingWellFounded, WFMin
<1>5. PICK e \in U : TRUE
  OBVIOUS
<1>6. U \ {e} \notin Bad
  BY <1>4 DEF StrictSubsetOrdering
<1>7. U \subseteq S /\ \A x \in U : cos[x] \in Nat
  OBVIOUS
<1>8. CASE U \ {e} = {}
  BY <1>7, <1>8
<1>9. CASE U \ {e} # {}
  <2>1. PICK f \in U \ {e} : \A y \in U \ {e} : cos[y] <= cos[f]
    BY <1>6, <1>9
  <2>2. CASE cos[e] <= cos[f]
    BY <2>1, <2>2
  <2>3. CASE ~ (cos[e] <= cos[f])
    <3>1. \A y \in U : cos[y] <= cos[e]
      BY <2>1, <2>3, <1>7
    <3> QED BY <3>1
  <2> QED BY <2>2, <2>3
<1> QED BY <1>8, <1>9

LEMMA FiniteIs == \A S : R!IsFiniteSet(S) <=> IsFiniteSet(S)
BY DEF R!IsFiniteSet, IsFiniteSet

LEMMA Matches ==
  ASSUME R!CascadeAssumption, NEW v \in View, NEW S \in SUBSET Memory, S # {}
  PROVE  R!Match(S, v) \in S
<1>1. IsFiniteSet(S)
  BY FiniteIs, FS_Subset DEF R!CascadeAssumption
<1>2. [x \in S |-> v.cos[x]] \in [S -> Nat]
  BY DEF R!CascadeAssumption
<1>3. \E x \in S : \A y \in S : v.cos[y] <= v.cos[x]
  <2> DEFINE cos == [x \in S |-> v.cos[x]]
  <2>1. \E x \in S : \A y \in S : cos[y] <= cos[x]
    <3> HIDE DEF cos
    <3>1. cos \in [S -> Nat] BY <1>2 DEF cos
    <3> QED BY <1>1, <3>1, Highest
  <2> QED BY <2>1
<1> QED BY <1>3 DEF R!Match

-----------------------------------------------------------------------------
\* The rows of the cache.
RowTag == Memory \union R!Note

CacheOK(c) == /\ c \in [rows : Seq(RowTag), commit : Nat]
              /\ c.commit <= Len(c.rows)
              /\ ~ R!On("ring") => c.commit = 0

\* The rows of d are those of c and k more.
Over(d, c, k) == /\ CacheOK(d) /\ Len(d.rows) = Len(c.rows) + k
                 /\ \A i \in 1 .. Len(c.rows) : d.rows[i] = c.rows[i]

LEMMA Spanned ==
  ASSUME NEW s \in Seq(RowTag), NEW a \in RowTag, NEW n \in Nat
  PROVE  LET u == s \o [i \in 1 .. n |-> a] IN
         /\ u \in Seq(RowTag) /\ Len(u) = Len(s) + n
         /\ \A i \in 1 .. Len(s) : u[i] = s[i]
         /\ \A i \in Len(s) + 1 .. Len(s) + n : u[i] = a
<1> DEFINE f == [i \in 1 .. n |-> a]
<1>1. f \in Seq(RowTag) /\ Len(f) = n /\ \A i \in 1 .. n : f[i] = a
  OBVIOUS
<1> HIDE DEF f
<1> QED BY <1>1, ConcatProperties

LEMMA StepsOver ==
  ASSUME R!CascadeAssumption, NEW c, CacheOK(c), NEW a \in RowTag, NEW n \in Nat
  PROVE  /\ Over(R!Stepped(c, a, n), c, n)
         /\ \A i \in Len(c.rows) + 1 .. Len(c.rows) + n : R!Stepped(c, a, n).rows[i] = a
         /\ R!Stepped(c, a, n).commit \in {c.commit, Len(c.rows) + n - Jmax}
         /\ R!Stepped(c, a, n).commit # c.commit => R!On("ring")
<1> DEFINE u == c.rows \o [i \in 1 .. n |-> a]
           k == IF n = 0 THEN c.commit ELSE R!Slide(Len(c.rows) + n, c.commit)
<1>1. c.rows \in Seq(RowTag) /\ c.commit \in Nat /\ c.commit <= Len(c.rows) /\ Jmax \in Nat
  BY DEF CacheOK, R!CascadeAssumption
<1>2. /\ u \in Seq(RowTag) /\ Len(u) = Len(c.rows) + n
      /\ \A i \in 1 .. Len(c.rows) : u[i] = c.rows[i]
      /\ \A i \in Len(c.rows) + 1 .. Len(c.rows) + n : u[i] = a
  BY <1>1, Spanned
<1>3. /\ k \in Nat /\ k <= Len(c.rows) + n /\ k \in {c.commit, Len(c.rows) + n - Jmax}
      /\ ~ R!On("ring") => k = c.commit
  BY <1>1 DEF R!Slide
<1>4. R!Stepped(c, a, n) = [rows |-> u, commit |-> k]
  BY DEF R!Stepped
<1> HIDE DEF u, k
<1> QED BY <1>1, <1>2, <1>3, <1>4 DEF Over, CacheOK

LEMMA OverAgain ==
  ASSUME NEW b, NEW c, NEW d, NEW k \in Nat, NEW n \in Nat, CacheOK(b), Over(c, b, k), Over(d, c, n)
  PROVE  Over(d, b, k + n)
<1>1. Len(b.rows) \in Nat /\ Len(c.rows) = Len(b.rows) + k /\ Len(d.rows) = Len(c.rows) + n
  BY DEF CacheOK, Over
<1>2. \A i \in 1 .. Len(b.rows) : d.rows[i] = b.rows[i]
  <2> TAKE i \in 1 .. Len(b.rows)
  <2>1. i \in 1 .. Len(c.rows)
    BY <1>1
  <2> QED BY <2>1 DEF Over
<1>3. Len(d.rows) = Len(b.rows) + (k + n)
  <2> DEFINE p == Len(b.rows)
             q == Len(c.rows)
             r == Len(d.rows)
  <2>1. p \in Nat /\ q = p + k /\ r = q + n
    BY <1>1
  <2> HIDE DEF p, q, r
  <2>2. r = p + (k + n)
    BY <2>1
  <2> QED BY <2>2 DEF p, r
<1>4. CacheOK(d)
  BY DEF Over
<1> QED BY <1>2, <1>3, <1>4 DEF Over

LEMMA BackOver ==
  ASSUME NEW c, CacheOK(c), NEW k \in Nat, NEW d, Over(d, c, k), NEW n \in Nat, n <= k,
         R!On("ring") => n <= Len(d.rows) - d.commit
  PROVE  Over(R!Rewound(d, n), c, k - n) /\ R!Rewound(d, n).commit = d.commit
<1>1. /\ d.rows \in Seq(RowTag) /\ d.commit \in Nat /\ Len(d.rows) \in Nat
      /\ Len(c.rows) \in Nat /\ Len(d.rows) = Len(c.rows) + k /\ d.commit <= Len(d.rows)
  BY DEF Over, CacheOK
<1> DEFINE u == SubSeq(d.rows, 1, Len(d.rows) - n)
           r == R!Rewound(d, n)
<1>2. u \in Seq(RowTag) /\ Len(u) = Len(d.rows) - n /\ \A i \in 1 .. Len(u) : u[i] = d.rows[i]
  <2> DEFINE rest == Len(d.rows) - n
  <2>1. rest \in Nat /\ \A i \in 1 .. rest : d.rows[i] \in RowTag
    <3>1. \A i \in 1 .. Len(d.rows) : d.rows[i] \in RowTag
      BY <1>1, ElementOfSeq
    <3> QED BY <1>1, <3>1
  <2> HIDE DEF rest
  <2>2. LET w == SubSeq(d.rows, 1, rest) IN
        /\ w \in Seq(RowTag) /\ Len(w) = rest /\ \A i \in 1 .. Len(w) : w[i] = d.rows[i]
    BY <2>1, SubSeqProperties
  <2> QED BY <2>2 DEF rest
<1> HIDE DEF u
<1>3. r \in [rows : Seq(RowTag), commit : Nat] /\ r.rows = u /\ r.commit = d.commit
  <2>1. d \in [rows : Seq(RowTag), commit : Nat]
    BY DEF Over, CacheOK
  <2>2. r = [d EXCEPT !.rows = u]
    <3>1. CASE R!On("ring")
      <4>1. ~ (n > Len(d.rows) - d.commit)
        BY <1>1, <3>1
      <4> QED BY <4>1 DEF R!Rewound, u
    <3>2. CASE ~ R!On("ring")
      BY <3>2 DEF R!Rewound, u
    <3> QED BY <3>1, <3>2
  <2> HIDE DEF r
  <2> QED BY <2>1, <2>2, <1>2
<1> HIDE DEF r
<1>4. r.commit <= Len(r.rows)
  <2>1. CASE R!On("ring")
    BY <1>1, <1>2, <1>3, <2>1
  <2>2. CASE ~ R!On("ring")
    BY <1>1, <1>2, <1>3, <2>2 DEF Over, CacheOK
  <2> QED BY <2>1, <2>2
<1>5. ~ R!On("ring") => r.commit = 0
  BY <1>3 DEF Over, CacheOK
<1>6. \A i \in 1 .. Len(c.rows) : r.rows[i] = c.rows[i]
  <2> TAKE i \in 1 .. Len(c.rows)
  <2>1. i \in 1 .. Len(u)
    BY <1>1, <1>2
  <2>2. d.rows[i] = c.rows[i]
    BY DEF Over
  <2> QED BY <2>1, <2>2, <1>2, <1>3
<1>7. Len(r.rows) = Len(c.rows) + (k - n)
  BY <1>1, <1>2, <1>3
<1>8. Over(r, c, k - n) /\ r.commit = d.commit
  BY <1>3, <1>4, <1>5, <1>6, <1>7 DEF Over, CacheOK
<1> QED BY <1>8 DEF r

LEMMA OverNone ==
  ASSUME NEW c, CacheOK(c), NEW d, Over(d, c, 0)
  PROVE  d.rows = c.rows
<1>1. c.rows \in Seq(RowTag) /\ d.rows \in Seq(RowTag) /\ Len(d.rows) = Len(c.rows)
  BY DEF Over, CacheOK
<1>2. \A i \in 1 .. Len(c.rows) : d.rows[i] = c.rows[i]
  BY DEF Over
<1> QED BY <1>1, <1>2, SeqEqual

\* What is stepped over a memory that fits in the journal can be taken back with it.
LEMMA Reach ==
  ASSUME NEW l \in Nat, NEW k \in Nat, NEW p \in Nat, NEW n \in Nat, NEW j \in Nat,
         l - k + p <= j, p + n <= j, k <= l, NEW k1 \in Int, k1 \in {k, l + p - j},
         NEW k2 \in Int, k2 \in {k1, l + p + n - j}
  PROVE  n + p <= l + p + n - k2 /\ n <= l + p + n - k2 /\ p <= l + p - k2
OBVIOUS

LEMMA ReachAgain ==
  ASSUME NEW l \in Nat, NEW p \in Nat, NEW m \in Nat, NEW j \in Nat, p + m <= j,
         NEW k2 \in Int, p <= l + p - k2, NEW k3 \in Int, k3 \in {k2, l + p + m - j}
  PROVE  m + p <= l + (p + m) - k3
OBVIOUS

\* A memory probed in the resident cache is gone again after each leg.
LEMMA LegNets ==
  ASSUME R!CascadeAssumption, NEW b, CacheOK(b), NEW c, Over(c, b, 0), NEW e \in Memory, R!Fits(c, e),
         NEW n \in 0 .. NSecret, R!On("ring") => NPos[e] + NSecret <= Jmax
  PROVE  LET d == R!Rewound(R!Stepped(R!Stepped(c, e, NPos[e]), "payload", n), n + NPos[e])
         IN  Over(d, b, 0)
<1> DEFINE p == NPos[e]
           d1 == R!Stepped(c, e, p)
           d2 == R!Stepped(d1, "payload", n)
<1>1. /\ p \in Nat /\ n \in Nat /\ CacheOK(c) /\ e \in RowTag /\ "payload" \in RowTag
      /\ Len(c.rows) \in Nat /\ c.commit \in Nat /\ c.commit <= Len(c.rows) /\ Jmax \in Nat /\ NSecret \in Nat
  BY DEF R!CascadeAssumption, Over, CacheOK, RowTag, R!Note
<1>2. /\ Over(d1, c, p) /\ d1.commit \in {c.commit, Len(c.rows) + p - Jmax}
  BY <1>1, StepsOver
<1>3. CacheOK(d1) /\ Over(d2, d1, n) /\ d2.commit \in {d1.commit, Len(d1.rows) + n - Jmax}
  <2>1. CacheOK(d1)
    BY <1>2 DEF Over
  <2> HIDE DEF d1
  <2> QED BY <1>1, <2>1, StepsOver
<1> HIDE DEF d1, d2
<1>4. Over(d2, c, p + n)
  BY <1>1, <1>2, <1>3, OverAgain
<1>5. R!On("ring") => n + p <= Len(d2.rows) - d2.commit
  <2> SUFFICES ASSUME R!On("ring") PROVE n + p <= Len(d2.rows) - d2.commit
    OBVIOUS
  <2> DEFINE l == Len(c.rows)
             la == Len(d1.rows)
             l2 == Len(d2.rows)
             k == c.commit
             k1 == d1.commit
             k2 == d2.commit
  <2>1. /\ l \in Nat /\ k \in Nat /\ k <= l /\ la = l + p /\ l2 = la + n
        /\ k1 \in {k, l + p - Jmax} /\ k2 \in {k1, la + n - Jmax}
    BY <1>1, <1>2, <1>3 DEF Over
  <2>2. l - k + p <= Jmax /\ p + NSecret <= Jmax
    BY DEF R!Fits
  <2> HIDE DEF l, la, l2, k, k1, k2
  <2>6. p \in Nat /\ n \in Nat /\ Jmax \in Nat /\ NSecret \in Nat /\ n <= NSecret
    BY <1>1
  <2> HIDE DEF p
  <2>7. la \in Nat /\ l + p - Jmax \in Int /\ la + n - Jmax \in Int
    BY <2>1, <2>6
  <2>8. k1 \in Int /\ k2 \in Int
    BY <2>1, <2>7
  <2>3. /\ l - k + p <= Jmax /\ p + n <= Jmax
        /\ k1 \in {k, l + p - Jmax} /\ k2 \in {k1, l + p + n - Jmax} /\ k1 \in Int /\ k2 \in Int
    BY <2>1, <2>2, <2>6, <2>8
  <2>4. n + p <= l + p + n - k2
    BY <2>1, <2>3, <2>6, Reach
  <2>5. n + p <= l2 - k2
    BY <2>1, <2>3, <2>4, <2>6
  <2> QED BY <2>5 DEF l2, k2
<1>6. Over(R!Rewound(d2, n + p), c, (p + n) - (n + p))
  <2> DEFINE k == p + n
  <2>1. k \in Nat /\ n + p \in Nat /\ n + p <= k
    BY <1>1
  <2>2. Over(d2, c, k)
    BY <1>4
  <2> HIDE DEF k
  <2>3. Over(R!Rewound(d2, n + p), c, k - (n + p))
    BY <1>1, <1>5, <2>1, <2>2, BackOver
  <2> QED BY <2>3 DEF k
<1>7. (p + n) - (n + p) = 0 /\ 0 + 0 = 0
  BY <1>1
<1>8. Over(R!Rewound(d2, n + p), c, 0)
  BY <1>6, <1>7
<1> DEFINE d3 == R!Rewound(d2, n + p)
<1>9. Over(d3, b, 0)
  <2>1. Over(d3, c, 0)
    BY <1>8
  <2> HIDE DEF d3
  <2> QED BY <1>7, <2>1, OverAgain
<1> QED BY <1>9 DEF d2, d1

LEMMA ContinuationNets ==
  ASSUME R!CascadeAssumption, NEW c, CacheOK(c), NEW e \in Memory, R!Fits(c, e),
         NEW n1 \in 0 .. NSecret, NEW n2 \in 0 .. NSecret,
         R!On("ring") => NPos[e] + NSecret <= Jmax
  PROVE  Over(R!Continuation(c, e, n1, n2), c, 0)
<1> DEFINE once == R!Rewound(R!Stepped(R!Stepped(c, e, NPos[e]), "payload", n1), n1 + NPos[e])
<1>1. Over(c, c, 0)
  <2>1. Len(c.rows) \in Nat
    BY DEF CacheOK
  <2> QED BY <2>1 DEF Over
<1>2. Over(once, c, 0)
  BY <1>1, LegNets
<1> DEFINE twice == R!Rewound(R!Stepped(R!Stepped(once, e, NPos[e]), "payload", n2), n2 + NPos[e])
<1>3. R!Fits(once, e) => Over(twice, c, 0)
  <2> HIDE DEF once
  <2> QED BY <1>2, LegNets
<1> QED BY <1>2, <1>3 DEF R!Continuation

LEMMA AblationNets ==
  ASSUME R!CascadeAssumption, NEW c, CacheOK(c), NEW e \in Memory, R!Fits(c, e),
         NEW n1 \in 0 .. NSecret, NEW n2 \in 0 .. NSecret,
         R!On("ring") => NPos[e] + NSecret <= Jmax
  PROVE  Over(R!Ablation(c, e, n1, n2), c, 0)
<1> DEFINE p == NPos[e]
           d1 == R!Stepped(c, e, p)
           d2 == R!Stepped(d1, "payload", n1)
           d3 == R!Rewound(d2, n1)
           d4 == R!Stepped(d3, "payload", n2)
<1>1. /\ p \in Nat /\ n1 \in Nat /\ n2 \in Nat /\ e \in RowTag /\ "payload" \in RowTag
      /\ Len(c.rows) \in Nat /\ c.commit \in Nat /\ c.commit <= Len(c.rows) /\ Jmax \in Nat /\ NSecret \in Nat
      /\ n1 <= NSecret /\ n2 <= NSecret
  BY DEF R!CascadeAssumption, CacheOK, RowTag, R!Note
<1>2. Over(d1, c, p) /\ d1.commit \in {c.commit, Len(c.rows) + p - Jmax}
  BY <1>1, StepsOver
<1>3. CacheOK(d1) /\ Over(d2, d1, n1) /\ d2.commit \in {d1.commit, Len(d1.rows) + n1 - Jmax}
  <2>1. CacheOK(d1)
    BY <1>2 DEF Over
  <2> HIDE DEF d1
  <2> QED BY <1>1, <2>1, StepsOver
<1> DEFINE l == Len(c.rows)
           k == c.commit
           k1 == d1.commit
           k2 == d2.commit
<1>4. /\ l \in Nat /\ k \in Nat /\ k <= l /\ k1 \in {k, l + p - Jmax} /\ k2 \in {k1, l + p + n1 - Jmax}
      /\ k2 \in Nat /\ k1 \in Nat
  <2>1. Len(d1.rows) = l + p /\ k1 \in Nat /\ k2 \in Nat
    BY <1>2, <1>3 DEF Over, CacheOK
  <2> QED BY <1>1, <1>2, <1>3, <2>1
<1>5. R!On("ring") => l - k + p <= Jmax /\ p + NSecret <= Jmax
  BY DEF R!Fits
<1>10. R!On("ring") => n1 <= l + p + n1 - k2 /\ p <= l + p - k2
  <2> SUFFICES ASSUME R!On("ring") PROVE n1 <= l + p + n1 - k2 /\ p <= l + p - k2
    OBVIOUS
  <2>1. p + n1 <= Jmax /\ l - k + p <= Jmax /\ k1 \in Int /\ k2 \in Int
    BY <1>1, <1>4, <1>5
  <2>2. l \in Nat /\ k \in Nat /\ p \in Nat /\ n1 \in Nat /\ Jmax \in Nat /\ k <= l
    BY <1>1, <1>4
  <2>3. k1 \in {k, l + p - Jmax} /\ k2 \in {k1, l + p + n1 - Jmax}
    BY <1>4
  <2> HIDE DEF l, k, k1, k2, p
  <2> QED BY <2>1, <2>2, <2>3, Reach
<1> HIDE DEF d1, d2
<1>6. Over(d3, d1, 0) /\ d3.commit = k2
  <2>1. n1 <= n1 /\ n1 - n1 = 0
    BY <1>1
  <2>2. R!On("ring") => n1 <= Len(d2.rows) - d2.commit
    <3> DEFINE q == Len(d2.rows)
    <3>1. q = l + p + n1
      BY <1>1, <1>2, <1>3 DEF Over
    <3> HIDE DEF q, l, k, k1, k2
    <3>2. R!On("ring") => n1 <= q - k2
      BY <1>1, <1>4, <1>10, <3>1
    <3> QED BY <3>2 DEF q, k2
  <2>3. Over(R!Rewound(d2, n1), d1, n1 - n1) /\ R!Rewound(d2, n1).commit = d2.commit
    BY <1>1, <1>3, <2>1, <2>2, BackOver
  <2> QED BY <2>1, <2>3
<1>7. Over(d3, c, p)
  <2> HIDE DEF d3
  <2>1. p + 0 = p
    BY <1>1
  <2> QED BY <1>1, <1>2, <1>6, <2>1, OverAgain
<1>8. CASE n1 = 0
  <2>1. R!On("ring") => p <= Len(d3.rows) - d3.commit
    <3> DEFINE q == Len(d3.rows)
               k3 == d3.commit
    <3>1. q = l + p /\ k3 = k2
      BY <1>6, <1>7 DEF Over
    <3> HIDE DEF q, k3, l, k, k1, k2
    <3>2. R!On("ring") => p <= q - k3
      BY <1>1, <1>4, <1>10, <3>1
    <3> QED BY <3>2 DEF q, k3
  <2>2. p <= p /\ p - p = 0
    BY <1>1
  <2> HIDE DEF d3
  <2>3. Over(R!Rewound(d3, p), c, p - p)
    BY <1>1, <1>7, <2>1, <2>2, BackOver
  <2>4. R!Ablation(c, e, n1, n2) = R!Rewound(d3, p)
    BY <1>8 DEF R!Ablation, d3, d2, d1
  <2> QED BY <2>2, <2>3, <2>4
<1>9. CASE n1 # 0
  <2>1. Over(d4, d3, n2) /\ d4.commit \in {d3.commit, Len(d3.rows) + n2 - Jmax}
    <3>1. CacheOK(d3)
      BY <1>7 DEF Over
    <3> HIDE DEF d3
    <3> QED BY <1>1, <3>1, StepsOver
  <2>2. Over(d4, c, p + n2)
    <3> HIDE DEF d3, d4
    <3> QED BY <1>1, <1>7, <2>1, OverAgain
  <2>3. R!On("ring") => n2 + p <= Len(d4.rows) - d4.commit
    <3> DEFINE q == Len(d4.rows)
               k3 == d3.commit
               k4 == d4.commit
    <3>1. Len(d3.rows) = l + p /\ Len(d4.rows) = l + (p + n2)
      BY <1>7, <2>2 DEF Over
    <3>2. q = l + (p + n2) /\ k4 \in {k3, l + p + n2 - Jmax} /\ k3 = k2
      BY <1>6, <2>1, <3>1
    <3> HIDE DEF q, k3, k4, l, k, k1, k2
    <3>3. R!On("ring") => n2 + p <= l + (p + n2) - k4
      <4> SUFFICES ASSUME R!On("ring") PROVE n2 + p <= l + (p + n2) - k4
        OBVIOUS
      <4>1. p + n2 <= Jmax /\ k4 \in Int /\ k4 \in {k2, l + p + n2 - Jmax} /\ k2 \in Int /\ p <= l + p - k2
        BY <1>1, <1>4, <1>5, <1>10, <3>2
      <4>2. l \in Nat /\ p \in Nat /\ n2 \in Nat /\ Jmax \in Nat
        BY <1>1, <1>4
      <4> HIDE DEF p
      <4> QED BY <4>1, <4>2, ReachAgain
    <3>4. R!On("ring") => n2 + p <= q - k4
      BY <1>1, <1>4, <3>2, <3>3
    <3> QED BY <3>4 DEF q, k4
  <2> DEFINE w == p + n2
  <2>4. w \in Nat /\ n2 + p \in Nat /\ n2 + p <= w /\ w - (n2 + p) = 0
    BY <1>1
  <2>5. Over(d4, c, w)
    BY <2>2
  <2>6. Over(R!Rewound(d4, n2 + p), c, w - (n2 + p))
    <3> HIDE DEF w, d4
    <3> QED BY <2>3, <2>4, <2>5, BackOver
  <2>7. Over(R!Rewound(d4, n2 + p), c, 0)
    <3> HIDE DEF w, d4
    <3> QED BY <2>4, <2>6
  <2>8. R!Ablation(c, e, n1, n2) = R!Rewound(d4, n2 + p)
    BY <1>9 DEF R!Ablation, d4, d3, d2, d1
  <2> QED BY <2>7, <2>8
<1> QED BY <1>8, <1>9

LadderStages == {"int2", "wc", "jaccard", "l5", "judge", "disp", "qk"}
Begun == LadderStages \union {"spine", "judged", "announce", "steer", "seed"}
TurnPlaces == Begun \union {"idle", "decode", "flush", "test", "done", "end"}
Recall == Memory \union {None}
Label == R!Chunk \union {"delegate", "done", "recall", "decline", "error", "record", "cancelled"}

\* A turn, its fields from the sets that are given.
TurnOf(P, V, K, Q, B, S) ==
  [pc : P, view : V, todo : K, best : Q, decided : B, recalled : Q, decline : B, fact : Q,
   text : S, held : S, stepped : B, vetoed : B]
TurnRec == TurnOf(TurnPlaces, View, SUBSET Memory, Recall, BOOLEAN, Seq(R!Chunk))

CascadeTypes == /\ cfg \in Configs /\ retired \subseteq Live /\ steer \in BOOLEAN /\ CacheOK(cache)
                /\ turn \in TurnRec /\ sent \in Seq(Label \X Recall)

Silent == \A i \in DOMAIN sent : sent[i][1] \notin R!Chunk

\* Before its first token a turn has sent no text, while its draft is held none.
Quiet ==
  /\ turn.pc \in Begun => Silent
  /\ R!Held /\ turn.pc \in {"decode", "flush"} => Silent
  /\ turn.pc = "test" => Silent
  /\ turn.vetoed => turn.pc \in {"done", "end"} /\ Silent
  /\ turn.decline => turn.pc \in (LadderStages \union {"judged", "announce", "end"}) /\ Silent

Steered == turn.pc \in {"seed", "decode"} /\ steer => turn.recalled # None

CascadeInv == CascadeTypes /\ Quiet /\ Steered

\* A stage that is reached is switched on and follows none that recalled.
OnePick ==
  /\ turn.pc \in LadderStages => R!On(turn.pc)
  /\ turn.pc = "judged" => R!On("judge")
  /\ turn.pc \in LadderStages \union {"judged", "spine"} =>
       turn.recalled = None /\ turn.decided = FALSE /\ turn.decline = FALSE
  /\ turn.pc = "disp" => turn.todo \subseteq Memory \ Live
  /\ turn.fact # None => turn.recalled = turn.fact
  /\ turn.pc \in Begun \union {"decode"} /\ turn.decline = FALSE =>
       R!Recited(cache) = IF turn.recalled = None THEN {} ELSE {turn.recalled}

\* What the comments say not to combine (routes.rs 2008, "run WITHOUT", and 1561, "MUST
\* NOT double-fire"): the two stages that do not ask whether a memory was recalled stand
\* alone, and the disposer's probes fit in the journal where the window is a ring.
Uncombined ==
  \A c \in Configs :
    /\ {"disp", "qk"} \intersect c # {} => {"wc", "jaccard", "l5", "judge"} \intersect c = {}
    /\ {"disp", "ring"} \subseteq c => \A e \in Memory \ Live : NPos[e] + NSecret <= Jmax
-----------------------------------------------------------------------------
\* The fields of a turn that matter after a stage.
Kept(t, u) == /\ u.view = t.view /\ u.decided = t.decided /\ u.recalled = t.recalled
              /\ u.decline = t.decline /\ u.fact = t.fact /\ u.vetoed = t.vetoed

\* One lemma for each form in which the actions change a turn.
LEMMA Forms ==
  ASSUME NEW t \in TurnRec
  PROVE  /\ \A x \in TurnPlaces : LET u == [t EXCEPT !.pc = x] IN
                u \in TurnRec /\ u.pc = x /\ Kept(t, u)
         /\ \A x \in TurnPlaces, y \in SUBSET Memory : LET u == [t EXCEPT !.pc = x, !.todo = y] IN
                u \in TurnRec /\ u.pc = x /\ Kept(t, u)
         /\ \A x \in TurnPlaces, y \in SUBSET Memory, z \in Recall : LET u == [t EXCEPT !.pc = x, !.todo = y, !.best = z] IN
                u \in TurnRec /\ u.pc = x /\ Kept(t, u)
         /\ \A y \in SUBSET Memory, z \in Recall : LET u == [t EXCEPT !.todo = y, !.best = z] IN
                u \in TurnRec /\ u.pc = t.pc /\ Kept(t, u)
         /\ \A y \in SUBSET Memory : LET u == [t EXCEPT !.todo = y] IN
                u \in TurnRec /\ u.pc = t.pc /\ Kept(t, u)
<1> DEFINE P == TurnPlaces
           K == SUBSET Memory
           B == BOOLEAN
           S == Seq(R!Chunk)
<1>1. TurnRec = TurnOf(P, View, K, Recall, B, S)
  BY DEF TurnRec
<1> HIDE DEF P, K, B, S
<1>2. /\ \A x \in P : LET u == [t EXCEPT !.pc = x] IN
             u \in TurnRec /\ u.pc = x /\ Kept(t, u)
      /\ \A x \in P, y \in K : LET u == [t EXCEPT !.pc = x, !.todo = y] IN
             u \in TurnRec /\ u.pc = x /\ Kept(t, u)
      /\ \A x \in P, y \in K, z \in Recall : LET u == [t EXCEPT !.pc = x, !.todo = y, !.best = z] IN
             u \in TurnRec /\ u.pc = x /\ Kept(t, u)
      /\ \A y \in K, z \in Recall : LET u == [t EXCEPT !.todo = y, !.best = z] IN
             u \in TurnRec /\ u.pc = t.pc /\ Kept(t, u)
      /\ \A y \in K : LET u == [t EXCEPT !.todo = y] IN
             u \in TurnRec /\ u.pc = t.pc /\ Kept(t, u)
  BY <1>1 DEF TurnOf, Kept
<1> QED BY <1>2 DEF P, K, B, S

LEMMA RecallForms ==
  ASSUME NEW t \in TurnRec
  PROVE  /\ \A x \in Recall : LET u == [t EXCEPT !.recalled = x] IN
                /\ u \in TurnRec /\ u.recalled = x /\ u.pc = t.pc /\ u.view = t.view
                /\ u.decided = t.decided /\ u.decline = t.decline /\ u.fact = t.fact /\ u.vetoed = t.vetoed
         /\ \A x \in Recall : LET u == [t EXCEPT !.fact = x] IN
                /\ u \in TurnRec /\ u.fact = x /\ u.pc = t.pc /\ u.view = t.view
                /\ u.decided = t.decided /\ u.decline = t.decline /\ u.recalled = t.recalled /\ u.vetoed = t.vetoed
         /\ \A x \in BOOLEAN : LET u == [t EXCEPT !.decline = x] IN
                /\ u \in TurnRec /\ u.decline = x /\ u.pc = t.pc /\ u.view = t.view
                /\ u.decided = t.decided /\ u.fact = t.fact /\ u.recalled = t.recalled /\ u.vetoed = t.vetoed
         /\ \A x \in BOOLEAN : LET u == [t EXCEPT !.decided = x] IN
                /\ u \in TurnRec /\ u.decided = x /\ u.pc = t.pc /\ u.view = t.view
                /\ u.decline = t.decline /\ u.fact = t.fact /\ u.recalled = t.recalled /\ u.vetoed = t.vetoed
<1> DEFINE P == TurnPlaces
           K == SUBSET Memory
           B == BOOLEAN
           S == Seq(R!Chunk)
<1>1. TurnRec = TurnOf(P, View, K, Recall, B, S)
  BY DEF TurnRec
<1> HIDE DEF P, K, B, S
<1>2. /\ \A x \in Recall : LET u == [t EXCEPT !.recalled = x] IN
             /\ u \in TurnRec /\ u.recalled = x /\ u.pc = t.pc /\ u.view = t.view
             /\ u.decided = t.decided /\ u.decline = t.decline /\ u.fact = t.fact /\ u.vetoed = t.vetoed
      /\ \A x \in Recall : LET u == [t EXCEPT !.fact = x] IN
             /\ u \in TurnRec /\ u.fact = x /\ u.pc = t.pc /\ u.view = t.view
             /\ u.decided = t.decided /\ u.decline = t.decline /\ u.recalled = t.recalled /\ u.vetoed = t.vetoed
      /\ \A x \in B : LET u == [t EXCEPT !.decline = x] IN
             /\ u \in TurnRec /\ u.decline = x /\ u.pc = t.pc /\ u.view = t.view
             /\ u.decided = t.decided /\ u.fact = t.fact /\ u.recalled = t.recalled /\ u.vetoed = t.vetoed
      /\ \A x \in B : LET u == [t EXCEPT !.decided = x] IN
             /\ u \in TurnRec /\ u.decided = x /\ u.pc = t.pc /\ u.view = t.view
             /\ u.decline = t.decline /\ u.fact = t.fact /\ u.recalled = t.recalled /\ u.vetoed = t.vetoed
  BY <1>1 DEF TurnOf, Kept
<1> QED BY <1>2 DEF P, K, B, S

LEMMA TextForms ==
  ASSUME NEW t \in TurnRec
  PROVE  /\ \A x \in Seq(R!Chunk) : LET u == [t EXCEPT !.held = x] IN
                u \in TurnRec /\ u.pc = t.pc /\ Kept(t, u)
         /\ \A x \in Seq(R!Chunk) : LET u == [t EXCEPT !.text = x] IN
                u \in TurnRec /\ u.pc = t.pc /\ Kept(t, u)
         /\ \A x \in BOOLEAN : LET u == [t EXCEPT !.stepped = x] IN
                u \in TurnRec /\ u.pc = t.pc /\ Kept(t, u)
<1> DEFINE P == TurnPlaces
           K == SUBSET Memory
           B == BOOLEAN
           S == Seq(R!Chunk)
<1>1. TurnRec = TurnOf(P, View, K, Recall, B, S)
  BY DEF TurnRec
<1> HIDE DEF P, K, B, S
<1>2. /\ \A x \in S : LET u == [t EXCEPT !.held = x] IN
             u \in TurnRec /\ u.pc = t.pc /\ Kept(t, u)
      /\ \A x \in S : LET u == [t EXCEPT !.text = x] IN
             u \in TurnRec /\ u.pc = t.pc /\ Kept(t, u)
      /\ \A x \in B : LET u == [t EXCEPT !.stepped = x] IN
             u \in TurnRec /\ u.pc = t.pc /\ Kept(t, u)
  BY <1>1 DEF TurnOf, Kept
<1> QED BY <1>2 DEF P, K, B, S

LEMMA FieldTypes ==
  ASSUME NEW t \in TurnRec
  PROVE  /\ t.pc \in TurnPlaces /\ t.view \in View /\ t.todo \subseteq Memory
         /\ t.best \in Recall /\ t.recalled \in Recall /\ t.fact \in Recall
         /\ t.decided \in BOOLEAN /\ t.decline \in BOOLEAN /\ t.vetoed \in BOOLEAN /\ t.stepped \in BOOLEAN
         /\ t.text \in Seq(R!Chunk) /\ t.held \in Seq(R!Chunk)
BY DEF TurnRec, TurnOf

LEMMA OnwardIs ==
  ASSUME R!CascadeAssumption, NEW t \in TurnRec, NEW i \in 0 .. 7
  PROVE  /\ R!Onward(t, i) \in TurnRec /\ Kept(t, R!Onward(t, i))
         /\ R!Onward(t, i).pc \in LadderStages \union {"announce"}
         /\ R!Onward(t, i).pc # "announce" =>
              \E j \in i + 1 .. 7 : R!Onward(t, i).pc = R!Stages[j] /\ R!Runs(t, R!Stages[j])
         /\ R!Onward(t, i).pc = "disp" => R!Onward(t, i).todo \subseteq Memory \ Live
<1> DEFINE left == {j \in i + 1 .. Len(R!Stages) : R!Runs(t, R!Stages[j])}
           next == IF left = {} THEN "announce" ELSE R!Stages[CHOOSE j \in left : \A k \in left : j <= k]
           list == CASE next = "int2" -> Sidecar [] next = "disp" -> Memory \ Live [] OTHER -> {}
<1>1. Len(R!Stages) = 7 /\ \A j \in 1 .. 7 : R!Stages[j] \in LadderStages
  BY DEF R!Stages, LadderStages
<1>2. left # {} => \E j \in left : \A k \in left : j <= k
  <2> SUFFICES ASSUME left # {} PROVE \E j \in left : \A k \in left : j <= k
    OBVIOUS
  <2>1. left \subseteq Nat
    BY <1>1
  <2> HIDE DEF left
  <2>2. PICK j \in left : \A k \in left : ~ (<<k, j>> \in OpToRel(<, Nat))
    BY <2>1, NatLessThanWellFounded, WFMin
  <2>3. \A k \in left : ~ (k < j)
    BY <2>1, <2>2 DEF OpToRel
  <2> QED BY <2>1, <2>3
<1>3. next # "announce" => \E j \in i + 1 .. 7 : next = R!Stages[j] /\ R!Runs(t, R!Stages[j])
  <2> SUFFICES ASSUME left # {} PROVE \E j \in i + 1 .. 7 : next = R!Stages[j] /\ R!Runs(t, R!Stages[j])
    OBVIOUS
  <2> DEFINE first == CHOOSE j \in left : \A k \in left : j <= k
  <2>1. first \in left
    <3> HIDE DEF left
    <3> QED BY <1>2
  <2>2. next = R!Stages[first]
    OBVIOUS
  <2> HIDE DEF first
  <2> QED BY <1>1, <2>1, <2>2
<1>4. next \in LadderStages \union {"announce"}
  <2>1. CASE next = "announce"
    BY <2>1
  <2>2. CASE next # "announce"
    <3> HIDE DEF next
    <3> QED BY <1>1, <1>3, <2>2
  <2> QED BY <2>1, <2>2
<1>5. list \in SUBSET Memory
  <2> HIDE DEF next
  <2>1. Sidecar \subseteq Memory
    BY DEF R!CascadeAssumption
  <2> QED BY <2>1
<1>6. R!Onward(t, i) = [t EXCEPT !.pc = next, !.todo = list, !.best = None]
  BY DEF R!Onward
<1>8. next = "disp" => list \subseteq Memory \ Live
  <2> HIDE DEF next
  <2> QED OBVIOUS
<1> HIDE DEF next, list, left
<1>7. next \in TurnPlaces /\ None \in Recall
  BY <1>4 DEF TurnPlaces, Begun, Recall
<1> DEFINE u == [t EXCEPT !.pc = next, !.todo = list, !.best = None]
<1>9. u \in TurnRec /\ u.pc = next /\ Kept(t, u)
  BY <1>5, <1>7, Forms
<1>10. u.todo = list
  BY DEF TurnRec, TurnOf
<1> HIDE DEF u
<1> QED BY <1>3, <1>4, <1>6, <1>8, <1>9, <1>10 DEF u

LEMMA NoteTags ==
  R!CascadeAssumption => /\ R!Note \subseteq RowTag /\ Memory \subseteq RowTag /\ Memory \intersect R!Note = {}
                         /\ None \notin Memory
BY DEF R!CascadeAssumption, RowTag

LEMMA EmptyIs == CacheOK(R!Empty) /\ R!Recited(R!Empty) = {}
<1>1. R!Empty \in [rows : Seq(RowTag), commit : Nat] /\ R!Empty.rows = <<>> /\ R!Empty.commit = 0 /\ Len(<<>>) = 0
  BY DEF R!Empty
<1>2. CacheOK(R!Empty)
  BY <1>1 DEF CacheOK
<1>3. DOMAIN R!Empty.rows = {}
  BY <1>1
<1> QED BY <1>2, <1>3 DEF R!Recited

LEMMA SteppedRecites ==
  ASSUME R!CascadeAssumption, NEW c, CacheOK(c), NEW a \in RowTag, NEW n \in Nat
  PROVE  /\ CacheOK(R!Stepped(c, a, n))
         /\ a \in R!Note => R!Recited(R!Stepped(c, a, n)) = R!Recited(c)
         /\ a \in Memory /\ n > 0 => R!Recited(R!Stepped(c, a, n)) = R!Recited(c) \union {a}
<1> DEFINE d == R!Stepped(c, a, n)
<1>1. Over(d, c, n) /\ \A i \in Len(c.rows) + 1 .. Len(c.rows) + n : d.rows[i] = a
  BY StepsOver
<1> HIDE DEF d
<1> DEFINE l == Len(c.rows)
<1>2. /\ CacheOK(d) /\ l \in Nat /\ DOMAIN c.rows = 1 .. l /\ DOMAIN d.rows = 1 .. l + n
      /\ \A i \in 1 .. l : d.rows[i] = c.rows[i]
      /\ \A i \in l + 1 .. l + n : d.rows[i] = a
  BY <1>1 DEF Over, CacheOK
<1> HIDE DEF l
<1>3. \A i \in 1 .. l + n : i \in 1 .. l \/ i \in l + 1 .. l + n
  BY <1>2
<1>4. R!Recited(c) \subseteq R!Recited(d)
  BY <1>2 DEF R!Recited
<1>5. \A e \in R!Recited(d) : e \in R!Recited(c) \/ e = a
  <2> TAKE e \in R!Recited(d)
  <2>1. PICK i \in 1 .. l + n : e \in Memory /\ d.rows[i] = e
    BY <1>2 DEF R!Recited
  <2>2. CASE i \in 1 .. l
    BY <1>2, <2>1, <2>2 DEF R!Recited
  <2>3. CASE i \in l + 1 .. l + n
    BY <1>2, <2>1, <2>3
  <2> QED BY <1>3, <2>2, <2>3
<1>6. a \in Memory /\ n > 0 => a \in R!Recited(d)
  <2> SUFFICES ASSUME a \in Memory, n > 0 PROVE a \in R!Recited(d)
    OBVIOUS
  <2>1. l + 1 \in 1 .. l + n /\ l + 1 \in l + 1 .. l + n
    BY <1>2
  <2> QED BY <1>2, <2>1 DEF R!Recited
<1>7. a \in R!Note => a \notin R!Recited(d)
  BY NoteTags DEF R!Recited
<1>8. CacheOK(d) /\ (a \in R!Note => R!Recited(d) = R!Recited(c))
      /\ (a \in Memory /\ n > 0 => R!Recited(d) = R!Recited(c) \union {a})
  BY <1>2, <1>4, <1>5, <1>6, <1>7
<1> QED BY <1>8 DEF d

LEMMA Augmented ==
  ASSUME R!CascadeAssumption, NEW e \in Memory
  PROVE  CacheOK(R!AugRows(e)) /\ R!Recited(R!AugRows(e)) = {e}
<1> DEFINE f == R!Stepped(R!Empty, "frame", 1)
<1>1. "frame" \in R!Note /\ "frame" \in RowTag /\ e \in RowTag
  BY NoteTags DEF R!Note
<1>2. CacheOK(f) /\ R!Recited(f) = {}
  BY <1>1, EmptyIs, SteppedRecites
<1> HIDE DEF f
<1>3. CacheOK(R!Stepped(f, e, 1)) /\ R!Recited(R!Stepped(f, e, 1)) = {} \union {e}
  BY <1>1, <1>2, SteppedRecites
<1> QED BY <1>3 DEF R!AugRows, f

LEMMA Headed ==
  ASSUME R!CascadeAssumption
  PROVE  CacheOK(R!HeadRows) /\ R!Recited(R!HeadRows) = {}
<1>1. "head" \in R!Note /\ "head" \in RowTag /\ NHead \in Nat
  BY NoteTags DEF R!Note, R!CascadeAssumption
<1> QED BY <1>1, EmptyIs, SteppedRecites DEF R!HeadRows

LEMMA TextIs ==
  ASSUME R!CascadeAssumption, CacheOK(cache), NEW e \in Memory, NEW o \in R!TextOutcome(e)
  PROVE  /\ o.ok \in BOOLEAN /\ CacheOK(o.cache)
         /\ o.ok = TRUE => R!Recited(o.cache) = {e}
         /\ o.ok = FALSE => o.cache \in {cache, R!Empty}
<1>1. CASE o = [ok |-> TRUE,  cache |-> R!AugRows(e)]
  BY <1>1, Augmented
<1>2. CASE o = [ok |-> FALSE, cache |-> cache]
  BY <1>2
<1>3. CASE o = [ok |-> FALSE, cache |-> R!Empty]
  BY <1>3, EmptyIs
<1> QED BY <1>1, <1>2, <1>3 DEF R!TextOutcome

LEMMA ReplayIs ==
  ASSUME R!CascadeAssumption, CacheOK(cache), NEW e \in Memory, NEW o \in R!ReplayOutcome(e)
  PROVE  /\ o.ok \in BOOLEAN /\ CacheOK(o.cache)
         /\ o.ok = TRUE => R!Recited(o.cache) = R!Recited(cache) \union {e}
         /\ o.ok = FALSE => o.cache = cache
<1> DEFINE d == R!Stepped(cache, e, NPos[e])
<1>1. CASE o = [ok |-> FALSE, cache |-> cache]
  BY <1>1
<1>2. CASE R!Fits(cache, e) /\ o = [ok |-> TRUE, cache |-> d]
  <2>1. NPos[e] \in Nat /\ NPos[e] > 0 /\ e \in RowTag
    BY <1>2, NoteTags DEF R!CascadeAssumption, R!Fits
  <2>2. CacheOK(d) /\ R!Recited(d) = R!Recited(cache) \union {e}
    BY <2>1, SteppedRecites
  <2> HIDE DEF d
  <2> QED BY <1>2, <2>2
<1> QED BY <1>1, <1>2 DEF R!ReplayOutcome

LEMMA SameCache ==
  ASSUME cfg' = cfg, NEW c, c = cache', CacheOK(c)
  PROVE  CacheOK(cache)'
<1>1. c \in [rows : Seq(RowTag), commit : Nat] /\ c.commit <= Len(c.rows) /\ (~ R!On("ring") => c.commit = 0)
  BY DEF CacheOK
<1>2. R!On("ring")' = R!On("ring")
  BY DEF R!On
<1> QED BY <1>1, <1>2 DEF CacheOK

LEMMA SameRecital ==
  ASSUME NEW c, c = cache'
  PROVE  R!Recited(cache)' = R!Recited(c)
BY DEF R!Recited

-----------------------------------------------------------------------------
\* Stages.  Whatever a stage does, nothing is sent.
LEMMA PassedKeeps ==
  ASSUME R!CascadeAssumption, CascadeInv, turn.pc \in Begun, NEW t \in TurnRec, NEW i \in 0 .. 7,
         t.vetoed = FALSE, turn' = R!Onward(t, i), CacheOK(cache)',
         UNCHANGED <<cfg, retired, steer, sent>>
  PROVE  CascadeInv'
<1> DEFINE u == R!Onward(t, i)
<1>1. u \in TurnRec /\ Kept(t, u) /\ u.pc \in LadderStages \union {"announce"}
  BY OnwardIs
<1> HIDE DEF u
<1>2. turn' = u
  BY DEF u
<1>3. Silent' /\ u.vetoed = FALSE
  BY <1>1 DEF CascadeInv, Quiet, Silent, Kept
<1>4. CascadeTypes'
  BY <1>1, <1>2 DEF CascadeInv, CascadeTypes
<1>5. u.pc \notin {"seed", "decode", "flush", "test"}
  BY <1>1 DEF LadderStages
<1>6. Quiet'
  BY <1>1, <1>2, <1>3, <1>5 DEF Quiet
<1>7. Steered'
  BY <1>2, <1>5 DEF Steered
<1> QED BY <1>4, <1>6, <1>7 DEF CascadeInv

LEMMA Unvetoed ==
  ASSUME CascadeInv, turn.pc \in Begun
  PROVE  turn \in TurnRec /\ turn.vetoed = FALSE /\ CacheOK(cache)
<1>1. turn.vetoed \in BOOLEAN /\ turn \in TurnRec /\ CacheOK(cache)
  BY FieldTypes DEF CascadeInv, CascadeTypes
<1>2. turn.pc \notin {"done", "end"}
  BY DEF Begun, LadderStages
<1> QED BY <1>1, <1>2 DEF CascadeInv, Quiet

LEMMA ConcludedKeeps ==
  ASSUME R!CascadeAssumption, CascadeInv, turn.pc \in Begun, NEW t \in TurnRec, NEW i \in 0 .. 7,
         t.vetoed = FALSE, NEW o, CacheOK(o.cache), NEW e \in Recall, R!Concluded(t, i, o, e)
  PROVE  CascadeInv'
<1>1. CacheOK(cache)'
  BY SameCache DEF R!Concluded
<1> DEFINE u == [t EXCEPT !.recalled = e]
<1>2. u \in TurnRec /\ u.vetoed = FALSE
  BY RecallForms
<1> HIDE DEF u
<1>3. CASE o.ok
  <2>1. turn' = R!Onward(u, i) /\ UNCHANGED <<cfg, retired, steer, sent>>
    BY <1>3 DEF R!Concluded, u
  <2> QED BY <1>1, <1>2, <2>1, PassedKeeps
<1>4. CASE ~ o.ok
  <2>1. turn' = R!Onward(t, i) /\ UNCHANGED <<cfg, retired, steer, sent>>
    BY <1>4 DEF R!Concluded
  <2> QED BY <1>1, <2>1, PassedKeeps
<1> QED BY <1>3, <1>4

\* What is sent one label at a time.
LEMMA Sends ==
  ASSUME sent \in Seq(Label \X Recall), NEW a \in Label, NEW e \in Recall, sent' = Append(sent, <<a, e>>)
  PROVE  /\ sent' \in Seq(Label \X Recall)
         /\ Silent /\ a \notin R!Chunk => Silent'
<1> DEFINE s == <<a, e>>
<1>1. s \in Label \X Recall /\ s[1] = a
  OBVIOUS
<1> HIDE DEF s
<1>2. sent' = Append(sent, s)
  BY DEF s
<1>3. /\ sent' \in Seq(Label \X Recall) /\ Len(sent') = Len(sent) + 1
      /\ \A i \in 1 .. Len(sent) : sent'[i] = sent[i]
      /\ sent'[Len(sent) + 1] = s
  BY <1>1, <1>2, AppendProperties
<1>4. DOMAIN sent = 1 .. Len(sent) /\ DOMAIN sent' = 1 .. Len(sent) + 1 /\ Len(sent) \in Nat
  BY <1>3
<1>5. ASSUME Silent, a \notin R!Chunk PROVE Silent'
  <2> SUFFICES ASSUME NEW i \in 1 .. Len(sent) + 1 PROVE sent'[i][1] \notin R!Chunk
    BY <1>4 DEF Silent
  <2>1. CASE i = Len(sent) + 1
    BY <1>1, <1>3, <1>5, <2>1
  <2>2. CASE i \in 1 .. Len(sent)
    BY <1>3, <1>4, <1>5, <2>2 DEF Silent
  <2> QED BY <1>4, <2>1, <2>2
<1> QED BY <1>3, <1>5

LEMMA Labels == /\ R!Chunk \subseteq Label /\ "done" \in Label /\ "recall" \in Label /\ "decline" \in Label
                /\ "error" \in Label /\ "record" \in Label /\ "cancelled" \in Label /\ "delegate" \in Label
                /\ "done" \notin R!Chunk /\ "recall" \notin R!Chunk /\ "decline" \notin R!Chunk /\ "error" \notin R!Chunk
                /\ "record" \notin R!Chunk /\ "cancelled" \notin R!Chunk /\ "delegate" \notin R!Chunk /\ None \in Recall
BY DEF Label, R!Chunk, Recall

LEMMA IdleIs ==
  ASSUME R!CascadeAssumption
  PROVE  /\ R!Idle \in TurnRec /\ R!Idle.pc = "idle" /\ R!Idle.vetoed = FALSE /\ R!Idle.decline = FALSE
         /\ R!Idle.recalled = None /\ R!Idle.fact = None /\ R!Idle.decided = FALSE
<1>1. (CHOOSE v \in View : TRUE) \in View
  BY DEF R!CascadeAssumption
<1> DEFINE w == CHOOSE v \in View : TRUE
<1> HIDE DEF w
<1>2. /\ R!Idle.pc = "idle" /\ R!Idle.vetoed = FALSE /\ R!Idle.decline = FALSE
      /\ R!Idle.recalled = None /\ R!Idle.fact = None /\ R!Idle.decided = FALSE
  BY DEF R!Idle
<1>3. R!Idle = [pc |-> "idle", view |-> w, todo |-> {}, best |-> None,
              decided |-> FALSE, recalled |-> None, decline |-> FALSE, fact |-> None,
              text |-> <<>>, held |-> <<>>, stepped |-> FALSE, vetoed |-> FALSE]
  BY DEF R!Idle, w
<1>4. "idle" \in TurnPlaces /\ {} \in SUBSET Memory /\ None \in Recall /\ <<>> \in Seq(R!Chunk) /\ w \in View
  BY <1>1, Labels DEF TurnPlaces, w
<1> DEFINE P == TurnPlaces
           K == SUBSET Memory
           B == BOOLEAN
           S == Seq(R!Chunk)
<1>5. /\ TurnRec = TurnOf(P, View, K, Recall, B, S) /\ FALSE \in B
      /\ "idle" \in P /\ {} \in K /\ <<>> \in S
  BY <1>4 DEF TurnRec
<1> HIDE DEF P, K, B, S
<1>6. R!Idle \in TurnRec
  BY <1>3, <1>4, <1>5 DEF TurnOf
<1> QED BY <1>2, <1>6

LEMMA CascadeInit == R!CascadeAssumption /\ R!Init => CascadeInv
<1> SUFFICES ASSUME R!CascadeAssumption, R!Init PROVE CascadeInv
  OBVIOUS
<1>1. turn \in TurnRec /\ turn.pc = "idle" /\ turn.vetoed = FALSE /\ turn.decline = FALSE
  BY IdleIs DEF R!Init
<1>2. CascadeTypes
  <2>1. CacheOK(cache)
    BY EmptyIs DEF R!Init
  <2>2. sent \in Seq(Label \X Recall)
    BY DEF R!Init
  <2> QED BY <1>1, <2>1, <2>2 DEF R!Init, CascadeTypes
<1>3. Quiet /\ Steered
  BY <1>1 DEF Quiet, Steered, Begun, LadderStages
<1> QED BY <1>2, <1>3 DEF CascadeInv

\* The invariant of a step that leaves the turn where it may be with no text sent.
LEMMA QuietStep ==
  ASSUME CascadeInv, NEW u \in TurnRec, turn' = u, CacheOK(cache)', sent' \in Seq(Label \X Recall),
         UNCHANGED cfg, retired' \subseteq Live, steer' \in BOOLEAN, Silent',
         u.vetoed = TRUE => u.pc \in {"done", "end"},
         u.decline = TRUE => u.pc \in LadderStages \union {"judged", "announce", "end"},
         u.pc \in {"seed", "decode"} /\ steer' => u.recalled # None
  PROVE  CascadeInv'
<1>1. CascadeTypes'
  BY DEF CascadeInv, CascadeTypes
<1>2. u.vetoed \in BOOLEAN /\ u.decline \in BOOLEAN
  BY FieldTypes
<1>3. Quiet'
  BY <1>2 DEF Quiet
<1>4. Steered'
  BY DEF Steered
<1> QED BY <1>1, <1>3, <1>4 DEF CascadeInv

\* The step of a turn that is neither declined nor vetoed and may have sent text.
LEMMA LoudStep ==
  ASSUME CascadeInv, NEW u \in TurnRec, turn' = u, CacheOK(cache)', sent' \in Seq(Label \X Recall),
         UNCHANGED <<cfg, retired, steer>>, u.vetoed = FALSE, u.decline = FALSE, u.pc \notin Begun,
         u.fact = turn.fact, u.recalled = turn.recalled,
         u.pc \in {"decode", "flush"} /\ R!Held => Silent', u.pc = "test" => Silent',
         u.pc = "decode" => turn.pc = "decode"
  PROVE  CascadeInv'
<1>1. CascadeTypes'
  BY DEF CascadeInv, CascadeTypes
<1>2. R!Held' = R!Held
  BY DEF R!Held, R!On
<1>3. Quiet'
  BY <1>2 DEF Quiet
<1>4. u.pc # "seed"
  BY DEF Begun
<1>5. Steered'
  BY <1>4 DEF CascadeInv, Steered
<1> QED BY <1>1, <1>3, <1>5 DEF CascadeInv

LEMMA IdleKeeps ==
  ASSUME CascadeInv, NEW u \in TurnRec, turn' = u, u.pc = "idle", u.vetoed = FALSE, u.decline = FALSE,
         CacheOK(cache)', sent' \in Seq(Label \X Recall), UNCHANGED cfg, retired' \subseteq Live, steer' \in BOOLEAN
  PROVE  CascadeInv'
<1>1. CascadeTypes'
  BY DEF CascadeInv, CascadeTypes
<1>2. Quiet'
  BY DEF Quiet, Begun, LadderStages
<1>3. Steered'
  BY DEF Steered
<1> QED BY <1>1, <1>2, <1>3 DEF CascadeInv

\* What a plain turn is between its stages and its last token.
LEMMA Plain ==
  ASSUME CascadeInv
  PROVE  /\ turn \in TurnRec /\ CacheOK(cache) /\ sent \in Seq(Label \X Recall) /\ retired \subseteq Live
         /\ steer \in BOOLEAN
         /\ turn.pc \notin {"done", "end"} => turn.vetoed = FALSE
         /\ turn.pc \notin LadderStages \union {"judged", "announce", "end"} => turn.decline = FALSE
         /\ turn.vetoed \/ turn.decline \/ turn.pc \in Begun => Silent
<1>1. turn \in TurnRec /\ CacheOK(cache) /\ sent \in Seq(Label \X Recall) /\ retired \subseteq Live /\ steer \in BOOLEAN
  BY DEF CascadeInv, CascadeTypes
<1>2. turn.vetoed \in BOOLEAN /\ turn.decline \in BOOLEAN
  BY <1>1, FieldTypes
<1>3. /\ turn.vetoed => turn.pc \in {"done", "end"} /\ Silent
      /\ turn.decline => turn.pc \in (LadderStages \union {"judged", "announce", "end"}) /\ Silent
      /\ turn.pc \in Begun => Silent
  BY DEF CascadeInv, Quiet
<1> QED BY <1>1, <1>2, <1>3

LEMMA SupersedeKeeps == ASSUME CascadeInv, NEW e \in Live, R!Supersede(e) PROVE CascadeInv'
<1>1. turn.pc = "idle" /\ UNCHANGED <<cfg, steer, cache, turn, sent>> /\ retired' \subseteq Live
  BY Plain DEF R!Supersede, R!At
<1>2. turn.vetoed = FALSE /\ turn.decline = FALSE
  BY <1>1, Plain DEF LadderStages
<1>3. CacheOK(cache)'
  BY <1>1, Plain, SameCache
<1> QED BY <1>1, <1>2, <1>3, Plain, IdleKeeps

LEMMA DelegateKeeps == ASSUME CascadeInv, R!Delegate PROVE CascadeInv'
<1>1. /\ turn.pc = "idle" /\ UNCHANGED <<cfg, retired, steer, cache, turn>>
      /\ sent' = <<<<"delegate", None>>, <<"done", None>>>>
  BY DEF R!Delegate, R!At
<1>2. turn.vetoed = FALSE /\ turn.decline = FALSE
  BY <1>1, Plain DEF LadderStages
<1>3. CacheOK(cache)'
  BY <1>1, Plain, SameCache
<1>4. <<"delegate", None>> \in Label \X Recall /\ <<"done", None>> \in Label \X Recall
  BY Labels
<1>5. sent' \in Seq(Label \X Recall)
  BY <1>1, <1>4
<1> QED BY <1>1, <1>2, <1>3, <1>5, Plain, IdleKeeps

LEMMA BeginKeeps == ASSUME R!CascadeAssumption, CascadeInv, NEW v \in View, R!Begin(v) PROVE CascadeInv'
<1> DEFINE t == [R!Idle EXCEPT !.view = v]
<1>1. /\ t \in TurnRec /\ t.vetoed = FALSE /\ t.decline = FALSE
  <2> DEFINE P == TurnPlaces
             K == SUBSET Memory
             B == BOOLEAN
             S == Seq(R!Chunk)
  <2>1. TurnRec = TurnOf(P, View, K, Recall, B, S)
    BY DEF TurnRec
  <2> HIDE DEF P, K, B, S
  <2> QED BY <2>1, IdleIs DEF TurnOf
<1>2. /\ UNCHANGED <<cfg, retired, steer>> /\ sent' = <<>> /\ cache' = R!HeadRows
      /\ turn' = IF R!On("spine") THEN [t EXCEPT !.pc = "spine"] ELSE R!Onward(t, 0)
  BY DEF R!Begin
<1> HIDE DEF t
<1>3. CacheOK(cache)' /\ sent' \in Seq(Label \X Recall) /\ Silent'
  BY <1>2, Headed, SameCache DEF Silent
<1>4. PICK u : u = turn'
  OBVIOUS
<1>5. u \in TurnRec /\ u.vetoed = FALSE /\ u.decline = FALSE /\ u.pc \notin {"seed", "decode"}
  <2>1. CASE R!On("spine")
    <3>1. "spine" \in TurnPlaces /\ turn' = [t EXCEPT !.pc = "spine"]
      BY <1>2, <2>1 DEF TurnPlaces, Begun
    <3> DEFINE w == [t EXCEPT !.pc = "spine"]
    <3>2. w \in TurnRec /\ w.pc = "spine" /\ Kept(t, w)
      BY <1>1, <3>1, Forms
    <3>3. w = u
      BY <1>4, <3>1
    <3> HIDE DEF w
    <3> QED BY <1>1, <3>2, <3>3 DEF Kept
  <2>2. CASE ~ R!On("spine")
    <3>1. turn' = R!Onward(t, 0) /\ 0 \in 0 .. 7
      BY <1>2, <2>2
    <3> DEFINE w == R!Onward(t, 0)
    <3>2. w \in TurnRec /\ w.pc \in LadderStages \union {"announce"} /\ Kept(t, w)
      BY <1>1, <3>1, OnwardIs
    <3>3. w = u
      BY <1>4, <3>1
    <3> HIDE DEF w
    <3> QED BY <1>1, <3>2, <3>3 DEF Kept, LadderStages
  <2> QED BY <2>1, <2>2
<1> QED BY <1>2, <1>3, <1>4, <1>5, Plain, QuietStep

-----------------------------------------------------------------------------
LEMMA SpineDecides ==
  ASSUME R!CascadeAssumption, NEW w \in Recall, NEW v \in View
  PROVE  LET d == R!Spine(w, v) IN
         /\ d.do \in {"pass", "decline", "deliver"} /\ d.mem \in Recall
         /\ d.do = "deliver" => d.mem \in Memory
<1> DEFINE h == R!HeadSelector(w)
           l == R!L5Recall(h, v)
           OK(d) == d.do \in {"pass", "decline", "deliver"} /\ d.mem \in Recall /\ (d.do = "deliver" => d.mem \in Memory)
<1>1. OK(h)
  BY DEF R!HeadSelector, R!Pass, R!Deliver, Recall
<1> HIDE DEF h
<1>2. OK(l)
  <2>1. CASE l = h
    BY <1>1, <2>1
  <2>2. CASE l # h
    <3>1. Memory # {} /\ l = R!Deliver(R!Match(Memory, v))
      BY <2>2 DEF R!L5Recall
    <3>2. R!Match(Memory, v) \in Memory
      BY <3>1, Matches
    <3> QED BY <3>1, <3>2 DEF R!Deliver, Recall
  <2> QED BY <2>1, <2>2
<1> HIDE DEF l
<1>3. OK(R!AttrGate(l, v))
  <2>1. CASE R!AttrGate(l, v) = l
    BY <1>2, <2>1
  <2>2. CASE R!AttrGate(l, v) = R!Refuse(l.mem)
    BY <1>2, <2>2 DEF R!Refuse
  <2> QED BY <2>1, <2>2 DEF R!AttrGate
<1> QED BY <1>3 DEF R!Spine, l, h

LEMMA SpineKeeps ==
  ASSUME R!CascadeAssumption, CascadeInv, NEW w \in Recall, R!SpineTurn(w) PROVE CascadeInv'
<1> DEFINE d == R!Spine(w, turn.view)
<1>1. /\ turn.pc = "spine" /\ turn.pc \in Begun /\ turn.vetoed = FALSE /\ turn \in TurnRec /\ turn.view \in View
      /\ Len(R!Stages) = 7 /\ 7 \in 0 .. 7
  <2>1. turn.pc = "spine" /\ turn.pc \in Begun /\ Len(R!Stages) = 7 /\ 7 \in 0 .. 7
    BY DEF R!SpineTurn, R!At, Begun, R!Stages
  <2>2. turn \in TurnRec /\ turn.vetoed = FALSE
    BY <2>1, Plain
  <2>3. turn.view \in View
    BY <2>2, FieldTypes
  <2> QED BY <2>1, <2>2, <2>3
<1>2. d.do \in {"pass", "decline", "deliver"} /\ d.mem \in Recall /\ (d.do = "deliver" => d.mem \in Memory)
  BY <1>1, SpineDecides
<1> HIDE DEF d
<1>3. CASE d.do = "pass"
  <2>1. R!Passed(turn, 7)
    BY <1>1, <1>3 DEF R!SpineTurn, d
  <2>2. turn' = R!Onward(turn, 7) /\ UNCHANGED <<cfg, retired, steer, cache, sent>>
    BY <2>1 DEF R!Passed
  <2>3. CacheOK(cache)'
    BY <2>2, Plain, SameCache
  <2> QED BY <1>1, <2>2, <2>3, PassedKeeps
<1>4. CASE d.do = "decline"
  <2> DEFINE t == [turn EXCEPT !.decline = TRUE]
  <2>1. R!Passed(t, 7)
    BY <1>1, <1>4 DEF R!SpineTurn, d
  <2>2. t \in TurnRec /\ t.vetoed = FALSE
    <3>1. t \in TurnRec /\ t.vetoed = turn.vetoed
      BY <1>1, RecallForms
    <3> QED BY <1>1, <3>1
  <2> HIDE DEF t
  <2>3. turn' = R!Onward(t, 7) /\ UNCHANGED <<cfg, retired, steer, cache, sent>>
    BY <2>1 DEF R!Passed
  <2>4. CacheOK(cache)'
    BY <2>3, Plain, SameCache
  <2> QED BY <1>1, <2>2, <2>3, <2>4, PassedKeeps
<1>5. CASE d.do = "deliver"
  <2>1. PICK o \in R!TextOutcome(d.mem) : R!Concluded(turn, 7, o, d.mem)
    BY <1>1, <1>5 DEF R!SpineTurn, d
  <2>2. o.ok \in BOOLEAN /\ CacheOK(o.cache)
    BY <1>2, <1>5, Plain, TextIs
  <2> QED BY <1>1, <1>2, <2>1, <2>2, ConcludedKeeps
<1> QED BY <1>2, <1>3, <1>4, <1>5

LEMMA RewoundIs ==
  ASSUME NEW c, CacheOK(c), NEW n \in Nat
  PROVE  CacheOK(R!Rewound(c, n))
<1>1. /\ c.rows \in Seq(RowTag) /\ c.commit \in Nat /\ Len(c.rows) \in Nat /\ c.commit <= Len(c.rows)
      /\ c \in [rows : Seq(RowTag), commit : Nat] /\ (~ R!On("ring") => c.commit = 0)
      /\ \A i \in 1 .. Len(c.rows) : c.rows[i] \in RowTag
  BY ElementOfSeq DEF CacheOK
<1> DEFINE rest == Len(c.rows) - n
           u == SubSeq(c.rows, 1, rest)
<1>2. rest \in Int /\ \A i \in 1 .. rest : c.rows[i] \in RowTag
  BY <1>1
<1>3. u \in Seq(RowTag) /\ Len(u) = (IF 1 <= rest THEN rest - 1 + 1 ELSE 0)
  <2> HIDE DEF rest
  <2> QED BY <1>2, SubSeqProperties
<1>4. CASE R!On("ring") /\ n > Len(c.rows) - c.commit
  BY <1>4 DEF R!Rewound
<1>5. CASE ~ (R!On("ring") /\ n > Len(c.rows) - c.commit)
  <2> DEFINE r == [c EXCEPT !.rows = u]
  <2>1. R!Rewound(c, n) = r
    BY <1>5 DEF R!Rewound
  <2>2. c.commit <= Len(u)
    BY <1>1, <1>3, <1>5
  <2> HIDE DEF u
  <2>3. r \in [rows : Seq(RowTag), commit : Nat] /\ r.rows = u /\ r.commit = c.commit
    BY <1>1, <1>3
  <2> HIDE DEF r
  <2> QED BY <1>1, <2>1, <2>2, <2>3 DEF CacheOK
<1> QED BY <1>4, <1>5

LEMMA ProbedIs ==
  ASSUME R!CascadeAssumption, NEW c, CacheOK(c), NEW e \in Memory, NEW d \in R!ProbeOutcome(c, e)
  PROVE  CacheOK(d)
<1>1. e \in RowTag /\ "payload" \in RowTag /\ NPos[e] \in Nat /\ NSecret \in Nat
  BY NoteTags DEF R!Note, R!CascadeAssumption
<1>2. ASSUME NEW n1 \in 0 .. NSecret, NEW n2 \in 0 .. NSecret PROVE CacheOK(R!Ablation(c, e, n1, n2))
  <2>1. n1 \in Nat /\ n2 \in Nat /\ n2 + NPos[e] \in Nat
    BY <1>1
  <2> DEFINE d1 == R!Stepped(c, e, NPos[e])
             d2 == R!Stepped(d1, "payload", n1)
             once == R!Rewound(d2, n1)
             d4 == R!Stepped(once, "payload", n2)
  <2>2. CacheOK(d1)
    BY <1>1, SteppedRecites
  <2>3. CacheOK(d2)
    <3> HIDE DEF d1
    <3> QED BY <1>1, <2>1, <2>2, SteppedRecites
  <2>4. CacheOK(once)
    <3> HIDE DEF d2
    <3> QED BY <2>1, <2>3, RewoundIs
  <2>5. CacheOK(d4) /\ CacheOK(R!Rewound(once, NPos[e]))
    <3> HIDE DEF once
    <3> QED BY <1>1, <2>1, <2>4, SteppedRecites, RewoundIs
  <2>6. CacheOK(R!Rewound(d4, n2 + NPos[e]))
    <3> HIDE DEF d4
    <3> QED BY <2>1, <2>5, RewoundIs
  <2> QED BY <2>5, <2>6 DEF R!Ablation
<1>3. ASSUME NEW b, CacheOK(b), NEW n \in 0 .. NSecret
      PROVE  CacheOK(R!Rewound(R!Stepped(R!Stepped(b, e, NPos[e]), "payload", n), n + NPos[e]))
  <2>1. n \in Nat /\ n + NPos[e] \in Nat
    BY <1>1
  <2> DEFINE d1 == R!Stepped(b, e, NPos[e])
             d2 == R!Stepped(d1, "payload", n)
  <2>2. CacheOK(d1)
    BY <1>1, <1>3, SteppedRecites
  <2>3. CacheOK(d2)
    <3> HIDE DEF d1
    <3> QED BY <1>1, <2>1, <2>2, SteppedRecites
  <2> HIDE DEF d2
  <2>4. CacheOK(R!Rewound(d2, n + NPos[e]))
    BY <2>1, <2>3, RewoundIs
  <2> QED BY <2>4 DEF d2, d1
<1>4. ASSUME NEW n1 \in 0 .. NSecret, NEW n2 \in 0 .. NSecret PROVE CacheOK(R!Continuation(c, e, n1, n2))
  <2> DEFINE once == R!Rewound(R!Stepped(R!Stepped(c, e, NPos[e]), "payload", n1), n1 + NPos[e])
  <2>1. CacheOK(once)
    BY <1>3
  <2> DEFINE twice == R!Rewound(R!Stepped(R!Stepped(once, e, NPos[e]), "payload", n2), n2 + NPos[e])
  <2>2. CacheOK(twice)
    <3> HIDE DEF once
    <3> QED BY <2>1, <1>3
  <2> QED BY <2>1, <2>2 DEF R!Continuation
<1>5. CASE d = c
  BY <1>5
<1>6. CASE d # c
  <2>1. PICK n1 \in 0 .. NSecret, n2 \in 0 .. NSecret :
          d = IF R!At("disp") /\ R!On("dcont") THEN R!Continuation(c, e, n1, n2) ELSE R!Ablation(c, e, n1, n2)
    BY <1>6 DEF R!ProbeOutcome
  <2>2. CacheOK(R!Continuation(c, e, n1, n2)) /\ CacheOK(R!Ablation(c, e, n1, n2))
    BY <1>2, <1>4
  <2> QED BY <2>1, <2>2
<1> QED BY <1>5, <1>6

LEMMA ProbeKeeps ==
  ASSUME R!CascadeAssumption, CascadeInv, NEW e \in Memory, R!Probe(e) PROVE CascadeInv'
<1>1. /\ turn.pc \in {"int2", "disp"} /\ UNCHANGED <<cfg, retired, steer, sent>>
      /\ IF R!Probeable(e)
         THEN /\ cache' \in R!ProbeOutcome(cache, e)
              /\ \E b \in {turn.best, e} : turn' = [turn EXCEPT !.todo = turn.todo \ {e}, !.best = b]
         ELSE /\ turn' = [turn EXCEPT !.todo = turn.todo \ {e}]
              /\ UNCHANGED cache
  BY DEF R!Probe, R!At
<1>2. turn.pc \in Begun /\ turn.pc \in LadderStages /\ turn.vetoed = FALSE /\ turn \in TurnRec /\ CacheOK(cache) /\ Silent
  BY <1>1, Plain DEF Begun, LadderStages
<1>3. turn.todo \ {e} \in SUBSET Memory /\ turn.best \in Recall /\ e \in Recall
  BY <1>2, FieldTypes DEF Recall
<1>4. PICK c : c = cache'
  OBVIOUS
<1>5. PICK u : u = turn'
  OBVIOUS
<1>6. CacheOK(c) /\ u \in TurnRec /\ u.pc = turn.pc /\ Kept(turn, u)
  <2>1. CASE R!Probeable(e)
    <3>1. c \in R!ProbeOutcome(cache, e)
      BY <1>1, <1>4, <2>1
    <3>2. CacheOK(c)
      BY <1>2, <3>1, ProbedIs
    <3>3. PICK b \in {turn.best, e} : turn' = [turn EXCEPT !.todo = turn.todo \ {e}, !.best = b]
      BY <1>1, <2>1
    <3> DEFINE y == turn.todo \ {e}
               w == [turn EXCEPT !.todo = y, !.best = b]
    <3>4. y \in SUBSET Memory /\ b \in Recall
      BY <1>3
    <3>5. u = w
      BY <1>5, <3>3
    <3> HIDE DEF y
    <3>6. w \in TurnRec /\ w.pc = turn.pc /\ Kept(turn, w)
      BY <1>2, <3>4, Forms
    <3> HIDE DEF w
    <3> QED BY <3>2, <3>5, <3>6
  <2>2. CASE ~ R!Probeable(e)
    <3> DEFINE w == [turn EXCEPT !.todo = turn.todo \ {e}]
    <3>1. w \in TurnRec /\ w.pc = turn.pc /\ Kept(turn, w)
      BY <1>2, <1>3, Forms
    <3>2. u = w /\ c = cache
      BY <1>1, <1>4, <1>5, <2>2
    <3> HIDE DEF w
    <3> QED BY <1>2, <3>1, <3>2
  <2> QED BY <2>1, <2>2
<1>7. CacheOK(cache)'
  BY <1>1, <1>4, <1>6, SameCache
<1>8. u.vetoed = FALSE /\ u.pc \in LadderStages /\ u.pc \notin {"seed", "decode"}
  BY <1>1, <1>2, <1>6 DEF Kept
<1>9. Silent' /\ sent' \in Seq(Label \X Recall) /\ retired' \subseteq Live /\ steer' \in BOOLEAN
  BY <1>1, <1>2, Plain DEF Silent
<1> QED BY <1>1, <1>5, <1>6, <1>7, <1>8, <1>9, QuietStep

LEMMA PassedOn ==
  ASSUME R!CascadeAssumption, CascadeInv, turn.pc \in Begun, NEW t \in TurnRec, t.vetoed = FALSE,
         NEW i \in 0 .. 7, R!Passed(t, i)
  PROVE  CascadeInv'
<1>1. turn' = R!Onward(t, i) /\ UNCHANGED <<cfg, retired, steer, cache, sent>>
  BY DEF R!Passed
<1>2. CacheOK(cache)'
  BY <1>1, Plain, SameCache
<1> QED BY <1>1, <1>2, PassedKeeps

LEMMA WeighKeeps ==
  ASSUME R!CascadeAssumption, CascadeInv, NEW s \in {"int2", "disp"}, NEW i \in 0 .. 7,
         NEW t \in TurnRec, t.vetoed = FALSE, R!Weigh(s, i, t)
  PROVE  CascadeInv'
<1>1. turn.pc \in Begun /\ turn.best \in Recall /\ CacheOK(cache)
  <2>1. turn.pc = s
    BY DEF R!Weigh, R!At
  <2>2. turn \in TurnRec /\ CacheOK(cache)
    BY Plain
  <2> QED BY <2>1, <2>2, FieldTypes DEF Begun, LadderStages
<1>2. CASE R!Passed(t, i)
  BY <1>1, <1>2, PassedOn
<1>3. ASSUME turn.best # None, NEW o \in R!ReplayOutcome(turn.best), R!Concluded(t, i, o, turn.best)
      PROVE  CascadeInv'
  <2>1. turn.best \in Memory
    BY <1>1, <1>3 DEF Recall
  <2>2. CacheOK(o.cache)
    BY <1>1, <1>3, <2>1, ReplayIs
  <2> QED BY <1>1, <1>3, <2>2, ConcludedKeeps
<1> QED BY <1>2, <1>3 DEF R!Weigh

LEMMA Int2Keeps == ASSUME R!CascadeAssumption, CascadeInv, R!Int2 PROVE CascadeInv'
<1> DEFINE t == [turn EXCEPT !.decided = TRUE]
<1>1. turn.pc = "int2" /\ turn.pc \in Begun /\ 1 \in 0 .. 7
  BY DEF R!Int2, R!Weigh, R!At, Begun, LadderStages
<1>2. turn \in TurnRec /\ turn.vetoed = FALSE
  BY <1>1, Unvetoed
<1>3. t \in TurnRec /\ t.vetoed = FALSE
  BY <1>2, RecallForms
<1>4. R!Weigh("int2", 1, t)
  BY DEF R!Int2
<1> HIDE DEF t
<1> QED BY <1>1, <1>3, <1>4, WeighKeeps

LEMMA DisposerKeeps == ASSUME R!CascadeAssumption, CascadeInv, R!Disposer \/ R!Continued PROVE CascadeInv'
<1>1. R!Weigh("disp", 6, turn)
  BY DEF R!Disposer, R!Continued
<1>2. turn.pc \in Begun /\ 6 \in 0 .. 7
  BY <1>1 DEF R!Weigh, R!At, Begun, LadderStages
<1>3. turn \in TurnRec /\ turn.vetoed = FALSE
  BY <1>2, Unvetoed
<1> QED BY <1>1, <1>2, <1>3, WeighKeeps

LEMMA LearnedKeeps == ASSUME R!CascadeAssumption, CascadeInv, R!LearnedHead PROVE CascadeInv'
<1>1. turn.pc \in Begun /\ 2 \in 0 .. 7
  BY DEF R!LearnedHead, R!At, Begun, LadderStages
<1>2. turn \in TurnRec /\ turn.vetoed = FALSE /\ CacheOK(cache)
  BY <1>1, Unvetoed
<1>3. CASE R!Passed(turn, 2)
  BY <1>1, <1>2, <1>3, PassedOn
<1>4. ASSUME NEW e \in Memory, NEW o \in R!TextOutcome(e) \union R!ReplayOutcome(e), R!Concluded(turn, 2, o, e)
      PROVE  CascadeInv'
  <2>1. CacheOK(o.cache)
    BY <1>2, <1>4, TextIs, ReplayIs
  <2>2. e \in Recall
    BY DEF Recall
  <2> QED BY <1>1, <1>2, <1>4, <2>1, <2>2, ConcludedKeeps
<1>5. CASE \E e \in Memory :
             \E o \in IF R!On("wctext") /\ e \notin Live THEN R!TextOutcome(e) ELSE R!ReplayOutcome(e) :
               R!Concluded(turn, 2, o, e)
  <2>1. PICK e \in Memory : \E o \in IF R!On("wctext") /\ e \notin Live THEN R!TextOutcome(e) ELSE R!ReplayOutcome(e) :
               R!Concluded(turn, 2, o, e)
    BY <1>5
  <2>2. PICK o \in R!TextOutcome(e) \union R!ReplayOutcome(e) : R!Concluded(turn, 2, o, e)
    BY <2>1
  <2> QED BY <1>4, <2>2
<1> QED BY <1>3, <1>5 DEF R!LearnedHead

LEMMA JaccardKeeps == ASSUME R!CascadeAssumption, CascadeInv, R!Jaccard PROVE CascadeInv'
<1>1. turn.pc \in Begun /\ 3 \in 0 .. 7
  BY DEF R!Jaccard, R!At, Begun, LadderStages
<1>2. turn \in TurnRec /\ turn.vetoed = FALSE /\ CacheOK(cache)
  BY <1>1, Unvetoed
<1>3. CASE R!Passed(turn, 3)
  BY <1>1, <1>2, <1>3, PassedOn
<1>4. ASSUME NEW e \in Memory, NEW o \in R!TextOutcome(e), R!Concluded(turn, 3, o, e)
      PROVE  CascadeInv'
  <2>1. CacheOK(o.cache)
    BY <1>2, <1>4, TextIs
  <2>2. e \in Recall
    BY DEF Recall
  <2> QED BY <1>1, <1>2, <1>4, <2>1, <2>2, ConcludedKeeps
<1> QED BY <1>3, <1>4 DEF R!Jaccard

LEMMA QKKeeps == ASSUME R!CascadeAssumption, CascadeInv, R!QK PROVE CascadeInv'
<1>1. turn.pc \in Begun /\ 7 \in 0 .. 7
  BY DEF R!QK, R!At, Begun, LadderStages
<1>2. turn \in TurnRec /\ turn.vetoed = FALSE /\ CacheOK(cache)
  BY <1>1, Unvetoed
<1>3. CASE R!Passed(turn, 7)
  BY <1>1, <1>2, <1>3, PassedOn
<1>4. ASSUME NEW e \in R!Scanned, NEW o \in R!ReplayOutcome(e), R!Concluded(turn, 7, o, e)
      PROVE  CascadeInv'
  <2>1. CacheOK(o.cache)
    BY <1>2, <1>4, ReplayIs DEF R!Scanned
  <2>2. e \in Recall
    BY DEF Recall, R!Scanned
  <2> QED BY <1>1, <1>2, <1>4, <2>1, <2>2, ConcludedKeeps
<1> QED BY <1>3, <1>4 DEF R!QK

-----------------------------------------------------------------------------
LEMMA SidePassIs ==
  ASSUME R!CascadeAssumption, CascadeInv, R!Ranked # {}, NEW p \in R!SidePass
  PROVE  p.mem \in R!Ranked /\ p.mem \in Memory /\ CacheOK(p.cache) /\ p.cache \in {cache, R!Empty, R!Stepped(R!Empty, "side", 2)}
<1> DEFINE first == R!Match(R!Ranked, turn.view)
           s == R!Stepped(R!Empty, "side", 2)
<1>1. turn.view \in View /\ CacheOK(cache)
  BY Plain, FieldTypes
<1>2. R!Ranked \in SUBSET Memory
  BY DEF R!Ranked
<1>3. first \in R!Ranked
  BY <1>1, <1>2, Matches
<1>4. "side" \in RowTag /\ 2 \in Nat
  BY NoteTags DEF R!Note
<1>5. CacheOK(s) /\ CacheOK(R!Empty)
  BY <1>4, EmptyIs, SteppedRecites
<1> HIDE DEF first, s
<1>6. /\ p \in {[mem |-> e, cache |-> s] : e \in R!Ranked} \union {[mem |-> first, cache |-> c] : c \in {cache, R!Empty}}
  BY DEF R!SidePass, first, s
<1>7. CASE p \in {[mem |-> e, cache |-> s] : e \in R!Ranked}
  <2>1. PICK e \in R!Ranked : p = [mem |-> e, cache |-> s]
    BY <1>7
  <2> QED BY <1>2, <1>5, <2>1 DEF s
<1>8. CASE p \in {[mem |-> first, cache |-> c] : c \in {cache, R!Empty}}
  <2>1. PICK c \in {cache, R!Empty} : p = [mem |-> first, cache |-> c]
    BY <1>8
  <2> QED BY <1>1, <1>2, <1>3, <1>5, <2>1
<1> QED BY <1>6, <1>7, <1>8

\* What L5 does: it passes, it declines or drops the match of a side pass, or it delivers it.
L5Drop(p, b) ==
  R!Concluded([turn EXCEPT !.decline = b], 4, [ok |-> b, cache |-> p.cache], p.mem)
L5Give(p, o, c) ==
  /\ o \in R!TextOutcome(p.mem)
  /\ c \in {o.cache, p.cache} /\ (o.ok = TRUE => c = o.cache)
  /\ R!Concluded(R!Grounded(turn, o, p.mem), 4, [o EXCEPT !.cache = c], p.mem)

LEMMA L5Is ==
  ASSUME R!L5
  PROVE  \/ R!Passed(turn, 4)
         \/ /\ R!Ranked # {}
            /\ \E p \in R!SidePass : \/ \E b \in BOOLEAN : L5Drop(p, b)
                                     \/ \E o \in R!TextOutcome(p.mem) : \E c \in {o.cache, p.cache} : L5Give(p, o, c)
<1> DEFINE v == turn.view
<1>1. CASE R!Passed(turn, 4)
  BY <1>1
<1>2. CASE ~ R!Passed(turn, 4)
  <2>1. R!Ranked # {}
    BY <1>2 DEF R!L5
  <2>2. PICK p \in R!SidePass :
            LET d == IF v.cos[p.mem] < R!Tau THEN R!Pass ELSE R!LadderGate(p.mem, v)
                left == [ok |-> d.do = "decline", cache |-> p.cache]
            IN IF d.do # "deliver"
               THEN R!Concluded([turn EXCEPT !.decline = left.ok], 4, left, p.mem)
               ELSE \E o \in R!TextOutcome(p.mem) :
                      LET given == IF o.ok \/ o.cache = R!Empty THEN o ELSE [o EXCEPT !.cache = p.cache]
                      IN R!Concluded(R!Grounded(turn, o, p.mem), 4, given, p.mem)
    BY <1>2 DEF R!L5
  <2> DEFINE d == IF v.cos[p.mem] < R!Tau THEN R!Pass ELSE R!LadderGate(p.mem, v)
  <2> HIDE DEF d
  <2>3. CASE d.do # "deliver"
    <3> DEFINE b == d.do = "decline"
    <3>1. R!Concluded([turn EXCEPT !.decline = b], 4, [ok |-> b, cache |-> p.cache], p.mem)
      BY <2>2, <2>3 DEF d
    <3>2. b \in BOOLEAN
      OBVIOUS
    <3> QED BY <2>1, <3>1, <3>2 DEF L5Drop
  <2>4. CASE d.do = "deliver"
    <3>1. PICK o \in R!TextOutcome(p.mem) :
             R!Concluded(R!Grounded(turn, o, p.mem), 4,
                       IF o.ok \/ o.cache = R!Empty THEN o ELSE [o EXCEPT !.cache = p.cache], p.mem)
      BY <2>2, <2>4 DEF d
    <3>2. o = [o EXCEPT !.cache = o.cache]
      BY DEF R!TextOutcome
    <3>3. CASE o.ok \/ o.cache = R!Empty
      <4>1. L5Give(p, o, o.cache)
        BY <3>1, <3>2, <3>3 DEF L5Give
      <4> QED BY <2>1, <4>1
    <3>4. CASE ~ (o.ok \/ o.cache = R!Empty)
      <4>1. L5Give(p, o, p.cache)
        BY <3>1, <3>4 DEF L5Give
      <4> QED BY <2>1, <4>1
    <3> QED BY <3>3, <3>4
  <2> QED BY <2>3, <2>4
<1> QED BY <1>1, <1>2

LEMMA L5Keeps == ASSUME R!CascadeAssumption, CascadeInv, R!L5 PROVE CascadeInv'
<1>1. turn.pc = "l5" /\ turn.pc \in Begun /\ 4 \in 0 .. 7
  BY DEF R!L5, R!At, Begun, LadderStages
<1>2. turn \in TurnRec /\ turn.vetoed = FALSE /\ CacheOK(cache)
  BY <1>1, Unvetoed
<1>3. CASE R!Passed(turn, 4)
  BY <1>1, <1>2, <1>3, PassedOn
<1>4. ASSUME R!Ranked # {}, NEW p \in R!SidePass, NEW b \in BOOLEAN, L5Drop(p, b)
      PROVE  CascadeInv'
  <2> DEFINE t == [turn EXCEPT !.decline = b]
             o == [ok |-> b, cache |-> p.cache]
  <2>1. p.mem \in Recall /\ CacheOK(p.cache)
    BY <1>4, SidePassIs DEF Recall
  <2>2. t \in TurnRec /\ t.vetoed = FALSE
    BY <1>2, RecallForms
  <2>3. R!Concluded(t, 4, o, p.mem)
    BY <1>4 DEF L5Drop
  <2>4. o.cache = p.cache
    OBVIOUS
  <2> HIDE DEF t, o
  <2> QED BY <1>1, <2>1, <2>2, <2>3, <2>4, ConcludedKeeps
<1>5. ASSUME R!Ranked # {}, NEW p \in R!SidePass, NEW o \in R!TextOutcome(p.mem), NEW c, L5Give(p, o, c)
      PROVE  CascadeInv'
  <2> DEFINE t == R!Grounded(turn, o, p.mem)
             r == [o EXCEPT !.cache = c]
  <2>1. p.mem \in Memory /\ p.mem \in Recall /\ CacheOK(p.cache)
    BY <1>5, SidePassIs DEF Recall
  <2>2. o.ok \in BOOLEAN /\ CacheOK(o.cache)
    BY <1>2, <1>5, <2>1, TextIs
  <2>3. CacheOK(c) /\ R!Concluded(t, 4, r, p.mem)
    BY <1>5, <2>1, <2>2 DEF L5Give
  <2>4. t \in TurnRec /\ t.vetoed = FALSE
    <3> DEFINE x == IF o.ok THEN p.mem ELSE turn.fact
    <3>1. x \in Recall
      BY <1>2, <2>1, FieldTypes
    <3> HIDE DEF x
    <3>2. t = [turn EXCEPT !.fact = x]
      BY DEF R!Grounded, x
    <3> QED BY <1>2, <3>1, <3>2, RecallForms
  <2>5. r.cache = c
    BY DEF R!TextOutcome
  <2> HIDE DEF t, r
  <2> QED BY <1>1, <2>1, <2>3, <2>4, <2>5, ConcludedKeeps
<1> QED BY <1>3, <1>4, <1>5, L5Is

LEMMA Worked == ASSUME R!CascadeAssumption, NEW w \in R!WorkingSets PROVE w \in SUBSET Memory
<1> DEFINE kept == CHOOSE k \in 0 .. JudgeR :
                     /\ k <= JudgeK /\ k <= R!Cardinality(Live)
                     /\ \A j \in 0 .. JudgeR : j <= JudgeK /\ j <= R!Cardinality(Live) => j <= k
           slots == JudgeK - kept
           cold(r) == LET rest == Memory \ r IN
                      IF R!Cardinality(rest) <= slots THEN {rest}
                      ELSE {{}} \union {c \in SUBSET rest : R!Cardinality(c) = slots}
           recent == {r \in SUBSET Live : R!Cardinality(r) = kept}
<1>1. w \in UNION {{r \union c : c \in cold(r)} : r \in recent}
  BY DEF R!WorkingSets
<1>2. \A r \in recent : \A c \in cold(r) : c \subseteq Memory
  <2> HIDE DEF recent, slots
  <2> QED OBVIOUS
<1>3. recent \subseteq SUBSET Memory
  <2> HIDE DEF kept
  <2> QED BY DEF R!CascadeAssumption
<1> HIDE DEF kept, slots, cold, recent
<1>4. PICK r \in recent : \E c \in cold(r) : w = r \union c
  BY <1>1
<1>5. PICK c \in cold(r) : w = r \union c
  BY <1>4
<1>6. c \subseteq Memory /\ r \subseteq Memory
  BY <1>2, <1>3
<1>7. w \subseteq Memory
  BY <1>5, <1>6
<1> QED BY <1>7

LEMMA ReadKeeps == ASSUME R!CascadeAssumption, CascadeInv, R!JudgeRead PROVE CascadeInv'
<1>0. R!At("judge")
  BY DEF R!JudgeRead
<1>1. turn.pc \in Begun /\ 5 \in 0 .. 7 /\ turn.pc = "judge"
  BY <1>0 DEF R!At, Begun, LadderStages
<1>2. turn \in TurnRec /\ turn.vetoed = FALSE /\ Silent
  BY <1>1, Plain, Unvetoed
<1>3. CASE R!Passed(turn, 5)
  BY <1>1, <1>2, <1>3, PassedOn
<1>4. ASSUME NEW w \in R!WorkingSets, NEW c \in {R!Empty, R!Stepped(R!Empty, "judge", NHead + 1)},
             cache' = c, turn' = [turn EXCEPT !.pc = "judged", !.todo = w],
             UNCHANGED <<cfg, retired, steer, sent>>
      PROVE  CascadeInv'
  <2>1. CacheOK(c)
    <3>1. "judge" \in RowTag /\ NHead + 1 \in Nat
      BY NoteTags DEF R!Note, R!CascadeAssumption
    <3> QED BY <1>4, <3>1, EmptyIs, SteppedRecites
  <2>2. CacheOK(cache)'
    BY <1>4, <2>1, SameCache
  <2> DEFINE u == [turn EXCEPT !.pc = "judged", !.todo = w]
  <2>3. w \in SUBSET Memory /\ "judged" \in TurnPlaces
    BY <1>4, Worked DEF TurnPlaces, Begun
  <2>4. u \in TurnRec /\ u.pc = "judged" /\ Kept(turn, u)
    BY <1>2, <2>3, Forms
  <2>5. turn' = u
    BY <1>4
  <2> HIDE DEF u
  <2>6. u.vetoed = FALSE
    BY <1>2, <2>4 DEF Kept
  <2>7. Silent' /\ sent' \in Seq(Label \X Recall) /\ retired' \subseteq Live /\ steer' \in BOOLEAN
    BY <1>2, <1>4, Plain DEF Silent
  <2> QED BY <1>4, <2>2, <2>4, <2>5, <2>6, <2>7, QuietStep
<1> QED BY <1>3, <1>4 DEF R!JudgeRead

LEMMA PickIs ==
  ASSUME R!CascadeAssumption, CascadeInv, NEW p \in turn.todo
  PROVE  R!Delivered(p) \in Memory
<1>1. turn.view \in View /\ turn.todo \subseteq Memory
  BY Plain, FieldTypes
<1>2. R!Match(Memory, turn.view) \in Memory
  BY <1>1, Matches
<1> QED BY <1>1, <1>2 DEF R!Delivered

LEMMA PickKeeps == ASSUME R!CascadeAssumption, CascadeInv, R!JudgePick PROVE CascadeInv'
<1>1. turn.pc \in Begun /\ 5 \in 0 .. 7
  BY DEF R!JudgePick, R!At, Begun
<1>2. turn \in TurnRec /\ turn.vetoed = FALSE
  BY <1>1, Unvetoed
<1>3. ASSUME NEW o, NEW e \in Recall, CacheOK(o.cache), R!Concluded(turn, 5, o, e) PROVE CascadeInv'
  BY <1>1, <1>2, <1>3, ConcludedKeeps
<1>4. ASSUME NEW c \in R!Restored, R!Concluded(turn, 5, [ok |-> FALSE, cache |-> c], None)
      PROVE  CascadeInv'
  <2> DEFINE o == [ok |-> FALSE, cache |-> c]
  <2>1. CacheOK(o.cache) /\ R!Concluded(turn, 5, o, None)
    BY <1>4, Headed, EmptyIs DEF R!Restored
  <2> HIDE DEF o
  <2> QED BY <1>3, <2>1, Labels
<1>5. ASSUME NEW p \in turn.todo, LET e == R!Delivered(p) IN R!Concluded(turn, 5, [ok |-> TRUE, cache |-> R!AugRows(e)], e)
      PROVE  CascadeInv'
  <2> DEFINE e == R!Delivered(p)
             o == [ok |-> TRUE, cache |-> R!AugRows(e)]
  <2>1. e \in Memory /\ e \in Recall
    BY <1>5, PickIs DEF Recall
  <2>2. R!Concluded(turn, 5, o, e)
    BY <1>5
  <2> HIDE DEF e
  <2>3. CacheOK(o.cache)
    BY <2>1, Augmented
  <2> HIDE DEF o
  <2> QED BY <1>3, <2>1, <2>2, <2>3
<1> QED BY <1>4, <1>5 DEF R!JudgePick

-----------------------------------------------------------------------------
\* The answer.
Joins(L, q, p, s) ==
  /\ q \in Seq(L) /\ Len(q) = Len(p) + 3
  /\ \A i \in 1 .. Len(p) + 3 : q[i] = IF i <= Len(p) THEN p[i] ELSE s[i - Len(p)]

LEMMA Joined ==
  ASSUME NEW L, NEW p \in Seq(L), NEW s \in Seq(L), Len(s) = 3, NEW q, q = p \o s
  PROVE  Joins(L, q, p, s)
<1> DEFINE n == Len(s)
<1>1. /\ q \in Seq(L) /\ Len(q) = Len(p) + n
      /\ \A i \in 1 .. Len(p) + n : q[i] = IF i <= Len(p) THEN p[i] ELSE s[i - Len(p)]
  BY ConcatProperties
<1>2. n = 3
  OBVIOUS
<1> HIDE DEF n
<1> QED BY <1>1, <1>2 DEF Joins

LEMMA AnnounceKeeps == ASSUME R!CascadeAssumption, CascadeInv, R!Announce PROVE CascadeInv'
<1>1. turn.pc = "announce" /\ UNCHANGED <<cfg, retired, steer>>
  BY DEF R!Announce, R!At
<1>2. /\ turn \in TurnRec /\ turn.vetoed = FALSE /\ Silent /\ CacheOK(cache) /\ sent \in Seq(Label \X Recall)
      /\ retired \subseteq Live /\ steer \in BOOLEAN /\ turn.recalled \in Recall /\ turn.decline \in BOOLEAN
  BY <1>1, Plain, FieldTypes DEF Begun, LadderStages
<1>3. /\ "end" \in TurnPlaces /\ "steer" \in TurnPlaces
  BY DEF TurnPlaces, Begun
<1>4. CASE turn.decline
  <2>1. /\ sent' = sent \o <<<<"recall", turn.recalled>>, <<"decline", None>>, <<"done", None>>>>
        /\ cache' = R!Empty /\ turn' = [turn EXCEPT !.pc = "end"]
    BY <1>4 DEF R!Announce
  <2> DEFINE a == <<"recall", turn.recalled>>
             b == <<"decline", None>>
             c == <<"done", None>>
             s == <<a, b, c>>
  <2>2. /\ a \in Label \X Recall /\ b \in Label \X Recall /\ c \in Label \X Recall
        /\ a[1] \notin R!Chunk /\ b[1] \notin R!Chunk /\ c[1] \notin R!Chunk
    BY <1>2, Labels
  <2>3. sent' = sent \o s
    BY <2>1
  <2> HIDE DEF a, b, c
  <2> DEFINE L == Label \X Recall
  <2>4. s \in Seq(L) /\ Len(s) = 3 /\ s[1] = a /\ s[2] = b /\ s[3] = c
    <3>1. a \in L /\ b \in L /\ c \in L
      BY <2>2
    <3> HIDE DEF L
    <3> QED BY <3>1
  <2>5. \A i \in 1 .. 3 : s[i][1] \notin R!Chunk
    BY <2>2, <2>4
  <2> HIDE DEF s
  <2>6. /\ sent' \in Seq(Label \X Recall) /\ Len(sent') = Len(sent) + 3
        /\ \A i \in 1 .. Len(sent) + 3 : sent'[i] = IF i <= Len(sent) THEN sent[i] ELSE s[i - Len(sent)]
    <3>1. sent \in Seq(L) /\ s \in Seq(L) /\ Len(s) = 3 /\ 3 \in Nat
      BY <1>2, <2>4
    <3>3. PICK q : q = sent'
      OBVIOUS
    <3> HIDE DEF L
    <3>4. q = sent \o s
      BY <2>3, <3>3
    <3>2. Joins(L, q, sent, s)
      BY <3>1, <3>4, Joined
    <3> QED BY <3>2, <3>3, Zenon DEF L, Joins
  <2>7. Silent'
    <3> DEFINE l == Len(sent)
    <3>1. /\ l \in Nat /\ DOMAIN sent' = 1 .. l + 3 /\ DOMAIN sent = 1 .. l
          /\ \A i \in 1 .. l + 3 : sent'[i] = IF i <= l THEN sent[i] ELSE s[i - l]
      BY <1>2, <2>6
    <3> HIDE DEF l
    <3> SUFFICES ASSUME NEW i \in 1 .. l + 3 PROVE sent'[i][1] \notin R!Chunk
      BY <3>1 DEF Silent
    <3>2. CASE i <= l
      <4>1. i \in 1 .. l /\ sent'[i] = sent[i]
        BY <3>1, <3>2
      <4> QED BY <1>2, <3>1, <4>1 DEF Silent
    <3>3. CASE ~ (i <= l)
      <4>1. i - l \in 1 .. 3 /\ sent'[i] = s[i - l]
        BY <3>1, <3>3
      <4> QED BY <2>5, <4>1
    <3> QED BY <3>2, <3>3
  <2> DEFINE u == [turn EXCEPT !.pc = "end"]
  <2>8. u \in TurnRec /\ u.pc = "end" /\ Kept(turn, u)
    BY <1>2, <1>3, Forms
  <2>9. turn' = u
    BY <2>1
  <2> HIDE DEF u
  <2>10. u.vetoed = FALSE
    BY <1>2, <2>8 DEF Kept
  <2>11. CacheOK(cache)'
    BY <1>1, <2>1, EmptyIs, SameCache
  <2> QED BY <1>1, <1>2, <2>6, <2>7, <2>8, <2>9, <2>10, <2>11, QuietStep
<1>5. CASE turn.decline = FALSE
  <2>1. /\ sent' = Append(sent, <<"recall", turn.recalled>>) /\ UNCHANGED cache
        /\ turn' = [turn EXCEPT !.pc = "steer"]
    BY <1>5 DEF R!Announce
  <2>2. sent' \in Seq(Label \X Recall) /\ Silent'
    BY <1>2, <2>1, Labels, Sends
  <2> DEFINE u == [turn EXCEPT !.pc = "steer"]
  <2>3. u \in TurnRec /\ u.pc = "steer" /\ Kept(turn, u)
    BY <1>2, <1>3, Forms
  <2>4. turn' = u
    BY <2>1
  <2> HIDE DEF u
  <2>5. u.vetoed = FALSE /\ u.decline = FALSE
    BY <1>2, <1>5, <2>3 DEF Kept
  <2>6. CacheOK(cache)'
    BY <1>1, <1>2, <2>1, SameCache
  <2> QED BY <1>1, <1>2, <2>2, <2>3, <2>4, <2>5, <2>6, QuietStep
<1> QED BY <1>2, <1>4, <1>5

LEMMA SteerKeeps == ASSUME CascadeInv, R!Steer PROVE CascadeInv'
<1>1. /\ turn.pc = "steer" /\ UNCHANGED <<cfg, retired, cache, sent>> /\ steer' = (R!On("steer") /\ turn.recalled # None)
      /\ turn' = [turn EXCEPT !.pc = "seed"]
  BY DEF R!Steer, R!At
<1>2. /\ turn \in TurnRec /\ turn.vetoed = FALSE /\ turn.decline = FALSE /\ Silent /\ CacheOK(cache)
      /\ sent \in Seq(Label \X Recall) /\ retired \subseteq Live
  BY <1>1, Plain DEF Begun, LadderStages
<1> DEFINE u == [turn EXCEPT !.pc = "seed"]
<1>3. "seed" \in TurnPlaces
  BY DEF TurnPlaces, Begun
<1>4. u \in TurnRec /\ u.pc = "seed" /\ Kept(turn, u)
  BY <1>2, <1>3, Forms
<1>5. turn' = u
  BY <1>1
<1> HIDE DEF u
<1>6. u.vetoed = FALSE /\ u.decline = FALSE /\ u.recalled = turn.recalled
  BY <1>2, <1>4 DEF Kept
<1>7. CacheOK(cache)'
  BY <1>1, <1>2, SameCache
<1>8. steer' \in BOOLEAN /\ (steer' => u.recalled # None)
  BY <1>1, <1>6
<1>9. Silent' /\ sent' \in Seq(Label \X Recall) /\ retired' \subseteq Live
  BY <1>1, <1>2 DEF Silent
<1> QED BY <1>1, <1>4, <1>5, <1>6, <1>7, <1>8, <1>9, QuietStep

LEMMA SeedKeeps == ASSUME R!CascadeAssumption, CascadeInv, R!Seed PROVE CascadeInv'
<1>1. turn.pc = "seed" /\ UNCHANGED <<cfg, retired, steer>>
  BY DEF R!Seed, R!At
<1>2. /\ turn \in TurnRec /\ turn.vetoed = FALSE /\ turn.decline = FALSE /\ Silent /\ CacheOK(cache)
      /\ sent \in Seq(Label \X Recall) /\ retired \subseteq Live /\ steer \in BOOLEAN
  BY <1>1, Plain DEF Begun, LadderStages
<1>3. "end" \in TurnPlaces /\ "decode" \in TurnPlaces
  BY DEF TurnPlaces
<1>4. CASE /\ sent' = Append(sent, <<"error", None>>) /\ turn' = [turn EXCEPT !.pc = "end"] /\ UNCHANGED cache
  <2>1. sent' \in Seq(Label \X Recall) /\ Silent'
    BY <1>2, <1>4, Labels, Sends
  <2> DEFINE u == [turn EXCEPT !.pc = "end"]
  <2>2. u \in TurnRec /\ u.pc = "end" /\ Kept(turn, u)
    BY <1>2, <1>3, Forms
  <2>3. turn' = u
    BY <1>4
  <2> HIDE DEF u
  <2>4. u.vetoed = FALSE /\ u.decline = FALSE
    BY <1>2, <2>2 DEF Kept
  <2>5. CacheOK(cache)'
    BY <1>1, <1>2, <1>4, SameCache
  <2> QED BY <1>1, <1>2, <2>1, <2>2, <2>3, <2>4, <2>5, QuietStep
<1>5. ASSUME NEW n \in 0 .. 1, cache' = R!Stepped(R!Stepped(cache, "prompt", 1), "thought", n),
             turn' = [turn EXCEPT !.pc = "decode"], UNCHANGED sent
      PROVE  CascadeInv'
  <2> DEFINE d == R!Stepped(cache, "prompt", 1)
             c == R!Stepped(d, "thought", n)
  <2>1. "prompt" \in RowTag /\ "thought" \in RowTag /\ 1 \in Nat /\ n \in Nat
    BY NoteTags DEF R!Note
  <2>2. CacheOK(d)
    BY <1>2, <2>1, SteppedRecites
  <2>3. CacheOK(c)
    <3> HIDE DEF d
    <3> QED BY <2>1, <2>2, SteppedRecites
  <2>4. c = cache'
    BY <1>5
  <2> HIDE DEF c
  <2>5. CacheOK(cache)'
    BY <1>1, <2>3, <2>4, SameCache
  <2> DEFINE u == [turn EXCEPT !.pc = "decode"]
  <2>6. u \in TurnRec /\ u.pc = "decode" /\ Kept(turn, u)
    BY <1>2, <1>3, Forms
  <2>7. turn' = u
    BY <1>5
  <2> HIDE DEF u
  <2>8. u.vetoed = FALSE /\ u.decline = FALSE /\ u.recalled = turn.recalled
    BY <1>2, <2>6 DEF Kept
  <2>9. Silent' /\ sent' \in Seq(Label \X Recall)
    BY <1>2, <1>5 DEF Silent
  <2>10. steer' => u.recalled # None
    BY <1>1, <2>8 DEF CascadeInv, Steered
  <2> QED BY <1>1, <1>2, <2>5, <2>6, <2>7, <2>8, <2>9, <2>10, QuietStep
<1> QED BY <1>4, <1>5 DEF R!Seed

\* The turn t with a piece x of text, and with its draft tested.
Drafted(t, x, y, z) == [t EXCEPT !.text = x, !.stepped = y, !.pc = z]
Tested(t, z, y, x) == [t EXCEPT !.pc = z, !.vetoed = y, !.text = x]

LEMMA DraftedIs ==
  ASSUME NEW t \in TurnRec, NEW x \in Seq(R!Chunk), NEW y \in BOOLEAN, NEW z \in TurnPlaces
  PROVE  /\ Drafted(t, x, y, z) \in TurnRec /\ Drafted(t, x, y, z).pc = z /\ Kept(t, Drafted(t, x, y, z))
         /\ Tested(t, z, y, x) \in TurnRec /\ Tested(t, z, y, x).pc = z
         /\ Tested(t, z, y, x).decline = t.decline
<1> DEFINE P == TurnPlaces
           K == SUBSET Memory
           B == BOOLEAN
           S == Seq(R!Chunk)
<1>1. TurnRec = TurnOf(P, View, K, Recall, B, S) /\ x \in S /\ y \in B /\ z \in P
  BY DEF TurnRec
<1> HIDE DEF P, K, B, S
<1>2. Drafted(t, x, y, z) \in TurnRec /\ Drafted(t, x, y, z).pc = z /\ Kept(t, Drafted(t, x, y, z))
  BY <1>1 DEF TurnOf, Kept, Drafted
<1>3. Tested(t, z, y, x) \in TurnRec /\ Tested(t, z, y, x).pc = z /\ Tested(t, z, y, x).decline = t.decline
  BY <1>1 DEF TurnOf, Tested
<1> QED BY <1>2, <1>3

\* A turn that is decoding or whose text is being flushed.
LEMMA Running ==
  ASSUME CascadeInv, turn.pc \in {"decode", "flush", "test"}
  PROVE  /\ turn \in TurnRec /\ turn.vetoed = FALSE /\ turn.decline = FALSE /\ CacheOK(cache)
         /\ sent \in Seq(Label \X Recall) /\ (R!Held \/ turn.pc = "test" => Silent)
<1>1. turn.pc \notin {"done", "end"} /\ turn.pc \notin LadderStages \union {"judged", "announce", "end"}
  BY DEF LadderStages
<1>2. /\ turn \in TurnRec /\ turn.vetoed = FALSE /\ turn.decline = FALSE /\ CacheOK(cache)
      /\ sent \in Seq(Label \X Recall)
  BY <1>1, Plain
<1>3. R!Held \/ turn.pc = "test" => Silent
  BY DEF CascadeInv, Quiet
<1> QED BY <1>2, <1>3

\* A piece is shown by a turn that becomes t.
LEMMA ShownKeeps ==
  ASSUME CascadeInv, turn.pc \in {"decode", "flush"}, NEW t \in TurnRec, NEW c \in R!Chunk, R!Shown(t, c),
         UNCHANGED <<cfg, retired, steer, cache>>, t.vetoed = FALSE, t.decline = FALSE,
         t.fact = turn.fact, t.recalled = turn.recalled, t.pc \in {"decode", "flush", "test", "done"},
         t.pc = "test" => R!Held, t.pc = "decode" => turn.pc = "decode"
  PROVE  CascadeInv'
<1>1. /\ CacheOK(cache) /\ sent \in Seq(Label \X Recall) /\ (R!Held => Silent)
  BY Running
<1>2. CacheOK(cache)'
  BY <1>1, SameCache
<1>3. t.pc \notin Begun
  BY DEF Begun, LadderStages
<1>4. CASE R!Held
  <2>1. turn' = [t EXCEPT !.held = Append(t.held, c)] /\ UNCHANGED sent
    BY <1>4 DEF R!Shown
  <2>2. Append(t.held, c) \in Seq(R!Chunk)
    BY FieldTypes, AppendProperties
  <2> DEFINE y == Append(t.held, c)
             u == [t EXCEPT !.held = y]
  <2>3. turn' = u
    BY <2>1
  <2>4. y \in Seq(R!Chunk)
    BY <2>2
  <2> HIDE DEF y
  <2>5. u \in TurnRec /\ u.pc = t.pc /\ Kept(t, u)
    BY <2>4, TextForms
  <2> HIDE DEF u
  <2>6. u.vetoed = FALSE /\ u.decline = FALSE /\ u.fact = turn.fact /\ u.recalled = turn.recalled
    BY <2>5 DEF Kept
  <2>7. Silent' /\ sent' \in Seq(Label \X Recall)
    BY <1>1, <1>4, <2>1 DEF Silent
  <2> QED BY <1>2, <1>3, <2>3, <2>5, <2>6, <2>7, LoudStep
<1>5. CASE ~ R!Held
  <2>1. turn' = t /\ sent' = Append(sent, <<c, None>>)
    BY <1>5 DEF R!Shown
  <2>2. sent' \in Seq(Label \X Recall)
    BY <1>1, <2>1, Labels, Sends
  <2> QED BY <1>2, <1>3, <1>5, <2>1, <2>2, LoudStep
<1> QED BY <1>4, <1>5

\* A turn that only moves on.
LEMMA MovesKeeps ==
  ASSUME CascadeInv, turn.pc \in {"decode", "flush"}, NEW t \in TurnRec, turn' = t,
         UNCHANGED <<cfg, retired, steer, cache, sent>>, t.vetoed = FALSE, t.decline = FALSE,
         t.fact = turn.fact, t.recalled = turn.recalled, t.pc \in {"decode", "flush", "test", "done", "end"},
         t.pc = "test" => R!Held, t.pc = "decode" => turn.pc = "decode"
  PROVE  CascadeInv'
<1>1. /\ CacheOK(cache) /\ sent \in Seq(Label \X Recall) /\ (R!Held => Silent)
  BY Running
<1>2. CacheOK(cache)'
  BY <1>1, SameCache
<1>3. t.pc \notin Begun
  BY DEF Begun, LadderStages
<1>4. R!Held => Silent'
  BY <1>1 DEF Silent
<1>5. sent' \in Seq(Label \X Recall)
  BY <1>1
<1> QED BY <1>2, <1>3, <1>4, <1>5, LoudStep

LEMMA DecodeKeeps == ASSUME CascadeInv, R!Decode PROVE CascadeInv'
<1>0. R!At("decode") /\ UNCHANGED <<cfg, retired, steer, cache>>
  BY DEF R!Decode
<1>1. turn.pc = "decode"
  BY <1>0 DEF R!At
<1>2. turn \in TurnRec /\ turn.vetoed = FALSE /\ turn.decline = FALSE
  BY <1>1, Running
<1>3. CASE turn' = [turn EXCEPT !.stepped = TRUE] /\ UNCHANGED sent
  <2> DEFINE u == [turn EXCEPT !.stepped = TRUE]
  <2>1. u \in TurnRec /\ u.pc = turn.pc /\ Kept(turn, u)
    BY <1>2, TextForms
  <2>2. turn' = u
    BY <1>3
  <2> HIDE DEF u
  <2>3. u.vetoed = FALSE /\ u.decline = FALSE /\ u.fact = turn.fact /\ u.recalled = turn.recalled
    BY <1>2, <2>1 DEF Kept
  <2> QED BY <1>0, <1>1, <1>3, <2>1, <2>2, <2>3, MovesKeeps
<1>4. ASSUME NEW c \in R!Chunk, NEW ok \in BOOLEAN,
             R!Shown([turn EXCEPT !.text = Append(@, c), !.stepped = @ \/ ok,
                                !.pc = IF ok THEN "decode" ELSE "flush"], c)
      PROVE  CascadeInv'
  <2> DEFINE x == Append(turn.text, c)
             y == turn.stepped \/ ok
             z == IF ok THEN "decode" ELSE "flush"
             u == Drafted(turn, x, y, z)
  <2>1. x \in Seq(R!Chunk)
    BY <1>2, FieldTypes, AppendProperties
  <2>2. y \in BOOLEAN /\ z \in TurnPlaces /\ z \in {"decode", "flush"}
    BY DEF TurnPlaces
  <2>3. R!Shown(u, c)
    BY <1>4 DEF Drafted
  <2> HIDE DEF x, y, z
  <2>4. u \in TurnRec /\ u.pc = z /\ Kept(turn, u)
    <3>1. turn \in TurnRec /\ y \in BOOLEAN /\ z \in TurnPlaces
      BY <1>2, <2>2
    <3> QED BY <2>1, <3>1, DraftedIs
  <2> HIDE DEF u
  <2>5. u.vetoed = FALSE /\ u.decline = FALSE /\ u.fact = turn.fact /\ u.recalled = turn.recalled
    BY <1>2, <2>4 DEF Kept
  <2> QED BY <1>0, <1>1, <2>2, <2>3, <2>4, <2>5, ShownKeeps
<1> QED BY <1>3, <1>4 DEF R!Decode

LEMMA GoneKeeps == ASSUME CascadeInv, R!ClientGone PROVE CascadeInv'
<1>1. turn.pc = "decode" /\ UNCHANGED <<cfg, retired, steer, cache, sent>> /\ turn' = [turn EXCEPT !.pc = "end"]
  BY DEF R!ClientGone, R!At
<1>2. turn \in TurnRec /\ turn.vetoed = FALSE /\ turn.decline = FALSE
  BY <1>1, Running
<1> DEFINE u == [turn EXCEPT !.pc = "end"]
<1>3. "end" \in TurnPlaces
  BY DEF TurnPlaces
<1>4. u \in TurnRec /\ u.pc = "end" /\ Kept(turn, u)
  BY <1>2, <1>3, Forms
<1>5. turn' = u
  BY <1>1
<1> HIDE DEF u
<1>6. u.vetoed = FALSE /\ u.decline = FALSE /\ u.fact = turn.fact /\ u.recalled = turn.recalled
  BY <1>2, <1>4 DEF Kept
<1> QED BY <1>1, <1>4, <1>5, <1>6, MovesKeeps

LEMMA StopKeeps == ASSUME CascadeInv, R!Stop PROVE CascadeInv'
<1>0. R!At("decode") /\ UNCHANGED <<cfg, retired, steer, cache>>
  BY DEF R!Stop
<1>1. turn.pc = "decode"
  BY <1>0 DEF R!At
<1>2. turn \in TurnRec /\ turn.vetoed = FALSE /\ turn.decline = FALSE
  BY <1>1, Running
<1> DEFINE u == [turn EXCEPT !.pc = "flush"]
<1>3. "flush" \in TurnPlaces
  BY DEF TurnPlaces
<1>4. u \in TurnRec /\ u.pc = "flush" /\ Kept(turn, u)
  BY <1>2, <1>3, Forms
<1>5. (turn' = u /\ UNCHANGED sent) \/ \E c \in R!Chunk : R!Shown(u, c)
  BY DEF R!Stop
<1> HIDE DEF u
<1>6. u.vetoed = FALSE /\ u.decline = FALSE /\ u.fact = turn.fact /\ u.recalled = turn.recalled
  BY <1>2, <1>4 DEF Kept
<1>7. CASE turn' = u /\ UNCHANGED sent
  BY <1>0, <1>1, <1>4, <1>6, <1>7, MovesKeeps
<1>8. ASSUME NEW c \in R!Chunk, R!Shown(u, c) PROVE CascadeInv'
  BY <1>0, <1>1, <1>4, <1>6, <1>8, ShownKeeps
<1> QED BY <1>5, <1>7, <1>8

LEMMA FlushKeeps == ASSUME CascadeInv, R!Flush PROVE CascadeInv'
<1>0. R!At("flush") /\ UNCHANGED <<cfg, retired, steer, cache>>
  BY DEF R!Flush
<1>1. turn.pc = "flush"
  BY <1>0 DEF R!At
<1>2. turn \in TurnRec /\ turn.vetoed = FALSE /\ turn.decline = FALSE
  BY <1>1, Running
<1> DEFINE z == IF R!Held THEN "test" ELSE "done"
           u == [turn EXCEPT !.pc = z]
<1>3. z \in TurnPlaces /\ z \in {"test", "done"} /\ (z = "test" => R!Held)
  BY DEF TurnPlaces
<1>5. (turn' = u /\ UNCHANGED sent) \/ \E c \in R!Chunk : R!Shown([u EXCEPT !.text = Append(@, c)], c)
  BY DEF R!Flush
<1> HIDE DEF z
<1>4. u \in TurnRec /\ u.pc = z /\ Kept(turn, u)
  BY <1>2, <1>3, Forms
<1> HIDE DEF u
<1>6. u.vetoed = FALSE /\ u.decline = FALSE /\ u.fact = turn.fact /\ u.recalled = turn.recalled
  BY <1>2, <1>4 DEF Kept
<1>7. CASE turn' = u /\ UNCHANGED sent
  BY <1>0, <1>1, <1>3, <1>4, <1>6, <1>7, MovesKeeps
<1>8. ASSUME NEW c \in R!Chunk, R!Shown([u EXCEPT !.text = Append(@, c)], c) PROVE CascadeInv'
  <2> DEFINE x == Append(u.text, c)
             w == [u EXCEPT !.text = x]
  <2>1. x \in Seq(R!Chunk)
    BY <1>4, FieldTypes, AppendProperties
  <2>2. R!Shown(w, c)
    BY <1>8
  <2> HIDE DEF x
  <2>5. w \in TurnRec /\ w.pc = u.pc /\ Kept(u, w)
    <3>1. u \in TurnRec
      BY <1>4
    <3> QED BY <2>1, <3>1, TextForms
  <2>3. w \in TurnRec /\ w.pc = z /\ Kept(u, w)
    BY <1>4, <2>5
  <2> HIDE DEF w
  <2>4. w.vetoed = FALSE /\ w.decline = FALSE /\ w.fact = turn.fact /\ w.recalled = turn.recalled
    BY <1>6, <2>3 DEF Kept
  <2> QED BY <1>0, <1>1, <1>3, <2>2, <2>3, <2>4, ShownKeeps
<1> QED BY <1>5, <1>7, <1>8

LEMMA TestKeeps == ASSUME CascadeInv, R!Test PROVE CascadeInv'
<1>0. R!At("test") /\ UNCHANGED <<cfg, retired, steer, cache>>
  BY DEF R!Test
<1>1. turn.pc = "test"
  BY <1>0 DEF R!At
<1>2. /\ turn \in TurnRec /\ turn.vetoed = FALSE /\ turn.decline = FALSE /\ CacheOK(cache)
      /\ sent \in Seq(Label \X Recall) /\ Silent
  BY <1>1, Running
<1>3. turn.fact \in Recall /\ turn.held \in Seq(R!Chunk) /\ retired \subseteq Live /\ steer \in BOOLEAN
  BY <1>2, Plain, FieldTypes
<1>4. CacheOK(cache)'
  BY <1>0, <1>2, SameCache
<1>5. "done" \in TurnPlaces
  BY DEF TurnPlaces
<1>6. CASE /\ sent' = Append(sent, <<"record", turn.fact>>)
           /\ turn' = [turn EXCEPT !.pc = "done", !.vetoed = TRUE, !.text = <<>>]
  <2>1. sent' \in Seq(Label \X Recall) /\ Silent'
    BY <1>2, <1>3, <1>6, Labels, Sends
  <2> DEFINE z == "done"
             y == TRUE
             x == <<>>
             u == Tested(turn, z, y, x)
  <2>2. y \in BOOLEAN /\ x \in Seq(R!Chunk) /\ z \in TurnPlaces /\ z = "done" /\ turn \in TurnRec
    BY <1>2, <1>5
  <2>4. turn' = u
    BY <1>6 DEF Tested
  <2> HIDE DEF x, y, z
  <2>5. u \in TurnRec /\ u.pc = z /\ u.decline = turn.decline
    BY <2>2, DraftedIs
  <2>3. u \in TurnRec /\ u.pc = "done" /\ u.decline = turn.decline
    BY <2>2, <2>5
  <2> HIDE DEF u
  <2> QED BY <1>0, <1>2, <1>3, <1>4, <2>1, <2>3, <2>4, QuietStep
<1>7. ASSUME NEW n \in 0 .. Len(turn.held), sent' = sent \o [i \in 1 .. n |-> <<turn.held[i], None>>],
             turn' = [turn EXCEPT !.pc = "done"]
      PROVE  CascadeInv'
  <2> DEFINE L == Label \X Recall
             s == [i \in 1 .. n |-> <<turn.held[i], None>>]
  <2>1. s \in Seq(L)
    <3>1. \A i \in 1 .. n : turn.held[i] \in R!Chunk
      BY <1>3, ElementOfSeq
    <3>2. \A i \in 1 .. n : <<turn.held[i], None>> \in L
      BY <3>1, Labels
    <3> HIDE DEF L
    <3>3. n \in Nat
      BY <1>3
    <3> QED BY <3>2, <3>3, IsASeq
  <2>2. sent' = sent \o s /\ sent \in Seq(L)
    BY <1>2, <1>7
  <2> HIDE DEF s, L
  <2>3. sent' \in Seq(L)
    BY <2>1, <2>2, ConcatProperties
  <2>4. sent' \in Seq(Label \X Recall)
    BY <2>3 DEF L
  <2> DEFINE u == [turn EXCEPT !.pc = "done"]
  <2>5. u \in TurnRec /\ u.pc = "done" /\ Kept(turn, u)
    BY <1>2, <1>5, Forms
  <2>6. turn' = u
    BY <1>7
  <2> HIDE DEF u
  <2>7. u.vetoed = FALSE /\ u.decline = FALSE /\ u.fact = turn.fact /\ u.recalled = turn.recalled
    BY <1>2, <2>5 DEF Kept
  <2>8. u.pc \notin Begun
    BY <2>5 DEF Begun, LadderStages
  <2> QED BY <1>0, <1>4, <2>4, <2>5, <2>6, <2>7, <2>8, LoudStep
<1> QED
  <2>1. PICK veto \in BOOLEAN :
          IF veto
          THEN /\ sent' = Append(sent, <<"record", turn.fact>>)
               /\ turn' = [turn EXCEPT !.pc = "done", !.vetoed = TRUE, !.text = <<>>]
          ELSE /\ \E n \in 0 .. Len(turn.held) : sent' = sent \o [i \in 1 .. n |-> <<turn.held[i], None>>]
               /\ turn' = [turn EXCEPT !.pc = "done"]
    BY DEF R!Test, R!Ungrounded
  <2> QED BY <1>6, <1>7, <2>1

LEMMA DoneKeeps == ASSUME CascadeInv, R!Done PROVE CascadeInv'
<1>1. /\ turn.pc = "done" /\ UNCHANGED <<cfg, retired, steer, cache>> /\ turn' = [turn EXCEPT !.pc = "end"]
      /\ \E last \in {"done", "cancelled"} : sent' = Append(sent, <<last, None>>)
  BY DEF R!Done, R!At
<1>2. /\ turn \in TurnRec /\ CacheOK(cache) /\ sent \in Seq(Label \X Recall) /\ retired \subseteq Live
      /\ steer \in BOOLEAN /\ turn.decline = FALSE /\ (turn.vetoed => Silent) /\ turn.vetoed \in BOOLEAN
  BY <1>1, Plain, FieldTypes DEF LadderStages
<1>3. PICK last \in {"done", "cancelled"} : sent' = Append(sent, <<last, None>>)
  BY <1>1
<1>4. sent' \in Seq(Label \X Recall) /\ (Silent => Silent')
  BY <1>2, <1>3, Labels, Sends
<1>5. CacheOK(cache)'
  BY <1>1, <1>2, SameCache
<1> DEFINE u == [turn EXCEPT !.pc = "end"]
<1>6. "end" \in TurnPlaces
  BY DEF TurnPlaces
<1>7. u \in TurnRec /\ u.pc = "end" /\ Kept(turn, u)
  BY <1>2, <1>6, Forms
<1>8. turn' = u
  BY <1>1
<1> HIDE DEF u
<1>9. u.vetoed = turn.vetoed /\ u.decline = FALSE /\ u.fact = turn.fact /\ u.recalled = turn.recalled
  BY <1>2, <1>7 DEF Kept
<1>10. CASE turn.vetoed
  BY <1>1, <1>2, <1>4, <1>5, <1>7, <1>8, <1>9, <1>10, QuietStep
<1>11. CASE turn.vetoed = FALSE
  <2>1. u.pc \notin Begun
    BY <1>7 DEF Begun, LadderStages
  <2> QED BY <1>1, <1>4, <1>5, <1>7, <1>8, <1>9, <1>11, <2>1, LoudStep
<1> QED BY <1>2, <1>10, <1>11

LEMMA EndKeeps == ASSUME R!CascadeAssumption, CascadeInv, R!End PROVE CascadeInv'
<1>1. UNCHANGED <<cfg, retired, steer, cache, sent>> /\ turn' = R!Idle
  BY DEF R!End
<1>2. CacheOK(cache)'
  BY <1>1, Plain, SameCache
<1> QED BY <1>1, <1>2, Plain, IdleIs, IdleKeeps

LEMMA CascadeStays == ASSUME CascadeInv, UNCHANGED R!vars PROVE CascadeInv'
<1>1. UNCHANGED <<cfg, retired, steer, cache, turn, sent>>
  BY DEF R!vars
<1>2. CacheOK(cache)'
  BY <1>1, Plain, SameCache
<1>3. CascadeTypes'
  BY <1>1, <1>2 DEF CascadeInv, CascadeTypes
<1>4. Quiet'
  <2>1. R!Held' = R!Held /\ Silent' = Silent
    BY <1>1 DEF R!Held, R!On, Silent
  <2> QED BY <1>1, <2>1 DEF CascadeInv, Quiet
<1>5. Steered'
  BY <1>1 DEF CascadeInv, Steered
<1> QED BY <1>3, <1>4, <1>5 DEF CascadeInv

LEMMA CascadeStep ==
  ASSUME R!CascadeAssumption, CascadeInv, R!Next \/ UNCHANGED R!vars
  PROVE  CascadeInv'
<1>1. ASSUME NEW e \in Live, R!Supersede(e) PROVE CascadeInv'
  BY <1>1, SupersedeKeeps
<1>2. ASSUME NEW v \in View, R!Begin(v) PROVE CascadeInv'
  BY <1>2, BeginKeeps
<1>3. ASSUME NEW w \in Memory \union {None}, R!SpineTurn(w) PROVE CascadeInv'
  BY <1>3, SpineKeeps DEF Recall
<1>4. ASSUME NEW e \in Memory, R!Probe(e) PROVE CascadeInv'
  BY <1>4, ProbeKeeps
<1>5. CASE R!Stage
  BY <1>3, <1>4, <1>5, Int2Keeps, LearnedKeeps, JaccardKeeps, L5Keeps, ReadKeeps, PickKeeps,
     DisposerKeeps, QKKeeps DEF R!Stage
<1>6. CASE R!Answer
  BY <1>6, AnnounceKeeps, SteerKeeps, SeedKeeps, DecodeKeeps, GoneKeeps, StopKeeps, FlushKeeps,
     TestKeeps, DoneKeeps, EndKeeps DEF R!Answer
<1> QED BY <1>1, <1>2, <1>5, <1>6, DelegateKeeps, CascadeStays DEF R!Next

LEMMA CascadeSays == CascadeInv => R!VetoedNeverSent /\ R!SteerOnlyRecall
BY DEF CascadeInv, Quiet, Steered, R!VetoedNeverSent, R!SteerOnlyRecall, Silent, R!At

LEMMA RunsOn == ASSUME NEW t, NEW s \in LadderStages, R!Runs(t, s)
  PROVE  /\ R!On(s)
         /\ s # "int2" => t.decided # TRUE
         /\ s \in {"jaccard", "l5", "judge"} => t.recalled = None
         /\ s = "qk" => ~ R!On("disp")
BY DEF R!Runs, LadderStages

LEMMA StageAt == /\ R!Stages[1] = "int2" /\ R!Stages[2] = "wc" /\ R!Stages[3] = "jaccard" /\ R!Stages[4] = "l5"
                 /\ R!Stages[5] = "judge" /\ R!Stages[6] = "disp" /\ R!Stages[7] = "qk"
BY DEF R!Stages

\* A turn that has its memory, or that INT2 has decided, goes on to the answer.
LEMMA Straight ==
  ASSUME R!CascadeAssumption, Uncombined, cfg \in Configs, NEW t \in TurnRec, NEW i \in 1 .. 7,
         \/ t.decided = TRUE
         \/ i = 7
         \/ i \in 2 .. 6 /\ R!On(R!Stages[i]) /\ t.recalled # None
  PROVE  R!Onward(t, i).pc = "announce"
<1> SUFFICES ASSUME R!Onward(t, i).pc # "announce" PROVE FALSE
  OBVIOUS
<1>1. i \in 0 .. 7
  OBVIOUS
<1>2. PICK j \in i + 1 .. 7 : R!Onward(t, i).pc = R!Stages[j] /\ R!Runs(t, R!Stages[j])
  BY <1>1, OnwardIs
<1>3. j \in 2 .. 7 /\ i # 7 /\ R!Stages[j] \in LadderStages /\ R!Stages[j] # "int2"
  <2>1. j \in 2 .. 7 /\ i # 7
    OBVIOUS
  <2>2. j \in {2, 3, 4, 5, 6, 7}
    BY <2>1
  <2> QED BY <2>1, <2>2, StageAt DEF LadderStages
<1>4. R!On(R!Stages[j]) /\ t.decided # TRUE
  BY <1>2, <1>3, RunsOn
<1>5. i \in 2 .. 6 /\ R!On(R!Stages[i]) /\ t.recalled # None
  BY <1>3, <1>4
<1>6. R!Stages[j] \notin {"jaccard", "l5", "judge"}
  BY <1>2, <1>3, <1>5, RunsOn
<1>7. j \in {6, 7}
  <2>1. j \in {3, 4, 5, 6, 7}
    BY <1>5
  <2> QED BY <1>6, <2>1, StageAt
<1>8. R!Stages[j] \in {"disp", "qk"}
  BY <1>7, StageAt
<1>9. {"disp", "qk"} \intersect cfg # {}
  BY <1>4, <1>8 DEF R!On
<1>10. {"wc", "jaccard", "l5", "judge"} \intersect cfg = {}
  BY <1>9 DEF Uncombined
<1>11. R!Stages[i] \notin {"wc", "jaccard", "l5", "judge"}
  BY <1>5, <1>10 DEF R!On
<1>12. i = 6
  <2>1. i \in {2, 3, 4, 5, 6}
    BY <1>5
  <2> QED BY <1>11, <2>1, StageAt
<1>13. j = 7 /\ R!Stages[j] = "qk" /\ R!On("disp")
  BY <1>5, <1>7, <1>12, StageAt
<1> QED BY <1>2, <1>3, <1>13, RunsOn

\* After a stage.
LEMMA Picks ==
  ASSUME R!CascadeAssumption, NEW t \in TurnRec, NEW i \in 0 .. 7, turn' = R!Onward(t, i), UNCHANGED cfg,
         t.fact # None => t.recalled = t.fact,
         t.decline = FALSE => R!Recited(cache)' = (IF t.recalled = None THEN {} ELSE {t.recalled}),
         \/ t.recalled = None /\ t.decided = FALSE /\ t.decline = FALSE
         \/ R!Onward(t, i).pc = "announce"
  PROVE  OnePick'
<1>1. PICK u : u = R!Onward(t, i)
  OBVIOUS
<1>2. turn' = u
  BY <1>1
<1>3. /\ u \in TurnRec /\ Kept(t, u) /\ u.pc \in LadderStages \union {"announce"}
      /\ u.pc # "announce" => \E j \in i + 1 .. 7 : u.pc = R!Stages[j] /\ R!Runs(t, R!Stages[j])
      /\ u.pc = "disp" => u.todo \subseteq Memory \ Live
      /\ \/ t.recalled = None /\ t.decided = FALSE /\ t.decline = FALSE
         \/ u.pc = "announce"
  BY <1>1, OnwardIs
<1>4. u.recalled = t.recalled /\ u.decided = t.decided /\ u.decline = t.decline /\ u.fact = t.fact
  BY <1>3 DEF Kept
<1>5. u.pc \in LadderStages => R!On(u.pc)
  BY <1>3, RunsOn DEF LadderStages
<1>6. u.pc \in LadderStages => u.pc \in cfg'
  BY <1>5 DEF R!On
<1>7. "announce" \notin LadderStages \union {"judged", "spine"}
  BY DEF LadderStages
<1>8. u.pc # "judged"
  BY <1>3 DEF LadderStages
<1>9. u.pc \in LadderStages \union {"judged", "spine"} =>
        u.recalled = None /\ u.decided = FALSE /\ u.decline = FALSE
  BY <1>3, <1>4, <1>7
<1>10. /\ u.fact # None => u.recalled = u.fact
       /\ u.decline = FALSE => R!Recited(cache)' = (IF u.recalled = None THEN {} ELSE {u.recalled})
  BY <1>4
<1>11. u.pc = "disp" => u.todo \subseteq Memory \ Live
  BY <1>3
<1> QED BY <1>2, <1>6, <1>8, <1>9, <1>10, <1>11 DEF OnePick, R!On

-----------------------------------------------------------------------------
\* What a stage finds.
LEMMA StageFinds ==
  ASSUME R!CascadeAssumption, CascadeInv, OnePick, turn.pc \in LadderStages \union {"judged", "spine"}
  PROVE  /\ turn \in TurnRec /\ turn.recalled = None /\ turn.decided = FALSE /\ turn.decline = FALSE
         /\ turn.fact = None /\ R!Recited(cache) = {} /\ CacheOK(cache) /\ cfg \in Configs
<1>1. turn.pc \in Begun
  BY DEF Begun
<1>2. turn.recalled = None /\ turn.decided = FALSE /\ turn.decline = FALSE
  BY DEF OnePick
<1>3. turn.fact = None /\ R!Recited(cache) = {}
  BY <1>1, <1>2 DEF OnePick
<1>4. cfg \in Configs
  BY DEF CascadeInv, CascadeTypes
<1> QED BY <1>2, <1>3, <1>4, Plain

LEMMA PickPassed ==
  ASSUME R!CascadeAssumption, CascadeInv, OnePick, turn.pc \in LadderStages \union {"judged", "spine"},
         NEW i \in 0 .. 7, R!Passed(turn, i)
  PROVE  OnePick'
<1>1. turn' = R!Onward(turn, i) /\ UNCHANGED <<cfg, cache>>
  BY DEF R!Passed
<1>2. /\ turn \in TurnRec /\ turn.recalled = None /\ turn.decided = FALSE /\ turn.decline = FALSE
      /\ turn.fact = None /\ R!Recited(cache) = {}
  BY StageFinds
<1>3. R!Recited(cache)' = {}
  BY <1>1, <1>2 DEF R!Recited
<1> QED BY <1>1, <1>2, <1>3, Picks

\* A delivery that fails leaves the turn as it was, one that succeeds ends the ladder.
LEMMA PickFailed ==
  ASSUME R!CascadeAssumption, CascadeInv, OnePick, turn.pc \in LadderStages \union {"judged", "spine"},
         NEW i \in 0 .. 7, NEW o, NEW e, o.ok = FALSE, R!Recited(o.cache) = {},
         NEW t \in TurnRec, t.recalled = None, t.decided = FALSE, t.decline = FALSE, t.fact = None,
         R!Concluded(t, i, o, e)
  PROVE  OnePick'
<1>1. turn' = R!Onward(t, i) /\ UNCHANGED cfg /\ o.cache = cache'
  BY DEF R!Concluded
<1>2. R!Recited(cache)' = {}
  BY <1>1, SameRecital
<1> QED BY <1>1, <1>2, Picks

LEMMA PickTaken ==
  ASSUME R!CascadeAssumption, CascadeInv, Uncombined, NEW i \in 1 .. 7,
         i = 7 \/ (i \in 2 .. 6 /\ R!On(R!Stages[i])), NEW o, NEW e \in Memory, o.ok = TRUE,
         NEW t \in TurnRec, t.fact \in {None, e}, t.decline = FALSE => R!Recited(o.cache) = {e},
         R!Concluded(t, i, o, e)
  PROVE  OnePick'
<1> DEFINE u == [t EXCEPT !.recalled = e]
<1>0. e \in Recall /\ e # None
  BY NoteTags DEF Recall
<1>1. u \in TurnRec /\ u.recalled = e /\ u.decline = t.decline /\ u.fact = t.fact
  BY <1>0, RecallForms
<1>2. turn' = R!Onward(u, i) /\ UNCHANGED cfg /\ o.cache = cache'
  BY DEF R!Concluded
<1> HIDE DEF u
<1>3. cfg \in Configs
  BY DEF CascadeInv, CascadeTypes
<1>4. R!Onward(u, i).pc = "announce"
  BY <1>0, <1>1, <1>3, Straight
<1>5. u.decline = FALSE => R!Recited(cache)' = {e}
  BY <1>1, <1>2, SameRecital
<1>6. i \in 0 .. 7
  OBVIOUS
<1> QED BY <1>0, <1>1, <1>2, <1>4, <1>5, <1>6, Picks

\* What an actual turn found in the cache is there after a failed delivery too.
LEMMA TextFinds ==
  ASSUME R!CascadeAssumption, CacheOK(cache), R!Recited(cache) = {}, NEW e \in Memory, NEW o \in R!TextOutcome(e)
  PROVE  /\ o.ok \in BOOLEAN
         /\ o.ok = TRUE => R!Recited(o.cache) = {e}
         /\ o.ok = FALSE => R!Recited(o.cache) = {}
BY TextIs, EmptyIs

LEMMA ReplayFinds ==
  ASSUME R!CascadeAssumption, CacheOK(cache), R!Recited(cache) = {}, NEW e \in Memory, NEW o \in R!ReplayOutcome(e)
  PROVE  /\ o.ok \in BOOLEAN
         /\ o.ok = TRUE => R!Recited(o.cache) = {e}
         /\ o.ok = FALSE => R!Recited(o.cache) = {}
<1>1. /\ o.ok \in BOOLEAN
      /\ o.ok = TRUE => R!Recited(o.cache) = R!Recited(cache) \union {e}
      /\ o.ok = FALSE => o.cache = cache
  BY ReplayIs
<1> QED BY <1>1

\* A stage, switched on, that delivers e or fails to.
LEMMA PickEither ==
  ASSUME R!CascadeAssumption, CascadeInv, OnePick, Uncombined, turn.pc \in LadderStages \union {"judged", "spine"},
         NEW i \in 1 .. 7, i = 7 \/ (i \in 2 .. 6 /\ R!On(R!Stages[i])), NEW o, NEW e \in Memory,
         o.ok \in BOOLEAN, o.ok = TRUE => R!Recited(o.cache) = {e}, o.ok = FALSE => R!Recited(o.cache) = {},
         R!Concluded(turn, i, o, e)
  PROVE  OnePick'
<1>1. /\ turn \in TurnRec /\ turn.recalled = None /\ turn.decided = FALSE /\ turn.decline = FALSE
      /\ turn.fact = None
  BY StageFinds
<1>2. CASE o.ok = TRUE
  BY <1>1, <1>2, PickTaken
<1>3. CASE o.ok = FALSE
  <2>1. i \in 0 .. 7
    OBVIOUS
  <2> QED BY <1>1, <1>3, <2>1, PickFailed
<1> QED BY <1>2, <1>3

LEMMA LearnedPick ==
  ASSUME R!CascadeAssumption, CascadeInv, OnePick, Uncombined, R!LearnedHead PROVE OnePick'
<1>0. R!At("wc")
  BY DEF R!LearnedHead
<1>1. turn.pc \in LadderStages \union {"judged", "spine"} /\ 2 \in 0 .. 7 /\ 2 \in 1 .. 7 /\ 2 \in 2 .. 6 /\ R!On(R!Stages[2])
  BY <1>0, StageAt DEF R!At, OnePick, LadderStages
<1>2. R!Recited(cache) = {} /\ CacheOK(cache)
  BY <1>1, StageFinds
<1>3. CASE R!Passed(turn, 2)
  BY <1>1, <1>3, PickPassed
<1>4. ASSUME NEW e \in Memory, NEW o \in R!TextOutcome(e) \union R!ReplayOutcome(e), R!Concluded(turn, 2, o, e)
      PROVE  OnePick'
  <2>1. /\ o.ok \in BOOLEAN
        /\ o.ok = TRUE => R!Recited(o.cache) = {e}
        /\ o.ok = FALSE => R!Recited(o.cache) = {}
    BY <1>2, <1>4, TextFinds, ReplayFinds
  <2> QED BY <1>1, <1>4, <2>1, PickEither
<1>5. CASE \E e \in Memory :
             \E o \in IF R!On("wctext") /\ e \notin Live THEN R!TextOutcome(e) ELSE R!ReplayOutcome(e) :
               R!Concluded(turn, 2, o, e)
  <2>1. PICK e \in Memory : \E o \in IF R!On("wctext") /\ e \notin Live THEN R!TextOutcome(e) ELSE R!ReplayOutcome(e) :
               R!Concluded(turn, 2, o, e)
    BY <1>5
  <2>2. PICK o \in R!TextOutcome(e) \union R!ReplayOutcome(e) : R!Concluded(turn, 2, o, e)
    BY <2>1
  <2> QED BY <1>4, <2>2
<1> QED BY <1>3, <1>5 DEF R!LearnedHead

LEMMA JaccardPick ==
  ASSUME R!CascadeAssumption, CascadeInv, OnePick, Uncombined, R!Jaccard PROVE OnePick'
<1>0. R!At("jaccard")
  BY DEF R!Jaccard
<1>1. turn.pc \in LadderStages \union {"judged", "spine"} /\ 3 \in 0 .. 7 /\ 3 \in 1 .. 7 /\ 3 \in 2 .. 6 /\ R!On(R!Stages[3])
  BY <1>0, StageAt DEF R!At, OnePick, LadderStages
<1>2. R!Recited(cache) = {} /\ CacheOK(cache)
  BY <1>1, StageFinds
<1>3. CASE R!Passed(turn, 3)
  BY <1>1, <1>3, PickPassed
<1>4. ASSUME NEW e \in Memory, NEW o \in R!TextOutcome(e), R!Concluded(turn, 3, o, e)
      PROVE  OnePick'
  <2>1. /\ o.ok \in BOOLEAN
        /\ o.ok = TRUE => R!Recited(o.cache) = {e}
        /\ o.ok = FALSE => R!Recited(o.cache) = {}
    BY <1>2, <1>4, TextFinds
  <2> QED BY <1>1, <1>4, <2>1, PickEither
<1> QED BY <1>3, <1>4 DEF R!Jaccard

LEMMA QKPick ==
  ASSUME R!CascadeAssumption, CascadeInv, OnePick, Uncombined, R!QK PROVE OnePick'
<1>0. R!At("qk")
  BY DEF R!QK
<1>1. turn.pc \in LadderStages \union {"judged", "spine"} /\ 7 \in 0 .. 7 /\ 7 \in 1 .. 7
  BY <1>0 DEF R!At, LadderStages
<1>2. R!Recited(cache) = {} /\ CacheOK(cache)
  BY <1>1, StageFinds
<1>3. CASE R!Passed(turn, 7)
  BY <1>1, <1>3, PickPassed
<1>4. ASSUME NEW e \in R!Scanned, NEW o \in R!ReplayOutcome(e), R!Concluded(turn, 7, o, e)
      PROVE  OnePick'
  <2>0. e \in Memory
    BY DEF R!Scanned
  <2>1. /\ o.ok \in BOOLEAN
        /\ o.ok = TRUE => R!Recited(o.cache) = {e}
        /\ o.ok = FALSE => R!Recited(o.cache) = {}
    BY <1>2, <1>4, <2>0, ReplayFinds
  <2> QED BY <1>1, <1>4, <2>0, <2>1, PickEither
<1> QED BY <1>3, <1>4 DEF R!QK

LEMMA DisposerPick ==
  ASSUME R!CascadeAssumption, CascadeInv, OnePick, Uncombined, R!Disposer \/ R!Continued PROVE OnePick'
<1>0. R!At("disp") /\ R!Weigh("disp", 6, turn)
  BY DEF R!Disposer, R!Continued, R!Weigh
<1>1. turn.pc \in LadderStages \union {"judged", "spine"} /\ 6 \in 0 .. 7 /\ 6 \in 1 .. 7 /\ 6 \in 2 .. 6 /\ R!On(R!Stages[6])
  BY <1>0, StageAt DEF R!At, OnePick, LadderStages
<1>2. R!Recited(cache) = {} /\ CacheOK(cache) /\ turn.best \in Recall
  BY <1>1, StageFinds, FieldTypes
<1>3. CASE R!Passed(turn, 6)
  BY <1>1, <1>3, PickPassed
<1>4. ASSUME turn.best # None, NEW o \in R!ReplayOutcome(turn.best), R!Concluded(turn, 6, o, turn.best)
      PROVE  OnePick'
  <2>0. turn.best \in Memory
    BY <1>2, <1>4 DEF Recall
  <2>1. /\ o.ok \in BOOLEAN
        /\ o.ok = TRUE => R!Recited(o.cache) = {turn.best}
        /\ o.ok = FALSE => R!Recited(o.cache) = {}
    BY <1>2, <1>4, <2>0, ReplayFinds
  <2> QED BY <1>1, <1>4, <2>0, <2>1, PickEither
<1> QED BY <1>0, <1>3, <1>4 DEF R!Weigh

\* INT2 has decided, so that the ladder ends with it.
LEMMA Int2Pick ==
  ASSUME R!CascadeAssumption, CascadeInv, OnePick, Uncombined, R!Int2 PROVE OnePick'
<1> DEFINE t == [turn EXCEPT !.decided = TRUE]
<1>0. R!At("int2") /\ R!Weigh("int2", 1, t)
  BY DEF R!Int2, R!Weigh
<1>1. turn.pc \in LadderStages \union {"judged", "spine"} /\ 1 \in 0 .. 7 /\ 1 \in 1 .. 7
  BY <1>0 DEF R!At, LadderStages
<1>2. /\ R!Recited(cache) = {} /\ CacheOK(cache) /\ turn.best \in Recall /\ turn \in TurnRec /\ cfg \in Configs
      /\ turn.recalled = None /\ turn.decline = FALSE /\ turn.fact = None
  BY <1>1, StageFinds, FieldTypes
<1>3. PICK u : u = t
  OBVIOUS
<1>4. u \in TurnRec /\ u.recalled = None /\ u.decided = TRUE /\ u.decline = FALSE /\ u.fact = None
  <2>1. t \in TurnRec /\ t.decided = TRUE /\ t.recalled = turn.recalled /\ t.decline = turn.decline /\ t.fact = turn.fact
    BY <1>2, RecallForms
  <2> HIDE DEF t
  <2> QED BY <1>2, <1>3, <2>1
<1>5. R!Weigh("int2", 1, u)
  BY <1>0, <1>3
<1> HIDE DEF t
<1>6. CASE R!Passed(u, 1)
  <2>1. turn' = R!Onward(u, 1) /\ UNCHANGED <<cfg, cache>>
    BY <1>6 DEF R!Passed
  <2>2. R!Recited(cache)' = {}
    BY <1>2, <2>1 DEF R!Recited
  <2>3. R!Onward(u, 1).pc = "announce"
    BY <1>1, <1>2, <1>4, Straight
  <2> QED BY <1>1, <1>4, <2>1, <2>2, <2>3, Picks
<1>7. ASSUME turn.best # None, NEW o \in R!ReplayOutcome(turn.best), R!Concluded(u, 1, o, turn.best)
      PROVE  OnePick'
  <2>1. PICK e : e = turn.best
    OBVIOUS
  <2>2. e \in Memory /\ e \in Recall /\ e # None
    BY <1>2, <1>7, <2>1 DEF Recall
  <2>3. /\ o.ok \in BOOLEAN
        /\ o.ok = TRUE => R!Recited(o.cache) = {e}
        /\ o.ok = FALSE => R!Recited(o.cache) = {}
    BY <1>2, <1>7, <2>1, <2>2, ReplayFinds
  <2>4. PICK w : w = IF o.ok THEN [u EXCEPT !.recalled = e] ELSE u
    OBVIOUS
  <2>5. turn' = R!Onward(w, 1) /\ UNCHANGED cfg /\ o.cache = cache'
    BY <1>7, <2>1, <2>4 DEF R!Concluded
  <2>6. /\ w \in TurnRec /\ w.decided = TRUE /\ w.decline = FALSE /\ w.fact = None
        /\ w.recalled = IF o.ok THEN e ELSE None
    <3>1. CASE o.ok = TRUE
      <4> DEFINE x == [u EXCEPT !.recalled = e]
      <4>1. x \in TurnRec /\ x.recalled = e /\ x.decided = u.decided /\ x.decline = u.decline /\ x.fact = u.fact
        BY <1>4, <2>2, RecallForms
      <4>2. w = x
        BY <2>4, <3>1
      <4> HIDE DEF x
      <4> QED BY <1>4, <3>1, <4>1, <4>2
    <3>2. CASE o.ok = FALSE
      <4>1. w = u
        BY <2>4, <3>2
      <4> QED BY <1>4, <3>2, <4>1
    <3> QED BY <2>3, <3>1, <3>2
  <2>7. R!Recited(cache)' = R!Recited(o.cache)
    BY <2>5, SameRecital
  <2>8. R!Recited(cache)' = (IF w.recalled = None THEN {} ELSE {w.recalled})
    BY <2>2, <2>3, <2>6, <2>7
  <2>9. R!Onward(w, 1).pc = "announce"
    BY <1>1, <1>2, <2>6, Straight
  <2> QED BY <1>1, <2>5, <2>6, <2>8, <2>9, Picks
<1> QED BY <1>5, <1>6, <1>7 DEF R!Weigh

LEMMA SpinePick ==
  ASSUME R!CascadeAssumption, CascadeInv, OnePick, Uncombined, NEW w \in Recall, R!SpineTurn(w) PROVE OnePick'
<1> DEFINE d == R!Spine(w, turn.view)
<1>1. /\ turn.pc \in LadderStages \union {"judged", "spine"} /\ Len(R!Stages) = 7 /\ 7 \in 0 .. 7 /\ 7 \in 1 .. 7
  BY DEF R!SpineTurn, R!At, R!Stages
<1>2. /\ R!Recited(cache) = {} /\ CacheOK(cache) /\ turn \in TurnRec /\ turn.view \in View /\ cfg \in Configs
      /\ turn.recalled = None /\ turn.decline = FALSE /\ turn.fact = None /\ turn.decided = FALSE
  BY <1>1, StageFinds, FieldTypes
<1>3. d.do \in {"pass", "decline", "deliver"} /\ d.mem \in Recall /\ (d.do = "deliver" => d.mem \in Memory)
  BY <1>2, SpineDecides
<1> HIDE DEF d
<1>4. CASE d.do = "pass"
  <2>1. R!Passed(turn, 7)
    BY <1>1, <1>4 DEF R!SpineTurn, d
  <2> QED BY <1>1, <2>1, PickPassed
<1>5. CASE d.do = "decline"
  <2> DEFINE t == [turn EXCEPT !.decline = TRUE]
  <2>1. R!Passed(t, 7)
    BY <1>1, <1>5 DEF R!SpineTurn, d
  <2>2. /\ t \in TurnRec /\ t.decline = TRUE /\ t.recalled = turn.recalled /\ t.fact = turn.fact
    BY <1>2, RecallForms
  <2> HIDE DEF t
  <2>3. turn' = R!Onward(t, 7) /\ UNCHANGED <<cfg, cache>>
    BY <2>1 DEF R!Passed
  <2>4. PICK u : u = t
    OBVIOUS
  <2>5. turn' = R!Onward(u, 7) /\ u \in TurnRec /\ u.decline = TRUE /\ u.recalled = None /\ u.fact = None
    BY <1>2, <2>2, <2>3, <2>4
  <2>6. R!Onward(u, 7).pc = "announce"
    BY <1>1, <1>2, <2>5, Straight
  <2> QED BY <1>1, <2>3, <2>5, <2>6, Picks
<1>6. CASE d.do = "deliver"
  <2>1. PICK o \in R!TextOutcome(d.mem) : R!Concluded(turn, 7, o, d.mem)
    BY <1>1, <1>6 DEF R!SpineTurn, d
  <2>2. PICK e : e = d.mem
    OBVIOUS
  <2>3. e \in Memory /\ R!Concluded(turn, 7, o, e) /\ o \in R!TextOutcome(e)
    BY <1>3, <1>6, <2>1, <2>2
  <2>4. /\ o.ok \in BOOLEAN
        /\ o.ok = TRUE => R!Recited(o.cache) = {e}
        /\ o.ok = FALSE => R!Recited(o.cache) = {}
    BY <1>2, <2>3, TextFinds
  <2> QED BY <1>1, <2>3, <2>4, PickEither
<1> QED BY <1>3, <1>4, <1>5, <1>6

-----------------------------------------------------------------------------
\* A probe leaves the rows as they were.
LEMMA ProbeRows ==
  ASSUME R!CascadeAssumption, CacheOK(cache), turn.pc \in {"int2", "disp"}, NEW e \in Memory,
         R!On("ring") => NPos[e] + NSecret <= Jmax, NEW d \in R!ProbeOutcome(cache, e)
  PROVE  d.rows = cache.rows
<1>1. CASE d = cache
  BY <1>1
<1>2. CASE d # cache
  <2>1. R!Fits(cache, e) /\ \E n1 \in 0 .. NSecret, n2 \in 0 .. NSecret :
          d = IF R!At("disp") /\ R!On("dcont") THEN R!Continuation(cache, e, n1, n2) ELSE R!Ablation(cache, e, n1, n2)
    BY <1>2 DEF R!ProbeOutcome
  <2>2. PICK n1 \in 0 .. NSecret, n2 \in 0 .. NSecret :
          d = IF R!At("disp") /\ R!On("dcont") THEN R!Continuation(cache, e, n1, n2) ELSE R!Ablation(cache, e, n1, n2)
    BY <2>1
  <2>3. Over(R!Continuation(cache, e, n1, n2), cache, 0) /\ Over(R!Ablation(cache, e, n1, n2), cache, 0)
    BY <2>1, ContinuationNets, AblationNets
  <2>4. Over(d, cache, 0)
    BY <2>2, <2>3
  <2> QED BY <2>4, OverNone
<1> QED BY <1>1, <1>2

LEMMA ProbePick ==
  ASSUME R!CascadeAssumption, CascadeInv, OnePick, Uncombined, NEW e \in Memory, R!Probe(e) PROVE OnePick'
<1>1. /\ turn.pc \in {"int2", "disp"} /\ UNCHANGED cfg /\ e \in turn.todo
      /\ IF R!Probeable(e)
         THEN /\ cache' \in R!ProbeOutcome(cache, e)
              /\ \E b \in {turn.best, e} : turn' = [turn EXCEPT !.todo = turn.todo \ {e}, !.best = b]
         ELSE /\ turn' = [turn EXCEPT !.todo = turn.todo \ {e}]
              /\ UNCHANGED cache
  BY DEF R!Probe, R!At
<1>2. turn.pc \in LadderStages \union {"judged", "spine"} /\ turn.pc \in LadderStages
  BY <1>1 DEF LadderStages
<1>3. /\ R!Recited(cache) = {} /\ CacheOK(cache) /\ turn \in TurnRec /\ cfg \in Configs
      /\ turn.recalled = None /\ turn.decline = FALSE /\ turn.fact = None /\ turn.decided = FALSE
  BY <1>2, StageFinds
<1>4. turn.todo \ {e} \in SUBSET Memory /\ turn.best \in Recall /\ e \in Recall
  BY <1>3, FieldTypes DEF Recall
<1>5. PICK u : u = turn'
  OBVIOUS
<1>6. u \in TurnRec /\ u.pc = turn.pc /\ Kept(turn, u) /\ u.todo = turn.todo \ {e}
  <2>1. CASE R!Probeable(e)
    <3>1. PICK b \in {turn.best, e} : turn' = [turn EXCEPT !.todo = turn.todo \ {e}, !.best = b]
      BY <1>1, <2>1
    <3> DEFINE y == turn.todo \ {e}
               w == [turn EXCEPT !.todo = y, !.best = b]
    <3>2. y \in SUBSET Memory /\ b \in Recall
      BY <1>4
    <3>3. u = w
      BY <1>5, <3>1
    <3> HIDE DEF y
    <3>4. w \in TurnRec /\ w.pc = turn.pc /\ Kept(turn, w)
      BY <1>3, <3>2, Forms
    <3>5. w.todo = y
      BY <1>3 DEF TurnRec, TurnOf
    <3> HIDE DEF w
    <3> QED BY <3>3, <3>4, <3>5 DEF y
  <2>2. CASE ~ R!Probeable(e)
    <3> DEFINE y == turn.todo \ {e}
               w == [turn EXCEPT !.todo = y]
    <3>1. y \in SUBSET Memory
      BY <1>4
    <3>2. u = w
      BY <1>1, <1>5, <2>2
    <3> HIDE DEF y
    <3>3. w \in TurnRec /\ w.pc = turn.pc /\ Kept(turn, w)
      BY <1>3, <3>1, Forms
    <3>4. w.todo = y
      BY <1>3 DEF TurnRec, TurnOf
    <3> HIDE DEF w
    <3> QED BY <3>2, <3>3, <3>4 DEF y
  <2> QED BY <2>1, <2>2
<1>7. R!Recited(cache)' = {}
  <2>1. CASE R!Probeable(e)
    <3>1. PICK d \in R!ProbeOutcome(cache, e) : d = cache'
      BY <1>1, <2>1
    <3>2. R!On("ring") => NPos[e] + NSecret <= Jmax
      <4>1. CASE turn.pc = "int2"
        BY <2>1, <4>1 DEF R!Probeable, R!At
      <4>2. CASE turn.pc = "disp"
        <5>1. e \in Memory \ Live /\ R!On("disp")
          BY <1>1, <4>2 DEF OnePick, LadderStages
        <5>2. "disp" \in cfg
          BY <5>1 DEF R!On
        <5>3. ASSUME R!On("ring") PROVE NPos[e] + NSecret <= Jmax
          <6>1. {"disp", "ring"} \subseteq cfg
            BY <5>2, <5>3 DEF R!On
          <6> QED BY <1>3, <5>1, <6>1 DEF Uncombined
        <5> QED BY <5>3
      <4> QED BY <1>1, <4>1, <4>2
    <3>3. d.rows = cache.rows
      BY <1>1, <1>3, <3>1, <3>2, ProbeRows
    <3> QED BY <1>3, <3>1, <3>3 DEF R!Recited
  <2>2. CASE ~ R!Probeable(e)
    <3>1. cache' = cache
      BY <1>1, <2>2
    <3> QED BY <1>3, <3>1 DEF R!Recited
  <2> QED BY <2>1, <2>2
<1>8. u.recalled = None /\ u.decline = FALSE /\ u.fact = None /\ u.decided = FALSE
  BY <1>3, <1>6 DEF Kept
<1>9. u.pc \in LadderStages /\ u.pc \in cfg'
  BY <1>1, <1>2, <1>6 DEF OnePick, R!On
<1>10. u.pc = "disp" => u.todo \subseteq Memory \ Live
  BY <1>6 DEF OnePick
<1>11. u.pc # "judged"
  BY <1>1, <1>6
<1> QED BY <1>5, <1>7, <1>8, <1>9, <1>10, <1>11 DEF OnePick, R!On

-----------------------------------------------------------------------------
LEMMA SideRows == R!CascadeAssumption => R!Recited(R!Stepped(R!Empty, "side", 2)) = {}
<1> SUFFICES ASSUME R!CascadeAssumption PROVE R!Recited(R!Stepped(R!Empty, "side", 2)) = {}
  OBVIOUS
<1>1. "side" \in R!Note /\ "side" \in RowTag /\ 2 \in Nat
  BY NoteTags DEF R!Note
<1> QED BY <1>1, EmptyIs, SteppedRecites

LEMMA L5Pick ==
  ASSUME R!CascadeAssumption, CascadeInv, OnePick, Uncombined, R!L5 PROVE OnePick'
<1>0. R!At("l5")
  BY DEF R!L5
<1>1. turn.pc \in LadderStages \union {"judged", "spine"} /\ 4 \in 0 .. 7 /\ 4 \in 1 .. 7 /\ 4 \in 2 .. 6 /\ R!On(R!Stages[4])
  BY <1>0, StageAt DEF R!At, OnePick, LadderStages
<1>2. /\ R!Recited(cache) = {} /\ CacheOK(cache) /\ turn \in TurnRec /\ turn.recalled = None
      /\ turn.decline = FALSE /\ turn.fact = None /\ turn.decided = FALSE
  BY <1>1, StageFinds
<1>3. CASE R!Passed(turn, 4)
  BY <1>1, <1>3, PickPassed
<1>4. ASSUME R!Ranked # {}, NEW p \in R!SidePass PROVE p.mem \in Memory /\ R!Recited(p.cache) = {}
  <2>1. p.mem \in Memory /\ p.cache \in {cache, R!Empty, R!Stepped(R!Empty, "side", 2)}
    BY <1>4, SidePassIs
  <2> QED BY <1>2, <2>1, EmptyIs, SideRows
<1>5. ASSUME R!Ranked # {}, NEW p \in R!SidePass, NEW b \in BOOLEAN, L5Drop(p, b)
      PROVE  OnePick'
  <2> DEFINE x == [turn EXCEPT !.decline = b]
             y == [ok |-> b, cache |-> p.cache]
  <2>1. x \in TurnRec /\ x.decline = b /\ x.recalled = turn.recalled /\ x.fact = turn.fact /\ x.decided = turn.decided
    BY <1>2, RecallForms
  <2>2. PICK t, o, e : t = x /\ o = y /\ e = p.mem
    OBVIOUS
  <2>3. o.ok = b /\ o.cache = p.cache
    BY <2>2
  <2>4. R!Concluded(t, 4, o, e)
    BY <1>5, <2>2 DEF L5Drop
  <2> HIDE DEF x, y
  <2>5. /\ t \in TurnRec /\ t.decline = b /\ t.recalled = None /\ t.fact = None /\ t.decided = FALSE
        /\ e \in Memory /\ R!Recited(o.cache) = {}
    BY <1>2, <1>4, <1>5, <2>1, <2>2, <2>3
  <2>6. CASE b = TRUE
    BY <1>1, <2>3, <2>4, <2>5, <2>6, PickTaken
  <2>7. CASE b = FALSE
    BY <1>1, <2>3, <2>4, <2>5, <2>7, PickFailed
  <2> QED BY <2>6, <2>7
<1>6. ASSUME R!Ranked # {}, NEW p \in R!SidePass, NEW q \in R!TextOutcome(p.mem), NEW c, L5Give(p, q, c)
      PROVE  OnePick'
  <2>1. PICK e : e = p.mem
    OBVIOUS
  <2>2. e \in Memory /\ e \in Recall /\ R!Recited(p.cache) = {} /\ q \in R!TextOutcome(e)
    BY <1>4, <1>6, <2>1 DEF Recall
  <2>3. /\ q.ok \in BOOLEAN
        /\ q.ok = TRUE => R!Recited(q.cache) = {e}
        /\ q.ok = FALSE => R!Recited(q.cache) = {}
    BY <1>2, <2>2, TextFinds
  <2> DEFINE x == IF q.ok THEN e ELSE turn.fact
             y == [turn EXCEPT !.fact = x]
             z == [q EXCEPT !.cache = c]
  <2>4. z.ok = q.ok /\ z.cache = c
    BY DEF R!TextOutcome
  <2>5. x \in Recall /\ (q.ok = TRUE => x = e) /\ (q.ok = FALSE => x = None)
    BY <1>2, <2>2, FieldTypes
  <2>6. R!Concluded(y, 4, z, e)
    BY <1>6, <2>1 DEF L5Give, R!Grounded
  <2> HIDE DEF x
  <2>7. y \in TurnRec /\ y.fact = x /\ y.decline = turn.decline /\ y.recalled = turn.recalled /\ y.decided = turn.decided
    BY <1>2, <2>5, RecallForms
  <2>8. PICK t, o : t = y /\ o = z
    OBVIOUS
  <2> HIDE DEF y, z
  <2>9. /\ t \in TurnRec /\ t.fact = x /\ t.decline = FALSE /\ t.recalled = None /\ t.decided = FALSE
        /\ o.ok = q.ok /\ o.cache = c /\ R!Concluded(t, 4, o, e)
    BY <1>2, <2>4, <2>6, <2>7, <2>8
  <2>10. c \in {q.cache, p.cache} /\ (q.ok = TRUE => c = q.cache)
    BY <1>6 DEF L5Give
  <2>11. CASE q.ok = TRUE
    <3>1. R!Recited(o.cache) = {e} /\ t.fact = e /\ o.ok = TRUE
      BY <2>3, <2>5, <2>9, <2>10, <2>11
    <3> QED BY <1>1, <2>2, <2>9, <3>1, PickTaken
  <2>12. CASE q.ok = FALSE
    <3>1. R!Recited(o.cache) = {} /\ t.fact = None /\ o.ok = FALSE
      BY <2>2, <2>3, <2>5, <2>9, <2>10, <2>12
    <3> QED BY <1>1, <2>9, <3>1, PickFailed
  <2> QED BY <2>3, <2>11, <2>12
<1> QED BY <1>3, <1>5, <1>6, L5Is

LEMMA ReadPick ==
  ASSUME R!CascadeAssumption, CascadeInv, OnePick, R!JudgeRead PROVE OnePick'
<1>0. R!At("judge")
  BY DEF R!JudgeRead
<1>1. turn.pc \in LadderStages \union {"judged", "spine"} /\ 5 \in 0 .. 7 /\ R!On("judge")
  BY <1>0 DEF R!At, OnePick, LadderStages
<1>2. /\ turn \in TurnRec /\ turn.recalled = None /\ turn.decline = FALSE /\ turn.fact = None /\ turn.decided = FALSE
  BY <1>1, StageFinds
<1>3. CASE R!Passed(turn, 5)
  BY <1>1, <1>3, PickPassed
<1>4. ASSUME NEW w \in R!WorkingSets, NEW c \in {R!Empty, R!Stepped(R!Empty, "judge", NHead + 1)},
             cache' = c, turn' = [turn EXCEPT !.pc = "judged", !.todo = w], UNCHANGED cfg
      PROVE  OnePick'
  <2>1. R!Recited(c) = {}
    <3>1. "judge" \in R!Note /\ "judge" \in RowTag /\ NHead + 1 \in Nat
      BY NoteTags DEF R!Note, R!CascadeAssumption
    <3> QED BY <1>4, <3>1, EmptyIs, SteppedRecites
  <2>2. R!Recited(cache)' = {}
    BY <1>4, <2>1, SameRecital
  <2> DEFINE u == [turn EXCEPT !.pc = "judged", !.todo = w]
  <2>3. w \in SUBSET Memory /\ "judged" \in TurnPlaces
    BY <1>4, Worked DEF TurnPlaces, Begun
  <2>4. u \in TurnRec /\ u.pc = "judged" /\ Kept(turn, u)
    BY <1>2, <2>3, Forms
  <2>5. turn' = u
    BY <1>4
  <2> HIDE DEF u
  <2>6. u.recalled = None /\ u.decline = FALSE /\ u.fact = None /\ u.decided = FALSE
    BY <1>2, <2>4 DEF Kept
  <2>7. R!On("judge")'
    BY <1>1, <1>4 DEF R!On
  <2>8. "judged" \notin LadderStages /\ "judged" # "disp"
    BY DEF LadderStages
  <2> QED BY <2>2, <2>4, <2>5, <2>6, <2>7, <2>8 DEF OnePick
<1> QED BY <1>3, <1>4 DEF R!JudgeRead

LEMMA PickPick ==
  ASSUME R!CascadeAssumption, CascadeInv, OnePick, Uncombined, R!JudgePick PROVE OnePick'
<1>0. R!At("judged")
  BY DEF R!JudgePick
<1>1. turn.pc \in LadderStages \union {"judged", "spine"} /\ 5 \in 0 .. 7 /\ 5 \in 1 .. 7 /\ 5 \in 2 .. 6 /\ R!On(R!Stages[5])
  BY <1>0, StageAt DEF R!At, OnePick
<1>2. /\ turn \in TurnRec /\ turn.recalled = None /\ turn.decline = FALSE /\ turn.fact = None /\ turn.decided = FALSE
  BY <1>1, StageFinds
<1>3. ASSUME NEW c \in R!Restored, R!Concluded(turn, 5, [ok |-> FALSE, cache |-> c], None)
      PROVE  OnePick'
  <2>1. PICK o : o = [ok |-> FALSE, cache |-> c]
    OBVIOUS
  <2>2. R!Concluded(turn, 5, o, None) /\ o.ok = FALSE /\ o.cache \in {R!HeadRows, R!Empty}
    BY <1>3, <2>1 DEF R!Restored
  <2>3. R!Recited(o.cache) = {}
    BY <2>2, Headed, EmptyIs
  <2> QED BY <1>1, <1>2, <2>2, <2>3, PickFailed
<1>4. ASSUME NEW p \in turn.todo, LET e == R!Delivered(p) IN R!Concluded(turn, 5, [ok |-> TRUE, cache |-> R!AugRows(e)], e)
      PROVE  OnePick'
  <2>1. PICK e : e = R!Delivered(p)
    OBVIOUS
  <2>2. PICK o : o = [ok |-> TRUE, cache |-> R!AugRows(e)]
    OBVIOUS
  <2>3. e \in Memory
    BY <1>4, <2>1, PickIs
  <2>4. R!Concluded(turn, 5, o, e) /\ o.ok = TRUE /\ o.cache = R!AugRows(e)
    BY <1>4, <2>1, <2>2
  <2>5. R!Recited(o.cache) = {e}
    BY <2>3, <2>4, Augmented
  <2> QED BY <1>1, <2>3, <2>4, <2>5, PickEither
<1> QED BY <1>3, <1>4 DEF R!JudgePick

LEMMA BeginPick == ASSUME R!CascadeAssumption, NEW v \in View, R!Begin(v) PROVE OnePick'
<1> DEFINE t == [R!Idle EXCEPT !.view = v]
<1>1. /\ t \in TurnRec /\ t.decline = FALSE /\ t.recalled = None /\ t.fact = None /\ t.decided = FALSE
  <2> DEFINE P == TurnPlaces
             K == SUBSET Memory
             B == BOOLEAN
             S == Seq(R!Chunk)
  <2>1. TurnRec = TurnOf(P, View, K, Recall, B, S)
    BY DEF TurnRec
  <2> HIDE DEF P, K, B, S
  <2> QED BY <2>1, IdleIs DEF TurnOf
<1>2. /\ UNCHANGED cfg /\ cache' = R!HeadRows
      /\ turn' = IF R!On("spine") THEN [t EXCEPT !.pc = "spine"] ELSE R!Onward(t, 0)
  BY DEF R!Begin
<1> HIDE DEF t
<1>3. R!Recited(cache)' = {}
  BY <1>2, Headed, SameRecital
<1>4. CASE R!On("spine")
  <2> DEFINE w == [t EXCEPT !.pc = "spine"]
  <2>1. "spine" \in TurnPlaces /\ turn' = w /\ "spine" \notin LadderStages
    BY <1>2, <1>4 DEF TurnPlaces, Begun, LadderStages
  <2>2. w \in TurnRec /\ w.pc = "spine" /\ Kept(t, w)
    BY <1>1, <2>1, Forms
  <2> HIDE DEF w
  <2>3. w.decline = FALSE /\ w.recalled = None /\ w.fact = None /\ w.decided = FALSE
    BY <1>1, <2>2 DEF Kept
  <2> QED BY <1>3, <2>1, <2>2, <2>3 DEF OnePick
<1>5. CASE ~ R!On("spine")
  <2>1. turn' = R!Onward(t, 0) /\ 0 \in 0 .. 7
    BY <1>2, <1>5
  <2>2. PICK u : u = t
    OBVIOUS
  <2> QED BY <1>1, <1>2, <1>3, <2>1, <2>2, Picks
<1> QED BY <1>4, <1>5

-----------------------------------------------------------------------------
\* A step that comes to no stage.
LEMMA PickMoves ==
  ASSUME OnePick, NEW u, turn' = u, u.pc \notin LadderStages \union {"judged", "spine"},
         u.fact # None => u.recalled = u.fact,
         u.pc \in Begun \union {"decode"} /\ u.decline = FALSE =>
           R!Recited(cache)' = IF u.recalled = None THEN {} ELSE {u.recalled}
  PROVE  OnePick'
BY DEF OnePick, LadderStages

LEMMA SamePick ==
  ASSUME OnePick, NEW u, turn' = u, UNCHANGED cache, u.pc \notin LadderStages \union {"judged", "spine"},
         u.fact = turn.fact, u.recalled = turn.recalled, u.decline = turn.decline,
         u.pc \in Begun \union {"decode"} => turn.pc \in Begun \union {"decode"}
  PROVE  OnePick'
<1>1. u.fact # None => u.recalled = u.fact
  BY DEF OnePick
<1>2. R!Recited(cache)' = R!Recited(cache)
  BY DEF R!Recited
<1>3. u.pc \in Begun \union {"decode"} /\ u.decline = FALSE =>
           R!Recited(cache)' = IF u.recalled = None THEN {} ELSE {u.recalled}
  BY <1>2 DEF OnePick
<1> QED BY <1>1, <1>3, PickMoves

LEMMA Lands ==
  ASSUME NEW t \in TurnRec, NEW x \in TurnPlaces
  PROVE  LET u == [t EXCEPT !.pc = x] IN
         u \in TurnRec /\ u.pc = x /\ u.fact = t.fact /\ u.recalled = t.recalled /\ u.decline = t.decline
<1> DEFINE u == [t EXCEPT !.pc = x]
<1>1. u \in TurnRec /\ u.pc = x /\ Kept(t, u)
  BY Forms
<1> HIDE DEF u
<1>2. u \in TurnRec /\ u.pc = x /\ u.fact = t.fact /\ u.recalled = t.recalled /\ u.decline = t.decline
  BY <1>1 DEF Kept
<1> QED BY <1>2 DEF u

LEMMA AnnouncePick == ASSUME CascadeInv, OnePick, R!Announce PROVE OnePick'
<1>1. turn.pc = "announce" /\ turn \in TurnRec /\ turn.decline \in BOOLEAN /\ turn.pc \in Begun
  BY Plain, FieldTypes DEF R!Announce, R!At, Begun
<1>2. "end" \in TurnPlaces /\ "steer" \in TurnPlaces /\ "end" \notin Begun \union {"decode"}
      /\ "end" \notin LadderStages \union {"judged", "spine"} /\ "steer" \notin LadderStages \union {"judged", "spine"}
  BY DEF TurnPlaces, Begun, LadderStages
<1>3. CASE turn.decline
  <2>1. PICK u : u = [turn EXCEPT !.pc = "end"]
    OBVIOUS
  <2>2. turn' = u
    BY <1>3, <2>1 DEF R!Announce
  <2>3. u.pc = "end" /\ u.fact = turn.fact /\ u.recalled = turn.recalled
    BY <1>1, <1>2, <2>1, Lands
  <2>4. u.fact # None => u.recalled = u.fact
    BY <2>3 DEF OnePick
  <2> QED BY <1>2, <2>2, <2>3, <2>4, PickMoves
<1>4. CASE ~ turn.decline
  <2>1. PICK u : u = [turn EXCEPT !.pc = "steer"]
    OBVIOUS
  <2>2. turn' = u /\ UNCHANGED cache
    BY <1>4, <2>1 DEF R!Announce
  <2>3. u.pc = "steer" /\ u.fact = turn.fact /\ u.recalled = turn.recalled /\ u.decline = turn.decline
    BY <1>1, <1>2, <2>1, Lands
  <2> QED BY <1>1, <1>2, <2>2, <2>3, SamePick
<1> QED BY <1>3, <1>4

LEMMA SteerPick == ASSUME CascadeInv, OnePick, R!Steer PROVE OnePick'
<1>1. turn.pc = "steer" /\ turn \in TurnRec /\ turn.pc \in Begun
  BY Plain DEF R!Steer, R!At, Begun
<1>2. "seed" \in TurnPlaces /\ "seed" \notin LadderStages \union {"judged", "spine"}
  BY DEF TurnPlaces, Begun, LadderStages
<1>3. PICK u : u = [turn EXCEPT !.pc = "seed"]
  OBVIOUS
<1>4. turn' = u /\ UNCHANGED cache
  BY <1>3 DEF R!Steer
<1>5. u.pc = "seed" /\ u.fact = turn.fact /\ u.recalled = turn.recalled /\ u.decline = turn.decline
  BY <1>1, <1>2, <1>3, Lands
<1> QED BY <1>1, <1>2, <1>4, <1>5, SamePick

LEMMA SeedPick == ASSUME R!CascadeAssumption, CascadeInv, OnePick, R!Seed PROVE OnePick'
<1>1. turn.pc = "seed" /\ turn \in TurnRec /\ turn.pc \in Begun /\ CacheOK(cache)
  BY Plain DEF R!Seed, R!At, Begun
<1>2. "end" \in TurnPlaces /\ "decode" \in TurnPlaces /\ "end" \notin Begun \union {"decode"}
      /\ "end" \notin LadderStages \union {"judged", "spine"} /\ "decode" \notin LadderStages \union {"judged", "spine"}
  BY DEF TurnPlaces, Begun, LadderStages
<1>3. CASE turn' = [turn EXCEPT !.pc = "end"] /\ UNCHANGED cache
  <2>1. PICK u : u = [turn EXCEPT !.pc = "end"]
    OBVIOUS
  <2>2. u.pc = "end" /\ u.fact = turn.fact /\ u.recalled = turn.recalled /\ u.decline = turn.decline
    BY <1>1, <1>2, <2>1, Lands
  <2> QED BY <1>2, <1>3, <2>1, <2>2, SamePick
<1>4. ASSUME NEW n \in 0 .. 1, cache' = R!Stepped(R!Stepped(cache, "prompt", 1), "thought", n),
             turn' = [turn EXCEPT !.pc = "decode"]
      PROVE  OnePick'
  <2> DEFINE d == R!Stepped(cache, "prompt", 1)
             c == R!Stepped(d, "thought", n)
  <2>1. "prompt" \in R!Note /\ "thought" \in R!Note /\ "prompt" \in RowTag /\ "thought" \in RowTag /\ 1 \in Nat /\ n \in Nat
    BY NoteTags DEF R!Note
  <2>2. CacheOK(d) /\ R!Recited(d) = R!Recited(cache)
    BY <1>1, <2>1, SteppedRecites
  <2>3. R!Recited(c) = R!Recited(d)
    <3> HIDE DEF d
    <3> QED BY <2>1, <2>2, SteppedRecites
  <2>4. PICK x : x = c
    OBVIOUS
  <2>5. x = cache'
    BY <1>4, <2>4
  <2>6. R!Recited(cache)' = R!Recited(x)
    BY <2>5, SameRecital
  <2>7. R!Recited(cache)' = R!Recited(cache)
    BY <2>2, <2>3, <2>4, <2>6
  <2>8. PICK u : u = [turn EXCEPT !.pc = "decode"]
    OBVIOUS
  <2>9. u.pc = "decode" /\ u.fact = turn.fact /\ u.recalled = turn.recalled /\ u.decline = turn.decline
    BY <1>1, <1>2, <2>8, Lands
  <2>10. u.fact # None => u.recalled = u.fact
    BY <2>9 DEF OnePick
  <2>11. u.decline = FALSE => R!Recited(cache)' = IF u.recalled = None THEN {} ELSE {u.recalled}
    BY <1>1, <2>7, <2>9 DEF OnePick
  <2> QED BY <1>2, <1>4, <2>8, <2>9, <2>10, <2>11, PickMoves
<1> QED BY <1>3, <1>4 DEF R!Seed

LEMMA ShownPick ==
  ASSUME OnePick, NEW t \in TurnRec, NEW c \in R!Chunk, R!Shown(t, c), UNCHANGED cache,
         t.pc \in {"decode", "flush", "test", "done"}, t.pc = "decode" => turn.pc = "decode",
         t.fact = turn.fact, t.recalled = turn.recalled, t.decline = turn.decline
  PROVE  OnePick'
<1>1. t.pc \notin LadderStages \union {"judged", "spine"} /\ t.pc \notin Begun
  BY DEF LadderStages, Begun
<1>2. CASE R!Held
  <2> DEFINE y == Append(t.held, c)
             w == [t EXCEPT !.held = y]
  <2>1. turn' = w
    BY <1>2 DEF R!Shown
  <2>2. y \in Seq(R!Chunk)
    BY FieldTypes, AppendProperties
  <2> HIDE DEF y
  <2>3. w \in TurnRec /\ w.pc = t.pc /\ Kept(t, w)
    BY <2>2, TextForms
  <2>4. PICK u : u = w
    OBVIOUS
  <2> HIDE DEF w
  <2>5. /\ turn' = u /\ u.pc = t.pc /\ u.fact = turn.fact /\ u.recalled = turn.recalled
        /\ u.decline = turn.decline
    BY <2>1, <2>3, <2>4 DEF Kept
  <2> QED BY <1>1, <2>5, SamePick
<1>3. CASE ~ R!Held
  <2>1. turn' = t
    BY <1>3 DEF R!Shown
  <2> QED BY <1>1, <2>1, SamePick
<1> QED BY <1>2, <1>3

LEMMA DecodePick == ASSUME CascadeInv, OnePick, R!Decode PROVE OnePick'
<1>0. R!At("decode") /\ UNCHANGED cache
  BY DEF R!Decode
<1>1. turn.pc = "decode" /\ turn \in TurnRec
  BY <1>0, Plain DEF R!At
<1>2. CASE turn' = [turn EXCEPT !.stepped = TRUE]
  <2>1. PICK u : u = [turn EXCEPT !.stepped = TRUE]
    OBVIOUS
  <2>2. u.pc = turn.pc /\ Kept(turn, u)
    BY <1>1, <2>1, TextForms
  <2>3. u.fact = turn.fact /\ u.recalled = turn.recalled /\ u.decline = turn.decline
    BY <2>2 DEF Kept
  <2>4. u.pc \notin LadderStages \union {"judged", "spine"}
    BY <1>1, <2>2 DEF LadderStages
  <2> QED BY <1>0, <1>1, <1>2, <2>1, <2>2, <2>3, <2>4, SamePick
<1>3. ASSUME NEW c \in R!Chunk, NEW ok \in BOOLEAN,
             R!Shown([turn EXCEPT !.text = Append(@, c), !.stepped = @ \/ ok,
                                !.pc = IF ok THEN "decode" ELSE "flush"], c)
      PROVE  OnePick'
  <2> DEFINE x == Append(turn.text, c)
             y == turn.stepped \/ ok
             z == IF ok THEN "decode" ELSE "flush"
             w == Drafted(turn, x, y, z)
  <2>1. x \in Seq(R!Chunk)
    BY <1>1, FieldTypes, AppendProperties
  <2>2. y \in BOOLEAN /\ z \in TurnPlaces /\ z \in {"decode", "flush"}
    BY DEF TurnPlaces
  <2>3. R!Shown(w, c)
    BY <1>3 DEF Drafted
  <2> HIDE DEF x, y, z
  <2>4. w \in TurnRec /\ w.pc = z /\ Kept(turn, w)
    BY <1>1, <2>1, <2>2, DraftedIs
  <2>5. PICK u : u = w
    OBVIOUS
  <2> HIDE DEF w
  <2>6. /\ u \in TurnRec /\ u.pc \in {"decode", "flush"} /\ R!Shown(u, c) /\ u.fact = turn.fact /\ u.recalled = turn.recalled
        /\ u.decline = turn.decline
    BY <2>2, <2>3, <2>4, <2>5 DEF Kept
  <2> QED BY <1>0, <1>1, <2>6, ShownPick
<1> QED BY <1>2, <1>3 DEF R!Decode

LEMMA StopPick == ASSUME CascadeInv, OnePick, R!Stop \/ R!ClientGone PROVE OnePick'
<1>0. R!At("decode") /\ UNCHANGED cache
  BY DEF R!Stop, R!ClientGone
<1>1. turn.pc = "decode" /\ turn \in TurnRec /\ "flush" \in TurnPlaces /\ "end" \in TurnPlaces
  BY <1>0, Plain DEF R!At, TurnPlaces
<1>2. PICK u, w : u = [turn EXCEPT !.pc = "flush"] /\ w = [turn EXCEPT !.pc = "end"]
  OBVIOUS
<1>3. /\ u \in TurnRec /\ u.pc = "flush" /\ u.fact = turn.fact /\ u.recalled = turn.recalled /\ u.decline = turn.decline
  BY <1>1, <1>2, Lands
<1>4. /\ w.pc = "end" /\ w.fact = turn.fact /\ w.recalled = turn.recalled /\ w.decline = turn.decline
  BY <1>1, <1>2, Lands
<1>5. turn' = u \/ turn' = w \/ \E c \in R!Chunk : R!Shown(u, c)
  BY <1>2 DEF R!Stop, R!ClientGone
<1>6. /\ u.pc \notin LadderStages \union {"judged", "spine"} /\ u.pc \notin Begun \union {"decode"}
      /\ w.pc \notin LadderStages \union {"judged", "spine"} /\ w.pc \notin Begun \union {"decode"}
  BY <1>3, <1>4 DEF LadderStages, Begun
<1>7. CASE turn' = u
  BY <1>0, <1>3, <1>6, <1>7, SamePick
<1>8. CASE turn' = w
  BY <1>0, <1>4, <1>6, <1>8, SamePick
<1>9. ASSUME NEW c \in R!Chunk, R!Shown(u, c) PROVE OnePick'
  BY <1>0, <1>3, <1>9, ShownPick
<1> QED BY <1>5, <1>7, <1>8, <1>9

LEMMA FlushPick == ASSUME CascadeInv, OnePick, R!Flush PROVE OnePick'
<1>0. R!At("flush") /\ UNCHANGED cache
  BY DEF R!Flush
<1>1. turn.pc = "flush" /\ turn \in TurnRec
  BY <1>0, Plain DEF R!At
<1>2. PICK z : z = IF R!Held THEN "test" ELSE "done"
  OBVIOUS
<1>3. z \in TurnPlaces /\ z \in {"test", "done"}
  BY <1>2 DEF TurnPlaces
<1>4. PICK u : u = [turn EXCEPT !.pc = z]
  OBVIOUS
<1>5. u \in TurnRec /\ u.pc = z /\ u.fact = turn.fact /\ u.recalled = turn.recalled /\ u.decline = turn.decline
  BY <1>1, <1>3, <1>4, Lands
<1>6. turn' = u \/ \E c \in R!Chunk : R!Shown([u EXCEPT !.text = Append(@, c)], c)
  BY <1>2, <1>4 DEF R!Flush
<1>7. u.pc \notin LadderStages \union {"judged", "spine"} /\ u.pc \notin Begun \union {"decode"}
  BY <1>3, <1>5 DEF LadderStages, Begun
<1>8. CASE turn' = u
  BY <1>0, <1>5, <1>7, <1>8, SamePick
<1>9. ASSUME NEW c \in R!Chunk, R!Shown([u EXCEPT !.text = Append(@, c)], c) PROVE OnePick'
  <2> DEFINE x == Append(u.text, c)
             v == [u EXCEPT !.text = x]
  <2>1. x \in Seq(R!Chunk)
    BY <1>5, FieldTypes, AppendProperties
  <2>2. R!Shown(v, c)
    BY <1>9
  <2> HIDE DEF x
  <2>3. v \in TurnRec /\ v.pc = u.pc /\ Kept(u, v)
    <3>1. u \in TurnRec
      BY <1>5
    <3> QED BY <2>1, <3>1, TextForms
  <2>4. PICK w : w = v
    OBVIOUS
  <2> HIDE DEF v
  <2>5. w \in TurnRec /\ w.pc = u.pc /\ Kept(u, w) /\ R!Shown(w, c)
    BY <2>2, <2>3, <2>4
  <2>6. /\ w.pc \in {"test", "done"} /\ w.fact = turn.fact /\ w.recalled = turn.recalled
        /\ w.decline = turn.decline
    BY <1>3, <1>5, <2>5 DEF Kept
  <2> QED BY <1>0, <2>5, <2>6, ShownPick
<1> QED BY <1>6, <1>8, <1>9

LEMMA TestPick == ASSUME CascadeInv, OnePick, R!Test \/ R!Done PROVE OnePick'
<1>1. turn.pc \in {"test", "done"} /\ turn \in TurnRec /\ UNCHANGED cache /\ "done" \in TurnPlaces /\ "end" \in TurnPlaces
  BY Plain DEF R!Test, R!Done, R!At, TurnPlaces
<1>2. PICK u, w, x : /\ u = [turn EXCEPT !.pc = "done"] /\ w = [turn EXCEPT !.pc = "end"]
                     /\ x = Tested(turn, "done", TRUE, <<>>)
  OBVIOUS
<1>3. /\ u.pc = "done" /\ u.fact = turn.fact /\ u.recalled = turn.recalled /\ u.decline = turn.decline
      /\ w.pc = "end" /\ w.fact = turn.fact /\ w.recalled = turn.recalled /\ w.decline = turn.decline
  BY <1>1, <1>2, Lands
<1>4. x.pc = "done" /\ x.fact = turn.fact /\ x.recalled = turn.recalled /\ x.decline = turn.decline
  BY <1>1, <1>2 DEF Tested, TurnRec, TurnOf
<1>5. turn' \in {u, w, x}
  <2>1. CASE R!Done
    BY <1>2, <2>1 DEF R!Done
  <2>2. CASE R!Test
    <3>1. \/ turn' = [turn EXCEPT !.pc = "done", !.vetoed = TRUE, !.text = <<>>]
          \/ turn' = [turn EXCEPT !.pc = "done"]
      BY <2>2 DEF R!Test
    <3> QED BY <1>2, <3>1 DEF Tested
  <2> QED BY <2>1, <2>2
<1>6. "done" \notin LadderStages \union {"judged", "spine"} /\ "done" \notin Begun \union {"decode"}
      /\ "end" \notin LadderStages \union {"judged", "spine"} /\ "end" \notin Begun \union {"decode"}
  BY DEF LadderStages, Begun
<1>7. PICK t : t = turn'
  OBVIOUS
<1>8. /\ t.pc \in {"done", "end"} /\ t.fact = turn.fact /\ t.recalled = turn.recalled /\ t.decline = turn.decline
  BY <1>3, <1>4, <1>5, <1>7
<1> QED BY <1>1, <1>6, <1>7, <1>8, SamePick

LEMMA RestPick ==
  ASSUME R!CascadeAssumption, OnePick, R!End \/ R!Delegate \/ (\E e \in Live : R!Supersede(e)) \/ UNCHANGED R!vars
  PROVE  OnePick'
<1>1. CASE turn' = R!Idle
  <2>1. PICK u : u = R!Idle
    OBVIOUS
  <2>2. u.pc = "idle" /\ u.fact = None
    BY <2>1, IdleIs
  <2>3. "idle" \notin LadderStages \union {"judged", "spine"} /\ "idle" \notin Begun \union {"decode"}
    BY DEF LadderStages, Begun
  <2> QED BY <1>1, <2>1, <2>2, <2>3, PickMoves
<1>2. CASE UNCHANGED <<cfg, cache, turn>>
  <2>1. R!Recited(cache)' = R!Recited(cache)
    BY <1>2 DEF R!Recited
  <2> QED BY <1>2, <2>1 DEF OnePick, R!On
<1>3. turn' = R!Idle \/ UNCHANGED <<cfg, cache, turn>>
  BY DEF R!End, R!Delegate, R!Supersede, R!vars
<1> QED BY <1>1, <1>2, <1>3

LEMMA OnePickInit == R!CascadeAssumption /\ R!Init => OnePick
<1> SUFFICES ASSUME R!CascadeAssumption, R!Init PROVE OnePick
  OBVIOUS
<1>1. turn.pc = "idle" /\ turn.fact = None
  BY IdleIs DEF R!Init
<1> QED BY <1>1 DEF OnePick, LadderStages, Begun

LEMMA OnePickStep ==
  ASSUME R!CascadeAssumption, Uncombined, CascadeInv, OnePick, R!Next \/ UNCHANGED R!vars
  PROVE  OnePick'
<1>1. ASSUME NEW v \in View, R!Begin(v) PROVE OnePick'
  BY <1>1, BeginPick
<1>2. ASSUME NEW w \in Memory \union {None}, R!SpineTurn(w) PROVE OnePick'
  BY <1>2, SpinePick DEF Recall
<1>3. ASSUME NEW e \in Memory, R!Probe(e) PROVE OnePick'
  BY <1>3, ProbePick
<1>4. CASE R!Stage
  BY <1>2, <1>3, <1>4, Int2Pick, LearnedPick, JaccardPick, L5Pick, ReadPick, PickPick,
     DisposerPick, QKPick DEF R!Stage
<1>5. CASE R!Answer
  BY <1>5, AnnouncePick, SteerPick, SeedPick, DecodePick, StopPick, FlushPick,
     TestPick, RestPick DEF R!Answer
<1> QED BY <1>1, <1>4, <1>5, RestPick DEF R!Next

-----------------------------------------------------------------------------
\* What the properties say.
LEMMA SpineIsLadder == R!CascadeAssumption /\ CascadeInv => R!SpineAgrees
<1> SUFFICES ASSUME R!CascadeAssumption, CascadeInv, R!At("spine"), retired = {}, ~ R!On("policy"), ~ R!On("margin")
             PROVE  R!Spine(None, turn.view) = R!Ladder(turn.view)
  BY DEF R!SpineAgrees
<1>1. PICK v : v = turn.view
  OBVIOUS
<1>2. R!Ranked = Memory
  BY DEF R!Ranked
<1>3. R!Pass.do = "pass" /\ R!Pass # R!Deliver(R!Match(Memory, v))
  BY DEF R!Pass, R!Deliver
<1>4. R!HeadSelector(None) = R!Pass
  BY DEF R!HeadSelector
<1>5. CASE R!SkipsStatement(v) \/ Memory = {}
  <2>1. R!L5Recall(R!Pass, v) = R!Pass /\ R!Ladder(v) = R!Pass
    BY <1>2, <1>5 DEF R!L5Recall, R!Ladder
  <2> QED BY <1>1, <1>3, <1>4, <2>1 DEF R!Spine, R!AttrGate
<1>6. CASE ~ (R!SkipsStatement(v) \/ Memory = {}) /\ v.cos[R!Match(Memory, v)] < R!Tau
  <2>1. R!L5Recall(R!Pass, v) = R!Pass /\ R!Ladder(v) = R!Pass
    BY <1>2, <1>6 DEF R!L5Recall, R!Ladder
  <2> QED BY <1>1, <1>3, <1>4, <2>1 DEF R!Spine, R!AttrGate
<1>7. CASE ~ (R!SkipsStatement(v) \/ Memory = {}) /\ ~ (v.cos[R!Match(Memory, v)] < R!Tau)
  <2>1. PICK e : e = R!Match(Memory, v)
    OBVIOUS
  <2>2. R!L5Recall(R!Pass, v) = R!Deliver(e)
    BY <1>7, <2>1 DEF R!L5Recall
  <2>3. R!Ladder(v) = R!LadderGate(e, v)
    BY <1>2, <1>7, <2>1 DEF R!Ladder
  <2>4. ~ R!Secret(e)
    BY DEF R!Secret
  <2>5. R!Declines(e, v) <=> R!On("attr") /\ e \in v.absent /\ v.entity
    BY <2>4 DEF R!Declines
  <2>6. R!LadderGate(e, v) = IF R!Declines(e, v) THEN R!Refuse(e) ELSE R!Deliver(e)
    BY DEF R!LadderGate
  <2>7. R!Deliver(e).do = "deliver" /\ R!Deliver(e).mem = e
    BY DEF R!Deliver
  <2>8. R!AttrGate(R!Deliver(e), v) = IF R!On("attr") /\ e \in v.absent /\ v.entity THEN R!Refuse(e) ELSE R!Deliver(e)
    BY <2>7 DEF R!AttrGate
  <2> QED BY <1>1, <1>4, <2>2, <2>3, <2>5, <2>6, <2>8 DEF R!Spine
<1> QED BY <1>5, <1>6, <1>7

LEMMA OnePickTypes == R!CascadeAssumption /\ CascadeInv /\ OnePick => R!TypeOK /\ R!OneMemory
<1> SUFFICES ASSUME R!CascadeAssumption, CascadeInv, OnePick PROVE R!TypeOK /\ R!OneMemory
  OBVIOUS
<1>1. /\ turn \in TurnRec /\ CacheOK(cache) /\ cfg \in Configs /\ retired \subseteq Live /\ steer \in BOOLEAN
  BY DEF CascadeInv, CascadeTypes
<1>2. cache.commit \in 0 .. Len(cache.rows)
  BY <1>1 DEF CacheOK
<1>3. /\ turn.view \in View /\ turn.todo \subseteq Memory
      /\ {turn.best, turn.recalled, turn.fact} \subseteq Memory \union {None}
  BY <1>1, FieldTypes DEF Recall
<1>4. turn.fact # None => turn.recalled = turn.fact
  BY DEF OnePick
<1>5. R!OneMemory
  <2>1. turn.pc \in {"seed", "decode"} => turn.decline = FALSE
    BY Plain DEF LadderStages
  <2> QED BY <2>1 DEF OnePick, R!OneMemory, R!At, Begun
<1> QED BY <1>1, <1>2, <1>3, <1>4, <1>5 DEF R!TypeOK

\* Where each action finds the turn.
LEMMA Places ==
  /\ \A e : R!Supersede(e) => R!At("idle")
  /\ \A v : R!Begin(v) => R!At("idle")
  /\ R!Delegate => R!At("idle")
  /\ \A w : R!SpineTurn(w) => R!At("spine")
  /\ R!LearnedHead => R!At("wc")
  /\ R!Jaccard => R!At("jaccard")
  /\ R!L5 => R!At("l5")
  /\ R!JudgeRead => R!At("judge")
  /\ R!Disposer \/ R!Continued => R!At("disp")
  /\ R!QK => R!At("qk")
  /\ \A e : R!Probe(e) => R!At("int2") \/ R!At("disp")
  /\ R!Int2 => R!At("int2")
  /\ R!JudgePick => R!At("judged")
  /\ R!Answer => \E p \in TurnPlaces \ LadderStages : p # "judged" /\ R!At(p)
<1>1. \A w : R!SpineTurn(w) => R!At("spine")
  BY DEF R!SpineTurn
<1>2. R!L5 => R!At("l5")
  BY DEF R!L5
<1>3. R!Answer => \E p \in {"announce", "steer", "seed", "decode", "flush", "test", "done", "end"} : R!At(p)
  BY DEF R!Answer, R!Announce, R!Steer, R!Seed, R!Decode, R!ClientGone, R!Stop, R!Flush, R!Test, R!Done, R!End
<1>4. {"announce", "steer", "seed", "decode", "flush", "test", "done", "end"} \subseteq TurnPlaces \ (LadderStages \union {"judged"})
  BY DEF TurnPlaces, Begun, LadderStages
<1> QED BY <1>1, <1>2, <1>3, <1>4 DEF R!Supersede, R!Begin, R!Delegate, R!LearnedHead, R!Jaccard, R!JudgeRead, R!Disposer, R!Continued,
  R!Weigh, R!QK, R!Probe, R!Int2, R!JudgePick

\* A probe that may run and fits the journal nets to nothing.
LEMMA ProbeNet ==
  ASSUME R!CascadeAssumption, CacheOK(cache), turn.pc \in {"int2", "disp"}, NEW e \in Memory,
         R!Probe(e), R!Probeable(e) => (R!On("ring") => NPos[e] + NSecret <= Jmax)
  PROVE  cache'.rows = cache.rows
<1>1. CASE R!Probeable(e)
  <2>1. PICK d \in R!ProbeOutcome(cache, e) : d = cache'
    BY <1>1 DEF R!Probe
  <2>2. R!On("ring") => NPos[e] + NSecret <= Jmax
    BY <1>1
  <2> QED BY <2>1, <2>2, ProbeRows
<1>2. CASE ~ R!Probeable(e)
  BY <1>2 DEF R!Probe
<1> QED BY <1>1, <1>2

LEMMA Int2Nets ==
  ASSUME R!CascadeAssumption, CascadeInv, R!Next, R!At("int2"), turn'.recalled = None
  PROVE  cache'.rows = cache.rows
<1>1. /\ turn.pc = "int2" /\ turn \in TurnRec /\ CacheOK(cache) /\ turn.best \in Recall
  BY Plain, FieldTypes DEF R!At
<1>2. (\E e \in Memory : R!Probe(e)) \/ R!Int2
  <2>1. \A p : R!At(p) => p = "int2"
    BY <1>1 DEF R!At
  <2>2. ~ R!Answer
    BY <2>1, Places DEF LadderStages
  <2> QED BY <2>1, <2>2, Places DEF R!Next, R!Stage
<1>3. ASSUME NEW e \in Memory, R!Probe(e) PROVE cache'.rows = cache.rows
  <2>1. R!Probeable(e) => NPos[e] + NSecret <= Jmax
    BY DEF R!Probeable
  <2> QED BY <1>1, <1>3, <2>1, ProbeNet
<1>4. CASE R!Int2
  <2>1. PICK t : t = [turn EXCEPT !.decided = TRUE]
    OBVIOUS
  <2>2. t \in TurnRec
    BY <1>1, <2>1, RecallForms
  <2>3. R!Weigh("int2", 1, t) /\ 1 \in 0 .. 7
    BY <1>4, <2>1 DEF R!Int2
  <2>4. CASE R!Passed(t, 1)
    BY <2>4 DEF R!Passed
  <2>5. ASSUME turn.best # None, NEW o \in R!ReplayOutcome(turn.best), R!Concluded(t, 1, o, turn.best)
        PROVE  cache'.rows = cache.rows
    <3>1. PICK e : e = turn.best
      OBVIOUS
    <3>2. e \in Memory /\ e \in Recall /\ e # None
      BY <1>1, <2>5, <3>1 DEF Recall
    <3>3. o.ok \in BOOLEAN /\ (o.ok = FALSE => o.cache = cache)
      BY <1>1, <2>5, <3>1, <3>2, ReplayIs
    <3>4. CASE o.ok = TRUE
      <4>1. PICK u : u = [t EXCEPT !.recalled = e]
        OBVIOUS
      <4>2. u \in TurnRec /\ u.recalled = e
        BY <2>2, <3>2, <4>1, RecallForms
      <4>3. turn' = R!Onward(u, 1)
        BY <2>5, <3>1, <3>4, <4>1 DEF R!Concluded
      <4>4. R!Onward(u, 1).recalled = e
        BY <2>3, <4>2, OnwardIs DEF Kept
      <4> QED BY <3>2, <4>3, <4>4
    <3>5. CASE o.ok = FALSE
      BY <2>5, <3>3, <3>5 DEF R!Concluded
    <3> QED BY <3>3, <3>4, <3>5
  <2> QED BY <2>3, <2>4, <2>5 DEF R!Weigh
<1> QED BY <1>2, <1>3, <1>4

\* Once the disposer has weighed its probes the turn is past it.
LEMMA PastDisposer ==
  ASSUME R!CascadeAssumption, NEW t \in TurnRec
  PROVE  R!Onward(t, 6).pc # "disp"
<1>1. CASE R!Onward(t, 6).pc = "announce"
  BY <1>1
<1>2. CASE R!Onward(t, 6).pc # "announce"
  <2>1. PICK j \in 7 .. 7 : R!Onward(t, 6).pc = R!Stages[j]
    BY <1>2, OnwardIs
  <2>2. R!Stages[7] = "qk" /\ j = 7
    BY DEF R!Stages
  <2> QED BY <2>1, <2>2
<1> QED BY <1>1, <1>2

LEMMA DisposerNets ==
  ASSUME R!CascadeAssumption, CascadeInv, R!Next, R!At("disp"), turn'.pc = "disp", R!Fitting
  PROVE  cache'.rows = cache.rows
<1>1. /\ turn.pc = "disp" /\ turn \in TurnRec /\ CacheOK(cache) /\ turn.best \in Recall
  BY Plain, FieldTypes DEF R!At
<1>2. (\E e \in Memory : R!Probe(e)) \/ R!Disposer \/ R!Continued
  <2>1. \A p : R!At(p) => p = "disp"
    BY <1>1 DEF R!At
  <2>2. ~ R!Answer
    BY <2>1, Places DEF LadderStages
  <2> QED BY <2>1, <2>2, Places DEF R!Next, R!Stage
<1>3. ASSUME NEW e \in Memory, R!Probe(e) PROVE cache'.rows = cache.rows
  <2>1. e \in turn.todo
    BY <1>3 DEF R!Probe
  <2>2. R!On("ring") => NPos[e] + NSecret <= Jmax
    BY <2>1 DEF R!Fitting
  <2> QED BY <1>1, <1>3, <2>2, ProbeNet
<1>4. ASSUME R!Disposer \/ R!Continued PROVE FALSE
  <2>1. R!Weigh("disp", 6, turn)
    BY <1>4 DEF R!Disposer, R!Continued
  <2>2. CASE R!Passed(turn, 6)
    BY <1>1, <2>2, PastDisposer DEF R!Passed
  <2>3. ASSUME turn.best # None, NEW o \in R!ReplayOutcome(turn.best), R!Concluded(turn, 6, o, turn.best)
        PROVE  FALSE
    <3>1. PICK u : u = IF o.ok THEN [turn EXCEPT !.recalled = turn.best] ELSE turn
      OBVIOUS
    <3>2. u \in TurnRec
      BY <1>1, <3>1, RecallForms
    <3>3. turn' = R!Onward(u, 6)
      BY <2>3, <3>1 DEF R!Concluded
    <3> QED BY <3>2, <3>3, PastDisposer
  <2> QED BY <2>1, <2>2, <2>3 DEF R!Weigh
<1> QED BY <1>2, <1>3, <1>4

LEMMA ProbesNet == ASSUME R!CascadeAssumption, CascadeInv, R!Next PROVE R!ProbeNets
BY Int2Nets, DisposerNets DEF R!ProbeNets

LEMMA JudgesNet == ASSUME R!CascadeAssumption, CascadeInv, R!Next PROVE R!JudgeNets
<1> SUFFICES ASSUME R!At("judged")
             PROVE  \/ cache'.rows \in {R!HeadRows.rows, <<>>} /\ turn'.recalled = turn.recalled
                    \/ \E e \in Memory : cache'.rows = R!AugRows(e).rows /\ turn'.recalled = e
  BY DEF R!JudgeNets
<1>1. turn \in TurnRec /\ 5 \in 0 .. 7
  BY DEF CascadeInv, CascadeTypes
<1>2. R!JudgePick
  <2>1. \A p : R!At(p) => p = "judged"
    BY DEF R!At
  <2>2. ~ R!Answer
    BY <2>1, Places
  <2> QED BY <2>1, <2>2, Places DEF R!Next, R!Stage
<1>3. ASSUME NEW c \in R!Restored, R!Concluded(turn, 5, [ok |-> FALSE, cache |-> c], None)
      PROVE  cache'.rows \in {R!HeadRows.rows, <<>>} /\ turn'.recalled = turn.recalled
  <2>1. cache' = c /\ turn' = R!Onward(turn, 5)
    BY <1>3 DEF R!Concluded
  <2>2. cache' \in {R!HeadRows, R!Empty}
    BY <2>1 DEF R!Restored
  <2>3. turn'.recalled = turn.recalled
    BY <1>1, <2>1, OnwardIs DEF Kept
  <2> QED BY <2>2, <2>3 DEF R!Empty
<1>4. ASSUME NEW p \in turn.todo, LET e == R!Delivered(p) IN R!Concluded(turn, 5, [ok |-> TRUE, cache |-> R!AugRows(e)], e)
      PROVE  \E e \in Memory : cache'.rows = R!AugRows(e).rows /\ turn'.recalled = e
  <2>1. PICK e : e = R!Delivered(p)
    OBVIOUS
  <2>2. e \in Memory /\ e \in Recall
    BY <1>4, <2>1, PickIs DEF Recall
  <2>3. PICK u : u = [turn EXCEPT !.recalled = e]
    OBVIOUS
  <2>4. u \in TurnRec /\ u.recalled = e
    BY <1>1, <2>2, <2>3, RecallForms
  <2>5. cache' = R!AugRows(e) /\ turn' = R!Onward(u, 5)
    BY <1>4, <2>1, <2>3 DEF R!Concluded
  <2>6. turn'.recalled = e
    BY <1>1, <2>4, <2>5, OnwardIs DEF Kept
  <2> QED BY <2>2, <2>5, <2>6
<1> QED BY <1>2, <1>3, <1>4 DEF R!JudgePick

-----------------------------------------------------------------------------
(***************************************************************************)
(* The text stream.                                                        *)
(***************************************************************************)
\* A set of numbers has a least, a bounded one a greatest.
LEMMA Lowest ==
  ASSUME NEW Z, Z \subseteq Nat, Z # {}
  PROVE  \E x \in Z : \A y \in Z : x <= y
<1>1. PICK x \in Z : \A y \in Z : ~ (<<y, x>> \in OpToRel(<, Nat))
  BY WFMin, NatLessThanWellFounded
<1>2. ASSUME NEW y \in Z, y < x PROVE FALSE
  <2>1. <<y, x>> \in Nat \X Nat /\ <<y, x>>[1] = y /\ <<y, x>>[2] = x
    OBVIOUS
  <2>2. <<y, x>> \in OpToRel(<, Nat)
    BY <1>2, <2>1 DEF OpToRel
  <2> QED BY <1>1, <2>2
<1>3. x \in Nat /\ \A y \in Z : y \in Nat
  OBVIOUS
<1> QED BY <1>2, <1>3

\* Max of the community module is the greatest of a bounded set.
LEMMA Greatest ==
  ASSUME NEW n \in Nat, NEW Z, Z \subseteq 0 .. n, Z # {}
  PROVE  T!Max(Z) \in Z /\ \A y \in Z : y <= T!Max(Z)
<1> DEFINE Y == {n - z : z \in Z}
<1>1. Y \subseteq Nat /\ Y # {}
  <2>1. ASSUME NEW z \in Z PROVE n - z \in Nat
    <3>1. z \in 0 .. n
      OBVIOUS
    <3> QED BY <3>1
  <2>2. PICK z \in Z : TRUE
    OBVIOUS
  <2> QED BY <2>1, <2>2
<1>2. PICK x \in Y : \A y \in Y : x <= y
  <2> HIDE DEF Y
  <2> QED BY <1>1, Lowest
<1>3. PICK z \in Z : x = n - z
  OBVIOUS
<1>4. \A y \in Z : z >= y
  <2> SUFFICES ASSUME NEW y \in Z PROVE z >= y
    OBVIOUS
  <2>1. n - z <= n - y
    BY <1>2, <1>3
  <2>2. y \in Nat /\ z \in Nat
    OBVIOUS
  <2> QED BY <2>1, <2>2
<1>5. T!Max(Z) \in Z /\ \A y \in Z : T!Max(Z) >= y
  BY <1>4 DEF T!Max
<1>6. \A y \in Z : y \in Int
  OBVIOUS
<1> QED BY <1>5, <1>6

-----------------------------------------------------------------------------
\* The words of a text: any string, with those that the source writes out.
Word == STRING \cup {"n", "u", "nl", "user", "model", "system", "assistant", "<bos>", "<|turn>", "<turn|>",
                     "<|im_start|>", "<|im_end|>", "<start_of_turn>", "<end_of_turn>"}

LEMMA WordsAre == Seq(STRING) \subseteq Seq(Word) /\ Seq(Seq(STRING)) \subseteq Seq(Seq(Word))
<1>1. PICK S : S = STRING
  OBVIOUS
<1>2. PICK W : W = Word
  OBVIOUS
<1>3. S \subseteq W
  BY <1>1, <1>2 DEF Word
<1>4. Seq(S) \subseteq Seq(W)
  BY <1>3, SeqMonotonic
<1>5. Seq(Seq(S)) \subseteq Seq(Seq(W))
  BY <1>4, SeqMonotonic
<1> QED BY <1>1, <1>2, <1>4, <1>5

\* Texts one after the other.
Flattened(q, n, f) == f = [i \in 1 .. n |-> IF i = 1 THEN q[i] ELSE f[i - 1] \o q[i]]

\* There is such a function, and only one.
LEMMA FlattenedExists ==
  ASSUME NEW q, NEW n \in Nat
  PROVE  \E f : Flattened(q, n, f)
<1> DEFINE Bad == {k \in Nat : ~ \E f : Flattened(q, k, f)}
<1>1. SUFFICES ASSUME Bad # {} PROVE FALSE
  OBVIOUS
<1>2. PICK k \in Bad : \A y \in Bad : k <= y
  <2> HIDE DEF Bad
  <2>1. Bad \subseteq Nat
    BY DEF Bad
  <2> QED BY <1>1, <2>1, Lowest
<1>3. k # 0
  <2> DEFINE e == [i \in 1 .. 0 |-> q]
  <2>1. e = [i \in 1 .. 0 |-> IF i = 1 THEN q[i] ELSE e[i - 1] \o q[i]]
    OBVIOUS
  <2>2. Flattened(q, 0, e)
    BY <2>1 DEF Flattened
  <2> QED BY <2>2
<1>4. k \in Nat /\ k - 1 \in Nat /\ k - 1 \notin Bad
  BY <1>2, <1>3
<1>5. PICK f : Flattened(q, k - 1, f)
  BY <1>4
<1> DEFINE h == [i \in 1 .. k |-> IF i < k THEN f[i] ELSE IF k = 1 THEN q[k] ELSE f[k - 1] \o q[k]]
<1>6. Flattened(q, k, h)
  <2>1. \A i \in 1 .. k - 1 : f[i] = IF i = 1 THEN q[i] ELSE f[i - 1] \o q[i]
    BY <1>5 DEF Flattened
  <2>2. ASSUME NEW i \in 1 .. k PROVE h[i] = IF i = 1 THEN q[i] ELSE h[i - 1] \o q[i]
    <3>1. CASE i = k
      <4>1. k # 1 => h[k - 1] = f[k - 1]
        BY <1>4
      <4>2. h[k] = IF k = 1 THEN q[k] ELSE f[k - 1] \o q[k]
        BY <1>4
      <4> HIDE DEF h
      <4> QED BY <3>1, <4>1, <4>2
    <3>2. CASE i < k
      <4>1. i # 1 => h[i - 1] = f[i - 1]
        BY <3>2, <1>4
      <4>2. h[i] = f[i] /\ i \in 1 .. k - 1
        BY <3>2, <1>4
      <4> HIDE DEF h
      <4> QED BY <2>1, <4>1, <4>2
    <3> QED BY <3>1, <3>2, <1>4
  <2>3. h = [i \in 1 .. k |-> h[i]]
    OBVIOUS
  <2> HIDE DEF h
  <2> QED BY <2>2, <2>3 DEF Flattened
<1> QED BY <1>2, <1>6

Continues(q, n, f, r, m, g) ==
  /\ n \in Nat /\ m \in Nat /\ n <= m
  /\ Flattened(q, n, f) /\ Flattened(r, m, g)
  /\ \A i \in 1 .. n : q[i] = r[i]

LEMMA FlattenedSame ==
  ASSUME NEW q, NEW r, NEW n, NEW m, NEW f, NEW g, Continues(q, n, f, r, m, g)
  PROVE  \A i \in 1 .. n : f[i] = g[i]
<1>0. /\ n \in Nat /\ m \in Nat /\ n <= m
      /\ Flattened(q, n, f) /\ Flattened(r, m, g)
      /\ \A i \in 1 .. n : q[i] = r[i]
  BY DEF Continues
<1> DEFINE Bad == {k \in 1 .. n : f[k] # g[k]}
<1>1. SUFFICES ASSUME Bad # {} PROVE FALSE
  OBVIOUS
<1>2. PICK k \in Bad : \A y \in Bad : k <= y
  <2>1. Bad \subseteq Nat
    BY <1>0
  <2> HIDE DEF Bad
  <2> QED BY <1>1, <2>1, Lowest
<1>3. k \in 1 .. n /\ k \in 1 .. m /\ f[k] # g[k]
  BY <1>0
<1>4. f[k] = (IF k = 1 THEN q[k] ELSE f[k - 1] \o q[k]) /\ g[k] = (IF k = 1 THEN r[k] ELSE g[k - 1] \o r[k])
  BY <1>0, <1>3 DEF Flattened
<1>5. k # 1 => f[k - 1] = g[k - 1]
  <2> SUFFICES ASSUME k # 1 PROVE f[k - 1] = g[k - 1]
    OBVIOUS
  <2>1. k - 1 \in 1 .. n /\ ~ (k <= k - 1)
    BY <1>0, <1>3
  <2>2. k - 1 \notin Bad
    <3> HIDE DEF Bad
    <3> QED BY <1>2, <2>1
  <2> QED BY <2>1, <2>2
<1> QED BY <1>0, <1>3, <1>4, <1>5

\* FlattenSeq is the last of the texts so far.
LEMMA FlattenIs ==
  ASSUME NEW q, NEW n \in Nat, Len(q) = n, n # 0
  PROVE  \E f : Flattened(q, n, f) /\ T!FlattenSeq(q) = f[n]
<1> DEFINE f == CHOOSE g : Flattened(q, Len(q), g)
<1>1. Flattened(q, Len(q), f)
  BY FlattenedExists
<1>2. T!FlattenSeq(q) = f[Len(q)]
  BY DEF T!FlattenSeq, Flattened
<1> HIDE DEF f
<1> QED BY <1>1, <1>2

\* Texts of a kind one after the other are of that kind.
LEMMA FlattenTypes ==
  ASSUME NEW S, NEW q \in Seq(Seq(S))
  PROVE  T!FlattenSeq(q) \in Seq(S)
<1>1. CASE Len(q) = 0
  <2>1. T!FlattenSeq(q) = q
    BY <1>1 DEF T!FlattenSeq
  <2>2. q = <<>>
    BY <1>1
  <2> QED BY <2>1, <2>2
<1>2. CASE Len(q) # 0
  <2>0. Len(q) \in Nat
    OBVIOUS
  <2>1. PICK f : Flattened(q, Len(q), f) /\ T!FlattenSeq(q) = f[Len(q)]
    BY <1>2, <2>0, FlattenIs
  <2> DEFINE Bad == {k \in 1 .. Len(q) : f[k] \notin Seq(S)}
  <2>2. ASSUME Bad # {} PROVE FALSE
    <3>1. PICK k \in Bad : \A y \in Bad : k <= y
      <4>1. Bad \subseteq Nat
        OBVIOUS
      <4> HIDE DEF Bad
      <4> QED BY <2>2, <4>1, Lowest
    <3>2. k \in 1 .. Len(q) /\ f[k] \notin Seq(S) /\ q[k] \in Seq(S)
      BY <2>0
    <3>3. f[k] = (IF k = 1 THEN q[k] ELSE f[k - 1] \o q[k])
      BY <3>2, <2>1 DEF Flattened
    <3>4. k # 1 => f[k - 1] \in Seq(S)
      <4> SUFFICES ASSUME k # 1 PROVE f[k - 1] \in Seq(S)
        OBVIOUS
      <4>1. k - 1 \in 1 .. Len(q) /\ ~ (k <= k - 1)
        BY <3>2, <2>0
      <4>2. k - 1 \notin Bad
        <5> HIDE DEF Bad
        <5> QED BY <3>1, <4>1
      <4> QED BY <4>1, <4>2
    <3> QED BY <3>2, <3>3, <3>4
  <2>3. Len(q) \in 1 .. Len(q)
    BY <1>2, <2>0
  <2>4. f[Len(q)] \in Seq(S)
    BY <2>2, <2>3
  <2> QED BY <2>1, <2>4
<1> QED BY <1>1, <1>2

\* One more text comes at the end.
LEMMA FlattenGrows ==
  ASSUME NEW S, NEW q \in Seq(Seq(S)), NEW b \in Seq(S)
  PROVE  T!FlattenSeq(Append(q, b)) = T!FlattenSeq(q) \o b
<1> DEFINE r == Append(q, b)
<1>0. /\ Len(q) \in Nat /\ Len(r) = Len(q) + 1 /\ r[Len(q) + 1] = b
      /\ \A i \in 1 .. Len(q) : q[i] = r[i]
  OBVIOUS
<1> HIDE DEF r
<1>1. PICK g : Flattened(r, Len(q) + 1, g) /\ T!FlattenSeq(r) = g[Len(q) + 1]
  BY <1>0, FlattenIs
<1>2. g[Len(q) + 1] = IF Len(q) = 0 THEN b ELSE g[Len(q)] \o b
  <2>1. Len(q) + 1 \in 1 .. Len(q) + 1 /\ Len(q) + 1 - 1 = Len(q) /\ (Len(q) + 1 = 1 <=> Len(q) = 0)
    BY <1>0
  <2>2. g[Len(q) + 1] = IF Len(q) + 1 = 1 THEN r[Len(q) + 1] ELSE g[Len(q) + 1 - 1] \o r[Len(q) + 1]
    <3>1. PICK m : m = Len(q) + 1
      OBVIOUS
    <3>2. Flattened(r, m, g) /\ m \in 1 .. m
      BY <1>1, <2>1, <3>1
    <3>3. g[m] = IF m = 1 THEN r[m] ELSE g[m - 1] \o r[m]
      BY <3>2 DEF Flattened
    <3> QED BY <3>1, <3>3
  <2> QED BY <1>0, <2>1, <2>2
<1>3. CASE Len(q) = 0
  <2>1. T!FlattenSeq(q) = q /\ q = <<>>
    BY <1>3 DEF T!FlattenSeq
  <2> QED BY <1>1, <1>2, <1>3, <2>1 DEF r
<1>4. CASE Len(q) # 0
  <2>1. PICK f : Flattened(q, Len(q), f) /\ T!FlattenSeq(q) = f[Len(q)]
    BY <1>0, <1>4, FlattenIs
  <2>2. f[Len(q)] = g[Len(q)]
    <3>1. Len(q) + 1 \in Len(q) .. Len(q) + 1 /\ Len(q) \in 1 .. Len(q)
      BY <1>0, <1>4
    <3>2. PICK n : n = Len(q)
      OBVIOUS
    <3>3. PICK m : m = Len(q) + 1
      OBVIOUS
    <3>4. n \in Nat /\ m \in Nat /\ n <= m
      BY <1>0, <3>2, <3>3
    <3>5. Flattened(q, n, f)
      BY <2>1, <3>2
    <3>6. Flattened(r, m, g)
      BY <1>1, <3>3
    <3>7. \A i \in 1 .. n : q[i] = r[i]
      BY <1>0, <3>2
    <3>8. \A i \in 1 .. n : f[i] = g[i]
      <4>1. Continues(q, n, f, r, m, g)
        BY <3>4, <3>5, <3>6, <3>7 DEF Continues
      <4> QED BY <4>1, FlattenedSame
    <3> QED BY <3>1, <3>2, <3>8
  <2> QED BY <1>1, <1>2, <1>4, <2>1, <2>2 DEF r
<1> QED BY <1>3, <1>4

-----------------------------------------------------------------------------
(* Texts within texts. *)
\* Where a string is in a text.
LEMMA FoundIs ==
  ASSUME NEW S, NEW s \in Seq(S), NEW w \in Seq(S), NEW k
  PROVE  k \in T!Found(s, w) <=> /\ k \in 1 .. Len(s) - Len(w) + 1
                                 /\ \A j \in 1 .. Len(w) : s[k + j - 1] = w[j]
<1> SUFFICES ASSUME k \in 1 .. Len(s) - Len(w) + 1
             PROVE  SubSeq(s, k, k + Len(w) - 1) = w <=> \A j \in 1 .. Len(w) : s[k + j - 1] = w[j]
  BY DEF T!Found
<1>1. PICK n \in Int : n = k + Len(w) - 1
  OBVIOUS
<1>2. k \in Int /\ n \in Int /\ Len(w) \in Nat /\ Len(s) \in Nat
  OBVIOUS
<1>3. \A i \in k .. n : s[i] \in S
  <2> SUFFICES ASSUME NEW i \in k .. n PROVE s[i] \in S
    OBVIOUS
  <2>1. i \in 1 .. Len(s)
    BY <1>1, <1>2
  <2> QED BY <2>1
<1>4. PICK x : x = SubSeq(s, k, n)
  OBVIOUS
<1>5. /\ x \in Seq(S) /\ Len(x) = IF k <= n THEN n - k + 1 ELSE 0
      /\ \A i \in 1 .. n - k + 1 : x[i] = s[k + i - 1]
  BY <1>2, <1>3, <1>4, SubSeqProperties
<1>6. Len(x) = Len(w) /\ n - k + 1 = Len(w)
  BY <1>1, <1>2, <1>5
<1>7. x = w <=> \A j \in 1 .. Len(w) : x[j] = w[j]
  BY <1>5, <1>6, SeqEqual
<1> QED BY <1>1, <1>4, <1>5, <1>6, <1>7

\* In two texts one after the other a string is where it is in either, or across them.
LEMMA FoundJoined ==
  ASSUME NEW S, NEW s \in Seq(S), NEW b \in Seq(S), NEW w \in Seq(S), NEW k \in Int
  PROVE  /\ k \in T!Found(s \o b, w) /\ k > Len(s) => k - Len(s) \in T!Found(b, w)
         /\ k \in T!Found(s \o b, w) /\ k + Len(w) - 1 <= Len(s) => k \in T!Found(s, w)
         /\ k \in T!Found(b, w) => Len(s) + k \in T!Found(s \o b, w)
         /\ k \in T!Found(s, w) => k \in T!Found(s \o b, w)
<1>1. PICK x : x = s \o b
  OBVIOUS
<1>2. /\ x \in Seq(S) /\ Len(x) = Len(s) + Len(b)
      /\ \A i \in 1 .. Len(s) + Len(b) : x[i] = IF i <= Len(s) THEN s[i] ELSE b[i - Len(s)]
  BY <1>1, ConcatProperties
<1>3. Len(s) \in Nat /\ Len(b) \in Nat /\ Len(w) \in Nat
  OBVIOUS
<1>4. PICK p : p = k - Len(s)
  OBVIOUS
<1>5. PICK r : r = Len(s) + k
  OBVIOUS
<1>6. ASSUME k \in T!Found(x, w), k > Len(s) PROVE p \in T!Found(b, w)
  <2>1. k \in 1 .. Len(x) - Len(w) + 1 /\ \A j \in 1 .. Len(w) : x[k + j - 1] = w[j]
    BY <1>2, <1>6, FoundIs
  <2>2. p \in 1 .. Len(b) - Len(w) + 1
    BY <1>2, <1>3, <1>4, <1>6, <2>1
  <2>3. ASSUME NEW j \in 1 .. Len(w) PROVE b[p + j - 1] = w[j]
    <3>0. PICK n : n = k + j - 1
      OBVIOUS
    <3>1. n \in 1 .. Len(s) + Len(b) /\ ~ (n <= Len(s)) /\ n - Len(s) = p + j - 1
      BY <1>2, <1>3, <1>4, <1>6, <2>1, <3>0
    <3>2. x[n] = b[n - Len(s)]
      BY <1>2, <3>1
    <3>3. x[n] = w[j]
      BY <2>1, <3>0
    <3> QED BY <3>1, <3>2, <3>3
  <2> QED BY <2>2, <2>3, FoundIs
<1>7. ASSUME k \in T!Found(x, w), k + Len(w) - 1 <= Len(s) PROVE k \in T!Found(s, w)
  <2>1. k \in 1 .. Len(x) - Len(w) + 1 /\ \A j \in 1 .. Len(w) : x[k + j - 1] = w[j]
    BY <1>2, <1>7, FoundIs
  <2>2. k \in 1 .. Len(s) - Len(w) + 1
    BY <1>2, <1>3, <1>7, <2>1
  <2>3. ASSUME NEW j \in 1 .. Len(w) PROVE s[k + j - 1] = w[j]
    <3>0. PICK n : n = k + j - 1
      OBVIOUS
    <3>1. n \in 1 .. Len(s) + Len(b) /\ n <= Len(s)
      BY <1>2, <1>3, <1>7, <2>1, <3>0
    <3>2. x[n] = s[n]
      BY <1>2, <3>1
    <3> QED BY <2>1, <3>0, <3>2
  <2> QED BY <2>2, <2>3, FoundIs
<1>8. ASSUME k \in T!Found(b, w) PROVE r \in T!Found(x, w)
  <2>1. k \in 1 .. Len(b) - Len(w) + 1 /\ \A j \in 1 .. Len(w) : b[k + j - 1] = w[j]
    BY <1>8, FoundIs
  <2>2. r \in 1 .. Len(x) - Len(w) + 1
    BY <1>2, <1>3, <1>5, <2>1
  <2>3. ASSUME NEW j \in 1 .. Len(w) PROVE x[r + j - 1] = w[j]
    <3>0. PICK n : n = r + j - 1
      OBVIOUS
    <3>1. n \in 1 .. Len(s) + Len(b) /\ ~ (n <= Len(s)) /\ n - Len(s) = k + j - 1
      BY <1>3, <1>5, <2>1, <3>0
    <3>2. x[n] = b[n - Len(s)]
      BY <1>2, <3>1
    <3>3. b[n - Len(s)] = w[j]
      BY <2>1, <3>1
    <3> QED BY <3>0, <3>2, <3>3
  <2> QED BY <1>2, <2>2, <2>3, FoundIs
<1>9. ASSUME k \in T!Found(s, w) PROVE k \in T!Found(x, w)
  <2>1. k \in 1 .. Len(s) - Len(w) + 1 /\ \A j \in 1 .. Len(w) : s[k + j - 1] = w[j]
    BY <1>9, FoundIs
  <2>2. k \in 1 .. Len(x) - Len(w) + 1
    BY <1>2, <1>3, <2>1
  <2>3. ASSUME NEW j \in 1 .. Len(w) PROVE x[k + j - 1] = w[j]
    <3>0. PICK n : n = k + j - 1
      OBVIOUS
    <3>1. n \in 1 .. Len(s) + Len(b) /\ n <= Len(s)
      BY <1>3, <2>1, <3>0
    <3>2. x[n] = s[n]
      BY <1>2, <3>1
    <3> QED BY <2>1, <3>0, <3>2
  <2> QED BY <1>2, <2>2, <2>3, FoundIs
<1> QED BY <1>1, <1>4, <1>5, <1>6, <1>7, <1>8, <1>9

\* A text begins with what it was appended to.
LEMMA BeginsWith ==
  ASSUME NEW S, NEW s \in Seq(S), NEW b \in Seq(S)
  PROVE  T!IsPrefix(s, s \o b) /\ SubSeq(s \o b, 1, Len(s)) = s
<1>1. PICK x : x = s \o b
  OBVIOUS
<1>2. /\ x \in Seq(S) /\ Len(x) = Len(s) + Len(b)
      /\ \A i \in 1 .. Len(s) + Len(b) : x[i] = IF i <= Len(s) THEN s[i] ELSE b[i - Len(s)]
  BY <1>1, ConcatProperties
<1>3. Len(s) \in Nat /\ Len(b) \in Nat /\ 1 \in Int /\ Len(s) \in Int
  OBVIOUS
<1>4. \A i \in 1 .. Len(s) : x[i] \in S /\ x[i] = s[i]
  BY <1>2, <1>3
<1>5. PICK y : y = SubSeq(x, 1, Len(s))
  OBVIOUS
<1>6. /\ y \in Seq(S) /\ Len(y) = IF 1 <= Len(s) THEN Len(s) - 1 + 1 ELSE 0
      /\ \A i \in 1 .. Len(s) - 1 + 1 : y[i] = x[1 + i - 1]
  BY <1>3, <1>4, <1>5, SubSeqProperties
<1>7. Len(y) = Len(s) /\ \A i \in 1 .. Len(s) : y[i] = s[i]
  BY <1>3, <1>4, <1>6
<1>8. y = s
  BY <1>6, <1>7, SeqEqual
<1>9. SubSeq(s, 1, Len(s)) = s
  BY SubSeqFull
<1> QED BY <1>1, <1>2, <1>3, <1>5, <1>8, <1>9 DEF T!IsPrefix

\* A text cut in two.
LEMMA CutAt ==
  ASSUME NEW S, NEW s \in Seq(S), NEW e \in 0 .. Len(s)
  PROVE  /\ SubSeq(s, 1, e) \in Seq(S) /\ SubSeq(s, e + 1, Len(s)) \in Seq(S)
         /\ Len(SubSeq(s, 1, e)) = e /\ Len(SubSeq(s, e + 1, Len(s))) = Len(s) - e
         /\ \A i \in 1 .. e : SubSeq(s, 1, e)[i] = s[i]
         /\ SubSeq(s, 1, e) \o SubSeq(s, e + 1, Len(s)) = s
<1>1. Len(s) \in Nat /\ e \in Int /\ e + 1 \in Int /\ Len(s) \in Int /\ 1 \in Int
  OBVIOUS
<1>2. /\ SubSeq(s, 1, e) \in Seq(S) /\ Len(SubSeq(s, 1, e)) = IF 1 <= e THEN e - 1 + 1 ELSE 0
      /\ \A i \in 1 .. e - 1 + 1 : SubSeq(s, 1, e)[i] = s[1 + i - 1]
  <2>1. \A i \in 1 .. e : s[i] \in S
    BY <1>1
  <2> QED BY <1>1, <2>1, SubSeqProperties
<1>3. /\ SubSeq(s, e + 1, Len(s)) \in Seq(S)
      /\ Len(SubSeq(s, e + 1, Len(s))) = IF e + 1 <= Len(s) THEN Len(s) - (e + 1) + 1 ELSE 0
  <2>1. \A i \in e + 1 .. Len(s) : s[i] \in S
    BY <1>1
  <2>2. PICK m : m = e + 1
    OBVIOUS
  <2>3. m \in Int /\ \A i \in m .. Len(s) : s[i] \in S
    BY <1>1, <2>1, <2>2
  <2>4. /\ SubSeq(s, m, Len(s)) \in Seq(S)
        /\ Len(SubSeq(s, m, Len(s))) = IF m <= Len(s) THEN Len(s) - m + 1 ELSE 0
    BY <1>1, <2>3, SubSeqProperties
  <2> QED BY <2>2, <2>4
<1>4. SubSeq(s, 1, e) \o SubSeq(s, e + 1, Len(s)) = SubSeq(s, 1, Len(s))
  <2>1. 1 \in 1 .. Len(s) + 1 /\ e \in 1 - 1 .. Len(s) /\ Len(s) \in e .. Len(s)
    BY <1>1
  <2> QED BY <2>1, ConcatAdjacentSubSeq
<1>5. SubSeq(s, 1, Len(s)) = s
  BY SubSeqFull
<1>6. Len(SubSeq(s, 1, e)) = e /\ \A i \in 1 .. e : SubSeq(s, 1, e)[i] = s[i]
  <2>1. PICK y : y = SubSeq(s, 1, e)
    OBVIOUS
  <2>2. Len(y) = (IF 1 <= e THEN e - 1 + 1 ELSE 0) /\ \A i \in 1 .. e - 1 + 1 : y[i] = s[1 + i - 1]
    BY <1>2, <2>1
  <2>3. Len(y) = e /\ \A i \in 1 .. e : y[i] = s[i]
    BY <1>1, <2>2
  <2> QED BY <2>1, <2>3
<1>7. Len(SubSeq(s, e + 1, Len(s))) = Len(s) - e
  <2>1. PICK n : n = Len(SubSeq(s, e + 1, Len(s)))
    OBVIOUS
  <2>2. n = IF e + 1 <= Len(s) THEN Len(s) - (e + 1) + 1 ELSE 0
    BY <1>3, <2>1
  <2>3. n = Len(s) - e
    BY <1>1, <2>2
  <2> QED BY <2>1, <2>3
<1> QED BY <1>2, <1>3, <1>4, <1>5, <1>6, <1>7

-----------------------------------------------------------------------------
(* Whole characters, and what is held back. *)
\* Whole characters after whole characters (WholeCharacters).
LEMMA WholeJoined ==
  ASSUME NEW S, NEW s \in Seq(S), NEW b \in Seq(S), T!WholeCharacters(s), T!WholeCharacters(b)
  PROVE  T!WholeCharacters(s \o b)
<1>1. PICK x : x = s \o b
  OBVIOUS
<1>2. /\ x \in Seq(S) /\ Len(x) = Len(s) + Len(b)
      /\ \A i \in 1 .. Len(s) + Len(b) : x[i] = IF i <= Len(s) THEN s[i] ELSE b[i - Len(s)]
  BY <1>1, ConcatProperties
<1>3. Len(s) \in Nat /\ Len(b) \in Nat /\ DOMAIN x = 1 .. Len(x) /\ DOMAIN s = 1 .. Len(s) /\ DOMAIN b = 1 .. Len(b)
  BY <1>2
<1>4. ASSUME NEW i \in 1 .. Len(x)
      PROVE  (x[i] = "h" => i < Len(x) /\ x[i + 1] = "t") /\ (x[i] = "t" => i > 1 /\ x[i - 1] = "h")
  <2>1. CASE i <= Len(s)
    <3>1. i \in 1 .. Len(s) /\ x[i] = s[i]
      BY <1>2, <1>3, <2>1
    <3>2. (s[i] = "h" => i < Len(s) /\ s[i + 1] = "t") /\ (s[i] = "t" => i > 1 /\ s[i - 1] = "h")
      BY <1>3, <3>1 DEF T!WholeCharacters
    <3>3. i < Len(s) => i < Len(x) /\ x[i + 1] = s[i + 1]
      BY <1>2, <1>3, <3>1
    <3>4. i > 1 => x[i - 1] = s[i - 1]
      BY <1>2, <1>3, <3>1
    <3> QED BY <3>1, <3>2, <3>3, <3>4
  <2>2. CASE i > Len(s)
    <3>1. PICK j : j = i - Len(s)
      OBVIOUS
    <3>2. j \in 1 .. Len(b) /\ x[i] = b[j]
      BY <1>2, <1>3, <2>2, <3>1
    <3>3. (b[j] = "h" => j < Len(b) /\ b[j + 1] = "t") /\ (b[j] = "t" => j > 1 /\ b[j - 1] = "h")
      BY <1>3, <3>2 DEF T!WholeCharacters
    <3>4. j < Len(b) => i < Len(x) /\ x[i + 1] = b[j + 1]
      <4> SUFFICES ASSUME j < Len(b) PROVE i < Len(x) /\ x[i + 1] = b[j + 1]
        OBVIOUS
      <4>1. i + 1 \in 1 .. Len(s) + Len(b) /\ ~ (i + 1 <= Len(s)) /\ i + 1 - Len(s) = j + 1 /\ i < Len(x)
        BY <1>2, <1>3, <2>2, <3>1, <3>2
      <4> QED BY <1>2, <4>1
    <3>5. j > 1 => i > 1 /\ x[i - 1] = b[j - 1]
      <4> SUFFICES ASSUME j > 1 PROVE i > 1 /\ x[i - 1] = b[j - 1]
        OBVIOUS
      <4>1. i - 1 \in 1 .. Len(s) + Len(b) /\ ~ (i - 1 <= Len(s)) /\ i - 1 - Len(s) = j - 1 /\ i > 1
        BY <1>2, <1>3, <2>2, <3>1, <3>2
      <4> QED BY <1>2, <4>1
    <3> QED BY <3>2, <3>3, <3>4, <3>5
  <2> QED BY <2>1, <2>2, <1>3
<1>5. T!WholeCharacters(x)
  BY <1>3, <1>4 DEF T!WholeCharacters
<1> QED BY <1>1, <1>5

\* valid_up_to is within the text and ends a character.
LEMMA ValidIs ==
  ASSUME NEW S, NEW s \in Seq(S)
  PROVE  T!ValidUtf8UpTo(s) \in 0 .. Len(s) /\ T!WholeCharacters(SubSeq(s, 1, T!ValidUtf8UpTo(s)))
<1> DEFINE Z == {k \in 0 .. Len(s) : T!WholeCharacters(SubSeq(s, 1, k))}
<1>1. Len(s) \in Nat /\ Z \subseteq 0 .. Len(s)
  OBVIOUS
<1>2. 0 \in Z
  <2>1. SubSeq(s, 1, 0) = <<>>
    BY SubSeqEmpty
  <2>2. T!WholeCharacters(<<>>)
    BY DEF T!WholeCharacters
  <2>3. T!WholeCharacters(SubSeq(s, 1, 0))
    BY <2>1, <2>2, Zenon
  <2>4. 0 \in 0 .. Len(s)
    BY <1>1
  <2> QED BY <2>3, <2>4
<1>3. T!Max(Z) \in Z
  <2> HIDE DEF Z
  <2> QED BY <1>1, <1>2, Greatest
<1> QED BY <1>3 DEF T!ValidUtf8UpTo

StopsAre == turn.stops \in Seq(Seq(Word))

\* No stop string is longer than what is held back and one more byte.
LEMMA HoldIs ==
  ASSUME StopsAre
  PROVE  T!Hold \in Nat /\ \A i \in DOMAIN turn.stops : Len(turn.stops[i]) - 1 <= T!Hold
<1> DEFINE q == turn.stops
<1>1. Len(q) \in Nat /\ DOMAIN q = 1 .. Len(q) /\ \A i \in 1 .. Len(q) : Len(q[i]) \in Nat
  BY DEF StopsAre
<1> HIDE DEF q
<1> DEFINE cos == [i \in 0 .. Len(q) |-> IF i = 0 THEN 1 ELSE Len(q[i])]
           Z == {0} \union {Len(q[i]) - 1 : i \in DOMAIN q}
<1>2. IsFiniteSet(0 .. Len(q)) /\ 0 .. Len(q) # {} /\ cos \in [0 .. Len(q) -> Nat]
  <2>1. IsFiniteSet(0 .. Len(q))
    BY <1>1, FS_Interval
  <2>2. 0 \in 0 .. Len(q) /\ \A i \in 0 .. Len(q) : i = 0 \/ i \in 1 .. Len(q)
    BY <1>1
  <2> QED BY <1>1, <2>1, <2>2
<1>3. PICK i \in 0 .. Len(q) : \A j \in 0 .. Len(q) : cos[j] <= cos[i]
  <2> HIDE DEF cos
  <2> QED BY <1>2, Highest
<1>4. cos[0] = 1 /\ (\A j \in 1 .. Len(q) : j \in 0 .. Len(q) /\ cos[j] = Len(q[j]))
  BY <1>1
<1>5. PICK c : c = cos[i]
  OBVIOUS
<1>6. c \in Nat /\ 1 <= c /\ \A j \in 1 .. Len(q) : Len(q[j]) <= c
  <2>1. 0 \in 0 .. Len(q)
    BY <1>1
  <2> HIDE DEF cos
  <2> QED BY <1>2, <1>3, <1>4, <1>5, <2>1
<1>7. c = 1 \/ \E j \in 1 .. Len(q) : c = Len(q[j])
  <2>1. i = 0 \/ i \in 1 .. Len(q)
    BY <1>1, <1>3
  <2> HIDE DEF cos
  <2> QED BY <1>4, <1>5, <2>1
<1> HIDE DEF cos
<1>8. c - 1 \in Z /\ \A y \in Z : c - 1 >= y
  <2>1. \A j \in 1 .. Len(q) : c - 1 >= Len(q[j]) - 1
    BY <1>1, <1>6
  <2>2. c - 1 >= 0
    BY <1>6
  <2>3. c - 1 \in Z
    BY <1>1, <1>6, <1>7
  <2> QED BY <1>1, <2>1, <2>2, <2>3
<1>9. T!Max(Z) \in Z /\ \A y \in Z : T!Max(Z) >= y
  <2> HIDE DEF Z
  <2> QED BY <1>8 DEF T!Max
<1>10. T!Hold = T!Max(Z)
  BY DEF T!Hold, q
<1>11. PICK v : v = T!Max(Z)
  OBVIOUS
<1>12. v \in Int /\ v >= 0 /\ \A j \in 1 .. Len(q) : v >= Len(q[j]) - 1
  <2>1. \A y \in Z : y \in Int
    BY <1>1
  <2>2. 0 \in Z /\ \A j \in 1 .. Len(q) : Len(q[j]) - 1 \in Z
    BY <1>1
  <2> HIDE DEF Z
  <2> QED BY <1>9, <1>11, <2>1, <2>2
<1>13. v \in Nat /\ \A j \in 1 .. Len(q) : Len(q[j]) - 1 <= v
  BY <1>1, <1>12
<1> HIDE DEF Z
<1> QED BY <1>1, <1>10, <1>11, <1>13 DEF q

\* push sends whole characters, and never of the last bytes that it holds back.
LEMMA EmittedIs ==
  ASSUME StopsAre, NEW s \in Seq(Word)
  PROVE  /\ T!Emitted(s) \in 0 .. Len(s) /\ T!WholeCharacters(SubSeq(s, 1, T!Emitted(s)))
         /\ T!Emitted(s) > 0 => T!Emitted(s) <= Len(s) - T!Hold
<1>1. T!Hold \in Nat /\ Len(s) \in Nat
  BY HoldIs
<1>2. CASE Len(s) <= T!Hold
  <2>1. T!Emitted(s) = 0
    BY <1>2 DEF T!Emitted
  <2>2. SubSeq(s, 1, 0) = <<>> /\ T!WholeCharacters(<<>>)
    BY SubSeqEmpty DEF T!WholeCharacters
  <2>3. T!WholeCharacters(SubSeq(s, 1, T!Emitted(s)))
    BY <2>1, <2>2, Zenon
  <2> QED BY <1>1, <2>1, <2>3
<1>3. CASE ~ (Len(s) <= T!Hold)
  <2>1. PICK n : n = Len(s) - T!Hold
    OBVIOUS
  <2>2. n \in 0 .. Len(s)
    BY <1>1, <1>3, <2>1
  <2>3. PICK x : x = SubSeq(s, 1, n)
    OBVIOUS
  <2>4. x \in Seq(Word) /\ Len(x) = n /\ \A i \in 1 .. n : x[i] = s[i]
    BY <2>2, <2>3, CutAt
  <2>5. PICK e : e = T!ValidUtf8UpTo(x)
    OBVIOUS
  <2>6. e \in 0 .. n /\ T!WholeCharacters(SubSeq(x, 1, e))
    BY <2>4, <2>5, ValidIs
  <2>7. T!Emitted(s) = e
    BY <1>3, <2>1, <2>3, <2>5 DEF T!Emitted
  <2>8. e \in 0 .. Len(s) /\ e \in 0 .. Len(x)
    BY <1>1, <2>2, <2>4, <2>6
  <2>9. PICK y : y = SubSeq(x, 1, e)
    OBVIOUS
  <2>10. PICK z : z = SubSeq(s, 1, e)
    OBVIOUS
  <2>11. y \in Seq(Word) /\ Len(y) = e /\ \A i \in 1 .. e : y[i] = x[i]
    BY <2>4, <2>8, <2>9, CutAt
  <2>12. z \in Seq(Word) /\ Len(z) = e /\ \A i \in 1 .. e : z[i] = s[i]
    BY <2>8, <2>10, CutAt
  <2>13. \A i \in 1 .. e : y[i] = z[i]
    <3>1. \A i \in 1 .. e : i \in 1 .. n
      BY <2>2, <2>6
    <3> QED BY <2>4, <2>11, <2>12, <3>1
  <2>14. y = z
    BY <2>11, <2>12, <2>13, SeqEqual
  <2>15. T!WholeCharacters(SubSeq(s, 1, T!Emitted(s)))
    BY <2>6, <2>7, <2>9, <2>10, <2>14, Zenon
  <2>16. e <= Len(s) - T!Hold
    BY <1>1, <2>1, <2>6
  <2> QED BY <2>7, <2>8, <2>15, <2>16
<1> QED BY <1>2, <1>3

\* The cut of push is at a place where a listed string is found.
LEMMA BeforeIs ==
  ASSUME StopsAre, NEW s \in Seq(Word), T!Stopped(s)
  PROVE  \E i \in DOMAIN turn.stops, k \in Nat :
           k \in T!Found(s, turn.stops[i]) /\ k - 1 \in 0 .. Len(s) /\ T!Before(s) = SubSeq(s, 1, k - 1)
<1>1. T!Hit(s) # {} /\ T!Hit(s) \subseteq DOMAIN turn.stops /\ DOMAIN turn.stops \subseteq Nat
  <2>1. PICK q \in Seq(Seq(Word)) : q = turn.stops
    BY DEF StopsAre
  <2>2. DOMAIN q \subseteq Nat
    OBVIOUS
  <2> QED BY <2>1, <2>2 DEF T!Stopped, T!Hit
<1>2. PICK i : i = CHOOSE x \in T!Hit(s) : \A j \in T!Hit(s) : x <= j
  OBVIOUS
<1>3. i \in T!Hit(s)
  <2>1. \E x \in T!Hit(s) : \A j \in T!Hit(s) : x <= j
    BY <1>1, Lowest
  <2> QED BY <1>2, <2>1
<1>4. PICK w : w = turn.stops[i]
  OBVIOUS
<1>5. T!FirstListed(s) = w /\ T!Found(s, w) # {} /\ i \in DOMAIN turn.stops /\ w \in Seq(Word)
  <2>1. T!FirstListed(s) = w
    BY <1>2, <1>4 DEF T!FirstListed
  <2>2. i \in DOMAIN turn.stops /\ T!Found(s, w) # {}
    BY <1>3, <1>4 DEF T!Hit
  <2>3. PICK q \in Seq(Seq(Word)) : q = turn.stops
    BY DEF StopsAre
  <2>4. q[i] \in Seq(Word)
    BY <2>2, <2>3
  <2> QED BY <1>4, <2>1, <2>2, <2>3, <2>4
<1>6. T!Found(s, w) \subseteq Nat
  BY DEF T!Found
<1>7. PICK k : k = CHOOSE x \in T!Found(s, w) : \A l \in T!Found(s, w) : x <= l
  OBVIOUS
<1>8. k \in T!Found(s, w)
  <2>1. \E x \in T!Found(s, w) : \A l \in T!Found(s, w) : x <= l
    BY <1>5, <1>6, Lowest
  <2> QED BY <1>7, <2>1
<1>9. T!Before(s) = SubSeq(s, 1, k - 1)
  BY <1>5, <1>7 DEF T!Before
<1>10. k \in 1 .. Len(s) - Len(w) + 1 /\ Len(w) \in Nat /\ Len(s) \in Nat
  BY <1>5, <1>8 DEF T!Found
<1>11. k \in Nat /\ k - 1 \in 0 .. Len(s)
  BY <1>10
<1> QED BY <1>4, <1>5, <1>8, <1>9, <1>11

-----------------------------------------------------------------------------
(* The text of the tokens that were pushed. *)
TextOf(vocab, ids, n) == T!FlattenSeq([i \in 1 .. n |-> Surface[vocab[ids[i]]]])

\* One more token's bytes come at the end.
LEMMA TextGrows ==
  ASSUME NEW vocab, NEW ids, NEW n \in Nat, \A i \in 1 .. n + 1 : Surface[vocab[ids[i]]] \in Seq(Word)
  PROVE  /\ TextOf(vocab, ids, n) \in Seq(Word)
         /\ TextOf(vocab, ids, n + 1) = TextOf(vocab, ids, n) \o Surface[vocab[ids[n + 1]]]
<1> DEFINE p(i) == Surface[vocab[ids[i]]]
           q == [i \in 1 .. n |-> p(i)]
           r == [i \in 1 .. n + 1 |-> p(i)]
<1>1. \A i \in 1 .. n + 1 : p(i) \in Seq(Word)
  OBVIOUS
<1>2. n + 1 \in 1 .. n + 1 /\ \A i \in 1 .. n : i \in 1 .. n + 1
  OBVIOUS
<1>3. TextOf(vocab, ids, n) = T!FlattenSeq(q) /\ TextOf(vocab, ids, n + 1) = T!FlattenSeq(r)
  BY DEF TextOf
<1> HIDE DEF p
<1>4. q \in Seq(Seq(Word)) /\ Len(q) = n /\ p(n + 1) \in Seq(Word) /\ \A i \in 1 .. n : q[i] = p(i)
  BY <1>1, <1>2
<1>5. r = Append(q, p(n + 1))
  <2>1. r \in Seq(Seq(Word)) /\ Len(r) = n + 1 /\ \A i \in 1 .. n + 1 : r[i] = p(i)
    BY <1>1, <1>2
  <2> HIDE DEF q, r
  <2>2. PICK u : u = Append(q, p(n + 1))
    OBVIOUS
  <2>3. /\ u \in Seq(Seq(Word)) /\ Len(u) = Len(q) + 1
        /\ \A i \in 1 .. Len(q) : u[i] = q[i]
        /\ u[Len(q) + 1] = p(n + 1)
    BY <1>4, <2>2
  <2>4. \A i \in 1 .. n + 1 : u[i] = p(i)
    <3> SUFFICES ASSUME NEW i \in 1 .. n + 1 PROVE u[i] = p(i)
      OBVIOUS
    <3>1. i \in 1 .. n \/ i = n + 1
      OBVIOUS
    <3> QED BY <1>4, <2>3, <3>1
  <2>5. \A i \in 1 .. Len(r) : r[i] = u[i]
    BY <2>1, <2>4
  <2>6. Len(u) = Len(r)
    BY <1>4, <2>1, <2>3
  <2>7. r = u
    BY <2>1, <2>3, <2>5, <2>6, SeqEqual
  <2> QED BY <2>2, <2>7
<1> HIDE DEF q, r
<1>6. T!FlattenSeq(q) \in Seq(Word)
  BY <1>4, FlattenTypes
<1>7. PICK b \in Seq(Word) : b = p(n + 1)
  BY <1>4
<1>8. T!FlattenSeq(Append(q, b)) = T!FlattenSeq(q) \o b
  BY <1>4, <1>7, FlattenGrows
<1>9. T!FlattenSeq(r) = T!FlattenSeq(q) \o p(n + 1)
  BY <1>5, <1>7, <1>8
<1> QED BY <1>3, <1>6, <1>9 DEF p

\* The text depends on the tokens that were pushed.
LEMMA TextSame ==
  ASSUME NEW vocab, NEW ids, NEW others, NEW n, \A i \in 1 .. n : ids[i] = others[i]
  PROVE  TextOf(vocab, ids, n) = TextOf(vocab, others, n)
<1>1. [i \in 1 .. n |-> Surface[vocab[ids[i]]]] = [i \in 1 .. n |-> Surface[vocab[others[i]]]]
  OBVIOUS
<1> QED BY <1>1 DEF TextOf

LEMMA TextOfNone == \A vocab, ids : TextOf(vocab, ids, 0) = <<>>
<1> SUFFICES ASSUME NEW vocab, NEW ids PROVE TextOf(vocab, ids, 0) = <<>>
  OBVIOUS
<1> DEFINE q == [i \in 1 .. 0 |-> Surface[vocab[ids[i]]]]
<1>1. q = <<>>
  OBVIOUS
<1>2. TextOf(vocab, ids, 0) = T!FlattenSeq(q)
  BY DEF TextOf
<1>3. T!FlattenSeq(<<>>) = <<>>
  BY DEF T!FlattenSeq
<1> QED BY <1>1, <1>2, <1>3

LEMMA DecodedIs == T!Decoded = TextOf(setup.vocab, history, fed)
BY DEF T!Decoded, T!Bytes, TextOf

-----------------------------------------------------------------------------
(* The repetition guard. *)
\* A slice of a sequence.
LEMMA SliceIs ==
  ASSUME NEW S, NEW s \in Seq(S), NEW c \in Int, NEW m \in Int, c >= 1, m <= Len(s)
  PROVE  /\ SubSeq(s, c, m) \in Seq(S)
         /\ Len(SubSeq(s, c, m)) = IF c <= m THEN m - c + 1 ELSE 0
         /\ \A j \in 1 .. m - c + 1 : SubSeq(s, c, m)[j] = s[c + j - 1]
<1>1. ASSUME NEW j \in c .. m PROVE s[j] \in S
  <2>1. j \in 1 .. Len(s)
    BY <1>1
  <2> QED BY <2>1
<1> QED BY <1>1, SubSeqProperties

\* The token that would complete an n-gram again is banned (ban_repeat_ngram).
LEMMA BannedNext ==
  ASSUME NEW S, NEW s \in Seq(S), NEW id \in S, NEW n \in Nat, NEW x, NEW i
  PROVE  /\ n >= 2 /\ x = Append(s, id)
         /\ i \in 1 .. Len(x) - n
         /\ SubSeq(x, i, i + n - 1) = SubSeq(x, Len(x) - n + 1, Len(x))
         => id \in T!BanRepeatNgram(s, n)
<1>0. SUFFICES ASSUME n >= 2, x = Append(s, id), i \in 1 .. Len(x) - n,
                      SubSeq(x, i, i + n - 1) = SubSeq(x, Len(x) - n + 1, Len(x))
               PROVE  id \in T!BanRepeatNgram(s, n)
  OBVIOUS
<1>1. /\ x \in Seq(S) /\ Len(s) \in Nat /\ Len(x) = Len(s) + 1 /\ x[Len(x)] = id
      /\ \A j \in 1 .. Len(s) : x[j] = s[j]
  BY <1>0
<1>2. i \in Nat /\ 1 <= i /\ i + n - 1 <= Len(s) /\ n >= 2
  BY <1>0, <1>1
<1>3. PICK a : a = SubSeq(x, i, i + n - 1)
  OBVIOUS
<1>4. PICK c : c = Len(x) - n + 1
  OBVIOUS
<1>5. PICK e : e = i + n - 1
  OBVIOUS
<1>6. e \in Int /\ i \in Int /\ c \in Int /\ Len(x) \in Int /\ c >= 1
  BY <1>1, <1>2, <1>4, <1>5
<1>7. (\A j \in i .. e : x[j] \in S) /\ (\A j \in c .. Len(x) : x[j] \in S)
  <2>1. \A j \in i .. e : j \in 1 .. Len(x)
    BY <1>1, <1>2, <1>5
  <2>2. \A j \in c .. Len(x) : j \in 1 .. Len(x)
    BY <1>1, <1>6
  <2>3. \A j \in 1 .. Len(x) : x[j] \in S
    BY <1>1, ElementOfSeq
  <2> QED BY <2>1, <2>2, <2>3
<1>8. \A j \in 1 .. e - i + 1 : a[j] = x[i + j - 1]
  BY <1>3, <1>5, <1>6, <1>7, SubSeqProperties
<1>9. \A j \in 1 .. Len(x) - c + 1 : a[j] = x[c + j - 1]
  <2>1. PICK m : m = Len(x)
    OBVIOUS
  <2>2. c \in Int /\ m \in Int /\ c >= 1 /\ m <= Len(x) /\ x \in Seq(S)
    BY <1>1, <1>6, <2>1
  <2>3. \A j \in 1 .. m - c + 1 : SubSeq(x, c, m)[j] = x[c + j - 1]
    BY <2>2, SliceIs
  <2>4. a = SubSeq(x, c, m)
    BY <1>0, <1>3, <1>4, <2>1
  <2> QED BY <2>1, <2>3, <2>4
<1>10. \A j \in 1 .. n : x[i + j - 1] = x[c + j - 1]
  <2>1. e - i + 1 = n /\ Len(x) - c + 1 = n
    BY <1>1, <1>2, <1>4, <1>5
  <2> QED BY <1>8, <1>9, <2>1
<1>11. s[i + n - 1] = id
  <2>1. n \in 1 .. n /\ c + n - 1 = Len(x) /\ e \in 1 .. Len(s)
    BY <1>1, <1>2, <1>4, <1>5
  <2>2. x[e] = x[Len(x)]
    BY <1>5, <1>10, <2>1
  <2> QED BY <1>1, <1>5, <2>1, <2>2
<1>12. SubSeq(s, i, i + n - 2) = SubSeq(s, Len(s) - n + 2, Len(s))
  <2>1. PICK f : f = i + n - 2
    OBVIOUS
  <2>2. c = Len(s) - n + 2
    BY <1>1, <1>4
  <2>3. f \in Int /\ f - i + 1 = n - 1 /\ Len(s) - c + 1 = n - 1 /\ i <= f /\ c <= Len(s) /\ f <= Len(s)
    BY <1>1, <1>2, <1>4, <2>1
  <2>4. (\A j \in i .. f : s[j] \in S) /\ (\A j \in c .. Len(s) : s[j] \in S)
    <3>1. \A j \in i .. f : j \in 1 .. Len(s)
      BY <1>1, <1>2, <2>3
    <3>2. \A j \in c .. Len(s) : j \in 1 .. Len(s)
      BY <1>1, <1>6
    <3> QED BY <3>1, <3>2
  <2>5. PICK u : u = SubSeq(s, i, f)
    OBVIOUS
  <2>6. PICK w : w = SubSeq(s, c, Len(s))
    OBVIOUS
  <2>7. u \in Seq(S) /\ Len(u) = n - 1 /\ \A j \in 1 .. n - 1 : u[j] = s[i + j - 1]
    BY <1>6, <2>3, <2>4, <2>5, SubSeqProperties
  <2>8. w \in Seq(S) /\ Len(w) = n - 1 /\ \A j \in 1 .. n - 1 : w[j] = s[c + j - 1]
    <3>1. /\ w \in Seq(S) /\ Len(w) = (IF c <= Len(s) THEN Len(s) - c + 1 ELSE 0)
          /\ \A j \in 1 .. Len(s) - c + 1 : w[j] = s[c + j - 1]
      <4>1. Len(s) \in Int
        BY <1>1
      <4> QED BY <1>6, <2>4, <2>6, <4>1, SubSeqProperties
    <3> QED BY <2>3, <3>1
  <2>9. ASSUME NEW j \in 1 .. n - 1 PROVE u[j] = w[j]
    <3>1. PICK y : y = i + j - 1
      OBVIOUS
    <3>2. PICK z : z = c + j - 1
      OBVIOUS
    <3>3. y \in 1 .. Len(s) /\ z \in 1 .. Len(s) /\ j \in 1 .. n
      BY <1>1, <1>2, <1>4, <1>6, <3>1, <3>2
    <3>4. x[y] = x[z] /\ x[y] = s[y] /\ x[z] = s[z]
      BY <1>1, <1>10, <3>1, <3>2, <3>3
    <3> QED BY <2>7, <2>8, <3>1, <3>2, <3>4
  <2>10. u = w
    BY <2>7, <2>8, <2>9, SeqEqual
  <2> QED BY <2>1, <2>2, <2>5, <2>6, <2>10
<1>13. i \in 1 .. Len(s) - n + 1 /\ ~ (n < 2 \/ Len(s) < n)
  BY <1>1, <1>2
<1> QED BY <1>11, <1>12, <1>13 DEF T!BanRepeatNgram

-----------------------------------------------------------------------------
(* What a setup determines. *)
Name == {T!IdOf(x) : x \in Word}
Msg  == [role : Word, content : Seq(Word)]

LEMMA NameOf == \A x \in Word : T!IdOf(x) \in Name
BY DEF Name

\* The words of the templates are words.
LEMMA Literals ==
  /\ {"nl", "model", "<bos>", "<|turn>", "<turn|>"} \subseteq Word
  /\ <<"n", "n", "u">> \in Seq(Word) /\ <<"n", "u", "n">> \in Seq(Word) /\ <<"model">> \in Seq(Word)
  /\ <<"<|im_start|>", "assistant", "nl">> \in Seq(Word) /\ <<"<|im_end|>", "nl">> \in Seq(Word)
  /\ <<"<start_of_turn>", "model", "nl">> \in Seq(Word) /\ <<"<end_of_turn>", "nl">> \in Seq(Word)
  /\ "system" \in Word /\ <<>> \in Seq(Word)
BY DEF Word

LEMMA Opened == \A r \in Word : <<"<|im_start|>", r, "nl">> \in Seq(Word) /\ <<"<start_of_turn>", r, "nl">> \in Seq(Word)
BY DEF Word

LEMMA MsgIs ==
  ASSUME NEW msgs \in Seq(Msg)
  PROVE  /\ DOMAIN msgs = 1 .. Len(msgs) /\ Len(msgs) \in Nat
         /\ \A i \in 1 .. Len(msgs) : msgs[i].role \in Word /\ msgs[i].content \in Seq(Word) /\ T!Role(msgs[i]) \in Word
<1>1. ASSUME NEW x \in Msg PROVE x.role \in Word /\ x.content \in Seq(Word)
  BY DEF Msg
<1>2. ASSUME NEW x \in Msg PROVE T!Role(x) \in Word
  BY <1>1, Literals DEF T!Role
<1>3. \A i \in 1 .. Len(msgs) : msgs[i] \in Msg
  OBVIOUS
<1> QED BY <1>1, <1>2, <1>3

\* What the code takes from a setup: bytes of a token, stop strings.
LEMMA SetupTypes ==
  ASSUME T!StreamAssumption, setup \in Setup
  PROVE  /\ T!Ids = 1 .. T!LastId /\ T!LastId \in T!Ids
         /\ \A id \in T!Ids : T!Bytes(id) \in Seq(Word) /\ Surface[setup.vocab[id]] \in Seq(Word)
         /\ T!Stops \in Seq(Seq(Word))
         /\ setup.ngram \in Nat /\ setup.max_tokens \in Nat
         /\ setup.messages \in Seq(Msg)
<1>1. /\ {"<|turn>", "<turn|>"} \subseteq DOMAIN Surface
      /\ \A name \in DOMAIN Surface : Surface[name] \in Seq(Word)
      /\ setup.vocab \in Seq(DOMAIN Surface) \ {<<>>}
      /\ setup.messages \in Seq(Msg)
      /\ setup.stops \in Seq(Seq(Word))
      /\ {setup.ngram, setup.max_tokens} \subseteq Nat
  <2>1. /\ {"<|turn>", "<turn|>"} \subseteq DOMAIN Surface
        /\ \A name \in DOMAIN Surface : Surface[name] \in Seq(STRING)
        /\ setup.vocab \in Seq(DOMAIN Surface) \ {<<>>}
        /\ setup.messages \in Seq([role : STRING, content : Seq(STRING)])
        /\ setup.stops \in Seq(Seq(STRING))
        /\ {setup.ngram, setup.max_tokens} \subseteq Nat
    BY DEF T!StreamAssumption
  <2>2. [role : STRING, content : Seq(STRING)] \subseteq Msg
    BY WordsAre DEF Msg, Word
  <2>3. Seq([role : STRING, content : Seq(STRING)]) \subseteq Seq(Msg)
    BY <2>2, SeqMonotonic
  <2> QED BY <2>1, <2>3, WordsAre
<1>2. PICK v : v = setup.vocab
  OBVIOUS
<1>3. DOMAIN v = 1 .. Len(v) /\ Len(v) \in 1 .. Len(v) /\ \A id \in DOMAIN v : v[id] \in DOMAIN Surface
  BY <1>1, <1>2
<1>4. T!Ids = 1 .. T!LastId /\ T!LastId \in T!Ids
  BY <1>2, <1>3 DEF T!Ids, T!LastId
<1>5. \A id \in T!Ids : T!Bytes(id) \in Seq(Word) /\ Surface[setup.vocab[id]] \in Seq(Word)
  BY <1>1, <1>2, <1>3 DEF T!Ids, T!Bytes
<1>6. T!DefaultStops \in Seq(Seq(Word))
  <2>1. PICK s1 \in Seq(Word) : s1 = Surface["<|turn>"]
    BY <1>1
  <2>2. PICK s2 \in Seq(Word) : s2 = Surface["<turn|>"]
    BY <1>1
  <2>3. <<s1, s2, <<"n", "n", "u">>, <<"n", "u", "n">>>> \in Seq(Seq(Word))
    <3>1. <<"n", "n", "u">> \in Seq(Word) /\ <<"n", "u", "n">> \in Seq(Word)
      BY Literals
    <3>2. PICK s3 \in Seq(Word) : s3 = <<"n", "n", "u">>
      BY <3>1
    <3>3. PICK s4 \in Seq(Word) : s4 = <<"n", "u", "n">>
      BY <3>1
    <3>4. <<s1, s2, s3, s4>> \in Seq(Seq(Word))
      OBVIOUS
    <3> QED BY <3>2, <3>3, <3>4
  <2> QED BY <2>1, <2>2, <2>3 DEF T!DefaultStops
<1> QED BY <1>1, <1>4, <1>5, <1>6 DEF T!Stops

\* The prompt is a sequence of ids: the templates and encoders, part by part.
LEMMA BosIs == T!Bos \in Seq(Name)
<1>1. PICK n \in Nat : n = IF T!Named({"<bos>"}) = {} THEN 0 ELSE 1
  OBVIOUS
<1>2. PICK b \in Name : b = T!IdOf("<bos>")
  BY NameOf, Literals
<1>3. T!Bos = [i \in 1 .. n |-> b]
  BY <1>1, <1>2 DEF T!Bos
<1>4. [i \in 1 .. n |-> b] \in Seq(Name)
  OBVIOUS
<1> QED BY <1>3, <1>4

LEMMA EncodeIs ==
  ASSUME NEW text \in Seq(Word)
  PROVE  T!Encode(text) \in Seq(Name) /\ T!EncodeNoBos(text) \in Seq(Name)
<1>1. [i \in DOMAIN text |-> T!IdOf(text[i])] \in Seq(Name)
  <2>1. DOMAIN text = 1 .. Len(text) /\ Len(text) \in Nat /\ \A i \in 1 .. Len(text) : text[i] \in Word
    OBVIOUS
  <2>2. \A i \in 1 .. Len(text) : T!IdOf(text[i]) \in Name
    BY <2>1, NameOf
  <2>3. [i \in 1 .. Len(text) |-> T!IdOf(text[i])] \in Seq(Name)
    BY <2>1, <2>2
  <2> QED BY <2>1, <2>3
<1>2. (IF setup.lane = "gemma4" THEN T!Bos ELSE <<>>) \in Seq(Name)
  BY BosIs
<1>3. PICK ids : ids = T!Encode(text)
  OBVIOUS
<1>4. ids \in Seq(Name)
  BY <1>1, <1>2, <1>3 DEF T!Encode
<1>5. T!IsPrefix(T!Bos, ids) /\ T!Bos # <<>> => Tail(ids) \in Seq(Name)
  <2> SUFFICES ASSUME T!IsPrefix(T!Bos, ids), T!Bos # <<>> PROVE Tail(ids) \in Seq(Name)
    OBVIOUS
  <2>1. PICK b \in Seq(Name) : b = T!Bos
    BY BosIs
  <2>2. Len(b) <= Len(ids) /\ b # <<>>
    BY <2>1 DEF T!IsPrefix
  <2>3. ids # <<>>
    BY <2>2, <1>4
  <2> QED BY <1>4, <2>3
<1>6. T!EncodeNoBos(text) \in Seq(Name)
  BY <1>3, <1>4, <1>5 DEF T!EncodeNoBos
<1> QED BY <1>3, <1>4, <1>6

LEMMA TemplatesAre ==
  ASSUME NEW msgs \in Seq(Msg)
  PROVE  T!ChatmlTemplate(msgs) \in Seq(Word) /\ T!Gemma3Template(msgs) \in Seq(Word)
<1>1. /\ DOMAIN msgs = 1 .. Len(msgs) /\ Len(msgs) \in Nat
      /\ \A i \in 1 .. Len(msgs) : msgs[i].role \in Word /\ msgs[i].content \in Seq(Word) /\ T!Role(msgs[i]) \in Word
  BY MsgIs
<1> DEFINE Said(role, text) == <<"<|im_start|>", role, "nl">> \o text \o <<"<|im_end|>", "nl">>
           Gem(i) == <<"<start_of_turn>", T!Role(msgs[i]), "nl">> \o msgs[i].content \o <<"<end_of_turn>", "nl">>
           p == [i \in DOMAIN msgs |-> Said(msgs[i].role, msgs[i].content)]
           q == [i \in DOMAIN msgs |-> Gem(i)]
<1>2. ASSUME NEW role \in Word, NEW text \in Seq(Word) PROVE Said(role, text) \in Seq(Word)
  <2>1. <<"<|im_start|>", role, "nl">> \in Seq(Word) /\ <<"<|im_end|>", "nl">> \in Seq(Word)
    BY Literals, Opened
  <2> QED BY <2>1
<1>3. ASSUME NEW i \in 1 .. Len(msgs) PROVE Gem(i) \in Seq(Word)
  <2>1. PICK r \in Word : r = T!Role(msgs[i])
    BY <1>1
  <2>2. PICK c \in Seq(Word) : c = msgs[i].content
    BY <1>1
  <2>3. <<"<start_of_turn>", r, "nl">> \in Seq(Word) /\ <<"<end_of_turn>", "nl">> \in Seq(Word)
    BY Literals, Opened
  <2>4. <<"<start_of_turn>", r, "nl">> \o c \o <<"<end_of_turn>", "nl">> \in Seq(Word)
    BY <2>3
  <2> QED BY <2>1, <2>2, <2>4
<1>4. p \in Seq(Seq(Word)) /\ q \in Seq(Seq(Word))
  <2>1. \A i \in 1 .. Len(msgs) : Said(msgs[i].role, msgs[i].content) \in Seq(Word)
    BY <1>1, <1>2
  <2> HIDE DEF Said, Gem
  <2> QED BY <1>1, <1>3, <2>1
<1>5. T!FlattenSeq(p) \in Seq(Word) /\ T!FlattenSeq(q) \in Seq(Word)
  <2> HIDE DEF p, q
  <2> QED BY <1>4, FlattenTypes
<1>6. T!ChatmlTemplate(msgs) \in Seq(Word)
  <2>1. Said("system", <<>>) \in Seq(Word)
    <3>1. "system" \in Word /\ <<>> \in Seq(Word)
      BY Literals
    <3> HIDE DEF Said
    <3> QED BY <1>2, <3>1
  <2>2. PICK a \in Seq(Word) : a = IF msgs # <<>> /\ msgs[1].role = "system" THEN <<>> ELSE Said("system", <<>>)
    <3>1. <<>> \in Seq(Word)
      BY Literals
    <3> HIDE DEF Said
    <3> QED BY <2>1, <3>1
  <2>3. PICK b \in Seq(Word) : b = T!FlattenSeq(p)
    BY <1>5
  <2>4. T!ChatmlTemplate(msgs) = a \o b \o <<"<|im_start|>", "assistant", "nl">>
    BY <2>2, <2>3 DEF T!ChatmlTemplate
  <2>5. <<"<|im_start|>", "assistant", "nl">> \in Seq(Word)
    BY Literals
  <2>6. a \o b \o <<"<|im_start|>", "assistant", "nl">> \in Seq(Word)
    BY <2>5
  <2> HIDE DEF p, Said
  <2> QED BY <2>4, <2>6
<1>7. T!Gemma3Template(msgs) \in Seq(Word)
  <2>1. PICK b \in Seq(Word) : b = T!FlattenSeq(q)
    BY <1>5
  <2>2. T!Gemma3Template(msgs) = b \o <<"<start_of_turn>", "model", "nl">>
    BY <2>1 DEF T!Gemma3Template
  <2>3. <<"<start_of_turn>", "model", "nl">> \in Seq(Word)
    BY Literals
  <2>4. b \o <<"<start_of_turn>", "model", "nl">> \in Seq(Word)
    BY <2>3
  <2> HIDE DEF q
  <2> QED BY <2>2, <2>4
<1> QED BY <1>6, <1>7

LEMMA TurnIdsAre ==
  ASSUME NEW msgs \in Seq(Msg)
  PROVE  T!TurnIds(msgs) \in Seq(Name)
<1>1. /\ DOMAIN msgs = 1 .. Len(msgs) /\ Len(msgs) \in Nat
      /\ \A i \in 1 .. Len(msgs) : msgs[i].content \in Seq(Word) /\ T!Role(msgs[i]) \in Word
  BY MsgIs
<1>2. PICK a \in Name : a = T!IdOf("<|turn>")
  BY NameOf, Literals
<1>3. PICK b \in Name : b = T!IdOf("nl")
  BY NameOf, Literals
<1>4. PICK c \in Name : c = T!IdOf("<turn|>")
  BY NameOf, Literals
<1> DEFINE One(i) == <<a>> \o T!EncodeNoBos(<<T!Role(msgs[i])>>) \o <<b>> \o T!EncodeNoBos(msgs[i].content) \o <<c, b>>
           q == [i \in DOMAIN msgs |-> One(i)]
<1>5. <<a>> \in Seq(Name) /\ <<b>> \in Seq(Name) /\ <<c, b>> \in Seq(Name)
  OBVIOUS
<1>6. ASSUME NEW i \in 1 .. Len(msgs) PROVE One(i) \in Seq(Name)
  <2>1. PICK r \in Word : r = T!Role(msgs[i])
    BY <1>1
  <2>2. <<r>> \in Seq(Word)
    OBVIOUS
  <2>3. PICK d \in Seq(Name) : d = T!EncodeNoBos(<<r>>)
    BY <2>2, EncodeIs
  <2>4. PICK e \in Seq(Name) : e = T!EncodeNoBos(msgs[i].content)
    BY <1>1, EncodeIs
  <2>5. One(i) = <<a>> \o d \o <<b>> \o e \o <<c, b>>
    BY <2>1, <2>3, <2>4
  <2>6. <<a>> \o d \o <<b>> \o e \o <<c, b>> \in Seq(Name)
    BY <1>5
  <2> HIDE DEF One
  <2> QED BY <2>5, <2>6
<1>7. q \in Seq(Seq(Name))
  <2> HIDE DEF One
  <2> QED BY <1>1, <1>6
<1>8. PICK f \in Seq(Name) : f = T!FlattenSeq(q)
  <2>1. PICK S : S = Name
    OBVIOUS
  <2> HIDE DEF q
  <2> QED BY <1>7, <2>1, FlattenTypes
<1>9. PICK g \in Seq(Name) : g = T!EncodeNoBos(<<"model">>)
  <2>1. <<"model">> \in Seq(Word)
    BY Literals
  <2> QED BY <2>1, EncodeIs
<1>10. PICK h \in Seq(Name) : h = T!Bos
  BY BosIs
<1>11. T!TurnIds(msgs) = h \o f \o <<a>> \o g \o <<b>>
  BY <1>2, <1>3, <1>4, <1>8, <1>9, <1>10 DEF T!TurnIds
<1>12. h \o f \o <<a>> \o g \o <<b>> \in Seq(Name)
  BY <1>5
<1> HIDE DEF q
<1> QED BY <1>11, <1>12

LEMMA PromptIs == T!StreamAssumption /\ setup \in Setup => T!PromptIds \in Seq(Name)
<1> SUFFICES ASSUME T!StreamAssumption, setup \in Setup PROVE T!PromptIds \in Seq(Name)
  OBVIOUS
<1>1. setup.messages \in Seq(Msg)
  BY SetupTypes
<1>2. /\ T!Encode(T!ChatmlTemplate(setup.messages)) \in Seq(Name)
      /\ T!Encode(T!Gemma3Template(setup.messages)) \in Seq(Name)
  BY <1>1, TemplatesAre, EncodeIs
<1>3. T!TurnIds(setup.messages) \in Seq(Name)
  BY <1>1, TurnIdsAre
<1> QED BY <1>2, <1>3 DEF T!PromptIds

-----------------------------------------------------------------------------
(* The stream. *)
Underway == {"prefill", "decode"}
Overs   == {"refused", "length", "eos", "stop", "failed", "hung up"}

StreamTypes ==
  /\ setup \in Setup
  /\ StopsAre /\ \E S : turn.tokens \in Seq(S)
  /\ at \in Underway \cup Overs
  /\ history \in Seq(T!Ids) /\ buf \in Seq(Word) /\ shown \in Seq(Word)
  /\ fed \in Nat /\ fed <= Len(history)
  /\ at = "prefill" => fed = 0 /\ history = <<>> /\ shown = <<>> /\ buf = <<>>
  /\ at = "decode" => Len(history) = fed + 1

\* No stop string that is not empty is in a text.
NoStop(d) == \A i \in DOMAIN turn.stops : turn.stops[i] # <<>> => T!Found(d, turn.stops[i]) = {}

OnTheWay ==
  at \in Underway => /\ shown \o buf = T!Decoded /\ NoStop(T!Decoded)
                     /\ T!WholeCharacters(shown)
                     /\ shown = <<>> \/ T!Hold <= Len(buf)

StreamInv == StreamTypes /\ OnTheWay /\ (at \in Overs => T!ShownIsText) /\ T!NoRecital

\* What has been decoded, and what the next token adds.
LEMMA DecodedTypes ==
  ASSUME T!StreamAssumption, StreamTypes
  PROVE  /\ T!Decoded \in Seq(Word)
         /\ at = "decode" => T!NextToken \in T!Ids /\ T!NextToken = history[fed + 1]
                             /\ T!Bytes(T!NextToken) \in Seq(Word)
                             /\ TextOf(setup.vocab, history, fed + 1) = T!Decoded \o T!Bytes(T!NextToken)
<1>1. setup \in Setup /\ history \in Seq(T!Ids) /\ fed \in Nat /\ fed <= Len(history) /\ Len(history) \in Nat
  BY DEF StreamTypes
<1>2. \A i \in 1 .. Len(history) : history[i] \in T!Ids /\ Surface[setup.vocab[history[i]]] \in Seq(Word)
  <2>1. PICK S : S = T!Ids
    OBVIOUS
  <2>2. \A i \in 1 .. Len(history) : history[i] \in S
    BY <1>1, <2>1, ElementOfSeq
  <2> QED BY <1>1, <2>1, <2>2, SetupTypes
<1>3. T!Decoded \in Seq(Word)
  <2>1. CASE fed = 0
    BY <2>1, DecodedIs, TextOfNone, Literals
  <2>2. CASE fed # 0
    <3>1. PICK n \in Nat : n + 1 = fed
      <4>1. fed - 1 \in Nat /\ fed - 1 + 1 = fed
        BY <1>1, <2>2
      <4> QED BY <4>1
    <3>2. \A i \in 1 .. n + 1 : Surface[setup.vocab[history[i]]] \in Seq(Word)
      BY <1>1, <1>2, <3>1
    <3>3. /\ TextOf(setup.vocab, history, n) \in Seq(Word)
          /\ TextOf(setup.vocab, history, n + 1) = TextOf(setup.vocab, history, n) \o Surface[setup.vocab[history[n + 1]]]
      <4>1. PICK v : v = setup.vocab
        OBVIOUS
      <4>2. PICK h : h = history
        OBVIOUS
      <4> QED BY <3>2, <4>1, <4>2, TextGrows
    <3>4. Surface[setup.vocab[history[n + 1]]] \in Seq(Word)
      BY <3>2
    <3>5. TextOf(setup.vocab, history, n + 1) \in Seq(Word)
      <4>1. PICK a \in Seq(Word) : a = TextOf(setup.vocab, history, n)
        BY <3>3
      <4>2. PICK b \in Seq(Word) : b = Surface[setup.vocab[history[n + 1]]]
        BY <3>4
      <4>3. a \o b \in Seq(Word)
        OBVIOUS
      <4> QED BY <3>3, <4>1, <4>2, <4>3
    <3> QED BY <3>1, <3>5, DecodedIs
  <2> QED BY <2>1, <2>2
<1>4. ASSUME at = "decode"
      PROVE  /\ T!NextToken \in T!Ids /\ T!NextToken = history[fed + 1]
             /\ T!Bytes(T!NextToken) \in Seq(Word)
             /\ TextOf(setup.vocab, history, fed + 1) = T!Decoded \o T!Bytes(T!NextToken)
  <2>1. Len(history) = fed + 1
    BY <1>4 DEF StreamTypes
  <2>2. T!NextToken = history[fed + 1]
    BY <2>1 DEF T!NextToken
  <2>3. fed + 1 \in 1 .. Len(history)
    BY <1>1, <2>1
  <2>4. \A i \in 1 .. fed + 1 : Surface[setup.vocab[history[i]]] \in Seq(Word)
    BY <1>2, <2>1
  <2>5. TextOf(setup.vocab, history, fed + 1) = TextOf(setup.vocab, history, fed) \o Surface[setup.vocab[history[fed + 1]]]
    <3>1. PICK v : v = setup.vocab
      OBVIOUS
    <3>2. PICK h : h = history
      OBVIOUS
    <3>3. PICK n \in Nat : n = fed
      BY <1>1
    <3> QED BY <2>4, <3>1, <3>2, <3>3, TextGrows
  <2>6. T!Bytes(T!NextToken) = Surface[setup.vocab[history[fed + 1]]]
    BY <2>2 DEF T!Bytes
  <2>7. T!NextToken \in T!Ids /\ T!Bytes(T!NextToken) \in Seq(Word)
    BY <1>2, <2>2, <2>3, <2>6
  <2> QED BY <2>2, <2>5, <2>6, <2>7, DecodedIs
<1> QED BY <1>3, <1>4

\* A token that completes no stop string leaves none in the text.
LEMMA NoneCompleted ==
  ASSUME StopsAre, NEW d \in Seq(Word), NEW u \in Seq(Word), NEW w \in Seq(Word), NEW b \in Seq(Word),
         d = u \o w, NoStop(d), u = <<>> \/ T!Hold <= Len(w), ~ T!Stopped(w \o b)
  PROVE  NoStop(d \o b)
<1> SUFFICES ASSUME NEW i \in DOMAIN turn.stops, turn.stops[i] # <<>>, NEW k \in T!Found(d \o b, turn.stops[i])
             PROVE  FALSE
  BY DEF NoStop
<1>1. PICK st : st = turn.stops[i]
  OBVIOUS
<1>2. st \in Seq(Word) /\ st # <<>> /\ Len(st) \in Nat /\ Len(st) > 0 /\ Len(st) - 1 <= T!Hold /\ T!Hold \in Nat
  <2>1. st \in Seq(Word)
    BY <1>1 DEF StopsAre
  <2>2. Len(st) - 1 <= T!Hold /\ T!Hold \in Nat
    BY <1>1, HoldIs
  <2> QED BY <1>1, <2>1, <2>2
<1>3. d \o b \in Seq(Word) /\ w \o b \in Seq(Word) /\ d \o b = u \o (w \o b)
  <2>1. (u \o w) \o b = u \o (w \o b)
    BY ConcatAssociative
  <2> QED BY <2>1
<1>4. k \in Int /\ k \in T!Found(d \o b, st)
  BY <1>1 DEF T!Found
<1>5. Len(u) \in Nat /\ Len(w) \in Nat /\ Len(d) = Len(u) + Len(w)
  OBVIOUS
<1>6. T!Found(w \o b, st) = {} /\ T!Found(d, st) = {}
  BY <1>1, <1>2 DEF T!Stopped, T!Hit, NoStop
<1>7. CASE k > Len(u)
  <2>1. PICK x \in Seq(Word) : x = w \o b
    BY <1>3
  <2>2. k \in T!Found(u \o x, st)
    BY <1>3, <1>4, <2>1
  <2>3. k - Len(u) \in T!Found(x, st)
    BY <1>2, <1>4, <1>7, <2>2, FoundJoined
  <2> QED BY <1>6, <2>1, <2>3
<1>8. CASE ~ (k > Len(u))
  <2>1. k >= 1
    BY <1>4 DEF T!Found
  <2>2. u # <<>>
    BY <1>4, <1>5, <1>8, <2>1
  <2>3. k + Len(st) - 1 <= Len(d)
    BY <1>2, <1>4, <1>5, <1>8, <2>2
  <2>4. k \in T!Found(d, st)
    BY <1>2, <1>4, <2>3, FoundJoined
  <2> QED BY <1>6, <2>4
<1> QED BY <1>7, <1>8

\* What is shown of a text and its last token: no stop string that the text had before.
LEMMA LastCompletes ==
  ASSUME StopsAre, NEW d \in Seq(Word), NEW b \in Seq(Word), NEW sh \in Seq(Word), NEW r \in Seq(Word),
         sh \o r = d \o b, NoStop(d)
  PROVE  /\ T!IsPrefix(sh, d \o b)
         /\ \A i \in DOMAIN turn.stops : turn.stops[i] # <<>> =>
              \A k \in T!Found(sh, turn.stops[i]) : k + Len(turn.stops[i]) - 1 > Len(d)
<1>1. T!IsPrefix(sh, d \o b)
  BY BeginsWith
<1>2. ASSUME NEW i \in DOMAIN turn.stops, turn.stops[i] # <<>>, NEW k \in T!Found(sh, turn.stops[i])
      PROVE  k + Len(turn.stops[i]) - 1 > Len(d)
  <2>1. PICK st : st = turn.stops[i]
    OBVIOUS
  <2>2. st \in Seq(Word) /\ Len(st) \in Nat /\ Len(d) \in Nat /\ k \in Int /\ k \in T!Found(sh, st)
    BY <2>1 DEF StopsAre, T!Found
  <2>3. k \in T!Found(sh \o r, st)
    BY <2>2, FoundJoined
  <2>4. k \in T!Found(d \o b, st)
    BY <2>3
  <2>5. k \notin T!Found(d, st)
    BY <1>2, <2>1 DEF NoStop
  <2>6. ~ (k + Len(st) - 1 <= Len(d))
    BY <2>2, <2>4, <2>5, FoundJoined
  <2> QED BY <2>1, <2>2, <2>6
<1> QED BY <1>1, <1>2

\* No stop string is in the empty text.
LEMMA NoneInNone == ASSUME StopsAre PROVE NoStop(<<>>)
<1> SUFFICES ASSUME NEW i \in DOMAIN turn.stops, turn.stops[i] # <<>>, NEW k \in T!Found(<<>>, turn.stops[i])
             PROVE  FALSE
  BY DEF NoStop
<1>1. PICK st \in Seq(Word) : st = turn.stops[i]
  BY DEF StopsAre
<1>2. Len(st) \in Nat /\ Len(st) > 0
  BY <1>1
<1>3. k \in 1 .. 0 - Len(st) + 1
  BY <1>1 DEF T!Found
<1> QED BY <1>2, <1>3

LEMMA StreamInit == T!StreamAssumption /\ T!Init => StreamInv
<1> SUFFICES ASSUME T!StreamAssumption, T!Init PROVE StreamInv
  OBVIOUS
<1>1. /\ setup \in Setup /\ at = "prefill" /\ history = <<>> /\ buf = <<>> /\ shown = <<>> /\ fed = 0
      /\ turn.stops = T!Stops /\ turn.tokens = T!PromptIds
  BY DEF T!Init
<1>2. StopsAre
  BY <1>1, SetupTypes DEF StopsAre
<1>3. \E S : turn.tokens \in Seq(S)
  BY <1>1, PromptIs
<1>4. <<>> \in Seq(Word) /\ <<>> \in Seq(T!Ids) /\ Len(<<>>) = 0
  OBVIOUS
<1>5. StreamTypes
  BY <1>1, <1>2, <1>3, <1>4 DEF StreamTypes, Underway, Overs
<1>6. T!Decoded = <<>>
  BY <1>1, DecodedIs, TextOfNone
<1>7. T!WholeCharacters(<<>>) /\ <<>> \o <<>> = <<>>
  BY DEF T!WholeCharacters
<1>8. OnTheWay
  BY <1>1, <1>2, <1>6, <1>7, NoneInNone DEF OnTheWay
<1>9. T!NoRecital
  BY <1>1 DEF T!NoRecital
<1> QED BY <1>1, <1>5, <1>8, <1>9 DEF StreamInv, Overs

\* No n-gram is completed a second time, of all tokens that are not suppressed.
Fresh(s, n, all, suppress) ==
  \A i \in 1 .. (Len(s) - n + 1) - 1 :
    SubSeq(s, i, i + n - 1) = SubSeq(s, Len(s) - n + 1, Len(s)) =>
      all \subseteq suppress \union T!BanRepeatNgram(T!Front(s), n)

\* NoRecital, of one sequence.
LEMMA NoRecitalIs ==
  /\ T!NoRecital <=>
       (setup.ngram >= 2 => (history # <<>> => Fresh(turn.tokens \o history, setup.ngram, T!Ids, turn.suppress)))
  /\ T!NoRecital' <=>
       (setup'.ngram >= 2 => (history' # <<>> => Fresh(turn'.tokens \o history', setup'.ngram, T!Ids', turn'.suppress)))
<1>1. T!NoRecital <=>
       (setup.ngram >= 2 => (history # <<>> => Fresh(turn.tokens \o history, setup.ngram, T!Ids, turn.suppress)))
  BY DEF T!NoRecital, Fresh
<1>2. T!NoRecital' <=>
       (setup'.ngram >= 2 => (history' # <<>> => Fresh(turn'.tokens \o history', setup'.ngram, T!Ids', turn'.suppress)))
  BY DEF T!NoRecital, Fresh
<1> QED BY <1>1, <1>2

\* The guard against recitals, when a token is drawn.
LEMMA DrawIs ==
  ASSUME T!StreamAssumption, StreamTypes, T!Draw, UNCHANGED <<setup, turn>>
  PROVE  T!NoRecital' /\ \E id \in T!Ids : history' = Append(history, id)
<1>1. PICK first : \E id \in T!Sample(first) : history' = Append(history, id)
  BY DEF T!Draw
<1>101. PICK id \in T!Sample(first) : history' = Append(history, id)
  BY <1>1
<1>2. T!Sample(first) \subseteq T!Ids
  <2>1. T!LastId \in T!Ids
    BY SetupTypes DEF StreamTypes
  <2> QED BY <2>1 DEF T!Sample
<1>3. PICK R0 : turn.tokens \in Seq(R0)
  BY DEF StreamTypes
<1>4. PICK U : U = R0 \cup T!Ids
  OBVIOUS
<1>5. PICK p \in Seq(U) : p = turn.tokens
  <2>1. R0 \subseteq U
    BY <1>4
  <2> QED BY <1>3, <2>1, SeqMonotonic
<1>6. PICK h \in Seq(U) : h = history
  <2>1. PICK V : V = T!Ids
    OBVIOUS
  <2>2. V \subseteq U /\ history \in Seq(V)
    BY <1>4, <2>1 DEF StreamTypes
  <2> QED BY <2>2, SeqMonotonic
<1>7. id \in U /\ id \in T!Ids
  BY <1>101, <1>2, <1>4
<1>8. PICK s : s = p \o h
  OBVIOUS
<1>9. PICK x : x = Append(s, id)
  OBVIOUS
<1>10. s \in Seq(U) /\ x \in Seq(U) /\ p \o Append(h, id) = x /\ Len(x) = Len(s) + 1 /\ Len(s) \in Nat
  <2>1. s \in Seq(U)
    BY <1>8
  <2>2. Append(h, id) = h \o <<id>> /\ Append(s, id) = s \o <<id>> /\ <<id>> \in Seq(U)
    BY <1>7, <2>1, AppendIsConcat
  <2>3. (p \o h) \o <<id>> = p \o (h \o <<id>>)
    BY <2>2, ConcatAssociative
  <2> QED BY <1>7, <1>8, <1>9, <2>1, <2>2, <2>3
<1>11. T!Front(x) = s
  <2>1. SubSeq(s \o <<id>>, 1, Len(s)) = s
    <3>1. <<id>> \in Seq(U)
      BY <1>7
    <3> QED BY <1>10, <3>1, BeginsWith
  <2>2. x = s \o <<id>> /\ Len(x) - 1 = Len(s)
    BY <1>7, <1>9, <1>10, AppendIsConcat
  <2> QED BY <2>1, <2>2 DEF T!Front
<1>12. PICK n \in Nat : n = setup.ngram
  BY SetupTypes DEF StreamTypes
<1>13. T!Masked = turn.suppress \cup T!BanRepeatNgram(s, n)
  BY <1>5, <1>6, <1>8, <1>12 DEF T!Masked
<1>14. id \in T!BanRepeatNgram(s, n) => T!Ids \subseteq turn.suppress \cup T!BanRepeatNgram(s, n)
  <2> SUFFICES ASSUME id \in T!BanRepeatNgram(s, n), T!Ids \ T!Masked # {} PROVE FALSE
    BY <1>13
  <2>1. id \in T!Ids \ T!Masked
    BY <1>101 DEF T!Sample
  <2> QED BY <1>13, <2>1
<1>15. ASSUME n >= 2, NEW i \in 1 .. (Len(x) - n + 1) - 1,
              SubSeq(x, i, i + n - 1) = SubSeq(x, Len(x) - n + 1, Len(x))
       PROVE  T!Ids \subseteq turn.suppress \cup T!BanRepeatNgram(s, n)
  <2>1. i \in 1 .. Len(x) - n
    BY <1>10, <1>15
  <2>2. id \in T!BanRepeatNgram(s, n)
    BY <1>7, <1>9, <1>10, <1>15, <2>1, BannedNext
  <2> QED BY <1>14, <2>2
<1>16. turn'.tokens \o history' = x /\ setup'.ngram = n /\ turn'.suppress = turn.suppress /\ T!Ids' = T!Ids
  BY <1>101, <1>5, <1>6, <1>10, <1>12 DEF T!Ids
<1>17. T!NoRecital'
  <2>1. n >= 2 => Fresh(x, n, T!Ids, turn.suppress)
    BY <1>11, <1>15 DEF Fresh
  <2> QED BY <1>16, <2>1, NoRecitalIs
<1> QED BY <1>101, <1>7, <1>17

\* What stays as it is while nothing is drawn, or no token is pushed.
LEMMA SameRecitals == ASSUME T!NoRecital, UNCHANGED <<setup, turn, history>> PROVE T!NoRecital'
BY NoRecitalIs DEF T!Ids

LEMMA SameText == ASSUME UNCHANGED <<setup, history, fed>> PROVE T!Decoded' = T!Decoded
BY DEF T!Decoded, T!Bytes

\* A pushed token adds its bytes to the decoded text.
LEMMA NextText ==
  ASSUME T!StreamAssumption, StreamTypes, at = "decode", setup' = setup, fed' = fed + 1,
         history' = history \/ \E id \in T!Ids : history' = Append(history, id)
  PROVE  /\ T!Decoded' = T!Decoded \o T!Bytes(T!NextToken)
         /\ T!Bytes(history[fed])' = T!Bytes(T!NextToken)
<1>1. /\ fed \in Nat /\ Len(history) = fed + 1 /\ history \in Seq(T!Ids)
  BY DEF StreamTypes
<1>2. \A i \in 1 .. fed + 1 : history'[i] = history[i]
  <2>1. CASE history' = history
    BY <2>1
  <2>2. ASSUME NEW id \in T!Ids, history' = Append(history, id) PROVE \A i \in 1 .. fed + 1 : history'[i] = history[i]
    <3>1. PICK V : V = T!Ids
      OBVIOUS
    <3>2. PICK h \in Seq(V) : h = history
      BY <1>1, <3>1
    <3>3. \A i \in 1 .. Len(h) : Append(h, id)[i] = h[i]
      BY <3>1, <3>2
    <3> QED BY <1>1, <2>2, <3>2, <3>3
  <2> QED BY <2>1, <2>2
<1>3. T!Decoded' = TextOf(setup.vocab, history', fed + 1)
  BY DEF T!Decoded, T!Bytes, TextOf
<1>4. TextOf(setup.vocab, history', fed + 1) = TextOf(setup.vocab, history, fed + 1)
  <2>1. PICK v : v = setup.vocab
    OBVIOUS
  <2>2. PICK h : h = history
    OBVIOUS
  <2>3. PICK g : g = history'
    OBVIOUS
  <2>4. PICK n : n = fed + 1
    OBVIOUS
  <2>5. \A i \in 1 .. n : g[i] = h[i]
    BY <1>2, <2>2, <2>3, <2>4
  <2>6. TextOf(v, g, n) = TextOf(v, h, n)
    BY <2>5, TextSame
  <2> QED BY <2>1, <2>2, <2>3, <2>4, <2>6
<1>5. history'[fed'] = T!NextToken
  <2>1. fed + 1 \in 1 .. fed + 1
    BY <1>1
  <2> QED BY <1>2, <2>1, DecodedTypes
<1>6. T!Bytes(history[fed])' = T!Bytes(T!NextToken)
  BY <1>5 DEF T!Bytes
<1> QED BY <1>3, <1>4, <1>6, DecodedTypes

LEMMA SameStops ==
  ASSUME UNCHANGED turn
  PROVE  (StopsAre => StopsAre') /\ T!Hold' = T!Hold /\ \A d : NoStop(d)' <=> NoStop(d)
BY DEF StopsAre, T!Hold, NoStop

\* What is said of a stream that is over, from its text.
LEMMA TextShown ==
  ASSUME turn' = turn, NEW d \in Seq(Word), NEW b \in Seq(Word),
         fed' # 0, T!Decoded' = d \o b, T!Bytes(history[fed])' = b, at' \in Overs,
         T!IsPrefix(shown', d \o b),
         at' \in {"eos", "length", "failed"} => shown' = d \o b,
         at' = "stop" => \E i \in DOMAIN turn.stops : Len(shown') + 1 \in T!Found(d \o b, turn.stops[i]),
         \A i \in DOMAIN turn.stops : turn.stops[i] # <<>> =>
           \A k \in T!Found(shown', turn.stops[i]) : k + Len(turn.stops[i]) - 1 > Len(d)
  PROVE  T!ShownIsText'
<1>1. at' # "decode"
  BY DEF Overs
<1>2. Len(d \o b) - Len(b) = Len(d)
  <2>1. Len(d) \in Nat /\ Len(b) \in Nat /\ Len(d \o b) = Len(d) + Len(b)
    BY ConcatProperties
  <2> QED BY <2>1
<1>3. Len(T!Decoded') - (IF fed' = 0 THEN 0 ELSE Len(T!Bytes(history[fed])')) = Len(d)
  BY <1>2
<1> QED BY <1>1, <1>3 DEF T!ShownIsText

\* A stream that ends with all of its text shown.
LEMMA AllShown ==
  ASSUME turn' = turn, at' \in Overs \ {"stop"}, T!Decoded' \in Seq(Word), shown' = T!Decoded', NoStop(T!Decoded')
  PROVE  T!ShownIsText'
<1>1. at' # "decode" /\ at' # "stop"
  BY DEF Overs
<1>2. PICK d \in Seq(Word) : d = T!Decoded'
  OBVIOUS
<1>3. T!IsPrefix(d, d)
  BY DEF T!IsPrefix
<1>4. \A i \in DOMAIN turn.stops : turn.stops[i] # <<>> => T!Found(d, turn.stops[i]) = {}
  BY <1>2 DEF NoStop
<1> QED BY <1>1, <1>2, <1>3, <1>4 DEF T!ShownIsText

\* A stream that is over keeps its types.
LEMMA StillTyped ==
  ASSUME StreamTypes, UNCHANGED <<setup, turn>>, at' \in Overs, history' = history \/ at = "prefill",
         history' \in Seq(T!Ids), shown' \in Seq(Word), buf' \in Seq(Word), fed' \in Nat, fed' <= Len(history')
  PROVE  StreamTypes'
<1>1. T!Ids' = T!Ids
  BY DEF T!Ids
<1>2. StopsAre' /\ \E S : turn'.tokens \in Seq(S)
  BY DEF StreamTypes, StopsAre
<1>3. at' # "decode" /\ at' # "prefill"
  BY DEF Overs
<1> QED BY <1>1, <1>2, <1>3 DEF StreamTypes, Underway, Overs

\* Each action keeps StreamInv.
LEMMA PrefillKeeps == ASSUME T!StreamAssumption, StreamInv, T!Prefill PROVE StreamInv'
<1>1. /\ at = "prefill" /\ UNCHANGED <<setup, turn, buf, shown, fed>>
      /\ \/ at' = "refused" /\ UNCHANGED <<history, top>>
         \/ at' = "decode" /\ T!Draw
  BY DEF T!Prefill
<1>2. StreamTypes /\ StopsAre /\ fed = 0 /\ history = <<>> /\ shown = <<>> /\ buf = <<>> /\ T!NoRecital
  BY <1>1 DEF StreamInv, StreamTypes
<1>3. T!Decoded' = <<>>
  <2>1. T!Decoded' = TextOf(setup.vocab, history', 0)
    BY <1>1, <1>2 DEF T!Decoded, T!Bytes, TextOf
  <2> QED BY <2>1, TextOfNone
<1>4. <<>> \in Seq(Word) /\ <<>> \o <<>> = <<>> /\ T!WholeCharacters(<<>>) /\ Len(<<>>) = 0
  BY DEF T!WholeCharacters
<1>5. CASE at' = "refused"
  <2>1. T!NoRecital'
    BY <1>1, <1>2, <1>5, SameRecitals
  <2>2. StreamTypes'
    <3>1. history' \in Seq(T!Ids) /\ fed' \in Nat /\ fed' <= Len(history') /\ shown' \in Seq(Word) /\ buf' \in Seq(Word)
      BY <1>1, <1>2, <1>4, <1>5 DEF StreamTypes
    <3> QED BY <1>1, <1>2, <1>5, <3>1, StillTyped DEF Overs
  <2>3. NoStop(<<>>)
    BY <1>2, NoneInNone
  <2>4. T!ShownIsText'
    BY <1>1, <1>2, <1>3, <1>4, <1>5, <2>3, AllShown DEF Overs
  <2>5. OnTheWay'
    BY <1>5 DEF OnTheWay, Underway
  <2> QED BY <2>1, <2>2, <2>4, <2>5 DEF StreamInv
<1>6. CASE at' = "decode" /\ T!Draw
  <2>1. T!NoRecital' /\ \E id \in T!Ids : history' = Append(history, id)
    BY <1>1, <1>2, <1>6, DrawIs
  <2>2. history' \in Seq(T!Ids) /\ Len(history') = 1
    <3>1. PICK id \in T!Ids : history' = Append(history, id)
      BY <2>1
    <3>2. history' = <<id>>
      BY <1>2, <3>1
    <3> QED BY <3>2
  <2>3. T!Ids' = T!Ids /\ StopsAre' /\ \E S : turn'.tokens \in Seq(S)
    BY <1>1, <1>2 DEF T!Ids, StreamTypes, StopsAre
  <2>4. StreamTypes'
    BY <1>1, <1>2, <1>4, <1>6, <2>2, <2>3 DEF StreamTypes, Underway
  <2>5. NoStop(<<>>)'
    BY <1>1, <1>2, NoneInNone, SameStops
  <2>6. OnTheWay'
    BY <1>1, <1>2, <1>3, <1>4, <2>5 DEF OnTheWay
  <2>7. at' \notin Overs
    BY <1>6 DEF Overs
  <2> QED BY <2>1, <2>4, <2>6, <2>7 DEF StreamInv
<1> QED BY <1>1, <1>5, <1>6

\* What holds before a token is pushed.
LEMMA DecodesWell ==
  ASSUME StreamInv, at = "decode"
  PROVE  /\ StreamTypes /\ T!NoRecital /\ shown \o buf = T!Decoded /\ NoStop(T!Decoded)
         /\ StopsAre /\ shown \in Seq(Word) /\ buf \in Seq(Word) /\ T!WholeCharacters(shown)
         /\ shown = <<>> \/ T!Hold <= Len(buf)
         /\ fed \in Nat /\ Len(history) = fed + 1 /\ history \in Seq(T!Ids)
<1>1. StreamTypes /\ OnTheWay /\ T!NoRecital
  BY DEF StreamInv
<1>2. at \in Underway
  BY DEF Underway
<1>3. /\ shown \o buf = T!Decoded /\ NoStop(T!Decoded)
      /\ T!WholeCharacters(shown) /\ (shown = <<>> \/ T!Hold <= Len(buf))
  BY <1>1, <1>2 DEF OnTheWay
<1>4. StopsAre /\ shown \in Seq(Word) /\ buf \in Seq(Word) /\ fed \in Nat /\ Len(history) = fed + 1 /\ history \in Seq(T!Ids)
  BY <1>1 DEF StreamTypes
<1> QED BY <1>1, <1>3, <1>4

\* A text that is cut: what is sent after the shown text, and what is left.
Cuts(u, s, e) ==
  /\ SubSeq(s, 1, e) \in Seq(Word) /\ SubSeq(s, e + 1, Len(s)) \in Seq(Word)
  /\ u \o SubSeq(s, 1, e) \in Seq(Word) /\ Len(u \o SubSeq(s, 1, e)) = Len(u) + e
  /\ (u \o SubSeq(s, 1, e)) \o SubSeq(s, e + 1, Len(s)) = u \o s
  /\ Len(SubSeq(s, e + 1, Len(s))) = Len(s) - e

LEMMA CutJoined == ASSUME NEW u \in Seq(Word), NEW s \in Seq(Word), NEW e \in 0 .. Len(s) PROVE Cuts(u, s, e)
<1>1. PICK x \in Seq(Word) : x = SubSeq(s, 1, e)
  BY CutAt
<1>2. PICK y \in Seq(Word) : y = SubSeq(s, e + 1, Len(s))
  BY CutAt
<1>3. Len(x) = e /\ x \o y = s /\ Len(y) = Len(s) - e
  BY <1>1, <1>2, CutAt
<1>4. u \o x \in Seq(Word) /\ Len(u \o x) = Len(u) + Len(x)
  BY ConcatProperties
<1>5. (u \o x) \o y = u \o (x \o y)
  BY ConcatAssociative
<1> QED BY <1>1, <1>2, <1>3, <1>4, <1>5 DEF Cuts

LEMMA OverKeeps == ASSUME T!StreamAssumption, StreamInv, T!TurnOver PROVE StreamInv'
<1>1. /\ at = "decode" /\ UNCHANGED <<setup, turn, history, top, fed>>
      /\ at' \in {"length", "eos"} /\ shown' = shown \o buf /\ buf' = <<>>
  BY DEF T!TurnOver, T!Flush
<1>2. StreamTypes /\ T!NoRecital /\ shown \o buf = T!Decoded /\ NoStop(T!Decoded)
  BY <1>1, DecodesWell
<1>3. T!Decoded' = T!Decoded /\ T!Decoded \in Seq(Word)
  BY <1>1, <1>2, SameText, DecodedTypes
<1>4. at' \in Overs \ {"stop"} /\ at' \notin Underway
  BY <1>1 DEF Overs, Underway
<1>5. T!ShownIsText'
  <2>1. turn' = turn /\ shown' = T!Decoded' /\ T!Decoded' \in Seq(Word)
    BY <1>1, <1>2, <1>3
  <2>2. NoStop(T!Decoded')
    BY <1>2, <1>3, Zenon
  <2> QED BY <1>4, <2>1, <2>2, AllShown
<1>6. StreamTypes'
  <2>1. history' \in Seq(T!Ids) /\ fed' \in Nat /\ fed' <= Len(history') /\ shown' \in Seq(Word) /\ buf' \in Seq(Word)
    BY <1>1, <1>2, <1>3, Literals DEF StreamTypes
  <2> QED BY <1>1, <1>2, <1>4, <2>1, StillTyped
<1>7. T!NoRecital'
  BY <1>1, <1>2, SameRecitals
<1> QED BY <1>4, <1>5, <1>6, <1>7 DEF StreamInv, OnTheWay

LEMMA StopsKeeps == ASSUME T!StreamAssumption, StreamInv, T!PushStops PROVE StreamInv'
<1>1. /\ at = "decode" /\ T!Stopped(buf \o T!Bytes(T!NextToken))
      /\ shown' = shown \o T!Before(buf \o T!Bytes(T!NextToken)) /\ buf' = <<>>
      /\ at' = "stop" /\ fed' = fed + 1 /\ UNCHANGED <<setup, turn, history, top>>
  BY DEF T!PushStops, T!Running
<1>2. /\ StreamTypes /\ T!NoRecital /\ shown \o buf = T!Decoded /\ NoStop(T!Decoded) /\ StopsAre
      /\ shown \in Seq(Word) /\ buf \in Seq(Word)
  BY <1>1, DecodesWell
<1>3. PICK d \in Seq(Word) : d = T!Decoded
  BY <1>2, DecodedTypes
<1>4. PICK b \in Seq(Word) : b = T!Bytes(T!NextToken)
  BY <1>1, <1>2, DecodedTypes
<1>5. PICK u \in Seq(Word) : u = shown
  BY <1>2
<1>6. PICK w \in Seq(Word) : w = buf
  BY <1>2
<1>7. PICK s : s = w \o b
  OBVIOUS
<1>8. s \in Seq(Word) /\ d = u \o w /\ d \o b = u \o s /\ NoStop(d)
  <2>1. (u \o w) \o b = u \o (w \o b)
    BY ConcatAssociative
  <2> QED BY <1>2, <1>3, <1>5, <1>6, <1>7, <2>1
<1>81. \A e \in 0 .. Len(s) : Cuts(u, s, e)
  BY <1>5, <1>8, CutJoined
<1>9. PICK i \in DOMAIN turn.stops, k \in Nat :
        k \in T!Found(s, turn.stops[i]) /\ k - 1 \in 0 .. Len(s) /\ T!Before(s) = SubSeq(s, 1, k - 1)
  BY <1>1, <1>2, <1>4, <1>6, <1>7, <1>8, BeforeIs
<1>10. PICK c : c = k - 1
  OBVIOUS
<1>11. PICK x : x = SubSeq(s, 1, c)
  OBVIOUS
<1>12. PICK y : y = SubSeq(s, c + 1, Len(s))
  OBVIOUS
<1>13. PICK sh : sh = u \o x
  OBVIOUS
<1>14. /\ x \in Seq(Word) /\ y \in Seq(Word)
       /\ sh \in Seq(Word) /\ Len(sh) = Len(u) + c /\ sh \o y = u \o s
  <2>1. c \in 0 .. Len(s)
    BY <1>9, <1>10
  <2>2. Cuts(u, s, c)
    BY <1>81, <2>1, Zenon
  <2> QED BY <1>11, <1>12, <1>13, <2>2, Zenon DEF Cuts
<1>15. shown' = sh /\ sh \o y = d \o b /\ Len(sh) + 1 = Len(u) + k
  <2>1. shown' = sh
    BY <1>1, <1>4, <1>5, <1>6, <1>7, <1>9, <1>10, <1>11, <1>13
  <2>2. Len(u) \in Nat
    OBVIOUS
  <2>3. Len(sh) + 1 = Len(u) + k
    BY <1>9, <1>10, <1>14, <2>2
  <2> QED BY <1>8, <1>14, <2>1, <2>3
<1>16. Len(sh) + 1 \in T!Found(d \o b, turn.stops[i])
  <2>1. PICK st \in Seq(Word) : st = turn.stops[i]
    BY <1>2 DEF StopsAre
  <2>2. k \in Int /\ k \in T!Found(s, st)
    BY <1>9, <2>1
  <2>3. Len(u) + k \in T!Found(u \o s, st)
    BY <1>8, <2>2, FoundJoined
  <2> QED BY <1>8, <1>15, <2>1, <2>3
<1>17. T!Decoded' = d \o b /\ T!Bytes(history[fed])' = b
  BY <1>1, <1>2, <1>3, <1>4, NextText
<1>18. /\ T!IsPrefix(sh, d \o b)
       /\ \A j \in DOMAIN turn.stops : turn.stops[j] # <<>> =>
            \A l \in T!Found(sh, turn.stops[j]) : l + Len(turn.stops[j]) - 1 > Len(d)
  BY <1>2, <1>8, <1>14, <1>15, LastCompletes
<1>19. fed' # 0 /\ fed' \in Nat /\ fed' <= Len(history')
  BY <1>1, <1>2 DEF StreamTypes
<1>20. at' \in Overs /\ at' \notin {"eos", "length", "failed"} /\ at' \notin Underway
  BY <1>1 DEF Overs, Underway
<1>21. T!ShownIsText'
  BY <1>1, <1>14, <1>15, <1>16, <1>17, <1>18, <1>19, <1>20, TextShown
<1>22. StreamTypes'
  <2>1. history' \in Seq(T!Ids) /\ shown' \in Seq(Word) /\ buf' \in Seq(Word)
    BY <1>1, <1>2, <1>14, <1>15, Literals DEF StreamTypes
  <2> QED BY <1>1, <1>2, <1>19, <1>20, <2>1, StillTyped
<1>23. T!NoRecital'
  BY <1>1, <1>2, SameRecitals
<1> QED BY <1>20, <1>21, <1>22, <1>23 DEF StreamInv, OnTheWay

LEMMA EmitsKeeps == ASSUME T!StreamAssumption, StreamInv, T!PushEmits PROVE StreamInv'
<1> DEFINE r == buf \o T!Bytes(T!NextToken)
           g == T!Emitted(r)
<1>1. /\ at = "decode" /\ ~ T!Stopped(r) /\ fed' = fed + 1 /\ UNCHANGED <<setup, turn>>
      /\ \/ /\ at' = "decode" /\ T!Draw
            /\ shown' = shown \o SubSeq(r, 1, g) /\ buf' = SubSeq(r, g + 1, Len(r))
         \/ /\ at' = "failed" /\ shown' = shown \o r /\ buf' = <<>>
            /\ UNCHANGED <<history, top>>
         \/ /\ at' = "hung up" /\ buf' = SubSeq(r, g + 1, Len(r))
            /\ UNCHANGED <<shown, history, top>>
  BY DEF T!PushEmits, T!Running
<1>2. /\ StreamTypes /\ T!NoRecital /\ shown \o buf = T!Decoded /\ NoStop(T!Decoded) /\ StopsAre
      /\ shown \in Seq(Word) /\ buf \in Seq(Word) /\ T!WholeCharacters(shown)
      /\ shown = <<>> \/ T!Hold <= Len(buf)
      /\ fed \in Nat /\ Len(history) = fed + 1 /\ history \in Seq(T!Ids)
  BY <1>1, DecodesWell
<1>3. PICK d \in Seq(Word) : d = T!Decoded
  BY <1>2, DecodedTypes
<1>4. PICK b \in Seq(Word) : b = T!Bytes(T!NextToken)
  BY <1>1, <1>2, DecodedTypes
<1>5. PICK u \in Seq(Word) : u = shown
  BY <1>2
<1>6. PICK w \in Seq(Word) : w = buf
  BY <1>2
<1>7. PICK s \in Seq(Word) : s = w \o b /\ Len(s) = Len(w) + Len(b)
  BY ConcatProperties
<1>8. r = s /\ d = u \o w /\ d \o b = u \o s /\ d \o b \in Seq(Word)
  <2>1. (u \o w) \o b = u \o (w \o b)
    BY ConcatAssociative
  <2>2. d \o b \in Seq(Word)
    BY ConcatProperties
  <2> QED BY <1>2, <1>3, <1>4, <1>5, <1>6, <1>7, <2>1, <2>2
<1> HIDE DEF r
<1>9. NoStop(d) /\ NoStop(d \o b)
  <2>1. NoStop(d) /\ (u = <<>> \/ T!Hold <= Len(w)) /\ ~ T!Stopped(w \o b)
    BY <1>1, <1>2, <1>3, <1>5, <1>6, <1>7, <1>8, Zenon
  <2> QED BY <1>2, <1>8, <2>1, NoneCompleted
<1>10. PICK e \in 0 .. Len(s) :
         e = g /\ T!WholeCharacters(SubSeq(s, 1, e)) /\ (e > 0 => e <= Len(s) - T!Hold)
  <2>1. /\ T!Emitted(s) \in 0 .. Len(s) /\ T!WholeCharacters(SubSeq(s, 1, T!Emitted(s)))
        /\ T!Emitted(s) > 0 => T!Emitted(s) <= Len(s) - T!Hold
    BY <1>2, EmittedIs
  <2> QED BY <1>8, <2>1, Zenon
<1> HIDE DEF g
<1>11. Cuts(u, s, e)
  BY CutJoined
<1>12. PICK x \in Seq(Word) : x = SubSeq(s, 1, e)
  BY <1>11 DEF Cuts
<1>13. PICK y \in Seq(Word) : y = SubSeq(s, e + 1, Len(s))
  BY <1>11 DEF Cuts
<1>14. /\ u \o x \in Seq(Word) /\ Len(u \o x) = Len(u) + e /\ (u \o x) \o y = d \o b
       /\ Len(y) = Len(s) - e
  BY <1>8, <1>11, <1>12, <1>13 DEF Cuts
<1>15. T!Hold \in Nat
  BY <1>2, HoldIs
<1>16. CASE at' = "decode" /\ T!Draw /\ shown' = u \o x /\ buf' = y
  <2>1. T!NoRecital' /\ \E id \in T!Ids : history' = Append(history, id)
    BY <1>1, <1>2, <1>16, DrawIs
  <2>2. T!Decoded' = d \o b
    BY <1>1, <1>2, <1>3, <1>4, <2>1, NextText
  <2>3. history' \in Seq(T!Ids) /\ Len(history') = fed' + 1
    <3>1. PICK V : V = T!Ids
      OBVIOUS
    <3>2. PICK id \in V : history' = Append(history, id)
      BY <2>1, <3>1
    <3>3. PICK h \in Seq(V) : h = history
      BY <1>2, <3>1
    <3>4. Append(h, id) \in Seq(V) /\ Len(Append(h, id)) = Len(h) + 1
      BY <3>2, <3>3
    <3> QED BY <1>1, <1>2, <3>1, <3>2, <3>3, <3>4
  <2>4. T!Ids' = T!Ids /\ StopsAre' /\ T!Hold' = T!Hold /\ \E S : turn'.tokens \in Seq(S)
    BY <1>1, <1>2, SameStops DEF T!Ids, StreamTypes
  <2>5. StreamTypes'
    <3>1. setup' \in Setup /\ at' = "decode"
      BY <1>1, <1>2, <1>16 DEF StreamTypes
    <3>2. buf' \in Seq(Word) /\ shown' \in Seq(Word)
      <4>1. u \o x \in Seq(Word) /\ y \in Seq(Word)
        BY <1>14
      <4> QED BY <1>16, <4>1
    <3>3. fed' \in Nat /\ fed' <= Len(history')
      <4>1. fed' = fed + 1 /\ Len(history') = fed' + 1
        BY <1>1, <2>3
      <4>2. fed \in Nat
        BY <1>2
      <4> QED BY <4>1, <4>2
    <3>4. history' \in Seq(T!Ids') /\ Len(history') = fed' + 1
      BY <2>3, <2>4
    <3> QED BY <2>4, <3>1, <3>2, <3>3, <3>4 DEF StreamTypes, Underway
  <2>6. NoStop(T!Decoded)'
    BY <1>1, <1>9, <2>2, SameStops
  <2>7. T!WholeCharacters(shown)'
    <3>1. T!WholeCharacters(u) /\ T!WholeCharacters(x)
      BY <1>2, <1>5, <1>10, <1>12, Zenon
    <3>2. T!WholeCharacters(u \o x)
      BY <3>1, WholeJoined
    <3> QED BY <1>16, <3>2 DEF T!WholeCharacters
  <2>8. shown' = <<>> \/ T!Hold' <= Len(buf')
    <3>1. CASE e > 0
      BY <1>10, <1>14, <1>15, <1>16, <2>4, <3>1
    <3>2. CASE e = 0 /\ u = <<>>
      <4>1. Len(u \o x) = 0
        BY <1>14, <3>2
      <4> QED BY <1>14, <1>16, <4>1, EmptySeq
    <3>3. CASE e = 0 /\ T!Hold <= Len(w)
      <4>1. Len(b) \in Nat /\ Len(w) \in Nat
        OBVIOUS
      <4> QED BY <1>7, <1>14, <1>15, <1>16, <2>4, <3>3, <4>1
    <3> QED BY <1>2, <1>5, <1>6, <1>10, <3>1, <3>2, <3>3
  <2>9. OnTheWay'
    BY <1>14, <1>16, <2>2, <2>6, <2>7, <2>8 DEF OnTheWay
  <2>10. at' \notin Overs
    BY <1>16 DEF Overs
  <2> QED BY <2>1, <2>5, <2>9, <2>10 DEF StreamInv
<1>17. CASE UNCHANGED <<history, top>> /\ at' \in {"failed", "hung up"}
            /\ (at' = "failed" => shown' = u \o s /\ buf' = <<>>)
            /\ (at' = "hung up" => shown' = u /\ buf' = y)
  <2>1. T!Decoded' = d \o b /\ T!Bytes(history[fed])' = b
    BY <1>1, <1>2, <1>3, <1>4, <1>17, NextText
  <2>2. T!NoRecital'
    BY <1>1, <1>2, <1>17, SameRecitals
  <2>3. at' \in Overs \ {"stop"} /\ at' \notin Underway
    BY <1>17 DEF Overs, Underway
  <2>4. StreamTypes'
    <3>1. history' \in Seq(T!Ids) /\ fed' \in Nat /\ fed' <= Len(history')
      <4>1. history' = history /\ fed' = fed + 1
        BY <1>1, <1>17
      <4>2. history' \in Seq(T!Ids) /\ Len(history') = fed + 1
        BY <1>2, <4>1, Zenon
      <4>3. PICK l : l = Len(history')
        OBVIOUS
      <4>4. fed' \in Nat /\ fed' <= l
        BY <1>2, <4>1, <4>2, <4>3
      <4> QED BY <4>2, <4>3, <4>4
    <3>2. shown' \in Seq(Word) /\ buf' \in Seq(Word)
      BY <1>8, <1>17, Literals
    <3> QED BY <1>1, <1>2, <1>17, <2>3, <3>1, <3>2, StillTyped
  <2>5. T!ShownIsText'
    <3>1. CASE at' = "failed"
      <4>1. turn' = turn /\ shown' = T!Decoded' /\ T!Decoded' \in Seq(Word)
        BY <1>1, <1>8, <1>17, <2>1, <3>1
      <4>2. NoStop(T!Decoded')
        BY <1>9, <2>1, Zenon
      <4> QED BY <2>3, <4>1, <4>2, AllShown
    <3>2. CASE at' = "hung up"
      <4>1. /\ T!IsPrefix(u, d \o b)
            /\ \A i \in DOMAIN turn.stops : turn.stops[i] # <<>> =>
                 \A k \in T!Found(u, turn.stops[i]) : k + Len(turn.stops[i]) - 1 > Len(d)
        BY <1>2, <1>8, <1>9, LastCompletes
      <4>2. at' \notin {"eos", "length", "failed", "stop"} /\ shown' = u /\ turn' = turn
        BY <1>1, <1>17, <3>2
      <4>3. fed' # 0
        <5>1. fed' = fed + 1
          BY <1>1
        <5>2. fed \in Nat
          BY <1>2
        <5> QED BY <5>1, <5>2
      <4> QED BY <2>1, <2>3, <4>1, <4>2, <4>3, TextShown
    <3> QED BY <1>17, <3>1, <3>2
  <2> QED BY <2>2, <2>3, <2>4, <2>5 DEF StreamInv, OnTheWay
<1> QED BY <1>1, <1>5, <1>8, <1>10, <1>12, <1>13, <1>16, <1>17

LEMMA StreamStays == ASSUME StreamInv, UNCHANGED T!vars PROVE StreamInv'
<1>1. UNCHANGED <<setup, turn, at, history, top, buf, shown, fed>>
  BY DEF T!vars
<1>2. T!Decoded' = T!Decoded /\ (StopsAre => StopsAre') /\ T!Hold' = T!Hold /\ T!Ids' = T!Ids
  BY <1>1, SameText, SameStops DEF T!Ids
<1>3. StreamTypes => StreamTypes'
  BY <1>1, <1>2 DEF StreamTypes, Underway, Overs
<1>4. NoStop(T!Decoded) => NoStop(T!Decoded)'
  <2>1. NoStop(T!Decoded)' <=> NoStop(T!Decoded')
    BY <1>1, SameStops
  <2> QED BY <1>2, <2>1, Zenon
<1>5. T!WholeCharacters(shown)' <=> T!WholeCharacters(shown)
  BY <1>1 DEF T!WholeCharacters
<1>6. OnTheWay => OnTheWay'
  BY <1>1, <1>2, <1>4, <1>5 DEF OnTheWay, Underway
<1>7. T!ShownIsText => T!ShownIsText'
  <2>1. T!Bytes(history[fed])' = T!Bytes(history[fed])
    BY <1>1 DEF T!Bytes
  <2> QED BY <1>1, <1>2, <1>5, <2>1 DEF T!ShownIsText
<1>8. T!NoRecital => T!NoRecital'
  BY <1>1, SameRecitals
<1> QED BY <1>1, <1>3, <1>6, <1>7, <1>8 DEF StreamInv, Overs

LEMMA StreamStep ==
  ASSUME T!StreamAssumption, StreamInv, T!Next \/ UNCHANGED T!vars
  PROVE  StreamInv'
<1>1. CASE T!Prefill
  BY <1>1, PrefillKeeps
<1>2. CASE T!TurnOver
  BY <1>2, OverKeeps
<1>3. CASE T!PushStops
  BY <1>3, StopsKeeps
<1>4. CASE T!PushEmits
  BY <1>4, EmitsKeeps
<1>5. CASE UNCHANGED T!vars
  BY <1>5, StreamStays
<1> QED BY <1>1, <1>2, <1>3, <1>4, <1>5 DEF T!Next

\* What StreamInv says of the text, also while the turn runs.
LEMMA StreamSays == T!StreamAssumption /\ StreamInv => T!ShownIsText /\ T!NoRecital
<1> SUFFICES ASSUME T!StreamAssumption, StreamInv PROVE T!ShownIsText /\ T!NoRecital
  OBVIOUS
<1>1. StreamTypes /\ OnTheWay /\ T!NoRecital /\ (at \in Overs => T!ShownIsText)
  BY DEF StreamInv
<1>2. CASE at \in Overs
  BY <1>1, <1>2
<1>3. CASE at \in Underway
  <2>1. /\ shown \o buf = T!Decoded /\ NoStop(T!Decoded) /\ T!WholeCharacters(shown) /\ StopsAre
        /\ shown \in Seq(Word) /\ buf \in Seq(Word)
    BY <1>1, <1>3 DEF OnTheWay, StreamTypes
  <2>2. T!IsPrefix(shown, T!Decoded)
    BY <2>1, BeginsWith
  <2>3. at \notin {"eos", "length", "failed", "stop"}
    BY <1>3 DEF Underway
  <2>4. ASSUME NEW i \in DOMAIN turn.stops, turn.stops[i] # <<>> PROVE T!Found(shown, turn.stops[i]) = {}
    <3>1. PICK st \in Seq(Word) : st = turn.stops[i]
      BY <2>1 DEF StopsAre
    <3>2. PICK u \in Seq(Word) : u = shown
      BY <2>1
    <3>3. PICK w \in Seq(Word) : w = buf
      BY <2>1
    <3>4. T!Found(u \o w, st) = {}
      BY <2>1, <2>4, <3>1, <3>2, <3>3 DEF NoStop
    <3>5. \A k \in Int : k \in T!Found(u, st) => k \in T!Found(u \o w, st)
      BY FoundJoined
    <3>6. T!Found(u, st) \subseteq Int
      <4>1. Len(u) \in Nat /\ Len(st) \in Nat
        OBVIOUS
      <4> QED BY <4>1 DEF T!Found
    <3>7. T!Found(u, st) = {}
      BY <3>4, <3>5, <3>6
    <3> QED BY <3>1, <3>2, <3>7
  <2> QED BY <1>1, <2>1, <2>2, <2>3, <2>4 DEF T!ShownIsText
<1> QED BY <1>1, <1>2, <1>3 DEF StreamTypes

-----------------------------------------------------------------------------
\* The cascade and the stream where they are the part in play.
RecallHolds == part = "recall" => CascadeInv
PicksHold   == part = "recall" => CascadeInv /\ OnePick
StreamHolds == part = "stream" => StreamInv

LEMMA Assumed == R!CascadeAssumption /\ T!StreamAssumption
BY PartsAssumption

LEMMA SamePart == [Next]_vars => part' = part
BY DEF Next, vars, MemoryOnly, RecallOnly, StreamOnly, HandleOnly, ProductOnly, BridgeOnly, CuratorOnly, CaptureOnly

LEMMA RecallMoves == ASSUME [Next]_vars, part = "recall" PROVE R!Next \/ UNCHANGED R!vars
BY DEF Next, vars, recallVars, R!vars, MemoryOnly, RecallOnly, StreamOnly, HandleOnly, ProductOnly,
   BridgeOnly, CuratorOnly, CaptureOnly

LEMMA StreamMoves == ASSUME [Next]_vars, part = "stream" PROVE T!Next \/ UNCHANGED T!vars
BY DEF Next, vars, streamVars, T!vars, MemoryOnly, RecallOnly, StreamOnly, HandleOnly, ProductOnly,
   BridgeOnly, CuratorOnly, CaptureOnly

LEMMA RecallKept == Spec => []RecallHolds
<1>1. Init => RecallHolds
  BY Assumed, CascadeInit DEF Init, RecallHolds
<1>2. RecallHolds /\ [Next]_vars => RecallHolds'
  <2> SUFFICES ASSUME RecallHolds, [Next]_vars, part = "recall" PROVE CascadeInv'
    BY SamePart DEF RecallHolds
  <2>1. CascadeInv
    BY DEF RecallHolds
  <2> QED BY <2>1, Assumed, RecallMoves, CascadeStep
<1> QED BY <1>1, <1>2, PTL DEF Spec

LEMMA PicksKept == ASSUME Uncombined PROVE Spec => []PicksHold
<1>1. Init => PicksHold
  BY Assumed, CascadeInit, OnePickInit DEF Init, PicksHold
<1>2. PicksHold /\ [Next]_vars => PicksHold'
  <2> SUFFICES ASSUME PicksHold, [Next]_vars, part = "recall" PROVE CascadeInv' /\ OnePick'
    BY SamePart DEF PicksHold
  <2>1. CascadeInv /\ OnePick
    BY DEF PicksHold
  <2>2. R!Next \/ UNCHANGED R!vars
    BY RecallMoves
  <2> QED BY <2>1, <2>2, Assumed, CascadeStep, OnePickStep
<1> QED BY <1>1, <1>2, PTL DEF Spec

\* For every stack of switches (run_kvdecode_chat of routes.rs): no word of a
\* draft that the test vetoes, nor of the model's in a declined turn, is sent,
\* from whichever of the loop, its flushes and its stop string it would come.
THEOREM DraftStaysHeld == Spec => []VetoedNeverSent
<1>1. RecallHolds => VetoedNeverSent
  BY CascadeSays DEF RecallHolds, VetoedNeverSent
<1> QED BY <1>1, RecallKept, PTL

\* For every episode and every depth of the undo journal (the probes of INT2 and
\* of the disposers, the judge's pass in routes.rs): a probe of INT2 leaves the
\* rows that it found, however far it came, and so does one of a disposer whose
\* episodes fit the journal; the judge leaves the memory that it recalls, the
\* prompt, or an empty cache if the prompt's prefill is refused.
THEOREM NothingLeftBehind == Spec => ProbesRestore
<1>1. RecallHolds /\ [Next]_vars => [part = "recall" => R!ProbeNets /\ R!JudgeNets]_vars
  <2> SUFFICES ASSUME RecallHolds, [Next]_vars, part = "recall", ~ UNCHANGED vars PROVE R!ProbeNets /\ R!JudgeNets
    OBVIOUS
  <2>1. CascadeInv
    BY DEF RecallHolds
  <2>2. R!Next
    BY DEF Next, MemoryOnly, StreamOnly, HandleOnly, ProductOnly, BridgeOnly, CuratorOnly, CaptureOnly
  <2> QED BY <2>1, <2>2, Assumed, ProbesNet, JudgesNet
<1> QED BY <1>1, RecallKept, PTL DEF Spec, ProbesRestore

\* For every stack that does not combine what the comments of routes.rs say not
\* to: an answer is decoded over the announced memory alone, steering is of its
\* own turn, and the spine decides as the ladder of stages does.
THEOREM AnswersOverOneMemory == ASSUME Uncombined PROVE Spec => []OneMemory
<1>1. PicksHold => OneMemory
  BY Assumed, OnePickTypes, SpineIsLadder, CascadeSays DEF PicksHold, OneMemory
<1> QED BY <1>1, PicksKept, PTL

\* For every vocabulary, request and list of stop strings (TokenDecodeBuffer of
\* tokenizer.rs, run by the decode loop of routes.rs): what the client has been
\* sent is the decoded text up to a whole character, all of it at the end, and
\* up to the stop string that ended the turn; and the anti-echo guard of
\* sampler.rs lets no n-gram of prompt and answer be completed again.
THEOREM TextIsShown == Spec => []StreamIsText
<1>1. Init => StreamHolds
  BY Assumed, StreamInit DEF Init, StreamHolds
<1>2. StreamHolds /\ [Next]_vars => StreamHolds'
  <2> SUFFICES ASSUME StreamHolds, [Next]_vars, part = "stream" PROVE StreamInv'
    BY SamePart DEF StreamHolds
  <2>1. StreamInv
    BY DEF StreamHolds
  <2> QED BY <2>1, Assumed, StreamMoves, StreamStep
<1>3. StreamHolds => StreamIsText
  BY Assumed, StreamSays DEF StreamHolds, StreamIsText
<1> QED BY <1>1, <1>2, <1>3, PTL DEF Spec
================================================================================
