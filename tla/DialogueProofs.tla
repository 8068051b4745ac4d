--------------------------- MODULE DialogueProofs ---------------------------
(***************************************************************************)
(* The receipt ledger and the dialogues that write to it, proved for every *)
(* record width, every set of files, handles and requests, and every       *)
(* number of faults.                                                       *)
(*                                                                         *)
(* The inductive invariant DInv says of every file that it begins with the *)
(* records appended before its first fault, and until then holds nothing   *)
(* else; of every handle that an unshared, unhurt file leaves nothing in   *)
(* its buffer and its counter right; and of every request which turns its  *)
(* receipts attest and how many of them stand last in the ledger while it  *)
(* holds the lock.                                                         *)
(***************************************************************************)
EXTENDS Dialogue, FiniteSetTheorems, SequenceTheorems, WellFoundedInduction, TLAPS

Outputs == TokensUpTo(Words, MaxTurn)
Minted == {Mint(d, turn, input, output) :
             d \in Dialogues, turn \in 1..3, input \in Inputs, output \in Outputs}
All == Known \cup Minted
Unit == All \X (1..Width)
Blocks == {Bytes(r) : r \in All}

LedgerShape ==
    /\ disk \in [Paths -> Seq(Unit)]
    /\ handle \in [Handles -> [path : Paths \cup {"none"}, bytes : Nat, buf : Seq(Unit)]]
    /\ \A h \in Handles : handle[h].path = "none" => handle[h] = Closed
    /\ todo \in [Handles -> Seq(All)]
    /\ sound \in [Paths -> Seq(Blocks)]
    /\ hurt \in [Paths -> BOOLEAN] /\ shared \in [Paths -> BOOLEAN]

\* The file f begins with the records s.
Begins(f, s) == /\ Len(s) * Width <= Len(f)
                /\ \A n \in 1..Len(s) : Chunk(f, n) = s[n]

Kept(p) == Begins(disk[p], sound[p])
Tidy(p) == hurt[p] = FALSE => /\ Len(disk[p]) = Len(sound[p]) * Width
                              /\ \A h \in Handles : handle[h].path = p => handle[h].buf = <<>>
Alone(p) == shared[p] = FALSE => \A g, h \in Handles : handle[g].path = p /\ handle[h].path = p => g = h
Counted(p) == hurt[p] = FALSE /\ shared[p] = FALSE
              => \A h \in Handles : handle[h].path = p => handle[h].bytes = Len(disk[p])

LedgerInv == LedgerShape /\ \A p \in Paths : Kept(p) /\ Tidy(p) /\ Alone(p) /\ Counted(p)

Requests == [pc : {"idle", "entity", "synthesis", "answered", "storing", "replied", "gone"},
             exec : Seq(Words), memo : Seq(Words), receipts : Seq(Minted), next : 1..4]

First(q) == Len(q.receipts) >= 1 => q.receipts[1].output \in Outputs
Asked(q) == Len(q.receipts) = 1 /\ q.exec = q.receipts[1].input \o q.receipts[1].output /\ q.memo = <<>>
Answered(q) == /\ Len(q.receipts) = 2
               /\ q.exec = q.receipts[1].input \o q.receipts[1].output
               /\ q.receipts[2].input = q.receipts[1].output
               /\ q.memo = q.receipts[2].input \o q.receipts[2].output
Spoken(q) == LET r == q.receipts
             IN /\ Len(r) = 3
                /\ r[2].input = r[1].output /\ r[3].input = r[2].output
                /\ q.exec = r[1].input \o r[1].output \o r[3].input \o r[3].output
                /\ q.memo = r[2].input \o r[2].output
Chain(q) == /\ q.pc \in {"idle", "gone"} => q.receipts = <<>> /\ q.exec = <<>> /\ q.memo = <<>>
            /\ q.pc = "entity" => Asked(q)
            /\ q.pc = "synthesis" => Answered(q)
            /\ q.pc \in {"answered", "storing", "replied"} => Spoken(q)
            /\ q.pc \in {"idle", "entity", "synthesis", "answered", "gone"} => q.next = 1
            /\ q.pc = "storing" => q.next \in 1..3

Quiet == hurt[ServerPath] = FALSE /\ shared[ServerPath] = FALSE
LastStored(q) == LET s == sound[ServerPath]
                 IN /\ q.next - 1 <= Len(s)
                    /\ \A i \in 1..(q.next - 1) : s[Len(s) - (q.next - 1) + i] = Bytes(q.receipts[i])
Together(q) == \E n \in DOMAIN sound[ServerPath] :
                  /\ n + 2 <= Len(sound[ServerPath])
                  /\ \A i \in 1..3 : sound[ServerPath][n + i - 1] = Bytes(q.receipts[i])

RequestInv ==
    /\ dlg \in [Dialogues -> Requests]
    /\ holder \in Dialogues \cup {Free}
    /\ IsOpen(Server) => handle[Server].path = ServerPath
    /\ \A d \in Dialogues :
        /\ dlg[d].pc = "storing" <=> holder = d
        /\ dlg[d].pc = "storing" => IsOpen(Server)
        /\ Chain(dlg[d])
        /\ dlg[d].pc = "storing" /\ Quiet => LastStored(dlg[d])
        /\ dlg[d].next = 4 /\ Quiet => Together(dlg[d])

DInv == LedgerInv /\ RequestInv

----------------------------------------------------------------------------
LEMMA Multiples ==
  ASSUME NEW w \in Nat \ {0}, NEW k \in Nat
  PROVE  /\ k * w \in Nat
         /\ (k + 1) * w = k * w + w /\ (k - 1) * w = k * w - w
         /\ (k * w) \div w = k /\ (k * w) % w = 0
         /\ \A m \in Nat : m <= k => m * w <= k * w
OBVIOUS

LEMMA Quotients ==
  ASSUME NEW w \in Nat \ {0}, NEW l \in Nat
  PROVE  /\ l \div w \in Nat /\ (l \div w) * w <= l
         /\ \A k \in Nat : k * w <= l => k <= l \div w
OBVIOUS

LEMMA Cells ==
  ASSUME NEW w \in Nat \ {0}, NEW k \in Nat, NEW i \in 1..w
  PROVE  (k * w + i - 1) \div w = k /\ ((k * w + i - 1) % w) + 1 = i
<1>1. i - 1 \in 0 .. w - 1
  OBVIOUS
<1> DEFINE b == i - 1
<1>2. (k * w + b) \div w = k /\ (k * w + b) % w = b
  <2> HIDE DEF b
  <2>1. b \in 0 .. w - 1
    BY <1>1 DEF b
  <2> QED BY <2>1
<1>3. k * w + i - 1 = k * w + b
  OBVIOUS
<1> QED BY <1>2, <1>3

LEMMA WidthFacts == Width \in Nat \ {0} /\ Width \in Nat /\ Width >= 1
BY WidthAssumption

\* A record is Width units, its sentinel in the last.
LEMMA BlockFacts ==
  ASSUME NEW b \in Blocks
  PROVE  /\ b \in Seq(Unit) /\ Len(b) = Width
         /\ b[Width][2] = Width
         /\ b[Width][1] \in All
         /\ b = Bytes(b[Width][1])
<1>1. PICK r \in All : b = [i \in 1..Width |-> <<r, i>>]
  BY DEF Blocks, Bytes
<1>2. b \in Seq(Unit) /\ Len(b) = Width
  BY <1>1, WidthFacts DEF Unit
<1>3. b[Width] = <<r, Width>>
  BY <1>1, WidthFacts
<1>4. b[Width][1] = r /\ b[Width][2] = Width
  BY <1>3
<1> QED BY <1>1, <1>2, <1>4 DEF Bytes

LEMMA BytesBlock == ASSUME NEW r \in All PROVE Bytes(r) \in Blocks
BY DEF Blocks

LEMMA ChunkFacts ==
  ASSUME NEW f \in Seq(Unit), NEW n \in Nat \ {0}, n * Width <= Len(f)
  PROVE  /\ Chunk(f, n) \in Seq(Unit) /\ Len(Chunk(f, n)) = Width
         /\ \A i \in 1..Width : /\ Chunk(f, n)[i] = f[(n - 1) * Width + i]
                                /\ (n - 1) * Width + i \in 1..Len(f)
<1> DEFINE lo == (n - 1) * Width
<1>1. lo \in Nat /\ n * Width = lo + Width /\ Width \in Nat /\ Width >= 1
  BY Multiples, WidthFacts
<1>2. Len(f) \in Nat /\ \A i \in 1..Len(f) : f[i] \in Unit
  BY LenProperties, ElementOfSeq
<1> DEFINE hi == n * Width
<1>3. \A i \in lo + 1 .. hi : f[i] \in Unit
  BY <1>1, <1>2
<1>4. lo + 1 \in Int /\ hi \in Int /\ hi = lo + Width
  BY <1>1
<1>5. Chunk(f, n) = SubSeq(f, lo + 1, hi)
  BY DEF Chunk
<1> HIDE DEF lo, hi
<1>6. /\ SubSeq(f, lo + 1, hi) \in Seq(Unit)
      /\ Len(SubSeq(f, lo + 1, hi)) = IF lo + 1 <= hi THEN hi - (lo + 1) + 1 ELSE 0
      /\ \A i \in 1 .. hi - (lo + 1) + 1 : SubSeq(f, lo + 1, hi)[i] = f[lo + 1 + i - 1]
  BY <1>3, <1>4, SubSeqProperties
<1>7. hi - (lo + 1) + 1 = Width /\ lo + 1 <= hi
  BY <1>1, <1>4
<1>8. \A i \in 1..Width : lo + 1 + i - 1 = lo + i /\ lo + i \in 1..Len(f)
  BY <1>1, <1>2, <1>4 DEF hi
<1> QED BY <1>5, <1>6, <1>7, <1>8 DEF lo

\* A chunk that lies within a file is a chunk of whatever is appended to it.
LEMMA ChunkOfConcat ==
  ASSUME NEW f \in Seq(Unit), NEW x \in Seq(Unit), NEW n \in Nat \ {0}, n * Width <= Len(f)
  PROVE  Chunk(f \o x, n) = Chunk(f, n)
<1>1. /\ f \o x \in Seq(Unit) /\ Len(f \o x) = Len(f) + Len(x)
      /\ \A i \in 1 .. Len(f) + Len(x) : (f \o x)[i] = IF i <= Len(f) THEN f[i] ELSE x[i - Len(f)]
  BY ConcatProperties
<1>2. Len(f) \in Nat /\ Len(x) \in Nat /\ n * Width \in Nat
  BY LenProperties, Multiples, WidthFacts
<1>3. n * Width <= Len(f \o x)
  BY <1>1, <1>2
<1> DEFINE g == f \o x
<1>4. g \in Seq(Unit) /\ n * Width <= Len(g)
  BY <1>1, <1>3
<1>5. \A i \in 1..Len(f) : g[i] = f[i]
  BY <1>1, <1>2
<1> HIDE DEF g
<1>6. /\ Chunk(g, n) \in Seq(Unit) /\ Len(Chunk(g, n)) = Width
      /\ \A i \in 1..Width : Chunk(g, n)[i] = g[(n - 1) * Width + i]
  BY <1>4, ChunkFacts
<1>7. /\ Chunk(f, n) \in Seq(Unit) /\ Len(Chunk(f, n)) = Width
      /\ \A i \in 1..Width : /\ Chunk(f, n)[i] = f[(n - 1) * Width + i]
                             /\ (n - 1) * Width + i \in 1..Len(f)
  BY ChunkFacts
<1>8. \A i \in 1..Width : Chunk(g, n)[i] = Chunk(f, n)[i]
  BY <1>5, <1>6, <1>7
<1>9. Chunk(g, n) = Chunk(f, n)
  BY <1>6, <1>7, <1>8, SeqEqual
<1> QED BY <1>9 DEF g

LEMMA BeginsExtends ==
  ASSUME NEW f \in Seq(Unit), NEW x \in Seq(Unit), NEW s \in Seq(Blocks), Begins(f, s)
  PROVE  Begins(f \o x, s)
<1>1. f \o x \in Seq(Unit) /\ Len(f \o x) = Len(f) + Len(x)
  BY ConcatProperties
<1>2. Len(f) \in Nat /\ Len(x) \in Nat /\ Len(s) \in Nat /\ Len(s) * Width \in Nat
  BY LenProperties, Multiples, WidthFacts
<1>3. Len(s) * Width <= Len(f \o x)
  BY <1>1, <1>2 DEF Begins
<1>4. ASSUME NEW n \in 1..Len(s) PROVE Chunk(f \o x, n) = s[n]
  <2>1. n \in Nat \ {0} /\ n <= Len(s)
    BY <1>2
  <2>2. n * Width \in Nat /\ n * Width <= Len(s) * Width
    BY <1>2, <2>1, Multiples, WidthFacts
  <2>3. n * Width <= Len(f)
    BY <1>2, <2>2 DEF Begins
  <2> QED BY <2>1, <2>3, ChunkOfConcat DEF Begins
<1> QED BY <1>3, <1>4 DEF Begins

LEMMA BeginsGrows ==
  ASSUME NEW f \in Seq(Unit), NEW s \in Seq(Blocks), NEW b \in Blocks,
         Begins(f, s), Len(f) = Len(s) * Width
  PROVE  /\ f \o b \in Seq(Unit)
         /\ Append(s, b) \in Seq(Blocks)
         /\ Len(f \o b) = Len(Append(s, b)) * Width
         /\ Begins(f \o b, Append(s, b))
<1> DEFINE t == Append(s, b)  g == f \o b  k == Len(s)
<1>1. b \in Seq(Unit) /\ Len(b) = Width
  BY BlockFacts
<1>2. /\ g \in Seq(Unit) /\ Len(g) = Len(f) + Len(b)
      /\ \A i \in 1 .. Len(f) + Len(b) : g[i] = IF i <= Len(f) THEN f[i] ELSE b[i - Len(f)]
  BY <1>1, ConcatProperties
<1>3. /\ t \in Seq(Blocks) /\ Len(t) = k + 1
      /\ \A i \in 1..k : t[i] = s[i]
      /\ t[k + 1] = b
  BY AppendProperties
<1>4. k \in Nat /\ Len(f) \in Nat /\ Width \in Nat
  BY LenProperties, WidthFacts
<1>5. (k + 1) * Width = k * Width + Width /\ (k + 1) - 1 = k /\ k + 1 \in Nat \ {0}
  BY <1>4, Multiples, WidthFacts
<1>6. Len(g) = Len(t) * Width
  BY <1>1, <1>2, <1>3, <1>5
<1> HIDE DEF g, t
<1>7. Begins(g, s)
  BY <1>1, BeginsExtends DEF g
<1>8. Chunk(g, k + 1) = b
  <2>1. (k + 1) * Width <= Len(g)
    BY <1>1, <1>2, <1>4, <1>5
  <2>2. /\ Chunk(g, k + 1) \in Seq(Unit) /\ Len(Chunk(g, k + 1)) = Width
        /\ \A i \in 1..Width : Chunk(g, k + 1)[i] = g[((k + 1) - 1) * Width + i]
    BY <1>2, <1>5, <2>1, ChunkFacts
  <2>3. \A i \in 1..Width : Chunk(g, k + 1)[i] = g[Len(f) + i]
    BY <1>5, <2>2
  <2>4. \A i \in 1..Width : g[Len(f) + i] = b[i]
    <3> TAKE i \in 1..Width
    <3>1. Len(f) + i \in 1 .. Len(f) + Len(b) /\ ~(Len(f) + i <= Len(f)) /\ Len(f) + i - Len(f) = i
      BY <1>1, <1>4
    <3> QED BY <1>2, <3>1
  <2> QED BY <1>1, <2>2, <2>3, <2>4, SeqEqual
<1>9. ASSUME NEW n \in 1..Len(t) PROVE Chunk(g, n) = t[n]
  <2>1. CASE n \in 1..k
    BY <1>3, <1>7, <2>1 DEF Begins
  <2>2. CASE n = k + 1
    BY <1>3, <1>8, <2>2
  <2> QED BY <1>3, <1>4, <2>1, <2>2
<1>10. Begins(g, t)
  <2>1. Len(t) * Width <= Len(g)
    BY <1>2, <1>6, LenProperties
  <2> QED BY <1>9, <2>1 DEF Begins
<1> QED BY <1>2, <1>3, <1>6, <1>10 DEF g, t

----------------------------------------------------------------------------
\* Reading: the iterator yields what a file begins with.

\* A set of naturals that is not empty has a least element.
LEMMA Least ==
  ASSUME NEW S \in SUBSET Nat, S # {}
  PROVE  \E n \in S : \A m \in S : n <= m
<1> DEFINE R == {ss \in Nat \X Nat : ss[1] < ss[2]}
<1>1. IsWellFoundedOn(R, Nat)
  BY NatLessThanWellFounded, Zenon DEF OpToRel
<1>2. PICK n \in S : \A m \in S : ~(<<m, n>> \in R)
  <2> HIDE DEF R
  <2> QED BY <1>1, WFMin, Zenon
<1>3. \A m \in S : ~(m < n)
  BY <1>2
<1> QED BY <1>3

LEMMA WholeFacts ==
  ASSUME NEW f \in Seq(Unit)
  PROVE  /\ Len(f) \in Nat
         /\ Whole(f) \in Nat
         /\ \A n \in 1..Whole(f) : n \in Nat \ {0} /\ n * Width <= Len(f)
         /\ \A k \in Nat : k * Width <= Len(f) => k <= Whole(f)
<1>1. Len(f) \in Nat
  BY LenProperties
<1>2. Whole(f) \in Nat /\ Whole(f) * Width <= Len(f)
  BY <1>1, Quotients, WidthFacts DEF Whole
<1>3. ASSUME NEW n \in 1..Whole(f) PROVE n \in Nat \ {0} /\ n * Width <= Len(f)
  <2>1. n \in Nat \ {0} /\ n <= Whole(f)
    BY <1>2
  <2>2. n * Width <= Whole(f) * Width /\ n * Width \in Nat /\ Whole(f) * Width \in Nat
    BY <1>2, <2>1, Multiples, WidthFacts
  <2> QED BY <1>1, <1>2, <2>1, <2>2
<1>4. \A k \in Nat : k * Width <= Len(f) => k <= Whole(f)
  BY <1>1, Quotients, WidthFacts DEF Whole
<1> QED BY <1>1, <1>2, <1>3, <1>4

\* Good counts the leading records whose sentinel is in place.
LEMMA GoodFacts ==
  ASSUME NEW f \in Seq(Unit)
  PROVE  /\ Good(f) \in Nat /\ Good(f) <= Whole(f)
         /\ \A k \in Nat : (k <= Whole(f) /\ \A n \in 1..k : Sentinel(Chunk(f, n))) => k <= Good(f)
<1> DEFINE bad == {n \in 1..Whole(f) : ~Sentinel(Chunk(f, n))}
<1>1. Whole(f) \in Nat
  BY WholeFacts
<1>2. CASE bad = {}
  <2>1. Good(f) = Whole(f)
    BY <1>2 DEF Good
  <2> QED BY <1>1, <2>1
<1>3. CASE bad # {}
  <2> DEFINE m == CHOOSE n \in bad : \A j \in bad : n <= j
  <2>1. bad \in SUBSET Nat
    BY <1>1
  <2>2. \E n \in bad : \A j \in bad : n <= j
    <3> HIDE DEF bad
    <3> QED BY <1>3, <2>1, Least
  <2>3. m \in bad /\ \A j \in bad : m <= j
    <3> HIDE DEF bad
    <3> QED BY <2>2
  <2>4. Good(f) = m - 1
    BY <1>3 DEF Good
  <2>5. m \in 1..Whole(f) /\ ~Sentinel(Chunk(f, m))
    BY <2>3
  <2> HIDE DEF bad, m
  <2>6. Good(f) \in Nat /\ Good(f) <= Whole(f)
    BY <1>1, <2>4, <2>5
  <2>7. ASSUME NEW k \in Nat, k <= Whole(f), \A n \in 1..k : Sentinel(Chunk(f, n)), ~(k <= m - 1)
        PROVE  FALSE
    <3>1. m \in 1..k
      BY <1>1, <2>5, <2>7
    <3> QED BY <2>5, <2>7, <3>1
  <2> QED BY <2>4, <2>6, <2>7
<1> QED BY <1>2, <1>3

LEMMA ReadAllFacts ==
  ASSUME NEW f \in Seq(Unit)
  PROVE  /\ ReadAll(f) = [n \in 1..Good(f) |-> Chunk(f, n)]
         /\ Len(ReadAll(f)) = Good(f) /\ DOMAIN ReadAll(f) = 1..Good(f)
         /\ \A n \in 1..Good(f) : ReadAll(f)[n] = Chunk(f, n)
         /\ ReadAll(f) \in Seq(Seq(Unit))
<1>1. Good(f) \in Nat /\ Good(f) <= Whole(f)
  BY GoodFacts
<1>2. \A n \in 1..Good(f) : 0 + n = n
  BY <1>1
<1>3. Good(f) - 0 = Good(f)
  BY <1>1
<1>4. ReadAll(f) = [n \in 1..(Good(f) - 0) |-> Chunk(f, 0 + n)]
  BY DEF ReadAll, ReadFrom
<1>5. ReadAll(f) = [n \in 1..Good(f) |-> Chunk(f, n)]
  BY <1>2, <1>3, <1>4
<1>6. \A n \in 1..Good(f) : Chunk(f, n) \in Seq(Unit)
  <2> TAKE n \in 1..Good(f)
  <2>1. n \in 1..Whole(f)
    BY <1>1, WholeFacts
  <2>2. n \in Nat \ {0} /\ n * Width <= Len(f)
    BY <2>1, WholeFacts
  <2> QED BY <2>2, ChunkFacts
<1> QED BY <1>1, <1>5, <1>6

\* The records a file begins with are the first the iterator yields.
LEMMA ReadsWhatBegins ==
  ASSUME NEW f \in Seq(Unit), NEW s \in Seq(Blocks), Begins(f, s)
  PROVE  /\ Len(s) <= Len(ReadAll(f))
         /\ SubSeq(ReadAll(f), 1, Len(s)) = s
         /\ Len(f) = Len(s) * Width => Status(f) = "Ok" /\ ReadAll(f) = s
<1>1. Len(s) \in Nat /\ Len(s) * Width <= Len(f)
  BY LenProperties DEF Begins
<1>2. Len(s) <= Whole(f)
  BY <1>1, WholeFacts
<1>3. \A n \in 1..Len(s) : Chunk(f, n) = s[n] /\ s[n] \in Blocks
  BY ElementOfSeq DEF Begins
<1>4. \A n \in 1..Len(s) : Sentinel(Chunk(f, n))
  BY <1>3, BlockFacts DEF Sentinel
<1>5. Len(s) <= Good(f) /\ Good(f) \in Nat
  BY <1>1, <1>2, <1>4, GoodFacts
<1>6. \A n \in 1..Len(s) : ReadAll(f)[n] = s[n]
  BY <1>1, <1>3, <1>5, ReadAllFacts
<1>7. Len(ReadAll(f)) = Good(f)
  BY ReadAllFacts
<1> DEFINE r == ReadAll(f)
<1>8. SubSeq(r, 1, Len(s)) = s
  <2> HIDE DEF r
  <2>1. \A i \in 1..Len(s) : r[i] \in Blocks
    BY <1>3, <1>6 DEF r
  <2>2. /\ SubSeq(r, 1, Len(s)) \in Seq(Blocks)
        /\ Len(SubSeq(r, 1, Len(s))) = IF 1 <= Len(s) THEN Len(s) - 1 + 1 ELSE 0
        /\ \A i \in 1..(Len(s) - 1 + 1) : SubSeq(r, 1, Len(s))[i] = r[1 + i - 1]
    BY <1>1, <2>1, SubSeqProperties
  <2>3. Len(SubSeq(r, 1, Len(s))) = Len(s)
    BY <1>1, <2>2
  <2>4. \A i \in 1..Len(s) : SubSeq(r, 1, Len(s))[i] = r[i]
    BY <1>1, <2>2
  <2> QED BY <1>6, <2>2, <2>3, <2>4, SeqEqual DEF r
<1>9. ASSUME Len(f) = Len(s) * Width PROVE Status(f) = "Ok" /\ ReadAll(f) = s
  <2>1. Whole(f) = Len(s) /\ Len(f) % Width = 0
    BY <1>1, <1>9, Multiples, WidthFacts DEF Whole
  <2>2. Good(f) = Len(s)
    BY <1>1, <1>5, <2>1, GoodFacts
  <2>3. Status(f) = "Ok"
    BY <1>1, <2>1, <2>2 DEF Status
  <2>4. ReadAll(f) = s
    <3>1. ReadAll(f) = [n \in 1..Len(s) |-> Chunk(f, n)]
      BY <2>2, ReadAllFacts
    <3>2. s = [n \in 1..Len(s) |-> s[n]]
      BY LenProperties
    <3> QED BY <1>3, <3>1, <3>2
  <2> QED BY <2>3, <2>4
<1> QED BY <1>5, <1>7, <1>8, <1>9

\* What a replay reads are receipts.
LEMMA RecordOfChunk ==
  ASSUME NEW f \in Seq(Unit), NEW n \in Nat, n >= 1, n <= Good(f)
  PROVE  Record(Chunk(f, n)) \in All
<1>1. n \in 1..Whole(f)
  BY GoodFacts, WholeFacts
<1>2. n \in Nat \ {0} /\ n * Width <= Len(f)
  BY <1>1, WholeFacts
<1>3. Chunk(f, n) \in Seq(Unit) /\ Len(Chunk(f, n)) = Width
  BY <1>2, ChunkFacts
<1>4. Chunk(f, n)[Width] \in Unit
  BY <1>3, WidthFacts, ElementOfSeq
<1> QED BY <1>4 DEF Record, Unit

LEMMA RecordsFacts ==
  ASSUME NEW f \in Seq(Unit)
  PROVE  Records(f) \in Seq(All)
<1>1. Good(f) \in Nat
  BY GoodFacts
<1>2. \A n \in 1..Good(f) : Record(ReadAll(f)[n]) \in All
  BY <1>1, ReadAllFacts, RecordOfChunk
<1>3. Records(f) = [n \in 1..Good(f) |-> Record(ReadAll(f)[n])]
  BY ReadAllFacts DEF Records
<1> QED BY <1>1, <1>2, <1>3

LEMMA BroadcastFacts ==
  ASSUME NEW f \in Seq(Unit), NEW since \in 0..(Whole(f) - 1), Status(f) = "Ok"
  PROVE  [n \in 1..Len(ReadFrom(f, since)) |-> Record(ReadFrom(f, since)[n])] \in Seq(All)
<1>1. Good(f) \in Nat /\ Whole(f) \in Nat /\ Good(f) <= Whole(f)
  BY GoodFacts, WholeFacts
<1>2. ~(Good(f) < Whole(f))
  BY DEF Status
<1> DEFINE len == Good(f) - since
<1>3. len \in Nat /\ \A n \in 1..len : since + n \in Nat /\ since + n >= 1 /\ since + n <= Good(f)
  BY <1>1, <1>2
<1>4. ReadFrom(f, since) = [n \in 1..len |-> Chunk(f, since + n)]
  BY DEF ReadFrom
<1>5. Len(ReadFrom(f, since)) = len /\ \A n \in 1..len : Record(ReadFrom(f, since)[n]) \in All
  BY <1>3, <1>4, RecordOfChunk
<1> QED BY <1>3, <1>5

----------------------------------------------------------------------------
\* The canonical order: every record has a place of its own, and among records
\* of different keys it does not depend on where they stood.

LEMMA KeysOfAll == \A r \in All : r.rank \in Nat /\ r.key \in Nat
<1>1. ASSUME NEW r \in Minted PROVE r.rank \in Nat /\ r.key \in Nat
  BY KeyAssumption DEF Minted, Mint
<1> QED BY <1>1, KnownAssumption DEF All

\* The positions of s listed no later than i.
UpTo(s, i) == {j \in DOMAIN s : \/ KeyBefore(s[j], s[i])
                                \/ KeyEqual(s[j], s[i]) /\ j <= i}

LEMMA UpToOrders ==
  ASSUME NEW s \in Seq(All), NEW i \in 1..Len(s), NEW j \in 1..Len(s), i # j
  PROVE  /\ i \in UpTo(s, i)
         /\ i \in UpTo(s, j) => UpTo(s, i) \subseteq UpTo(s, j) /\ j \notin UpTo(s, i)
         /\ i \in UpTo(s, j) \/ j \in UpTo(s, i)
<1>1. /\ DOMAIN s = 1..Len(s) /\ Len(s) \in Nat
      /\ \A n \in 1..Len(s) : s[n].rank \in Nat /\ s[n].key \in Nat
  BY LenProperties, ElementOfSeq, KeysOfAll
<1> DEFINE R(n) == s[n].rank  K(n) == s[n].key
<1>2. \A n \in 1..Len(s) : R(n) \in Nat /\ K(n) \in Nat
  BY <1>1
<1>3. \A n, m \in 1..Len(s) : n \in UpTo(s, m) <=>
           \/ R(n) < R(m) \/ (R(n) = R(m) /\ K(n) < K(m))
           \/ (R(n) = R(m) /\ K(n) = K(m)) /\ n <= m
  BY <1>1 DEF UpTo, KeyBefore, KeyEqual
<1>4. UpTo(s, i) \subseteq 1..Len(s)
  BY <1>1 DEF UpTo
<1> HIDE DEF R, K
<1>5. /\ R(i) \in Nat /\ K(i) \in Nat /\ R(j) \in Nat /\ K(j) \in Nat
      /\ i \in Nat /\ j \in Nat
  BY <1>1, <1>2
<1>6. /\ i \in UpTo(s, j) <=> \/ R(i) < R(j) \/ (R(i) = R(j) /\ K(i) < K(j))
                              \/ (R(i) = R(j) /\ K(i) = K(j)) /\ i <= j
      /\ j \in UpTo(s, i) <=> \/ R(j) < R(i) \/ (R(j) = R(i) /\ K(j) < K(i))
                              \/ (R(j) = R(i) /\ K(j) = K(i)) /\ j <= i
      /\ i \in UpTo(s, i) <=> \/ R(i) < R(i) \/ (R(i) = R(i) /\ K(i) < K(i))
                              \/ (R(i) = R(i) /\ K(i) = K(i)) /\ i <= i
  BY <1>3, Zenon
<1>7. i \in UpTo(s, i) /\ (i \in UpTo(s, j) \/ j \in UpTo(s, i))
  BY <1>5, <1>6
<1>8. ASSUME i \in UpTo(s, j) PROVE UpTo(s, i) \subseteq UpTo(s, j) /\ j \notin UpTo(s, i)
  <2>1. ASSUME NEW n \in UpTo(s, i) PROVE n \in UpTo(s, j)
    <3>1. n \in 1..Len(s)
      BY <1>4
    <3>2. R(n) \in Nat /\ K(n) \in Nat /\ n \in Nat
      BY <1>1, <1>2, <3>1
    <3>3. /\ n \in UpTo(s, i) <=> \/ R(n) < R(i) \/ (R(n) = R(i) /\ K(n) < K(i))
                                  \/ (R(n) = R(i) /\ K(n) = K(i)) /\ n <= i
          /\ n \in UpTo(s, j) <=> \/ R(n) < R(j) \/ (R(n) = R(j) /\ K(n) < K(j))
                                  \/ (R(n) = R(j) /\ K(n) = K(j)) /\ n <= j
      BY <1>3, <3>1, Zenon
    <3> QED BY <1>5, <1>6, <1>8, <2>1, <3>2, <3>3
  <2>2. j \notin UpTo(s, i)
    BY <1>5, <1>6, <1>8
  <2> QED BY <2>1, <2>2
<1> QED BY <1>7, <1>8

\* Every position has a place of its own, and every place is taken.
LEMMA PlaceFacts ==
  ASSUME NEW s \in Seq(All)
  PROVE  /\ \A i \in 1..Len(s) : Place(s, i) \in 1..Len(s)
         /\ \A i, j \in 1..Len(s) : Place(s, i) = Place(s, j) => i = j
         /\ \A n \in 1..Len(s) : \E i \in 1..Len(s) : Place(s, i) = n
<1> DEFINE l == Len(s)  D == 1..l
<1>1. DOMAIN s = D /\ l \in Nat
  BY LenProperties
<1>2. IsFiniteSet(D) /\ Cardinality(D) = l
  BY <1>1, FS_Interval
<1>3. \A i \in D : Place(s, i) = Cardinality(UpTo(s, i))
  BY DEF Place, UpTo
<1>4. \A i \in D : UpTo(s, i) \in SUBSET D /\ i \in UpTo(s, i)
  <2> TAKE i \in D
  <2>1. UpTo(s, i) \in SUBSET D
    BY <1>1 DEF UpTo
  <2>2. i \in UpTo(s, i)
    <3>1. s[i].rank \in Nat /\ s[i].key \in Nat
      BY KeysOfAll, ElementOfSeq
    <3> QED BY <1>1, <3>1 DEF UpTo, KeyEqual
  <2> QED BY <2>1, <2>2
<1> HIDE DEF D, l
<1>5. ASSUME NEW i \in D
      PROVE  IsFiniteSet(UpTo(s, i)) /\ Place(s, i) \in D
  <2>1. IsFiniteSet(UpTo(s, i)) /\ Cardinality(UpTo(s, i)) <= l
    BY <1>2, <1>4, FS_Subset
  <2>2. Cardinality(UpTo(s, i)) \in Nat /\ Cardinality(UpTo(s, i)) # 0
    BY <1>4, <2>1, FS_CardinalityType, FS_EmptySet
  <2> QED BY <1>1, <1>3, <2>1, <2>2 DEF D
<1>6. ASSUME NEW i \in D, NEW j \in D, i # j, i \in UpTo(s, j)
      PROVE  Place(s, i) # Place(s, j)
  <2>1. UpTo(s, i) \subseteq UpTo(s, j) /\ j \notin UpTo(s, i) /\ j \in UpTo(s, j)
    BY <1>4, <1>6, UpToOrders DEF D, l
  <2>2. UpTo(s, i) \in SUBSET UpTo(s, j) /\ UpTo(s, i) # UpTo(s, j)
    BY <2>1
  <2>3. IsFiniteSet(UpTo(s, j))
    BY <1>5
  <2>4. Cardinality(UpTo(s, j)) # Cardinality(UpTo(s, i))
    BY <2>2, <2>3, FS_Subset
  <2> QED BY <1>3, <2>4
<1>7. ASSUME NEW i \in D, NEW j \in D, Place(s, i) = Place(s, j) PROVE i = j
  <2>1. i # j => (i \in UpTo(s, j) \/ j \in UpTo(s, i))
    BY UpToOrders DEF D, l
  <2> QED BY <1>6, <1>7, <2>1
<1>8. ASSUME NEW n \in D PROVE \E i \in D : Place(s, i) = n
  <2> DEFINE f == [i \in D |-> Place(s, i)]
  <2>1. f \in Injection(D, D)
    BY <1>5, <1>7 DEF Injection, IsInjective
  <2> HIDE DEF f
  <2>2. f \in Surjection(D, D)
    BY <1>2, <2>1, FS_Injection
  <2>3. \E i \in D : f[i] = n
    BY <2>2 DEF Surjection
  <2> QED BY <2>3 DEF f
<1> QED BY <1>5, <1>7, <1>8 DEF D, l

LEMMA CanonicalFacts ==
  ASSUME NEW s \in Seq(All)
  PROVE  /\ Canonical(s) \in Seq(All) /\ Len(Canonical(s)) = Len(s) /\ DOMAIN Canonical(s) = 1..Len(s)
         /\ \A n \in 1..Len(s) : \E i \in 1..Len(s) : Place(s, i) = n /\ Canonical(s)[n] = s[i]
<1> DEFINE at(n) == CHOOSE i \in DOMAIN s : Place(s, i) = n
<1>1. DOMAIN s = 1..Len(s) /\ Len(s) \in Nat
  BY LenProperties
<1>2. ASSUME NEW n \in 1..Len(s) PROVE at(n) \in 1..Len(s) /\ Place(s, at(n)) = n
  BY <1>1, PlaceFacts
<1>3. Canonical(s) = [n \in 1..Len(s) |-> s[at(n)]]
  BY <1>1 DEF Canonical
<1> HIDE DEF at
<1>4. \A n \in 1..Len(s) : s[at(n)] \in All
  BY <1>2, ElementOfSeq
<1> QED BY <1>1, <1>2, <1>3, <1>4

\* The records of a set listed no later than x.
Below(S, x) == {y \in S : KeyBefore(y, x) \/ y = x}

LEMMA PlaceInSet ==
  ASSUME NEW s \in Seq(All), NEW i \in 1..Len(s),
         \A m, n \in 1..Len(s) : KeyEqual(s[m], s[n]) => m = n
  PROVE  Place(s, i) = Cardinality(Below({s[n] : n \in 1..Len(s)}, s[i]))
<1> DEFINE S == {s[n] : n \in 1..Len(s)}  U == UpTo(s, i)  B == Below(S, s[i])
           f == [j \in U |-> s[j]]
<1>1. DOMAIN s = 1..Len(s) /\ Len(s) \in Nat /\ \A n \in 1..Len(s) : s[n].rank \in Nat /\ s[n].key \in Nat
  BY LenProperties, ElementOfSeq, KeysOfAll
<1>2. \A m, n \in 1..Len(s) : s[m] = s[n] => m = n
  BY DEF KeyEqual
<1>3. U \subseteq 1..Len(s) /\ \A j \in U : KeyBefore(s[j], s[i]) \/ s[j] = s[i]
  BY <1>1 DEF UpTo
<1>4. f \in [U -> B]
  BY <1>3 DEF Below
<1>5. \A j, k \in U : f[j] = f[k] => j = k
  BY <1>2, <1>3
<1>6. ASSUME NEW y \in B PROVE \E j \in U : f[j] = y
  <2>1. PICK j \in 1..Len(s) : y = s[j]
    BY DEF Below
  <2>2. KeyBefore(s[j], s[i]) \/ s[j] = s[i]
    BY <2>1 DEF Below
  <2>3. j \in U
    <3>1. CASE KeyBefore(s[j], s[i])
      BY <1>1, <3>1 DEF UpTo
    <3>2. CASE s[j] = s[i]
      <4>1. j = i
        BY <1>2, <3>2
      <4> QED BY <1>1, <4>1 DEF UpTo, KeyEqual
    <3> QED BY <2>2, <3>1, <3>2
  <2> QED BY <2>1, <2>3
<1>7. IsFiniteSet(U)
  <2>1. IsFiniteSet(1..Len(s))
    BY <1>1, FS_Interval
  <2>2. U \in SUBSET (1..Len(s))
    BY <1>3
  <2> HIDE DEF U
  <2> QED BY <2>1, <2>2, FS_Subset
<1> HIDE DEF U, B, f
<1>8. ExistsBijection(U, B)
  BY <1>4, <1>5, <1>6, Zenon DEF ExistsBijection, Bijection, Injection, Surjection, IsInjective
<1>9. Cardinality(B) = Cardinality(U)
  BY <1>7, <1>8, FS_Bijection
<1> QED BY <1>9 DEF Place, U, UpTo, B, S

\* Of two records of a set of records with different keys, one is listed first.
LEMMA BelowDistinguishes ==
  ASSUME NEW S, IsFiniteSet(S), S \subseteq All, \A x, y \in S : KeyEqual(x, y) => x = y,
         NEW x \in S, NEW y \in S, Cardinality(Below(S, x)) = Cardinality(Below(S, y))
  PROVE  x = y
<1>1. \A z \in S : z.rank \in Nat /\ z.key \in Nat
  BY KeysOfAll
<1>2. ASSUME NEW a \in S, NEW b \in S, KeyBefore(a, b)
      PROVE  Cardinality(Below(S, a)) # Cardinality(Below(S, b))
  <2>1. a \in Below(S, b) /\ b \in Below(S, b) /\ a # b
    BY <1>1, <1>2 DEF Below, KeyBefore
  <2>2. b \notin Below(S, a)
    BY <1>1, <1>2, <2>1 DEF Below, KeyBefore
  <2>3. ASSUME NEW c \in Below(S, a) PROVE c \in Below(S, b)
    <3>1. c \in S /\ (KeyBefore(c, a) \/ c = a)
      BY <2>3 DEF Below
    <3>2. KeyBefore(c, a) => KeyBefore(c, b)
      BY <1>1, <1>2, <3>1 DEF KeyBefore
    <3> QED BY <1>2, <3>1, <3>2 DEF Below
  <2>4. Below(S, a) \in SUBSET Below(S, b) /\ Below(S, a) # Below(S, b)
    BY <2>1, <2>2, <2>3
  <2>5. Below(S, b) \in SUBSET S
    BY DEF Below
  <2>6. IsFiniteSet(Below(S, b))
    BY <2>5, FS_Subset
  <2> QED BY <2>4, <2>6, FS_Subset
<1>3. x # y => KeyBefore(x, y) \/ KeyBefore(y, x)
  BY <1>1 DEF KeyEqual, KeyBefore
<1> QED BY <1>2, <1>3

LEMMA SameListing ==
  ASSUME NEW a \in Seq(All), NEW b \in Seq(All),
         Len(a) = Len(b),
         {a[i] : i \in DOMAIN a} = {b[i] : i \in DOMAIN b},
         \A i, j \in DOMAIN a : KeyEqual(a[i], a[j]) => i = j
  PROVE  Canonical(a) = Canonical(b)
<1> DEFINE l == Len(a)  D == 1..l  S == {a[i] : i \in D}
<1>1. l \in Nat /\ DOMAIN a = D /\ DOMAIN b = D /\ Len(b) = l
  BY LenProperties
<1>2. S = {b[i] : i \in D} /\ \A i, j \in D : KeyEqual(a[i], a[j]) => i = j
  BY <1>1
<1>3. (\A i \in D : a[i] \in All) /\ (\A i \in D : b[i] \in All)
  BY <1>1, ElementOfSeq
<1>4. IsFiniteSet(D) /\ Cardinality(D) = l
  <2> HIDE DEF S, l
  <2> QED BY <1>1, FS_Interval
<1>5. S \subseteq All
  BY <1>3
<1>6. \A x, y \in S : KeyEqual(x, y) => x = y
  BY <1>2
<1> DEFINE f == [i \in D |-> a[i]]  g == [i \in D |-> b[i]]
<1>7. f \in Surjection(D, S) /\ g \in Surjection(D, S)
  BY <1>2 DEF Surjection
<1>8. f \in Injection(D, S)
  <2>1. \A i, j \in D : a[i] = a[j] => i = j
    BY <1>2 DEF KeyEqual
  <2> QED BY <2>1 DEF Injection, IsInjective
<1> HIDE DEF f, g, S, D
<1>9. IsFiniteSet(S) /\ Cardinality(S) = l
  BY <1>4, <1>7, <1>8, FS_Surjection
<1>10. g \in Injection(D, S)
  BY <1>4, <1>7, <1>9, FS_Surjection
<1>11. \A i, j \in D : KeyEqual(b[i], b[j]) => i = j
  <2> TAKE i \in D, j \in D
  <2> HAVE KeyEqual(b[i], b[j])
  <2>1. b[i] \in S /\ b[j] \in S
    BY <1>2 DEF S
  <2>2. b[i] = b[j]
    BY <1>6, <2>1
  <2>3. g[i] = g[j]
    BY <2>2 DEF g
  <2> QED BY <1>10, <2>3 DEF Injection, IsInjective
<1>12. ASSUME NEW n \in D PROVE Canonical(a)[n] = Canonical(b)[n]
  <2>1. PICK i \in D : Place(a, i) = n /\ Canonical(a)[n] = a[i]
    BY CanonicalFacts DEF D, l
  <2>2. PICK j \in D : Place(b, j) = n /\ Canonical(b)[n] = b[j]
    BY <1>1, CanonicalFacts DEF D, l
  <2>3. Place(a, i) = Cardinality(Below(S, a[i]))
    BY <1>2, PlaceInSet DEF S, D, l
  <2>4. Place(b, j) = Cardinality(Below(S, b[j]))
    BY <1>1, <1>2, <1>11, PlaceInSet DEF D
  <2>5. a[i] \in S /\ b[j] \in S
    BY <1>2 DEF S
  <2>6. a[i] = b[j]
    BY <1>5, <1>6, <1>9, <2>1, <2>2, <2>3, <2>4, <2>5, BelowDistinguishes
  <2> QED BY <2>1, <2>2, <2>6
<1>13. /\ Canonical(a) \in Seq(All) /\ Canonical(b) \in Seq(All)
       /\ Len(Canonical(a)) = l /\ Len(Canonical(b)) = l
  BY <1>1, CanonicalFacts
<1> QED BY <1>12, <1>13, SeqEqual DEF D

----------------------------------------------------------------------------
\* The ledger: the initial state, opening and closing.

LEMMA Remainders ==
  ASSUME NEW w \in Nat \ {0}, NEW l \in Nat
  PROVE  l % w \in 0..(w - 1)
OBVIOUS

LEMMA FunctionIsSeq ==
  ASSUME NEW S, NEW n \in Nat, NEW f \in [1..n -> S]
  PROVE  f \in Seq(S) /\ Len(f) = n
OBVIOUS

LEMMA InitKeeps == LedgerInit => LedgerInv
<1> SUFFICES ASSUME LedgerInit PROVE LedgerInv
  OBVIOUS
<1> USE DEF LedgerInit
<1>1. ASSUME NEW p \in Paths
      PROVE  /\ disk[p] \in Seq(Unit) /\ sound[p] \in Seq(Blocks)
             /\ Len(disk[p]) = Len(sound[p]) * Width
             /\ Begins(disk[p], sound[p])
  <2> DEFINE e == Existing[p]  l == Len(e)
             F(u) == <<e[(u - 1) \div Width + 1], ((u - 1) % Width) + 1>>
             f == [u \in 1..(l * Width) |-> F(u)]
             s == [n \in 1..l |-> Bytes(e[n])]
  <2>1. e \in Seq(Known)
    BY ExistingAssumption
  <2>2. l \in Nat /\ DOMAIN e = 1..l /\ \A n \in 1..l : e[n] \in All
    BY <2>1, LenProperties, ElementOfSeq DEF All
  <2>3. disk[p] = f /\ sound[p] = s
    BY <2>2
  <2> HIDE DEF e, l, F
  <2>4. s \in Seq(Blocks) /\ Len(s) = l /\ \A n \in 1..l : s[n] = Bytes(e[n])
    BY <2>2, BytesBlock
  <2>5. l * Width \in Nat
    BY <2>2, Multiples, WidthFacts
  <2>6. ASSUME NEW u \in 1..(l * Width) PROVE F(u) \in Unit
    <3> USE DEF F
    <3> DEFINE q == (u - 1) \div Width  b == (u - 1) % Width
    <3>1. u - 1 \in Nat
      BY <2>5
    <3>2. q \in Nat /\ q * Width <= u - 1 /\ b \in 0..(Width - 1)
      BY <3>1, WidthFacts, Quotients, Remainders
    <3> HIDE DEF q, b
    <3>3. q < l
      <4>1. q * Width \in Nat
        BY <3>2, Multiples, WidthFacts
      <4>2. l <= q => l * Width <= q * Width
        BY <2>2, <3>2, Multiples, WidthFacts
      <4>3. u - 1 < l * Width
        BY <2>5
      <4> DEFINE x == q * Width  y == l * Width
      <4> HIDE DEF x, y, F
      <4> QED BY <2>2, <2>5, <3>1, <3>2, <4>1, <4>2, <4>3 DEF x, y
    <3>4. F(u) = <<e[q + 1], b + 1>>
      BY DEF q, b
    <3> HIDE DEF F
    <3>5. q + 1 \in 1..l /\ b + 1 \in 1..Width
      BY <2>2, <3>2, <3>3, WidthFacts
    <3> QED BY <2>2, <3>4, <3>5 DEF Unit
  <2>7. f \in Seq(Unit) /\ Len(f) = l * Width
    <3> HIDE DEF F
    <3>1. f \in [1..(l * Width) -> Unit]
      BY <2>6
    <3> QED BY <2>5, <3>1, FunctionIsSeq
  <2>8. ASSUME NEW n \in 1..l PROVE Chunk(f, n) = s[n]
    <3> DEFINE k == n - 1
    <3>1. n \in Nat \ {0} /\ k \in Nat /\ n <= l
      BY <2>2
    <3>2. n * Width <= l * Width
      BY <2>2, <3>1, Multiples, WidthFacts
    <3> HIDE DEF f, k, F
    <3>3. /\ Chunk(f, n) \in Seq(Unit) /\ Len(Chunk(f, n)) = Width
          /\ \A i \in 1..Width : /\ Chunk(f, n)[i] = f[k * Width + i]
                                 /\ k * Width + i \in 1..Len(f)
      BY <2>7, <3>1, <3>2, ChunkFacts DEF k
    <3>4. s[n] \in Seq(Unit) /\ Len(s[n]) = Width
      BY <2>4, ElementOfSeq, BlockFacts
    <3>5. ASSUME NEW i \in 1..Width PROVE f[k * Width + i] = s[n][i]
      <4> DEFINE u == k * Width + i
      <4>1. u \in 1..(l * Width)
        BY <2>7, <3>3
      <4>2. u - 1 = k * Width + i - 1
        <5> DEFINE y == k * Width
        <5>1. y \in Nat
          BY <3>1, Multiples, WidthFacts
        <5> HIDE DEF y
        <5> QED BY <5>1, WidthFacts DEF y
      <4>3. (u - 1) \div Width = k /\ ((u - 1) % Width) + 1 = i
        BY <3>1, <4>2, Cells, WidthFacts
      <4> HIDE DEF u
      <4>4. f[u] = <<e[k + 1], i>>
        BY <4>1, <4>3 DEF f, F
      <4>5. k + 1 = n
        BY <3>1 DEF k
      <4>6. s[n][i] = <<e[n], i>>
        BY <2>4 DEF Bytes
      <4> QED BY <4>4, <4>5, <4>6 DEF u
    <3> QED BY <3>3, <3>4, <3>5, SeqEqual
  <2> HIDE DEF f, s, F
  <2>9. Begins(f, s)
    BY <2>4, <2>5, <2>7, <2>8 DEF Begins
  <2> QED BY <2>3, <2>4, <2>7, <2>9
<1>2. LedgerShape
  <2>1. disk = [p \in Paths |-> disk[p]] /\ sound = [p \in Paths |-> sound[p]]
    OBVIOUS
  <2>2. disk \in [Paths -> Seq(Unit)] /\ sound \in [Paths -> Seq(Blocks)]
    BY <1>1, <2>1
  <2>3. /\ handle \in [Handles -> [path : Paths \cup {"none"}, bytes : Nat, buf : Seq(Unit)]]
        /\ \A h \in Handles : handle[h].path = "none" => handle[h] = Closed
    BY DEF Closed
  <2>4. todo \in [Handles -> Seq(All)]
    OBVIOUS
  <2> QED BY <2>2, <2>3, <2>4 DEF LedgerShape
<1>3. \A h \in Handles : \A p \in Paths : handle[h].path # p
  BY PathAssumption DEF Closed
<1>4. \A p \in Paths : Kept(p) /\ Tidy(p) /\ Alone(p) /\ Counted(p)
  BY <1>1, <1>3 DEF Kept, Tidy, Alone, Counted
<1> QED BY <1>2, <1>4 DEF LedgerInv

LEMMA HandleFacts ==
  ASSUME LedgerInv, NEW h \in Handles, IsOpen(h)
  PROVE  /\ handle[h].path \in Paths
         /\ handle[h].bytes \in Nat /\ handle[h].buf \in Seq(Unit)
         /\ disk[handle[h].path] \in Seq(Unit) /\ sound[handle[h].path] \in Seq(Blocks)
         /\ Len(disk[handle[h].path]) \in Nat
<1>1. /\ handle[h].path \in Paths
      /\ handle[h].bytes \in Nat /\ handle[h].buf \in Seq(Unit)
      /\ disk[handle[h].path] \in Seq(Unit) /\ sound[handle[h].path] \in Seq(Blocks)
  BY DEF LedgerInv, LedgerShape, IsOpen
<1> QED BY <1>1, LenProperties

\* Queues change, nothing else does.
LEMMA QueueKeeps ==
  ASSUME LedgerInv, UNCHANGED <<disk, handle, sound, hurt, shared>>,
         todo' \in [Handles -> Seq(All)]
  PROVE  LedgerInv'
BY DEF LedgerInv, LedgerShape, Kept, Tidy, Alone, Counted

LEMMA OpenKeeps ==
  ASSUME LedgerInv, NEW h \in Handles, NEW p \in Paths, Open(h, p)
  PROVE  LedgerInv'
<1> DEFINE new == [path |-> p, bytes |-> Len(disk[p]), buf |-> <<>>]
<1>1. p # "none" /\ Len(disk[p]) \in Nat
  BY PathAssumption, LenProperties DEF LedgerInv, LedgerShape
<1>2. handle' = [handle EXCEPT ![h] = new] /\ UNCHANGED <<disk, todo, sound, hurt>>
  BY DEF Open
<1>3. handle'[h] = new /\ \A g \in Handles : g # h => handle'[g] = handle[g]
  BY <1>2 DEF LedgerInv, LedgerShape
<1>4. new.path = p /\ new.buf = <<>> /\ new.bytes = Len(disk[p])
  OBVIOUS
<1>5. \A q \in Paths : shared'[q] = FALSE
                       => shared[q] = FALSE /\ (q = p => \A g \in Handles : handle[g].path # p)
  <2>1. shared' = [shared EXCEPT ![p] = shared[p] \/ \E g \in Handles : handle[g].path = p]
    BY DEF Open
  <2>2. shared \in [Paths -> BOOLEAN]
    BY DEF LedgerInv, LedgerShape
  <2>3. /\ shared'[p] = (shared[p] \/ \E g \in Handles : handle[g].path = p)
        /\ \A q \in Paths : q # p => shared'[q] = shared[q]
    BY <2>1, <2>2
  <2> QED BY <2>2, <2>3, Zenon
<1>6. LedgerShape'
  <2>1. handle' \in [Handles -> [path : Paths \cup {"none"}, bytes : Nat, buf : Seq(Unit)]]
    BY <1>1, <1>2 DEF LedgerInv, LedgerShape
  <2>2. \A g \in Handles : handle'[g].path = "none" => handle'[g] = Closed
    <3>1. \A g \in Handles : handle[g].path = "none" => handle[g] = Closed
      BY DEF LedgerInv, LedgerShape
    <3>2. new.path # "none"
      BY <1>1, <1>4
    <3> HIDE DEF new
    <3> QED BY <1>3, <3>1, <3>2, Zenon
  <2>3. shared' \in [Paths -> BOOLEAN]
    BY DEF LedgerInv, LedgerShape, Open
  <2> QED BY <1>2, <2>1, <2>2, <2>3 DEF LedgerInv, LedgerShape
<1> HIDE DEF new
<1>7. ASSUME NEW q \in Paths
      PROVE  Kept(q)' /\ Tidy(q)' /\ Alone(q)' /\ Counted(q)'
  <2>0. Kept(q) /\ Tidy(q) /\ Alone(q) /\ Counted(q)
    BY DEF LedgerInv
  <2>1. Kept(q)'
    BY <1>2, <2>0 DEF Kept
  <2>2. Tidy(q)'
    <3> SUFFICES ASSUME hurt[q] = FALSE
                 PROVE  /\ Len(disk[q]) = Len(sound[q]) * Width
                        /\ \A g \in Handles : handle'[g].path = q => handle'[g].buf = <<>>
      BY <1>2, Zenon DEF Tidy
    <3>1. /\ Len(disk[q]) = Len(sound[q]) * Width
          /\ \A g \in Handles : handle[g].path = q => handle[g].buf = <<>>
      BY <2>0, Zenon DEF Tidy
    <3>2. \A g \in Handles : handle'[g].path = q => handle'[g].buf = <<>>
      BY <1>3, <1>4, <3>1, Zenon
    <3> QED BY <3>1, <3>2, Zenon
  <2>3. Alone(q)'
    <3> SUFFICES ASSUME shared'[q] = FALSE, NEW f \in Handles, NEW g \in Handles,
                        handle'[f].path = q, handle'[g].path = q
                 PROVE  f = g
      BY Zenon DEF Alone
    <3>1. CASE q = p
      <4>1. \A e \in Handles : handle[e].path # q
        BY <1>5, <3>1, Zenon
      <4> QED BY <1>3, <4>1, Zenon
    <3>2. CASE q # p
      <4>1. \A e, d \in Handles : handle[e].path = q /\ handle[d].path = q => e = d
        BY <1>5, <2>0, Zenon DEF Alone
      <4>2. f # h /\ g # h
        BY <1>3, <1>4, <3>2, Zenon
      <4> QED BY <1>3, <4>1, <4>2, Zenon
    <3> QED BY <3>1, <3>2
  <2>4. Counted(q)'
    <3> SUFFICES ASSUME hurt[q] = FALSE, shared'[q] = FALSE, NEW g \in Handles, handle'[g].path = q
                 PROVE  handle'[g].bytes = Len(disk[q])
      BY <1>2, Zenon DEF Counted
    <3>1. CASE g = h
      BY <1>3, <1>4, <3>1, Zenon
    <3>2. CASE g # h
      <4>1. handle'[g] = handle[g]
        BY <1>3, <3>2, Zenon
      <4>2. shared[q] = FALSE
        BY <1>5, Zenon
      <4> QED BY <2>0, <4>1, <4>2, Zenon DEF Counted
    <3> QED BY <3>1, <3>2
  <2> QED BY <2>1, <2>2, <2>3, <2>4
<1> QED BY <1>6, <1>7 DEF LedgerInv

\* A handle goes, with at most a part of its buffer written to its file.
LEMMA CloseKeeps ==
  ASSUME LedgerInv, NEW h \in Handles, Close(h)
  PROVE  LedgerInv'
<1> DEFINE p == handle[h].path
<1>1. IsOpen(h) /\ p \in Paths /\ handle[h].buf \in Seq(Unit) /\ disk[p] \in Seq(Unit) /\ sound[p] \in Seq(Blocks)
  BY HandleFacts DEF Close
<1>2. PICK k \in 0..Len(handle[h].buf) :
          disk' = [disk EXCEPT ![p] = @ \o SubSeq(handle[h].buf, 1, k)]
  BY DEF Close
<1> DEFINE x == SubSeq(handle[h].buf, 1, k)
<1>3. x \in Seq(Unit) /\ (handle[h].buf = <<>> => x = <<>>)
  <2>1. Len(handle[h].buf) \in Nat /\ \A i \in 1..Len(handle[h].buf) : handle[h].buf[i] \in Unit
    BY <1>1, LenProperties, ElementOfSeq
  <2>2. x \in Seq(Unit)
    BY <2>1, SubSeqProperties
  <2>3. handle[h].buf = <<>> => k = 0
    BY <1>1
  <2> QED BY <2>2, <2>3, SubSeqEmpty
<1>4. /\ handle'[h] = Closed
      /\ \A g \in Handles : g # h => handle'[g] = handle[g]
      /\ disk'[p] = disk[p] \o x
      /\ \A q \in Paths : q # p => disk'[q] = disk[q]
      /\ UNCHANGED <<todo, sound, hurt, shared>>
  BY <1>1, <1>2 DEF Close, LedgerInv, LedgerShape
<1> HIDE DEF x, p
<1>5. disk'[p] \in Seq(Unit)
  BY <1>1, <1>3, <1>4, ConcatProperties
<1>6. LedgerShape'
  <2>1. disk' \in [Paths -> Seq(Unit)]
    <3>1. disk \in [Paths -> Seq(Unit)]
      BY DEF LedgerInv, LedgerShape
    <3>2. disk[p] \o x \in Seq(Unit) /\ disk' = [disk EXCEPT ![p] = disk[p] \o x]
      BY <1>2, <1>4, <1>5 DEF p, x
    <3> QED BY <3>1, <3>2
  <2>2. handle' \in [Handles -> [path : Paths \cup {"none"}, bytes : Nat, buf : Seq(Unit)]]
    <3>1. handle \in [Handles -> [path : Paths \cup {"none"}, bytes : Nat, buf : Seq(Unit)]]
      BY DEF LedgerInv, LedgerShape
    <3>2. handle' = [handle EXCEPT ![h] = Closed]
      BY DEF Close
    <3>3. Closed \in [path : Paths \cup {"none"}, bytes : Nat, buf : Seq(Unit)]
      BY DEF Closed
    <3> QED BY <3>1, <3>2, <3>3
  <2>3. \A g \in Handles : handle'[g].path = "none" => handle'[g] = Closed
    BY <1>4 DEF LedgerInv, LedgerShape
  <2> QED BY <1>4, <2>1, <2>2, <2>3 DEF LedgerInv, LedgerShape
<1>7. Closed.path = "none" /\ "none" \notin Paths
  BY PathAssumption DEF Closed
<1>8. ASSUME NEW q \in Paths
      PROVE  Kept(q)' /\ Tidy(q)' /\ Alone(q)' /\ Counted(q)'
  <2>0. Kept(q) /\ Tidy(q) /\ Alone(q) /\ Counted(q)
    BY DEF LedgerInv
  <2>1. Kept(q)'
    BY <1>1, <1>3, <1>4, <2>0, BeginsExtends DEF Kept
  <2>2. hurt[q] = FALSE => disk'[q] = disk[q]
    <3>1. CASE q = p
      <4>1. hurt[q] = FALSE => handle[h].buf = <<>>
        BY <2>0, <3>1 DEF Tidy, p
      <4> QED BY <1>1, <1>3, <1>4, <3>1, <4>1, ConcatEmptySeq
    <3> QED BY <1>4, <3>1
  <2>3. Tidy(q)'
    BY <1>4, <1>7, <2>0, <2>2 DEF Tidy
  <2>4. Alone(q)'
    BY <1>4, <1>7, <2>0 DEF Alone
  <2>5. Counted(q)'
    BY <1>4, <1>7, <2>0, <2>2 DEF Counted
  <2> QED BY <2>1, <2>3, <2>4, <2>5
<1> QED BY <1>6, <1>8 DEF LedgerInv

----------------------------------------------------------------------------
\* The ledger: appends, whole, failing and dying.

LEMMA HandleChanges ==
  ASSUME LedgerInv, NEW h \in Handles,
         NEW new \in [path : Paths \cup {"none"}, bytes : Nat, buf : Seq(Unit)],
         new.path = "none" => new = Closed,
         handle' = [handle EXCEPT ![h] = new]
  PROVE  /\ handle' \in [Handles -> [path : Paths \cup {"none"}, bytes : Nat, buf : Seq(Unit)]]
         /\ \A g \in Handles : handle'[g].path = "none" => handle'[g] = Closed
         /\ handle'[h] = new
         /\ \A g \in Handles : g # h => handle'[g] = handle[g]
<1>1. /\ handle \in [Handles -> [path : Paths \cup {"none"}, bytes : Nat, buf : Seq(Unit)]]
      /\ \A g \in Handles : handle[g].path = "none" => handle[g] = Closed
  BY DEF LedgerInv, LedgerShape
<1>2. handle'[h] = new /\ \A g \in Handles : g # h => handle'[g] = handle[g]
  BY <1>1
<1>3. handle' \in [Handles -> [path : Paths \cup {"none"}, bytes : Nat, buf : Seq(Unit)]]
  BY <1>1
<1> QED BY <1>1, <1>2, <1>3, Zenon

\* An append that reaches the file whole.
LEMMA WriteKeeps ==
  ASSUME LedgerInv, NEW h \in Handles, NEW r \in All, IsOpen(h), Write(h, r),
         todo' \in [Handles -> Seq(All)]
  PROVE  LedgerInv'
<1> DEFINE p == handle[h].path  x == handle[h].buf  b == Bytes(r)
           new == [path |-> p, bytes |-> handle[h].bytes + Width, buf |-> <<>>]
<1>1. /\ p \in Paths /\ handle[h].bytes \in Nat /\ x \in Seq(Unit)
      /\ disk[p] \in Seq(Unit) /\ sound[p] \in Seq(Blocks) /\ Len(disk[p]) \in Nat
  BY HandleFacts
<1>2. b \in Blocks /\ b \in Seq(Unit) /\ Len(b) = Width
  BY BytesBlock, BlockFacts
<1>3. handle' = [handle EXCEPT ![h] = new]
  BY DEF Write
<1>4. /\ disk' = [disk EXCEPT ![p] = disk[p] \o x \o b]
      /\ sound' = IF hurt[p] THEN sound ELSE [sound EXCEPT ![p] = Append(sound[p], b)]
      /\ hurt' = hurt /\ shared' = shared
  BY DEF Write
<1>5. new \in [path : Paths \cup {"none"}, bytes : Nat, buf : Seq(Unit)] /\ new.path # "none"
  <2>1. handle[h].bytes + Width \in Nat /\ <<>> \in Seq(Unit)
    BY <1>1, WidthFacts
  <2> HIDE DEF p
  <2>2. p \in Paths /\ p # "none"
    BY <1>1, PathAssumption
  <2> QED BY <2>1, <2>2
<1>6. new.path = p /\ new.buf = <<>> /\ new.bytes = handle[h].bytes + Width
  OBVIOUS
<1> HIDE DEF new
<1>7. /\ handle' \in [Handles -> [path : Paths \cup {"none"}, bytes : Nat, buf : Seq(Unit)]]
      /\ \A g \in Handles : handle'[g].path = "none" => handle'[g] = Closed
      /\ handle'[h] = new
      /\ \A g \in Handles : g # h => handle'[g] = handle[g]
  BY <1>3, <1>5, HandleChanges, Zenon
<1>8. \A g \in Handles : handle'[g].path = handle[g].path
  BY <1>6, <1>7, Zenon
<1>9. /\ disk \in [Paths -> Seq(Unit)] /\ sound \in [Paths -> Seq(Blocks)]
      /\ hurt \in [Paths -> BOOLEAN] /\ shared \in [Paths -> BOOLEAN]
  BY DEF LedgerInv, LedgerShape
<1>10. /\ disk'[p] = disk[p] \o x \o b /\ disk'[p] \in Seq(Unit)
       /\ \A q \in Paths : q # p => disk'[q] = disk[q]
       /\ disk' \in [Paths -> Seq(Unit)]
  <2>1. disk[p] \o x \o b \in Seq(Unit)
    BY <1>1, <1>2, ConcatProperties
  <2> HIDE DEF p, x, b
  <2> QED BY <1>1, <1>4, <1>9, <2>1
<1>11. /\ hurt[p] = FALSE => sound'[p] = Append(sound[p], b)
       /\ hurt[p] # FALSE => sound'[p] = sound[p]
       /\ \A q \in Paths : q # p => sound'[q] = sound[q]
       /\ sound' \in [Paths -> Seq(Blocks)]
  <2>1. Append(sound[p], b) \in Seq(Blocks)
    BY <1>1, <1>2, AppendProperties
  <2>2. hurt[p] \in BOOLEAN
    BY <1>1, <1>9
  <2> HIDE DEF p, b
  <2>3. CASE hurt[p] = FALSE
    <3>1. sound' = [sound EXCEPT ![p] = Append(sound[p], b)]
      BY <1>4, <2>3, Zenon
    <3> QED BY <1>1, <1>9, <2>1, <2>3, <3>1
  <2>4. CASE hurt[p] = TRUE
    <3>1. sound' = sound
      BY <1>4, <2>4, Zenon
    <3> QED BY <1>9, <2>4, <3>1, Zenon
  <2> QED BY <2>2, <2>3, <2>4, Zenon
<1> HIDE DEF b
<1>12. hurt[p] = FALSE => /\ disk'[p] = disk[p] \o b
                          /\ Len(disk'[p]) = Len(disk[p]) + Width
                          /\ Len(disk'[p]) = Len(sound'[p]) * Width
                          /\ Begins(disk'[p], sound'[p])
  <2> HAVE hurt[p] = FALSE
  <2>1. Tidy(p) /\ Kept(p)
    BY <1>1 DEF LedgerInv
  <2>2. Len(disk[p]) = Len(sound[p]) * Width /\ x = <<>>
    BY <2>1 DEF Tidy
  <2>3. Begins(disk[p], sound[p])
    BY <2>1 DEF Kept
  <2>4. disk[p] \o x = disk[p]
    BY <1>1, <2>2, ConcatEmptySeq
  <2>5. disk'[p] = disk[p] \o b
    BY <1>10, <2>4
  <2>6. Len(disk[p] \o b) = Len(disk[p]) + Width
    BY <1>1, <1>2, ConcatProperties
  <2>7. /\ Len(disk[p] \o b) = Len(Append(sound[p], b)) * Width
        /\ Begins(disk[p] \o b, Append(sound[p], b))
    BY <1>1, <1>2, <2>2, <2>3, BeginsGrows
  <2>8. sound'[p] = Append(sound[p], b)
    BY <1>11, Zenon
  <2> QED BY <2>5, <2>6, <2>7, <2>8, Zenon
<1>13. LedgerShape'
  BY <1>4, <1>7, <1>9, <1>10, <1>11, Zenon DEF LedgerShape
<1>14. ASSUME NEW q \in Paths
       PROVE  Kept(q)' /\ Tidy(q)' /\ Alone(q)' /\ Counted(q)'
  <2>0. Kept(q) /\ Tidy(q) /\ Alone(q) /\ Counted(q)
    BY DEF LedgerInv
  <2> HIDE DEF p, x
  <2>1. Kept(q)'
    <3>1. CASE q # p
      BY <1>10, <1>11, <2>0, <3>1, Zenon DEF Kept
    <3>2. CASE q = p /\ hurt[p] = FALSE
      BY <1>12, <3>2, Zenon DEF Kept
    <3>3. CASE q = p /\ hurt[p] # FALSE
      <4>1. Begins(disk[p], sound[p])
        BY <2>0, <3>3, Zenon DEF Kept
      <4>2. Begins(disk[p] \o x, sound[p]) /\ disk[p] \o x \in Seq(Unit)
        BY <1>1, <4>1, BeginsExtends, ConcatProperties
      <4>3. Begins(disk[p] \o x \o b, sound[p])
        BY <1>1, <1>2, <4>2, BeginsExtends
      <4> QED BY <1>10, <1>11, <3>3, <4>3, Zenon DEF Kept
    <3> QED BY <3>1, <3>2, <3>3, Zenon
  <2>2. Tidy(q)'
    <3> SUFFICES ASSUME hurt[q] = FALSE
                 PROVE  /\ Len(disk'[q]) = Len(sound'[q]) * Width
                        /\ \A g \in Handles : handle'[g].path = q => handle'[g].buf = <<>>
      BY <1>4, Zenon DEF Tidy
    <3>1. Len(disk'[q]) = Len(sound'[q]) * Width
      <4>1. CASE q = p
        BY <1>12, <4>1, Zenon
      <4>2. CASE q # p
        BY <1>10, <1>11, <2>0, <4>2, Zenon DEF Tidy
      <4> QED BY <4>1, <4>2
    <3>2. ASSUME NEW g \in Handles, handle'[g].path = q PROVE handle'[g].buf = <<>>
      <4>1. CASE g = h
        BY <1>6, <1>7, <4>1, Zenon
      <4>2. CASE g # h
        BY <1>7, <2>0, <3>2, <4>2, Zenon DEF Tidy
      <4> QED BY <4>1, <4>2
    <3> QED BY <3>1, <3>2
  <2>3. Alone(q)'
    BY <1>4, <1>8, <2>0, Zenon DEF Alone
  <2>4. Counted(q)'
    <3> SUFFICES ASSUME hurt[q] = FALSE, shared[q] = FALSE, NEW g \in Handles, handle'[g].path = q
                 PROVE  handle'[g].bytes = Len(disk'[q])
      BY <1>4, Zenon DEF Counted
    <3>1. handle[g].path = q /\ handle[g].bytes = Len(disk[q])
      BY <1>8, <2>0, Zenon DEF Counted
    <3>2. CASE q = p
      <4>1. handle[h].path = q
        BY <3>2 DEF p
      <4>2. g = h
        BY <2>0, <3>1, <4>1, Zenon DEF Alone
      <4>3. handle'[g].bytes = handle[h].bytes + Width
        BY <1>6, <1>7, <4>2, Zenon
      <4>4. Len(disk'[q]) = Len(disk[q]) + Width
        BY <1>12, <3>2, Zenon
      <4> QED BY <3>1, <4>2, <4>3, <4>4
    <3>3. CASE q # p
      <4>1. g # h
        BY <3>1, <3>3 DEF p
      <4> QED BY <1>7, <1>10, <3>1, <3>3, <4>1, Zenon
    <3> QED BY <3>2, <3>3
  <2> QED BY <2>1, <2>2, <2>3, <2>4
<1> QED BY <1>13, <1>14 DEF LedgerInv

\* An append that fails or dies: some of it reaches the file, the handle keeps
\* the rest or is gone, and the file is marked.
LEMMA FaultKeeps ==
  ASSUME LedgerInv, NEW h \in Handles, NEW p \in Paths, handle[h].path = p,
         NEW x \in Seq(Unit), disk' = [disk EXCEPT ![p] = @ \o x],
         NEW new \in [path : Paths \cup {"none"}, bytes : Nat, buf : Seq(Unit)],
         new = Closed \/ (new.path = p /\ new.bytes = handle[h].bytes),
         handle' = [handle EXCEPT ![h] = new],
         hurt' = [hurt EXCEPT ![p] = TRUE],
         UNCHANGED <<sound, shared>>,
         todo' \in [Handles -> Seq(All)]
  PROVE  LedgerInv'
<1>0. p # "none" /\ "none" \notin Paths /\ Closed.path = "none"
  BY PathAssumption DEF Closed
<1>1. /\ handle' \in [Handles -> [path : Paths \cup {"none"}, bytes : Nat, buf : Seq(Unit)]]
      /\ \A g \in Handles : handle'[g].path = "none" => handle'[g] = Closed
      /\ handle'[h] = new
      /\ \A g \in Handles : g # h => handle'[g] = handle[g]
  <2>1. new.path = "none" => new = Closed
    BY <1>0
  <2> QED BY <2>1, HandleChanges, Zenon
<1>2. /\ disk \in [Paths -> Seq(Unit)] /\ sound \in [Paths -> Seq(Blocks)]
      /\ hurt \in [Paths -> BOOLEAN] /\ shared \in [Paths -> BOOLEAN]
  BY DEF LedgerInv, LedgerShape
<1>3. /\ disk'[p] = disk[p] \o x
      /\ \A q \in Paths : q # p => disk'[q] = disk[q]
      /\ disk' \in [Paths -> Seq(Unit)]
  <2>1. disk[p] \o x \in Seq(Unit)
    BY <1>2, ConcatProperties
  <2> QED BY <1>2, <2>1
<1>4. hurt'[p] # FALSE /\ (\A q \in Paths : q # p => hurt'[q] = hurt[q]) /\ hurt' \in [Paths -> BOOLEAN]
  BY <1>2
<1>5. LedgerShape'
  BY <1>1, <1>2, <1>3, <1>4, Zenon DEF LedgerShape
<1>6. \A g \in Handles : \A q \in Paths : handle'[g].path = q => handle[g].path = q
  BY <1>0, <1>1, Zenon
<1>7. ASSUME NEW q \in Paths
      PROVE  Kept(q)' /\ Tidy(q)' /\ Alone(q)' /\ Counted(q)'
  <2>0. Kept(q) /\ Tidy(q) /\ Alone(q) /\ Counted(q)
    BY DEF LedgerInv
  <2>1. Kept(q)'
    <3>1. CASE q = p
      <4>1. Begins(disk[p], sound[p])
        BY <2>0, <3>1 DEF Kept
      <4>2. Begins(disk[p] \o x, sound[p])
        BY <1>2, <4>1, BeginsExtends
      <4> QED BY <1>3, <3>1, <4>2, Zenon DEF Kept
    <3>2. CASE q # p
      BY <1>3, <2>0, <3>2, Zenon DEF Kept
    <3> QED BY <3>1, <3>2
  <2>2. CASE q = p
    <3>1. Tidy(q)' /\ Counted(q)'
      BY <1>4, <2>2, Zenon DEF Tidy, Counted
    <3>2. Alone(q)'
      BY <1>6, <2>0, Zenon DEF Alone
    <3> QED BY <2>1, <3>1, <3>2
  <2>3. CASE q # p
    <3>1. \A g \in Handles : handle'[g].path = q => g # h /\ handle'[g] = handle[g]
      BY <1>1, <1>6, <2>3, Zenon
    <3>2. hurt'[q] = hurt[q] /\ disk'[q] = disk[q]
      BY <1>3, <1>4, <2>3, Zenon
    <3>3. Tidy(q)'
      BY <2>0, <3>1, <3>2, Zenon DEF Tidy
    <3>4. Counted(q)'
      BY <2>0, <3>1, <3>2, Zenon DEF Counted
    <3>5. Alone(q)'
      BY <1>6, <2>0, Zenon DEF Alone
    <3> QED BY <2>1, <3>3, <3>4, <3>5
  <2> QED BY <2>2, <2>3
<1> QED BY <1>5, <1>7 DEF LedgerInv

LEMMA PendingParts ==
  ASSUME NEW x \in Seq(Unit), NEW r \in All, NEW k \in 0..(Len(x \o Bytes(r)) - 1)
  PROVE  /\ SubSeq(x \o Bytes(r), 1, k) \in Seq(Unit)
         /\ SubSeq(x \o Bytes(r), k + 1, Len(x \o Bytes(r))) \in Seq(Unit)
<1> DEFINE y == x \o Bytes(r)
<1>1. y \in Seq(Unit)
  BY BytesBlock, BlockFacts, ConcatProperties
<1> HIDE DEF y
<1>2. Len(y) \in Nat /\ \A i \in 1..Len(y) : y[i] \in Unit
  BY <1>1, LenProperties, ElementOfSeq
<1>3. ASSUME NEW j \in 0..(Len(y) - 1)
      PROVE  SubSeq(y, 1, j) \in Seq(Unit) /\ SubSeq(y, j + 1, Len(y)) \in Seq(Unit)
  BY <1>2, SubSeqProperties
<1> QED BY <1>3 DEF y

LEMMA BufChanges ==
  ASSUME LedgerInv, NEW h \in Handles, NEW v
  PROVE  [handle[h] EXCEPT !.buf = v] =
             [path |-> handle[h].path, bytes |-> handle[h].bytes, buf |-> v]
<1>1. handle[h] \in [path : Paths \cup {"none"}, bytes : Nat, buf : Seq(Unit)]
  BY DEF LedgerInv, LedgerShape
<1> QED BY <1>1

LEMMA FailKeeps ==
  ASSUME LedgerInv, NEW h \in Handles, NEW r \in All, IsOpen(h), WriteFails(h, r),
         todo' \in [Handles -> Seq(All)]
  PROVE  LedgerInv'
<1> DEFINE p == handle[h].path  y == handle[h].buf \o Bytes(r)
<1>1. /\ p \in Paths /\ handle[h].bytes \in Nat /\ handle[h].buf \in Seq(Unit)
  BY HandleFacts
<1>2. PICK k \in 0..(Len(y) - 1) :
             /\ disk' = [disk EXCEPT ![p] = @ \o SubSeq(y, 1, k)]
             /\ handle' = [handle EXCEPT ![h].buf = SubSeq(y, k + 1, Len(y))]
  BY DEF WriteFails
<1>3. SubSeq(y, 1, k) \in Seq(Unit) /\ SubSeq(y, k + 1, Len(y)) \in Seq(Unit)
  BY <1>1, PendingParts
<1> DEFINE new == [path |-> p, bytes |-> handle[h].bytes, buf |-> SubSeq(y, k + 1, Len(y))]
<1> HIDE DEF y
<1>4. handle' = [handle EXCEPT ![h] = new]
  <2>1. handle \in [Handles -> [path : Paths \cup {"none"}, bytes : Nat, buf : Seq(Unit)]]
    BY DEF LedgerInv, LedgerShape
  <2>2. [handle[h] EXCEPT !.buf = SubSeq(y, k + 1, Len(y))] = new
    BY BufChanges
  <2>3. handle' = [handle EXCEPT ![h] = [handle[h] EXCEPT !.buf = SubSeq(y, k + 1, Len(y))]]
    BY <1>2, <2>1
  <2> HIDE DEF new
  <2> QED BY <2>2, <2>3, Zenon
<1>5. /\ new \in [path : Paths \cup {"none"}, bytes : Nat, buf : Seq(Unit)]
      /\ new.path = p /\ new.bytes = handle[h].bytes
  BY <1>1, <1>3
<1>6. hurt' = [hurt EXCEPT ![p] = TRUE] /\ UNCHANGED <<sound, shared>>
  BY DEF WriteFails
<1> HIDE DEF new
<1> QED BY <1>1, <1>2, <1>3, <1>4, <1>5, <1>6, FaultKeeps

LEMMA DieKeeps ==
  ASSUME LedgerInv, NEW h \in Handles, NEW r \in All, IsOpen(h), WriteDies(h, r)
  PROVE  LedgerInv'
<1> DEFINE p == handle[h].path  y == handle[h].buf \o Bytes(r)
<1>1. /\ p \in Paths /\ handle[h].buf \in Seq(Unit)
  BY HandleFacts
<1>2. PICK k \in 0..(Len(y) - 1) : disk' = [disk EXCEPT ![p] = @ \o SubSeq(y, 1, k)]
  BY DEF WriteDies
<1>3. SubSeq(y, 1, k) \in Seq(Unit)
  BY <1>1, PendingParts
<1> HIDE DEF y
<1>4. handle' = [handle EXCEPT ![h] = Closed]
  BY DEF WriteDies
<1>5. Closed \in [path : Paths \cup {"none"}, bytes : Nat, buf : Seq(Unit)]
  BY DEF Closed
<1>6. /\ hurt' = [hurt EXCEPT ![p] = TRUE] /\ UNCHANGED <<sound, shared>>
      /\ todo' = [todo EXCEPT ![h] = <<>>]
  BY DEF WriteDies
<1>7. todo' \in [Handles -> Seq(All)]
  <2>1. todo \in [Handles -> Seq(All)]
    BY DEF LedgerInv, LedgerShape
  <2> QED BY <1>6, <2>1
<1> QED BY <1>1, <1>2, <1>3, <1>4, <1>5, <1>6, <1>7, FaultKeeps

----------------------------------------------------------------------------
\* The other processes' steps, and what they leave alone.

LEMMA Shapes ==
  ASSUME LedgerInv
  PROVE  /\ disk \in [Paths -> Seq(Unit)] /\ todo \in [Handles -> Seq(All)]
         /\ sound \in [Paths -> Seq(Blocks)]
         /\ hurt \in [Paths -> BOOLEAN] /\ shared \in [Paths -> BOOLEAN]
         /\ handle \in [Handles -> [path : Paths \cup {"none"}, bytes : Nat, buf : Seq(Unit)]]
BY DEF LedgerInv, LedgerShape

\* What an append does to the histories and to the other handles.
LEMMA WriteEffect ==
  ASSUME LedgerInv, NEW h \in Handles, NEW r \in All, IsOpen(h), Write(h, r)
  PROVE  /\ hurt' = hurt /\ shared' = shared
         /\ \A g \in Handles : g # h => handle'[g] = handle[g]
         /\ handle'[h].path = handle[h].path
         /\ \A q \in Paths : q # handle[h].path => sound'[q] = sound[q]
         /\ hurt[handle[h].path] = FALSE
              => sound'[handle[h].path] = Append(sound[handle[h].path], Bytes(r))
<1> DEFINE p == handle[h].path
<1>1. p \in Paths
  BY HandleFacts
<1>2. handle' = [handle EXCEPT ![h] = [path |-> p, bytes |-> @.bytes + Width, buf |-> <<>>]]
  BY DEF Write
<1>3. (\A g \in Handles : g # h => handle'[g] = handle[g]) /\ handle'[h].path = p
  BY <1>2, Shapes
<1>4. hurt' = hurt /\ shared' = shared
  BY DEF Write
<1>5. sound' = IF hurt[p] THEN sound ELSE [sound EXCEPT ![p] = Append(sound[p], Bytes(r))]
  BY DEF Write
<1>6. hurt[p] \in BOOLEAN /\ sound \in [Paths -> Seq(Blocks)]
  BY <1>1, Shapes
<1> HIDE DEF p
<1>7. CASE hurt[p] = FALSE
  <2>1. sound' = [sound EXCEPT ![p] = Append(sound[p], Bytes(r))]
    BY <1>5, <1>7, Zenon
  <2>2. sound'[p] = Append(sound[p], Bytes(r)) /\ \A q \in Paths : q # p => sound'[q] = sound[q]
    BY <1>1, <1>6, <2>1
  <2> QED BY <1>3, <1>4, <2>2, Zenon DEF p
<1>8. CASE hurt[p] = TRUE
  <2>1. sound' = sound
    BY <1>5, <1>8, Zenon
  <2> QED BY <1>3, <1>4, <1>8, <2>1, Zenon DEF p
<1> QED BY <1>6, <1>7, <1>8, Zenon

LEMMA FaultEffect ==
  ASSUME LedgerInv, NEW h \in Handles, NEW r \in All, IsOpen(h), WriteFails(h, r) \/ WriteDies(h, r)
  PROVE  /\ sound' = sound /\ shared' = shared
         /\ \A g \in Handles : g # h => handle'[g] = handle[g]
         /\ hurt'[handle[h].path] # FALSE
         /\ \A q \in Paths : hurt'[q] = FALSE => hurt[q] = FALSE
         /\ WriteFails(h, r) => handle'[h].path = handle[h].path
         /\ WriteDies(h, r) => handle'[h] = Closed
<1> DEFINE p == handle[h].path
<1>1. p \in Paths
  BY HandleFacts
<1>2. hurt' = [hurt EXCEPT ![p] = TRUE] /\ sound' = sound /\ shared' = shared
  BY DEF WriteFails, WriteDies
<1>3. hurt'[p] = TRUE /\ \A q \in Paths : q # p => hurt'[q] = hurt[q]
  BY <1>1, <1>2, Shapes
<1>4. /\ \A g \in Handles : g # h => handle'[g] = handle[g]
      /\ WriteFails(h, r) => handle'[h].path = p
      /\ WriteDies(h, r) => handle'[h] = Closed
  <2>1. CASE WriteFails(h, r)
    <3>1. PICK v : handle' = [handle EXCEPT ![h].buf = v]
      BY <2>1, Zenon DEF WriteFails
    <3>2. (\A g \in Handles : g # h => handle'[g] = handle[g]) /\ handle'[h].path = p
      BY <3>1, Shapes
    <3>3. ~WriteDies(h, r) \/ handle'[h] = Closed
      <4>1. CASE WriteDies(h, r)
        <5>1. handle' = [handle EXCEPT ![h] = Closed]
          BY <4>1 DEF WriteDies
        <5> QED BY <5>1, Shapes
      <4> QED BY <4>1
    <3> QED BY <3>2, <3>3
  <2>2. CASE WriteDies(h, r) /\ ~WriteFails(h, r)
    <3>1. handle' = [handle EXCEPT ![h] = Closed]
      BY <2>2 DEF WriteDies
    <3>2. (\A g \in Handles : g # h => handle'[g] = handle[g]) /\ handle'[h] = Closed
      BY <3>1, Shapes
    <3> QED BY <2>2, <3>2
  <2> QED BY <2>1, <2>2
<1>5. \A q \in Paths : hurt'[q] = FALSE => hurt[q] = FALSE
  BY <1>3, Zenon
<1>6. hurt'[p] # FALSE
  BY <1>3
<1> QED BY <1>2, <1>4, <1>5, <1>6, Zenon

\* What the requests rely on while another process works on the files.
Undisturbed == /\ handle'[Server] = handle[Server]
               /\ Quiet' => Quiet
               /\ Quiet' => \/ sound'[ServerPath] = sound[ServerPath]
                            \/ /\ handle[Server].path # ServerPath
                               /\ \E b \in Blocks : sound'[ServerPath] = Append(sound[ServerPath], b)

LEMMA QueueUndisturbed ==
  ASSUME UNCHANGED <<disk, handle, sound, hurt, shared>>
  PROVE  Undisturbed
BY DEF Undisturbed, Quiet

LEMMA ToolAppends ==
  ASSUME LedgerInv, NEW h \in Handles, h # Server, NEW r \in All, IsOpen(h),
         \/ Write(h, r) /\ todo' \in [Handles -> Seq(All)]
         \/ WriteFails(h, r) /\ todo' \in [Handles -> Seq(All)]
         \/ WriteDies(h, r)
  PROVE  LedgerInv' /\ Undisturbed
<1>0. Server \in Handles /\ ServerPath \in Paths /\ handle[h].path \in Paths
  BY ServerAssumption, HandleFacts
<1>1. CASE Write(h, r) /\ todo' \in [Handles -> Seq(All)]
  <2>1. LedgerInv'
    BY <1>1, WriteKeeps
  <2>2. /\ hurt' = hurt /\ shared' = shared
        /\ \A g \in Handles : g # h => handle'[g] = handle[g]
        /\ \A q \in Paths : q # handle[h].path => sound'[q] = sound[q]
        /\ hurt[handle[h].path] = FALSE
             => sound'[handle[h].path] = Append(sound[handle[h].path], Bytes(r))
    BY <1>1, WriteEffect, Zenon
  <2>3. Quiet' => Quiet
    BY <2>2, Zenon DEF Quiet
  <2>4. ASSUME Quiet
        PROVE  \/ sound'[ServerPath] = sound[ServerPath]
               \/ /\ handle[Server].path # ServerPath
                  /\ \E b \in Blocks : sound'[ServerPath] = Append(sound[ServerPath], b)
    <3>1. CASE handle[h].path # ServerPath
      BY <1>0, <2>2, <3>1, Zenon
    <3>2. CASE handle[h].path = ServerPath
      <4>1. Alone(ServerPath)
        BY <1>0 DEF LedgerInv
      <4>2. handle[Server].path # ServerPath
        BY <1>0, <2>4, <3>2, <4>1, Zenon DEF Alone, Quiet
      <4>3. sound'[ServerPath] = Append(sound[ServerPath], Bytes(r))
        BY <2>2, <2>4, <3>2, Zenon DEF Quiet
      <4> QED BY <4>2, <4>3, BytesBlock
    <3> QED BY <3>1, <3>2
  <2> QED BY <1>0, <2>1, <2>2, <2>3, <2>4, Zenon DEF Undisturbed
<1>2. CASE (WriteFails(h, r) /\ todo' \in [Handles -> Seq(All)]) \/ WriteDies(h, r)
  <2>1. LedgerInv'
    BY <1>2, FailKeeps, DieKeeps
  <2>2. /\ sound' = sound /\ shared' = shared
        /\ \A g \in Handles : g # h => handle'[g] = handle[g]
        /\ \A q \in Paths : hurt'[q] = FALSE => hurt[q] = FALSE
    BY <1>2, FaultEffect, Zenon
  <2> QED BY <1>0, <2>1, <2>2, Zenon DEF Undisturbed, Quiet
<1> QED BY <1>1, <1>2

LEMMA KnownReceipts == Receipts \subseteq All
BY DEF All, Known

LEMMA ToolStep ==
  ASSUME LedgerInv, NEW h \in Handles, h # Server,
         \/ \E p \in Paths : Open(h, p)
         \/ \E r \in Receipts : AppendOne(h, r)
         \/ \E p \in Paths : ReplayFrom(h, p) \/ ReplayBroadcast(h, p) \/ ReplayCanonical(h, p)
         \/ Close(h)
         \/ ReplayStep(h)
  PROVE  LedgerInv' /\ Undisturbed
<1>0. Server \in Handles /\ ServerPath \in Paths
  BY ServerAssumption
<1>1. ASSUME NEW p \in Paths, Open(h, p) PROVE LedgerInv' /\ Undisturbed
  <2>1. LedgerInv'
    BY <1>1, OpenKeeps
  <2>2. handle'[Server] = handle[Server] /\ sound' = sound /\ hurt' = hurt
    BY <1>0, <1>1, Shapes DEF Open
  <2>3. shared' = [shared EXCEPT ![p] = shared[p] \/ \E g \in Handles : handle[g].path = p]
    BY <1>1 DEF Open
  <2>4. shared'[ServerPath] = FALSE => shared[ServerPath] = FALSE
    <3>1. CASE ServerPath = p
      <4>1. shared'[p] = (shared[p] \/ \E g \in Handles : handle[g].path = p)
        BY <2>3, Shapes
      <4>2. shared[p] \in BOOLEAN
        BY Shapes
      <4> QED BY <3>1, <4>1, <4>2, Zenon
    <3>2. CASE ServerPath # p
      <4>1. shared'[ServerPath] = shared[ServerPath]
        BY <1>0, <2>3, <3>2, Shapes
      <4> QED BY <4>1
    <3> QED BY <3>1, <3>2
  <2> QED BY <2>1, <2>2, <2>4, Zenon DEF Undisturbed, Quiet
<1>2. ASSUME NEW r \in Receipts, AppendOne(h, r) PROVE LedgerInv' /\ Undisturbed
  <2>1. r \in All /\ IsOpen(h)
    BY <1>2, KnownReceipts DEF AppendOne
  <2>2. todo' = todo => todo' \in [Handles -> Seq(All)]
    BY Shapes
  <2> QED BY <1>2, <2>1, <2>2, ToolAppends DEF AppendOne
<1>3. ASSUME NEW p \in Paths, ReplayFrom(h, p) \/ ReplayBroadcast(h, p) \/ ReplayCanonical(h, p)
      PROVE  LedgerInv' /\ Undisturbed
  <2>1. disk[p] \in Seq(Unit) /\ todo \in [Handles -> Seq(All)]
    BY Shapes
  <2>2. UNCHANGED <<disk, handle, sound, hurt, shared>>
    BY <1>3 DEF ReplayFrom, ReplayBroadcast, ReplayCanonical
  <2>3. \E s \in Seq(All) : todo' = [todo EXCEPT ![h] = s]
    <3>1. CASE ReplayFrom(h, p)
      BY <2>1, <3>1, RecordsFacts DEF ReplayFrom
    <3>2. CASE ReplayBroadcast(h, p)
      <4>1. PICK since \in 0..(Whole(disk[p]) - 1) :
               todo' = [todo EXCEPT ![h] = [n \in 1..Len(ReadFrom(disk[p], since)) |->
                                          Record(ReadFrom(disk[p], since)[n])]]
        BY <3>2 DEF ReplayBroadcast
      <4>2. Status(disk[p]) = "Ok"
        BY <3>2 DEF ReplayBroadcast
      <4>3. [n \in 1..Len(ReadFrom(disk[p], since)) |-> Record(ReadFrom(disk[p], since)[n])] \in Seq(All)
        BY <2>1, <4>2, BroadcastFacts
      <4> QED BY <4>1, <4>3
    <3>3. CASE ReplayCanonical(h, p)
      <4>1. todo' = [todo EXCEPT ![h] = Canonical(Records(disk[p]))]
        BY <3>3 DEF ReplayCanonical
      <4>2. Canonical(Records(disk[p])) \in Seq(All)
        BY <2>1, RecordsFacts, CanonicalFacts
      <4> QED BY <4>1, <4>2
    <3> QED BY <1>3, <3>1, <3>2, <3>3
  <2>4. todo' \in [Handles -> Seq(All)]
    BY <2>1, <2>3
  <2> QED BY <2>2, <2>4, QueueKeeps, QueueUndisturbed
<1>4. ASSUME Close(h) PROVE LedgerInv' /\ Undisturbed
  <2>1. LedgerInv'
    BY <1>4, CloseKeeps
  <2>2. /\ handle' = [handle EXCEPT ![h] = Closed] /\ sound' = sound /\ hurt' = hurt /\ shared' = shared
    BY <1>4 DEF Close
  <2>3. handle'[Server] = handle[Server]
    BY <1>0, <2>2, Shapes
  <2> QED BY <2>1, <2>2, <2>3, Zenon DEF Undisturbed, Quiet
<1>5. ASSUME ReplayStep(h) PROVE LedgerInv' /\ Undisturbed
  <2>1. todo \in [Handles -> Seq(All)] /\ todo[h] \in Seq(All) /\ todo[h] # <<>> /\ IsOpen(h)
    BY <1>5, Shapes DEF ReplayStep
  <2>2. Head(todo[h]) \in All /\ Tail(todo[h]) \in Seq(All)
    BY <2>1, HeadTailProperties
  <2>3. todo' = [todo EXCEPT ![h] = Tail(@)] => todo' \in [Handles -> Seq(All)]
    BY <2>1, <2>2
  <2>4. todo' = [todo EXCEPT ![h] = <<>>] => todo' \in [Handles -> Seq(All)]
    BY <2>1
  <2>5. \/ Write(h, Head(todo[h])) /\ todo' = [todo EXCEPT ![h] = Tail(@)]
        \/ WriteFails(h, Head(todo[h])) /\ todo' = [todo EXCEPT ![h] = <<>>]
        \/ WriteDies(h, Head(todo[h]))
    BY <1>5 DEF ReplayStep
  <2> QED BY <2>1, <2>2, <2>3, <2>4, <2>5, ToolAppends
<1> QED BY <1>1, <1>2, <1>3, <1>4, <1>5

----------------------------------------------------------------------------
\* The requests: tokens, receipts, turns.

LEMMA Tokens ==
  ASSUME NEW S, NEW n \in Nat
  PROVE  /\ \A x \in TokensUpTo(S, n) : x \in Seq(S)
         /\ \A x \in Seq(S) : Len(x) <= n => x \in TokensUpTo(S, n)
         /\ <<>> \in TokensUpTo(S, n)
<1>1. \A x \in TokensUpTo(S, n) : x \in Seq(S)
  <2> TAKE x \in TokensUpTo(S, n)
  <2>1. PICK k \in 0..n : x \in [1..k -> S]
    BY DEF TokensUpTo
  <2> QED BY <2>1, FunctionIsSeq
<1>2. ASSUME NEW x \in Seq(S), Len(x) <= n PROVE x \in TokensUpTo(S, n)
  <2>1. x \in [1..Len(x) -> S] /\ Len(x) \in 0..n
    BY <1>2, LenProperties
  <2> QED BY <2>1 DEF TokensUpTo
<1>3. <<>> \in Seq(S) /\ Len(<<>>) <= n
  OBVIOUS
<1> QED BY <1>1, <1>2, <1>3

LEMMA TextFacts ==
  /\ Outputs \subseteq Inputs /\ Inputs \subseteq Seq(Words) /\ <<>> \in Outputs
BY Tokens, CapAssumption DEF Outputs, Inputs

LEMMA Appended ==
  ASSUME NEW S, NEW r \in Seq(S), NEW m \in S
  PROVE  /\ Len(Append(r, m)) = Len(r) + 1
         /\ \A i \in 1..Len(r) : Append(r, m)[i] = r[i]
         /\ Append(r, m)[Len(r) + 1] = m
BY AppendProperties

LEMMA SecondOf ==
  ASSUME NEW a, NEW r, NEW m, NEW l, NEW k, l = 1, k = l + 1,
         \A i \in 1..l : a[i] = r[i], a[l + 1] = m
  PROVE  a[1] = r[1] /\ a[2] = m /\ k = 2
OBVIOUS

LEMMA SecondAppended ==
  ASSUME NEW S, NEW r \in Seq(S), NEW m \in S
  PROVE  Len(r) = 1 => /\ Append(r, m)[1] = r[1] /\ Append(r, m)[2] = m
                       /\ Len(Append(r, m)) = 2
<1>1. PICK a : a = Append(r, m)
  OBVIOUS
<1>2. PICK l : l = Len(r)
  OBVIOUS
<1>3. Len(a) = l + 1 /\ (\A i \in 1..l : a[i] = r[i]) /\ a[l + 1] = m
  BY <1>1, <1>2, Appended
<1>4. ASSUME l = 1 PROVE a[1] = r[1] /\ a[2] = m /\ Len(a) = 2
  BY <1>3, <1>4, SecondOf
<1> QED BY <1>1, <1>2, <1>4, Zenon

LEMMA ThirdOf ==
  ASSUME NEW a, NEW r, NEW m, NEW l, NEW k, l = 2, k = l + 1,
         \A i \in 1..l : a[i] = r[i], a[l + 1] = m
  PROVE  a[1] = r[1] /\ a[2] = r[2] /\ a[3] = m /\ k = 3
OBVIOUS

LEMMA ThirdAppended ==
  ASSUME NEW S, NEW r \in Seq(S), NEW m \in S
  PROVE  Len(r) = 2 => /\ Append(r, m)[1] = r[1] /\ Append(r, m)[2] = r[2] /\ Append(r, m)[3] = m
                       /\ Len(Append(r, m)) = 3
<1>1. PICK a : a = Append(r, m)
  OBVIOUS
<1>2. PICK l : l = Len(r)
  OBVIOUS
<1>3. Len(a) = l + 1 /\ (\A i \in 1..l : a[i] = r[i]) /\ a[l + 1] = m
  BY <1>1, <1>2, Appended
<1>4. ASSUME l = 2 PROVE a[1] = r[1] /\ a[2] = r[2] /\ a[3] = m /\ Len(a) = 3
  BY <1>3, <1>4, ThirdOf
<1> QED BY <1>1, <1>2, <1>4, Zenon

LEMMA MintFacts ==
  ASSUME NEW d \in Dialogues, NEW turn \in 1..3, NEW x \in Inputs, NEW y \in Outputs
  PROVE  /\ Mint(d, turn, x, y) \in Minted
         /\ Mint(d, turn, x, y).input = x /\ Mint(d, turn, x, y).output = y
<1>1. Mint(d, turn, x, y) \in Minted
  BY DEF Minted
<1>2. Mint(d, turn, x, y).input = x /\ Mint(d, turn, x, y).output = y
  BY DEF Mint
<1> QED BY <1>1, <1>2

LEMMA MintedFacts ==
  ASSUME NEW r \in Minted
  PROVE  r \in All /\ r.input \in Inputs /\ r.output \in Outputs
<1>1. PICK d \in Dialogues, turn \in 1..3, x \in Inputs, y \in Outputs : r = Mint(d, turn, x, y)
  BY DEF Minted
<1>2. r.input = x /\ r.output = y
  BY <1>1, MintFacts
<1> QED BY <1>2 DEF All

\* One turn of the executive, or of the memory model.
LEMMA TurnFacts ==
  ASSUME dlg \in [Dialogues -> Requests], NEW d \in Dialogues, NEW n \in 1..3, NEW x \in Inputs,
         NEW then \in {"entity", "synthesis", "answered"}, NEW sess \in {"exec", "memo"},
         Turn(d, n, x, sess, Outputs, then)
  PROVE  \E y \in Outputs :
            /\ dlg' \in [Dialogues -> Requests]
            /\ \A e \in Dialogues : e # d => dlg'[e] = dlg[e]
            /\ dlg'[d].pc = then
            /\ sess = "exec" => dlg'[d].exec = dlg[d].exec \o x \o y /\ dlg'[d].memo = dlg[d].memo
            /\ sess = "memo" => dlg'[d].memo = dlg[d].memo \o x \o y /\ dlg'[d].exec = dlg[d].exec
            /\ dlg'[d].receipts = Append(dlg[d].receipts, Mint(d, n, x, y))
            /\ dlg'[d].next = dlg[d].next
<1> DEFINE O == IF x = <<>> THEN {<<>>} ELSE Outputs
<1>1. PICK y \in O : dlg' = [dlg EXCEPT ![d].pc = then,
                           ![d][sess] = @ \o x \o y,
                           ![d].receipts = Append(@, Mint(d, n, x, y))]
  BY DEF Turn
<1>2. y \in Outputs /\ x \in Seq(Words) /\ y \in Seq(Words)
  BY TextFacts
<1>3. dlg[d] \in Requests
  OBVIOUS
<1>4. Mint(d, n, x, y) \in Minted
  BY <1>2, MintFacts
<1>5. \A e \in Dialogues : e # d => dlg'[e] = dlg[e]
  BY <1>1
<1> DEFINE m == Mint(d, n, x, y)
<1> HIDE DEF m
<1>6. CASE sess = "exec"
  <2>1. dlg'[d] = [dlg[d] EXCEPT !.pc = then, !["exec"] = @ \o x \o y, !.receipts = Append(@, m)]
    BY <1>1, <1>6 DEF m
  <2>2. /\ dlg'[d].pc = then
        /\ dlg'[d].exec = dlg[d].exec \o x \o y
        /\ dlg'[d].memo = dlg[d].memo
    BY <1>3, <2>1 DEF Requests
  <2>3. /\ dlg'[d].receipts = Append(dlg[d].receipts, m)
        /\ dlg'[d].next = dlg[d].next
    BY <1>3, <2>1 DEF Requests
  <2>4. DOMAIN dlg'[d] = {"pc", "exec", "memo", "receipts", "next"}
    BY <1>3, <2>1 DEF Requests
  <2>5. dlg'[d].exec \in Seq(Words) /\ dlg'[d].memo \in Seq(Words)
    BY <1>2, <1>3, <2>2, ConcatProperties DEF Requests
  <2>6. dlg'[d].receipts \in Seq(Minted)
    BY <1>3, <1>4, <2>3, AppendProperties DEF Requests, m
  <2>7. dlg'[d] \in Requests
    <3>1. dlg'[d] = [dlg[d] EXCEPT !.pc = then, !.exec = dlg[d].exec \o x \o y, !.receipts = Append(dlg[d].receipts, m)]
      BY <2>1
    <3>2. dlg[d].exec \o x \o y \in Seq(Words) /\ Append(dlg[d].receipts, m) \in Seq(Minted)
      BY <2>2, <2>3, <2>5, <2>6
    <3> DEFINE a == dlg[d].exec \o x \o y  c == Append(dlg[d].receipts, m)
    <3>3. dlg'[d] = [dlg[d] EXCEPT !.pc = then, !.exec = a, !.receipts = c]
      BY <3>1
    <3>4. a \in Seq(Words) /\ c \in Seq(Minted)
      BY <3>2
    <3> HIDE DEF a, c
    <3> QED BY <1>3, <3>3, <3>4 DEF Requests
  <2>8. dlg' \in [Dialogues -> Requests]
    <3>1. dlg' = [dlg EXCEPT ![d] = dlg'[d]]
      BY <1>1, <1>6
    <3> QED BY <2>7, <3>1
  <2> QED BY <1>2, <1>5, <1>6, <2>2, <2>3, <2>8 DEF m
<1>7. CASE sess = "memo"
  <2>1. dlg'[d] = [dlg[d] EXCEPT !.pc = then, !["memo"] = @ \o x \o y, !.receipts = Append(@, m)]
    BY <1>1, <1>7 DEF m
  <2>2. /\ dlg'[d].pc = then
        /\ dlg'[d].memo = dlg[d].memo \o x \o y
        /\ dlg'[d].exec = dlg[d].exec
    BY <1>3, <2>1 DEF Requests
  <2>3. /\ dlg'[d].receipts = Append(dlg[d].receipts, m)
        /\ dlg'[d].next = dlg[d].next
    BY <1>3, <2>1 DEF Requests
  <2>5. dlg'[d].exec \in Seq(Words) /\ dlg'[d].memo \in Seq(Words)
    BY <1>2, <1>3, <2>2, ConcatProperties DEF Requests
  <2>6. dlg'[d].receipts \in Seq(Minted)
    BY <1>3, <1>4, <2>3, AppendProperties DEF Requests, m
  <2>7. dlg'[d] \in Requests
    <3>1. dlg'[d] = [dlg[d] EXCEPT !.pc = then, !.memo = dlg[d].memo \o x \o y, !.receipts = Append(dlg[d].receipts, m)]
      BY <2>1
    <3> DEFINE a == dlg[d].memo \o x \o y  c == Append(dlg[d].receipts, m)
    <3>3. dlg'[d] = [dlg[d] EXCEPT !.pc = then, !.memo = a, !.receipts = c]
      BY <3>1
    <3>4. a \in Seq(Words) /\ c \in Seq(Minted)
      BY <2>2, <2>3, <2>5, <2>6
    <3> HIDE DEF a, c
    <3> QED BY <1>3, <3>3, <3>4 DEF Requests
  <2>8. dlg' \in [Dialogues -> Requests]
    <3>1. dlg' = [dlg EXCEPT ![d] = dlg'[d]]
      BY <1>1, <1>7
    <3> QED BY <2>7, <3>1
  <2> QED BY <1>2, <1>5, <1>7, <2>2, <2>3, <2>8 DEF m
<1> QED BY <1>6, <1>7

\* A request that stores nothing changes.
LEMMA RequestChanges ==
  ASSUME RequestInv, NEW d \in Dialogues, UNCHANGED <<ledgerVars, holder>>,
         dlg' \in [Dialogues -> Requests],
         \A e \in Dialogues : e # d => dlg'[e] = dlg[e],
         dlg[d].pc # "storing", dlg'[d].pc # "storing", dlg'[d].next # 4,
         Chain(dlg'[d])
  PROVE  RequestInv'
<1>1. UNCHANGED <<handle, sound, hurt, shared>>
  BY DEF ledgerVars
<1>2. ASSUME NEW e \in Dialogues
      PROVE  /\ dlg'[e].pc = "storing" <=> holder = e
             /\ dlg'[e].pc = "storing" => IsOpen(Server)
             /\ Chain(dlg'[e])
             /\ dlg'[e].pc = "storing" /\ Quiet => LastStored(dlg'[e])
             /\ dlg'[e].next = 4 /\ Quiet => Together(dlg'[e])
  <2>1. CASE e = d
    <3>1. holder # d
      BY DEF RequestInv
    <3> QED BY <2>1, <3>1, Zenon
  <2>2. CASE e # d
    <3>1. dlg'[e] = dlg[e]
      BY <2>2
    <3> QED BY <3>1, Zenon DEF RequestInv
  <2> QED BY <2>1, <2>2
<1>3. IsOpen(Server)' = IsOpen(Server) /\ Quiet' = Quiet
  BY <1>1 DEF IsOpen, Quiet
<1>4. \A q : LastStored(q)' = LastStored(q) /\ Together(q)' = Together(q)
  BY <1>1 DEF LastStored, Together
<1> QED BY <1>1, <1>2, <1>3, <1>4 DEF RequestInv

----------------------------------------------------------------------------
\* Each step of a request keeps the invariant.

LEMMA RequestFacts ==
  ASSUME RequestInv, NEW d \in Dialogues
  PROVE  /\ dlg \in [Dialogues -> Requests] /\ dlg[d] \in Requests /\ Chain(dlg[d])
         /\ dlg[d].receipts \in Seq(Minted) /\ dlg[d].exec \in Seq(Words) /\ dlg[d].memo \in Seq(Words)
         /\ dlg[d].next \in 1..4
<1>1. dlg \in [Dialogues -> Requests] /\ dlg[d] \in Requests /\ Chain(dlg[d])
  BY DEF RequestInv
<1> QED BY <1>1 DEF Requests

LEMMA GroundKeeps ==
  ASSUME RequestInv, NEW d \in Dialogues, Ground(d)
  PROVE  RequestInv'
<1>1. dlg[d].pc = "idle" /\ UNCHANGED <<ledgerVars, holder>>
  BY DEF Ground
<1>2. PICK prompt \in TokensUpTo(Words, MaxPrompt + 1) \ {<<>>} :
          Turn(d, 1, SubSeq(prompt, 1, IF Len(prompt) > MaxPrompt THEN MaxPrompt ELSE Len(prompt)),
               "exec", Outputs, "entity")
  BY DEF Ground, Outputs
<1> DEFINE l == IF Len(prompt) > MaxPrompt THEN MaxPrompt ELSE Len(prompt)
           x == SubSeq(prompt, 1, l)
<1>3. prompt \in Seq(Words) /\ Len(prompt) \in Nat /\ MaxPrompt \in Nat
  BY CapAssumption, Tokens, LenProperties
<1>4. l \in Nat /\ l <= Len(prompt) /\ l <= MaxPrompt
  BY <1>3
<1>5. x \in Inputs
  <2> HIDE DEF l
  <2>1. \A i \in 1..l : prompt[i] \in Words
    BY <1>3, <1>4, ElementOfSeq
  <2>2. x \in Seq(Words) /\ Len(x) = IF 1 <= l THEN l - 1 + 1 ELSE 0
    BY <1>4, <2>1, SubSeqProperties
  <2>3. Len(x) <= MaxPrompt
    BY <1>3, <1>4, <2>2
  <2> QED BY <1>3, <2>2, <2>3, Tokens DEF Inputs
<1> HIDE DEF x, l
<1>6. Chain(dlg[d]) /\ dlg[d].receipts = <<>> /\ dlg[d].exec = <<>> /\ dlg[d].memo = <<>> /\ dlg[d].next = 1
  BY <1>1, RequestFacts DEF Chain
<1>7. dlg \in [Dialogues -> Requests] /\ Turn(d, 1, x, "exec", Outputs, "entity")
  BY <1>2, RequestFacts DEF x, l
<1>8. PICK y \in Outputs :
            /\ dlg' \in [Dialogues -> Requests]
            /\ \A e \in Dialogues : e # d => dlg'[e] = dlg[e]
            /\ dlg'[d].pc = "entity"
            /\ dlg'[d].exec = dlg[d].exec \o x \o y /\ dlg'[d].memo = dlg[d].memo
            /\ dlg'[d].receipts = Append(dlg[d].receipts, Mint(d, 1, x, y))
            /\ dlg'[d].next = dlg[d].next
  <2>1. 1 \in 1..3 /\ "entity" \in {"entity", "synthesis", "answered"} /\ "exec" \in {"exec", "memo"}
    OBVIOUS
  <2> QED BY <1>5, <1>7, <2>1, TurnFacts, ZenonT(60)
<1> DEFINE q == dlg'[d]  m == Mint(d, 1, x, y)
<1>9. m \in Minted /\ m.input = x /\ m.output = y /\ x \in Seq(Words) /\ y \in Seq(Words)
  BY <1>5, MintFacts, TextFacts
<1>10. Len(q.receipts) = 1 /\ q.receipts[1] = m
  <2>1. q.receipts = Append(<<>>, m)
    BY <1>6, <1>8
  <2> QED BY <2>1
<1>11. q.exec = x \o y /\ q.memo = <<>>
  BY <1>6, <1>8, <1>9, ConcatEmptySeq
<1>12. Asked(q)
  BY <1>9, <1>10, <1>11 DEF Asked
<1>13. q.pc = "entity" /\ q.next = 1
  BY <1>6, <1>8
<1>14. Chain(q)
  BY <1>12, <1>13 DEF Chain
<1> QED BY <1>1, <1>8, <1>13, <1>14, RequestChanges

LEMMA EntityKeeps ==
  ASSUME RequestInv, NEW d \in Dialogues, Entity(d)
  PROVE  RequestInv'
<1> DEFINE r == dlg[d].receipts  x == r[1].output
<1>1. dlg[d].pc = "entity" /\ UNCHANGED <<ledgerVars, holder>>
  BY DEF Entity
<1>2. Turn(d, 2, x, "memo", Outputs, "synthesis")
  BY DEF Entity, Outputs
<1>3. /\ Asked(dlg[d]) /\ dlg[d].next = 1
      /\ r \in Seq(Minted) /\ dlg \in [Dialogues -> Requests]
  BY <1>1, RequestFacts DEF Chain
<1>4. Len(r) = 1 /\ dlg[d].exec = r[1].input \o r[1].output /\ dlg[d].memo = <<>>
  BY <1>3 DEF Asked
<1>5. r[1] \in Minted
  BY <1>3, <1>4, ElementOfSeq
<1>6. x \in Inputs
  BY <1>5, MintedFacts, TextFacts
<1> HIDE DEF x, r
<1>7. PICK y \in Outputs :
            /\ dlg' \in [Dialogues -> Requests]
            /\ \A e \in Dialogues : e # d => dlg'[e] = dlg[e]
            /\ dlg'[d].pc = "synthesis"
            /\ dlg'[d].memo = dlg[d].memo \o x \o y /\ dlg'[d].exec = dlg[d].exec
            /\ dlg'[d].receipts = Append(r, Mint(d, 2, x, y))
            /\ dlg'[d].next = dlg[d].next
  <2>1. 2 \in 1..3 /\ "synthesis" \in {"entity", "synthesis", "answered"} /\ "memo" \in {"exec", "memo"}
    OBVIOUS
  <2> QED BY <1>2, <1>3, <1>6, <2>1, TurnFacts, ZenonT(60) DEF r
<1> DEFINE q == dlg'[d]  m == Mint(d, 2, x, y)
<1>8. m \in Minted /\ m.input = x /\ m.output = y /\ x \in Seq(Words) /\ y \in Seq(Words)
  BY <1>6, MintFacts, TextFacts
<1>9. Len(q.receipts) = 2 /\ q.receipts[1] = r[1] /\ q.receipts[2] = m
  <2> HIDE DEF m
  <2>1. q.receipts = Append(r, m)
    BY <1>7 DEF m
  <2>2. r \in Seq(Minted) /\ m \in Minted /\ Len(r) = 1
    BY <1>3, <1>4, <1>8
  <2>3. /\ Append(r, m)[1] = r[1] /\ Append(r, m)[2] = m
        /\ Len(Append(r, m)) = 2
    BY <2>2, SecondAppended, Zenon
  <2> QED BY <2>1, <2>3, Zenon
<1>10. q.memo = x \o y
  BY <1>4, <1>7, <1>8, ConcatEmptySeq
<1>11. Answered(q)
  BY <1>4, <1>7, <1>8, <1>9, <1>10 DEF Answered, x
<1>12. q.pc = "synthesis" /\ q.next = 1
  BY <1>3, <1>7
<1>13. Chain(q)
  BY <1>11, <1>12 DEF Chain
<1> QED BY <1>1, <1>7, <1>12, <1>13, RequestChanges

LEMMA SynthesisKeeps ==
  ASSUME RequestInv, NEW d \in Dialogues, Synthesis(d)
  PROVE  RequestInv'
<1> DEFINE r == dlg[d].receipts  x == r[2].output
<1>1. dlg[d].pc = "synthesis" /\ UNCHANGED <<ledgerVars, holder>>
  BY DEF Synthesis
<1>2. Turn(d, 3, x, "exec", Outputs, "answered")
  BY DEF Synthesis, Outputs
<1>3. /\ Answered(dlg[d]) /\ dlg[d].next = 1
      /\ r \in Seq(Minted) /\ dlg \in [Dialogues -> Requests]
  BY <1>1, RequestFacts DEF Chain
<1>4. /\ Len(r) = 2 /\ dlg[d].exec = r[1].input \o r[1].output
      /\ r[2].input = r[1].output /\ dlg[d].memo = r[2].input \o r[2].output
  BY <1>3 DEF Answered
<1>5. r[2] \in Minted
  BY <1>3, <1>4, ElementOfSeq
<1>6. x \in Inputs
  BY <1>5, MintedFacts, TextFacts
<1> HIDE DEF x, r
<1>7. PICK y \in Outputs :
            /\ dlg' \in [Dialogues -> Requests]
            /\ \A e \in Dialogues : e # d => dlg'[e] = dlg[e]
            /\ dlg'[d].pc = "answered"
            /\ dlg'[d].exec = dlg[d].exec \o x \o y /\ dlg'[d].memo = dlg[d].memo
            /\ dlg'[d].receipts = Append(r, Mint(d, 3, x, y))
            /\ dlg'[d].next = dlg[d].next
  <2>1. 3 \in 1..3 /\ "answered" \in {"entity", "synthesis", "answered"} /\ "exec" \in {"exec", "memo"}
    OBVIOUS
  <2> QED BY <1>2, <1>3, <1>6, <2>1, TurnFacts, ZenonT(60) DEF r
<1> DEFINE q == dlg'[d]  m == Mint(d, 3, x, y)
<1>8. m \in Minted /\ m.input = x /\ m.output = y
  BY <1>6, MintFacts
<1>9. Len(q.receipts) = 3 /\ q.receipts[1] = r[1] /\ q.receipts[2] = r[2] /\ q.receipts[3] = m
  <2> HIDE DEF m
  <2>1. q.receipts = Append(r, m)
    BY <1>7 DEF m
  <2>2. r \in Seq(Minted) /\ m \in Minted /\ Len(r) = 2
    BY <1>3, <1>4, <1>8
  <2>3. /\ Append(r, m)[1] = r[1] /\ Append(r, m)[2] = r[2] /\ Append(r, m)[3] = m
        /\ Len(Append(r, m)) = 3
    BY <2>2, ThirdAppended, Zenon
  <2> QED BY <2>1, <2>3, Zenon
<1>10. q.exec = r[1].input \o r[1].output \o x \o y
  BY <1>4, <1>7
<1>11. Spoken(q)
  BY <1>4, <1>7, <1>8, <1>9, <1>10 DEF Spoken, x
<1>12. q.pc = "answered" /\ q.next = 1
  BY <1>3, <1>7
<1>13. Chain(q)
  BY <1>11, <1>12 DEF Chain
<1> QED BY <1>1, <1>7, <1>12, <1>13, RequestChanges

LEMMA GoneFacts == /\ Gone \in Requests /\ Chain(Gone) /\ Gone.pc = "gone" /\ Gone.next = 1
<1>1. Gone = [pc |-> "gone", exec |-> <<>>, memo |-> <<>>, receipts |-> <<>>, next |-> 1]
  BY DEF Gone, NewRequest
<1>2. Gone \in Requests
  BY <1>1 DEF Requests
<1>3. Gone.pc = "gone" /\ Gone.next = 1 /\ Gone.receipts = <<>> /\ Gone.exec = <<>> /\ Gone.memo = <<>>
  BY <1>1
<1> QED BY <1>2, <1>3 DEF Chain

LEMMA LeavesKeeps ==
  ASSUME RequestInv, NEW d \in Dialogues, Fails(d) \/ HangUp(d)
  PROVE  RequestInv'
<1>1. /\ UNCHANGED <<ledgerVars, holder>> /\ dlg[d].pc # "storing"
      /\ dlg' = [dlg EXCEPT ![d] = Gone]
  BY DEF Fails, HangUp
<1>2. dlg \in [Dialogues -> Requests]
  BY DEF RequestInv
<1>3. dlg' \in [Dialogues -> Requests] /\ dlg'[d] = Gone /\ \A e \in Dialogues : e # d => dlg'[e] = dlg[e]
  BY <1>1, <1>2, GoneFacts
<1> QED BY <1>1, <1>3, GoneFacts, RequestChanges

\* Only the state of a request changes, and perhaps which receipt is next.
LEMMA PcChanges ==
  ASSUME dlg \in [Dialogues -> Requests], NEW d \in Dialogues,
         NEW pc \in {"storing", "replied"}, NEW next \in 1..4,
         \/ dlg' = [dlg EXCEPT ![d].pc = pc] /\ next = dlg[d].next
         \/ dlg' = [dlg EXCEPT ![d].next = next] /\ pc = dlg[d].pc
         \/ dlg' = [dlg EXCEPT ![d].next = next, ![d].pc = pc]
  PROVE  /\ dlg' \in [Dialogues -> Requests]
         /\ \A e \in Dialogues : e # d => dlg'[e] = dlg[e]
         /\ dlg'[d].pc = pc /\ dlg'[d].next = next
         /\ dlg'[d].exec = dlg[d].exec /\ dlg'[d].memo = dlg[d].memo
         /\ dlg'[d].receipts = dlg[d].receipts
<1>1. dlg[d] \in Requests
  OBVIOUS
<1>2. \/ dlg'[d] = [dlg[d] EXCEPT !.pc = pc] /\ next = dlg[d].next
      \/ dlg'[d] = [dlg[d] EXCEPT !.next = next] /\ pc = dlg[d].pc
      \/ dlg'[d] = [dlg[d] EXCEPT !.next = next, !.pc = pc]
  OBVIOUS
<1>3. dlg' = [dlg EXCEPT ![d] = dlg'[d]]
  OBVIOUS
<1>4. /\ dlg'[d].pc = pc /\ dlg'[d].next = next
      /\ dlg'[d].exec = dlg[d].exec /\ dlg'[d].memo = dlg[d].memo
      /\ dlg'[d].receipts = dlg[d].receipts
  BY <1>1, <1>2 DEF Requests
<1>5. dlg'[d] \in Requests
  BY <1>1, <1>2 DEF Requests
<1>6. \A e \in Dialogues : e # d => dlg'[e] = dlg[e]
  OBVIOUS
<1>7. dlg' \in [Dialogues -> Requests]
  BY <1>3, <1>5
<1> QED BY <1>4, <1>6, <1>7

LEMMA ReplyKeeps ==
  ASSUME RequestInv, NEW d \in Dialogues, Reply(d)
  PROVE  RequestInv'
<1>1. UNCHANGED <<ledgerVars, holder>> /\ dlg[d].pc = "answered" /\ dlg' = [dlg EXCEPT ![d].pc = "replied"]
  BY DEF Reply
<1>2. dlg \in [Dialogues -> Requests] /\ dlg[d].next = 1 /\ Spoken(dlg[d])
  BY <1>1, RequestFacts DEF Chain
<1>3. /\ dlg' \in [Dialogues -> Requests]
      /\ \A e \in Dialogues : e # d => dlg'[e] = dlg[e]
      /\ dlg'[d].pc = "replied" /\ dlg'[d].next = 1
      /\ dlg'[d].exec = dlg[d].exec /\ dlg'[d].memo = dlg[d].memo
      /\ dlg'[d].receipts = dlg[d].receipts
  <2>1. "replied" \in {"storing", "replied"} /\ 1 \in 1..4
    OBVIOUS
  <2> QED BY <1>1, <1>2, <2>1, PcChanges, Zenon
<1>4. Spoken(dlg'[d])
  BY <1>2, <1>3 DEF Spoken
<1>5. Chain(dlg'[d])
  BY <1>3, <1>4 DEF Chain
<1> QED BY <1>1, <1>3, <1>5, RequestChanges

----------------------------------------------------------------------------
\* Storing: the lock, and the receipts that stand last in the ledger.

LEMMA LockKeeps ==
  ASSUME LedgerInv, RequestInv, NEW d \in Dialogues, Lock(d)
  PROVE  RequestInv'
<1>1. /\ UNCHANGED ledgerVars /\ dlg[d].pc = "answered" /\ IsOpen(Server) /\ holder = Free /\ holder' = d
      /\ dlg' = [dlg EXCEPT ![d].pc = "storing"]
  BY DEF Lock
<1>2. dlg \in [Dialogues -> Requests] /\ dlg[d].next = 1 /\ Spoken(dlg[d])
  BY <1>1, RequestFacts DEF Chain
<1>3. /\ dlg' \in [Dialogues -> Requests]
      /\ \A e \in Dialogues : e # d => dlg'[e] = dlg[e]
      /\ dlg'[d].pc = "storing" /\ dlg'[d].next = 1
      /\ dlg'[d].exec = dlg[d].exec /\ dlg'[d].memo = dlg[d].memo
      /\ dlg'[d].receipts = dlg[d].receipts
  <2>1. "storing" \in {"storing", "replied"} /\ 1 \in 1..4
    OBVIOUS
  <2> QED BY <1>1, <1>2, <2>1, PcChanges, Zenon
<1>4. Chain(dlg'[d])
  <2>1. Spoken(dlg'[d])
    BY <1>2, <1>3 DEF Spoken
  <2> QED BY <1>3, <2>1 DEF Chain
<1>5. LastStored(dlg'[d])
  <2>1. ServerPath \in Paths /\ sound[ServerPath] \in Seq(Blocks)
    BY ServerAssumption, Shapes
  <2>2. Len(sound[ServerPath]) \in Nat
    BY <2>1, LenProperties
  <2> QED BY <1>3, <2>2 DEF LastStored
<1>6. \A e \in Dialogues : dlg[e].pc # "storing"
  BY <1>1, HolderAssumption DEF RequestInv
<1>7. UNCHANGED <<handle, sound, hurt, shared>>
  BY <1>1 DEF ledgerVars
<1>8. ASSUME NEW e \in Dialogues
      PROVE  /\ dlg'[e].pc = "storing" <=> d = e
             /\ dlg'[e].pc = "storing" => IsOpen(Server)
             /\ Chain(dlg'[e])
             /\ dlg'[e].pc = "storing" /\ Quiet => LastStored(dlg'[e])
             /\ dlg'[e].next = 4 /\ Quiet => Together(dlg'[e])
  <2>1. CASE e = d
    BY <1>1, <1>3, <1>4, <1>5, <2>1
  <2>2. CASE e # d
    <3>1. dlg'[e] = dlg[e]
      BY <1>3, <2>2
    <3> QED BY <1>6, <2>2, <3>1, Zenon DEF RequestInv
  <2> QED BY <2>1, <2>2
<1>9. IsOpen(Server)' = IsOpen(Server) /\ Quiet' = Quiet
  BY <1>7 DEF IsOpen, Quiet
<1>10. \A q : LastStored(q)' = LastStored(q) /\ Together(q)' = Together(q)
  BY <1>7 DEF LastStored, Together
<1>11. IsOpen(Server) => handle[Server].path = ServerPath
  BY DEF RequestInv
<1> QED BY <1>1, <1>3, <1>7, <1>8, <1>9, <1>10, <1>11 DEF RequestInv

LEMMA StoringFacts ==
  ASSUME LedgerInv, RequestInv, NEW d \in Dialogues, dlg[d].pc = "storing"
  PROVE  /\ holder = d /\ IsOpen(Server) /\ handle[Server].path = ServerPath
         /\ dlg[d].next \in 1..3 /\ Spoken(dlg[d])
         /\ Len(dlg[d].receipts) = 3
         /\ dlg[d].receipts[dlg[d].next] \in Minted
         /\ dlg[d].receipts[dlg[d].next] \in All
         /\ Server \in Handles /\ ServerPath \in Paths
<1>1. holder = d /\ IsOpen(Server) /\ handle[Server].path = ServerPath
  BY DEF RequestInv
<1>2. dlg[d].next \in 1..3 /\ Spoken(dlg[d]) /\ dlg[d].receipts \in Seq(Minted)
  BY RequestFacts DEF Chain
<1>3. Len(dlg[d].receipts) = 3
  BY <1>2 DEF Spoken
<1>4. dlg[d].receipts[dlg[d].next] \in Minted
  BY <1>2, <1>3, ElementOfSeq
<1> QED BY <1>1, <1>2, <1>3, <1>4, MintedFacts, ServerAssumption

LEMMA StoredFacts ==
  ASSUME LedgerInv, RequestInv, NEW d \in Dialogues, dlg[d].pc = "storing", Stored(d)
  PROVE  /\ dlg' \in [Dialogues -> Requests]
         /\ \A e \in Dialogues : e # d => dlg'[e] = dlg[e]
         /\ dlg'[d].next = dlg[d].next + 1
         /\ dlg'[d].receipts = dlg[d].receipts
         /\ Chain(dlg'[d])
         /\ dlg[d].next = 3 => dlg'[d].pc = "replied" /\ holder' = Free
         /\ dlg[d].next # 3 => dlg'[d].pc = "storing" /\ holder' = holder
<1> DEFINE n == dlg[d].next
<1>1. n \in 1..3 /\ Spoken(dlg[d]) /\ dlg \in [Dialogues -> Requests]
  BY StoringFacts, RequestFacts
<1>2. CASE n = 3
  <2>1. dlg' = [dlg EXCEPT ![d].next = 4, ![d].pc = "replied"] /\ holder' = Free
    BY <1>2 DEF Stored
  <2>2. "replied" \in {"storing", "replied"} /\ 4 \in 1..4
    OBVIOUS
  <2>3. /\ dlg' \in [Dialogues -> Requests]
        /\ \A e \in Dialogues : e # d => dlg'[e] = dlg[e]
        /\ dlg'[d].pc = "replied" /\ dlg'[d].next = 4
        /\ dlg'[d].exec = dlg[d].exec /\ dlg'[d].memo = dlg[d].memo
        /\ dlg'[d].receipts = dlg[d].receipts
    BY <1>1, <2>1, <2>2, PcChanges, Zenon
  <2>4. Spoken(dlg'[d])
    BY <1>1, <2>3 DEF Spoken
  <2>5. Chain(dlg'[d])
    BY <2>3, <2>4 DEF Chain
  <2> QED BY <1>2, <2>1, <2>3, <2>5
<1>3. CASE n # 3
  <2>1. dlg' = [dlg EXCEPT ![d].next = n + 1] /\ holder' = holder
    BY <1>3 DEF Stored
  <2>2. "storing" \in {"storing", "replied"} /\ n + 1 \in 1..4 /\ n + 1 \in 1..3
    BY <1>1, <1>3
  <2>3. /\ dlg' \in [Dialogues -> Requests]
        /\ \A e \in Dialogues : e # d => dlg'[e] = dlg[e]
        /\ dlg'[d].pc = "storing" /\ dlg'[d].next = n + 1
        /\ dlg'[d].exec = dlg[d].exec /\ dlg'[d].memo = dlg[d].memo
        /\ dlg'[d].receipts = dlg[d].receipts
    BY <1>1, <2>1, <2>2, PcChanges, Zenon
  <2>4. Spoken(dlg'[d])
    BY <1>1, <2>3 DEF Spoken
  <2>5. Chain(dlg'[d])
    BY <2>2, <2>3, <2>4 DEF Chain
  <2> QED BY <1>3, <2>1, <2>3, <2>5
<1> QED BY <1>2, <1>3

\* The receipts a dialogue stored so far, and the one appended to them.
LEMMA StoredGrows ==
  ASSUME NEW s \in Seq(Blocks), NEW rs, NEW n \in 1..3,
         Bytes(rs[n]) \in Blocks,
         n - 1 <= Len(s), \A i \in 1..(n - 1) : s[Len(s) - (n - 1) + i] = Bytes(rs[i])
  PROVE  LET t == Append(s, Bytes(rs[n]))
         IN /\ t \in Seq(Blocks) /\ n <= Len(t)
            /\ \A i \in 1..n : t[Len(t) - n + i] = Bytes(rs[i])
<1> DEFINE t == Append(s, Bytes(rs[n]))
<1>1. /\ t \in Seq(Blocks) /\ Len(t) = Len(s) + 1 /\ Len(s) \in Nat
      /\ \A i \in 1..Len(s) : t[i] = s[i]
      /\ t[Len(s) + 1] = Bytes(rs[n])
  BY AppendProperties, LenProperties
<1> HIDE DEF t
<1>2. ASSUME NEW i \in 1..n PROVE t[Len(t) - n + i] = Bytes(rs[i])
  <2>1. CASE i = n
    <3>1. Len(t) - n + i = Len(s) + 1
      BY <1>1, <2>1
    <3> QED BY <1>1, <2>1, <3>1
  <2>2. CASE i # n
    <3>1. i \in 1..(n - 1) /\ Len(t) - n + i = Len(s) - (n - 1) + i /\ Len(s) - (n - 1) + i \in 1..Len(s)
      BY <1>1, <2>2
    <3> QED BY <1>1, <3>1
  <2> QED BY <2>1, <2>2
<1>3. n <= Len(t)
  BY <1>1
<1> QED BY <1>1, <1>2, <1>3 DEF t

LEMMA TogetherGrows ==
  ASSUME NEW s \in Seq(Blocks), NEW b \in Blocks, NEW t, t = Append(s, b), NEW rs,
         NEW n \in DOMAIN s, n + 2 <= Len(s), \A i \in 1..3 : s[n + i - 1] = Bytes(rs[i])
  PROVE  n \in DOMAIN t /\ n + 2 <= Len(t) /\ \A i \in 1..3 : t[n + i - 1] = Bytes(rs[i])
<1>1. /\ t \in Seq(Blocks) /\ Len(t) = Len(s) + 1 /\ Len(s) \in Nat
      /\ \A i \in 1..Len(s) : t[i] = s[i]
      /\ DOMAIN s = 1..Len(s) /\ DOMAIN t = 1..Len(t)
  BY AppendProperties, LenProperties
<1>2. \A i \in 1..3 : n + i - 1 \in 1..Len(s)
  BY <1>1
<1> QED BY <1>1, <1>2

\* What a finished dialogue stored stays together whatever is appended.
LEMMA TogetherStays ==
  ASSUME LedgerInv, NEW q, Together(q),
         sound'[ServerPath] = sound[ServerPath]
         \/ \E b \in Blocks : sound'[ServerPath] = Append(sound[ServerPath], b)
  PROVE  \E n \in DOMAIN sound'[ServerPath] :
                  /\ n + 2 <= Len(sound'[ServerPath])
                  /\ \A i \in 1..3 : sound'[ServerPath][n + i - 1] = Bytes(q.receipts[i])
<1>1. CASE sound'[ServerPath] = sound[ServerPath]
  BY <1>1 DEF Together
<1>2. ASSUME NEW b \in Blocks, sound'[ServerPath] = Append(sound[ServerPath], b)
      PROVE  \E n \in DOMAIN sound'[ServerPath] :
                  /\ n + 2 <= Len(sound'[ServerPath])
                  /\ \A i \in 1..3 : sound'[ServerPath][n + i - 1] = Bytes(q.receipts[i])
  <2>1. PICK n \in DOMAIN sound[ServerPath] :
                  /\ n + 2 <= Len(sound[ServerPath])
                  /\ \A i \in 1..3 : sound[ServerPath][n + i - 1] = Bytes(q.receipts[i])
    BY DEF Together
  <2>2. sound[ServerPath] \in Seq(Blocks)
    BY ServerAssumption, Shapes
  <2>3. /\ n \in DOMAIN sound'[ServerPath] /\ n + 2 <= Len(sound'[ServerPath])
        /\ \A i \in 1..3 : sound'[ServerPath][n + i - 1] = Bytes(q.receipts[i])
    BY <1>2, <2>1, <2>2, TogetherGrows
  <2> QED BY <2>3
<1> QED BY <1>1, <1>2

----------------------------------------------------------------------------
\* The whole.

LEMMA StoreKeeps ==
  ASSUME LedgerInv, RequestInv, NEW d \in Dialogues, Store(d)
  PROVE  LedgerInv' /\ RequestInv'
<1> DEFINE n == dlg[d].next  rs == dlg[d].receipts  r == rs[n]  s == sound[ServerPath]
<1>1. dlg[d].pc = "storing"
  BY DEF Store
<1>2. /\ holder = d /\ IsOpen(Server) /\ handle[Server].path = ServerPath
      /\ n \in 1..3 /\ Spoken(dlg[d]) /\ r \in All
      /\ Server \in Handles /\ ServerPath \in Paths
  BY <1>1, StoringFacts
<1>3. s \in Seq(Blocks) /\ dlg \in [Dialogues -> Requests] /\ todo \in [Handles -> Seq(All)]
  BY <1>2, Shapes, RequestFacts
<1>4. \A e \in Dialogues : e # d => dlg[e].pc # "storing"
  BY <1>2 DEF RequestInv
<1> HIDE DEF n, rs, s
<1>5. CASE Write(Server, r) /\ Stored(d) /\ UNCHANGED todo
  <2>1. LedgerInv'
    BY <1>2, <1>3, <1>5, WriteKeeps
  <2>2. /\ hurt' = hurt /\ shared' = shared
        /\ handle'[Server].path = handle[Server].path
        /\ hurt[handle[Server].path] = FALSE
              => sound'[handle[Server].path] = Append(sound[handle[Server].path], Bytes(r))
    BY <1>2, <1>5, WriteEffect, Zenon
  <2>3. /\ dlg' \in [Dialogues -> Requests]
        /\ \A e \in Dialogues : e # d => dlg'[e] = dlg[e]
        /\ dlg'[d].next = n + 1
        /\ dlg'[d].receipts = rs
        /\ Chain(dlg'[d])
        /\ n = 3 => dlg'[d].pc = "replied" /\ holder' = Free
        /\ n # 3 => dlg'[d].pc = "storing" /\ holder' = holder
    BY <1>1, <1>5, StoredFacts DEF n, rs
  <2>4. Quiet' => Quiet /\ sound'[ServerPath] = Append(s, Bytes(r))
    BY <1>2, <2>2, Zenon DEF Quiet, s
  <2>5. IsOpen(Server)' /\ handle'[Server].path = ServerPath
    BY <1>2, <2>2 DEF IsOpen
  <2>6. ASSUME Quiet'
        PROVE  /\ n <= Len(sound'[ServerPath]) /\ sound'[ServerPath] \in Seq(Blocks)
               /\ \A i \in 1..n : sound'[ServerPath][Len(sound'[ServerPath]) - n + i] = Bytes(rs[i])
    <3>1. LastStored(dlg[d])
      BY <1>1, <2>4, <2>6, Zenon DEF RequestInv
    <3>2. n - 1 <= Len(s) /\ \A i \in 1..(n - 1) : s[Len(s) - (n - 1) + i] = Bytes(rs[i])
      BY <3>1 DEF LastStored, n, rs, s
    <3>3. Bytes(rs[n]) \in Blocks /\ sound'[ServerPath] = Append(s, Bytes(rs[n]))
      BY <1>2, <2>4, <2>6, BytesBlock
    <3> DEFINE t == Append(s, Bytes(rs[n]))
    <3>4. t \in Seq(Blocks) /\ n <= Len(t) /\ \A i \in 1..n : t[Len(t) - n + i] = Bytes(rs[i])
      BY <1>2, <1>3, <3>2, <3>3, StoredGrows
    <3> HIDE DEF t
    <3> QED BY <3>3, <3>4 DEF t
  <2>7. CASE n = 3
    <3>1. Quiet' => Together(dlg[d])'
      <4> HAVE Quiet'
      <4> DEFINE t == sound'[ServerPath]  k == Len(t) - 2
      <4>1. /\ t \in Seq(Blocks) /\ 3 <= Len(t)
            /\ \A i \in 1..3 : t[Len(t) - 3 + i] = Bytes(rs[i])
        BY <2>6, <2>7
      <4>2. Len(t) \in Nat /\ DOMAIN t = 1..Len(t)
        BY <4>1, LenProperties
      <4> HIDE DEF t
      <4>3. k \in DOMAIN t /\ k + 2 <= Len(t)
        BY <4>1, <4>2
      <4>4. \A i \in 1..3 : t[k + i - 1] = Bytes(rs[i])
        <5> TAKE i \in 1..3
        <5>1. k + i - 1 = Len(t) - 3 + i
          BY <4>2
        <5> QED BY <4>1, <5>1
      <4>5. \A i \in 1..3 : rs[i] = dlg'[d].receipts[i]
        BY <2>3
      <4> HIDE DEF k
      <4> QED BY <4>3, <4>4, <4>5 DEF Together, t
    <3>2. ASSUME NEW e \in Dialogues
          PROVE  /\ dlg'[e].pc = "storing" <=> holder' = e
                 /\ dlg'[e].pc = "storing" => IsOpen(Server)'
                 /\ Chain(dlg'[e])
                 /\ dlg'[e].pc # "storing"
                 /\ dlg'[e].next = 4 /\ Quiet' => Together(dlg[e])'
      <4>1. CASE e = d
        BY <2>3, <2>7, <3>1, <4>1, HolderAssumption
      <4>2. CASE e # d
        <5>1. dlg'[e] = dlg[e] /\ dlg[e].pc # "storing" /\ Chain(dlg[e])
          BY <1>4, <2>3, <4>2, RequestFacts
        <5>2. ASSUME dlg[e].next = 4, Quiet' PROVE Together(dlg[e])'
          <6>1. Together(dlg[e])
            BY <2>4, <5>2, Zenon DEF RequestInv
          <6>2. \E b \in Blocks : sound'[ServerPath] = Append(sound[ServerPath], b)
            BY <1>2, <2>4, <5>2, BytesBlock DEF s
          <6>3. \E j \in DOMAIN sound'[ServerPath] :
                  /\ j + 2 <= Len(sound'[ServerPath])
                  /\ \A i \in 1..3 : sound'[ServerPath][j + i - 1] = Bytes(dlg[e].receipts[i])
            BY <6>1, <6>2, TogetherStays
          <6> QED BY <5>1, <6>3 DEF Together
        <5> QED BY <2>3, <2>7, <5>1, <5>2, HolderAssumption
      <4> QED BY <4>1, <4>2
    <3>3. holder' \in Dialogues \cup {Free}
      BY <2>3, <2>7
    <3>4. RequestInv'
      BY <2>3, <2>5, <3>2, <3>3, Zenon DEF RequestInv
    <3> QED BY <2>1, <3>4
  <2>8. CASE n # 3
    <3>1. Quiet' => LastStored(dlg[d])'
      <4> HAVE Quiet'
      <4>1. /\ n <= Len(sound'[ServerPath])
            /\ \A i \in 1..n : sound'[ServerPath][Len(sound'[ServerPath]) - n + i] = Bytes(rs[i])
        BY <2>6
      <4>2. dlg'[d].next - 1 = n /\ dlg'[d].receipts = rs
        BY <1>2, <2>3
      <4> QED BY <4>1, <4>2 DEF LastStored
    <3>2. ASSUME NEW e \in Dialogues
          PROVE  /\ dlg'[e].pc = "storing" <=> holder' = e
                 /\ dlg'[e].pc = "storing" => IsOpen(Server)'
                 /\ Chain(dlg'[e])
                 /\ dlg'[e].pc = "storing" /\ Quiet' => LastStored(dlg[e])'
                 /\ dlg'[e].next = 4 /\ Quiet' => Together(dlg[e])'
      <4>1. CASE e = d
        <5>1. dlg'[d].next # 4
          BY <1>2, <2>3, <2>8
        <5> QED BY <1>2, <2>3, <2>5, <2>8, <3>1, <4>1, <5>1, Zenon
      <4>2. CASE e # d
        <5>1. dlg'[e] = dlg[e] /\ dlg[e].pc # "storing" /\ Chain(dlg[e])
          BY <1>4, <2>3, <4>2, RequestFacts
        <5>2. ASSUME dlg[e].next = 4, Quiet' PROVE Together(dlg[e])'
          <6>1. Together(dlg[e])
            BY <2>4, <5>2, Zenon DEF RequestInv
          <6>2. \E b \in Blocks : sound'[ServerPath] = Append(sound[ServerPath], b)
            BY <1>2, <2>4, <5>2, BytesBlock DEF s
          <6>3. \E j \in DOMAIN sound'[ServerPath] :
                  /\ j + 2 <= Len(sound'[ServerPath])
                  /\ \A i \in 1..3 : sound'[ServerPath][j + i - 1] = Bytes(dlg[e].receipts[i])
            BY <6>1, <6>2, TogetherStays
          <6> QED BY <5>1, <6>3 DEF Together
        <5>3. holder' # e
          BY <1>2, <2>3, <2>8, <4>2
        <5> QED BY <5>1, <5>2, <5>3, Zenon
      <4> QED BY <4>1, <4>2
    <3>3. holder' \in Dialogues \cup {Free}
      BY <1>2, <2>3, <2>8
    <3>4. RequestInv'
      BY <2>3, <2>5, <3>2, <3>3, Zenon DEF RequestInv
    <3> QED BY <2>1, <3>4
  <2> QED BY <2>7, <2>8
<1>6. CASE WriteFails(Server, r) /\ Stored(d) /\ UNCHANGED todo
  <2>1. LedgerInv'
    BY <1>2, <1>3, <1>6, FailKeeps
  <2>2. hurt'[handle[Server].path] # FALSE /\ handle'[Server].path = handle[Server].path
    BY <1>2, <1>6, FaultEffect, Zenon
  <2>3. ~Quiet' /\ IsOpen(Server)' /\ handle'[Server].path = ServerPath
    BY <1>2, <2>2, Zenon DEF Quiet, IsOpen
  <2>4. /\ dlg' \in [Dialogues -> Requests]
        /\ \A e \in Dialogues : e # d => dlg'[e] = dlg[e]
        /\ Chain(dlg'[d])
        /\ n = 3 => dlg'[d].pc = "replied" /\ holder' = Free
        /\ n # 3 => dlg'[d].pc = "storing" /\ holder' = holder
    BY <1>1, <1>6, StoredFacts DEF n, rs
  <2>5. ASSUME NEW e \in Dialogues
        PROVE  (dlg'[e].pc = "storing" <=> holder' = e) /\ Chain(dlg'[e])
    <3>1. CASE e = d
      BY <1>2, <2>4, <3>1, HolderAssumption
    <3>2. CASE e # d
      <4>1. dlg'[e] = dlg[e] /\ dlg[e].pc # "storing" /\ Chain(dlg[e])
        BY <1>4, <2>4, <3>2, RequestFacts
      <4> QED BY <1>2, <2>4, <3>2, <4>1, HolderAssumption
    <3> QED BY <3>1, <3>2
  <2>6. holder' \in Dialogues \cup {Free}
    BY <1>2, <2>4
  <2>7. RequestInv'
    BY <2>3, <2>4, <2>5, <2>6, Zenon DEF RequestInv
  <2> QED BY <2>1, <2>7
<1>7. CASE /\ WriteDies(Server, r)
           /\ holder' = Free
           /\ dlg' = [e \in Dialogues |-> IF dlg[e].pc \in {"idle", "gone", "replied"}
                                          THEN dlg[e] ELSE Gone]
  <2>1. LedgerInv'
    BY <1>2, <1>7, DieKeeps
  <2>2. hurt'[handle[Server].path] # FALSE /\ handle'[Server] = Closed
    BY <1>2, <1>7, FaultEffect, Zenon
  <2>3. ~Quiet' /\ ~IsOpen(Server)'
    <3>1. ~Quiet'
      BY <1>2, <2>2, Zenon DEF Quiet
    <3>2. Closed.path \notin Paths
      BY PathAssumption DEF Closed
    <3> QED BY <2>2, <3>1, <3>2 DEF IsOpen
  <2>4. ASSUME NEW e \in Dialogues
        PROVE  dlg'[e] \in Requests /\ Chain(dlg'[e]) /\ dlg'[e].pc # "storing"
    <3>1. CASE dlg[e].pc \in {"idle", "gone", "replied"}
      <4>1. dlg'[e] = dlg[e]
        BY <1>7, <3>1
      <4> QED BY <3>1, <4>1, RequestFacts
    <3>2. CASE dlg[e].pc \notin {"idle", "gone", "replied"}
      <4>1. dlg'[e] = Gone
        BY <1>7, <3>2
      <4> QED BY <4>1, GoneFacts
    <3> QED BY <3>1, <3>2
  <2>5. dlg' \in [Dialogues -> Requests]
    <3>1. dlg' = [e \in Dialogues |-> dlg'[e]]
      BY <1>7
    <3> QED BY <2>4, <3>1
  <2>6. holder' = Free /\ \A e \in Dialogues : holder' # e
    BY <1>7, HolderAssumption
  <2>7. RequestInv'
    BY <2>3, <2>4, <2>5, <2>6, Zenon DEF RequestInv
  <2> QED BY <2>1, <2>7
<1> QED BY <1>5, <1>6, <1>7 DEF Store, n, rs

LEMMA UndisturbedKeeps ==
  ASSUME LedgerInv, RequestInv, Undisturbed, UNCHANGED <<dlg, holder>>
  PROVE  RequestInv'
<1>1. handle'[Server] = handle[Server] /\ (Quiet' => Quiet)
  BY DEF Undisturbed
<1>2. IsOpen(Server)' = IsOpen(Server)
  BY <1>1 DEF IsOpen
<1>3. ASSUME NEW d \in Dialogues, dlg[d].pc = "storing", Quiet' PROVE LastStored(dlg[d])'
  <2>1. LastStored(dlg[d]) /\ handle[Server].path = ServerPath
    BY <1>1, <1>3, Zenon DEF RequestInv
  <2>2. sound'[ServerPath] = sound[ServerPath]
    BY <1>3, <2>1 DEF Undisturbed
  <2> QED BY <2>1, <2>2 DEF LastStored
<1>4. ASSUME NEW d \in Dialogues, dlg[d].next = 4, Quiet' PROVE Together(dlg[d])'
  <2>1. Together(dlg[d])
    BY <1>1, <1>4, Zenon DEF RequestInv
  <2>2. \/ sound'[ServerPath] = sound[ServerPath]
        \/ \E b \in Blocks : sound'[ServerPath] = Append(sound[ServerPath], b)
    BY <1>4 DEF Undisturbed
  <2>3. \E n \in DOMAIN sound'[ServerPath] :
                  /\ n + 2 <= Len(sound'[ServerPath])
                  /\ \A i \in 1..3 : sound'[ServerPath][n + i - 1] = Bytes(dlg[d].receipts[i])
    BY <2>1, <2>2, TogetherStays
  <2> QED BY <2>3 DEF Together
<1> QED BY <1>1, <1>2, <1>3, <1>4, Zenon DEF RequestInv

LEMMA ServerOpens ==
  ASSUME LedgerInv, RequestInv, Open(Server, ServerPath), UNCHANGED dialogueVars
  PROVE  LedgerInv' /\ RequestInv'
<1>0. Server \in Handles /\ ServerPath \in Paths
  BY ServerAssumption
<1>1. LedgerInv'
  BY <1>0, OpenKeeps
<1>2. ~IsOpen(Server) /\ sound' = sound /\ hurt' = hurt
  BY DEF Open
<1>3. handle'[Server] = [path |-> ServerPath, bytes |-> Len(disk[ServerPath]), buf |-> <<>>]
  BY <1>0, Shapes DEF Open
<1>4. handle'[Server].path = ServerPath /\ IsOpen(Server)'
  BY <1>0, <1>3 DEF IsOpen
<1>5. dlg' = dlg /\ holder' = holder
  BY DEF dialogueVars
<1>6. shared'[ServerPath] = FALSE => shared[ServerPath] = FALSE
  <2>1. shared' = [shared EXCEPT ![ServerPath] = shared[ServerPath] \/ \E g \in Handles : handle[g].path = ServerPath]
    BY DEF Open
  <2>2. shared'[ServerPath] = (shared[ServerPath] \/ \E g \in Handles : handle[g].path = ServerPath)
    BY <1>0, <2>1, Shapes
  <2>3. shared[ServerPath] \in BOOLEAN
    BY <1>0, Shapes
  <2> QED BY <2>2, <2>3, Zenon
<1>7. Quiet' => Quiet
  BY <1>2, <1>6, Zenon DEF Quiet
<1>8. \A d \in Dialogues : dlg[d].pc # "storing"
  BY <1>2 DEF RequestInv
<1>9. ASSUME NEW d \in Dialogues, dlg[d].next = 4, Quiet' PROVE Together(dlg[d])'
  <2>1. Together(dlg[d])
    BY <1>7, <1>9, Zenon DEF RequestInv
  <2> QED BY <1>2, <1>5, <2>1 DEF Together
<1>10. RequestInv'
  BY <1>4, <1>5, <1>8, <1>9, Zenon DEF RequestInv
<1> QED BY <1>1, <1>10

LEMMA DInvInit == Init => DInv
<1> SUFFICES ASSUME Init PROVE DInv
  OBVIOUS
<1>1. LedgerInv
  BY InitKeeps DEF Init
<1>2. dlg = [d \in Dialogues |-> NewRequest] /\ holder = Free
  BY DEF Init, DialogueInit
<1>3. NewRequest \in Requests /\ Chain(NewRequest) /\ NewRequest.pc = "idle" /\ NewRequest.next = 1
  <2>1. NewRequest \in Requests
    BY DEF NewRequest, Requests
  <2>2. /\ NewRequest.pc = "idle" /\ NewRequest.next = 1 /\ NewRequest.receipts = <<>>
        /\ NewRequest.exec = <<>> /\ NewRequest.memo = <<>>
    BY DEF NewRequest
  <2> QED BY <2>1, <2>2 DEF Chain
<1>4. ~IsOpen(Server)
  <2>1. handle[Server] = Closed
    BY ServerAssumption DEF Init, LedgerInit
  <2> QED BY <2>1, PathAssumption DEF IsOpen, Closed
<1>5. RequestInv
  BY <1>2, <1>3, <1>4, HolderAssumption DEF RequestInv
<1> QED BY <1>1, <1>5 DEF DInv

LEMMA DInvNext == DInv /\ [Next]_<<ledgerVars, dialogueVars>> => DInv'
<1> SUFFICES ASSUME LedgerInv, RequestInv, [Next]_<<ledgerVars, dialogueVars>> PROVE LedgerInv' /\ RequestInv'
  BY DEF DInv
<1>1. ASSUME NEW d \in Dialogues,
             Ground(d) \/ Entity(d) \/ Synthesis(d) \/ Fails(d) \/ HangUp(d) \/ Lock(d) \/ Reply(d)
      PROVE  LedgerInv' /\ RequestInv'
  <2>1. UNCHANGED ledgerVars
    BY <1>1 DEF Ground, Entity, Synthesis, Fails, HangUp, Lock, Reply
  <2>2. LedgerInv'
    <3>1. UNCHANGED <<disk, handle, sound, hurt, shared>> /\ todo' = todo
      BY <2>1 DEF ledgerVars
    <3>2. todo' \in [Handles -> Seq(All)]
      BY <3>1, Shapes
    <3> QED BY <3>1, <3>2, QueueKeeps
  <2>3. RequestInv'
    BY <1>1, GroundKeeps, EntityKeeps, SynthesisKeeps, LeavesKeeps, LockKeeps, ReplyKeeps
  <2> QED BY <2>2, <2>3
<1>2. ASSUME NEW d \in Dialogues, Store(d) PROVE LedgerInv' /\ RequestInv'
  BY <1>2, StoreKeeps
<1>3. ASSUME Open(Server, ServerPath), UNCHANGED dialogueVars PROVE LedgerInv' /\ RequestInv'
  BY <1>3, ServerOpens
<1>4. ASSUME NEW h \in Handles \ {Server}, UNCHANGED <<dlg, holder>>,
             \/ \E p \in Paths : Open(h, p)
             \/ \E r \in Receipts : AppendOne(h, r)
             \/ \E p \in Paths : ReplayFrom(h, p) \/ ReplayBroadcast(h, p) \/ ReplayCanonical(h, p)
             \/ Close(h)
             \/ ReplayStep(h)
      PROVE  LedgerInv' /\ RequestInv'
  <2>1. LedgerInv' /\ Undisturbed
    BY <1>4, ToolStep
  <2> QED BY <1>4, <2>1, UndisturbedKeeps
<1>5. ASSUME UNCHANGED <<ledgerVars, dialogueVars>> PROVE LedgerInv' /\ RequestInv'
  <2>1. UNCHANGED <<disk, handle, sound, hurt, shared>> /\ todo' = todo /\ UNCHANGED <<dlg, holder>>
    BY <1>5 DEF ledgerVars, dialogueVars
  <2>2. todo' \in [Handles -> Seq(All)]
    BY <2>1, Shapes
  <2> QED BY <2>1, <2>2, QueueKeeps, QueueUndisturbed, UndisturbedKeeps
<1>6. CASE Next
  <2>1. CASE \E d \in Dialogues : \/ Ground(d) \/ Entity(d) \/ Synthesis(d) \/ Fails(d)
                                  \/ HangUp(d) \/ Lock(d) \/ Store(d) \/ Reply(d)
    BY <1>1, <1>2, <2>1
  <2>2. CASE Open(Server, ServerPath) /\ UNCHANGED dialogueVars
    BY <1>3, <2>2
  <2>3. CASE /\ UNCHANGED <<dlg, holder>>
             /\ \E h \in Handles \ {Server} :
                  \/ \E p \in Paths : Open(h, p)
                  \/ \E r \in Receipts : AppendOne(h, r)
                  \/ \E p \in Paths : \/ ReplayFrom(h, p)
                                      \/ ReplayBroadcast(h, p)
                                      \/ ReplayCanonical(h, p)
    BY <1>4, <2>3
  <2>4. CASE /\ \E h \in Handles \ {Server} : Close(h) \/ ReplayStep(h)
             /\ UNCHANGED dialogueVars
    <3>1. UNCHANGED <<dlg, holder>>
      BY <2>4 DEF dialogueVars
    <3> QED BY <1>4, <2>4, <3>1
  <2> QED BY <1>6, <2>1, <2>2, <2>3, <2>4 DEF Next, DialogueNext
<1> QED BY <1>5, <1>6

\* The invariant holds in every state of every behaviour.
LEMMA DialogueKept == Spec => []DInv
<1>1. Init => DInv
  BY DInvInit
<1>2. DInv /\ [Next]_<<ledgerVars, dialogueVars>> => DInv'
  BY DInvNext
<1> QED BY <1>1, <1>2, PTL DEF Spec

LEMMA ReceiptsByState ==
  ASSUME NEW q \in Requests, Chain(q)
  PROVE  q.receipts = <<>> \/ Len(q.receipts) = 1 \/ Len(q.receipts) = 2
         \/ (Len(q.receipts) = 3 /\ Spoken(q))
<1>1. q.pc \in {"idle", "entity", "synthesis", "answered", "storing", "replied", "gone"}
  BY DEF Requests
<1>2. CASE q.pc \in {"idle", "gone"}
  BY <1>2, Zenon DEF Chain
<1>3. CASE q.pc = "entity"
  BY <1>3, Zenon DEF Chain, Asked
<1>4. CASE q.pc = "synthesis"
  BY <1>4, Zenon DEF Chain, Answered
<1>5. CASE q.pc \in {"answered", "storing", "replied"}
  BY <1>5, Zenon DEF Chain, Spoken
<1> QED BY <1>1, <1>2, <1>3, <1>4, <1>5

LEMMA DInvExact == DInv => LedgerExact
<1> SUFFICES ASSUME DInv PROVE LedgerExact
  OBVIOUS
<1>0. LedgerInv /\ RequestInv
  BY DEF DInv
<1>1. TypeOK
  <2>1. ASSUME NEW h \in Handles PROVE handle[h] = Closed \/ (IsOpen(h) /\ handle[h].bytes \in Nat)
    <3>1. /\ handle[h] \in [path : Paths \cup {"none"}, bytes : Nat, buf : Seq(Unit)]
          /\ handle[h].path = "none" => handle[h] = Closed
      BY <1>0 DEF LedgerInv, LedgerShape
    <3> QED BY <3>1 DEF IsOpen
  <2>2. holder \in Dialogues \cup {Free} /\ (holder # Free => dlg[holder].pc = "storing")
    BY <1>0 DEF RequestInv
  <2>3. ASSUME NEW d \in Dialogues PROVE Len(dlg[d].receipts) <= 3 /\ dlg[d].next \in 1..4
    <3>1. dlg[d] \in Requests /\ Chain(dlg[d])
      BY <1>0, RequestFacts
    <3>2. Len(<<>>) = 0
      OBVIOUS
    <3>3. dlg[d].next \in 1..4
      BY <3>1 DEF Requests
    <3>4. dlg[d].receipts = <<>> \/ Len(dlg[d].receipts) = 1 \/ Len(dlg[d].receipts) = 2
          \/ Len(dlg[d].receipts) = 3
      BY <3>1, ReceiptsByState, Zenon
    <3>5. PICK k : k = Len(dlg[d].receipts)
      OBVIOUS
    <3>6. k = 0 \/ k = 1 \/ k = 2 \/ k = 3
      BY <3>2, <3>4, <3>5, Zenon
    <3>7. k <= 3
      BY <3>6
    <3> QED BY <3>3, <3>5, <3>7, Zenon
  <2> QED BY <2>1, <2>2, <2>3 DEF TypeOK
<1>2. ASSUME NEW p \in Paths
      PROVE  /\ disk[p] \in Seq(Unit) /\ sound[p] \in Seq(Blocks)
             /\ Begins(disk[p], sound[p])
             /\ hurt[p] = FALSE => Len(disk[p]) = Len(sound[p]) * Width
             /\ hurt[p] = FALSE /\ shared[p] = FALSE
                  => \A h \in Handles : handle[h].path = p => handle[h].bytes = Len(disk[p])
             /\ hurt[p] \in BOOLEAN /\ shared[p] \in BOOLEAN
  <2>1. Kept(p) /\ Tidy(p) /\ Counted(p)
    BY <1>0 DEF LedgerInv
  <2>2. /\ disk[p] \in Seq(Unit) /\ sound[p] \in Seq(Blocks)
        /\ hurt[p] \in BOOLEAN /\ shared[p] \in BOOLEAN
    BY <1>0, Shapes
  <2> QED BY <2>1, <2>2, Zenon DEF Kept, Tidy, Counted
<1>3. ReadsBack
  <2>1. ASSUME NEW p \in Paths, ~hurt[p] PROVE Status(disk[p]) = "Ok" /\ ReadAll(disk[p]) = sound[p]
    <3>1. hurt[p] = FALSE
      BY <1>2, <2>1, Zenon
    <3>2. Len(disk[p]) = Len(sound[p]) * Width
      BY <1>2, <3>1, Zenon
    <3>3. disk[p] \in Seq(Unit) /\ sound[p] \in Seq(Blocks) /\ Begins(disk[p], sound[p])
      BY <1>2
    <3> HIDE <2>1
    <3> QED BY <3>2, <3>3, ReadsWhatBegins
  <2> QED BY <2>1, Zenon DEF ReadsBack
<1>4. EarlierSurvive
  BY <1>2, ReadsWhatBegins DEF EarlierSurvive
<1>5. CounterAgrees
  <2>1. ASSUME NEW h \in Handles, IsOpen(h), ~hurt[handle[h].path], ~shared[handle[h].path]
        PROVE  handle[h].bytes = Len(disk[handle[h].path])
    <3>1. handle[h].path \in Paths
      BY <2>1 DEF IsOpen
    <3>2. hurt[handle[h].path] = FALSE /\ shared[handle[h].path] = FALSE
      BY <1>2, <2>1, <3>1, Zenon
    <3> QED BY <1>2, <3>1, <3>2, Zenon
  <2> QED BY <2>1, Zenon DEF CounterAgrees
<1>6. SideBySide
  <2>1. ASSUME NEW d \in Dialogues, dlg[d].next = 4, ~hurt[ServerPath], ~shared[ServerPath]
        PROVE  Together(dlg[d])
    <3>1. Quiet
      BY <1>2, <2>1, ServerAssumption, Zenon DEF Quiet
    <3> QED BY <1>0, <2>1, <3>1, Zenon DEF RequestInv
  <2> QED BY <2>1, Zenon DEF SideBySide, Together
<1> QED BY <1>1, <1>3, <1>4, <1>5, <1>6 DEF LedgerExact

LEMMA DInvConverge == DInv => Converge
<1> SUFFICES ASSUME DInv, NEW p \in Paths, NEW q \in Paths
             PROVE  LET a == Records(disk[p])  b == Records(disk[q])
                    IN (/\ Len(a) = Len(b)
                        /\ {a[i] : i \in DOMAIN a} = {b[i] : i \in DOMAIN b}
                        /\ \A i, j \in DOMAIN a : KeyEqual(a[i], a[j]) => i = j)
                       => Canonical(a) = Canonical(b)
  BY DEF Converge
<1>1. disk[p] \in Seq(Unit) /\ disk[q] \in Seq(Unit)
  BY Shapes DEF DInv
<1>2. Records(disk[p]) \in Seq(All) /\ Records(disk[q]) \in Seq(All)
  BY <1>1, RecordsFacts
<1> QED BY <1>2, SameListing

LEMMA DInvAttested == DInv => Attested
<1> SUFFICES ASSUME DInv, NEW d \in Dialogues, Len(dlg[d].receipts) = 3 PROVE Spoken(dlg[d])
  BY DEF Attested, Spoken
<1>1. dlg[d] \in Requests /\ Chain(dlg[d])
  BY RequestFacts DEF DInv
<1>2. Len(<<>>) = 0
  OBVIOUS
<1> QED BY <1>1, <1>2, ReceiptsByState


----------------------------------------------------------------------------
\* What was stored is read back: in full from a file nothing happened to, up to
\* the first fault from any other, with a counter that names the file's end and
\* the receipts of a dialogue side by side (Ledger::append, LedgerIter::next,
\* v1_dialogue's loop under the ledger's mutex).
THEOREM LedgerIsExact == Spec => []LedgerExact
BY DialogueKept, DInvExact, PTL

\* Two devices that hold the same records, no two of the same key, list them
\* alike (canonical_sort), in whatever order they received them.
THEOREM LedgersConverge == Spec => []Converge
BY DialogueKept, DInvConverge, PTL

\* Three receipts attest a chain: each turn was given what the one before it
\* said, and the sessions hold exactly those tokens (run_dialogue).
THEOREM ReceiptsAttest == Spec => []Attested
BY DialogueKept, DInvAttested, PTL
=============================================================================
