------------------------------- MODULE DualNtt -------------------------------
(***************************************************************************)
(* Exact integer products on two primes, as the smoke programs run them:   *)
(* a negacyclic polynomial product by the number-theoretic transform, and  *)
(* a matrix product of int8 codes.  Each is computed once modulo each of   *)
(* the two primes (one lane per prime; a device call may fail, and a       *)
(* matrix product runs its lanes on two threads), and Garner's formula     *)
(* puts the signed integer together.  Machine words wrap at 2^WordBits.    *)
(* The code's primes have 30 bits and its words 64; an instance has        *)
(* smaller ones with the same relation between them: q1 > q2, q \equiv 1   *)
(* (mod 2N), and a product of two residues far below the word.             *)
(***************************************************************************)
EXTENDS Integers, FiniteSets, Functions

CONSTANTS N, QBits, Q1, Q2, QMax, Jobs
VARIABLES job, phase, tables, lane, done, out

ntt == <<job, phase, tables, lane, done, out>>

Prime == {Q1, Q2}
Index == 0..(N - 1)
Word == 2 ^ (2 * QBits + 4)
M == Q1 * Q2

(* A job: a "polymul" of two integer vectors, or a "matmul" of the real    *)
(* matrices x (batch by inner) and w (inner by outer), in fixed point.     *)
DualNttAssumption ==
  /\ N \in Nat \ {0} /\ QBits \in Nat \ {0} /\ QMax \in Nat \ {0}
  /\ \A q \in Prime : q \in 2 ^ (QBits - 1)..2 ^ QBits /\ q % (2 * N) = 1
  /\ Q1 > Q2

Mu(q) == (2 ^ (2 * QBits)) \div q

(* Barrett reduction of a double-width product: two subtractions at most.  *)
barrett_reduce(x, q) ==
  LET qhat == ((x \div 2 ^ (QBits - 1)) * Mu(q)) \div 2 ^ (QBits + 1)
      r0 == (x - qhat * q) % Word
      r1 == IF r0 >= q THEN r0 - q ELSE r0
  IN  IF r1 >= q THEN r1 - q ELSE r1

modmul(a, b, q) == barrett_reduce(a * b, q)
modadd(a, b, q) == IF a + b >= q THEN a + b - q ELSE a + b
modsub(a, b, q) == IF a >= b THEN a - b ELSE a + q - b

modpow(base, e, q) ==
  LET pow[n \in Nat, b \in Nat] ==
        IF n = 0 THEN 1 % q
        ELSE LET rest == pow[n \div 2, modmul(b, b, q)]
             IN  IF n % 2 = 1 THEN modmul(rest, b, q) ELSE rest
  IN  pow[e, base % q]

modinv(a, q) == modpow(a, q - 2, q)

(* The 2N-th root of unity that the smallest base yields; 0 for none.      *)
find_psi(q) ==
  LET root(a) == modpow(a, (q - 1) \div (2 * N), q)
      good == {a \in 2..(q - 1) : root(a) # 0 /\ modpow(root(a), N, q) = q - 1}
  IN  IF good = {} THEN 0
      ELSE root(CHOOSE a \in good : \A c \in good : a <= c)

(* The powers of x that a loop accumulates, one multiplication at a time.  *)
Powers(x, n, q) ==
  LET acc[j \in Nat] == IF j = 0 THEN 1 % q ELSE modmul(acc[j - 1], x, q)
  IN  [j \in 0..(n - 1) |-> acc[j]]

Tables(psi, ipsi, q) ==
  [psi_pow |-> Powers(psi, N, q),
   ipsi_pow |-> Powers(ipsi, N, q),
   ninv |-> modinv(N % q, q),
   w_fwd |-> Powers(modmul(psi, psi, q), N \div 2, q),
   w_inv |-> Powers(modmul(ipsi, ipsi, q), N \div 2, q)]

build_ctxOneRoot(q) == LET psi == find_psi(q) IN Tables(psi, psi, q)   \* mutant

build_ctx(q) == LET psi == find_psi(q) IN Tables(psi, modinv(psi, q), q)

ilog2(n) == CHOOSE l \in 0..n : 2 ^ l >= n /\ \A m \in 0..(l - 1) : 2 ^ m < n

bitrev(x, log_n) ==
  LET r[i \in Nat] == IF i = 0 THEN 0
                      ELSE 2 * r[i - 1] + ((x \div 2 ^ (i - 1)) % 2)
  IN  r[log_n]

(* Decimation in time: the permutation, then log N rounds of butterflies.  *)
ntt_core(v, w, q) ==
  LET round[s \in Nat] ==
        IF s = 0 THEN [i \in Index |-> v[bitrev(i, ilog2(N))]]
        ELSE LET u == round[s - 1]
                 half == 2 ^ (s - 1)
                 step == N \div 2 ^ s
             IN  [i \in Index |->
                    LET k == i % (2 * half)
                    IN  IF k < half
                        THEN modadd(u[i], modmul(u[i + half], w[k * step], q), q)
                        ELSE modsub(u[i - half],
                                    modmul(u[i], w[(k - half) * step], q), q)]
  IN  round[ilog2(N)]

(* The remainder of a signed input: of the sign of the dividend, then      *)
(* brought up.                                                             *)
Canonical(a, q) ==
  LET v == IF a >= 0 THEN a % q ELSE -((-a) % q) IN IF v < 0 THEN v + q ELSE v

forward_one(c, in, q) ==
  ntt_core([j \in Index |-> modmul(Canonical(in[j], q), c.psi_pow[j], q)], c.w_fwd, q)

inverse_one(c, in, q) ==
  LET v == ntt_core([j \in Index |-> in[j] % q], c.w_inv, q)
  IN  [j \in Index |-> modmul(modmul(v[j], c.ninv, q), c.ipsi_pow[j], q)]

pointwise_mul_q(a, b, q) == [i \in Index |-> modmul(a[i], b[i], q)]

(***************************************************************************)
(* The lift of a real matrix to codes and residues, and the product of     *)
(* residues.                                                               *)
(***************************************************************************)

Abs(v) == IF v < 0 THEN -v ELSE v

per_tensor_scale(tensor) ==
  FoldFunction(LAMBDA v, m : IF Abs(v) > m THEN Abs(v) ELSE m, 0, tensor)

(* v / scale * QMax, rounded half away from zero and clamped.              *)
quant1_q8(v, scale) ==
  LET r == (2 * Abs(v) * QMax + scale) \div (2 * scale)
      c == IF r > QMax THEN QMax ELSE r
  IN  IF scale = 0 THEN 0 ELSE IF v >= 0 THEN c ELSE -c

lift_q8_to_zq(code, q) == IF code >= 0 THEN code ELSE q - (-code)

Codes(tensor) ==
  LET scale == per_tensor_scale(tensor)
  IN  [i \in DOMAIN tensor |-> quant1_q8(tensor[i], scale)]

pack(tensor, q) ==
  LET codes == Codes(tensor)
  IN  [i \in DOMAIN tensor |-> lift_q8_to_zq(codes[i], q)]

Rows(x) == {i[1] : i \in DOMAIN x}
Cols(x) == {i[2] : i \in DOMAIN x}

matmul_q_scalar_ref(x, w, q) ==
  [bi \in Rows(x) \X Cols(w) |->
     LET acc[k \in Nat] ==
           IF k = 0 THEN 0
           ELSE modadd(acc[k - 1],
                       barrett_reduce(x[bi[1], k] * w[k, bi[2]], q), q)
     IN  acc[Cardinality(Cols(x))]]

(***************************************************************************)
(* Garner.  The difference is one word: where r1 exceeds r2 by more than   *)
(* q2 (there is room for that, as q1 > q2) it wraps.                       *)
(***************************************************************************)
Q1InvModQ2 == CHOOSE i \in 0..(Q2 - 1) : (Q1 * i) % Q2 = 1

GarnerOne(r1, r2) ==
  LET diff == IF r2 >= r1 THEN r2 - r1 ELSE (Q2 - (r1 - r2)) % Word
      r == r1 + Q1 * (((diff * Q1InvModQ2) % Word) % Q2)
  IN  IF r > M \div 2 THEN r - M ELSE r

garner_combine_q1_q2_signed(r1, r2) == [i \in DOMAIN r1 |-> GarnerOne(r1[i], r2[i])]

(***************************************************************************)
(* A run of a job.  "done" counts the stages of a lane (a forward          *)
(* transform of both operands, the pointwise product, the inverse one; a   *)
(* matrix product is one stage) and "lane" holds what they left.           *)
(***************************************************************************)
Both(v) == [q \in Prime |-> v]

Init ==
  /\ job \in Jobs
  /\ phase = "build" /\ tables = Both(0) /\ lane = Both(0) /\ done = Both(0)
  /\ out = 0

Ready == phase = "run"

(* The tables of both primes are built once; a matrix product packs its    *)
(* operands for both.                                                      *)
Build ==
  /\ phase = "build" /\ phase' = "run"
  /\ tables' = [q \in Prime |-> IF job.kind = "polymul" THEN build_ctx(q)
                                ELSE <<pack(job.a, q), pack(job.b, q)>>]
  /\ UNCHANGED <<job, lane, done, out>>

LaneDone(q, stages, value) ==
  /\ lane' = [lane EXCEPT ![q] = value]
  /\ done' = [done EXCEPT ![q] = stages]
  /\ UNCHANGED <<job, phase, tables, out>>

(* The forward calls of a prime for both operands; q1's come first.        *)
Forward(q) ==
  /\ Ready /\ job.kind = "polymul" /\ done[q] = 0
  /\ q = Q2 => done[Q1] = 1
  /\ LaneDone(q, 1, <<forward_one(tables[q], job.a, q), forward_one(tables[q], job.b, q)>>)

PointwiseMul ==
  /\ Ready /\ done = Both(1)
  /\ lane' = [q \in Prime |-> pointwise_mul_q(lane[q][1], lane[q][2], q)]
  /\ done' = Both(2)
  /\ UNCHANGED <<job, phase, tables, out>>

InverseNtt(q) ==
  /\ Ready /\ done[q] = 2
  /\ q = Q2 => done[Q1] = 3
  /\ LaneDone(q, 3, inverse_one(tables[q], lane[q], q))

(* A thread of the matrix product: the device has q1, the host has q2.     *)
Matmul(q) ==
  /\ Ready /\ job.kind = "matmul" /\ done[q] = 0
  /\ LaneDone(q, 3, matmul_q_scalar_ref(tables[q][1], tables[q][2], q))

(* A device call fails: the job is given up (a panic, once both threads    *)
(* have been joined).                                                      *)
CallFails ==
  /\ Ready
  /\ IF job.kind = "polymul" THEN \E q \in Prime : done[q] \in {0, 2}
     ELSE done[Q1] = 0 /\ done[Q2] = 3
  /\ phase' = "failed"
  /\ UNCHANGED <<job, tables, lane, done, out>>

Combine ==
  /\ Ready /\ done = Both(3)
  /\ out' = garner_combine_q1_q2_signed(lane[Q1], lane[Q2])
  /\ phase' = "out"
  /\ UNCHANGED <<job, tables, lane, done>>

Next ==
  \/ Build \/ PointwiseMul \/ CallFails \/ Combine
  \/ \E q \in Prime : Forward(q) \/ InverseNtt(q) \/ Matmul(q)

Spec == Init /\ [][Next]_ntt

(***************************************************************************)
(* What the jobs promise, against the arithmetic of the integers.          *)
(***************************************************************************)
IntSum(f) == FoldFunction(LAMBDA v, s : v + s, 0, f)

(* The coefficient of x^i in a * b modulo x^N + 1.                         *)
Coefficient(a, b, i) ==
  IntSum([j \in Index |-> IF j <= i THEN a[j] * b[i - j] ELSE -(a[j] * b[N + i - j])])

Centred(v) == LET r == v % M IN IF r > M \div 2 THEN r - M ELSE r

(* A value Garner's subtraction does not wrap on.                          *)
InReach(v) == v % Q1 <= (v % Q2) + Q2

(***************************************************************************)
(* The polynomial product is exact: two transforms, a pointwise product    *)
(* and an inverse on each of two primes, and the recombination give each   *)
(* coefficient of the negacyclic product of the integer vectors, centred   *)
(* modulo q1 q2 - and so the coefficient itself when it is smaller than    *)
(* half of that - wherever Garner's unsigned subtraction stays in its      *)
(* word.                                                                   *)
(***************************************************************************)
ProductExact ==
  phase = "out" /\ job.kind = "polymul" =>
    \A i \in Index :
      LET c == Coefficient(job.a, job.b, i)
      IN  InReach(c) => out[i] = Centred(c)

(***************************************************************************)
(* The matrix product of codes is exact: whichever thread ends first, the  *)
(* residues of the two primes recombine to the signed sum of products of   *)
(* the codes (the sum is small enough that neither the modulus nor the     *)
(* wrap of the subtraction is ever met), and a code is within half a step  *)
(* of what it stands for.                                                  *)
(***************************************************************************)
MatmulExact ==
  phase = "out" /\ job.kind = "matmul" =>
    LET x == Codes(job.a)
        w == Codes(job.b)
        Near(tensor, codes) ==
          \A i \in DOMAIN tensor :
            2 * Abs(tensor[i] * QMax - codes[i] * per_tensor_scale(tensor))
              <= per_tensor_scale(tensor)
    IN  /\ \A bi \in Rows(x) \X Cols(w) :
             out[bi] = IntSum([k \in Cols(x) |-> x[bi[1], k] * w[k, bi[2]]])
        /\ Near(job.a, x) /\ Near(job.b, w)
=============================================================================
