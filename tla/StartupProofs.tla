--------------------------- MODULE StartupProofs ---------------------------
(***************************************************************************)
(* Proofs about the two parts of a start that need no file: the            *)
(* single-instance guard, for any set of processes and starts, and the     *)
(* choice of a context and an offload depth, for a model of any size, any  *)
(* command line and any memory.                                            *)
(***************************************************************************)
EXTENDS InstanceLock, AutoFit, SequenceTheorems, WellFoundedInduction, TLAPS

Stages == {"off", "opened", "locked", "truncated", "running"}

LockTypeOK == lpc \in [Procs -> Stages] /\ owner \in Procs \cup {NoProc}

\* A process between ftruncate and dprintf finds the file empty: the others that
\* could write are behind the lock it holds.
EmptyWhenTruncated == \A p \in Procs : lpc[p] = "truncated" => lockfile = NoProc

LockInv == LockTypeOK /\ EmptyWhenTruncated /\ OneInstance

(* One system call of one process keeps the invariant: who holds the lock   *)
(* is alone past it, so nobody else can have written the file meanwhile.    *)
LEMMA LockStep == LockInv /\ [LockNext]_lockVars => LockInv'
<1> SUFFICES ASSUME LockInv, [LockNext]_lockVars PROVE LockInv'
    OBVIOUS
<1> USE InstanceLockAssumption DEF LockInv, LockTypeOK, EmptyWhenTruncated, OneInstance, Stages, Goto
<1>1. ASSUME NEW p \in Procs, Open(p) PROVE LockInv'
    BY <1>1 DEF Open
<1>2. ASSUME NEW p \in Procs, Flock(p) PROVE LockInv'
    <2>1. CASE owner = NoProc
        BY <1>2, <2>1 DEF Flock
    <2>2. CASE owner # NoProc
        BY <1>2, <2>2 DEF Flock
    <2> QED BY <2>1, <2>2
<1>3. ASSUME NEW p \in Procs, Ftruncate(p) PROVE LockInv'
    BY <1>3 DEF Ftruncate
<1>4. ASSUME NEW p \in Procs, WritePid(p) PROVE LockInv'
    <2>1. owner = p /\ lockfile = NoProc
        BY <1>4 DEF WritePid
    <2> QED BY <1>4, <2>1 DEF WritePid
<1>5. ASSUME NEW p \in Procs, Exit(p) PROVE LockInv'
    BY <1>5 DEF Exit
<1>6. CASE UNCHANGED lockVars
    BY <1>6 DEF lockVars
<1> QED
    BY <1>1, <1>2, <1>3, <1>4, <1>5, <1>6 DEF LockNext, Acquire

(* acquire_instance_lock: whatever number of processes start, and wherever  *)
(* they are killed, at most one is past the lock, exactly while the kernel   *)
(* counts it as the owner, and the file names it or nobody.                 *)
THEOREM SingleInstance == LockSpec => []OneInstance
<1>1. LockInit => LockInv
    BY InstanceLockAssumption
    DEF LockInit, LockInv, LockTypeOK, EmptyWhenTruncated, OneInstance, Stages
<1>2. LockInv => OneInstance
    BY DEF LockInv
<1> QED
    BY <1>1, <1>2, LockStep, PTL DEF LockSpec

-----------------------------------------------------------------------------
(* Arithmetic.                                                             *)

(* A product of naturals is a natural number.                              *)
LEMMA TimesNat == \A p, q \in Nat : p * q \in Nat
  BY SMT

(* It does not shrink when a factor grows.                                 *)
LEMMA TimesMono ==
  ASSUME NEW p \in Nat, NEW q \in Nat, NEW r \in Nat, p <= q
  PROVE  p * r <= q * r
<1>1. PICK d \in Nat : q = p + d
  <2>1. q - p \in Nat /\ q = p + (q - p)
    OBVIOUS
  <2>2. QED
    BY <2>1
<1>2. q * r = p * r + d * r
  BY <1>1
<1>3. p * r \in Nat /\ d * r \in Nat
  BY TimesNat
<1>4. QED
  BY <1>2, <1>3

(* Bounds of three terms add up.                                           *)
LEMMA AddBounds ==
  ASSUME NEW u \in Nat, NEW p \in Nat, NEW q \in Nat, NEW r \in Nat, u <= p + q + r,
         NEW v \in Nat, NEW x \in Nat, NEW y \in Nat, NEW z \in Nat, v <= x + y + z
  PROVE  u + v <= (p + x) + (q + y) + (r + z)
  OBVIOUS

(* What integer division returns.                                          *)
LEMMA DivIs ==
  ASSUME NEW p \in Nat, NEW q \in Nat \ {0}
  PROVE  /\ p \div q \in Nat
         /\ q * (p \div q) <= p
         /\ \A r \in Nat : r <= p \div q <=> q * r <= p
  OBVIOUS

(* It does not shrink when the dividend grows.                             *)
LEMMA DivMono ==
  ASSUME NEW p \in Nat, NEW q \in Nat, p <= q, NEW r \in Nat \ {0}
  PROVE  p \div r <= q \div r
<1>1. p \div r \in Nat /\ r * (p \div r) <= p
  BY DivIs
<1>2. r * (p \div r) \in Nat
  BY <1>1, TimesNat
<1>3. r * (p \div r) <= q
  BY <1>1, <1>2
<1>4. QED
  BY <1>1, <1>3, DivIs

-----------------------------------------------------------------------------
(* Induction, with a set in the place of a predicate.                      *)

(* A set of numbers that is not empty has a least element.                 *)
LEMMA LeastNat ==
  ASSUME NEW T, T \subseteq Nat, T # {}
  PROVE  \E x \in T : \A y \in T : x <= y
<1> DEFINE R == OpToRel(<, Nat)
<1>1. IsWellFoundedOn(R, Nat)
  BY NatLessThanWellFounded
<1>2. \A x, y \in Nat : <<y, x>> \in R <=> y < x
  BY DEF OpToRel
<1> HIDE DEF R
<1>3. PICK x \in T : \A y \in T : ~(<<y, x>> \in R)
  BY <1>1, WFMin
<1>4. ASSUME NEW y \in T PROVE x <= y
  <2>1. x \in Nat /\ y \in Nat
    OBVIOUS
  <2>2. ~(<<y, x>> \in R)
    BY <1>3
  <2>3. ~(y < x)
    BY <1>2, <2>1, <2>2
  <2>4. QED
    BY <2>1, <2>3
<1>5. QED
  BY <1>4

(* What holds of 0, and of n + 1 when it holds of n < m, holds up to m.    *)
LEMMA UpTo ==
  ASSUME NEW m \in Nat, NEW T, 0 \in T, \A n \in 0..(m - 1) : n \in T => n + 1 \in T
  PROVE  \A n \in 0..m : n \in T
<1> DEFINE U == {n \in 0..m : n \notin T}
<1>1. SUFFICES ASSUME U # {} PROVE FALSE
  OBVIOUS
<1>2. PICK x \in U : \A y \in U : x <= y
  <2>1. U \subseteq Nat
    OBVIOUS
  <2> HIDE DEF U
  <2>2. QED
    BY <1>1, <2>1, LeastNat
<1>3. x \in 1..m
  OBVIOUS
<1>4. x - 1 \in 0..(m - 1) /\ x - 1 \in T /\ (x - 1) + 1 = x
  BY <1>2, <1>3
<1>5. QED
  BY <1>4

(* The running totals of a loop are defined for every number of rounds.    *)
LEMMA RunningIs ==
  ASSUME NEW n \in Nat, NEW a \in Nat, NEW h \in [1..n -> Nat]
  PROVE  /\ Running(a, h, n) \in [0..n -> Nat]
         /\ Running(a, h, n)[0] = a
         /\ \A i \in 1..n : Running(a, h, n)[i] = Running(a, h, n)[i - 1] + h[i]
<1> DEFINE Totals(m) == {g \in [0..m -> Nat] : g[0] = a /\ \A i \in 1..m : g[i] = g[i - 1] + h[i]}
           T == {m \in 0..n : Totals(m) # {}}
<1>1. 0 \in T
  <2>1. [i \in 0..0 |-> a] \in Totals(0)
    OBVIOUS
  <2>2. QED
    BY <2>1
<1>2. ASSUME NEW m \in 0..(n - 1), m \in T PROVE m + 1 \in T
  <2>1. PICK g \in [0..m -> Nat] : g[0] = a /\ \A i \in 1..m : g[i] = g[i - 1] + h[i]
    BY <1>2
  <2> DEFINE f == [i \in 0..(m + 1) |-> IF i = m + 1 THEN g[m] + h[m + 1] ELSE g[i]]
  <2>2. f \in [0..(m + 1) -> Nat] /\ f[0] = a
    BY <2>1
  <2>3. ASSUME NEW i \in 1..(m + 1) PROVE f[i] = f[i - 1] + h[i]
    BY <2>1
  <2>4. f \in Totals(m + 1)
    BY <2>2, <2>3
  <2>5. m + 1 \in 0..n
    OBVIOUS
  <2> HIDE DEF Totals, f
  <2>6. Totals(m + 1) # {}
    BY <2>4
  <2>7. QED
    BY <2>5, <2>6
<1>3. n \in T
  <2>1. \A m \in 0..(n - 1) : m \in T => m + 1 \in T
    BY <1>2
  <2> HIDE DEF T
  <2>2. \A m \in 0..n : m \in T
    BY <1>1, <2>1, UpTo
  <2>3. QED
    BY <2>2
<1>4. PICK g \in [0..n -> Nat] : g[0] = a /\ \A i \in 1..n : g[i] = g[i - 1] + h[i]
  BY <1>3
<1> DEFINE S == CHOOSE S : S = [i \in 0..n |-> IF i = 0 THEN a ELSE S[i - 1] + h[i]]
<1>5. g = [i \in 0..n |-> IF i = 0 THEN a ELSE g[i - 1] + h[i]]
  BY <1>4
<1>6. S = [i \in 0..n |-> IF i = 0 THEN a ELSE S[i - 1] + h[i]]
  BY <1>5
<1>7. Running(a, h, n) = S
  BY DEF Running
<1> HIDE DEF S
<1> DEFINE V == {m \in 0..n : S[m] = g[m]}
<1>8. 0 \in V
  BY <1>4, <1>6
<1>9. ASSUME NEW m \in 0..(n - 1), m \in V PROVE m + 1 \in V
  <2>1. S[m + 1] = S[m] + h[m + 1] /\ g[m + 1] = g[m] + h[m + 1]
    BY <1>4, <1>6
  <2>2. QED
    BY <1>9, <2>1
<1>10. \A m \in 0..n : m \in V
  <2> HIDE DEF V
  <2>1. QED
    BY <1>8, <1>9, UpTo
<1>11. S = g
  BY <1>6, <1>10, <1>4
<1>12. QED
  BY <1>4, <1>7, <1>11

\* The totals in one word.
IsTotals(S, a, h, n) ==
  S \in [0..n -> Nat] /\ S[0] = a /\ \A i \in 1..n : S[i] = S[i - 1] + h[i]

(* A total after every round.                                              *)
LEMMA RunningTotals ==
  ASSUME NEW n \in Nat, NEW a \in Nat, NEW h \in [1..n -> Nat]
  PROVE  IsTotals(Running(a, h, n), a, h, n)
  BY RunningIs DEF IsTotals

(* Totals grow from round to round.                                        *)
LEMMA RunningGrows ==
  ASSUME NEW n \in Nat, NEW a \in Nat, NEW h \in [1..n -> Nat], NEW j \in 0..n, NEW i \in 0..j
  PROVE  Running(a, h, n)[i] <= Running(a, h, n)[j]
<1> DEFINE S == Running(a, h, n)
           T == {m \in 0..(j - i) : S[i] <= S[i + m]}
<1>1. S \in [0..n -> Nat] /\ \A k \in 1..n : S[k] = S[k - 1] + h[k]
  BY RunningIs
<1> HIDE DEF S
<1>2. 0 \in T
  BY <1>1
<1>3. ASSUME NEW m \in 0..((j - i) - 1), m \in T PROVE m + 1 \in T
  <2>1. /\ i + (m + 1) \in 1..n /\ i + m \in 0..n /\ (i + (m + 1)) - 1 = i + m
        /\ m + 1 \in 0..(j - i) /\ i \in 0..n
    OBVIOUS
  <2>2. S[i + (m + 1)] = S[i + m] + h[i + (m + 1)]
    BY <1>1, <2>1
  <2>3. S[i] \in Nat /\ S[i + m] \in Nat /\ h[i + (m + 1)] \in Nat /\ S[i] <= S[i + m]
    BY <1>1, <1>3, <2>1
  <2>4. S[i] <= S[i + (m + 1)]
    BY <2>2, <2>3
  <2>5. QED
    BY <2>1, <2>4
<1>4. j - i \in Nat /\ i + (j - i) = j /\ j - i \in 0..(j - i)
  OBVIOUS
<1>5. j - i \in T
  <2>1. \A m \in 0..((j - i) - 1) : m \in T => m + 1 \in T
    BY <1>3
  <2> HIDE DEF T
  <2>2. \A m \in 0..(j - i) : m \in T
    BY <1>2, <1>4, <2>1, UpTo
  <2>3. QED
    BY <1>4, <2>2
<1>6. S[i] <= S[j]
  BY <1>4, <1>5
<1>7. QED
  BY <1>6 DEF S

(* Terms that are together bounded term by term are bounded in total: the   *)
(* terms w, x times the terms k, and y in every round.                      *)
LEMMA RunningBound ==
  ASSUME NEW n \in Nat, NEW a \in Nat, NEW h \in [1..n -> Nat],
         NEW b \in Nat, NEW w \in [1..n -> Nat], NEW k \in [1..n -> Nat],
         NEW x \in Nat, NEW y \in Nat
  PROVE  a <= b /\ (\A i \in 1..n : h[i] <= w[i] + x * k[i] + y) =>
            \A i \in 0..n :
               Running(a, h, n)[i] <= Running(b, w, n)[i] + x * Running(0, k, n)[i] + i * y
<1> DEFINE U == Running(a, h, n)
           W == Running(b, w, n)
           K == Running(0, k, n)
<1>1. U \in [0..n -> Nat] /\ U[0] = a /\ \A i \in 1..n : U[i] = U[i - 1] + h[i]
  <2>1. IsTotals(U, a, h, n)
    BY RunningTotals
  <2> HIDE DEF U, W, K
  <2>2. QED
    BY <2>1 DEF IsTotals
<1>2. W \in [0..n -> Nat] /\ W[0] = b /\ \A i \in 1..n : W[i] = W[i - 1] + w[i]
  <2>1. IsTotals(W, b, w, n)
    BY RunningTotals
  <2> HIDE DEF U, W, K
  <2>2. QED
    BY <2>1 DEF IsTotals
<1>3. K \in [0..n -> Nat] /\ K[0] = 0 /\ \A i \in 1..n : K[i] = K[i - 1] + k[i]
  <2>1. 0 \in Nat
    OBVIOUS
  <2>2. IsTotals(K, 0, k, n)
    BY <2>1, RunningTotals
  <2> HIDE DEF U, W, K
  <2>3. QED
    BY <2>2 DEF IsTotals
<1> SUFFICES ASSUME a <= b, \A i \in 1..n : h[i] <= w[i] + x * k[i] + y
             PROVE  \A i \in 0..n : U[i] <= W[i] + x * K[i] + i * y
  OBVIOUS
<1> HIDE DEF U, W, K
<1> DEFINE T == {m \in 0..n : U[m] <= W[m] + x * K[m] + m * y}
<1>4. 0 \in T
  <2>1. x * 0 = 0 /\ 0 * y = 0
    OBVIOUS
  <2>2. QED
    BY <1>1, <1>2, <1>3, <2>1
<1>5. ASSUME NEW m \in 0..(n - 1), m \in T PROVE m + 1 \in T
  <2>1. m + 1 \in 1..n /\ m \in 0..n /\ (m + 1) - 1 = m /\ m + 1 \in 0..n /\ m \in Nat
    OBVIOUS
  <2>2. U[m + 1] = U[m] + h[m + 1] /\ W[m + 1] = W[m] + w[m + 1] /\ K[m + 1] = K[m] + k[m + 1]
    BY <1>1, <1>2, <1>3, <2>1
  <2>3. /\ U[m] \in Nat /\ W[m] \in Nat /\ K[m] \in Nat
        /\ h[m + 1] \in Nat /\ w[m + 1] \in Nat /\ k[m + 1] \in Nat
    BY <1>1, <1>2, <1>3, <2>1
  <2>4. h[m + 1] <= w[m + 1] + x * k[m + 1] + y
    BY <2>1
  <2>5. U[m] <= W[m] + x * K[m] + m * y
    BY <1>5
  <2>6. x * (K[m] + k[m + 1]) = x * K[m] + x * k[m + 1] /\ (m + 1) * y = m * y + y
    BY <2>1, <2>3
  <2>7. x * K[m] \in Nat /\ x * k[m + 1] \in Nat /\ m * y \in Nat
    BY <2>1, <2>3, TimesNat
  <2> DEFINE xK == x * K[m]
             xk == x * k[m + 1]
             my == m * y
  <2>8. U[m + 1] <= W[m + 1] + x * K[m + 1] + (m + 1) * y
    <3>1. U[m] <= W[m] + xK + my /\ h[m + 1] <= w[m + 1] + xk + y
      BY <2>4, <2>5
    <3>2. x * K[m + 1] = xK + xk /\ (m + 1) * y = my + y
      BY <2>2, <2>6
    <3>3. xK \in Nat /\ xk \in Nat /\ my \in Nat
      BY <2>7
    <3> HIDE DEF xK, xk, my
    <3>4. U[m] + h[m + 1] <= (W[m] + w[m + 1]) + (xK + xk) + (my + y)
      BY <3>1, <3>3, <2>3, AddBounds
    <3>5. QED
      BY <2>2, <3>2, <3>4
  <2>9. QED
    BY <2>1, <2>8
<1>6. \A m \in 0..n : m \in T
  <2>1. \A m \in 0..(n - 1) : m \in T => m + 1 \in T
    BY <1>5
  <2> HIDE DEF T
  <2>2. QED
    BY <1>4, <2>1, UpTo
<1>7. QED
  BY <1>6

(* Totals of terms that are no smaller.                                    *)
LEMMA RunningMono ==
  ASSUME NEW n \in Nat, NEW a \in Nat, NEW h \in [1..n -> Nat], NEW w \in [1..n -> Nat],
         \A i \in 1..n : h[i] <= w[i]
  PROVE  \A i \in 0..n : Running(a, h, n)[i] <= Running(a, w, n)[i]
<1> DEFINE U == Running(a, h, n)
           W == Running(a, w, n)
           T == {m \in 0..n : U[m] <= W[m]}
<1>1. U \in [0..n -> Nat] /\ U[0] = a /\ \A i \in 1..n : U[i] = U[i - 1] + h[i]
  BY RunningIs
<1>2. W \in [0..n -> Nat] /\ W[0] = a /\ \A i \in 1..n : W[i] = W[i - 1] + w[i]
  BY RunningIs
<1> HIDE DEF U, W
<1>3. 0 \in T
  BY <1>1, <1>2
<1>4. ASSUME NEW m \in 0..(n - 1), m \in T PROVE m + 1 \in T
  <2>1. m + 1 \in 1..n /\ m \in 0..n /\ (m + 1) - 1 = m /\ m + 1 \in 0..n
    OBVIOUS
  <2>2. U[m + 1] = U[m] + h[m + 1] /\ W[m + 1] = W[m] + w[m + 1]
    BY <1>1, <1>2, <2>1
  <2>3. /\ U[m] \in Nat /\ W[m] \in Nat /\ h[m + 1] \in Nat /\ w[m + 1] \in Nat
        /\ U[m] <= W[m] /\ h[m + 1] <= w[m + 1]
    BY <1>1, <1>2, <1>4, <2>1
  <2>4. U[m + 1] <= W[m + 1]
    BY <2>2, <2>3
  <2>5. QED
    BY <2>1, <2>4
<1>5. \A m \in 0..n : m \in T
  <2>1. \A m \in 0..(n - 1) : m \in T => m + 1 \in T
    BY <1>4
  <2> HIDE DEF T
  <2>2. QED
    BY <1>3, <2>1, UpTo
<1>6. \A m \in 0..n : U[m] <= W[m]
  BY <1>5
<1>7. QED
  BY <1>6 DEF U, W

(* The greatest of some numbers up to n.                                   *)
LEMMA MaxIs ==
  ASSUME NEW n \in Nat, NEW T, T \subseteq 0..n, T # {}
  PROVE  Max(T) \in T /\ \A x \in T : x <= Max(T)
<1> DEFINE U == {n - x : x \in T}
<1>1. U \subseteq Nat /\ U # {}
  <2>1. U \subseteq Nat
    OBVIOUS
  <2>2. PICK x \in T : TRUE
    OBVIOUS
  <2>3. n - x \in U
    OBVIOUS
  <2> HIDE DEF U
  <2>4. QED
    BY <2>1, <2>3
<1>2. PICK u \in U : \A v \in U : u <= v
  <2> HIDE DEF U
  <2>1. QED
    BY <1>1, LeastNat
<1>3. PICK m \in T : u = n - m
  OBVIOUS
<1>4. \A x \in T : x <= m
  <2>1. ASSUME NEW x \in T PROVE x <= m
    <3>1. n - x \in U
      OBVIOUS
    <3>2. u <= n - x
      BY <1>2, <3>1
    <3>3. x \in 0..n /\ m \in 0..n
      OBVIOUS
    <3>4. QED
      BY <1>3, <3>2, <3>3
  <2>2. QED
    BY <2>1
<1> HIDE DEF U
<1>5. \A x \in T : m >= x
  BY <1>4
<1>6. \E x \in T : \A y \in T : x >= y
  BY <1>5
<1>7. Max(T) \in T /\ \A y \in T : Max(T) >= y
  BY <1>6 DEF Max
<1>8. QED
  BY <1>7

(* The greater and the lesser of two numbers.                              *)
LEMMA OfTwo ==
  ASSUME NEW p \in Int, NEW q \in Int
  PROVE  /\ Max({p, q}) = IF p >= q THEN p ELSE q
         /\ Min({p, q}) = IF p <= q THEN p ELSE q
<1>1. \E x \in {p, q} : \A y \in {p, q} : x >= y
  OBVIOUS
<1>2. Max({p, q}) \in {p, q} /\ \A y \in {p, q} : Max({p, q}) >= y
  BY <1>1 DEF Max
<1>3. \E x \in {p, q} : \A y \in {p, q} : x <= y
  OBVIOUS
<1>4. Min({p, q}) \in {p, q} /\ \A y \in {p, q} : Min({p, q}) <= y
  BY <1>3 DEF Min
<1>5. QED
  BY <1>2, <1>4

-----------------------------------------------------------------------------
(* The estimates.                                                          *)

(* The fields of a configuration.                                          *)
LEMMA ConfigIs ==
  ASSUME ConfigOK(config)
  PROVE  /\ L \in Nat /\ ModelCtx \in Nat \ {0}
         /\ config.embd \in Nat /\ config.out \in Nat /\ config.total \in Nat
         /\ config.kv \in Nat /\ config.latent \in Nat /\ config.arena \in Nat
         /\ config.n_parallel \in Nat \ {0}
         /\ config.ctx_size \in Nat /\ config.n_ubatch \in Nat /\ config.ngl \in Int
         /\ config.gpu \in BOOLEAN /\ config.tied \in BOOLEAN
         /\ \A l \in 1..L : /\ config.layers[l].w \in Nat
                            /\ config.layers[l].attn \in BOOLEAN
                            /\ config.layers[l].kv \in BOOLEAN
                            /\ config.layers[l].attn => config.layers[l].kv
<1>1. /\ config.layers \in Seq([w : Nat, attn : BOOLEAN, kv : BOOLEAN])
      /\ config.embd \in Nat /\ config.out \in Nat /\ config.total \in Nat
      /\ config.kv \in Nat /\ config.latent \in Nat /\ config.arena \in Nat
      /\ config.n_parallel \in Nat \ {0}
      /\ config.ctx_size \in Nat /\ config.n_ubatch \in Nat /\ config.ngl \in Int
      /\ config.gpu \in BOOLEAN /\ config.tied \in BOOLEAN /\ config.model_ctx \in Nat
  BY DEF ConfigOK
<1>2. L \in Nat /\ \A l \in 1..L : config.layers[l] \in [w : Nat, attn : BOOLEAN, kv : BOOLEAN]
  BY <1>1, LenProperties, ElementOfSeq DEF L
<1>3. ModelCtx \in Nat \ {0}
  BY <1>1, AutoFitAssumption DEF ModelCtx
<1>4. \A l \in 1..L : config.layers[l].attn => config.layers[l].kv
  BY DEF ConfigOK, L
<1>5. ASSUME NEW l \in 1..L
      PROVE  /\ config.layers[l].w \in Nat
             /\ config.layers[l].attn \in BOOLEAN
             /\ config.layers[l].kv \in BOOLEAN
  BY <1>2
<1>6. QED
  BY <1>1, <1>2, <1>3, <1>4, <1>5

(* gpu_memory_budget of more memory is not less.                           *)
LEMMA BudgetMono ==
  ASSUME NEW f \in Nat, NEW g \in Nat, f <= g
  PROVE  /\ GpuMemoryBudget(f) \in Nat /\ GpuMemoryBudget(g) \in Nat
         /\ GpuMemoryBudget(f) <= GpuMemoryBudget(g)
  BY AutoFitAssumption DEF GpuMemoryBudget

Rows(c, n_ubatch) == IF n_ubatch > 0 THEN n_ubatch ELSE c
ArenaShare(c, n_ubatch) == (Rows(c, n_ubatch) * config.arena * config.n_parallel) \div L

(* The share of a layer of its own weights, of the caches and of the arena. *)
LEMMA ShareIs ==
  ASSUME ConfigOK(config), NEW c \in Nat, NEW u \in Nat, NEW l \in 1..L
  PROVE  /\ c * config.kv * config.n_parallel \in Nat
         /\ ArenaShare(c, u) \in Nat
         /\ LayerShare(l, c, u) \in Nat
         /\ LayerShare(l, c, u)
              = config.layers[l].w
                + (IF config.layers[l].attn THEN c * config.kv * config.n_parallel ELSE 0)
                + ArenaShare(c, u)
<1>1. /\ L \in Nat \ {0} /\ config.kv \in Nat /\ config.n_parallel \in Nat /\ config.arena \in Nat
      /\ config.layers[l].w \in Nat /\ config.layers[l].attn \in BOOLEAN
  BY ConfigIs
<1>2. c * config.kv \in Nat /\ c * config.kv * config.n_parallel \in Nat
  BY <1>1, TimesNat
<1>3. Rows(c, u) \in Nat
  BY DEF Rows
<1>4. Rows(c, u) * config.arena \in Nat /\ Rows(c, u) * config.arena * config.n_parallel \in Nat
  BY <1>1, <1>3, TimesNat
<1>5. ArenaShare(c, u) \in Nat
  BY <1>1, <1>4, DivIs DEF ArenaShare
<1>6. LayerShare(l, c, u)
        = config.layers[l].w
          + (IF config.layers[l].attn THEN c * config.kv * config.n_parallel ELSE 0)
          + ArenaShare(c, u)
  BY DEF LayerShare, ArenaShare, Rows
<1>7. LayerShare(l, c, u) \in Nat
  BY <1>1, <1>2, <1>5, <1>6
<1>8. QED
  BY <1>2, <1>5, <1>6, <1>7

(* More rows do not make the arena's share smaller, although it is rounded. *)
LEMMA ArenaShareMono ==
  ASSUME ConfigOK(config), L > 0, NEW c \in Nat, NEW u \in Nat, NEW d \in Nat, NEW v \in Nat,
         Rows(c, u) <= Rows(d, v)
  PROVE  ArenaShare(c, u) <= ArenaShare(d, v)
<1>1. L \in Nat \ {0} /\ config.n_parallel \in Nat /\ config.arena \in Nat
  BY ConfigIs
<1>2. Rows(c, u) \in Nat /\ Rows(d, v) \in Nat
  BY DEF Rows
<1>3. /\ Rows(c, u) * config.arena \in Nat /\ Rows(d, v) * config.arena \in Nat
      /\ Rows(c, u) * config.arena * config.n_parallel \in Nat
      /\ Rows(d, v) * config.arena * config.n_parallel \in Nat
  BY <1>1, <1>2, TimesNat
<1>4. Rows(c, u) * config.arena <= Rows(d, v) * config.arena
  BY <1>1, <1>2, TimesMono
<1>5. Rows(c, u) * config.arena * config.n_parallel <= Rows(d, v) * config.arena * config.n_parallel
  BY <1>1, <1>3, <1>4, TimesMono
<1>6. QED
  BY <1>1, <1>3, <1>5, DivMono DEF ArenaShare

(* More tokens and more rows do not make the share of a layer smaller.     *)
LEMMA ShareMono ==
  ASSUME ConfigOK(config), NEW c \in Nat, NEW u \in Nat, NEW d \in Nat, NEW v \in Nat,
         c <= d, Rows(c, u) <= Rows(d, v), NEW l \in 1..L
  PROVE  LayerShare(l, c, u) <= LayerShare(l, d, v)
<1>1. /\ L \in Nat /\ config.kv \in Nat /\ config.n_parallel \in Nat
      /\ config.layers[l].w \in Nat /\ config.layers[l].attn \in BOOLEAN
  BY ConfigIs
<1>2. c * config.kv * config.n_parallel <= d * config.kv * config.n_parallel
  <2>1. c * config.kv \in Nat /\ d * config.kv \in Nat
    BY <1>1, TimesNat
  <2>2. c * config.kv <= d * config.kv
    BY <1>1, TimesMono
  <2>3. QED
    BY <1>1, <2>1, <2>2, TimesMono
<1>3. ArenaShare(c, u) <= ArenaShare(d, v)
  BY <1>1, ArenaShareMono
<1> DEFINE x == c * config.kv * config.n_parallel
           y == d * config.kv * config.n_parallel
<1>4. x \in Nat /\ ArenaShare(c, u) \in Nat
      /\ LayerShare(l, c, u)
           = config.layers[l].w + (IF config.layers[l].attn THEN x ELSE 0) + ArenaShare(c, u)
  BY ShareIs
<1>5. y \in Nat /\ ArenaShare(d, v) \in Nat
      /\ LayerShare(l, d, v)
           = config.layers[l].w + (IF config.layers[l].attn THEN y ELSE 0) + ArenaShare(d, v)
  BY ShareIs
<1>6. x <= y
  BY <1>2
<1> HIDE DEF x, y
<1>7. QED
  BY <1>1, <1>3, <1>4, <1>5, <1>6

(* The memory in use after each layer: what it is, that it grows from layer *)
(* to layer, and with the context and the rows.                            *)
LEMMA UsedIs ==
  ASSUME ConfigOK(config), NEW c \in Nat, NEW u \in Nat
  PROVE  /\ Used(c, u) \in [0..L -> Nat]
         /\ \A n \in 0..L : \A i \in 0..n : Used(c, u)[i] <= Used(c, u)[n]
<1> DEFINE h == [l \in 1..L |-> LayerShare(l, c, u)]
<1>1. L \in Nat /\ config.embd \in Nat
  BY ConfigIs
<1>2. h \in [1..L -> Nat]
  BY ShareIs
<1>3. Used(c, u) = Running(config.embd, h, L)
  BY DEF Used
<1> HIDE DEF h
<1>4. Used(c, u) \in [0..L -> Nat]
  <2>1. Running(config.embd, h, L) \in [0..L -> Nat]
    BY <1>1, <1>2, RunningIs
  <2>2. QED
    BY <1>3, <2>1
<1>5. ASSUME NEW n \in 0..L, NEW i \in 0..n PROVE Used(c, u)[i] <= Used(c, u)[n]
  <2>1. Running(config.embd, h, L)[i] <= Running(config.embd, h, L)[n]
    BY <1>1, <1>2, RunningGrows
  <2>2. QED
    BY <1>3, <2>1
<1>6. QED
  BY <1>4, <1>5

(* More tokens and more rows do not make the memory in use smaller.        *)
LEMMA UsedMono ==
  ASSUME ConfigOK(config), NEW c \in Nat, NEW u \in Nat, NEW d \in Nat, NEW v \in Nat,
         c <= d, Rows(c, u) <= Rows(d, v)
  PROVE  \A i \in 0..L : Used(c, u)[i] <= Used(d, v)[i]
<1> DEFINE h == [l \in 1..L |-> LayerShare(l, c, u)]
           w == [l \in 1..L |-> LayerShare(l, d, v)]
<1>1. L \in Nat /\ config.embd \in Nat
  BY ConfigIs
<1>2. h \in [1..L -> Nat] /\ w \in [1..L -> Nat]
  BY ShareIs
<1>3. \A i \in 1..L : h[i] <= w[i]
  BY ShareMono
<1>4. Used(c, u) = Running(config.embd, h, L) /\ Used(d, v) = Running(config.embd, w, L)
  BY DEF Used
<1> HIDE DEF h, w
<1>5. QED
  BY <1>1, <1>2, <1>3, <1>4, RunningMono

(* gpu_layers_fit_at: all layers fit exactly when the last total and the    *)
(* output tensor are within the budget, and fewer than all when their total *)
(* is.                                                                     *)
LEMMA LayersFitIs ==
  ASSUME ConfigOK(config), NEW c \in Nat, NEW u \in Nat, NEW f \in Nat
  PROVE  /\ LayersFitAt(c, u, f) \in 0..L
         /\ f > 0 /\ L > 0 =>
              /\ LayersFitAt(c, u, f) >= L
                   <=> Used(c, u)[L] + config.out <= GpuMemoryBudget(f)
              /\ \A n \in 0..(L - 1) :
                   Used(c, u)[n] <= GpuMemoryBudget(f) => LayersFitAt(c, u, f) >= n
<1> DEFINE used == Used(c, u)
           budget == GpuMemoryBudget(f)
           T == {n \in 0..L : \A k \in 1..n : used[k] <= budget}
<1>1. L \in Nat /\ config.out \in Nat
  BY ConfigIs
<1>2. used \in [0..L -> Nat] /\ \A n \in 0..L : \A i \in 0..n : used[i] <= used[n]
  BY UsedIs
<1>3. budget \in Nat
  BY BudgetMono
<1>4. LayersFitAt(c, u, f)
        = IF f = 0 \/ L = 0 THEN 0
          ELSE IF Max(T) = L /\ used[L] + config.out > budget THEN L - 1
          ELSE Max(T)
  BY DEF LayersFitAt
<1> HIDE DEF used, budget
<1>5. T \subseteq 0..L /\ 0 \in T
  BY <1>1
<1>6. Max(T) \in T /\ \A n \in T : n <= Max(T)
  <2> HIDE DEF T
  <2>1. QED
    BY <1>1, <1>5, MaxIs
<1>7. ASSUME NEW n \in 0..L, used[n] <= budget PROVE n \in T
  <2>1. ASSUME NEW k \in 1..n PROVE used[k] <= budget
    <3>1. k \in 0..n /\ k \in 0..L
      BY <1>1
    <3>2. used[k] <= used[n] /\ used[k] \in Nat /\ used[n] \in Nat
      BY <1>2, <3>1
    <3>3. QED
      BY <1>3, <1>7, <3>2
  <2>2. QED
    BY <2>1
<1>8. ASSUME L \in T, L > 0 PROVE used[L] <= budget
  <2>1. L \in 1..L
    BY <1>1, <1>8
  <2>2. QED
    BY <1>8, <2>1
<1> DEFINE M == Max(T)
<1>9. M \in 0..L /\ M \in T /\ \A n \in T : n <= M
  BY <1>5, <1>6
<1>10. LayersFitAt(c, u, f)
        = IF f = 0 \/ L = 0 THEN 0
          ELSE IF M = L /\ used[L] + config.out > budget THEN L - 1
          ELSE M
  BY <1>4
<1> HIDE DEF T, M
<1>11. LayersFitAt(c, u, f) \in 0..L
  BY <1>1, <1>9, <1>10
<1>12. ASSUME f > 0, L > 0
       PROVE  LayersFitAt(c, u, f) >= L <=> used[L] + config.out <= budget
  <2>1. used[L] \in Nat
    BY <1>1, <1>2
  <2>2. CASE M = L
    BY <1>1, <1>3, <1>10, <1>12, <2>1, <2>2
  <2>3. CASE M # L
    <3>1. L \notin T
      BY <1>1, <1>9, <2>3
    <3>2. ~(used[L] <= budget)
      BY <1>1, <1>7, <3>1
    <3>3. QED
      BY <1>1, <1>3, <1>9, <1>10, <1>12, <2>1, <2>3, <3>2
  <2>4. QED
    BY <2>2, <2>3
<1>13. ASSUME f > 0, L > 0, NEW n \in 0..(L - 1), used[n] <= budget
       PROVE  LayersFitAt(c, u, f) >= n
  <2>1. n \in T
    BY <1>1, <1>7, <1>13
  <2>2. n <= M
    BY <1>9, <2>1
  <2>3. QED
    BY <1>1, <1>9, <1>10, <1>13, <2>2
<1>14. QED
  BY <1>11, <1>12, <1>13 DEF used, budget

(* What makes the search right: when all layers fit, they fit a smaller     *)
(* context, fewer rows and more memory.                                    *)
LEMMA FitMono ==
  ASSUME ConfigOK(config), L > 0, NEW c \in Nat, NEW u \in Nat, NEW d \in Nat, NEW v \in Nat,
         c <= d, Rows(c, u) <= Rows(d, v),
         NEW f \in Nat, NEW g \in Nat, 0 < f, f <= g,
         LayersFitAt(d, v, f) >= L
  PROVE  LayersFitAt(c, u, g) = L
<1>1. L \in Nat /\ config.out \in Nat /\ g > 0
  BY ConfigIs
<1>2. Used(d, v)[L] + config.out <= GpuMemoryBudget(f)
  BY LayersFitIs
<1>3. Used(c, u)[L] \in Nat /\ Used(d, v)[L] \in Nat
  <2>1. Used(c, u) \in [0..L -> Nat]
    BY UsedIs
  <2>2. Used(d, v) \in [0..L -> Nat]
    BY UsedIs
  <2>3. L \in 0..L
    BY <1>1
  <2>4. QED
    BY <2>1, <2>2, <2>3
<1>4. Used(c, u)[L] <= Used(d, v)[L]
  BY <1>1, UsedMono
<1>5. /\ GpuMemoryBudget(f) \in Nat /\ GpuMemoryBudget(g) \in Nat
      /\ GpuMemoryBudget(f) <= GpuMemoryBudget(g)
  BY BudgetMono
<1>6. Used(c, u)[L] + config.out <= GpuMemoryBudget(g)
  BY <1>1, <1>2, <1>3, <1>4, <1>5
<1>7. LayersFitAt(c, u, g) >= L /\ LayersFitAt(c, u, g) \in 0..L
  BY <1>1, <1>6, LayersFitIs
<1>8. QED
  BY <1>1, <1>7

-----------------------------------------------------------------------------
(* The context for a given depth.                                          *)

(* Rounding never gives more.                                              *)
LEMMA RoundDownIs ==
  ASSUME NEW c \in Nat
  PROVE  RoundDown(c) \in Nat /\ RoundDown(c) <= c
<1>1. Granule \in Nat \ {0}
  BY AutoFitAssumption
<1>2. c \div Granule \in Nat /\ Granule * (c \div Granule) <= c
  BY <1>1, DivIs
<1>3. (c \div Granule) * Granule = Granule * (c \div Granule) /\ (c \div Granule) * Granule \in Nat
  BY <1>1, <1>2, TimesNat
<1> DEFINE r == (c \div Granule) * Granule
<1>4. r \in Nat /\ r <= c
  BY <1>2, <1>3
<1>5. RoundDown(c) = IF c > Granule THEN r ELSE c
  BY DEF RoundDown
<1> HIDE DEF r
<1>6. QED
  BY <1>4, <1>5

(* The totals of the weights and of the layers with a cache, and the terms  *)
(* computed from them.                                                     *)
LEMMA DepthTerms ==
  ASSUME ConfigOK(config), config.ngl >= 0
  PROVE  /\ Weights(config) \in [1..L -> Nat]
         /\ [l \in 1..L |-> IF config.layers[l].kv THEN 1 ELSE 0] \in [1..L -> Nat]
         /\ Limit \in 0..L /\ Limit = Min({config.ngl, L})
         /\ Running(config.embd, Weights(config), L) \in [0..L -> Nat]
         /\ KvLayers \in [0..L -> Nat] /\ KvLayers[0] = 0
         /\ KvPerToken \in Nat /\ GpuWeights \in Nat
         /\ Low \in 1..ModelCtx /\ Fixed \in Nat
<1>1. /\ L \in Nat /\ ModelCtx \in Nat \ {0}
      /\ config.embd \in Nat /\ config.total \in Nat /\ config.kv \in Nat /\ config.latent \in Nat /\ config.arena \in Nat
      /\ config.n_parallel \in Nat \ {0} /\ config.n_ubatch \in Nat /\ config.ngl \in Int
      /\ \A l \in 1..L : config.layers[l].w \in Nat
  BY ConfigIs
<1>2. Weights(config) \in [1..L -> Nat]
  BY <1>1 DEF Weights, L
<1>3. [l \in 1..L |-> IF config.layers[l].kv THEN 1 ELSE 0] \in [1..L -> Nat]
  OBVIOUS
<1>4. Limit \in 0..L /\ Limit = Min({config.ngl, L})
  <2>1. L \in Int /\ config.ngl \in Int
    BY <1>1
  <2>2. Min({config.ngl, L}) = IF config.ngl <= L THEN config.ngl ELSE L
    BY <2>1, OfTwo
  <2>3. QED
    BY <1>1, <2>2 DEF Limit
<1>5. Running(config.embd, Weights(config), L) \in [0..L -> Nat]
  BY <1>1, <1>2, RunningIs
<1>6. KvLayers \in [0..L -> Nat] /\ KvLayers[0] = 0
  <2>1. 0 \in Nat
    OBVIOUS
  <2>2. QED
    BY <1>1, <1>3, <2>1, RunningIs DEF KvLayers
<1>7. KvPerToken \in Nat
  <2>1. KvLayers[Limit] \in Nat
    BY <1>4, <1>6
  <2>2. config.kv * KvLayers[Limit] \in Nat
    BY <1>1, <2>1, TimesNat
  <2>3. Limit \in Nat
    BY <1>1, <1>4
  <2>4. config.latent * Limit \in Nat
    BY <1>1, <2>3, TimesNat
  <2>5. QED
    BY <2>2, <2>4 DEF KvPerToken
<1>8. GpuWeights \in Nat
  <2>1. Running(config.embd, Weights(config), L)[Limit] \in Nat
    BY <1>4, <1>5
  <2>2. QED
    BY <1>1, <2>1 DEF GpuWeights
<1>9. Low \in 1..ModelCtx
  <2>1. DefaultLow \in Nat \ {0}
    BY AutoFitAssumption
  <2> DEFINE a == IF config.n_ubatch > 0 THEN config.n_ubatch ELSE DefaultLow
  <2>2. a \in Nat \ {0} /\ Low = Min({a, ModelCtx})
    BY <1>1, <2>1 DEF Low
  <2> HIDE DEF a
  <2>3. Low = IF a <= ModelCtx THEN a ELSE ModelCtx
    BY <1>1, <2>2, OfTwo
  <2>4. QED
    BY <1>1, <2>2, <2>3
<1>10. Fixed \in Nat
  <2> DEFINE r == IF config.n_ubatch > 0 THEN config.n_ubatch ELSE ModelCtx
  <2>1. r \in Nat /\ Fixed = GpuWeights + r * config.arena * config.n_parallel
    BY <1>1 DEF Fixed
  <2> HIDE DEF r
  <2>2. r * config.arena \in Nat /\ r * config.arena * config.n_parallel \in Nat
    BY <1>1, <2>1, TimesNat
  <2>3. QED
    BY <1>8, <2>1, <2>2
<1>11. QED
  BY <1>2, <1>3, <1>4, <1>5, <1>6, <1>7, <1>8, <1>9, <1>10

(* The context that engine_auto_ctx_size chooses for a given depth: unless  *)
(* it is the least one, the caches and the fixed memory are within the      *)
(* budget.                                                                 *)
LEMMA GivenDepthIs ==
  ASSUME ConfigOK(config), config.ngl > 0, KvPerToken > 0, NEW f \in Nat
  PROVE  /\ ForGivenDepth(f) \in 1..ModelCtx
         /\ ForGivenDepth(f) > Low =>
              Fixed + (KvPerToken * config.n_parallel) * ForGivenDepth(f) <= GpuMemoryBudget(f)
<1> DEFINE budget == GpuMemoryBudget(f)
           q == KvPerToken * config.n_parallel
           fit == IF budget > Fixed THEN (budget - Fixed) \div q ELSE 0
           c == ForGivenDepth(f)
<1>1. config.ngl \in Int /\ config.n_parallel \in Nat \ {0} /\ ModelCtx \in Nat \ {0}
  BY ConfigIs
<1>2. KvPerToken \in Nat \ {0} /\ Fixed \in Nat /\ Low \in 1..ModelCtx
  BY <1>1, DepthTerms
<1>3. q \in Nat \ {0}
  BY <1>1, <1>2
<1>4. budget \in Nat
  BY BudgetMono
<1>5. c = IF fit >= ModelCtx THEN ModelCtx ELSE Min({Max({RoundDown(fit), Low}), ModelCtx})
  BY DEF ForGivenDepth
<1> HIDE DEF budget, q, c
<1>6. fit \in Nat /\ (fit > 0 => budget > Fixed /\ q * fit <= budget - Fixed)
  <2>1. CASE budget > Fixed
    <3>1. budget - Fixed \in Nat
      BY <1>2, <1>4, <2>1
    <3>2. (budget - Fixed) \div q \in Nat /\ q * ((budget - Fixed) \div q) <= budget - Fixed
      BY <1>3, <3>1, DivIs
    <3>3. QED
      BY <2>1, <3>2
  <2>2. CASE ~(budget > Fixed)
    BY <2>2
  <2>3. QED
    BY <2>1, <2>2
<1> HIDE DEF fit
<1>7. RoundDown(fit) \in Nat /\ RoundDown(fit) <= fit
  BY <1>6, RoundDownIs
<1> DEFINE m == Max({RoundDown(fit), Low})
<1>8. m = IF RoundDown(fit) >= Low THEN RoundDown(fit) ELSE Low
  BY <1>1, <1>2, <1>7, OfTwo
<1>9. c = IF fit >= ModelCtx THEN ModelCtx ELSE Min({m, ModelCtx})
  BY <1>5
<1> HIDE DEF m
<1>10. m \in Nat \ {0}
  BY <1>1, <1>2, <1>7, <1>8
<1>11. Min({m, ModelCtx}) = IF m <= ModelCtx THEN m ELSE ModelCtx
  <2>1. m \in Int /\ ModelCtx \in Int
    BY <1>1, <1>10
  <2>2. QED
    BY <2>1, OfTwo
<1>12. c \in 1..ModelCtx
  BY <1>1, <1>9, <1>10, <1>11
<1>13. c > Low => c <= fit
  BY <1>1, <1>2, <1>6, <1>7, <1>8, <1>9, <1>10, <1>11
<1>14. ASSUME c > Low PROVE Fixed + q * c <= budget
  <2>1. c \in Nat /\ c <= fit /\ fit > 0
    BY <1>1, <1>2, <1>6, <1>12, <1>13, <1>14
  <2>2. c * q <= fit * q
    BY <1>3, <1>6, <2>1, TimesMono
  <2>3. q * c = c * q /\ q * fit = fit * q /\ c * q \in Nat /\ fit * q \in Nat
    BY <1>3, <1>6, <2>1, TimesNat
  <2> DEFINE y == c * q
             z == fit * q
  <2>4. y \in Nat /\ z \in Nat /\ y <= z /\ z <= budget - Fixed /\ q * c = y
    BY <1>6, <2>1, <2>2, <2>3
  <2> HIDE DEF y, z
  <2>5. Fixed + y <= budget
    BY <1>2, <1>4, <2>4
  <2>6. QED
    BY <2>4, <2>5
<1>15. QED
  BY <1>12, <1>14 DEF c, q, budget

(* gpu_layers_fit_at counts no more than engine_auto_ctx_size did: the      *)
(* weights and the caches of the layers up to n, and the arena once, which  *)
(* the rounded shares do not exceed.                                       *)
LEMMA UsedBound ==
  ASSUME ConfigOK(config), config.ngl >= 0, L > 0,
         NEW c \in Nat, NEW u \in Nat, NEW n \in 0..L
  PROVE  /\ (c * config.kv * config.n_parallel) * KvLayers[n] \in Nat
         /\ Rows(c, u) * config.arena * config.n_parallel \in Nat
         /\ Used(c, u)[n] <= Running(config.embd, Weights(config), L)[n]
                             + (c * config.kv * config.n_parallel) * KvLayers[n]
                             + Rows(c, u) * config.arena * config.n_parallel
<1> DEFINE h == [l \in 1..L |-> LayerShare(l, c, u)]
           w == Weights(config)
           k == [l \in 1..L |-> IF config.layers[l].kv THEN 1 ELSE 0]
           x == c * config.kv * config.n_parallel
           y == ArenaShare(c, u)
           A == Rows(c, u) * config.arena * config.n_parallel
<1>1. /\ L \in Nat \ {0} /\ config.embd \in Nat /\ config.arena \in Nat /\ config.n_parallel \in Nat
      /\ config.kv \in Nat
      /\ \A l \in 1..L : /\ config.layers[l].w \in Nat /\ config.layers[l].attn \in BOOLEAN
                         /\ config.layers[l].kv \in BOOLEAN
                         /\ config.layers[l].attn => config.layers[l].kv
  BY ConfigIs
<1>2. w \in [1..L -> Nat] /\ k \in [1..L -> Nat] /\ KvLayers \in [0..L -> Nat]
      /\ Running(config.embd, w, L) \in [0..L -> Nat]
  BY DepthTerms
<1>3. x \in Nat /\ y \in Nat /\ h \in [1..L -> Nat]
  <2>1. 1 \in 1..L
    BY <1>1
  <2>2. QED
    BY <2>1, ShareIs
<1>4. A \in Nat /\ L * y <= A /\ y = A \div L
  <2>1. Rows(c, u) \in Nat
    BY DEF Rows
  <2>2. Rows(c, u) * config.arena \in Nat /\ A \in Nat
    BY <1>1, <2>1, TimesNat
  <2>3. y = A \div L
    BY DEF ArenaShare
  <2> HIDE DEF A, y
  <2>4. QED
    BY <1>1, <2>2, <2>3, DivIs
<1>5. ASSUME NEW l \in 1..L PROVE h[l] <= w[l] + x * k[l] + y
  <2>1. h[l] = config.layers[l].w + (IF config.layers[l].attn THEN x ELSE 0) + y
    BY ShareIs
  <2>2. w[l] = config.layers[l].w
    BY DEF Weights, L
  <2>3. k[l] = IF config.layers[l].kv THEN 1 ELSE 0
    OBVIOUS
  <2>4. /\ config.layers[l].w \in Nat /\ config.layers[l].attn \in BOOLEAN
        /\ config.layers[l].kv \in BOOLEAN /\ (config.layers[l].attn => config.layers[l].kv)
    BY <1>1
  <2> HIDE DEF h, w, k, x, y
  <2>5. CASE config.layers[l].kv
    <3>1. x * k[l] = x
      BY <1>3, <2>3, <2>5
    <3>2. QED
      BY <1>3, <2>1, <2>2, <2>4, <3>1
  <2>6. CASE ~config.layers[l].kv
    <3>1. x * k[l] = 0
      BY <1>3, <2>3, <2>6
    <3>2. ~config.layers[l].attn
      BY <2>4, <2>6
    <3>3. QED
      BY <1>3, <2>1, <2>2, <2>4, <3>1, <3>2
  <2>7. QED
    BY <2>5, <2>6
<1>6. Used(c, u) = Running(config.embd, h, L) /\ KvLayers = Running(0, k, L)
  BY DEF Used, KvLayers
<1> HIDE DEF h, w, k, x, y, A
<1>7. Used(c, u)[n] <= Running(config.embd, w, L)[n] + x * KvLayers[n] + n * y
  <2>1. /\ L \in Nat /\ config.embd \in Nat /\ config.embd <= config.embd
        /\ \A i \in 1..L : h[i] <= w[i] + x * k[i] + y
    BY <1>1, <1>5
  <2>2. \A i \in 0..L : Running(config.embd, h, L)[i]
           <= Running(config.embd, w, L)[i] + x * Running(0, k, L)[i] + i * y
    BY <1>2, <1>3, <2>1, RunningBound
  <2>3. QED
    BY <1>6, <2>2
<1>8. n \in Nat /\ n <= L /\ L \in Nat
  BY <1>1
<1>9. n * y <= L * y
  BY <1>3, <1>8, TimesMono
<1>10. KvLayers[n] \in Nat /\ Running(config.embd, w, L)[n] \in Nat
  BY <1>2
<1> DEFINE p == Running(config.embd, w, L)[n]
           r == x * KvLayers[n]
           s == n * y
           t == L * y
<1>11. /\ p \in Nat /\ r \in Nat /\ s \in Nat /\ t \in Nat /\ s <= t /\ t <= A
       /\ Used(c, u)[n] <= p + r + s
  BY <1>3, <1>4, <1>7, <1>8, <1>9, <1>10, TimesNat
<1>12. Used(c, u)[n] \in Nat
  <2>1. Used(c, u) \in [0..L -> Nat]
    BY UsedIs
  <2>2. QED
    BY <2>1
<1> HIDE DEF p, r, s, t
<1>13. Used(c, u)[n] <= p + r + A
  BY <1>4, <1>11, <1>12
<1>14. QED
  BY <1>4, <1>11, <1>13 DEF p, r, w, x, A

(* A context chosen for a given depth leaves room for that depth.          *)
LEMMA GivenDepthFit ==
  ASSUME ConfigOK(config), config.ngl > 0, KvPerToken > 0,
         NEW f \in Nat, NEW g \in Nat, 0 < f, f <= g,
         ForGivenDepth(f) > Low, ~(config.tied /\ config.ngl >= L), config.latent = 0,
         NEW u \in Nat \ {0}, u <= Rows(ModelCtx, config.n_ubatch)
  PROVE  Limit <= LayersFitAt(ForGivenDepth(f), u, g)
<1> DEFINE c == ForGivenDepth(f)
           x == c * config.kv * config.n_parallel
           W == Running(config.embd, Weights(config), L)
           A == Rows(c, u) * config.arena * config.n_parallel
           B == Rows(ModelCtx, config.n_ubatch) * config.arena * config.n_parallel
           n == Limit
<1>1. /\ L \in Nat /\ config.arena \in Nat /\ config.n_parallel \in Nat /\ config.kv \in Nat
      /\ config.ngl \in Int /\ ModelCtx \in Nat /\ config.n_ubatch \in Nat /\ config.out \in Nat
      /\ config.total \in Nat /\ config.tied \in BOOLEAN
      /\ config.ngl >= 0
  BY ConfigIs
<1>2. /\ n \in 0..L /\ W \in [0..L -> Nat] /\ KvLayers \in [0..L -> Nat] /\ KvLayers[0] = 0
      /\ KvPerToken \in Nat /\ GpuWeights \in Nat /\ Fixed \in Nat
  BY <1>1, DepthTerms
<1>3. L > 0
  <2>1. SUFFICES ASSUME L = 0 PROVE FALSE
    BY <1>1
  <2>2. KvLayers[n] = 0
    BY <1>2, <2>1
  <2>3. KvPerToken = 0
    BY <1>1, <2>2 DEF KvPerToken
  <2>4. QED
    BY <2>3
<1>4. c \in Nat /\ Fixed + (KvPerToken * config.n_parallel) * c <= GpuMemoryBudget(f)
  BY <1>1, GivenDepthIs
<1>5. Rows(c, u) = u /\ Rows(ModelCtx, config.n_ubatch) \in Nat
  BY <1>1 DEF Rows
<1>6. A \in Nat /\ B \in Nat /\ A <= B
  <2>1. u * config.arena \in Nat /\ u * config.arena * config.n_parallel \in Nat
    BY <1>1, TimesNat
  <2> DEFINE R == Rows(ModelCtx, config.n_ubatch)
  <2>2. R \in Nat /\ u <= R
    BY <1>5
  <2> HIDE DEF R
  <2>3. R * config.arena \in Nat /\ R * config.arena * config.n_parallel \in Nat
    BY <1>1, <2>2, TimesNat
  <2>4. u * config.arena <= R * config.arena
    BY <1>1, <2>2, TimesMono
  <2>5. u * config.arena * config.n_parallel <= R * config.arena * config.n_parallel
    BY <1>1, <2>1, <2>3, <2>4, TimesMono
  <2>6. QED
    BY <1>5, <2>1, <2>3, <2>5 DEF R
<1>7. Fixed = GpuWeights + B
  BY DEF Fixed, Rows
<1>8. (KvPerToken * config.n_parallel) * c = x * KvLayers[n]
  <2>1. KvLayers[n] \in Nat
    BY <1>2
  <2>2. QED
    BY <1>1, <1>4, <2>1 DEF KvPerToken
<1>9. x * KvLayers[n] \in Nat /\ Used(c, u)[n] <= W[n] + x * KvLayers[n] + A
  BY <1>1, <1>2, <1>3, <1>4, UsedBound
<1>10. /\ GpuMemoryBudget(f) \in Nat /\ GpuMemoryBudget(g) \in Nat
       /\ GpuMemoryBudget(f) <= GpuMemoryBudget(g)
  BY BudgetMono
<1>11. W[n] \in Nat /\ Used(c, u)[n] \in Nat
  <2>1. Used(c, u) \in [0..L -> Nat]
    BY <1>4, UsedIs
  <2>2. QED
    BY <1>2, <2>1
<1> DEFINE r == x * KvLayers[n]
           p == W[n]
           v == Used(c, u)[n]
<1>12. /\ r \in Nat /\ p \in Nat /\ v \in Nat
       /\ v <= p + r + A
       /\ (GpuWeights + B) + r <= GpuMemoryBudget(f)
  BY <1>4, <1>7, <1>8, <1>9, <1>11
<1>13. CASE config.ngl < L
  <2>1. n = config.ngl /\ GpuWeights = p /\ n \in 0..(L - 1)
    BY <1>1, <1>13 DEF Limit, GpuWeights
  <2> HIDE DEF A, B, r, p, v
  <2>2. v <= GpuMemoryBudget(g)
    BY <1>6, <1>10, <1>12, <2>1
  <2> HIDE DEF c
  <2>3. g > 0
    OBVIOUS
  <2>4. Used(c, u)[n] <= GpuMemoryBudget(g)
    BY <2>2 DEF v
  <2> HIDE DEF n
  <2>5. LayersFitAt(c, u, g) >= n
    BY <1>3, <1>4, <2>1, <2>3, <2>4, LayersFitIs
  <2>6. LayersFitAt(c, u, g) \in 0..L
    BY <1>4, LayersFitIs
  <2>7. QED
    BY <1>1, <2>1, <2>5, <2>6 DEF n, c
<1>14. CASE config.ngl >= L
  <2>1. n = L /\ GpuWeights = config.total
    BY <1>1, <1>14 DEF Limit, GpuWeights
  <2>2. p + config.out <= config.total
    <3>1. ~config.tied
      BY <1>14
    <3>2. W[L] + config.out <= config.total
      BY <3>1 DEF ConfigOK, L
    <3>3. QED
      BY <2>1, <3>2
  <2> HIDE DEF A, B, r, p, v
  <2>3. v + config.out <= GpuMemoryBudget(g)
    BY <1>1, <1>6, <1>10, <1>12, <2>1, <2>2
  <2>4. Used(c, u)[L] + config.out <= GpuMemoryBudget(g)
    BY <2>1, <2>3 DEF v
  <2> HIDE DEF c
  <2>5. g > 0
    OBVIOUS
  <2>6. LayersFitAt(c, u, g) >= L
    BY <1>3, <1>4, <2>4, <2>5, LayersFitIs
  <2>7. LayersFitAt(c, u, g) \in 0..L
    BY <1>4, LayersFitIs
  <2>8. QED
    BY <1>1, <2>1, <2>6, <2>7 DEF c
<1>15. QED
  BY <1>1, <1>13, <1>14

-----------------------------------------------------------------------------
(* The invariant of the choice of a context and a depth.                   *)

FitTypeOK ==
    /\ stage \in {"off", "auto", "search", "create", "done"}
    /\ stage # "off" => ConfigOK(config)
    /\ free \in Nat /\ free_b \in Nat /\ lo \in Nat /\ hi \in Nat /\ ctx \in Nat
    /\ auto \in Nat \cup {-1} /\ first \in Nat \cup {-1}
    /\ sessions \in Seq(Int)

\* Until the context is chosen nothing has been decided.
NothingYet ==
    stage \in {"off", "auto", "search"} =>
       path = "given" /\ sessions = <<>> /\ auto = -1 /\ first = -1

\* The search is on when every layer is wanted and not all fit the model's context.
SearchOn == stage = "search" => config.ngl < 0 /\ config.gpu /\ L > 0 /\ free_b > 0 /\ hi <= ModelCtx

CtxChosen == stage \in {"create", "done"} => ctx > 0

\* What each branch knows of the context it has chosen.
AllChosen ==
    path \in {"all", "search"} =>
       /\ stage \in {"create", "done"}
       /\ config.ngl < 0 /\ config.gpu /\ L > 0 /\ free_b > 0
       /\ FitsAll(ctx)

DepthChosen ==
    path = "depth" =>
       /\ stage \in {"create", "done"}
       /\ config.ngl > 0 /\ config.gpu /\ KvPerToken > 0 /\ free_b > 0
       /\ ctx = ForGivenDepth(free_b)

\* The estimate that the engine remembers is the first session's, and the sessions
\* have it, or the depth that was asked for.
NoEstimate ==
    stage \in {"create", "done"} /\ ~config.gpu =>
       auto = -1 /\ first = -1 /\ \A s \in DOMAIN sessions : sessions[s] = 0

OneEstimate ==
    stage \in {"create", "done"} /\ config.gpu =>
       /\ first = -1 => sessions = <<>> /\ auto = -1
       /\ first > 0 => auto = LayersFitAt(ctx, SessionUbatch, first)
       /\ first > 0 /\ config.ngl < 0 => \A s \in DOMAIN sessions : sessions[s] = auto
       /\ config.ngl >= 0 => \A s \in DOMAIN sessions : sessions[s] = Min({config.ngl, L})

FitInv ==
    /\ FitTypeOK
    /\ NothingYet
    /\ SearchOn
    /\ SearchSound
    /\ CtxChosen
    /\ AllChosen
    /\ DepthChosen
    /\ NoEstimate
    /\ OneEstimate

(* A step that leaves the configuration alone leaves the estimates alone.  *)
LEMMA SameConfig ==
  ASSUME config' = config
  PROVE  /\ (ConfigOK(config))' <=> ConfigOK(config)
         /\ L' = L /\ ModelCtx' = ModelCtx /\ Low' = Low /\ KvPerToken' = KvPerToken
         /\ \A c, u, f : (LayersFitAt(c, u, f))' = LayersFitAt(c, u, f)
         /\ \A f : (ForGivenDepth(f))' = ForGivenDepth(f)
<1>1. L' = L
  BY DEF L
<1>2. ModelCtx' = ModelCtx /\ Low' = Low
  BY DEF ModelCtx, Low
<1>3. Limit' = Limit /\ KvLayers' = KvLayers
  BY <1>1 DEF Limit, KvLayers
<1>4. KvPerToken' = KvPerToken
  BY <1>3 DEF KvPerToken
<1>5. GpuWeights' = GpuWeights
  BY <1>1, <1>3 DEF GpuWeights
<1>6. Fixed' = Fixed
  BY <1>2, <1>5 DEF Fixed
<1>7. ASSUME NEW f PROVE (ForGivenDepth(f))' = ForGivenDepth(f)
  BY <1>2, <1>4, <1>6 DEF ForGivenDepth
<1>8. ASSUME NEW c, NEW u, NEW l PROVE (LayerShare(l, c, u))' = LayerShare(l, c, u)
  BY <1>1 DEF LayerShare
<1>9. ASSUME NEW c, NEW u PROVE (Used(c, u))' = Used(c, u)
  BY <1>1, <1>8 DEF Used
<1>10. ASSUME NEW c, NEW u, NEW f PROVE (LayersFitAt(c, u, f))' = LayersFitAt(c, u, f)
  BY <1>1, <1>9 DEF LayersFitAt
<1>11. QED
  BY <1>1, <1>2, <1>4, <1>7, <1>10

(* A process begins with nothing decided.                                  *)
LEMMA InitFit == FitInit => FitInv
<1> SUFFICES ASSUME FitInit PROVE FitInv
  OBVIOUS
<1>1. FitTypeOK
  BY DEF FitInit, FitTypeOK
<1>2. /\ stage = "off" /\ path = "given" /\ sessions = <<>> /\ auto = -1 /\ first = -1
  BY DEF FitInit
<1>3. QED
  BY <1>1, <1>2
  DEF FitInv, NothingYet, SearchOn, SearchSound, CtxChosen, AllChosen, DepthChosen, NoEstimate, OneEstimate

(* The end of a process.                                                   *)
LEMMA GoneStep == FitGone => FitInv'
<1> SUFFICES ASSUME FitGone PROVE FitInv'
  OBVIOUS
<1>1. FitTypeOK'
  BY DEF FitGone, FitTypeOK
<1>2. stage' = "off" /\ path' = "given" /\ sessions' = <<>> /\ auto' = -1 /\ first' = -1
  BY DEF FitGone
<1>3. QED
  BY <1>1, <1>2
  DEF FitInv, NothingYet, SearchOn, SearchSound, CtxChosen, AllChosen, DepthChosen, NoEstimate, OneEstimate

(* main, after engine_open.                                                *)
LEMMA BeginStep ==
  ASSUME FitInv, ConfigOK(config'), Begin(config')
  PROVE  FitInv'
<1>1. config'.ctx_size \in Nat
  BY DEF ConfigOK
<1>2. /\ stage = "off" /\ ctx' = config'.ctx_size
      /\ stage' = IF config'.ctx_size > 0 THEN "create" ELSE "auto"
      /\ free' \in FreeMemory
      /\ free_b' = free_b /\ lo' = lo /\ hi' = hi /\ path' = path
      /\ auto' = auto /\ sessions' = sessions /\ first' = first
  BY DEF Begin
<1>3. path = "given" /\ sessions = <<>> /\ auto = -1 /\ first = -1
  BY <1>2 DEF FitInv, NothingYet
<1>4. free' \in Nat
  BY <1>2, AutoFitAssumption
<1>5. FitTypeOK'
  BY <1>1, <1>2, <1>4 DEF FitInv, FitTypeOK
<1>6. NothingYet' /\ SearchOn' /\ SearchSound' /\ AllChosen' /\ DepthChosen'
  BY <1>2, <1>3 DEF NothingYet, SearchOn, SearchSound, AllChosen, DepthChosen
<1>7. CtxChosen'
  BY <1>1, <1>2 DEF CtxChosen
<1>8. NoEstimate' /\ OneEstimate'
  BY <1>2, <1>3 DEF NoEstimate, OneEstimate
<1>9. QED
  BY <1>5, <1>6, <1>7, <1>8 DEF FitInv

(* What nobody looks at: the memory changes, the sessions are all created.  *)
LEMMA IdleStep ==
  ASSUME FitInv,
         config' = config /\ free' \in Nat /\ free_b' = free_b /\ lo' = lo /\ hi' = hi
           /\ path' = path /\ ctx' = ctx /\ auto' = auto /\ sessions' = sessions /\ first' = first,
         stage' = stage \/ (stage = "create" /\ stage' = "done")
  PROVE  FitInv'
<1>1. /\ (ConfigOK(config))' <=> ConfigOK(config)
      /\ L' = L /\ ModelCtx' = ModelCtx /\ KvPerToken' = KvPerToken
      /\ \A c, u, f : (LayersFitAt(c, u, f))' = LayersFitAt(c, u, f)
      /\ \A f : (ForGivenDepth(f))' = ForGivenDepth(f)
  BY SameConfig
<1>2. FitTypeOK'
  BY <1>1 DEF FitInv, FitTypeOK
<1>3. NothingYet' /\ CtxChosen'
  BY DEF FitInv, NothingYet, CtxChosen
<1>4. SearchOn'
  BY <1>1 DEF FitInv, SearchOn
<1>5. \A c : (FitsAll(c))' = FitsAll(c)
  BY <1>1 DEF FitsAll
<1>6. SearchSound'
  BY <1>1, <1>5 DEF FitInv, SearchSound
<1>7. AllChosen'
  BY <1>1, <1>5 DEF FitInv, AllChosen
<1>8. DepthChosen'
  BY <1>1 DEF FitInv, DepthChosen
<1>9. SessionUbatch' = SessionUbatch
  BY DEF SessionUbatch
<1>10. NoEstimate' /\ OneEstimate'
  BY <1>1, <1>9 DEF FitInv, NoEstimate, OneEstimate
<1>11. QED
  BY <1>2, <1>3, <1>4, <1>6, <1>7, <1>8, <1>10 DEF FitInv

(* A context is chosen: before, there was no session, and the branch that   *)
(* chose it knows what the invariant says of it.                           *)
LEMMA ChooseStep ==
  ASSUME FitInv, stage \in {"auto", "search"}, NEW branch, NEW c \in Nat \ {0},
         Choose(branch, c), config' = config, free' = free, free_b' \in Nat,
         auto' = auto, sessions' = sessions, first' = first,
         branch \in {"all", "search"} =>
           /\ config.ngl < 0 /\ config.gpu /\ L > 0 /\ free_b' > 0
           /\ LayersFitAt(c, config.n_ubatch, free_b') >= L,
         branch = "depth" =>
           /\ config.ngl > 0 /\ config.gpu /\ KvPerToken > 0 /\ free_b' > 0
           /\ c = ForGivenDepth(free_b')
  PROVE  FitInv'
<1>1. /\ (ConfigOK(config))' <=> ConfigOK(config)
      /\ L' = L /\ ModelCtx' = ModelCtx /\ KvPerToken' = KvPerToken
      /\ \A d, u, f : (LayersFitAt(d, u, f))' = LayersFitAt(d, u, f)
      /\ \A f : (ForGivenDepth(f))' = ForGivenDepth(f)
  BY SameConfig
<1>2. path' = branch /\ ctx' = c /\ stage' = "create" /\ lo' = lo /\ hi' = hi
  BY DEF Choose
<1>3. sessions = <<>> /\ auto = -1 /\ first = -1
  BY DEF FitInv, NothingYet
<1>4. FitTypeOK'
  BY <1>1, <1>2 DEF FitInv, FitTypeOK
<1>5. NothingYet' /\ CtxChosen' /\ SearchOn' /\ SearchSound'
  BY <1>2 DEF NothingYet, CtxChosen, SearchOn, SearchSound
<1>6. AllChosen'
  <2>1. (FitsAll(ctx))' <=> LayersFitAt(c, config.n_ubatch, free_b') >= L
    BY <1>1, <1>2 DEF FitsAll
  <2>2. QED
    BY <1>1, <1>2, <2>1 DEF AllChosen
<1>7. DepthChosen'
  BY <1>1, <1>2 DEF DepthChosen
<1>8. NoEstimate' /\ OneEstimate'
  BY <1>2, <1>3 DEF NoEstimate, OneEstimate
<1>9. QED
  BY <1>4, <1>5, <1>6, <1>7, <1>8 DEF FitInv

(* engine_auto_ctx_size up to the search.                                  *)
LEMMA AutoCtxStep == ASSUME FitInv, AutoCtx PROVE FitInv'
<1> DEFINE f == free_b'
<1>1. /\ stage = "auto" /\ config' = config /\ free' = free /\ auto' = auto
      /\ sessions' = sessions /\ first' = first
      /\ f = IF config.ngl # 0 /\ config.gpu THEN free ELSE 0
  BY DEF AutoCtx
<1>2. ConfigOK(config) /\ free \in Nat
  BY <1>1 DEF FitInv, FitTypeOK
<1>3. /\ L \in Nat /\ ModelCtx \in Nat \ {0} /\ config.ngl \in Int /\ config.n_ubatch \in Nat
      /\ config.gpu \in BOOLEAN
  BY <1>2, ConfigIs
<1>4. f \in Nat /\ (f > 0 => config.ngl # 0 /\ config.gpu)
  BY <1>1, <1>2, <1>3
<1> HIDE DEF f
<1>5. CASE Choose("model", ModelCtx)
  BY <1>1, <1>3, <1>4, <1>5, ChooseStep DEF f
<1>6. CASE f > 0 /\ config.ngl >= 0 /\ KvPerToken # 0 /\ Choose("depth", ForGivenDepth(f))
  <2>1. KvPerToken \in Nat
    BY <1>2, <1>6, DepthTerms
  <2>2. config.ngl > 0 /\ config.gpu /\ KvPerToken > 0
    BY <1>3, <1>4, <1>6, <2>1
  <2>3. ForGivenDepth(f) \in 1..ModelCtx
    BY <1>2, <1>4, <2>2, GivenDepthIs
  <2>4. ForGivenDepth(f) \in Nat \ {0}
    BY <1>3, <2>3
  <2>5. QED
    BY <1>1, <1>4, <1>6, <2>2, <2>4, ChooseStep DEF f
<1>7. CASE /\ f > 0 /\ config.ngl < 0 /\ L > 0 /\ LayersFitAt(ModelCtx, config.n_ubatch, f) >= L
           /\ Choose("all", ModelCtx)
  BY <1>1, <1>3, <1>4, <1>7, ChooseStep DEF f
<1>8. CASE Choose("partial", Min({Max({config.n_ubatch, DefaultCtx}), ModelCtx}))
  <2> DEFINE m == Max({config.n_ubatch, DefaultCtx})
             c == Min({m, ModelCtx})
  <2>1. DefaultCtx \in Nat \ {0}
    BY AutoFitAssumption
  <2>2. m \in Nat \ {0}
    <3>1. m = IF config.n_ubatch >= DefaultCtx THEN config.n_ubatch ELSE DefaultCtx
      BY <1>3, <2>1, OfTwo
    <3>2. QED
      BY <1>3, <2>1, <3>1
  <2>3. c \in Nat \ {0}
    <3> HIDE DEF m
    <3>1. m \in Int /\ ModelCtx \in Int
      BY <1>3, <2>2
    <3>2. c = IF m <= ModelCtx THEN m ELSE ModelCtx
      BY <3>1, OfTwo
    <3>3. QED
      BY <1>3, <2>2, <3>2
  <2>4. Choose("partial", c)
    BY <1>8
  <2> HIDE DEF c
  <2>5. QED
    BY <1>1, <1>4, <2>3, <2>4, ChooseStep DEF f
<1>9. CASE /\ f > 0 /\ config.ngl < 0 /\ L > 0 /\ ~(LayersFitAt(1, config.n_ubatch, f) < L)
           /\ lo' = 1 /\ hi' = ModelCtx /\ stage' = "search" /\ path' = path /\ ctx' = ctx
  <2>1. /\ (ConfigOK(config))' <=> ConfigOK(config)
        /\ L' = L /\ ModelCtx' = ModelCtx
        /\ \A d, u, g : (LayersFitAt(d, u, g))' = LayersFitAt(d, u, g)
    BY <1>1, SameConfig
  <2>2. FitTypeOK'
    BY <1>1, <1>2, <1>3, <1>4, <1>9, <2>1 DEF FitInv, FitTypeOK, f
  <2>3. path = "given" /\ sessions = <<>> /\ auto = -1 /\ first = -1
    BY <1>1 DEF FitInv, NothingYet
  <2>4. NothingYet' /\ CtxChosen' /\ AllChosen' /\ DepthChosen' /\ NoEstimate' /\ OneEstimate'
    BY <1>1, <1>9, <2>3
    DEF NothingYet, CtxChosen, AllChosen, DepthChosen, NoEstimate, OneEstimate
  <2>5. SearchOn'
    BY <1>1, <1>3, <1>4, <1>9, <2>1 DEF SearchOn, f
  <2>6. LayersFitAt(1, config.n_ubatch, f) \in 0..L
    BY <1>2, <1>3, <1>4, LayersFitIs
  <2>7. LayersFitAt(1, config.n_ubatch, f) >= L
    BY <1>3, <1>9, <2>6
  <2>8. (FitsAll(lo))'
    BY <1>1, <1>9, <2>1, <2>7 DEF FitsAll, f
  <2>9. SearchSound'
    BY <1>3, <1>9, <2>1, <2>8 DEF SearchSound
  <2>10. QED
    BY <2>2, <2>4, <2>5, <2>9 DEF FitInv
<1>10. QED
  BY <1>1, <1>3, <1>4, <1>5, <1>6, <1>7, <1>8, <1>9 DEF AutoCtx, f

(* During the search a context that all layers fit bounds the ones below.  *)
LEMMA SearchDown ==
  ASSUME FitInv, stage = "search", NEW c \in Nat, NEW d \in Nat, c <= d, FitsAll(d)
  PROVE  FitsAll(c)
<1>1. ConfigOK(config) /\ free_b \in Nat /\ L > 0 /\ free_b > 0
  BY DEF FitInv, FitTypeOK, SearchOn
<1>2. config.n_ubatch \in Nat /\ L \in Nat
  BY <1>1, ConfigIs
<1>3. Rows(c, config.n_ubatch) <= Rows(d, config.n_ubatch)
  BY <1>2 DEF Rows
<1>4. LayersFitAt(d, config.n_ubatch, free_b) >= L
  BY DEF FitsAll
<1>5. LayersFitAt(c, config.n_ubatch, free_b) = L
  BY <1>1, <1>2, <1>3, <1>4, FitMono
<1>6. QED
  BY <1>2, <1>5 DEF FitsAll

(* A round of the search halves what is between a context that fits and one *)
(* that does not.                                                          *)
LEMMA ProbeStep == ASSUME FitInv, Probe PROVE FitInv'
<1>1. /\ stage = "search" /\ lo < hi /\ config' = config /\ free' = free /\ free_b' = free_b
      /\ stage' = stage /\ path' = path /\ ctx' = ctx /\ auto' = auto /\ sessions' = sessions
      /\ first' = first
      /\ IF FitsAll(Middle) THEN lo' = Middle /\ hi' = hi ELSE lo' = lo /\ hi' = Below
  BY DEF Probe
<1>2. /\ (ConfigOK(config))' <=> ConfigOK(config)
      /\ L' = L /\ ModelCtx' = ModelCtx
      /\ \A d, u, f : (LayersFitAt(d, u, f))' = LayersFitAt(d, u, f)
  BY <1>1, SameConfig
<1>3. lo \in Nat /\ hi \in Nat /\ ConfigOK(config)
  BY <1>1 DEF FitInv, FitTypeOK
<1>4. ModelCtx \in Nat /\ hi <= ModelCtx
  BY <1>1, <1>3, ConfigIs DEF FitInv, SearchOn
<1>5. lo \in 1..hi /\ FitsAll(lo) /\ \A c \in (hi + 1)..ModelCtx : ~FitsAll(c)
  BY <1>1 DEF FitInv, SearchSound
<1>6. Middle \in (lo + 1)..hi /\ Below \in lo..(hi - 1) /\ Below + 1 = Middle /\ Middle \in Nat
  BY <1>1, <1>3 DEF Middle, Below
<1>7. \A c : (FitsAll(c))' = FitsAll(c)
  BY <1>1, <1>2 DEF FitsAll
<1>8. FitTypeOK'
  BY <1>1, <1>2, <1>3, <1>6 DEF FitInv, FitTypeOK
<1>9. SearchOn'
  BY <1>1, <1>2, <1>3, <1>4, <1>6 DEF FitInv, SearchOn
<1>10. SearchSound'
  <2>1. CASE FitsAll(Middle)
    <3>1. lo' = Middle /\ hi' = hi /\ Middle \in 1..hi
      BY <1>1, <1>3, <1>5, <1>6, <2>1
    <3>2. QED
      BY <1>2, <1>5, <1>7, <2>1, <3>1 DEF SearchSound
  <2>2. CASE ~FitsAll(Middle)
    <3>1. lo' = lo /\ hi' = Below /\ lo \in 1..Below
      BY <1>1, <1>3, <1>5, <1>6, <2>2
    <3>2. ASSUME NEW c \in (Below + 1)..ModelCtx PROVE ~FitsAll(c)
      <4>1. c \in Nat /\ Middle <= c
        BY <1>3, <1>4, <1>6
      <4>2. QED
        BY <1>1, <1>6, <2>2, <4>1, SearchDown
    <3>3. QED
      BY <1>2, <1>5, <1>7, <3>1, <3>2 DEF SearchSound
  <2>3. QED
    BY <2>1, <2>2
<1>11. path = "given" /\ sessions = <<>> /\ auto = -1 /\ first = -1
  BY <1>1 DEF FitInv, NothingYet
<1>12. NothingYet' /\ CtxChosen' /\ AllChosen' /\ DepthChosen' /\ NoEstimate' /\ OneEstimate'
  BY <1>1, <1>11 DEF NothingYet, CtxChosen, AllChosen, DepthChosen, NoEstimate, OneEstimate
<1>13. QED
  BY <1>8, <1>9, <1>10, <1>12 DEF FitInv

(* The result of the search, rounded down, still fits.                     *)
LEMMA EndSearchStep == ASSUME FitInv, EndSearch PROVE FitInv'
<1> DEFINE c == Max({RoundDown(lo), 1})
<1>1. /\ stage = "search" /\ config' = config /\ free' = free /\ free_b' = free_b
      /\ auto' = auto /\ sessions' = sessions /\ first' = first /\ Choose("search", c)
  BY DEF EndSearch
<1>2. lo \in Nat /\ free_b \in Nat /\ lo \in 1..hi /\ hi \in Nat /\ FitsAll(lo)
  BY <1>1 DEF FitInv, FitTypeOK, SearchSound
<1>3. RoundDown(lo) \in Nat /\ RoundDown(lo) <= lo
  BY <1>2, RoundDownIs
<1>4. c \in Nat \ {0} /\ c <= lo
  <2>1. c = IF RoundDown(lo) >= 1 THEN RoundDown(lo) ELSE 1
    BY <1>3, OfTwo
  <2>2. QED
    BY <1>2, <1>3, <2>1
<1> HIDE DEF c
<1>5. FitsAll(c)
  BY <1>1, <1>2, <1>4, SearchDown
<1>6. config.ngl < 0 /\ config.gpu /\ L > 0 /\ free_b > 0
  BY <1>1 DEF FitInv, SearchOn
<1>7. LayersFitAt(c, config.n_ubatch, free_b') >= L /\ free_b' \in Nat /\ free_b' > 0
  BY <1>1, <1>2, <1>5, <1>6 DEF FitsAll
<1>8. QED
  BY <1>1, <1>4, <1>6, <1>7, ChooseStep

(* session_create: the first session's estimate is the one that stays.     *)
LEMMA CreateStep == ASSUME FitInv, CreateSession PROVE FitInv'
<1>1. /\ stage = "create" /\ config' = config /\ free' = free /\ free_b' = free_b /\ stage' = stage
      /\ lo' = lo /\ hi' = hi /\ path' = path /\ ctx' = ctx
  BY DEF CreateSession
<1>2. /\ (ConfigOK(config))' <=> ConfigOK(config)
      /\ L' = L /\ ModelCtx' = ModelCtx /\ KvPerToken' = KvPerToken
      /\ \A d, u, f : (LayersFitAt(d, u, f))' = LayersFitAt(d, u, f)
      /\ \A f : (ForGivenDepth(f))' = ForGivenDepth(f)
  BY <1>1, SameConfig
<1>3. /\ ConfigOK(config) /\ free \in Nat /\ ctx \in Nat /\ auto \in Nat \cup {-1}
      /\ first \in Nat \cup {-1} /\ sessions \in Seq(Int)
  BY <1>1 DEF FitInv, FitTypeOK
<1>4. L \in Nat /\ config.ngl \in Int /\ config.gpu \in BOOLEAN /\ config.n_ubatch \in Nat
  BY <1>3, ConfigIs
<1>5. SessionUbatch \in Nat /\ SessionUbatch' = SessionUbatch
  BY <1>1, <1>3, <1>4 DEF SessionUbatch
<1>6. LayersFitAt(ctx, SessionUbatch, free) \in 0..L
  BY <1>3, <1>5, LayersFitIs
<1>7. AutoLayers \in Nat /\ AutoLayers = IF auto >= 0 THEN auto ELSE LayersFitAt(ctx, SessionUbatch, free)
  BY <1>3, <1>4, <1>6 DEF AutoLayers
<1>8. \A c : (FitsAll(c))' = FitsAll(c)
  BY <1>1, <1>2 DEF FitsAll
<1>9. NothingYet' /\ CtxChosen' /\ SearchOn' /\ SearchSound'
  BY <1>1 DEF FitInv, NothingYet, CtxChosen, SearchOn, SearchSound
<1>10. AllChosen' /\ DepthChosen'
  BY <1>1, <1>2, <1>8 DEF FitInv, AllChosen, DepthChosen
<1>11. CASE ~config.gpu
  <2>1. sessions' = Append(sessions, 0) /\ auto' = auto /\ first' = first
    BY <1>11 DEF CreateSession
  <2>2. auto = -1 /\ first = -1 /\ \A s \in DOMAIN sessions : sessions[s] = 0
    BY <1>1, <1>11 DEF FitInv, NoEstimate
  <2>3. sessions' \in Seq(Int) /\ \A s \in DOMAIN sessions' : sessions'[s] = 0
    BY <1>3, <2>1, <2>2, AppendProperties, LenProperties
  <2>4. FitTypeOK'
    BY <1>1, <1>2, <2>1, <2>3 DEF FitInv, FitTypeOK
  <2>5. NoEstimate' /\ OneEstimate'
    BY <1>1, <1>11, <2>1, <2>2, <2>3 DEF NoEstimate, OneEstimate
  <2>6. QED
    BY <1>9, <1>10, <2>4, <2>5 DEF FitInv
<1>12. CASE config.gpu
  <2> DEFINE new == IF config.ngl < 0 THEN AutoLayers ELSE Min({config.ngl, L})
  <2>1. /\ auto' = IF free = 0 /\ auto < 0 THEN auto ELSE AutoLayers
        /\ first' = IF first < 0 THEN free ELSE first
        /\ sessions' = Append(sessions, new)
    BY <1>12 DEF CreateSession
  <2>2. Min({config.ngl, L}) \in Int
    <3>1. L \in Int
      BY <1>4
    <3>2. Min({config.ngl, L}) = IF config.ngl <= L THEN config.ngl ELSE L
      BY <1>4, <3>1, OfTwo
    <3>3. QED
      BY <1>4, <3>1, <3>2
  <2>3. new \in Int /\ auto' \in Nat \cup {-1} /\ first' \in Nat /\ auto \in Int /\ first \in Int
    BY <1>3, <1>7, <2>1, <2>2
  <2>4. /\ first = -1 => sessions = <<>> /\ auto = -1
        /\ first > 0 => auto = LayersFitAt(ctx, SessionUbatch, first)
        /\ first > 0 /\ config.ngl < 0 => \A s \in DOMAIN sessions : sessions[s] = auto
        /\ config.ngl >= 0 => \A s \in DOMAIN sessions : sessions[s] = Min({config.ngl, L})
    BY <1>1, <1>12 DEF FitInv, OneEstimate
  <2>5. /\ sessions' \in Seq(Int)
        /\ \A s \in DOMAIN sessions' : \/ s \in DOMAIN sessions /\ sessions'[s] = sessions[s]
                                       \/ sessions'[s] = new
    <3> HIDE DEF new
    <3>1. Append(sessions, new) \in Seq(Int) /\ DOMAIN Append(sessions, new) = 1..(Len(sessions) + 1)
          /\ DOMAIN sessions = 1..Len(sessions) /\ Len(sessions) \in Nat
      BY <1>3, <2>3, AppendProperties, LenProperties
    <3>2. \A s \in 1..Len(sessions) : Append(sessions, new)[s] = sessions[s]
      BY <1>3, <2>3, AppendProperties
    <3>3. Append(sessions, new)[Len(sessions) + 1] = new
      BY <1>3, <2>3, AppendProperties
    <3>4. QED
      BY <2>1, <3>1, <3>2, <3>3
  <2>6. FitTypeOK'
    BY <1>1, <1>2, <2>3, <2>5 DEF FitInv, FitTypeOK
  <2>7. NoEstimate'
    BY <1>1, <1>12 DEF NoEstimate
  <2>8. first' > 0 => auto' = LayersFitAt(ctx, SessionUbatch, first') /\ auto' = AutoLayers
                      /\ (first = -1 \/ (first > 0 /\ auto' = auto))
    <3>1. CASE first = -1
      <4>1. auto = -1 /\ first' = free
        BY <2>1, <2>4, <3>1
      <4>2. AutoLayers = LayersFitAt(ctx, SessionUbatch, first')
        BY <1>7, <4>1
      <4>3. first' > 0 => auto' = AutoLayers
        BY <1>3, <2>1, <4>1
      <4>4. QED
        BY <3>1, <4>2, <4>3
    <3>2. CASE first > 0
      <4>1. LayersFitAt(ctx, SessionUbatch, first) \in 0..L
        <5>1. first \in Nat
          BY <1>3, <3>2
        <5>2. QED
          BY <1>3, <1>5, <5>1, LayersFitIs
      <4>2. auto >= 0
        BY <1>4, <2>4, <3>2, <4>1
      <4>3. QED
        BY <1>7, <2>1, <2>3, <2>4, <3>2, <4>2
    <3>3. CASE first = 0
      BY <2>1, <3>3
    <3>4. QED
      BY <1>3, <3>1, <3>2, <3>3
  <2>9. (LayersFitAt(ctx, SessionUbatch, first))' = LayersFitAt(ctx, SessionUbatch, first')
    BY <1>1, <1>2, <1>5
  <2>10. first' > 0 /\ config.ngl < 0 => \A s \in DOMAIN sessions' : sessions'[s] = auto'
    BY <2>4, <2>5, <2>8
  <2>11. config.ngl >= 0 => \A s \in DOMAIN sessions' : sessions'[s] = Min({config.ngl, L})
    <3>1. ASSUME config.ngl >= 0, NEW s \in DOMAIN sessions'
          PROVE  sessions'[s] = Min({config.ngl, L})
      <4>1. new = Min({config.ngl, L})
        BY <1>4, <3>1
      <4> HIDE DEF new
      <4>2. (s \in DOMAIN sessions /\ sessions'[s] = sessions[s]) \/ sessions'[s] = new
        BY <2>5
      <4>3. QED
        BY <2>4, <3>1, <4>1, <4>2
    <3>2. QED
      BY <3>1
  <2>12. OneEstimate'
    <3> HIDE DEF new
    <3>1. first' # -1
      BY <2>3
    <3>2. QED
      BY <1>1, <1>2, <2>8, <2>9, <2>10, <2>11, <3>1 DEF OneEstimate
  <2>13. QED
    BY <1>9, <1>10, <2>6, <2>7, <2>12 DEF FitInv
<1>13. QED
  BY <1>4, <1>11, <1>12

(* Every step of a start keeps the invariant.                              *)
LEMMA FitStep == FitInv /\ [FitNext]_fitVars => FitInv'
<1> SUFFICES ASSUME FitInv, [FitNext]_fitVars PROVE FitInv'
  OBVIOUS
<1>1. free \in Nat
  BY DEF FitInv, FitTypeOK
<1>2. CASE ConfigOK(config') /\ Begin(config')
  BY <1>2, BeginStep
<1>3. CASE AutoCtx
  BY <1>3, AutoCtxStep
<1>4. CASE Probe
  BY <1>4, ProbeStep
<1>5. CASE EndSearch
  BY <1>5, EndSearchStep
<1>6. CASE CreateSession
  BY <1>6, CreateStep
<1>7. CASE AllCreated
  BY <1>1, <1>7, IdleStep DEF AllCreated
<1>8. CASE MemoryChanges
  <2>1. free' \in Nat
    BY <1>8, AutoFitAssumption DEF MemoryChanges
  <2>2. QED
    BY <1>8, <2>1, IdleStep DEF MemoryChanges
<1>9. CASE FitGone
  BY <1>9, GoneStep
<1>10. CASE UNCHANGED fitVars
  BY <1>1, <1>10, IdleStep DEF fitVars
<1>11. QED
  BY <1>2, <1>3, <1>4, <1>5, <1>6, <1>7, <1>8, <1>9, <1>10 DEF FitNext, Fit

(* The binary search of engine_auto_ctx_size, for a model of any size, any   *)
(* options and any memory: all layers fit at its lower bound and at no       *)
(* context above its upper bound, although the arena's share is rounded      *)
(* layer by layer and the output tensor counts only when every layer fits.   *)
THEOREM SearchIsSound == FitSpec => []SearchSound
<1>1. FitInv => SearchSound
  BY DEF FitInv
<1>2. QED
  BY <1>1, InitFit, FitStep, PTL DEF FitSpec

(* A session's micro-batch is no more than the rows that were counted.     *)
LEMMA SessionRows ==
  ASSUME FitInv, stage \in {"create", "done"}
  PROVE  /\ SessionUbatch \in Nat \ {0}
         /\ Rows(ctx, SessionUbatch) <= Rows(ctx, config.n_ubatch)
         /\ ctx <= ModelCtx => SessionUbatch <= Rows(ModelCtx, config.n_ubatch)
<1>1. ConfigOK(config) /\ ctx \in Nat /\ ctx > 0
  BY DEF FitInv, FitTypeOK, CtxChosen
<1>2. config.n_ubatch \in Nat /\ ModelCtx \in Nat
  BY <1>1, ConfigIs
<1>3. QED
  BY <1>1, <1>2 DEF SessionUbatch, Rows

(* Every session gets every layer when the context was chosen for it.      *)
LEMMA FullOffloadHolds == FitInv => FullOffload
<1> SUFFICES ASSUME FitInv, path \in {"all", "search"}, first >= free_b,
                    NEW s \in DOMAIN sessions
             PROVE  sessions[s] = L
  BY DEF FullOffload
<1>1. /\ stage \in {"create", "done"} /\ config.ngl < 0 /\ config.gpu /\ L > 0 /\ free_b > 0
      /\ LayersFitAt(ctx, config.n_ubatch, free_b) >= L
  BY DEF FitInv, AllChosen, FitsAll
<1>2. ConfigOK(config) /\ free_b \in Nat /\ first \in Nat \cup {-1} /\ ctx \in Nat
  BY <1>1 DEF FitInv, FitTypeOK
<1>3. first \in Nat /\ first > 0 /\ config.n_ubatch \in Nat
  BY <1>1, <1>2, ConfigIs
<1>4. auto = LayersFitAt(ctx, SessionUbatch, first) /\ sessions[s] = auto
  BY <1>1, <1>3 DEF FitInv, OneEstimate
<1>5. SessionUbatch \in Nat /\ Rows(ctx, SessionUbatch) <= Rows(ctx, config.n_ubatch)
  BY <1>1, SessionRows
<1>6. ctx <= ctx /\ free_b <= first /\ 0 < free_b
  BY <1>1, <1>2, <1>3
<1>7. LayersFitAt(ctx, SessionUbatch, first) = L
  BY <1>1, <1>2, <1>3, <1>5, <1>6, FitMono
<1>8. QED
  BY <1>4, <1>7

(* The sessions agree.                                                     *)
LEMMA SameDepthHolds == FitInv => SameDepth
<1> SUFFICES ASSUME FitInv, first # 0, NEW s \in DOMAIN sessions, NEW t \in DOMAIN sessions
             PROVE  sessions[s] = sessions[t]
  BY DEF SameDepth
<1>1. stage \in {"create", "done"}
  <2>1. CASE stage \in {"off", "auto", "search"}
    <3>1. sessions = <<>>
      BY <2>1 DEF FitInv, NothingYet
    <3>2. QED
      BY <3>1
  <2>2. QED
    BY <2>1 DEF FitInv, FitTypeOK
<1>2. ConfigOK(config) /\ first \in Nat \cup {-1}
  BY <1>1 DEF FitInv, FitTypeOK
<1>3. config.gpu \in BOOLEAN /\ config.ngl \in Int
  BY <1>2, ConfigIs
<1>4. CASE ~config.gpu
  BY <1>1, <1>4 DEF FitInv, NoEstimate
<1>5. CASE config.gpu /\ config.ngl >= 0
  BY <1>1, <1>5 DEF FitInv, OneEstimate
<1>6. CASE config.gpu /\ config.ngl < 0
  <2>1. CASE first = -1
    <3>1. sessions = <<>>
      BY <1>1, <1>6, <2>1 DEF FitInv, OneEstimate
    <3>2. QED
      BY <3>1
  <2>2. CASE first > 0
    BY <1>1, <1>6, <2>2 DEF FitInv, OneEstimate
  <2>3. QED
    BY <1>2, <2>1, <2>2
<1>7. QED
  BY <1>3, <1>4, <1>5, <1>6

(* The depth that was asked for is within the estimate.                    *)
LEMMA GivenDepthHolds == FitInv => GivenDepthFits
<1> SUFFICES ASSUME FitInv, path = "depth", ctx > Low, first >= free_b,
                    ~(config.tied /\ config.ngl >= L), config.latent = 0
             PROVE  Min({config.ngl, L}) <= auto
  BY DEF GivenDepthFits
<1>1. /\ stage \in {"create", "done"} /\ config.ngl > 0 /\ config.gpu /\ KvPerToken > 0
      /\ free_b > 0 /\ ctx = ForGivenDepth(free_b)
  BY DEF FitInv, DepthChosen
<1>2. ConfigOK(config) /\ free_b \in Nat /\ first \in Nat \cup {-1}
  BY <1>1 DEF FitInv, FitTypeOK
<1>3. first \in Nat /\ first > 0 /\ config.ngl \in Int /\ config.ngl >= 0 /\ ModelCtx \in Nat
  BY <1>1, <1>2, ConfigIs
<1>4. auto = LayersFitAt(ctx, SessionUbatch, first)
  BY <1>1, <1>3 DEF FitInv, OneEstimate
<1>5. ctx \in 1..ModelCtx
  BY <1>1, <1>2, GivenDepthIs
<1>6. SessionUbatch \in Nat \ {0} /\ SessionUbatch <= Rows(ModelCtx, config.n_ubatch)
  BY <1>1, <1>3, <1>5, SessionRows
<1>7. Limit = Min({config.ngl, L})
  BY <1>2, <1>3, DepthTerms
<1>8. free_b <= first /\ 0 < free_b /\ ForGivenDepth(free_b) > Low
  BY <1>1, <1>2, <1>3
<1>9. Limit <= LayersFitAt(ForGivenDepth(free_b), SessionUbatch, first)
  BY <1>1, <1>2, <1>3, <1>6, <1>8, GivenDepthFit
<1>10. QED
  BY <1>1, <1>4, <1>7, <1>9

(* The two estimates of the offload never contradict each other, for a model *)
(* of any size, any options, and memory that changes between any two reads:  *)
(* a context chosen so that every layer fits gets every layer, the sessions  *)
(* of a process agree, and a context chosen for a given depth leaves room    *)
(* for it, where GivenDepthFits says so.                                     *)
THEOREM EstimatesAgree == FitSpec => []DepthsAgree
<1>1. FitInv => DepthsAgree
  BY FullOffloadHolds, SameDepthHolds, GivenDepthHolds DEF DepthsAgree
<1>2. QED
  BY <1>1, InitFit, FitStep, PTL DEF FitSpec

=============================================================================
