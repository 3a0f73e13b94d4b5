------------------------- MODULE RetryBackoffProofs -------------------------
(* Proofs about RetryBackoff, for every width, cap, base and attempt count. *)
EXTENDS RetryBackoff, DataTheorems

\* While the loop runs the delay is the base or below the cap, so doubling a
\* delay of at most half the cap stays within the width.
IInv ==
  /\ TypeOK
  /\ delay >= base \/ delay = Cap
  /\ delay <= Cap \/ delay = base
  /\ delay > 0
  /\ pc = "done" => delay <= Cap

LEMMA HalfFits == \A d \in Int : d <= Half => d * 2 <= Cap
BY BackoffAssumption DEF Half

LEMMA NextInv == ASSUME IInv, [Next]_vars PROVE IInv'
<1>1. CASE Double
  <2>1. /\ delay \in Int /\ delay > 0 /\ delay * 2 <= Cap
        /\ i + 1 \in 1..AttemptLimit
    BY <1>1, HalfFits, BackoffAssumption
    DEF IInv, TypeOK, Double, Looping
  <2>2. delay' = delay * 2
    BY <1>1, <2>1, BackoffAssumption DEF Double, Wrap
  <2>3. delay' \in Int /\ delay' > 0 /\ delay' <= Cap /\ delay' >= base
    BY <1>1, <2>1, <2>2, BackoffAssumption
    DEF IInv, TypeOK, Double, Looping
  <2>4. QED
    BY <1>1, <2>1, <2>3 DEF IInv, TypeOK, Double
<1>2. CASE Saturate
  BY <1>2, BackoffAssumption DEF IInv, TypeOK, Saturate
<1>3. CASE LeaveLoop
  BY <1>3 DEF IInv, TypeOK, LeaveLoop
<1>4. CASE Return
  BY <1>4, BackoffAssumption DEF IInv, TypeOK, Return
<1>5. CASE UNCHANGED vars
  BY <1>5 DEF IInv, TypeOK, vars
<1>6. QED
  BY <1>1, <1>2, <1>3, <1>4, <1>5 DEF Next

\* However large the base and however many the attempts, the doubling of
\* retryDelay never overflows, and what it returns is between the base and the cap.
THEOREM DelayAlwaysInRange == Spec => []DelayInRange
<1>1. Init => IInv
  BY BackoffAssumption DEF Init, IInv, TypeOK
<1>2. IInv => DelayInRange
  BY DEF IInv, DelayInRange
<1>3. QED
  BY <1>1, <1>2, NextInv, PTL DEF Spec

-----------------------------------------------------------------------------
(* the powers of two *)

Doubles(g) == g = [n \in Nat |-> IF n = 0 THEN 1 ELSE 2 * g[n - 1]]

LEMMA PowerExists == \E g \in [Nat -> Nat] : Doubles(g)
<1> DEFINE Solves(g, n) ==
             /\ g \in [0..n -> Nat]
             /\ \A k \in 0..n : g[k] = IF k = 0 THEN 1 ELSE 2 * g[k - 1]
           Some(n) == CHOOSE g : Solves(g, n)
           U == {n \in Nat : \E g : Solves(g, n)}
<1>1. Nat \subseteq U
  <2>1. Solves([k \in 0..0 |-> 1], 0)
    OBVIOUS
  <2>2. ASSUME NEW n \in Nat, NEW g, Solves(g, n)
        PROVE  \E h : Solves(h, n + 1)
    <3> DEFINE h == [k \in 0..(n + 1) |-> IF k = 0 THEN 1 ELSE 2 * g[k - 1]]
    <3>1. \A k \in 0..(n + 1) : k # 0 => k - 1 \in 0..n
      OBVIOUS
    <3>2. \A k \in 0..n : h[k] = g[k]
      BY <2>2
    <3>3. h \in [0..(n + 1) -> Nat]
      BY <2>2, <3>1
    <3>4. \A k \in 0..(n + 1) : h[k] = IF k = 0 THEN 1 ELSE 2 * h[k - 1]
      BY <3>1, <3>2
    <3>5. Solves(h, n + 1)
      BY <3>3, <3>4
    <3> HIDE DEF Solves
    <3>6. QED
      BY <3>5
  <2> HIDE DEF Solves
  <2>3. 0 \in U /\ \A n \in Nat : n \in U => n + 1 \in U
    BY <2>1, <2>2
  <2> HIDE DEF U
  <2>4. QED
    BY <2>3, NatInduct
<1>2. \A n \in Nat : Solves(Some(n), n)
  <2> HIDE DEF Solves
  <2>1. QED
    BY <1>1
<1> HIDE DEF Some
\* Solutions of different lengths agree where both are defined.
<1>3. ASSUME NEW m \in Nat, NEW n \in Nat
      PROVE  \A k \in Nat : k <= m /\ k <= n => Some(m)[k] = Some(n)[k]
  <2> DEFINE f == Some(m)
             g == Some(n)
             A == {k \in Nat : k <= m /\ k <= n => f[k] = g[k]}
  <2>1. Solves(f, m) /\ Solves(g, n)
    BY <1>2
  <2> HIDE DEF f, g
  <2>2. 0 \in A
    BY <2>1
  <2>3. ASSUME NEW k \in Nat, k \in A PROVE k + 1 \in A
    <3>1. SUFFICES ASSUME k + 1 <= m, k + 1 <= n PROVE f[k + 1] = g[k + 1]
      OBVIOUS
    <3>2. f[k] = g[k]
      BY <2>3, <3>1
    <3>3. k + 1 \in 0..m /\ k + 1 \in 0..n /\ k + 1 # 0 /\ (k + 1) - 1 = k
      BY <3>1
    <3>4. f[k + 1] = 2 * f[k] /\ g[k + 1] = 2 * g[k]
      BY <2>1, <3>3
    <3>5. QED
      BY <3>2, <3>4
  <2>4. Nat \subseteq A
    <3> HIDE DEF A
    <3>1. QED
      BY <2>2, <2>3, NatInduct
  <2>5. QED
    BY <2>4 DEF f, g
<1> DEFINE p == [n \in Nat |-> Some(n)[n]]
<1>4. p \in [Nat -> Nat]
  BY <1>2
<1>5. ASSUME NEW n \in Nat PROVE p[n] = IF n = 0 THEN 1 ELSE 2 * p[n - 1]
  <2>1. Some(n)[n] = IF n = 0 THEN 1 ELSE 2 * Some(n)[n - 1]
    BY <1>2
  <2>2. n # 0 => Some(n)[n - 1] = Some(n - 1)[n - 1]
    BY <1>3
  <2>3. QED
    BY <2>1, <2>2
<1>6. Doubles(p)
  BY <1>5 DEF Doubles
<1>7. QED
  BY <1>4, <1>6
LEMMA PowerDef ==
  ASSUME NEW n \in Nat
  PROVE  Power[n] = IF n = 0 THEN 1 ELSE 2 * Power[n - 1]
<1>1. \E g : Doubles(g)
  BY PowerExists
<1>2. Doubles(Power)
  BY <1>1 DEF Power, Doubles
<1>3. QED
  BY <1>2 DEF Doubles

LEMMA PowerType == ASSUME NEW n \in Nat PROVE Power[n] \in Nat /\ Power[n] >= 1
<1> DEFINE U == {k \in Nat : Power[k] \in Nat /\ Power[k] >= 1}
<1>1. 0 \in U
  BY PowerDef
<1>2. ASSUME NEW k \in Nat, k \in U PROVE k + 1 \in U
  <2>1. Power[k + 1] = 2 * Power[k]
    BY PowerDef
  <2>2. QED
    BY <1>2, <2>1
<1> HIDE DEF U
<1>3. Nat \subseteq U
  BY <1>1, <1>2, NatInduct
<1>4. QED
  BY <1>3 DEF U

LEMMA PowerGrows ==
  ASSUME NEW m \in Nat, NEW n \in Nat, m <= n PROVE Power[m] <= Power[n]
<1> DEFINE U == {k \in Nat : Power[m] <= Power[m + k]}
<1>1. 0 \in U
  BY PowerType
<1>2. ASSUME NEW k \in Nat, k \in U PROVE k + 1 \in U
  <2>1. m + k \in Nat /\ m + (k + 1) \in Nat /\ m + (k + 1) # 0
        /\ (m + (k + 1)) - 1 = m + k
    OBVIOUS
  <2>2. Power[m + (k + 1)] = 2 * Power[m + k]
    BY <2>1, PowerDef
  <2>3. Power[m + k] \in Nat /\ Power[m] \in Nat
    BY <2>1, PowerType
  <2>4. QED
    BY <1>2, <2>2, <2>3
<1> HIDE DEF U
<1>3. Nat \subseteq U
  BY <1>1, <1>2, NatInduct
<1>4. n - m \in U /\ m + (n - m) = n
  BY <1>3
<1>5. QED
  BY <1>4 DEF U

-----------------------------------------------------------------------------
\* What the loop has computed: the base doubled once per pass, short of the
\* ideal or at it.
Ideally(n) == base * Power[n]

DoublingInv ==
  /\ IInv
  /\ i <= attempts
  /\ pc \in {"loop", "cap"} => delay = Ideally(i - 1)
  /\ pc = "cap" => ~Looping
  /\ Exponential

LEMMA IdealGrows ==
  ASSUME TypeOK, NEW m \in Nat, NEW n \in Nat, m <= n
  PROVE  /\ Ideally(m) \in Nat /\ Ideally(n) \in Nat
         /\ Ideally(m) <= Ideally(n)
         /\ Ideally(m + 1) = 2 * Ideally(m)
<1>1. base \in Nat
  BY BackoffAssumption DEF TypeOK
<1>2. Power[m] \in Nat /\ Power[n] \in Nat /\ Power[m] <= Power[n]
  BY PowerType, PowerGrows
<1>3. Power[m + 1] = 2 * Power[m]
  BY PowerDef
<1>4. base * Power[m] <= base * Power[n]
  BY <1>1, <1>2
<1>5. base * (2 * Power[m]) = 2 * (base * Power[m])
  BY <1>1, <1>2
<1>6. QED
  BY <1>1, <1>2, <1>3, <1>4, <1>5 DEF Ideally

\* retryDelay is the exponential backoff its doc promises, capped, and not only
\* within bounds: neither the early return nor the overflow guard changes it.
THEOREM ExponentialAlways == Spec => []Exponential
<1>1. Init => DoublingInv
  <2> SUFFICES ASSUME Init PROVE DoublingInv
    OBVIOUS
  <2>1. IInv
    BY BackoffAssumption DEF Init, IInv, TypeOK
  <2>2. base \in Nat
    BY BackoffAssumption DEF Init
  <2>3. Power[0] = 1
    BY PowerDef
  <2>4. delay = base * Power[0]
    BY <2>2, <2>3 DEF Init
  <2>5. QED
    BY <2>1, <2>4 DEF Init, DoublingInv, Ideally, Exponential
<1>2. ASSUME DoublingInv, [Next]_vars PROVE DoublingInv'
  <2>1. IInv'
    BY <1>2, NextInv DEF DoublingInv
  <2>2. i \in Nat /\ i >= 1 /\ attempts \in Nat /\ i <= attempts
        /\ delay \in Int /\ TypeOK /\ Cap \in Nat /\ i - 1 \in Nat /\ attempts - 1 \in Nat
    BY <1>2, BackoffAssumption DEF DoublingInv, IInv, TypeOK
  <2>3. Ideal = Ideally(attempts - 1)
    BY DEF Ideal, Ideally
  <2>4. CASE Double
    <3>1. delay' = delay * 2
      BY <1>2, <2>2, <2>4, HalfFits, BackoffAssumption
      DEF DoublingInv, IInv, Double, Wrap
    <3>2. i < attempts /\ i' = i + 1 /\ pc' = "loop" /\ pc = "loop" /\ UNCHANGED <<base, attempts>>
      BY <2>4 DEF Double, Looping
    <3>3. Ideally(i) = 2 * Ideally(i - 1)
      BY <2>2, IdealGrows
    <3>4. delay' = Ideally(i)
      BY <1>2, <2>2, <3>1, <3>2, <3>3, IdealGrows DEF DoublingInv
    <3>5. QED
      BY <2>1, <2>2, <3>2, <3>4 DEF DoublingInv, Exponential, Ideally
  <2>5. CASE Saturate
    <3>1. /\ i < attempts /\ delay > Half /\ delay' = Cap /\ pc' = "done" /\ pc = "loop"
          /\ UNCHANGED <<base, attempts, i>>
      BY <2>5 DEF Saturate, Looping
    <3>2. delay * 2 > Cap
      BY <2>2, <3>1, BackoffAssumption DEF Half
    <3>3. Ideally(i) = 2 * Ideally(i - 1) /\ Ideally(i) <= Ideally(attempts - 1)
      BY <2>2, <3>1, IdealGrows
    <3>4. Ideal > Cap
      BY <1>2, <2>2, <2>3, <3>1, <3>2, <3>3, IdealGrows DEF DoublingInv
    <3>5. QED
      BY <2>1, <2>2, <3>1, <3>4 DEF DoublingInv, Exponential, Ideal
  <2>6. CASE LeaveLoop
    BY <1>2, <2>1, <2>6
    DEF LeaveLoop, DoublingInv, Exponential, Ideally, Looping
  <2>7. CASE Return
    <3>1. /\ pc = "cap" /\ pc' = "done" /\ delay' = IF delay > Cap THEN Cap ELSE delay
          /\ UNCHANGED <<base, attempts, i>>
      BY <2>7 DEF Return
    <3>2. delay = Ideally(i - 1) /\ (i = attempts \/ delay >= Cap)
      BY <1>2, <2>2, <3>1 DEF DoublingInv, Looping
    <3>3. Ideal \in Nat /\ Ideally(i - 1) <= Ideal
      BY <2>2, <2>3, IdealGrows
    <3>4. delay' = IF Ideal > Cap THEN Cap ELSE Ideal
      BY <2>2, <2>3, <3>1, <3>2, <3>3
    <3>5. QED
      BY <2>1, <2>2, <3>1, <3>4 DEF DoublingInv, Exponential, Ideal
  <2>8. CASE UNCHANGED vars
    BY <1>2, <2>1, <2>8 DEF vars, DoublingInv, Exponential, Ideal, Ideally, Looping
  <2>9. QED
    BY <1>2, <2>4, <2>5, <2>6, <2>7, <2>8 DEF Next
<1>3. DoublingInv => Exponential
  BY DEF DoublingInv
<1>4. QED
  BY <1>1, <1>2, <1>3, PTL DEF Spec
=============================================================================
