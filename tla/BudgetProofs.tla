---------------------------- MODULE BudgetProofs ----------------------------
(***************************************************************************)
(* The time ready_for gives is exact for every rate, packet size and fixed *)
(* point, and whatever the controller and the traffic did before.  What it *)
(* takes is that the rate keeps to its bounds, so that every tick earns    *)
(* something and a packet always fits the bucket.                          *)
(***************************************************************************)
EXTENDS Budget, TLAPS

\* What BudgetConfig::new admits, and the assertion on Refill::of(MIN_RATE).
Admissible ==
    /\ Fraction \in Nat \ {0}
    /\ Second \in Nat \ {0}
    /\ Rate \in Nat
    /\ MinRate \in Nat
    /\ MinRate <= Rate
    /\ MinRate * Fraction >= Second
    /\ MaxPacket \in Nat
    /\ Overhead \in Nat
    /\ Payloads \subseteq Nat
    /\ Burst \in Nat \ {0}
    /\ Recovery \in Nat \ {0}
    /\ MaxAge \in Nat

\* The inductive invariant: the rate stays between the floor and what was
\* configured, and the bucket does not run below empty.
IInv ==
    /\ rate \in MinRate..Rate
    /\ tokens \in Nat
    /\ refilled \in Nat

-----------------------------------------------------------------------------
(* Integer division.                                                       *)

\* What the integer division of the code computes.
LEMMA Quotient ==
    ASSUME NEW n \in Nat, NEW d \in Nat, d > 0
    PROVE  /\ n \div d \in Nat
           /\ (n \div d) * d <= n
           /\ n < (n \div d) * d + d
  OBVIOUS

\* div_ceil: enough, and one less is not.
LEMMA DivCeil ==
    ASSUME NEW n \in Nat, NEW d \in Nat, d > 0, n > 0
    PROVE  LET q == (n + d - 1) \div d
           IN  q \in Nat /\ q > 0 /\ q * d >= n /\ (q - 1) * d < n
  <1> DEFINE q == (n + d - 1) \div d
  <1>1. q \in Nat /\ q * d <= n + d - 1 /\ n + d - 1 < q * d + d
      BY Quotient
  <1>2. q > 0
      <2>1. q = 0 => q * d = 0
          OBVIOUS
      <2> HIDE DEF q
      <2> QED
          BY <1>1, <2>1
  <1>3. (q - 1) * d = q * d - d
      BY <1>1
  <1> QED
      BY <1>1, <1>2, <1>3

\* Of two natural numbers the quotient reaches m when the dividend reaches m
\* times the divisor.
LEMMA AtLeastQuotient ==
    ASSUME NEW n \in Nat, NEW m \in Nat, NEW d \in Nat, d > 0
    PROVE  n \div d >= m <=> n >= m * d
  <1> DEFINE q == n \div d
  <1>1. q \in Nat /\ q * d <= n /\ n < q * d + d
      BY Quotient
  <1>2. ASSUME q >= m PROVE n >= m * d
      <2>1. q * d >= m * d
          BY <1>1, <1>2
      <2>2. m * d \in Nat /\ q * d \in Nat
          BY <1>1
      <2> HIDE DEF q
      <2> QED
          BY <1>1, <2>1, <2>2
  <1>3. ASSUME q < m PROVE n < m * d
      <2>1. (q + 1) * d <= m * d
          BY <1>1, <1>3
      <2>2. (q + 1) * d = q * d + d /\ m * d \in Nat /\ q * d \in Nat
          BY <1>1
      <2> HIDE DEF q
      <2> QED
          BY <1>1, <2>1, <2>2
  <1> QED
      BY <1>1, <1>2, <1>3

-----------------------------------------------------------------------------
(* The bucket.                                                             *)

\* Every tick earns something.
LEMMA Earns == ASSUME Admissible, IInv PROVE Refill \in Nat /\ Refill > 0
  <1>1. rate * Fraction \in Nat /\ rate * Fraction >= MinRate * Fraction
      BY DEF Admissible, IInv
  <1>2. rate * Fraction >= 1 * Second
      BY <1>1 DEF Admissible
  <1> QED
      BY <1>1, <1>2, AtLeastQuotient, Quotient DEF Admissible, Refill

\* The largest packet fits the bucket.
LEMMA Fits ==
    ASSUME Admissible, NEW r \in Nat
    PROVE  /\ Capacity(r) \in Nat
           /\ Capacity(r) >= MaxPacket * Fraction
  <1>1. r \div Burst \in Nat
      BY Quotient DEF Admissible
  <1>2. /\ AtLeast(MaxPacket, r \div Burst) \in Nat
        /\ AtLeast(MaxPacket, r \div Burst) >= MaxPacket
      BY <1>1 DEF AtLeast, Admissible
  <1> QED
      BY <1>2 DEF Capacity, Admissible

\* At any age the allowance covers m bytes, no more than a packet, exactly
\* when the tokens and what they earned do.
LEMMA Covers ==
    ASSUME Admissible, IInv, NEW age \in Nat, NEW m \in Nat, m <= MaxPacket
    PROVE  Available(age) >= m <=> tokens + age * Refill >= m * Fraction
  <1> DEFINE earned == tokens + age * Refill
  <1>1. earned \in Nat
      BY Earns DEF IInv
  <1>2. rate \in Nat
      BY DEF IInv, Admissible
  <1>3. Capacity(rate) \in Nat /\ Capacity(rate) >= m * Fraction
      <2>1. m * Fraction <= MaxPacket * Fraction
          BY DEF Admissible
      <2>2. m * Fraction \in Nat /\ MaxPacket * Fraction \in Nat
          BY DEF Admissible
      <2> QED
          BY <1>2, <2>1, <2>2, Fits
  <1>4. Level(age) \in Nat /\ (Level(age) >= m * Fraction <=>
                                 earned >= m * Fraction)
      <2>1. Level(age) = IF earned > Capacity(rate) THEN Capacity(rate)
                         ELSE earned
          BY DEF Level, AtMost
      <2>2. m * Fraction \in Nat
          BY DEF Admissible
      <2> HIDE DEF earned
      <2> QED
          BY <1>1, <1>3, <2>1, <2>2
  <1>5. Level(age) \div Fraction >= m <=> Level(age) >= m * Fraction
      BY <1>4, AtLeastQuotient DEF Admissible
  <1>6. Available(age) >= m <=> Level(age) \div Fraction >= m
      <2>1. Level(age) \div Fraction \in Nat
          BY <1>4, Quotient DEF Admissible
      <2> QED
          BY <2>1 DEF Available, AtMost, Admissible
  <1> QED
      BY <1>4, <1>5, <1>6

\* The wait ready_for computes is the first instant that covers the size.
LEMMA Exact == ASSUME Admissible, IInv PROVE ReadyIsExact
  <1> SUFFICES ASSUME NEW p \in Payloads
               PROVE  /\ Available(ReadyFor(p)) >= Needed(p)
                      /\ ReadyFor(p) > 0 =>
                            Available(ReadyFor(p) - 1) < Needed(p)
      BY DEF ReadyIsExact
  <1> DEFINE m == Needed(p)
             deficit == m * Fraction - tokens
             k == ReadyFor(p)
  <1>1. m \in Nat /\ m <= MaxPacket
      BY DEF Needed, AtMost, Admissible
  <1>2. deficit \in Int /\ Refill \in Nat /\ Refill > 0
      BY <1>1, Earns DEF IInv, Admissible
  <1>3. CASE deficit <= 0
      <2>1. k = 0
          BY <1>3 DEF ReadyFor
      <2>2. tokens + 0 * Refill >= m * Fraction
          BY <1>1, <1>2, <1>3 DEF IInv, Admissible
      <2> HIDE DEF m, deficit, k
      <2> QED
          BY <1>1, <2>1, <2>2, Covers DEF m, k
  <1>4. CASE deficit > 0
      <2>1. k = (deficit + Refill - 1) \div Refill
          BY <1>2, <1>4 DEF ReadyFor
      <2>2. k \in Nat /\ k > 0 /\ k * Refill >= deficit
              /\ (k - 1) * Refill < deficit
          <3>1. deficit \in Nat
              BY <1>2, <1>4
          <3> HIDE DEF deficit, k
          <3> QED
              BY <1>2, <1>4, <2>1, <3>1, DivCeil
      <2>3. k - 1 \in Nat /\ k * Refill \in Nat /\ (k - 1) * Refill \in Nat
              /\ m * Fraction \in Nat /\ tokens \in Nat
          BY <1>1, <1>2, <2>2 DEF IInv, Admissible
      <2>4. /\ tokens + k * Refill >= m * Fraction
            /\ ~(tokens + (k - 1) * Refill >= m * Fraction)
          <3> HIDE DEF k, m
          <3> QED
              BY <2>2, <2>3
      <2>5. Available(k) >= m /\ ~(Available(k - 1) >= m)
          <3> HIDE DEF k, m
          <3> QED
              BY <1>1, <2>2, <2>3, <2>4, Covers
      <2>6. Available(k - 1) \in Int
          <3>1. Capacity(rate) \in Nat /\ (k - 1) * Refill \in Nat
              BY <2>3, Fits DEF IInv, Admissible
          <3>2. Level(k - 1) \in Nat
              <4> HIDE DEF k
              <4> QED
                  BY <2>3, <3>1 DEF Level, AtMost
          <3>3. Level(k - 1) \div Fraction \in Nat
              BY <3>2, Quotient DEF Admissible
          <3> HIDE DEF k
          <3> QED
              BY <3>3 DEF Available, AtMost, Admissible
      <2> HIDE DEF m, k, deficit
      <2> QED
          BY <1>1, <2>5, <2>6 DEF m, k
  <1> QED
      BY <1>2, <1>3, <1>4

-----------------------------------------------------------------------------
(* The controller and the traffic.                                         *)

\* A new Budget satisfies the invariant.
LEMMA Start == ASSUME Admissible, Init PROVE IInv
  <1>1. Capacity(Rate) \in Nat
      BY Fits DEF Admissible
  <1> QED
      BY <1>1 DEF Init, IInv, Admissible

\* Assessments keep the rate within its bounds.
LEMMA AssessedBounds ==
    ASSUME Admissible, IInv, NEW queueing \in BOOLEAN
    PROVE  Assessed(queueing) \in MinRate..Rate
  <1>1. rate \in Nat /\ rate \div 4 \in Nat /\ (rate \div 4) * 4 <= rate
      BY Quotient DEF IInv, Admissible
  <1>2. Decreased \in MinRate..Rate
      BY <1>1 DEF Decreased, AtLeast, IInv, Admissible
  <1>3. Rate \div Recovery \in Nat
      BY Quotient DEF Admissible
  <1>4. Increased \in MinRate..Rate
      BY <1>3 DEF Increased, AtLeast, AtMost, IInv, Admissible
  <1> QED
      BY <1>2, <1>4 DEF Assessed, IInv

\* set_rate keeps the rate within its limits.
LEMMA SetRateKeeps ==
    ASSUME Admissible, IInv, NEW r \in MinRate..Rate, SetRate(r),
           refilled' = refilled
    PROVE  IInv'
  <1>1. Capacity(r) \in Nat
      BY Fits DEF Admissible
  <1> QED
      BY <1>1 DEF SetRate, AtMost, IInv

\* Every operation of the Budget keeps the invariant.
LEMMA StepKeeps == ASSUME Admissible, IInv, [Next]_vars PROVE IInv'
  <1>1. CASE Tick
      BY <1>1 DEF Tick, AtMost, IInv, Admissible
  <1>2. CASE PollIdle
      <2>1. PICK queueing \in Queueing : /\ SetRate(Assessed(queueing))
                                         /\ refilled' = refilled
          BY <1>2 DEF PollIdle
      <2>2. queueing \in BOOLEAN
          BY <2>1 DEF Queueing
      <2> QED
          BY <2>1, <2>2, AssessedBounds, SetRateKeeps
  <1>3. ASSUME NEW len \in 1..MaxPacket, NEW eliciting \in BOOLEAN,
               PollSend(len, eliciting)
        PROVE  IInv'
      <2>1. PICK queueing \in Queueing :
                LET r == Assessed(queueing)
                    kept == AtMost(Capacity(r), tokens)
                    earned == refilled * ((r * Fraction) \div Second)
                    level == AtMost(Capacity(r), kept + earned)
                IN  /\ rate' = r
                    /\ tokens' = AtLeast(0, level - len * Fraction)
                    /\ refilled' = 0
          BY <1>3 DEF PollSend
      <2> DEFINE r == Assessed(queueing)
                 kept == AtMost(Capacity(r), tokens)
                 earned == refilled * ((r * Fraction) \div Second)
                 level == AtMost(Capacity(r), kept + earned)
      <2>2. r \in MinRate..Rate
          BY <2>1, AssessedBounds DEF Queueing
      <2>3. Capacity(r) \in Nat
          BY <2>2, Fits DEF Admissible
      <2>4. earned \in Nat
          <3>1. r * Fraction \in Nat
              BY <2>2 DEF Admissible
          <3>2. (r * Fraction) \div Second \in Nat
              BY <3>1, Quotient DEF Admissible
          <3> QED
              BY <3>2 DEF IInv
      <2>5. level \in Nat
          BY <2>3, <2>4 DEF AtMost, IInv
      <2>6. level - len * Fraction \in Int
          BY <2>5 DEF Admissible
      <2>7. tokens' \in Nat
          BY <2>1, <2>6 DEF AtLeast
      <2> QED
          BY <2>1, <2>2, <2>7 DEF IInv
  <1>4. CASE OnLost
      BY <1>4 DEF OnLost, IInv
  <1>5. CASE OnSpurious
      BY <1>5 DEF OnSpurious, IInv
  <1>6. CASE OnPathChange
      BY <1>6, SetRateKeeps DEF OnPathChange, Admissible
  <1>7. CASE Calm
      BY <1>7 DEF Calm, IInv
  <1>8. CASE UNCHANGED vars
      BY <1>8 DEF vars, IInv
  <1> QED
      BY <1>1, <1>2, <1>3, <1>4, <1>5, <1>6, <1>7, <1>8 DEF Next

\* At every moment, for every admissible configuration, ready_for names the
\* first tick at which the allowance covers the datagram: a driver that sleeps
\* until then can send, and could not have sent sooner (budget.rs).
THEOREM ReadyAlwaysExact == ASSUME Admissible PROVE Spec => []ReadyIsExact
  <1>1. Init => IInv
      BY Start
  <1>2. IInv /\ [Next]_vars => IInv'
      BY StepKeeps
  <1>3. IInv => ReadyIsExact
      BY Exact
  <1> QED
      BY <1>1, <1>2, <1>3, PTL DEF Spec

=============================================================================
