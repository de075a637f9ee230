--------------------------- MODULE LimiterProofs ----------------------------
(***************************************************************************)
(* The limiter is exact for every burst, interval and table.  A bucket     *)
(* accounts for what it let through in two directions: from any time on,   *)
(* no more than its burst and the refills since then; and from the last    *)
(* time it was full, its burst and every refill since, less the tokens it  *)
(* still has.                                                              *)
(***************************************************************************)
EXTENDS Limiter, FiniteSetTheorems, TLAPS

Buckets == Kinds \cup Slots

\* Bursts and intervals are positive, and a slot of the table is not one of
\* the global buckets.
Admissible ==
    /\ Burst \in Nat \ {0} /\ GlobalBurst \in Nat \ {0}
    /\ Interval \in Nat \ {0} /\ GlobalInterval \in Nat \ {0}
    /\ Slots \cap Kinds = {}

\* No more than the burst and the refills: before the last refill, since it.
AtMostEarned(b, k, start) ==
    LET through == Through(b, start)
    IN  /\ through > 0 => k.last_refill + IntervalOf(b) > start
        /\ k.last_refill < start => through + k.tokens <= BurstOf(b)
        /\ k.last_refill >= start =>
             (through + k.tokens - BurstOf(b) - 1) * IntervalOf(b)
                <= k.last_refill - start

\* No less: the last time it was full, and n intervals from there.
AllEarned(b, k) ==
    \E n, start \in Nat :
        /\ k.last_refill = start + n * IntervalOf(b)
        /\ Through(b, start) + k.tokens >= BurstOf(b) + n

\* Bucket k, for b, accounts for the log of b.
Accounts(b, k) ==
    /\ k \in [tokens : 0..BurstOf(b), last_refill : 0..now]
    /\ \A start \in Nat : AtMostEarned(b, k, start)
    /\ AllEarned(b, k)

\* A bucket that refused had let through its burst and every refill.
RefusedRightly ==
    refused # Nobody =>
        \E i \in {1, 2} : \E start \in 0..now :
           Through(refused[i], start)
             >= BurstOf(refused[i]) + (now - start) \div IntervalOf(refused[i])

\* The inductive invariant.
IInv ==
    /\ now \in Nat
    /\ buckets = [b \in Buckets |-> buckets[b]]
    /\ log \in [Buckets -> Seq(0..now)]
    /\ \A b \in Buckets : Accounts(b, buckets[b])
    /\ RefusedRightly

-----------------------------------------------------------------------------
(* Integer division.                                                       *)

\* What the integer division of the code computes.
LEMMA Quotient ==
    ASSUME NEW n \in Nat, NEW d \in Nat, d > 0
    PROVE  /\ n \div d \in Nat
           /\ (n \div d) * d <= n
           /\ n < (n \div d) * d + d
  OBVIOUS

\* Of two natural numbers the quotient reaches m when the dividend reaches m
\* times the divisor.
LEMMA AtLeastQuotient ==
    ASSUME NEW n \in Nat, NEW m \in Nat, NEW d \in Nat, d > 0
    PROVE  n \div d >= m <=> n >= m * d
  <1> DEFINE q == n \div d
  <1>1. q \in Nat /\ q * d <= n /\ n < q * d + d
      BY Quotient
  <1>2. ASSUME q >= m PROVE n >= m * d
      <2>1. q * d >= m * d
          BY <1>1, <1>2
      <2>2. m * d \in Nat /\ q * d \in Nat
          BY <1>1
      <2> HIDE DEF q
      <2> QED
          BY <1>1, <2>1, <2>2
  <1>3. ASSUME q < m PROVE n < m * d
      <2>1. (q + 1) * d <= m * d
          BY <1>1, <1>3
      <2>2. (q + 1) * d = q * d + d /\ m * d \in Nat /\ q * d \in Nat
          BY <1>1
      <2> HIDE DEF q
      <2> QED
          BY <1>1, <2>1, <2>2
  <1> QED
      BY <1>1, <1>2, <1>3

-----------------------------------------------------------------------------

\* Each bucket's policy.
LEMMA Policies ==
    ASSUME Admissible, NEW b \in Buckets
    PROVE  BurstOf(b) \in Nat \ {0} /\ IntervalOf(b) \in Nat \ {0}
  BY DEF Admissible, BurstOf, IntervalOf

\* What went through is a number.
LEMMA Counted ==
    ASSUME IInv, NEW b \in Buckets, NEW start \in Nat
    PROVE  Through(b, start) \in Nat
  <1> DEFINE S == {i \in DOMAIN log[b] : log[b][i] >= start}
  <1>1. log[b] \in Seq(0..now)
      BY DEF IInv
  <1>2. DOMAIN log[b] = 1..Len(log[b]) /\ Len(log[b]) \in Nat
      BY <1>1
  <1>3. IsFiniteSet(1..Len(log[b]))
      BY <1>2, FS_Interval
  <1>4. IsFiniteSet(S)
      BY <1>2, <1>3, FS_Subset
  <1> QED
      BY <1>4, FS_CardinalityType DEF Through

\* One more goes through now, and counts from every time that has come.
LEMMA CountedOnce ==
    ASSUME IInv, NEW b \in Buckets, NEW start \in Nat,
           log'[b] = Append(log[b], now)
    PROVE  Through(b, start)' =
              IF start <= now THEN Through(b, start) + 1 ELSE Through(b, start)
  <1> DEFINE S == {i \in DOMAIN log[b] : log[b][i] >= start}
             last == Len(log[b]) + 1
  <1>1. log[b] \in Seq(0..now) /\ now \in Nat
      BY DEF IInv
  <1>2. DOMAIN log[b] = 1..Len(log[b]) /\ Len(log[b]) \in Nat
      BY <1>1
  <1>3. IsFiniteSet(S)
      <2>1. IsFiniteSet(1..Len(log[b]))
          BY <1>2, FS_Interval
      <2> QED
          BY <1>2, <2>1, FS_Subset
  <1>4. /\ DOMAIN log'[b] = (DOMAIN log[b]) \cup {last}
        /\ \A i \in DOMAIN log[b] : log'[b][i] = log[b][i]
        /\ log'[b][last] = now
        /\ last \notin DOMAIN log[b]
      BY <1>1, <1>2
  <1>5. {i \in DOMAIN log'[b] : log'[b][i] >= start} =
            IF start <= now THEN S \cup {last} ELSE S
      BY <1>1, <1>4
  <1>6. last \notin S
      BY <1>4
  <1>7. Cardinality(S \cup {last}) = Cardinality(S) + 1
      BY <1>3, <1>6, FS_AddElement
  <1> QED
      BY <1>5, <1>7 DEF Through

\* Nothing new goes through.
LEMMA CountedAsBefore ==
    ASSUME NEW b, NEW start, log'[b] = log[b]
    PROVE  Through(b, start)' = Through(b, start)
  BY DEF Through

-----------------------------------------------------------------------------
(* Refilling.                                                              *)

\* The number of whole intervals since the last refill.
Intervals(b) == (now - buckets[b].last_refill) \div IntervalOf(b)

\* Some whole intervals have passed, not enough to fill the bucket.
LEMMA RefillPart ==
    ASSUME Admissible, IInv, NEW b \in Buckets,
           Intervals(b) # 0,
           Intervals(b) < BurstOf(b) - buckets[b].tokens
    PROVE  Accounts(b, [tokens |-> buckets[b].tokens + Intervals(b),
                        last_refill |-> buckets[b].last_refill
                                          + Intervals(b) * IntervalOf(b)])
  <1> DEFINE I == IntervalOf(b)
             B == BurstOf(b)
             tok == buckets[b].tokens
             lr == buckets[b].last_refill
             k == Intervals(b)
             new == [tokens |-> tok + k, last_refill |-> lr + k * I]
  <1>1. I \in Nat \ {0} /\ B \in Nat \ {0} /\ now \in Nat
      BY Policies DEF IInv
  <1>2. tok \in 0..B /\ lr \in 0..now
      BY DEF IInv, Accounts
  <1>3. k \in Nat /\ k * I <= now - lr /\ k >= 1 /\ k * I \in Nat
        /\ k * I >= I
      <2>1. now - lr \in Nat
          BY <1>1, <1>2
      <2>2. k \in Nat /\ k * I <= now - lr
          BY <1>1, <2>1, Quotient DEF Intervals
      <2> HIDE DEF k, I
      <2> QED
          BY <1>1, <2>2 DEF k
  <1>4. tok + k < B
      BY <1>1, <1>2, <1>3
  <1> HIDE DEF k, I, B, tok, lr
  <1>5. new \in [tokens : 0..B, last_refill : 0..now]
      BY <1>1, <1>2, <1>3, <1>4
  <1>6. ASSUME NEW start \in Nat PROVE AtMostEarned(b, new, start)
      <2> DEFINE T == Through(b, start)
      <2>1. T \in Nat
          BY Counted
      <2>2. /\ T > 0 => lr + I > start
            /\ lr < start => T + tok <= B
            /\ lr >= start => (T + tok - B - 1) * I <= lr - start
          BY DEF IInv, Accounts, AtMostEarned, lr, tok, I, B
      <2> HIDE DEF T
      <2>3. T > 0 => lr + k * I + I > start
          BY <1>1, <1>2, <1>3, <2>1, <2>2
      <2>4. lr + k * I < start => T + (tok + k) <= B
          BY <1>1, <1>2, <1>3, <1>4, <2>1, <2>2
      <2>5. ASSUME lr + k * I >= start
            PROVE  (T + (tok + k) - B - 1) * I <= lr + k * I - start
          <3>1. CASE T = 0
              <4>1. T + (tok + k) - B - 1 <= 0
                  BY <1>1, <1>2, <1>3, <1>4, <3>1
              <4>2. (T + (tok + k) - B - 1) * I <= 0
                  BY <1>1, <1>2, <1>3, <2>1, <4>1
              <4> QED
                  BY <1>1, <1>2, <1>3, <2>1, <2>5, <4>2
          <3>2. CASE T > 0 /\ lr < start
              <4>1. T + (tok + k) - B - 1 <= k - 1
                  BY <1>1, <1>2, <1>3, <2>1, <2>2, <3>2
              <4>2. (T + (tok + k) - B - 1) * I <= (k - 1) * I
                  BY <1>1, <1>2, <1>3, <2>1, <4>1
              <4>3. (k - 1) * I = k * I - I
                  BY <1>1, <1>3
              <4>4. (T + (tok + k) - B - 1) * I \in Int
                  BY <1>1, <1>2, <1>3, <2>1
              <4> QED
                  BY <1>1, <1>2, <1>3, <2>2, <3>2, <4>2, <4>3, <4>4
          <3>3. CASE T > 0 /\ lr >= start
              <4>1. (T + (tok + k) - B - 1) * I
                       = (T + tok - B - 1) * I + k * I
                  BY <1>1, <1>2, <1>3, <2>1
              <4>2. (T + tok - B - 1) * I \in Int
                  BY <1>1, <1>2, <2>1
              <4> QED
                  BY <1>1, <1>2, <1>3, <2>2, <3>3, <4>1, <4>2
          <3> QED
              BY <1>2, <2>1, <3>1, <3>2, <3>3
      <2>6. new.tokens = tok + k /\ new.last_refill = lr + k * I
          OBVIOUS
      <2> HIDE DEF new
      <2>7. /\ T > 0 => new.last_refill + I > start
            /\ new.last_refill < start => T + new.tokens <= B
            /\ new.last_refill >= start =>
                  (T + new.tokens - B - 1) * I <= new.last_refill - start
          BY <1>1, <1>2, <1>3, <2>1, <2>3, <2>4, <2>5, <2>6
      <2> QED
          BY <2>7 DEF AtMostEarned, T, I, B
  <1>7. AllEarned(b, new)
      <2>1. PICK n, start \in Nat : /\ lr = start + n * I
                                    /\ Through(b, start) + tok >= B + n
          BY DEF IInv, Accounts, AllEarned, lr, tok, I, B
      <2>2. Through(b, start) \in Nat
          BY Counted
      <2>3. lr + k * I = start + (n + k) * I
          <3>1. (n + k) * I = n * I + k * I /\ n * I \in Nat
              BY <1>1, <1>3
          <3> QED
              BY <1>2, <1>3, <2>1, <3>1
      <2>4. Through(b, start) + (tok + k) >= B + (n + k) /\ n + k \in Nat
          BY <1>1, <1>2, <1>3, <2>1, <2>2
      <2> QED
          BY <2>3, <2>4 DEF AllEarned, I, B
  <1> QED
      BY <1>5, <1>6, <1>7 DEF Accounts, k, I, B, tok, lr

\* Enough have passed to fill it.
LEMMA RefillFull ==
    ASSUME Admissible, IInv, NEW b \in Buckets,
           Intervals(b) # 0,
           ~(Intervals(b) < BurstOf(b) - buckets[b].tokens)
    PROVE  Accounts(b, [tokens |-> BurstOf(b), last_refill |-> now])
  <1> DEFINE I == IntervalOf(b)
             B == BurstOf(b)
             tok == buckets[b].tokens
             lr == buckets[b].last_refill
             k == Intervals(b)
             new == [tokens |-> B, last_refill |-> now]
  <1>1. I \in Nat \ {0} /\ B \in Nat \ {0} /\ now \in Nat
      BY Policies DEF IInv
  <1>2. tok \in 0..B /\ lr \in 0..now
      BY DEF IInv, Accounts
  <1>3. k \in Nat /\ k * I <= now - lr /\ k >= 1 /\ k * I \in Nat
        /\ k * I >= I
      <2>1. now - lr \in Nat
          BY <1>1, <1>2
      <2>2. k \in Nat /\ k * I <= now - lr
          BY <1>1, <2>1, Quotient DEF Intervals
      <2> HIDE DEF k, I
      <2> QED
          BY <1>1, <2>2 DEF k
  <1>4. B - tok <= k
      BY <1>1, <1>2, <1>3
  <1> HIDE DEF k, I, B, tok, lr
  <1>5. new \in [tokens : 0..B, last_refill : 0..now]
      BY <1>1
  <1>6. ASSUME NEW start \in Nat PROVE AtMostEarned(b, new, start)
      <2> DEFINE T == Through(b, start)
      <2>1. T \in Nat
          BY Counted
      <2>2. /\ T > 0 => lr + I > start
            /\ lr < start => T + tok <= B
            /\ lr >= start => (T + tok - B - 1) * I <= lr - start
          BY DEF IInv, Accounts, AtMostEarned, lr, tok, I, B
      <2> HIDE DEF T
      <2>3. T > 0 => now + I > start
          BY <1>1, <1>2, <1>3, <2>1, <2>2
      <2>4. now < start => T + B <= B
          BY <1>1, <1>2, <1>3, <2>1, <2>2
      <2>5. ASSUME now >= start PROVE (T + B - B - 1) * I <= now - start
          <3> SUFFICES (T - 1) * I <= now - start
              BY <1>1, <2>1
          <3>1. CASE T = 0
              <4>1. (T - 1) * I <= 0
                  BY <1>1, <3>1
              <4>2. (T - 1) * I \in Int
                  BY <1>1, <2>1
              <4> QED
                  BY <1>1, <2>5, <4>1, <4>2
          <3>2. CASE T > 0 /\ lr < start
              <4>1. T - 1 <= k - 1
                  BY <1>1, <1>2, <1>3, <1>4, <2>1, <2>2, <3>2
              <4>2. (T - 1) * I <= (k - 1) * I
                  BY <1>1, <1>3, <2>1, <4>1
              <4>3. (k - 1) * I = k * I - I /\ (T - 1) * I \in Int
                  BY <1>1, <1>3, <2>1
              <4> QED
                  BY <1>1, <1>2, <1>3, <2>2, <3>2, <4>2, <4>3
          <3>3. CASE T > 0 /\ lr >= start
              <4>1. (T - 1) * I = (T + tok - B - 1) * I + (B - tok) * I
                  BY <1>1, <1>2, <2>1
              <4>2. (B - tok) * I <= k * I
                  BY <1>1, <1>2, <1>3, <1>4
              <4>3. (T + tok - B - 1) * I \in Int /\ (B - tok) * I \in Int
                  BY <1>1, <1>2, <2>1
              <4> QED
                  BY <1>1, <1>2, <1>3, <2>2, <3>3, <4>1, <4>2, <4>3
          <3> QED
              BY <1>2, <2>1, <3>1, <3>2, <3>3
      <2> QED
          BY <2>3, <2>4, <2>5 DEF AtMostEarned, T, I, B
  <1>7. AllEarned(b, new)
      <2>1. Through(b, now) \in Nat
          BY <1>1, Counted
      <2>2. now = now + 0 * I /\ Through(b, now) + B >= B + 0
          BY <1>1, <2>1
      <2> QED
          BY <1>1, <2>2 DEF AllEarned, I, B
  <1> QED
      BY <1>5, <1>6, <1>7 DEF Accounts, B

\* Refilling keeps the account, and leaves less than an interval uncredited.
LEMMA RefillKeeps ==
    ASSUME Admissible, IInv, NEW b \in Buckets
    PROVE  /\ Accounts(b, Refilled(b))
           /\ now - Refilled(b).last_refill < IntervalOf(b)
  <1> DEFINE I == IntervalOf(b)
             lr == buckets[b].last_refill
             k == Intervals(b)
  <1>1. I \in Nat \ {0} /\ now \in Nat /\ lr \in 0..now
      BY Policies DEF IInv, Accounts
  <1>2. k \in Nat /\ k * I <= now - lr /\ now - lr < k * I + I
      <2>1. now - lr \in Nat
          BY <1>1
      <2> QED
          BY <1>1, <2>1, Quotient DEF Intervals
  <1>3. k * I \in Nat
      BY <1>1, <1>2
  <1>4. CASE k = 0
      <2>1. Refilled(b) = buckets[b]
          BY <1>4 DEF Refilled, Intervals
      <2>2. now - lr < I
          <3>1. k * I = 0
              BY <1>1, <1>4
          <3> HIDE DEF k, lr, I
          <3> QED
              BY <1>1, <1>2, <3>1
      <2> QED
          BY <2>1, <2>2 DEF IInv
  <1>5. CASE k # 0 /\ k < BurstOf(b) - buckets[b].tokens
      <2>1. Refilled(b) = [tokens |-> buckets[b].tokens + k,
                           last_refill |-> lr + k * I]
          BY <1>5 DEF Refilled, Intervals
      <2>2. now - (lr + k * I) < I
          <3> HIDE DEF k, lr, I
          <3> QED
              BY <1>1, <1>2, <1>3
      <2> QED
          BY <1>5, <2>1, <2>2, RefillPart
  <1>6. CASE k # 0 /\ ~(k < BurstOf(b) - buckets[b].tokens)
      <2>1. Refilled(b) = [tokens |-> BurstOf(b), last_refill |-> now]
          BY <1>6 DEF Refilled, Intervals
      <2>2. now - now < I
          BY <1>1
      <2> QED
          BY <1>6, <2>1, <2>2, RefillFull
  <1> QED
      BY <1>4, <1>5, <1>6

-----------------------------------------------------------------------------
(* Spending.                                                               *)

\* A refilled bucket that has a token lets one through.
LEMMA SpendKeeps ==
    ASSUME Admissible, IInv, NEW b \in Buckets, Refilled(b).tokens > 0,
           log'[b] = Append(log[b], now), now' = now,
           buckets'[b] = Spend(Refilled(b))
    PROVE  Accounts(b, buckets[b])'
  <1> DEFINE I == IntervalOf(b)
             B == BurstOf(b)
             r == Refilled(b)
             tok == r.tokens
             lr == r.last_refill
             new == buckets'[b]
  <1>1. Accounts(b, r) /\ now - lr < I
      BY RefillKeeps
  <1>2. I \in Nat \ {0} /\ B \in Nat \ {0} /\ now \in Nat
      BY Policies DEF IInv
  <1>3. r \in [tokens : 0..B, last_refill : 0..now] /\ tok > 0
      BY <1>1 DEF Accounts
  <1>4. /\ new \in [tokens : 0..B, last_refill : 0..now]
        /\ new.tokens = tok - 1
        /\ new.last_refill = lr
      BY <1>2, <1>3 DEF Spend
  <1>5. tok \in 0..B /\ lr \in 0..now /\ tok > 0
      BY <1>3
  <1>6. ASSUME NEW start \in Nat PROVE AtMostEarned(b, buckets[b], start)'
      <2> DEFINE T == Through(b, start)
                 after == Through(b, start)'
      <2>1. T \in Nat /\ after = IF start <= now THEN T + 1 ELSE T
          BY Counted, CountedOnce
      <2>2. /\ T > 0 => lr + I > start
            /\ lr < start => T + tok <= B
            /\ lr >= start => (T + tok - B - 1) * I <= lr - start
          BY <1>1 DEF Accounts, AtMostEarned
      <2> HIDE DEF T, after, tok, lr, r, new, I, B
      <2>a. /\ I \in Nat \ {0} /\ B \in Nat \ {0} /\ now \in Nat
            /\ tok \in Nat /\ lr \in Nat /\ T \in Nat /\ after \in Nat
            /\ tok > 0 /\ tok <= B /\ lr <= now /\ now - lr < I
          BY <1>1, <1>2, <1>5, <2>1
      <2>b. start > now => after = T
          BY <2>1, <2>a
      <2>c. start <= now => after = T + 1
          BY <2>1, <2>a
      <2>3. after > 0 => lr + I > start
          BY <2>2, <2>a, <2>b
      <2>4. lr < start => after + (tok - 1) <= B
          BY <2>2, <2>a, <2>b, <2>c
      <2>5. lr >= start => (after + (tok - 1) - B - 1) * I <= lr - start
          <3>1. SUFFICES ASSUME lr >= start
                         PROVE  (after + (tok - 1) - B - 1) * I <= lr - start
              OBVIOUS
          <3>2. after = T + 1
              BY <2>a, <2>c, <3>1
          <3>3. after + (tok - 1) - B - 1 = T + tok - B - 1
              BY <2>a, <3>2
          <3> QED
              BY <2>2, <3>1, <3>3
      <2>6. /\ after > 0 => new.last_refill + I > start
            /\ new.last_refill < start => after + new.tokens <= B
            /\ new.last_refill >= start =>
                  (after + new.tokens - B - 1) * I <= new.last_refill - start
          BY <1>4, <2>3, <2>4, <2>5
      <2> QED
          BY <2>6 DEF AtMostEarned, after, new, I, B, BurstOf, IntervalOf
  <1>7. AllEarned(b, buckets[b])'
      <2>1. PICK n, start \in Nat : /\ lr = start + n * I
                                    /\ Through(b, start) + tok >= B + n
          BY <1>1 DEF Accounts, AllEarned
      <2>2. start <= lr
          <3>1. n * I \in Nat
              BY <1>2
          <3> HIDE DEF I, lr
          <3> QED
              BY <2>1, <3>1
      <2>3. /\ Through(b, start) \in Nat
            /\ Through(b, start)' = Through(b, start) + 1
          <3>1. start <= now
              BY <1>2, <1>5, <2>2
          <3> QED
              BY <3>1, Counted, CountedOnce
      <2>4. Through(b, start)' + new.tokens >= B + n
          <3> HIDE DEF B, tok, new
          <3> QED
              BY <1>2, <1>4, <1>5, <2>1, <2>3 DEF B
      <2> QED
          BY <1>4, <2>1, <2>4 DEF AllEarned, BurstOf, IntervalOf
  <1> QED
      BY <1>4, <1>6, <1>7 DEF Accounts, BurstOf

\* A bucket that is left alone or refilled lets nothing through.
LEMMA NothingKeeps ==
    ASSUME NEW b, NEW k, Accounts(b, k), now \in Nat, now' \in Nat,
           now' >= now, log'[b] = log[b], buckets'[b] = k
    PROVE  Accounts(b, buckets[b])'
  <1>1. \A start : Through(b, start)' = Through(b, start)
      BY CountedAsBefore
  <1>2. buckets'[b] \in [tokens : 0..BurstOf(b), last_refill : 0..now']
      BY DEF Accounts
  <1>3. \A start \in Nat : AtMostEarned(b, buckets[b], start)'
      BY <1>1 DEF Accounts, AtMostEarned, BurstOf, IntervalOf
  <1>4. AllEarned(b, buckets[b])'
      BY <1>1 DEF Accounts, AllEarned, BurstOf, IntervalOf
  <1> QED
      BY <1>2, <1>3, <1>4 DEF Accounts, BurstOf

-----------------------------------------------------------------------------
(* The limiter.                                                            *)

\* A bucket that is empty after its refill has let everything through.
LEMMA Exhausted ==
    ASSUME Admissible, IInv, NEW b \in Buckets, Refilled(b).tokens = 0
    PROVE  \E start \in 0..now :
              Through(b, start) >= BurstOf(b) + (now - start) \div IntervalOf(b)
  <1> DEFINE I == IntervalOf(b)
             B == BurstOf(b)
             lr == Refilled(b).last_refill
  <1>1. Accounts(b, Refilled(b)) /\ now - lr < I
      BY RefillKeeps
  <1>2. I \in Nat \ {0} /\ B \in Nat \ {0} /\ now \in Nat
      BY Policies DEF IInv
  <1>3. lr \in 0..now
      BY <1>1 DEF Accounts
  <1>4. PICK n, start \in Nat : /\ lr = start + n * I
                                /\ Through(b, start) + 0 >= B + n
      BY <1>1 DEF Accounts, AllEarned
  <1>5. Through(b, start) \in Nat
      BY Counted
  <1> HIDE DEF I, B, lr
  <1>6. n * I \in Nat /\ (n + 1) * I = n * I + I
      BY <1>2
  <1>7. start \in 0..now /\ now - start \in Nat /\ now - start < (n + 1) * I
      BY <1>1, <1>2, <1>3, <1>4, <1>6
  <1>8. ~((now - start) \div I >= n + 1)
      BY <1>2, <1>6, <1>7, AtLeastQuotient
  <1>9. (now - start) \div I \in Nat
      BY <1>2, <1>7, Quotient
  <1>10. Through(b, start) >= B + (now - start) \div I
      BY <1>2, <1>4, <1>5, <1>8, <1>9
  <1> QED
      BY <1>7, <1>10 DEF I, B

\* Every bucket starts full with nothing let through.
LEMMA Start == ASSUME Admissible, Init PROVE IInv
  <1>1. ASSUME NEW b \in Buckets PROVE Accounts(b, buckets[b])
      <2>1. buckets[b] = [tokens |-> BurstOf(b), last_refill |-> 0]
          BY DEF Init, Full, Buckets
      <2>2. BurstOf(b) \in Nat \ {0} /\ IntervalOf(b) \in Nat \ {0} /\ now = 0
          BY Policies DEF Init
      <2>3. ASSUME NEW start \in Nat PROVE Through(b, start) = 0
          <3>1. log[b] = << >>
              BY DEF Init, Buckets
          <3>2. {i \in DOMAIN log[b] : log[b][i] >= start} = {}
              BY <3>1
          <3> QED
              BY <3>2, FS_EmptySet DEF Through
      <2>4. ASSUME NEW start \in Nat PROVE AtMostEarned(b, buckets[b], start)
          <3>1. CASE start = 0
              <4>1. (0 + BurstOf(b) - BurstOf(b) - 1) * IntervalOf(b) <= 0
                  BY <2>2
              <4> QED
                  BY <2>1, <2>2, <2>3, <3>1, <4>1 DEF AtMostEarned
          <3>2. CASE start > 0
              BY <2>1, <2>2, <2>3, <3>2 DEF AtMostEarned
          <3> QED
              BY <3>1, <3>2
      <2>5. AllEarned(b, buckets[b])
          <3>1. 0 = 0 + 0 * IntervalOf(b)
              BY <2>2
          <3>2. Through(b, 0) + BurstOf(b) >= BurstOf(b) + 0
              BY <2>2, <2>3
          <3> QED
              BY <2>1, <3>1, <3>2 DEF AllEarned
      <2> QED
          BY <2>1, <2>2, <2>4, <2>5 DEF Accounts
  <1>2. /\ now \in Nat
        /\ buckets = [b \in Buckets |-> buckets[b]]
        /\ log \in [Buckets -> Seq(0..now)]
        /\ RefusedRightly
      BY DEF Init, Buckets, RefusedRightly
  <1> QED
      BY <1>1, <1>2 DEF IInv

\* charge_handshake, whoever of the three it is that decides.
LEMMA ChargeKeeps ==
    ASSUME Admissible, IInv, NEW a \in Addrs, NEW kind \in Kinds,
           ChargeHandshake(a, kind)
    PROVE  IInv'
  <1> DEFINE slot == Slot[a]
             g == Refilled(kind)
             s == Refilled(slot)
  <1>1. kind \in Buckets /\ slot \in Buckets /\ kind # slot
      BY DEF Buckets, Slots, Admissible
  <1>2. /\ Accounts(kind, g) /\ Accounts(slot, s)
        /\ g.tokens \in Nat /\ s.tokens \in Nat
      <2>1. Accounts(kind, g) /\ Accounts(slot, s)
          BY <1>1, RefillKeeps
      <2>2. BurstOf(kind) \in Nat /\ BurstOf(slot) \in Nat
          BY <1>1, Policies
      <2> QED
          BY <2>1, <2>2 DEF Accounts
  <1>3. now' = now /\ now \in Nat /\ now' >= now
      BY DEF ChargeHandshake, IInv
  <1>4. ASSUME NEW b \in Buckets, buckets'[b] = buckets[b], log'[b] = log[b]
        PROVE  Accounts(b, buckets[b])'
      BY <1>3, <1>4, NothingKeeps DEF IInv
  <1>5. CASE ~Admits(kind, slot)
      <2>1. log' = log /\ refused' = <<kind, slot>>
          BY <1>5 DEF ChargeHandshake
      <2>2. CASE g.tokens = 0
          <3>1. buckets' = [buckets EXCEPT ![kind] = g]
              BY <2>2 DEF ChargeHandshake, Charged
          <3>2. /\ buckets' = [b \in Buckets |-> buckets'[b]]
                /\ buckets'[kind] = g
                /\ \A b \in Buckets : b # kind => buckets'[b] = buckets[b]
              BY <1>1, <3>1 DEF IInv
          <3>3. Accounts(kind, buckets[kind])'
              BY <1>2, <1>3, <2>1, <3>2, NothingKeeps
          <3>4. \A b \in Buckets : Accounts(b, buckets[b])'
              BY <1>4, <2>1, <3>2, <3>3
          <3>5. RefusedRightly'
              <4>1. \E start \in 0..now : Through(kind, start) >=
                        BurstOf(kind) + (now - start) \div IntervalOf(kind)
                  BY <1>1, <2>2, Exhausted
              <4>2. refused'[1] = kind
                  BY <2>1
              <4> QED
                  BY <1>3, <2>1, <4>1, <4>2
                  DEF RefusedRightly, Through, BurstOf, IntervalOf
          <3> QED
              BY <1>3, <2>1, <3>2, <3>4, <3>5 DEF IInv
      <2>3. CASE g.tokens # 0 /\ s.tokens = 0
          <3>1. buckets' = [buckets EXCEPT ![kind] = g, ![slot] = s]
              BY <2>3 DEF ChargeHandshake, Charged
          <3>2. /\ buckets' = [b \in Buckets |-> buckets'[b]]
                /\ buckets'[kind] = g /\ buckets'[slot] = s
                /\ \A b \in Buckets \ {kind, slot} : buckets'[b] = buckets[b]
              BY <1>1, <3>1 DEF IInv
          <3>3. Accounts(kind, buckets[kind])' /\ Accounts(slot, buckets[slot])'
              BY <1>2, <1>3, <2>1, <3>2, NothingKeeps
          <3>4. \A b \in Buckets : Accounts(b, buckets[b])'
              BY <1>4, <2>1, <3>2, <3>3
          <3>5. RefusedRightly'
              <4>1. \E start \in 0..now : Through(slot, start) >=
                        BurstOf(slot) + (now - start) \div IntervalOf(slot)
                  BY <1>1, <2>3, Exhausted
              <4>2. refused'[2] = slot
                  BY <2>1
              <4> QED
                  BY <1>3, <2>1, <4>1, <4>2
                  DEF RefusedRightly, Through, BurstOf, IntervalOf
          <3> QED
              BY <1>3, <2>1, <3>2, <3>4, <3>5 DEF IInv
      <2> QED
          BY <1>2, <1>5, <2>2, <2>3 DEF Admits
  <1>6. CASE Admits(kind, slot)
      <2>1. /\ g.tokens > 0 /\ s.tokens > 0
            /\ refused' = Nobody
            /\ log' = [log EXCEPT ![kind] = Append(@, now),
                                  ![slot] = Append(@, now)]
          BY <1>6 DEF ChargeHandshake, Admits
      <2>2. buckets' = [buckets EXCEPT ![kind] = Spend(g), ![slot] = Spend(s)]
          BY <1>2, <2>1 DEF ChargeHandshake, Charged
      <2>3. /\ buckets' = [b \in Buckets |-> buckets'[b]]
            /\ buckets'[kind] = Spend(g) /\ buckets'[slot] = Spend(s)
            /\ \A b \in Buckets \ {kind, slot} : buckets'[b] = buckets[b]
          BY <1>1, <2>2 DEF IInv
      <2>4. /\ log'[kind] = Append(log[kind], now)
            /\ log'[slot] = Append(log[slot], now)
            /\ \A b \in Buckets \ {kind, slot} : log'[b] = log[b]
          BY <1>1, <2>1 DEF IInv
      <2>5. log' \in [Buckets -> Seq(0..now)]
          <3>1. /\ Append(log[kind], now) \in Seq(0..now)
                /\ Append(log[slot], now) \in Seq(0..now)
              BY <1>1, <1>3 DEF IInv
          <3> QED
              BY <1>1, <2>1, <3>1 DEF IInv
      <2>6. Accounts(kind, buckets[kind])' /\ Accounts(slot, buckets[slot])'
          BY <1>1, <1>3, <2>1, <2>3, <2>4, SpendKeeps
      <2>7. \A b \in Buckets : Accounts(b, buckets[b])'
          BY <1>4, <2>3, <2>4, <2>6
      <2>8. RefusedRightly'
          BY <2>1 DEF RefusedRightly
      <2> QED
          BY <1>3, <2>3, <2>5, <2>7, <2>8 DEF IInv
  <1> QED
      BY <1>5, <1>6

\* A sequence over a set is one over a larger set.
LEMMA SeqOfSubset ==
    ASSUME NEW S, NEW R, S \subseteq R PROVE Seq(S) \subseteq Seq(R)
  <1> SUFFICES ASSUME NEW q \in Seq(S) PROVE q \in Seq(R)
      OBVIOUS
  <1>1. \A i \in 1..Len(q) : q[i] \in R
      OBVIOUS
  <1> QED
      BY <1>1

\* Every step keeps the account.
LEMMA StepKeeps == ASSUME Admissible, IInv, [Next]_vars PROVE IInv'
  <1>1. CASE Tick
      <2>1. /\ now' = now + 1 /\ now \in Nat
            /\ buckets' = buckets /\ log' = log /\ refused' = Nobody
          BY <1>1 DEF Tick, IInv
      <2>2. ASSUME NEW b \in Buckets PROVE Accounts(b, buckets[b])'
          <3>1. /\ Accounts(b, buckets[b])
                /\ now' \in Nat /\ now' >= now
                /\ buckets'[b] = buckets[b] /\ log'[b] = log[b]
              BY <2>1 DEF IInv
          <3> QED
              BY <2>1, <3>1, NothingKeeps
      <2>3. log' \in [Buckets -> Seq(0..now')]
          <3>1. 0..now \subseteq 0..now'
              BY <2>1
          <3>2. Seq(0..now) \subseteq Seq(0..now')
              BY <3>1, SeqOfSubset
          <3> QED
              BY <2>1, <3>2 DEF IInv
      <2> QED
          BY <2>1, <2>2, <2>3 DEF IInv, RefusedRightly
  <1>2. CASE UNCHANGED vars
      <2>1. ASSUME NEW b \in Buckets PROVE Accounts(b, buckets[b])'
          <3>1. /\ Accounts(b, buckets[b])
                /\ now \in Nat /\ now' \in Nat /\ now' >= now
                /\ buckets'[b] = buckets[b] /\ log'[b] = log[b]
              BY <1>2 DEF vars, IInv
          <3> QED
              BY <3>1, NothingKeeps
      <2>2. RefusedRightly'
          BY <1>2 DEF vars, IInv, RefusedRightly, Through, BurstOf, IntervalOf
      <2> QED
          BY <1>2, <2>1, <2>2 DEF vars, IInv
  <1> QED
      BY <1>1, <1>2, ChargeKeeps DEF Next

\* The account gives both bounds.
LEMMA Exact == ASSUME Admissible, IInv PROVE LimitIsExact
  <1>1. ASSUME NEW b \in Buckets, NEW start \in 0..now
        PROVE  Through(b, start)
                 <= BurstOf(b) + 1 + (now - start) \div IntervalOf(b)
      <2> DEFINE I == IntervalOf(b)
                 B == BurstOf(b)
                 T == Through(b, start)
                 tok == buckets[b].tokens
                 lr == buckets[b].last_refill
      <2> SUFFICES T <= B + 1 + (now - start) \div I
          OBVIOUS
      <2>1. I \in Nat \ {0} /\ B \in Nat \ {0} /\ now \in Nat
            /\ start \in Nat /\ start <= now /\ now - start \in Nat
          BY Policies DEF IInv
      <2>2. tok \in 0..B /\ lr \in 0..now
          BY DEF IInv, Accounts
      <2>3. T \in Nat
          BY <2>1, Counted
      <2>4. /\ lr < start => T + tok <= B
            /\ lr >= start => (T + tok - B - 1) * I <= lr - start
          BY <2>1 DEF IInv, Accounts, AtMostEarned
      <2>5. (now - start) \div I \in Nat
          BY <2>1, Quotient
      <2> HIDE DEF I, B, T, tok, lr
      <2>6. CASE T <= B + 1
          BY <2>1, <2>3, <2>5, <2>6
      <2>7. CASE T > B + 1
          <3>1. lr >= start
              BY <2>1, <2>2, <2>3, <2>4, <2>7
          <3>2. (T - B - 1) * I <= (T + tok - B - 1) * I
              BY <2>1, <2>2, <2>3
          <3>3. (T - B - 1) * I \in Nat /\ (T + tok - B - 1) * I \in Nat
                /\ T - B - 1 \in Nat
              BY <2>1, <2>2, <2>3, <2>7
          <3>4. now - start >= (T - B - 1) * I
              BY <2>1, <2>2, <2>4, <3>1, <3>2, <3>3
          <3>5. (now - start) \div I >= T - B - 1
              BY <2>1, <3>3, <3>4, AtLeastQuotient
          <3> QED
              BY <2>1, <2>3, <2>5, <3>5
      <2> QED
          BY <2>1, <2>3, <2>6, <2>7
  <1> QED
      BY <1>1 DEF LimitIsExact, IInv, RefusedRightly, Buckets

\* For every burst, interval, table and collision of addresses, each bucket
\* admits no more than its burst and one datagram for each interval begun,
\* and refuses only once it has admitted its burst and one for each interval
\* completed (endpoint.rs, charge).
THEOREM LimiterExact == ASSUME Admissible PROVE Spec => []LimitIsExact
  <1>1. Init => IInv
      BY Start
  <1>2. IInv /\ [Next]_vars => IInv'
      BY StepKeeps
  <1>3. IInv => LimitIsExact
      BY Exact
  <1> QED
      BY <1>1, <1>2, <1>3, PTL DEF Spec

=============================================================================
