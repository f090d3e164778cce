------------------------- MODULE ArithmeticTheorems -------------------------
(***************************************************************************)
(* The arithmetic the models share: what Total computes, for tables of any *)
(* length, and what the deltas of Receivables do to a row.  The proofs     *)
(* about totals look at the least row at which a claim would fail.         *)
(***************************************************************************)
EXTENDS Sums, Receivables, TLAPS, WellFoundedInduction, FiniteSetTheorems

(* Every set of row numbers that is not empty has a least element. *)
LEMMA LeastNumber ==
  ASSUME NEW S \in SUBSET Nat, S # {}
  PROVE  \E n \in S : \A m \in S : n <= m
<1>1. PICK n \in S : \A m \in S : ~ (<<m, n>> \in OpToRel(<, Nat))
  BY NatLessThanWellFounded, WFMin
<1>2. \A m \in S : ~ (m < n)
  BY <1>1 DEF OpToRel
<1>3. QED BY <1>2

(* A set of rows that has row 0 and, with each row, the next, has them all. *)
LEMMA RowInduction ==
  ASSUME NEW n \in Nat, NEW S, 0 \in S,
         \A i \in 1..n : i - 1 \in S => i \in S
  PROVE  \A i \in 0..n : i \in S
<1> DEFINE Bad == {i \in 0..n : i \notin S}
<1>1. SUFFICES ASSUME Bad # {} PROVE FALSE
  OBVIOUS
<1>2. PICK i \in Bad : \A k \in Bad : i <= k
  <2>1. Bad \in SUBSET Nat
    OBVIOUS
  <2> HIDE DEF Bad
  <2>2. QED BY <1>1, <2>1, LeastNumber
<1>3. i \in 1..n /\ i - 1 \in S
  BY <1>2
<1>4. QED BY <1>2, <1>3

(* s holds the running totals of f up to row n. *)
IsRunningTotal(s, f, n) ==
  /\ s \in [0..n -> Int]
  /\ s[0] = 0
  /\ \A i \in 1..n : s[i] = s[i - 1] + f[i]

(* Every table has running totals. *)
LEMMA RunningTotalExists ==
  ASSUME NEW n \in Nat, NEW f \in [1..n -> Int]
  PROVE  \E s : IsRunningTotal(s, f, n)
<1> DEFINE Good == {m \in 0..n : \E s : IsRunningTotal(s, f, m)}
<1>1. 0 \in Good
  <2>1. IsRunningTotal([i \in 0..0 |-> 0], f, 0)
    BY DEF IsRunningTotal
  <2>2. QED BY <2>1
<1>2. ASSUME NEW m \in 1..n, m - 1 \in Good PROVE m \in Good
  <2>1. PICK s : IsRunningTotal(s, f, m - 1)
    BY <1>2
  <2> DEFINE longer == [i \in 0..m |-> IF i = m THEN s[m - 1] + f[m] ELSE s[i]]
  <2>2. /\ f[m] \in Int
        /\ \A i \in 0..m : i # m => i \in 0..(m - 1)
    OBVIOUS
  <2>3. longer \in [0..m -> Int]
    BY <2>1, <2>2 DEF IsRunningTotal
  <2>4. longer[0] = 0
    BY <2>1, <2>2 DEF IsRunningTotal
  <2>5. ASSUME NEW i \in 1..m PROVE longer[i] = longer[i - 1] + f[i]
    BY <2>1, <2>2 DEF IsRunningTotal
  <2>6. IsRunningTotal(longer, f, m)
    BY <2>3, <2>4, <2>5 DEF IsRunningTotal
  <2>7. QED BY <2>6
<1>3. n \in Good
  <2> HIDE DEF Good
  <2>1. n \in 0..n
    OBVIOUS
  <2>2. QED BY <1>1, <1>2, <2>1, RowInduction
<1>4. QED BY <1>3

(* The recursive definition is the table's running totals. *)
LEMMA RunningTotalCorrect ==
  ASSUME NEW n \in Nat, NEW f \in [1..n -> Int]
  PROVE  IsRunningTotal(RunningTotal(f, n), f, n)
<1> DEFINE Step(g) == [i \in 0..n |-> IF i = 0 THEN 0 ELSE g[i - 1] + f[i]]
<1>1. PICK s : IsRunningTotal(s, f, n)
  BY RunningTotalExists
<1>2. s = Step(s)
  BY <1>1 DEF IsRunningTotal
<1>3. RunningTotal(f, n) = CHOOSE g : g = Step(g)
  BY DEF RunningTotal
<1>4. RunningTotal(f, n) = Step(RunningTotal(f, n))
  <2> HIDE DEF Step
  <2>1. QED BY <1>2, <1>3
<1> DEFINE T == RunningTotal(f, n)
<1>5. /\ DOMAIN T = 0..n
      /\ T[0] = 0
      /\ \A i \in 1..n : T[i] = T[i - 1] + f[i]
  <2> HIDE DEF T
  <2>0. T = Step(T)
    BY <1>4 DEF T
  <2>1. QED BY <2>0
<1>6. \A i \in 0..n : T[i] = s[i]
  <2> DEFINE Good == {i \in 0..n : T[i] = s[i]}
  <2> HIDE DEF T
  <2>1. 0 \in Good
    BY <1>1, <1>5 DEF IsRunningTotal
  <2>2. \A i \in 1..n : i - 1 \in Good => i \in Good
    BY <1>1, <1>5 DEF IsRunningTotal
  <2>3. \A i \in 0..n : i \in Good
    <3> HIDE DEF Good
    <3>1. QED BY <2>1, <2>2, RowInduction
  <2>4. QED BY <2>3
<1>7. T = s
  <2>1. T = [i \in 0..n |-> T[i]]
    <3> HIDE DEF T
    <3>1. T = Step(T)
      BY <1>4 DEF T
    <3>2. QED BY <3>1
  <2>2. s = [i \in 0..n |-> s[i]]
    BY <1>1 DEF IsRunningTotal
  <2> HIDE DEF T
  <2>3. QED BY <1>6, <2>1, <2>2
<1>8. QED BY <1>1, <1>7

-----------------------------------------------------------------------------
(* A total of integers is an integer, a total of naturals a natural. *)
THEOREM TotalType ==
  ASSUME NEW n \in Nat, NEW f \in [1..n -> Int]
  PROVE  /\ \A i \in 0..n : RunningTotal(f, n)[i] \in Int
         /\ Total(f, n) \in Int
         /\ (\A i \in 1..n : f[i] >= 0) =>
              /\ \A i \in 0..n : RunningTotal(f, n)[i] \in Nat
              /\ Total(f, n) \in Nat
<1> DEFINE T == RunningTotal(f, n)
           Good == {i \in 0..n : T[i] >= 0}
<1>1. IsRunningTotal(T, f, n)
  BY RunningTotalCorrect
<1>2. \A i \in 0..n : T[i] \in Int
  BY <1>1 DEF IsRunningTotal
<1>3. ASSUME \A i \in 1..n : f[i] >= 0
      PROVE  \A i \in 0..n : T[i] \in Nat
  <2> HIDE DEF T
  <2>1. 0 \in Good
    BY <1>1 DEF IsRunningTotal
  <2>2. ASSUME NEW i \in 1..n, i - 1 \in Good PROVE i \in Good
    BY <1>1, <1>2, <1>3, <2>2 DEF IsRunningTotal
  <2>3. \A i \in 0..n : i \in Good
    <3> HIDE DEF Good
    <3>1. QED BY <2>1, <2>2, RowInduction
  <2>4. QED BY <1>2, <2>3
<1>4. n \in 0..n
  OBVIOUS
<1> HIDE DEF T
<1>5. QED BY <1>2, <1>3, <1>4 DEF Total, T

(* Adding a table to a table, row by row, adds its total to the total. *)
THEOREM TotalAddition ==
  ASSUME NEW n \in Nat, NEW f \in [1..n -> Int], NEW g \in [1..n -> Int],
         NEW h \in [1..n -> Int], \A i \in 1..n : h[i] = f[i] + g[i]
  PROVE  Total(h, n) = Total(f, n) + Total(g, n)
<1> DEFINE F == RunningTotal(f, n)
           G == RunningTotal(g, n)
           H == RunningTotal(h, n)
           Good == {i \in 0..n : H[i] = F[i] + G[i]}
<1>1. IsRunningTotal(F, f, n) /\ IsRunningTotal(G, g, n) /\ IsRunningTotal(H, h, n)
  BY RunningTotalCorrect
<1> HIDE DEF F, G, H
<1>2. 0 \in Good
  BY <1>1 DEF IsRunningTotal
<1>3. ASSUME NEW i \in 1..n, i - 1 \in Good PROVE i \in Good
  <2>0. i - 1 \in 0..n
    OBVIOUS
  <2>1. /\ F[i - 1] \in Int /\ G[i - 1] \in Int
        /\ f[i] \in Int /\ g[i] \in Int
    <3>1. F \in [0..n -> Int] /\ G \in [0..n -> Int]
      BY <1>1 DEF IsRunningTotal
    <3>2. QED BY <2>0, <3>1
  <2>2. /\ F[i] = F[i - 1] + f[i]
        /\ G[i] = G[i - 1] + g[i]
        /\ H[i] = H[i - 1] + h[i]
    BY <1>1 DEF IsRunningTotal
  <2>3. QED BY <1>3, <2>1, <2>2
<1>4. n \in Good
  <2> HIDE DEF Good
  <2>1. n \in 0..n
    OBVIOUS
  <2>2. QED BY <1>2, <1>3, <2>1, RowInduction
<1>5. QED BY <1>4 DEF Total, F, G, H

(* A table with one row that may differ from 0 totals to that row. *)
THEOREM TotalOfOneRow ==
  ASSUME NEW n \in Nat, NEW f \in [1..n -> Int], NEW k \in 1..n,
         \A i \in 1..n : i # k => f[i] = 0
  PROVE  Total(f, n) = f[k]
<1> DEFINE F == RunningTotal(f, n)
           Good == {i \in 0..n : F[i] = IF i < k THEN 0 ELSE f[k]}
<1>1. IsRunningTotal(F, f, n)
  BY RunningTotalCorrect
<1> HIDE DEF F
<1>2. 0 \in Good
  BY <1>1 DEF IsRunningTotal
<1>3. ASSUME NEW i \in 1..n, i - 1 \in Good PROVE i \in Good
  <2>1. F[i] = F[i - 1] + f[i] /\ f[i] \in Int /\ f[k] \in Int
    BY <1>1 DEF IsRunningTotal
  <2>2. QED BY <1>3, <2>1
<1>4. n \in Good
  <2> HIDE DEF Good
  <2>1. n \in 0..n
    OBVIOUS
  <2>2. QED BY <1>2, <1>3, <2>1, RowInduction
<1>5. QED BY <1>4 DEF Total, F

(* A table of zeros totals to 0. *)
THEOREM TotalOfZeros ==
  ASSUME NEW n \in Nat, NEW f \in [1..n -> Int], \A i \in 1..n : f[i] = 0
  PROVE  Total(f, n) = 0
<1> DEFINE F == RunningTotal(f, n)
           Good == {i \in 0..n : F[i] = 0}
<1>1. IsRunningTotal(F, f, n)
  BY RunningTotalCorrect
<1> HIDE DEF F
<1>2. 0 \in Good
  BY <1>1 DEF IsRunningTotal
<1>3. \A i \in 1..n : i - 1 \in Good => i \in Good
  BY <1>1 DEF IsRunningTotal
<1>4. n \in Good
  <2> HIDE DEF Good
  <2>1. n \in 0..n
    OBVIOUS
  <2>2. QED BY <1>2, <1>3, <2>1, RowInduction
<1>5. QED BY <1>4 DEF Total, F

(* Changing one row changes the total by as much. *)
THEOREM TotalUpdate ==
  ASSUME NEW n \in Nat, NEW f \in [1..n -> Int], NEW g \in [1..n -> Int],
         NEW k \in 1..n, \A i \in 1..n : i # k => g[i] = f[i]
  PROVE  Total(g, n) = Total(f, n) + g[k] - f[k]
<1> DEFINE d == [i \in 1..n |-> g[i] - f[i]]
<1>1. d \in [1..n -> Int] /\ \A i \in 1..n : g[i] = f[i] + d[i]
  OBVIOUS
<1>2. \A i \in 1..n : i # k => d[i] = 0
  OBVIOUS
<1>3. d[k] = g[k] - f[k] /\ f[k] \in Int /\ g[k] \in Int
  OBVIOUS
<1> HIDE DEF d
<1>4. Total(g, n) = Total(f, n) + Total(d, n)
  BY <1>1, TotalAddition
<1>5. Total(d, n) = d[k]
  BY <1>1, <1>2, TotalOfOneRow
<1>6. Total(f, n) \in Int
  BY TotalType
<1>7. QED BY <1>3, <1>4, <1>5, <1>6

(* No row of a table of naturals is more than the total. *)
THEOREM TotalAtLeastRow ==
  ASSUME NEW n \in Nat, NEW f \in [1..n -> Nat], NEW k \in 1..n
  PROVE  f[k] <= Total(f, n)
<1> DEFINE g == [f EXCEPT ![k] = 0]
<1>1. /\ f \in [1..n -> Int] /\ g \in [1..n -> Int]
      /\ \A i \in 1..n : g[i] >= 0 /\ (i # k => g[i] = f[i])
      /\ g[k] = 0 /\ f[k] \in Nat
  OBVIOUS
<1> HIDE DEF g
<1>2. Total(g, n) = Total(f, n) + g[k] - f[k]
  BY <1>1, TotalUpdate
<1>3. Total(g, n) \in Nat /\ Total(f, n) \in Int
  BY <1>1, TotalType
<1>4. QED BY <1>1, <1>2, <1>3

(* One more row adds to the total what it holds. *)
THEOREM TotalExtended ==
  ASSUME NEW n \in Nat, NEW f \in [1..n -> Int], NEW g \in [1..(n + 1) -> Int],
         \A i \in 1..n : g[i] = f[i]
  PROVE  Total(g, n + 1) = Total(f, n) + g[n + 1]
<1> DEFINE F == RunningTotal(f, n)
           G == RunningTotal(g, n + 1)
           Good == {i \in 0..n : G[i] = F[i]}
<1>1. IsRunningTotal(F, f, n) /\ IsRunningTotal(G, g, n + 1)
  BY RunningTotalCorrect
<1> HIDE DEF F, G
<1>2. 0 \in Good
  BY <1>1 DEF IsRunningTotal
<1>3. ASSUME NEW i \in 1..n, i - 1 \in Good PROVE i \in Good
  <2>1. i \in 1..(n + 1)
    OBVIOUS
  <2>2. G[i] = G[i - 1] + g[i] /\ F[i] = F[i - 1] + f[i] /\ g[i] = f[i]
    BY <1>1, <2>1 DEF IsRunningTotal
  <2>3. QED BY <1>3, <2>2
<1>4. n \in Good
  <2> HIDE DEF Good
  <2>1. n \in 0..n
    OBVIOUS
  <2>2. QED BY <1>2, <1>3, <2>1, RowInduction
<1>5. G[n + 1] = G[n] + g[n + 1]
  <2>1. n + 1 \in 1..(n + 1) /\ (n + 1) - 1 = n
    OBVIOUS
  <2>2. QED BY <1>1, <2>1 DEF IsRunningTotal
<1>6. QED BY <1>4, <1>5 DEF Total, F, G

(* Rows that are no more make a total that is no more. *)
THEOREM TotalAtMost ==
  ASSUME NEW n \in Nat, NEW f \in [1..n -> Int], NEW g \in [1..n -> Int],
         \A i \in 1..n : g[i] <= f[i]
  PROVE  Total(g, n) <= Total(f, n)
<1> DEFINE d == [i \in 1..n |-> f[i] - g[i]]
<1>1. /\ d \in [1..n -> Int] /\ \A i \in 1..n : f[i] = g[i] + d[i]
      /\ \A i \in 1..n : d[i] >= 0
  OBVIOUS
<1> HIDE DEF d
<1>2. Total(f, n) = Total(g, n) + Total(d, n)
  BY <1>1, TotalAddition
<1>3. Total(d, n) \in Nat /\ Total(g, n) \in Int
  BY <1>1, TotalType
<1>4. QED BY <1>2, <1>3

(* Splitting a table by the owner of each row splits its total, if every   *)
(* row that counts has one.                                                *)
RowsOf(f, owner, n, s) == [i \in 1..n |-> IF owner[i] = s THEN f[i] ELSE 0]

THEOREM TotalByKey ==
  ASSUME NEW n \in Nat, NEW m \in Nat, NEW f \in [1..n -> Int],
         NEW owner, \A i \in 1..n : f[i] # 0 => owner[i] \in 1..m
  PROVE  Total([s \in 1..m |-> Total(RowsOf(f, owner, n, s), n)], m) = Total(f, n)
<1> DEFINE R(s) == RunningTotal(RowsOf(f, owner, n, s), n)
           F == RunningTotal(f, n)
           At(i) == [s \in 1..m |-> R(s)[i]]
           Good == {i \in 0..n : Total(At(i), m) = F[i]}
<1>1. \A s \in 1..m : RowsOf(f, owner, n, s) \in [1..n -> Int]
  BY DEF RowsOf
<1>2. \A s \in 1..m : IsRunningTotal(R(s), RowsOf(f, owner, n, s), n)
  BY <1>1, RunningTotalCorrect
<1>3. IsRunningTotal(F, f, n)
  BY RunningTotalCorrect
<1> HIDE DEF R, F
<1>4. \A i \in 0..n : At(i) \in [1..m -> Int]
  BY <1>2 DEF IsRunningTotal
<1>5. 0 \in Good
  <2>1. \A s \in 1..m : At(0)[s] = 0
    BY <1>2 DEF IsRunningTotal
  <2>2. At(0) \in [1..m -> Int]
    BY <1>4
  <2> HIDE DEF At
  <2>3. Total(At(0), m) = 0
    BY <2>1, <2>2, TotalOfZeros
  <2>4. F[0] = 0
    BY <1>3 DEF IsRunningTotal
  <2>5. QED BY <2>3, <2>4
<1>6. ASSUME NEW i \in 1..n, i - 1 \in Good PROVE i \in Good
  <2> DEFINE row == [s \in 1..m |-> RowsOf(f, owner, n, s)[i]]
  <2>0. i \in 0..n /\ i - 1 \in 0..n /\ f[i] \in Int
    OBVIOUS
  <2>1. row \in [1..m -> Int]
    BY <1>1
  <2>2. \A s \in 1..m : row[s] = IF s = owner[i] THEN f[i] ELSE 0
    BY DEF RowsOf
  <2>3. \A s \in 1..m : At(i)[s] = At(i - 1)[s] + row[s]
    BY <1>2 DEF IsRunningTotal
  <2>4. At(i) \in [1..m -> Int] /\ At(i - 1) \in [1..m -> Int]
    BY <1>4, <2>0
  <2> HIDE DEF row, At
  <2>5. Total(At(i), m) = Total(At(i - 1), m) + Total(row, m)
    BY <2>1, <2>3, <2>4, TotalAddition
  <2>6. Total(row, m) = f[i]
    <3>1. CASE owner[i] \in 1..m
      BY <2>1, <2>2, <3>1, TotalOfOneRow
    <3>2. CASE owner[i] \notin 1..m
      <4>1. f[i] = 0 /\ \A s \in 1..m : row[s] = 0
        BY <2>2, <3>2
      <4>2. QED BY <2>1, <4>1, TotalOfZeros
    <3>3. QED BY <3>1, <3>2
  <2>7. F[i] = F[i - 1] + f[i]
    BY <1>3 DEF IsRunningTotal
  <2>8. QED BY <1>6, <2>0, <2>5, <2>6, <2>7
<1>7. n \in Good
  <2> HIDE DEF Good
  <2>1. n \in 0..n
    OBVIOUS
  <2>2. QED BY <1>5, <1>6, <2>1, RowInduction
<1>8. QED BY <1>7, Zenon DEF Total, F, R

THEOREM TotalByOwner ==
  ASSUME NEW n \in Nat, NEW m \in Nat, NEW f \in [1..n -> Int],
         NEW owner \in [1..n -> 1..m]
  PROVE  Total([s \in 1..m |-> Total(RowsOf(f, owner, n, s), n)], m) = Total(f, n)
<1>1. \A i \in 1..n : f[i] # 0 => owner[i] \in 1..m
  OBVIOUS
<1>2. QED BY <1>1, TotalByKey

(* A table of tables totals to the same by rows and by columns. *)
THEOREM TotalSwap ==
  ASSUME NEW n \in Nat, NEW m \in Nat, NEW f \in [1..n -> [1..m -> Int]]
  PROVE  Total([i \in 1..n |-> Total(f[i], m)], n)
           = Total([j \in 1..m |-> Total([i \in 1..n |-> f[i][j]], n)], m)
<1> DEFINE Column(j) == [i \in 1..n |-> f[i][j]]
           R(j) == RunningTotal(Column(j), n)
           rows == [i \in 1..n |-> Total(f[i], m)]
           F == RunningTotal(rows, n)
           At(i) == [j \in 1..m |-> R(j)[i]]
           Good == {i \in 0..n : Total(At(i), m) = F[i]}
<1>1. \A j \in 1..m : Column(j) \in [1..n -> Int]
  OBVIOUS
<1>2. \A j \in 1..m : IsRunningTotal(R(j), Column(j), n)
  <2> HIDE DEF Column
  <2>1. QED BY <1>1, RunningTotalCorrect
<1>3. rows \in [1..n -> Int]
  BY TotalType
<1>4. IsRunningTotal(F, rows, n)
  <2> HIDE DEF rows
  <2>1. QED BY <1>3, RunningTotalCorrect
<1> HIDE DEF R, F
<1>5. \A i \in 0..n : At(i) \in [1..m -> Int]
  BY <1>2 DEF IsRunningTotal
<1>6. 0 \in Good
  <2>1. \A j \in 1..m : At(0)[j] = 0
    BY <1>2 DEF IsRunningTotal
  <2>2. At(0) \in [1..m -> Int]
    BY <1>5
  <2> HIDE DEF At
  <2>3. Total(At(0), m) = 0
    BY <2>1, <2>2, TotalOfZeros
  <2>4. F[0] = 0
    BY <1>4 DEF IsRunningTotal
  <2>5. QED BY <2>3, <2>4
<1>7. ASSUME NEW i \in 1..n, i - 1 \in Good PROVE i \in Good
  <2>1. i \in 0..n /\ i - 1 \in 0..n /\ f[i] \in [1..m -> Int]
    OBVIOUS
  <2>2. \A j \in 1..m : At(i)[j] = At(i - 1)[j] + f[i][j]
    BY <1>2 DEF IsRunningTotal
  <2>3. At(i) \in [1..m -> Int] /\ At(i - 1) \in [1..m -> Int]
    BY <1>5, <2>1
  <2>4. F[i] = F[i - 1] + Total(f[i], m)
    BY <1>4 DEF IsRunningTotal
  <2> HIDE DEF At
  <2>5. Total(At(i), m) = Total(At(i - 1), m) + Total(f[i], m)
    BY <2>1, <2>2, <2>3, TotalAddition
  <2>6. QED BY <1>7, <2>1, <2>4, <2>5
<1>8. n \in Good
  <2> HIDE DEF Good
  <2>1. n \in 0..n
    OBVIOUS
  <2>2. QED BY <1>6, <1>7, <2>1, RowInduction
<1>9. QED BY <1>8, Zenon DEF Total, F, R

(* Drawing an amount from the rows in order, from each row no more than it *)
(* has, draws it all unless the rows do not have it.                       *)
THEOREM TotalDrawn ==
  ASSUME NEW n \in Nat, NEW f \in [1..n -> Nat], NEW d \in [1..n -> Int],
         NEW amount \in Nat,
         \A i \in 1..n :
           LET before == RunningTotal(f, n)[i - 1]
               left   == IF before >= amount THEN 0 ELSE amount - before
           IN  d[i] = IF left <= f[i] THEN left ELSE f[i]
  PROVE  Total(d, n) = IF amount <= Total(f, n) THEN amount ELSE Total(f, n)
<1> DEFINE F == RunningTotal(f, n)
           D == RunningTotal(d, n)
           Good == {i \in 0..n : D[i] = IF amount <= F[i] THEN amount ELSE F[i]}
<1>0. f \in [1..n -> Int] /\ \A i \in 1..n : f[i] >= 0
  OBVIOUS
<1>1. /\ IsRunningTotal(F, f, n) /\ IsRunningTotal(D, d, n)
      /\ \A i \in 0..n : F[i] \in Nat
  BY <1>0, RunningTotalCorrect, TotalType
<1>2. \A i \in 1..n :
        d[i] = IF F[i - 1] >= amount THEN 0
               ELSE IF amount - F[i - 1] <= f[i] THEN amount - F[i - 1] ELSE f[i]
  <2>1. \A i \in 1..n : i - 1 \in 0..n
    OBVIOUS
  <2>2. QED BY <1>1, <2>1
<1> HIDE DEF F, D
<1>3. 0 \in Good
  BY <1>1 DEF IsRunningTotal
<1>4. ASSUME NEW i \in 1..n, i - 1 \in Good PROVE i \in Good
  <2>1. /\ i \in 0..n /\ i - 1 \in 0..n /\ f[i] \in Nat /\ F[i - 1] \in Nat
        /\ F[i] = F[i - 1] + f[i] /\ D[i] = D[i - 1] + d[i]
    BY <1>1 DEF IsRunningTotal
  <2>2. D[i - 1] = IF amount <= F[i - 1] THEN amount ELSE F[i - 1]
    BY <1>4
  <2>3. QED BY <1>2, <2>1, <2>2
<1>5. n \in Good
  <2> HIDE DEF Good
  <2>1. \A i \in 0..n : i \in Good
    BY <1>3, <1>4, RowInduction
  <2>2. QED BY <2>1
<1>6. QED BY <1>5 DEF Total, F, D

-----------------------------------------------------------------------------
(* The four deltas keep a receivable's row well typed. *)

LEMMA RefreshedType ==
  ASSUME NEW rec \in Receivable, NEW pastDue \in BOOLEAN
  PROVE  /\ Refreshed(rec, pastDue) \in Receivable
         /\ Refreshed(rec, pastDue).amountPaid = rec.amountPaid
         /\ Exists(Refreshed(rec, pastDue))
<1> DEFINE amounts == RecomputeAmounts(rec)
<1>1. amounts \in Receivable /\ amounts.amountPaid = rec.amountPaid
  <2>1. rec.originalAmount - rec.discountAmount + rec.adjustmentAmount \in Int
    BY DEF Receivable
  <2> DEFINE due == rec.originalAmount - rec.discountAmount + rec.adjustmentAmount
             owing == [rec EXCEPT !.amountDue = due]
  <2>2. due - rec.amountPaid \in Int
    BY <2>1 DEF Receivable
  <2>3. owing \in Receivable /\ owing.amountPaid = rec.amountPaid
    BY <2>1 DEF Receivable
  <2>4. amounts = [owing EXCEPT !.amountOutstanding = due - rec.amountPaid]
    BY DEF RecomputeAmounts, Receivable
  <2> HIDE DEF due, owing, amounts
  <2>5. QED BY <2>2, <2>3, <2>4 DEF Receivable
<1>2. RecomputeStatus(amounts, pastDue) \in ReceivableStatus \ {"NONE"}
  BY DEF RecomputeStatus, ReceivableStatus
<1>3. Refreshed(rec, pastDue)
        = [amounts EXCEPT !.status = RecomputeStatus(amounts, pastDue)]
  BY DEF Refreshed
<1> HIDE DEF amounts
<1>4. QED BY <1>1, <1>2, <1>3 DEF Receivable, Exists

LEMMA DeltaTypes ==
  ASSUME NEW rec \in Receivable, NEW pastDue \in BOOLEAN
  PROVE  /\ \A d \in Int :
              /\ ApplyDiscountDelta(rec, d, pastDue) \in Receivable
              /\ ApplyDiscountDelta(rec, d, pastDue).amountPaid = rec.amountPaid
              /\ Exists(ApplyDiscountDelta(rec, d, pastDue))
              /\ ApplyAdjustmentDelta(rec, d, pastDue) \in Receivable
              /\ ApplyAdjustmentDelta(rec, d, pastDue).amountPaid = rec.amountPaid
              /\ Exists(ApplyAdjustmentDelta(rec, d, pastDue))
         /\ \A a \in Nat :
              /\ ApplyPaymentDelta(rec, a, pastDue) \in Receivable
              /\ ApplyPaymentDelta(rec, a, pastDue).amountPaid
                   = rec.amountPaid + a
              /\ Exists(ApplyPaymentDelta(rec, a, pastDue))
              /\ ReversePaymentDelta(rec, a, pastDue) \in Receivable
              /\ ReversePaymentDelta(rec, a, pastDue).amountPaid
                   = IF a <= rec.amountPaid THEN rec.amountPaid - a ELSE 0
              /\ Exists(ReversePaymentDelta(rec, a, pastDue))
<1>1. ASSUME NEW d \in Int
      PROVE  /\ ApplyDiscountDelta(rec, d, pastDue) \in Receivable
             /\ ApplyDiscountDelta(rec, d, pastDue).amountPaid = rec.amountPaid
             /\ Exists(ApplyDiscountDelta(rec, d, pastDue))
  <2>1. [rec EXCEPT !.discountAmount = @ + d] \in Receivable
    BY DEF Receivable
  <2>2. QED BY <2>1, RefreshedType DEF ApplyDiscountDelta, Receivable
<1>2. ASSUME NEW d \in Int
      PROVE  /\ ApplyAdjustmentDelta(rec, d, pastDue) \in Receivable
             /\ ApplyAdjustmentDelta(rec, d, pastDue).amountPaid = rec.amountPaid
             /\ Exists(ApplyAdjustmentDelta(rec, d, pastDue))
  <2>1. [rec EXCEPT !.adjustmentAmount = @ + d] \in Receivable
    BY DEF Receivable
  <2>2. QED BY <2>1, RefreshedType DEF ApplyAdjustmentDelta, Receivable
<1>3. ASSUME NEW a \in Nat
      PROVE  /\ ApplyPaymentDelta(rec, a, pastDue) \in Receivable
             /\ ApplyPaymentDelta(rec, a, pastDue).amountPaid = rec.amountPaid + a
             /\ Exists(ApplyPaymentDelta(rec, a, pastDue))
  <2>1. [rec EXCEPT !.amountPaid = @ + a] \in Receivable
    BY DEF Receivable
  <2>2. QED BY <2>1, RefreshedType DEF ApplyPaymentDelta, Receivable
<1>4. ASSUME NEW a \in Nat
      PROVE  /\ ReversePaymentDelta(rec, a, pastDue) \in Receivable
             /\ ReversePaymentDelta(rec, a, pastDue).amountPaid
                  = IF a <= rec.amountPaid THEN rec.amountPaid - a ELSE 0
             /\ Exists(ReversePaymentDelta(rec, a, pastDue))
  <2>1. [rec EXCEPT !.amountPaid = IF a <= @ THEN @ - a ELSE 0] \in Receivable
    BY DEF Receivable
  <2>2. QED BY <2>1, RefreshedType DEF ReversePaymentDelta, Receivable
<1>5. QED BY <1>1, <1>2, <1>3, <1>4

LEMMA NewReceivableType ==
  /\ \A amount \in Int : /\ NewReceivable(amount) \in Receivable
                         /\ NewReceivable(amount).amountPaid = 0
                         /\ Exists(NewReceivable(amount))
  /\ NoReceivable \in Receivable
  /\ NoReceivable.amountPaid = 0
BY DEF NewReceivable, NoReceivable, Receivable, ReceivableStatus, Exists

-----------------------------------------------------------------------------
(* The amounts of a receivable add up, and each delta moves what is        *)
(* outstanding by as much as it says.                                      *)

Sound(rec) ==
  /\ rec.amountDue = rec.originalAmount - rec.discountAmount + rec.adjustmentAmount
  /\ rec.amountOutstanding = rec.amountDue - rec.amountPaid
  /\ rec.status # "CANCELLED"
  /\ ~ Exists(rec) => rec.amountOutstanding = 0

LEMMA RefreshedSound ==
  ASSUME NEW rec \in Receivable, rec.status # "CANCELLED", NEW pastDue \in BOOLEAN
  PROVE  /\ Sound(Refreshed(rec, pastDue))
         /\ Refreshed(rec, pastDue).amountOutstanding
              = rec.originalAmount - rec.discountAmount + rec.adjustmentAmount
                  - rec.amountPaid
<1> DEFINE due == rec.originalAmount - rec.discountAmount + rec.adjustmentAmount
           new == Refreshed(rec, pastDue)
           status == RecomputeStatus(RecomputeAmounts(rec), pastDue)
<1>1. /\ due \in Int /\ due - rec.amountPaid \in Int
      /\ rec.originalAmount \in Int /\ rec.discountAmount \in Int
      /\ rec.adjustmentAmount \in Int /\ rec.amountPaid \in Nat
  BY DEF Receivable
<1>2. status \notin {"CANCELLED", "NONE"}
  BY DEF RecomputeStatus, RecomputeAmounts, Receivable
<1>3. /\ new.originalAmount = rec.originalAmount
      /\ new.discountAmount = rec.discountAmount
      /\ new.adjustmentAmount = rec.adjustmentAmount
      /\ new.amountPaid = rec.amountPaid
      /\ new.amountDue = due
      /\ new.amountOutstanding = due - rec.amountPaid
      /\ new.status = status
  BY DEF Refreshed, RecomputeAmounts, Receivable
<1> HIDE DEF new, status
<1>4. Sound(new) /\ new.amountOutstanding = due - rec.amountPaid
  BY <1>1, <1>2, <1>3 DEF Sound, Exists
<1>5. QED BY <1>1, <1>4 DEF new

LEMMA DeltaEffects ==
  ASSUME NEW rec \in Receivable, Sound(rec), NEW pastDue \in BOOLEAN
  PROVE  /\ \A d \in Int :
              LET new == ApplyDiscountDelta(rec, d, pastDue) IN
              /\ Sound(new)
              /\ new.amountOutstanding = rec.amountOutstanding - d
         /\ \A d \in Int :
              LET new == ApplyAdjustmentDelta(rec, d, pastDue) IN
              /\ Sound(new)
              /\ new.amountOutstanding = rec.amountOutstanding + d
         /\ \A a \in Nat :
              LET new == ApplyPaymentDelta(rec, a, pastDue) IN
              /\ Sound(new)
              /\ new.amountOutstanding = rec.amountOutstanding - a
         /\ \A a \in Nat :
              LET new == ReversePaymentDelta(rec, a, pastDue) IN
              /\ Sound(new)
              /\ a <= rec.amountPaid =>
                   new.amountOutstanding = rec.amountOutstanding + a
<1>0. /\ rec.amountOutstanding
           = rec.originalAmount - rec.discountAmount + rec.adjustmentAmount
               - rec.amountPaid
      /\ rec.status # "CANCELLED"
      /\ rec.originalAmount \in Int /\ rec.discountAmount \in Int
      /\ rec.adjustmentAmount \in Int /\ rec.amountPaid \in Nat
  BY DEF Receivable, Sound
<1>1. ASSUME NEW d \in Int
      PROVE  LET new == ApplyDiscountDelta(rec, d, pastDue) IN
             Sound(new) /\ new.amountOutstanding = rec.amountOutstanding - d
  <2> DEFINE mid == [rec EXCEPT !.discountAmount = @ + d]
  <2>1. /\ mid \in Receivable /\ mid.status = rec.status
        /\ mid.originalAmount = rec.originalAmount
        /\ mid.discountAmount = rec.discountAmount + d
        /\ mid.adjustmentAmount = rec.adjustmentAmount
        /\ mid.amountPaid = rec.amountPaid
    BY DEF Receivable
  <2>2. ApplyDiscountDelta(rec, d, pastDue) = Refreshed(mid, pastDue)
    BY DEF ApplyDiscountDelta
  <2> HIDE DEF mid
  <2>3. QED BY <1>0, <2>1, <2>2, RefreshedSound
<1>2. ASSUME NEW d \in Int
      PROVE  LET new == ApplyAdjustmentDelta(rec, d, pastDue) IN
             Sound(new) /\ new.amountOutstanding = rec.amountOutstanding + d
  <2> DEFINE mid == [rec EXCEPT !.adjustmentAmount = @ + d]
  <2>1. /\ mid \in Receivable /\ mid.status = rec.status
        /\ mid.originalAmount = rec.originalAmount
        /\ mid.discountAmount = rec.discountAmount
        /\ mid.adjustmentAmount = rec.adjustmentAmount + d
        /\ mid.amountPaid = rec.amountPaid
    BY DEF Receivable
  <2>2. ApplyAdjustmentDelta(rec, d, pastDue) = Refreshed(mid, pastDue)
    BY DEF ApplyAdjustmentDelta
  <2> HIDE DEF mid
  <2>3. QED BY <1>0, <2>1, <2>2, RefreshedSound
<1>3. ASSUME NEW a \in Nat
      PROVE  LET new == ApplyPaymentDelta(rec, a, pastDue) IN
             Sound(new) /\ new.amountOutstanding = rec.amountOutstanding - a
  <2> DEFINE mid == [rec EXCEPT !.amountPaid = @ + a]
  <2>1. /\ mid \in Receivable /\ mid.status = rec.status
        /\ mid.originalAmount = rec.originalAmount
        /\ mid.discountAmount = rec.discountAmount
        /\ mid.adjustmentAmount = rec.adjustmentAmount
        /\ mid.amountPaid = rec.amountPaid + a
    BY DEF Receivable
  <2>2. ApplyPaymentDelta(rec, a, pastDue) = Refreshed(mid, pastDue)
    BY DEF ApplyPaymentDelta
  <2> HIDE DEF mid
  <2>3. QED BY <1>0, <2>1, <2>2, RefreshedSound
<1>4. ASSUME NEW a \in Nat
      PROVE  LET new == ReversePaymentDelta(rec, a, pastDue) IN
             /\ Sound(new)
             /\ a <= rec.amountPaid =>
                  new.amountOutstanding = rec.amountOutstanding + a
  <2> DEFINE left == IF a <= rec.amountPaid THEN rec.amountPaid - a ELSE 0
             mid == [rec EXCEPT !.amountPaid = left]
  <2>0. left \in Nat
    BY <1>0
  <2>1. /\ mid \in Receivable /\ mid.status = rec.status
        /\ mid.originalAmount = rec.originalAmount
        /\ mid.discountAmount = rec.discountAmount
        /\ mid.adjustmentAmount = rec.adjustmentAmount
        /\ mid.amountPaid = left
    BY <2>0 DEF Receivable
  <2>2. ReversePaymentDelta(rec, a, pastDue) = Refreshed(mid, pastDue)
    BY DEF ReversePaymentDelta
  <2> HIDE DEF mid
  <2>3. QED BY <1>0, <2>1, <2>2, RefreshedSound
<1>5. QED BY <1>1, <1>2, <1>3, <1>4

LEMMA NewReceivableSound ==
  /\ \A amount \in Int : /\ Sound(NewReceivable(amount))
                         /\ NewReceivable(amount).amountOutstanding = amount
  /\ Sound(NoReceivable)
  /\ NoReceivable.amountOutstanding = 0
BY DEF NewReceivable, NoReceivable, Sound, Exists

(* Amounts are recomputed from the charge, its discount and its adjustment,  *)
(* which stay as they are.                                                 *)
LEMMA RefreshedKeeps ==
  ASSUME NEW row \in Receivable, NEW pastDue \in BOOLEAN
  PROVE  /\ Refreshed(row, pastDue).discountAmount = row.discountAmount
         /\ Refreshed(row, pastDue).adjustmentAmount = row.adjustmentAmount
<1>1. PICK due, owing :
        /\ due = row.originalAmount - row.discountAmount + row.adjustmentAmount
        /\ owing = due - row.amountPaid
  OBVIOUS
<1>2. RecomputeAmounts(row) = [row EXCEPT !.amountDue = due, !.amountOutstanding = owing]
  BY <1>1 DEF RecomputeAmounts
<1>3. PICK amounts, status :
        /\ amounts = [row EXCEPT !.amountDue = due, !.amountOutstanding = owing]
        /\ status = RecomputeStatus(amounts, pastDue)
  OBVIOUS
<1>4. Refreshed(row, pastDue) = [amounts EXCEPT !.status = status]
  BY <1>2, <1>3 DEF Refreshed
<1>5. QED BY <1>3, <1>4 DEF Receivable

(* Only a discount changes the discount of a row. *)
LEMMA DeltaDiscounts ==
  ASSUME NEW rec \in Receivable, NEW pastDue \in BOOLEAN, NEW a \in Nat
  PROVE  /\ ApplyPaymentDelta(rec, a, pastDue).discountAmount = rec.discountAmount
         /\ ReversePaymentDelta(rec, a, pastDue).discountAmount = rec.discountAmount
         /\ ApplyDiscountDelta(rec, a, pastDue).discountAmount = rec.discountAmount + a
<1>1. \A row \in Receivable : Refreshed(row, pastDue).discountAmount = row.discountAmount
  BY RefreshedKeeps
<1>2. PICK paid : paid = IF a <= rec.amountPaid THEN rec.amountPaid - a ELSE 0
  OBVIOUS
<1>3. /\ [rec EXCEPT !.amountPaid = @ + a] \in Receivable
      /\ [rec EXCEPT !.amountPaid = paid] \in Receivable
      /\ [rec EXCEPT !.discountAmount = @ + a] \in Receivable
  BY <1>2 DEF Receivable
<1>4. /\ [rec EXCEPT !.amountPaid = @ + a].discountAmount = rec.discountAmount
      /\ [rec EXCEPT !.amountPaid = paid].discountAmount = rec.discountAmount
      /\ [rec EXCEPT !.discountAmount = @ + a].discountAmount = rec.discountAmount + a
  BY DEF Receivable
<1>5. /\ ApplyPaymentDelta(rec, a, pastDue) = Refreshed([rec EXCEPT !.amountPaid = @ + a], pastDue)
      /\ ReversePaymentDelta(rec, a, pastDue) = Refreshed([rec EXCEPT !.amountPaid = paid], pastDue)
      /\ ApplyDiscountDelta(rec, a, pastDue) = Refreshed([rec EXCEPT !.discountAmount = @ + a], pastDue)
  BY <1>2 DEF ApplyPaymentDelta, ReversePaymentDelta, ApplyDiscountDelta
<1>6. QED BY <1>1, <1>3, <1>4, <1>5

(* Only an adjustment changes the adjustment of a row. *)
LEMMA DeltaAdjustments ==
  ASSUME NEW rec \in Receivable, NEW pastDue \in BOOLEAN
  PROVE  /\ \A a \in Nat :
              /\ ApplyPaymentDelta(rec, a, pastDue).adjustmentAmount
                   = rec.adjustmentAmount
              /\ ReversePaymentDelta(rec, a, pastDue).adjustmentAmount
                   = rec.adjustmentAmount
              /\ ApplyDiscountDelta(rec, a, pastDue).adjustmentAmount
                   = rec.adjustmentAmount
         /\ \A d \in Int : ApplyAdjustmentDelta(rec, d, pastDue).adjustmentAmount
                             = rec.adjustmentAmount + d
<1>1. \A row \in Receivable :
        Refreshed(row, pastDue).adjustmentAmount = row.adjustmentAmount
  BY RefreshedKeeps
<1>2. ASSUME NEW a \in Nat
      PROVE  ApplyPaymentDelta(rec, a, pastDue).adjustmentAmount = rec.adjustmentAmount
  <2>1. /\ [rec EXCEPT !.amountPaid = @ + a] \in Receivable
        /\ [rec EXCEPT !.amountPaid = @ + a].adjustmentAmount = rec.adjustmentAmount
    BY DEF Receivable
  <2>2. QED BY <1>1, <2>1 DEF ApplyPaymentDelta
<1>3. ASSUME NEW a \in Nat
      PROVE  ReversePaymentDelta(rec, a, pastDue).adjustmentAmount = rec.adjustmentAmount
  <2>1. PICK paid : paid = IF a <= rec.amountPaid THEN rec.amountPaid - a ELSE 0
    OBVIOUS
  <2>2. /\ [rec EXCEPT !.amountPaid = paid] \in Receivable
        /\ [rec EXCEPT !.amountPaid = paid].adjustmentAmount = rec.adjustmentAmount
    BY <2>1 DEF Receivable
  <2>3. ReversePaymentDelta(rec, a, pastDue)
          = Refreshed([rec EXCEPT !.amountPaid = paid], pastDue)
    BY <2>1 DEF ReversePaymentDelta
  <2>4. QED BY <1>1, <2>2, <2>3
<1>4. ASSUME NEW a \in Nat
      PROVE  ApplyDiscountDelta(rec, a, pastDue).adjustmentAmount = rec.adjustmentAmount
  <2>1. /\ [rec EXCEPT !.discountAmount = @ + a] \in Receivable
        /\ [rec EXCEPT !.discountAmount = @ + a].adjustmentAmount = rec.adjustmentAmount
    BY DEF Receivable
  <2>2. QED BY <1>1, <2>1 DEF ApplyDiscountDelta
<1>5. ASSUME NEW d \in Int
      PROVE  ApplyAdjustmentDelta(rec, d, pastDue).adjustmentAmount
               = rec.adjustmentAmount + d
  <2>1. /\ [rec EXCEPT !.adjustmentAmount = @ + d] \in Receivable
        /\ [rec EXCEPT !.adjustmentAmount = @ + d].adjustmentAmount
             = rec.adjustmentAmount + d
    BY DEF Receivable
  <2>2. QED BY <1>1, <2>1 DEF ApplyAdjustmentDelta
<1>6. QED BY <1>2, <1>3, <1>4, <1>5

(* What is numbered from 1 on, without gaps and nothing twice, is as many  *)
(* as the last number says.                                                *)
LEMMA CountOfNumbers ==
  ASSUME NEW S, NEW last \in Nat, NEW number \in [S -> 1..last],
         \A p, q \in S : number[p] = number[q] => p = q,
         \A n \in 1..last : \E p \in S : number[p] = n
  PROVE  IsFiniteSet(S) /\ Cardinality(S) = last
<1>1. PICK which : which = [n \in 1..last |-> CHOOSE p \in S : number[p] = n]
  OBVIOUS
<1>2. /\ which \in [1..last -> S]
      /\ \A n \in 1..last : number[which[n]] = n
  BY <1>1
<1>3. which \in Bijection(1..last, S)
  BY <1>2 DEF Bijection, Injection, Surjection, IsInjective
<1>4. IsFiniteSet(1..last) /\ Cardinality(1..last) = last
  BY FS_Interval
<1>5. QED BY <1>3, <1>4, FS_Bijection DEF ExistsBijection
=============================================================================
