---------------------------- MODULE SharedLemmas ----------------------------
(***************************************************************************)
(* What the proofs of several components need: facts about append-only     *)
(* logs (the ledgers, files and tables of the system are sequences that    *)
(* only grow, and what a component answers is often "the latest row that   *)
(* ...", Max over a set of row numbers) and about sums over finite sets    *)
(* (reserved memory, filled quantities), which the community modules       *)
(* define by recursion.                                                    *)
(***************************************************************************)
EXTENDS Integers, Sequences, FiniteSetsExt, Functions, WellFoundedInduction, FiniteSetTheorems, TLAPS

---------------------------------------------------------------------------
(* Sets of natural numbers *)

\* A set of natural numbers has a least element: how a fact about all rows
\* is proved from the first one that would break it.
LEMMA LeastNat ==
    ASSUME NEW S \in SUBSET Nat, S # {}
    PROVE  \E x \in S : \A y \in S : x <= y
<1>1. \E R : IsWellFoundedOn(R, Nat) /\ \A x, y \in Nat : <<y, x>> \in R <=> y < x
  <2>1. \A x, y \in Nat : <<y, x>> \in OpToRel(<, Nat) <=> y < x
    BY Zenon DEF OpToRel
  <2> QED
    BY <2>1, NatLessThanWellFounded, Zenon
<1>2. PICK R : IsWellFoundedOn(R, Nat) /\ \A x, y \in Nat : <<y, x>> \in R <=> y < x
  BY <1>1
<1>3. \E x \in S : \A y \in S : ~ (<<y, x>> \in R)
  BY <1>2, WFMin, Zenon
<1>4. PICK x \in S : \A y \in S : ~ (<<y, x>> \in R)
  BY <1>3
<1>5. \A y \in S : ~ (y < x)
  BY <1>2, <1>4
<1> QED
  BY <1>5

\* A bounded one has a greatest element, which is the value of Max.
LEMMA MaxOfNats ==
    ASSUME NEW S \in SUBSET Nat, S # {}, NEW n \in Nat, \A x \in S : x <= n
    PROVE  Max(S) \in S /\ \A x \in S : x <= Max(S)
<1> DEFINE D == {d \in Nat : \E x \in S : d = n - x}
<1>1. PICK x0 \in S : TRUE
  OBVIOUS
<1>2. n - x0 \in D
  OBVIOUS
<1>3. PICK d \in D : \A e \in D : d <= e
  BY <1>2, LeastNat
<1>4. PICK x \in S : d = n - x
  OBVIOUS
<1>5. \A y \in S : x >= y
  <2> TAKE y \in S
  <2>1. n - y \in D
    OBVIOUS
  <2> QED
    BY <1>3, <1>4, <2>1
<1>6. Max(S) \in S /\ \A y \in S : Max(S) >= y
  BY <1>4, <1>5, Zenon DEF Max
<1> QED
  BY <1>6

\* The greatest element, when it is known.
LEMMA MaxIs ==
    ASSUME NEW S \in SUBSET Nat, NEW m \in S, \A x \in S : x <= m
    PROVE  Max(S) = m
<1>1. Max(S) \in S /\ m <= Max(S)
  BY MaxOfNats
<1>2. Max(S) \in Nat /\ m \in Nat /\ Max(S) <= m
  BY <1>1
<1> QED
  BY <1>1, <1>2

---------------------------------------------------------------------------
(* Rows of a log *)

\* An append adds one row and leaves the others where they are.
LEMMA AppendedLog ==
    ASSUME NEW T, NEW log \in Seq(T), NEW row \in T
    PROVE  /\ Append(log, row) \in Seq(T)
           /\ Len(log) \in Nat /\ DOMAIN log = 1..Len(log)
           /\ Len(Append(log, row)) = Len(log) + 1
           /\ DOMAIN Append(log, row) = DOMAIN log \cup {Len(log) + 1}
           /\ Len(log) + 1 \notin DOMAIN log
           /\ Append(log, row)[Len(log) + 1] = row
           /\ \A i \in DOMAIN log : Append(log, row)[i] = log[i]
OBVIOUS

\* The latest of some rows of a log of n rows is one of them, and the next
\* row is later than all.
LEMMA LatestRow ==
    ASSUME NEW n \in Nat, NEW S \in SUBSET (1..n)
    PROVE  /\ Max(S \cup {n + 1}) = n + 1
           /\ S # {} => Max(S) \in S /\ Max(S) \in 1..n /\ \A x \in S : x <= Max(S)
<1>1. S \cup {n + 1} \in SUBSET Nat /\ \A x \in S \cup {n + 1} : x <= n + 1
  OBVIOUS
<1>2. Max(S \cup {n + 1}) = n + 1
  BY <1>1, MaxIs
<1>3. S \in SUBSET Nat /\ \A x \in S : x <= n
  OBVIOUS
<1>4. S # {} => Max(S) \in S /\ \A x \in S : x <= Max(S)
  BY <1>3, MaxOfNats
<1> QED
  BY <1>2, <1>4

\* The log as it was before a row of it was appended.
LEMMA EarlierLog ==
    ASSUME NEW T, NEW log \in Seq(T), NEW row \in T, NEW i \in 1..(Len(log) + 1)
    PROVE  SubSeq(Append(log, row), 1, i - 1) = SubSeq(log, 1, i - 1)
<1>1. i - 1 \in 0..Len(log) /\ i - 1 \in 0..Len(Append(log, row))
  OBVIOUS
<1>2. /\ SubSeq(log, 1, i - 1) = [k \in 1..(i - 1) |-> log[k]]
      /\ SubSeq(Append(log, row), 1, i - 1) = [k \in 1..(i - 1) |-> Append(log, row)[k]]
  BY <1>1
<1>3. \A k \in 1..(i - 1) : Append(log, row)[k] = log[k]
  BY <1>1
<1> QED
  BY <1>2, <1>3

\* A log is its own prefix of full length.
LEMMA WholeLog ==
    ASSUME NEW T, NEW log \in Seq(T)
    PROVE  SubSeq(log, 1, Len(log)) = log
OBVIOUS

\* A prefix of a log has the log's rows, as many as asked for.
LEMMA PrefixOfLog ==
    ASSUME NEW T, NEW log \in Seq(T), NEW n \in 0..Len(log)
    PROVE  /\ SubSeq(log, 1, n) \in Seq(T)
           /\ Len(SubSeq(log, 1, n)) = n /\ DOMAIN SubSeq(log, 1, n) = 1..n
           /\ \A k \in 1..n : SubSeq(log, 1, n)[k] = log[k]
OBVIOUS

---------------------------------------------------------------------------
(* Sums over finite sets *)

\* A family of subsets of a finite set has one that is minimal: how a fact about all
\* sums is proved from the smallest set that would break it.
LEMMA LeastSubset ==
    ASSUME NEW S, IsFiniteSet(S), NEW B \in SUBSET SUBSET S, B # {}
    PROVE  \E T \in B : \A U \in SUBSET T : U # T => U \notin B
<1>1. IsWellFoundedOn(StrictSubsetOrdering(S), SUBSET S)
  BY FS_StrictSubsetOrderingWellFounded, FS_FiniteSubsetsOfFinite
<1>2. PICK T \in B : \A U \in B : ~ (<<U, T>> \in StrictSubsetOrdering(S))
  BY <1>1, WFMin
<1>3. ASSUME NEW U \in SUBSET T, U # T, U \in B PROVE FALSE
  <2>1. <<U, T>> \in (SUBSET S) \X (SUBSET S) /\ <<U, T>>[1] = U /\ <<U, T>>[2] = T
    BY <1>3
  <2>2. <<U, T>> \in StrictSubsetOrdering(S)
    BY <1>3, <2>1, Zenon DEF StrictSubsetOrdering
  <2> QED
    BY <1>2, <1>3, <2>2
<1> QED
  BY <1>3

\* The equation the fold of the community modules solves, for all subsets of S.
Picked(s) == CHOOSE x \in s : TRUE
SumStep(q, S, g) ==
    [s \in SUBSET S |-> IF s = {} THEN 0 ELSE q[Picked(s)] + g[s \ {Picked(s)}]]
Solution(q, S) == CHOOSE g : g = SumStep(q, S, g)

\* A sum over a set is the value at that set of the function that adds one element at a time.
LEMMA SumIsSolution ==
    ASSUME NEW q, NEW S
    PROVE  SumFunctionOnSet(q, S) = Solution(q, S)[S]
BY DEF SumFunctionOnSet, FoldFunctionOnSet, MapThenFoldSet, Solution, SumStep, Picked

\* The element a sum takes next is in the set and leaves it smaller.
LEMMA PickedIs ==
    ASSUME NEW s, s # {}
    PROVE  Picked(s) \in s /\ s \ {Picked(s)} \in SUBSET s /\ s \ {Picked(s)} # s
BY DEF Picked

\* It has one solution at most ...
LEMMA SolutionsAgree ==
    ASSUME NEW q, NEW S, IsFiniteSet(S), NEW T, NEW g, NEW h, g = SumStep(q, S, g), h = SumStep(q, T, h),
           NEW r \in SUBSET S, r \subseteq T
    PROVE  g[r] = h[r]
<1> DEFINE B == {s \in SUBSET S : s \subseteq T /\ g[s] # h[s]}
<1>1. SUFFICES ASSUME B # {} PROVE FALSE
  OBVIOUS
<1>2. PICK s \in B : \A U \in SUBSET s : U # s => U \notin B
  <2>1. B \in SUBSET SUBSET S
    OBVIOUS
  <2> HIDE DEF B
  <2> QED
    BY <1>1, <2>1, LeastSubset
<1>3. /\ g[s] = IF s = {} THEN 0 ELSE q[Picked(s)] + g[s \ {Picked(s)}]
      /\ h[s] = IF s = {} THEN 0 ELSE q[Picked(s)] + h[s \ {Picked(s)}]
  BY DEF SumStep
<1>4. s # {}
  BY <1>3
<1>5. s \ {Picked(s)} \in SUBSET s /\ s \ {Picked(s)} # s
  BY <1>4, PickedIs
<1>6. g[s \ {Picked(s)}] = h[s \ {Picked(s)}]
  BY <1>2, <1>5
<1> QED
  BY <1>3, <1>4, <1>6

\* ... and one at least.
LEMMA SolutionExists ==
    ASSUME NEW q, NEW S, IsFiniteSet(S)
    PROVE  Solution(q, S) = SumStep(q, S, Solution(q, S))
<1> DEFINE Good(T) == \E g : g = SumStep(q, T, g)
           B == {T \in SUBSET S : ~ Good(T)}
           V(T) == Solution(q, T)[T]
<1>1. SUFFICES ASSUME B # {} PROVE FALSE
  <2>1. Good(S)
    BY <1>1
  <2> QED
    BY <2>1 DEF Solution
<1>2. PICK T \in B : \A U \in SUBSET T : U # T => U \notin B
  <2>1. B \in SUBSET SUBSET S
    OBVIOUS
  <2> HIDE DEF B
  <2> QED
    BY <1>1, <2>1, LeastSubset
<1>3. ASSUME NEW U \in SUBSET T, U # T
      PROVE  /\ IsFiniteSet(U) /\ Solution(q, U) = SumStep(q, U, Solution(q, U))
  <2>1. Good(U)
    BY <1>2, <1>3
  <2>2. U \in SUBSET S
    BY <1>3
  <2> QED
    BY <2>1, <2>2, FS_Subset DEF Solution
<1>4. ASSUME NEW U \in SUBSET T, U # T
      PROVE  V(U) = IF U = {} THEN 0 ELSE q[Picked(U)] + V(U \ {Picked(U)})
  <2>1. Solution(q, U)[U] = IF U = {} THEN 0 ELSE q[Picked(U)] + Solution(q, U)[U \ {Picked(U)}]
    BY <1>3, <1>4 DEF SumStep
  <2>2. CASE U = {}
    BY <2>1, <2>2
  <2>3. CASE U # {}
    <3> DEFINE r == U \ {Picked(U)}
    <3>1. r \in SUBSET U /\ r # U /\ r \in SUBSET T /\ r # T
      BY <2>3, <1>4, PickedIs
    <3>2. /\ IsFiniteSet(U) /\ Solution(q, U) = SumStep(q, U, Solution(q, U))
          /\ Solution(q, r) = SumStep(q, r, Solution(q, r))
      BY <1>3, <1>4, <3>1
    <3>3. r \subseteq r
      OBVIOUS
    <3> HIDE DEF r
    <3>4. Solution(q, U)[r] = Solution(q, r)[r]
      BY <3>1, <3>2, <3>3, SolutionsAgree
    <3> QED
      BY <2>1, <2>3, <3>4 DEF r
  <2> QED
    BY <2>2, <2>3
<1> DEFINE top == IF T = {} THEN 0 ELSE q[Picked(T)] + V(T \ {Picked(T)})
           g == [s \in SUBSET T |-> IF s = T THEN top ELSE V(s)]
<1>5. ASSUME NEW s \in SUBSET T
      PROVE  g[s] = IF s = {} THEN 0 ELSE q[Picked(s)] + g[s \ {Picked(s)}]
  <2>1. s # {} => s \ {Picked(s)} \in SUBSET T /\ s \ {Picked(s)} # T /\ s \ {Picked(s)} # s
    <3>1. s # {} => Picked(s) \in s
      BY PickedIs
    <3> QED
      BY <1>5, <3>1
  <2>2. s # {} => g[s \ {Picked(s)}] = V(s \ {Picked(s)})
    BY <2>1
  <2>3. CASE s = T
    BY <2>2, <2>3
  <2>4. CASE s # T
    BY <1>4, <2>2, <2>4
  <2> QED
    BY <2>3, <2>4
<1>6. g = SumStep(q, T, g)
  <2>1. SumStep(q, T, g) = [s \in SUBSET T |-> IF s = {} THEN 0 ELSE q[Picked(s)] + g[s \ {Picked(s)}]]
    BY DEF SumStep
  <2> QED
    BY <1>5, <2>1
<1> QED
  BY <1>2, <1>6

\* So a sum is what its recursive reading says: one element's term, and the sum of the rest.
LEMMA SumUnfold ==
    ASSUME NEW q, NEW S, IsFiniteSet(S)
    PROVE  SumFunctionOnSet(q, S) =
             IF S = {} THEN 0 ELSE q[Picked(S)] + SumFunctionOnSet(q, S \ {Picked(S)})
<1> DEFINE r == S \ {Picked(S)}
<1>1. SumFunctionOnSet(q, S) = Solution(q, S)[S] /\ SumFunctionOnSet(q, r) = Solution(q, r)[r]
  BY SumIsSolution
<1>2. /\ r \in SUBSET S /\ IsFiniteSet(r)
      /\ Solution(q, S) = SumStep(q, S, Solution(q, S))
      /\ Solution(q, r) = SumStep(q, r, Solution(q, r))
  BY SolutionExists, FS_Subset
<1>3. Solution(q, S)[S] = IF S = {} THEN 0 ELSE q[Picked(S)] + Solution(q, S)[r]
  BY <1>2 DEF SumStep
<1>4. Solution(q, S)[r] = Solution(q, r)[r]
  <2>1. r \subseteq r
    OBVIOUS
  <2> HIDE DEF r
  <2> QED
    BY <1>2, <2>1, SolutionsAgree
<1> QED
  BY <1>1, <1>3, <1>4

\* A sum over no elements is zero.
LEMMA SumOfNone == ASSUME NEW q PROVE SumFunctionOnSet(q, {}) = 0
BY SumUnfold, FS_EmptySet

\* A sum of integers is an integer.
LEMMA SumIsInt ==
    ASSUME NEW q, NEW S, IsFiniteSet(S), \A x \in S : q[x] \in Int
    PROVE  SumFunctionOnSet(q, S) \in Int
<1> DEFINE B == {T \in SUBSET S : SumFunctionOnSet(q, T) \notin Int}
<1>1. SUFFICES ASSUME B # {} PROVE FALSE
  OBVIOUS
<1>2. PICK T \in B : \A U \in SUBSET T : U # T => U \notin B
  <2>1. B \in SUBSET SUBSET S
    OBVIOUS
  <2> HIDE DEF B
  <2> QED
    BY <1>1, <2>1, LeastSubset
<1>3. IsFiniteSet(T) /\ T \in SUBSET S /\ SumFunctionOnSet(q, T) \notin Int
  BY <1>2, FS_Subset
<1>4. SumFunctionOnSet(q, T) =
        IF T = {} THEN 0 ELSE q[Picked(T)] + SumFunctionOnSet(q, T \ {Picked(T)})
  BY <1>3, SumUnfold
<1>5. T # {}
  BY <1>3, <1>4
<1>6. Picked(T) \in T /\ T \ {Picked(T)} \in SUBSET T /\ T \ {Picked(T)} # T
  BY <1>5, PickedIs
<1>7. q[Picked(T)] \in Int /\ SumFunctionOnSet(q, T \ {Picked(T)}) \in Int
  BY <1>2, <1>3, <1>6
<1> QED
  BY <1>3, <1>4, <1>5, <1>7

\* Any element's term may be taken out of a sum.
LEMMA SumRemove ==
    ASSUME NEW q, NEW S, IsFiniteSet(S), \A x \in S : q[x] \in Int, NEW y \in S
    PROVE  SumFunctionOnSet(q, S) = q[y] + SumFunctionOnSet(q, S \ {y})
<1> DEFINE Sum(T) == SumFunctionOnSet(q, T)
           B == {T \in SUBSET S : \E z \in T : Sum(T) # q[z] + Sum(T \ {z})}
<1>1. SUFFICES ASSUME B # {} PROVE FALSE
  OBVIOUS
<1>2. PICK T \in B : \A U \in SUBSET T : U # T => U \notin B
  <2>1. B \in SUBSET SUBSET S
    OBVIOUS
  <2> HIDE DEF B
  <2> QED
    BY <1>1, <2>1, LeastSubset
<1>3. PICK z \in T : Sum(T) # q[z] + Sum(T \ {z})
  BY <1>2
<1> DEFINE p == Picked(T)
<1>4. /\ p \in T /\ T \ {p} \in SUBSET T /\ T \ {p} # T
  BY <1>3, PickedIs
<1>5. Sum(T) = q[p] + Sum(T \ {p})
  <2>1. IsFiniteSet(T)
    BY <1>2, FS_Subset
  <2> QED
    BY <1>3, <2>1, SumUnfold
<1> HIDE DEF p
<1>6. p # z
  BY <1>3, <1>5
<1>7. /\ T \ {p} \notin B /\ T \ {z} \notin B
      /\ z \in T \ {p} /\ p \in T \ {z}
      /\ T \ {p} \in SUBSET S /\ T \ {z} \in SUBSET S
      /\ (T \ {p}) \ {z} = (T \ {z}) \ {p}
  BY <1>2, <1>3, <1>4, <1>6
<1>8. /\ Sum(T \ {p}) = q[z] + Sum((T \ {p}) \ {z})
      /\ Sum(T \ {z}) = q[p] + Sum((T \ {z}) \ {p})
  BY <1>7
<1>9. q[p] \in Int /\ q[z] \in Int /\ Sum((T \ {p}) \ {z}) \in Int
  <2> DEFINE rest == (T \ {p}) \ {z}
  <2>1. rest \in SUBSET S /\ p \in S /\ z \in S
    BY <1>2, <1>3, <1>4
  <2>2. IsFiniteSet(rest) /\ \A x \in rest : q[x] \in Int
    BY <2>1, FS_Subset
  <2> HIDE DEF rest
  <2>3. Sum(rest) \in Int
    BY <2>2, SumIsInt
  <2> QED
    BY <2>1, <2>3 DEF rest
<1> HIDE DEF Sum
<1>10. Sum(T) = q[p] + (q[z] + Sum((T \ {p}) \ {z})) /\ Sum(T \ {z}) = q[p] + Sum((T \ {p}) \ {z})
  BY <1>5, <1>7, <1>8
<1> QED
  BY <1>3, <1>9, <1>10

\* Adding an element adds its term.
LEMMA SumAdd ==
    ASSUME NEW q, NEW S, IsFiniteSet(S), NEW y, y \notin S, \A x \in S \cup {y} : q[x] \in Int
    PROVE  SumFunctionOnSet(q, S \cup {y}) = SumFunctionOnSet(q, S) + q[y]
<1>1. IsFiniteSet(S \cup {y}) /\ (S \cup {y}) \ {y} = S /\ y \in S \cup {y}
  BY FS_AddElement
<1>2. SumFunctionOnSet(q, S \cup {y}) = q[y] + SumFunctionOnSet(q, (S \cup {y}) \ {y})
  <2> DEFINE all == S \cup {y}
  <2>1. IsFiniteSet(all) /\ y \in all /\ \A x \in all : q[x] \in Int
    BY <1>1
  <2> HIDE DEF all
  <2>2. SumFunctionOnSet(q, all) = q[y] + SumFunctionOnSet(q, all \ {y})
    BY <2>1, SumRemove
  <2> QED
    BY <2>2 DEF all
<1>3. SumFunctionOnSet(q, S) \in Int
  BY SumIsInt
<1>4. q[y] \in Int
  OBVIOUS
<1>5. SumFunctionOnSet(q, S \cup {y}) = q[y] + SumFunctionOnSet(q, S)
  BY <1>1, <1>2, Zenon
<1> QED
  BY <1>3, <1>4, <1>5

\* A sum depends on the terms of its elements only.
LEMMA SumAgrees ==
    ASSUME NEW q, NEW r, NEW S, IsFiniteSet(S), \A x \in S : q[x] = r[x]
    PROVE  SumFunctionOnSet(q, S) = SumFunctionOnSet(r, S)
<1> DEFINE B == {T \in SUBSET S : SumFunctionOnSet(q, T) # SumFunctionOnSet(r, T)}
<1>1. SUFFICES ASSUME B # {} PROVE FALSE
  OBVIOUS
<1>2. PICK T \in B : \A U \in SUBSET T : U # T => U \notin B
  <2>1. B \in SUBSET SUBSET S
    OBVIOUS
  <2> HIDE DEF B
  <2> QED
    BY <1>1, <2>1, LeastSubset
<1>3. IsFiniteSet(T) /\ T \in SUBSET S /\ SumFunctionOnSet(q, T) # SumFunctionOnSet(r, T)
  BY <1>2, FS_Subset
<1>4. /\ SumFunctionOnSet(q, T) =
            IF T = {} THEN 0 ELSE q[Picked(T)] + SumFunctionOnSet(q, T \ {Picked(T)})
      /\ SumFunctionOnSet(r, T) =
            IF T = {} THEN 0 ELSE r[Picked(T)] + SumFunctionOnSet(r, T \ {Picked(T)})
  BY <1>3, SumUnfold
<1>5. T # {}
  BY <1>3, <1>4
<1>6. Picked(T) \in T /\ T \ {Picked(T)} \in SUBSET T /\ T \ {Picked(T)} # T
  BY <1>5, PickedIs
<1>7. SumFunctionOnSet(q, T \ {Picked(T)}) = SumFunctionOnSet(r, T \ {Picked(T)})
  BY <1>2, <1>3, <1>6
<1> QED
  BY <1>3, <1>4, <1>5, <1>6, <1>7
=============================================================================
