-------------------------------- MODULE Folding --------------------------------
(***************************************************************************)
(* FoldLeft of an operator over a sequence.  The model prints texts and    *)
(* erases windows with it, character by character and line by line; what   *)
(* every step of a fold keeps to, the whole fold does.                     *)
(***************************************************************************)
EXTENDS Integers, SequencesExt, WellFoundedInduction, TLAPS

CONSTANT op(_, _)

\* A set of numbers that is not empty has a least one.
LEMMA LeastNumber ==
    ASSUME NEW T \in SUBSET Nat, T # {}
    PROVE  \E x \in T : \A y \in T : x <= y
<1> DEFINE R == OpToRel(<, Nat)
<1>1. IsWellFoundedOn(R, Nat)
  BY NatLessThanWellFounded
<1> HIDE DEF R
<1>2. PICK x \in T : \A y \in T : ~(<<y, x>> \in R)
  BY <1>1, WFMin
<1>3. \A y \in T : ~(y < x)
  BY <1>2 DEF R, OpToRel
<1> QED BY <1>3

\* A set that holds 0 and the successor of each of its numbers holds every number.
THEOREM NatInduct ==
    ASSUME NEW T, 0 \in T, \A n \in Nat : n \in T => n + 1 \in T
    PROVE \A n \in Nat : n \in T
<1> DEFINE U == {n \in Nat : n \notin T}
<1> SUFFICES ASSUME U # {} PROVE FALSE
  OBVIOUS
<1>1. PICK x \in U : \A y \in U : x <= y
    BY LeastNumber
<1>3. x - 1 \in Nat /\ x - 1 \notin U
    BY <1>1
<1>5. (x - 1) + 1 \in T
    BY <1>3
<1>6. (x - 1) + 1 = x
    BY <1>1
<1> QED BY <1>1, <1>5, <1>6

\* The fold of a sequence as the community modules define it, by the largest index left
\* of a set of them.
Folded(base, seq) == FoldLeft(op, base, seq)

\* One step of that fold, from the sets g that have been folded.
Body(base, seq, g, s) == IF s = {} THEN base ELSE op(g[s \ {Max(s)}], seq[Max(s)])
\* A function on the sets of indices that agrees with it.
IsIter(base, seq, g) == g = [s \in SUBSET DOMAIN seq |-> Body(base, seq, g, s)]

\* The fold is a choice of such a function.
LEMMA FoldIsIter ==
   ASSUME NEW base, NEW seq PROVE Folded(base, seq) = (CHOOSE g : IsIter(base, seq, g))[DOMAIN seq]
BY DEF Folded, FoldLeft, MapThenFoldSet, IsIter, Body

\* The largest index is taken off.
LEMMA MaxOfRange ==
    ASSUME NEW k \in Nat, NEW s \in SUBSET (1..(k + 1))
    PROVE  /\ k + 1 \in s => Max(s) = k + 1
           /\ s \ {Max(s)} \in SUBSET (1..k)
<1>1. ASSUME k + 1 \in s PROVE Max(s) = k + 1
  <2>1. \A y \in s : k + 1 >= y
    OBVIOUS
  <2>2. \A x \in s : (\A y \in s : x >= y) => x = k + 1
    BY <1>1
  <2> QED
    BY <1>1, <2>1, <2>2 DEF Max
<1>2. CASE k + 1 \in s
  <2>1. Max(s) = k + 1
    BY <1>1, <1>2
  <2>2. s \ {k + 1} \in SUBSET (1..k)
    OBVIOUS
  <2> QED
    BY <2>1, <2>2
<1>3. CASE k + 1 \notin s
  <2>1. s \in SUBSET (1..k)
    BY <1>3
  <2> QED
    BY <1>3, <2>1
<1> QED
  BY <1>1, <1>2, <1>3

\* The fold of the first k indices.
Partial(base, seq, k, g) == g = [s \in SUBSET (1..k) |-> Body(base, seq, g, s)]

\* There is such a function for every k, so that the choice is one of them.
LEMMA PartialExists ==
    ASSUME NEW base, NEW seq PROVE \A k \in Nat : \E g : Partial(base, seq, k, g)
<1> DEFINE T == {k \in Nat : \E g : Partial(base, seq, k, g)}
<1>1. 0 \in T
  <2> DEFINE g == [s \in SUBSET (1..0) |-> base]
  <2>1. \A s \in SUBSET (1..0) : s = {}
    OBVIOUS
  <2>2. \A s \in SUBSET (1..0) : Body(base, seq, g, s) = base
    BY <2>1 DEF Body
  <2>3. Partial(base, seq, 0, g)
    BY <2>2 DEF Partial
  <2> QED
    BY <2>3
<1>2. ASSUME NEW k \in Nat, k \in T PROVE k + 1 \in T
  <2>1. PICK g : Partial(base, seq, k, g)
    BY <1>2
  <2> DEFINE h == [s \in SUBSET (1..(k + 1)) |-> Body(base, seq, g, s)]
  <2>2. \A s \in SUBSET (1..k) : s \in SUBSET (1..(k + 1))
    OBVIOUS
  <2>3. \A s \in SUBSET (1..k) : h[s] = g[s]
    BY <2>1, <2>2 DEF Partial
  <2> HIDE DEF h
  <2>4. ASSUME NEW s \in SUBSET (1..(k + 1))
        PROVE  Body(base, seq, h, s) = Body(base, seq, g, s)
    <3>1. s \ {Max(s)} \in SUBSET (1..k)
      BY MaxOfRange
    <3>2. h[s \ {Max(s)}] = g[s \ {Max(s)}]
      BY <2>3, <3>1
    <3> QED
      BY <3>2 DEF Body
  <2>5. h = [s \in SUBSET (1..(k + 1)) |-> Body(base, seq, h, s)]
    BY <2>4 DEF h
  <2> QED
    BY <2>5 DEF Partial
<1> HIDE DEF T
<1>3. \A k \in Nat : k \in T
  BY <1>1, <1>2, NatInduct
<1> QED
  BY <1>3 DEF T

\* The results after each element, up to the fold's.
IsRun(base, seq, n, acc) ==
    /\ acc[0] = base
    /\ \A k \in 0..(n - 1) : acc[k + 1] = op(acc[k], seq[k + 1])
    /\ Folded(base, seq) = acc[n]

\* A fold goes through the sequence step by step.
THEOREM FoldSteps ==
    ASSUME NEW base, NEW seq, NEW n \in Nat, DOMAIN seq = 1..n
    PROVE  \E acc : IsRun(base, seq, n, acc)
<1> DEFINE iter == CHOOSE g : IsIter(base, seq, g)
<1>1. IsIter(base, seq, iter)
  <2>1. PICK g : Partial(base, seq, n, g)
    BY PartialExists
  <2>2. IsIter(base, seq, g)
    BY <2>1 DEF Partial, IsIter
  <2> QED
    BY <2>2
<1>2. Folded(base, seq) = iter[1..n]
  BY FoldIsIter
<1> HIDE DEF iter
<1> DEFINE acc == [k \in 0..n |-> iter[1..k]]
<1>3. acc[0] = base
  <2>1. {} \in SUBSET DOMAIN seq /\ 1..0 = {}
    OBVIOUS
  <2>2. iter[{}] = base
    BY <1>1, <2>1 DEF IsIter, Body
  <2> QED
    BY <2>1, <2>2
<1>4. ASSUME NEW k \in 0..(n - 1) PROVE acc[k + 1] = op(acc[k], seq[k + 1])
  <2>1. 1..(k + 1) \in SUBSET (1..n) /\ 1..(k + 1) # {} /\ (1..(k + 1)) \ {k + 1} = 1..k
    OBVIOUS
  <2>2. Max(1..(k + 1)) = k + 1
    <3>1. 1..(k + 1) \in SUBSET (1..(k + 1)) /\ k + 1 \in 1..(k + 1) /\ k \in Nat
      OBVIOUS
    <3> QED
      BY <3>1, MaxOfRange
  <2>3. iter[1..(k + 1)] = Body(base, seq, iter, 1..(k + 1))
    BY <1>1, <2>1 DEF IsIter
  <2>4. iter[1..(k + 1)] = op(iter[1..k], seq[k + 1])
    BY <2>1, <2>2, <2>3 DEF Body
  <2> QED
    BY <2>4
<1>5. Folded(base, seq) = acc[n]
  BY <1>2
<1> QED
  BY <1>3, <1>4, <1>5 DEF IsRun

\* A fold whose steps lead from each set to the next ends in the last one.
THEOREM FoldGoes ==
    ASSUME NEW S, NEW base, NEW seq, NEW n \in Nat, DOMAIN seq = 1..n,
           base \in S[0],
           \A k \in 0..(n - 1) : \A s \in S[k] : op(s, seq[k + 1]) \in S[k + 1]
    PROVE  Folded(base, seq) \in S[n]
<1>1. PICK acc : IsRun(base, seq, n, acc)
  BY FoldSteps, Zenon
<1> DEFINE T == {k \in Nat : k <= n => acc[k] \in S[k]}
<1>2. 0 \in T
  BY <1>1 DEF IsRun
<1>3. ASSUME NEW k \in Nat, k \in T PROVE k + 1 \in T
  <2> SUFFICES ASSUME k + 1 <= n PROVE acc[k + 1] \in S[k + 1]
    OBVIOUS
  <2>1. k \in 0..(n - 1) /\ acc[k] \in S[k]
    BY <1>3
  <2>2. acc[k + 1] = op(acc[k], seq[k + 1])
    BY <1>1, <2>1 DEF IsRun
  <2> QED
    BY <2>1, <2>2
<1> HIDE DEF T
<1>4. \A k \in Nat : k \in T
  BY <1>2, <1>3, NatInduct
<1> QED
  BY <1>1, <1>4 DEF T, IsRun

\* In particular a set that every step keeps to holds the result.
THEOREM FoldKeeps ==
    ASSUME NEW S, NEW base \in S, NEW seq, NEW n \in Nat, DOMAIN seq = 1..n,
           \A s \in S, i \in 1..n : op(s, seq[i]) \in S
    PROVE  Folded(base, seq) \in S
<1> DEFINE Same == [k \in 0..n |-> S]
<1>1. \A k \in 0..(n - 1) : \A s \in Same[k] : op(s, seq[k + 1]) \in Same[k + 1]
  OBVIOUS
<1>2. base \in Same[0] /\ Same[n] = S
  OBVIOUS
<1> HIDE DEF Same
<1>3. Folded(base, seq) \in Same[n]
  BY <1>1, <1>2, FoldGoes
<1> QED
  BY <1>2, <1>3

\* The fold of a sequence with one more element is one step more.
THEOREM FoldNext ==
    ASSUME NEW base, NEW seq, NEW longer, NEW n \in Nat, DOMAIN seq = 1..n,
           DOMAIN longer = 1..(n + 1), \A i \in 1..n : longer[i] = seq[i]
    PROVE  Folded(base, longer) = op(Folded(base, seq), longer[n + 1])
<1>1. PICK acc : IsRun(base, seq, n, acc)
  BY FoldSteps, Zenon
<1>2. PICK next : IsRun(base, longer, n + 1, next)
  <2>1. n + 1 \in Nat
    OBVIOUS
  <2> QED
    BY <2>1, FoldSteps, Zenon
<1> DEFINE T == {k \in Nat : k <= n => acc[k] = next[k]}
<1>3. 0 \in T
  BY <1>1, <1>2 DEF IsRun
<1>4. ASSUME NEW k \in Nat, k \in T PROVE k + 1 \in T
  <2> SUFFICES ASSUME k + 1 <= n PROVE acc[k + 1] = next[k + 1]
    OBVIOUS
  <2>1. /\ k \in 0..(n - 1) /\ k \in 0..((n + 1) - 1) /\ k + 1 \in 1..n
        /\ acc[k] = next[k]
    BY <1>4
  <2>2. seq[k + 1] = longer[k + 1]
    BY <2>1
  <2>3. acc[k + 1] = op(acc[k], seq[k + 1])
    BY <1>1, <2>1 DEF IsRun
  <2>4. next[k + 1] = op(next[k], longer[k + 1])
    BY <1>2, <2>1 DEF IsRun
  <2> QED
    BY <2>1, <2>2, <2>3, <2>4
<1> HIDE DEF T
<1>5. acc[n] = next[n]
  <2>1. n \in T
    BY <1>3, <1>4, NatInduct
  <2> QED
    BY <2>1 DEF T
<1>6. next[n + 1] = op(next[n], longer[n + 1])
  <2>1. n \in 0..((n + 1) - 1)
    OBVIOUS
  <2> QED
    BY <1>2, <2>1 DEF IsRun
<1> QED
  BY <1>1, <1>2, <1>5, <1>6 DEF IsRun

\* The fold of two sequences, one after the other, goes on with the second from what
\* it made of the first.
THEOREM FoldBoth ==
    ASSUME NEW base, NEW first, NEW second, NEW both, NEW n \in Nat, NEW m \in Nat,
           DOMAIN first = 1..n, DOMAIN second = 1..m, DOMAIN both = 1..(n + m),
           \A i \in 1..n : both[i] = first[i],
           \A i \in 1..m : both[n + i] = second[i]
    PROVE  Folded(base, both) = Folded(Folded(base, first), second)
<1>1. PICK acc : IsRun(base, first, n, acc)
  BY FoldSteps, Zenon
<1>2. PICK next : IsRun(Folded(base, first), second, m, next)
  BY FoldSteps, Zenon
<1>3. PICK all : IsRun(base, both, n + m, all)
  <2>1. n + m \in Nat
    OBVIOUS
  <2> QED
    BY <2>1, FoldSteps, Zenon
<1> DEFINE T == {k \in Nat : k <= n => all[k] = acc[k]}
           U == {k \in Nat : k <= m => all[n + k] = next[k]}
<1>4. 0 \in T
  BY <1>1, <1>3 DEF IsRun
<1>5. ASSUME NEW k \in Nat, k \in T PROVE k + 1 \in T
  <2> SUFFICES ASSUME k + 1 <= n PROVE all[k + 1] = acc[k + 1]
    OBVIOUS
  <2>1. /\ k \in 0..(n - 1) /\ k \in 0..((n + m) - 1) /\ k + 1 \in 1..n
        /\ all[k] = acc[k]
    BY <1>5
  <2>2. all[k + 1] = op(all[k], both[k + 1])
    BY <1>3, <2>1 DEF IsRun
  <2>3. acc[k + 1] = op(acc[k], first[k + 1])
    BY <1>1, <2>1 DEF IsRun
  <2> QED
    BY <2>1, <2>2, <2>3
<1>6. all[n] = acc[n]
  <2> HIDE DEF T
  <2>1. n \in T
    BY <1>4, <1>5, NatInduct
  <2> QED
    BY <2>1 DEF T
<1>7. 0 \in U
  BY <1>1, <1>2, <1>6 DEF IsRun
<1>8. ASSUME NEW k \in Nat, k \in U PROVE k + 1 \in U
  <2> SUFFICES ASSUME k + 1 <= m PROVE all[n + (k + 1)] = next[k + 1]
    OBVIOUS
  <2>1. /\ k \in 0..(m - 1) /\ n + k \in 0..((n + m) - 1) /\ k + 1 \in 1..m
        /\ all[n + k] = next[k] /\ (n + k) + 1 = n + (k + 1)
    BY <1>8
  <2>2. all[(n + k) + 1] = op(all[n + k], both[(n + k) + 1])
    BY <1>3, <2>1 DEF IsRun
  <2>3. next[k + 1] = op(next[k], second[k + 1])
    BY <1>2, <2>1 DEF IsRun
  <2> QED
    BY <2>1, <2>2, <2>3
<1> HIDE DEF T, U
<1>9. m \in U
  BY <1>7, <1>8, NatInduct
<1> QED
  BY <1>2, <1>3, <1>9 DEF U, IsRun

\* The fold of nothing is where it begins.
THEOREM FoldNothing ==
    ASSUME NEW base, NEW seq, DOMAIN seq = 1..0
    PROVE  Folded(base, seq) = base
<1>1. PICK acc : IsRun(base, seq, 0, acc)
  BY FoldSteps, Zenon
<1> QED
  BY <1>1 DEF IsRun

=============================================================================
