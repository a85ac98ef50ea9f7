-------------------------- MODULE RecursiveFunctions --------------------------
(***************************************************************************)
(* A recursive function is CHOOSE f : f = [x \in D |-> Step(x, f)], which  *)
(* says nothing unless there is such a function.  There is one when Step   *)
(* uses f on smaller arguments only: the clients' loops over positions and *)
(* the hash tree are of this kind.                                         *)
(*                                                                         *)
(* Induction is stated about a set, and the recursion about operators that *)
(* an INSTANCE gives, so that no fact takes an operator as a parameter.    *)
(***************************************************************************)
EXTENDS WellFoundedInduction, TLAPS

CONSTANTS
    D,          \* the domain of the function
    Size(_),    \* what its arguments get smaller in
    Step(_, _)  \* its body, for an argument and the function

LessThan == {p \in Nat \X Nat : p[1] < p[2]}

\* A set of natural numbers has a least element.
LEMMA LeastNatural ==
    ASSUME NEW T \in SUBSET Nat, T # {}
    PROVE  \E x \in T : \A y \in T : x <= y
<1>1. IsWellFoundedOn(LessThan, Nat)
  BY NatLessThanWellFounded DEF OpToRel, LessThan
<1>2. PICK x \in T : \A y \in T : <<y, x>> \notin LessThan
  BY <1>1, WFMin
<1>3. ASSUME NEW y \in T, y < x PROVE FALSE
  <2>1. <<y, x>> \in Nat \X Nat /\ <<y, x>>[1] < <<y, x>>[2]
    BY <1>2, <1>3
  <2>2. <<y, x>> \in LessThan
    BY <2>1 DEF LessThan
  <2> QED BY <1>2, <2>2
<1> QED BY <1>2, <1>3

\* Induction: a set with 0, and with the successor of each of its numbers.
LEMMA Induction ==
    ASSUME NEW T, 0 \in T, \A n \in Nat : n \in T => n + 1 \in T
    PROVE  Nat \subseteq T
<1> DEFINE out == {n \in Nat : n \notin T}
<1> SUFFICES ASSUME out # {} PROVE FALSE
  OBVIOUS
<1>1. out \in SUBSET Nat
  OBVIOUS
<1>2. PICK n \in out : \A m \in out : n <= m
  <2> HIDE DEF out
  <2> QED BY <1>1, LeastNatural
<1>3. n - 1 \in Nat /\ n - 1 \notin out
  BY <1>2
<1> QED BY <1>2, <1>3

-----------------------------------------------------------------------------

\* The body uses the function on smaller arguments only.
IsRecursive ==
    /\ \A x \in D : Size(x) \in Nat
    /\ \A x \in D : \A f, g :
          (\A y \in D : Size(y) < Size(x) => f[y] = g[y]) => Step(x, f) = Step(x, g)

Is(f) == f = [x \in D |-> Step(x, f)]

\* The arguments up to a size, and a function that is right on them.
UpTo(n) == {x \in D : Size(x) <= n}
IsUpTo(f, n) == f = [x \in UpTo(n) |-> Step(x, f)]

LEMMA NextSize ==
    ASSUME IsRecursive, NEW n \in Nat, NEW f, IsUpTo(f, n)
    PROVE  \E g : IsUpTo(g, n + 1)
<1> DEFINE g == [x \in UpTo(n + 1) |-> Step(x, f)]
<1>1. \A y \in UpTo(n) : g[y] = f[y]
  <2> TAKE y \in UpTo(n)
  <2>1. y \in UpTo(n + 1) /\ f[y] = Step(y, f)
    BY DEF UpTo, IsUpTo, IsRecursive
  <2> QED BY <2>1
<1>2. \A x \in UpTo(n + 1) : Step(x, f) = Step(x, g)
  <2> TAKE x \in UpTo(n + 1)
  <2>1. \A y \in D : Size(y) < Size(x) => f[y] = g[y]
    <3> SUFFICES ASSUME NEW y \in D, Size(y) < Size(x) PROVE y \in UpTo(n)
      BY <1>1
    <3> QED BY DEF UpTo, IsRecursive
  <2> HIDE DEF g
  <2> QED BY <2>1 DEF IsRecursive, UpTo
<1>3. g = [x \in UpTo(n + 1) |-> Step(x, g)]
  BY <1>2
<1> QED BY <1>3 DEF IsUpTo

LEMMA EverySize ==
    ASSUME IsRecursive
    PROVE  \A n \in Nat : \E f : IsUpTo(f, n)
<1> DEFINE T == {n \in Nat : \E f : IsUpTo(f, n)}
<1>1. 0 \in T
  <2> DEFINE f == [x \in UpTo(0) |-> Step(x, <<>>)]
  <2>1. \A x \in UpTo(0) : Step(x, <<>>) = Step(x, f)
    <3> TAKE x \in UpTo(0)
    <3>1. \A y \in D : ~(Size(y) < Size(x))
      BY DEF UpTo, IsRecursive
    <3> HIDE DEF f
    <3> QED BY <3>1 DEF IsRecursive, UpTo
  <2>2. f = [x \in UpTo(0) |-> Step(x, f)]
    BY <2>1
  <2>3. IsUpTo(f, 0)
    BY <2>2 DEF IsUpTo
  <2> HIDE DEF f
  <2> QED BY <2>3
<1>2. ASSUME NEW n \in Nat, n \in T PROVE n + 1 \in T
  BY <1>2, NextSize
<1>3. Nat \subseteq T
  <2> HIDE DEF T
  <2> QED BY <1>1, <1>2, Induction
<1> QED BY <1>3

\* Two functions that are right up to a size agree there.
LEMMA SizesAgreeUpTo ==
    ASSUME IsRecursive, NEW n \in Nat, NEW m \in Nat, NEW f, NEW g, IsUpTo(f, n), IsUpTo(g, m)
    PROVE  \A x \in UpTo(n) \cap UpTo(m) : f[x] = g[x]
<1> DEFINE T == {k \in Nat : \A x \in UpTo(n) \cap UpTo(m) : Size(x) <= k => f[x] = g[x]}
<1>1. ASSUME NEW k \in Nat, \A x \in UpTo(n) \cap UpTo(m) : Size(x) < k => f[x] = g[x]
      PROVE  k \in T
  <2> SUFFICES ASSUME NEW x \in UpTo(n) \cap UpTo(m), Size(x) <= k
               PROVE  f[x] = g[x]
    OBVIOUS
  <2>1. \A y \in D : Size(y) < Size(x) => f[y] = g[y]
    BY <1>1 DEF UpTo, IsRecursive
  <2>2. f[x] = Step(x, f) /\ g[x] = Step(x, g)
    BY DEF IsUpTo
  <2> QED BY <2>1, <2>2 DEF IsRecursive, UpTo
<1>2. 0 \in T
  BY <1>1 DEF UpTo, IsRecursive
<1>3. ASSUME NEW k \in Nat, k \in T PROVE k + 1 \in T
  <2>1. \A x \in UpTo(n) \cap UpTo(m) : Size(x) < k + 1 => f[x] = g[x]
    BY <1>3 DEF UpTo, IsRecursive
  <2> QED BY <1>1, <2>1
<1>4. Nat \subseteq T
  <2> HIDE DEF T
  <2> QED BY <1>2, <1>3, Induction
<1> QED BY <1>4 DEF UpTo, IsRecursive

\* The function that a recursion defines exists: its equation holds of the CHOOSE.
LEMMA RecursionExists ==
    ASSUME IsRecursive
    PROVE  \E f : Is(f)
<1> DEFINE part(n) == CHOOSE f : IsUpTo(f, n)
           whole == [x \in D |-> part(Size(x))[x]]
<1>1. \A n \in Nat : IsUpTo(part(n), n)
  BY EverySize
<1>2. ASSUME NEW x \in D PROVE whole[x] = Step(x, whole)
  <2>1. Size(x) \in Nat /\ x \in UpTo(Size(x))
    BY DEF IsRecursive, UpTo
  <2>2. part(Size(x))[x] = Step(x, part(Size(x)))
    BY <1>1, <2>1 DEF IsUpTo
  <2>3. ASSUME NEW y \in D, Size(y) < Size(x) PROVE part(Size(x))[y] = whole[y]
    <3>1. Size(y) \in Nat /\ y \in UpTo(Size(y)) \cap UpTo(Size(x))
      BY <2>1, <2>3 DEF IsRecursive, UpTo
    <3> HIDE DEF part
    <3>2. part(Size(x))[y] = part(Size(y))[y]
      BY <1>1, <2>1, <3>1, SizesAgreeUpTo
    <3> QED BY <3>2
  <2> HIDE DEF part
  <2>4. whole[x] = part(Size(x))[x]
    OBVIOUS
  <2> HIDE DEF whole
  <2> QED BY <2>2, <2>3, <2>4 DEF IsRecursive
<1>3. whole = [x \in D |-> Step(x, whole)]
  <2>1. whole = [x \in D |-> whole[x]]
    OBVIOUS
  <2> HIDE DEF whole
  <2> QED BY <1>2, <2>1
<1> HIDE DEF whole
<1> QED BY <1>3 DEF Is

\* Induction over the domain, in the size of the arguments.
LEMMA SizeInduction ==
    ASSUME IsRecursive, NEW T,
           \A x \in D : (\A y \in D : Size(y) < Size(x) => y \in T) => x \in T
    PROVE  D \subseteq T
<1> DEFINE small == {n \in Nat : UpTo(n) \subseteq T}
<1>1. 0 \in small
  BY DEF UpTo, IsRecursive
<1>2. ASSUME NEW n \in Nat, n \in small PROVE n + 1 \in small
  <2>1. ASSUME NEW x \in UpTo(n + 1) PROVE x \in T
    <3>1. \A y \in D : Size(y) < Size(x) => y \in UpTo(n)
      BY DEF UpTo, IsRecursive
    <3> QED BY <1>2, <3>1 DEF UpTo
  <2> QED BY <2>1
<1>3. Nat \subseteq small
  <2> HIDE DEF small
  <2> QED BY <1>1, <1>2, Induction
<1> QED BY <1>3 DEF UpTo, IsRecursive

=============================================================================
