-------------------------- MODULE LogProofsProofs --------------------------
(***************************************************************************)
(* Theorems about the verification of transparency log proofs, for trees   *)
(* of every size and paths of every length.                                *)
(*                                                                         *)
(* IInv is what each place in the code relies on from the checks before    *)
(* it: the numbers it counts with were compared, and the tree heads it     *)
(* passed were verified.                                                   *)
(*                                                                         *)
(* FInv is what the loops compute.  A level of the tree is given by a      *)
(* power of two w, the number of entries under each of its nodes; the      *)
(* hashes that are folded are those of the node at position fn there, in   *)
(* every log of the claim's size, exactly if the leaf and the nodes folded *)
(* so far are what leads there in that log.  The sections before it say    *)
(* what the tree, its levels and its paths are; the recursive definitions  *)
(* hold by RecursiveFunctions.                                             *)
(*                                                                         *)
(* AgreeInv is where the loops of the TypeScript client are meanwhile.     *)
(***************************************************************************)
EXTENDS LogProofs, TLAPS, SequenceTheorems

-----------------------------------------------------------------------------
(* Powers of two.                                                          *)

Itself(n) == n
PowerStep(e, power) == IF e = 0 THEN 1 ELSE 2 * power[e - 1]
Doubling == INSTANCE RecursiveFunctions WITH D <- Nat, Size <- Itself, Step <- PowerStep

Powers == {Power[e] : e \in Nat}

\* Power is the function its recursion says.
LEMMA PowerIs ==
    /\ Power[0] = 1
    /\ \A e \in Nat : Power[e + 1] = 2 * Power[e]
<1>1. Doubling!IsRecursive
  BY DEF Doubling!IsRecursive, Itself, PowerStep
<1>2. \E f : Doubling!Is(f)
  BY <1>1, Doubling!RecursionExists
<1>3. \E f : f = [e \in Nat |-> IF e = 0 THEN 1 ELSE 2 * f[e - 1]]
  BY <1>2 DEF Doubling!Is, PowerStep
<1>4. Power = [e \in Nat |-> IF e = 0 THEN 1 ELSE 2 * Power[e - 1]]
  BY <1>3 DEF Power
<1> QED BY <1>4

\* A power of two is larger than its exponent.
LEMMA PowersGrow ==
    \A e \in Nat : Power[e] \in Nat /\ Power[e] > e
<1> DEFINE T == {e \in Nat : Power[e] \in Nat /\ Power[e] > e}
<1>1. 0 \in T
  BY PowerIs
<1>2. ASSUME NEW e \in Nat, e \in T PROVE e + 1 \in T
  BY <1>2, PowerIs
<1>3. Nat \subseteq T
  <2> HIDE DEF T
  <2> QED BY <1>1, <1>2, Doubling!Induction
<1> QED BY <1>3

\* A power of two is 1 or twice another one.
LEMMA PowersAre ==
    /\ 1 \in Powers /\ Powers \subseteq Nat \ {0}
    /\ \A w \in Powers : 2 * w \in Powers
    /\ \A w \in Powers : w = 1 \/ \E v \in Powers : w = 2 * v
<1>1. 1 \in Powers /\ Powers \subseteq Nat \ {0}
  BY PowerIs, PowersGrow DEF Powers
<1>2. ASSUME NEW w \in Powers PROVE 2 * w \in Powers
  <2>1. PICK e \in Nat : w = Power[e]
    BY DEF Powers
  <2>2. 2 * w = Power[e + 1] /\ e + 1 \in Nat
    BY <2>1, PowerIs
  <2> QED BY <2>2 DEF Powers
<1>3. ASSUME NEW w \in Powers, w # 1 PROVE \E v \in Powers : w = 2 * v
  <2>1. PICK e \in Nat : w = Power[e]
    BY DEF Powers
  <2>2. e - 1 \in Nat /\ (e - 1) + 1 = e
    BY <1>3, <2>1, PowerIs
  <2>3. w = 2 * Power[e - 1]
    BY <2>1, <2>2, PowerIs
  <2> QED BY <2>2, <2>3 DEF Powers
<1> QED BY <1>1, <1>2, <1>3

\* What holds of 1, and of 2 * w with w, holds of every power of two.
LEMMA PowerInduction ==
    ASSUME NEW T, 1 \in T, \A w \in Powers : w \in T => 2 * w \in T
    PROVE  Powers \subseteq T
<1> DEFINE S == {e \in Nat : Power[e] \in T}
<1>1. 0 \in S
  BY PowerIs
<1>2. ASSUME NEW e \in Nat, e \in S PROVE e + 1 \in S
  BY <1>2, PowerIs DEF Powers
<1>3. Nat \subseteq S
  <2> HIDE DEF S
  <2> QED BY <1>1, <1>2, Doubling!Induction
<1> QED BY <1>3 DEF Powers

\* There is none between a power of two and its double.
LEMMA PowersAreApart ==
    \A w, v \in Powers : w < v => 2 * w <= v
<1> DEFINE T == {w \in Powers : \A v \in Powers : w < v => 2 * w <= v}
<1>1. 1 \in T
  BY PowersAre
<1>2. ASSUME NEW w \in Powers, w \in T PROVE 2 * w \in T
  <2> SUFFICES ASSUME NEW v \in Powers, 2 * w < v PROVE 4 * w <= v
    BY PowersAre
  <2>1. PICK u \in Powers : v = 2 * u
    BY PowersAre
  <2> QED BY <1>2, <2>1, PowersAre
<1>3. Powers \subseteq T
  <2> HIDE DEF T
  <2> QED BY <1>1, <1>2, PowerInduction
<1> QED BY <1>3

\* The only odd divisor of a power of two is 1.
LEMMA OddDivisors ==
    ASSUME NEW d \in Nat, NEW w \in Nat, d % 2 = 1, d * w \in Powers
    PROVE  d = 1
<1> DEFINE T == {p \in Powers : \A v \in Nat : d * v = p => d = 1}
<1>1. 1 \in T
  <2>1. \A v \in Nat : d * v = 1 => d = 1
    OBVIOUS
  <2> QED BY <2>1, PowersAre
<1>2. ASSUME NEW p \in Powers, p \in T PROVE 2 * p \in T
  <2> SUFFICES ASSUME NEW v \in Nat, d * v = 2 * p PROVE d = 1
    BY PowersAre
  <2>1. v % 2 = 0
    <3>1. PICK c \in Nat : d = 2 * c + 1
      OBVIOUS
    <3>2. d * v = 2 * (c * v) + v /\ c * v \in Nat /\ p \in Nat
      BY <3>1, PowersAre
    <3>3. \A x \in Nat : 2 * x + v = 2 * p => v % 2 = 0
      BY <3>2
    <3> QED BY <3>2, <3>3
  <2>2. PICK u \in Nat : v = 2 * u
    BY <2>1
  <2>3. d * u = p
    <3>1. d * v = 2 * (d * u) /\ d * u \in Nat
      BY <2>2
    <3> QED BY <3>1, PowersAre
  <2> QED BY <1>2, <2>3
<1>3. Powers \subseteq T
  <2> HIDE DEF T
  <2> QED BY <1>1, <1>2, PowerInduction
<1> QED BY <1>3

\* The clients' test of n & (n - 1) is membership in the powers of two.
LEMMA PowerTest ==
    \A n \in Nat : PowerOfTwo(n) <=> n \in Powers
BY PowersGrow DEF PowerOfTwo, Powers

\* There is one power of two at which a tree is split.
LEMMA SplitIs ==
    ASSUME NEW n \in Nat, n >= 2
    PROVE  /\ Split(n) \in Powers /\ Split(n) < n /\ n <= 2 * Split(n)
           /\ \A w \in Powers : w < n /\ n <= 2 * w => w = Split(n)
<1> DEFINE T == {w \in Powers : n <= 2 * w}
<1>1. PICK w \in T : \A v \in T : w <= v
  <2>1. Power[n] \in T
    BY PowersGrow DEF Powers
  <2>2. T \in SUBSET Nat
    BY PowersAre
  <2> HIDE DEF T
  <2> QED BY <2>1, <2>2, Doubling!LeastNatural
<1>2. w < n
  <2>1. CASE w = 1
    BY <2>1
  <2>2. CASE w # 1
    <3>1. PICK v \in Powers : w = 2 * v
      BY <2>2, PowersAre
    <3> QED BY <1>1, <3>1, PowersAre
  <2> QED BY <2>1, <2>2
<1>3. \E k \in {Power[e] : e \in 0..n} : k < n /\ n <= 2 * k
  <2>1. PICK e \in Nat : w = Power[e]
    BY DEF Powers
  <2>2. e \in 0..n
    BY <1>2, <2>1, PowersGrow
  <2> QED BY <1>1, <1>2, <2>1, <2>2
<1>4. Split(n) \in {Power[e] : e \in 0..n} /\ Split(n) < n /\ n <= 2 * Split(n)
  BY <1>3 DEF Split
<1>5. Split(n) \in Powers
  BY <1>4 DEF Powers
<1>6. ASSUME NEW v \in Powers, v < n, n <= 2 * v, NEW u \in Powers, u < n, n <= 2 * u PROVE v = u
  <2>1. u \in Nat /\ v \in Nat
    BY PowersAre
  <2>2. ~(u < v) /\ ~(v < u)
    BY <1>6, <2>1, PowersAreApart
  <2> QED BY <2>1, <2>2
<1> QED BY <1>4, <1>5, <1>6

-----------------------------------------------------------------------------
(* The recursive definitions of the tree hold.                             *)

\* Both halves of a tree have entries, as many as the split says.
LEMMA Halved ==
    ASSUME NEW entries \in Entries
    PROVE  /\ Len(entries) \in Nat \ {0}
           /\ Len(entries) # 1 =>
                LET k == Split(Len(entries))
                IN  /\ k \in Powers /\ k \in Nat \ {0} /\ k < Len(entries) /\ Len(entries) <= 2 * k
                    /\ First(entries, k) \in Entries /\ Len(First(entries, k)) = k
                    /\ Rest(entries, k) \in Entries /\ Len(Rest(entries, k)) = Len(entries) - k
<1>1. Len(entries) \in Nat \ {0} /\ entries \in Seq(Int)
  BY DEF Entries
<1> DEFINE k == Split(Len(entries))
<1>2. ASSUME Len(entries) # 1
      PROVE  k \in Powers /\ k \in Nat \ {0} /\ k < Len(entries) /\ Len(entries) <= 2 * k
  <2>1. Len(entries) >= 2
    <3>1. \A n \in Nat \ {0} : n # 1 => n >= 2
      OBVIOUS
    <3> QED BY <1>1, <1>2, <3>1
  <2>2. k \in Powers /\ k < Len(entries) /\ Len(entries) <= 2 * k
    BY <1>1, <2>1, SplitIs
  <2> QED BY <2>2, PowersAre
<1>3. ASSUME Len(entries) # 1
      PROVE  /\ First(entries, k) \in Entries /\ Len(First(entries, k)) = k
             /\ Rest(entries, k) \in Entries /\ Len(Rest(entries, k)) = Len(entries) - k
  <2> HIDE DEF k
  <2>1. First(entries, k) \in Seq(Int) /\ Len(First(entries, k)) = k
    BY <1>1, <1>2, <1>3 DEF First
  <2>2. Rest(entries, k) \in Seq(Int) /\ Len(Rest(entries, k)) = Len(entries) - k
    BY <1>1, <1>2, <1>3 DEF Rest
  <2> QED BY <1>1, <1>2, <1>3, <2>1, <2>2 DEF Entries
<1> QED BY <1>1, <1>2, <1>3

Count(entries) == Len(entries)
RootStep(entries, root) ==
    IF Len(entries) = 1 THEN entries
    ELSE LET k == Split(Len(entries))
         IN  Node(root[First(entries, k)], root[Rest(entries, k)])
Roots == INSTANCE RecursiveFunctions WITH D <- Entries, Size <- Count, Step <- RootStep

\* Root is the function its recursion says, and fit for induction over the entries.
LEMMA RootIs ==
    /\ Roots!IsRecursive
    /\ \A entries \in Entries : Root[entries] = RootStep(entries, Root)
<1>1. Roots!IsRecursive
  <2>1. \A x \in Entries : Count(x) \in Nat
    BY Halved DEF Count
  <2>2. ASSUME NEW x \in Entries, NEW f, NEW g, \A y \in Entries : Count(y) < Count(x) => f[y] = g[y]
        PROVE  RootStep(x, f) = RootStep(x, g)
    BY <2>2, Halved DEF RootStep, Count
  <2> QED BY <2>1, <2>2 DEF Roots!IsRecursive
<1>2. \E f : Roots!Is(f)
  BY <1>1, Roots!RecursionExists
<1>3. Root = [entries \in Entries |-> RootStep(entries, Root)]
  BY <1>2 DEF Roots!Is, RootStep, Root
<1> QED BY <1>1, <1>3

AuditStep(entries, path) ==
    [m \in 0..(Len(entries) - 1) |->
        LET k == Split(Len(entries))
        IN  IF Len(entries) = 1 THEN <<>>
            ELSE IF m < k
            THEN Append(path[First(entries, k)][m], Root[Rest(entries, k)])
            ELSE Append(path[Rest(entries, k)][m - k], Root[First(entries, k)])]
Audits == INSTANCE RecursiveFunctions WITH D <- Entries, Size <- Count, Step <- AuditStep

\* AuditPath is the function its recursion says.
LEMMA AuditPathIs ==
    \A entries \in Entries : AuditPath[entries] = AuditStep(entries, AuditPath)
<1>1. Audits!IsRecursive
  <2>1. \A x \in Entries : Count(x) \in Nat
    BY Halved DEF Count
  <2>2. ASSUME NEW x \in Entries, NEW f, NEW g, \A y \in Entries : Count(y) < Count(x) => f[y] = g[y]
        PROVE  AuditStep(x, f) = AuditStep(x, g)
    <3>1. CASE Len(x) = 1
      BY <3>1 DEF AuditStep
    <3>2. CASE Len(x) # 1
      <4> DEFINE k == Split(Len(x))
      <4>1. f[First(x, k)] = g[First(x, k)] /\ f[Rest(x, k)] = g[Rest(x, k)]
        BY <2>2, <3>2, Halved DEF Count
      <4> QED BY <4>1 DEF AuditStep
    <3> QED BY <3>1, <3>2
  <2> QED BY <2>1, <2>2 DEF Audits!IsRecursive
<1>2. \E f : Audits!Is(f)
  BY <1>1, Audits!RecursionExists
<1>3. AuditPath = [entries \in Entries |-> AuditStep(entries, AuditPath)]
  BY <1>2 DEF Audits!Is, AuditStep, AuditPath
<1> QED BY <1>3

ConsistencyStep(entries, path) ==
    [m \in 1..Len(entries) |-> [whole \in BOOLEAN |->
        LET k == Split(Len(entries))
        IN  IF m = Len(entries) THEN IF whole THEN <<>> ELSE <<Root[entries]>>
            ELSE IF m <= k
            THEN Append(path[First(entries, k)][m][whole], Root[Rest(entries, k)])
            ELSE Append(path[Rest(entries, k)][m - k][FALSE], Root[First(entries, k)])]]
Consistencies == INSTANCE RecursiveFunctions WITH D <- Entries, Size <- Count, Step <- ConsistencyStep

\* ConsistencyPath is the function its recursion says.
LEMMA ConsistencyPathIs ==
    \A entries \in Entries : ConsistencyPath[entries] = ConsistencyStep(entries, ConsistencyPath)
<1>1. Consistencies!IsRecursive
  <2>1. \A x \in Entries : Count(x) \in Nat
    BY Halved DEF Count
  <2>2. ASSUME NEW x \in Entries, NEW f, NEW g, \A y \in Entries : Count(y) < Count(x) => f[y] = g[y]
        PROVE  ConsistencyStep(x, f) = ConsistencyStep(x, g)
    <3>1. CASE Len(x) = 1
      BY <3>1, Halved DEF ConsistencyStep
    <3>2. CASE Len(x) # 1
      <4> DEFINE k == Split(Len(x))
      <4>1. f[First(x, k)] = g[First(x, k)] /\ f[Rest(x, k)] = g[Rest(x, k)]
        BY <2>2, <3>2, Halved DEF Count
      <4> QED BY <4>1 DEF ConsistencyStep
    <3> QED BY <3>1, <3>2
  <2> QED BY <2>1, <2>2 DEF Consistencies!IsRecursive
<1>2. \E f : Consistencies!Is(f)
  BY <1>1, Consistencies!RecursionExists
<1>3. ConsistencyPath = [entries \in Entries |-> ConsistencyStep(entries, ConsistencyPath)]
  BY <1>2 DEF Consistencies!Is, ConsistencyStep, ConsistencyPath
<1> QED BY <1>3

\* No two nodes are hashed alike.
LEMMA NodesDiffer ==
    \A a, b, c, d : Node(a, b) = Node(c, d) <=> a = c /\ b = d
BY DEF Node

\* Trees over different entries have different hashes, if they are as many.
LEMMA RootsDiffer ==
    \A s, t \in Entries : Len(s) = Len(t) /\ Root[s] = Root[t] => s = t
<1> DEFINE T == {s \in Entries : \A t \in Entries : Len(s) = Len(t) /\ Root[s] = Root[t] => s = t}
<1>1. ASSUME NEW s \in Entries, \A y \in Entries : Count(y) < Count(s) => y \in T
      PROVE  s \in T
  <2> SUFFICES ASSUME NEW t \in Entries, Len(s) = Len(t), Root[s] = Root[t]
               PROVE  s = t
    OBVIOUS
  <2>1. Root[s] = RootStep(s, Root) /\ Root[t] = RootStep(t, Root)
    BY RootIs
  <2>2. CASE Len(s) = 1
    BY <2>1, <2>2 DEF RootStep
  <2>3. CASE Len(s) # 1
    <3> DEFINE k == Split(Len(s))
    <3>1. /\ Root[First(s, k)] = Root[First(t, k)]
          /\ Root[Rest(s, k)] = Root[Rest(t, k)]
      <4>1. Root[s] = Node(Root[First(s, k)], Root[Rest(s, k)])
        BY <2>1, <2>3 DEF RootStep
      <4>2. Root[t] = Node(Root[First(t, k)], Root[Rest(t, k)])
        BY <2>1, <2>3 DEF RootStep
      <4> HIDE DEF k, T
      <4>3. Node(Root[First(s, k)], Root[Rest(s, k)]) = Node(Root[First(t, k)], Root[Rest(t, k)])
        BY <4>1, <4>2
      <4> QED BY <4>3, NodesDiffer
    <3>2. /\ First(s, k) \in Entries /\ First(t, k) \in Entries
          /\ Rest(s, k) \in Entries /\ Rest(t, k) \in Entries
          /\ Len(First(s, k)) = Len(First(t, k)) /\ Len(Rest(s, k)) = Len(Rest(t, k))
          /\ Len(First(s, k)) < Len(s) /\ Len(Rest(s, k)) < Len(s)
          /\ k \in Nat \ {0} /\ k < Len(s)
      <4>1. /\ Len(s) \in Nat \ {0} /\ k \in Nat \ {0} /\ k < Len(s)
            /\ First(s, k) \in Entries /\ Len(First(s, k)) = k
            /\ Rest(s, k) \in Entries /\ Len(Rest(s, k)) = Len(s) - k
        BY <2>3, Halved
      <4>2. /\ First(t, k) \in Entries /\ Len(First(t, k)) = k
            /\ Rest(t, k) \in Entries /\ Len(Rest(t, k)) = Len(s) - k
        BY <2>3, Halved
      <4>3. \A n \in Nat, m \in Nat \ {0} : n - m < n
        OBVIOUS
      <4> HIDE DEF k
      <4> QED BY <4>1, <4>2, <4>3
    <3>3. First(s, k) = First(t, k) /\ Rest(s, k) = Rest(t, k)
      BY <1>1, <3>1, <3>2 DEF Count
    <3> HIDE DEF k
    <3>4. s \in Seq(Int) /\ t \in Seq(Int) /\ Len(s) \in Nat
      BY DEF Entries
    <3>5. ASSUME NEW i \in 1..Len(s) PROVE s[i] = t[i]
      <4>1. CASE i <= k
        <5>1. First(s, k)[i] = s[i] /\ First(t, k)[i] = t[i]
          BY <3>2, <3>4, <4>1 DEF First
        <5> QED BY <3>3, <5>1
      <4>2. CASE i > k
        <5>1. i - k \in 1..(Len(s) - k)
          BY <3>2, <3>4, <4>2
        <5>2. Rest(s, k)[i - k] = s[i] /\ Rest(t, k)[i - k] = t[i]
          BY <2>3, <3>2, <3>4, <4>2, <5>1 DEF Rest
        <5> QED BY <3>3, <5>2
      <4> QED BY <3>2, <4>1, <4>2
    <3> QED BY <3>4, <3>5
  <2> QED BY <2>2, <2>3
<1>2. Entries \subseteq T
  <2> HIDE DEF T
  <2> QED BY <1>1, RootIs, Roots!SizeInduction
<1> QED BY <1>2

-----------------------------------------------------------------------------
(* The levels of a tree.  The tree over the first n entries of a log has,  *)
(* for every power of two w, a node over the w entries from each multiple  *)
(* of w on, or over those of them that it has.                             *)

Stretch(log, n, w, a) == SubSeq(log, a + 1, IF a + w < n THEN a + w ELSE n)
Hash(log, n, w, a) == Root[Stretch(log, n, w, a)]

\* A stretch is the entries of its log from a on, w of them or what there is.
LEMMA StretchIs ==
    ASSUME NEW log \in Seq(Int), NEW n \in 1..Len(log), NEW w \in Nat \ {0}, NEW a \in Nat, a < n
    PROVE  /\ Stretch(log, n, w, a) \in Entries
           /\ Len(Stretch(log, n, w, a)) = IF a + w < n THEN w ELSE n - a
           /\ \A i \in 1..Len(Stretch(log, n, w, a)) : Stretch(log, n, w, a)[i] = log[a + i]
<1> DEFINE hi == IF a + w < n THEN a + w ELSE n
           s == SubSeq(log, a + 1, hi)
<1>1. hi \in Nat /\ a + 1 <= hi /\ hi <= Len(log)
  OBVIOUS
<1> HIDE DEF hi
<1>2. s \in Seq(Int) /\ Len(s) = hi - a
  BY <1>1
<1>3. \A i \in 1..Len(s) : s[i] = log[a + i]
  BY <1>1, <1>2
<1>4. s # <<>>
  BY <1>1, <1>2
<1>5. s = Stretch(log, n, w, a)
  BY DEF hi, Stretch
<1>6. Len(s) = IF a + w < n THEN w ELSE n - a
  BY <1>2 DEF hi
<1> HIDE DEF s
<1> QED BY <1>2, <1>3, <1>4, <1>5, <1>6 DEF Entries

\* Entries are equal element by element.
LEMMA SameEntries ==
    ASSUME NEW s \in Entries, NEW t \in Entries, Len(s) = Len(t), \A i \in 1..Len(s) : s[i] = t[i]
    PROVE  s = t
BY DEF Entries

\* The rest of a sequence counts on from its split.
LEMMA RestEntry ==
    ASSUME NEW s \in Seq(Int), NEW w \in Nat, w < Len(s), NEW i \in 1..(Len(s) - w)
    PROVE  Rest(s, w)[i] = s[w + i]
<1>1. Len(s) \in Nat
  OBVIOUS
<1> DEFINE l == Len(s)
<1>2. i \in 1..((l - (w + 1)) + 1) /\ ((w + 1) + i) - 1 = w + i /\ w + 1 \in Nat
  <2> HIDE DEF l
  <2> QED BY <1>1 DEF l
<1>3. SubSeq(s, w + 1, l)[i] = s[((w + 1) + i) - 1]
  <2> HIDE DEF l
  <2>1. SubSeq(s, w + 1, l) = [j \in 1..((l - (w + 1)) + 1) |-> s[((w + 1) + j) - 1]]
    BY <1>1, <1>2 DEF l
  <2> QED BY <1>2, <2>1
<1> QED BY <1>2, <1>3 DEF Rest

\* A node without a sibling is its own parent; another is hashed with its sibling.
LEMMA LevelUp ==
    ASSUME NEW log \in Seq(Int), NEW n \in 1..Len(log), NEW w \in Powers, NEW a \in Nat, a < n
    PROVE  /\ n <= a + w => Stretch(log, n, 2 * w, a) = Stretch(log, n, w, a)
           /\ a + w < n =>
                LET s == Stretch(log, n, 2 * w, a)
                IN  /\ Len(s) # 1 /\ Split(Len(s)) = w
                    /\ First(s, w) = Stretch(log, n, w, a)
                    /\ Rest(s, w) = Stretch(log, n, w, a + w)
                    /\ Hash(log, n, 2 * w, a) = Node(Hash(log, n, w, a), Hash(log, n, w, a + w))
<1>1. w \in Nat \ {0} /\ 2 * w \in Nat \ {0}
  BY PowersAre
<1>2. n <= a + w => Stretch(log, n, 2 * w, a) = Stretch(log, n, w, a)
  BY <1>1 DEF Stretch
<1> DEFINE s == Stretch(log, n, 2 * w, a)
<1>3. ASSUME a + w < n
      PROVE  /\ Len(s) # 1 /\ Split(Len(s)) = w
             /\ First(s, w) = Stretch(log, n, w, a)
             /\ Rest(s, w) = Stretch(log, n, w, a + w)
             /\ Hash(log, n, 2 * w, a) = Node(Hash(log, n, w, a), Hash(log, n, w, a + w))
  <2>1. /\ s \in Entries /\ Len(s) = (IF a + 2 * w < n THEN 2 * w ELSE n - a)
        /\ \A i \in 1..Len(s) : s[i] = log[a + i]
    BY <1>1, StretchIs
  <2>2. w < Len(s) /\ Len(s) <= 2 * w /\ Len(s) \in Nat /\ Len(s) >= 2
    BY <1>1, <1>3, <2>1
  <2>3. Split(Len(s)) = w
    BY <2>2, SplitIs
  <2>4. First(s, w) \in Entries /\ Len(First(s, w)) = w /\ Rest(s, w) \in Entries
        /\ Len(Rest(s, w)) = Len(s) - w
    BY <2>1, <2>2, <2>3, Halved
  <2> DEFINE l == Stretch(log, n, w, a)
             r == Stretch(log, n, w, a + w)
  <2>5. l \in Entries /\ Len(l) = w /\ \A i \in 1..w : l[i] = log[a + i]
    BY <1>1, <1>3, StretchIs
  <2>6. r \in Entries /\ Len(r) = Len(s) - w /\ \A i \in 1..Len(r) : r[i] = log[a + w + i]
    <3>1. a + w \in Nat
      BY <1>1
    <3>2. r \in Entries /\ Len(r) = (IF a + w + w < n THEN w ELSE n - (a + w))
          /\ \A i \in 1..Len(r) : r[i] = log[a + w + i]
      BY <1>1, <1>3, <3>1, StretchIs
    <3>3. (IF a + w + w < n THEN w ELSE n - (a + w)) = (IF a + 2 * w < n THEN 2 * w ELSE n - a) - w
      BY <1>1
    <3> QED BY <2>1, <3>2, <3>3
  <2> HIDE DEF s, l, r
  <2>7. s \in Seq(Int)
    BY <2>1 DEF Entries
  <2>8. First(s, w) = l
    <3>1. \A i \in 1..w : First(s, w)[i] = s[i] /\ s[i] = log[a + i]
      BY <1>1, <2>1, <2>2, <2>7 DEF First
    <3> QED BY <2>4, <2>5, <3>1, SameEntries
  <2>9. Rest(s, w) = r
    <3>1. ASSUME NEW i \in 1..Len(r) PROVE Rest(s, w)[i] = r[i]
      <4>1. w + i \in 1..Len(s) /\ i \in 1..(Len(s) - w)
        BY <1>1, <2>2, <2>6
      <4>2. Rest(s, w)[i] = s[w + i]
        BY <1>1, <2>2, <2>7, <4>1, RestEntry
      <4>3. s[w + i] = log[a + w + i]
        BY <1>1, <2>1, <4>1
      <4> QED BY <2>6, <4>2, <4>3
    <3> QED BY <2>4, <2>6, <3>1, SameEntries
  <2>10. Root[s] = Node(Root[l], Root[r])
    <3>1. Root[s] = RootStep(s, Root) /\ Len(s) # 1
      BY <2>1, <2>2, RootIs
    <3> QED BY <2>3, <2>8, <2>9, <3>1 DEF RootStep
  <2>11. Hash(log, n, 2 * w, a) = Node(Hash(log, n, w, a), Hash(log, n, w, a + w))
    BY <2>10 DEF s, l, r, Hash
  <2>12. Len(s) # 1
    <3>1. \A c \in Nat : c >= 2 => c # 1
      OBVIOUS
    <3> QED BY <2>2, <3>1
  <2> QED BY <2>3, <2>8, <2>9, <2>11, <2>12 DEF l, r
<1> HIDE DEF s
<1> QED BY <1>2, <1>3 DEF s

\* The leaves and the root.
LEMMA LevelEnds ==
    ASSUME NEW log \in Seq(Int), NEW n \in 1..Len(log)
    PROVE  /\ \A a \in Nat : a < n =>
                 Stretch(log, n, 1, a) = <<log[a + 1]>> /\ Hash(log, n, 1, a) = <<log[a + 1]>>
           /\ \A w \in Powers : n <= w => Stretch(log, n, w, 0) = First(log, n)
<1>1. ASSUME NEW a \in Nat, a < n
      PROVE  Stretch(log, n, 1, a) = <<log[a + 1]>> /\ Hash(log, n, 1, a) = <<log[a + 1]>>
  <2> DEFINE s == Stretch(log, n, 1, a)
  <2>1. /\ s \in Entries /\ Len(s) = (IF a + 1 < n THEN 1 ELSE n - a)
        /\ \A i \in 1..Len(s) : s[i] = log[a + i]
    <3>1. 1 \in Nat \ {0}
      OBVIOUS
    <3> QED BY <1>1, <3>1, StretchIs
  <2>2. Len(s) = 1
    <3>1. (IF a + 1 < n THEN 1 ELSE n - a) = 1
      BY <1>1
    <3> QED BY <2>1, <3>1
  <2>3. s = <<log[a + 1]>>
    <3>1. a + 1 \in 1..Len(log) /\ log[a + 1] \in Int
      BY <1>1
    <3> HIDE DEF s
    <3>2. s \in Seq(Int) /\ s[1] = log[a + 1]
      BY <2>1, <2>2 DEF Entries
    <3> QED BY <2>2, <3>2
  <2>4. Root[s] = s
    BY <2>1, <2>2, RootIs DEF RootStep
  <2> QED BY <2>3, <2>4 DEF Hash
<1>2. ASSUME NEW w \in Powers, n <= w PROVE Stretch(log, n, w, 0) = First(log, n)
  <2>1. ~(0 + w < n) /\ 0 + 1 = 1
    BY <1>2, PowersAre
  <2> QED BY <2>1 DEF Stretch, First
<1> QED BY <1>1, <1>2

\* A stretch that two trees have in full has one hash in both only with one content.
LEMMA SharedStretch ==
    ASSUME NEW one \in Seq(Int), NEW other \in Seq(Int), NEW m \in 1..Len(one), NEW n \in 1..Len(other),
           NEW w \in Powers, NEW a \in Nat, a + w <= m, a + w <= n
    PROVE  /\ Hash(one, m, w, a) = Hash(other, n, w, a) => \A i \in (a + 1)..(a + w) : one[i] = other[i]
           /\ one = other => Hash(one, m, w, a) = Hash(other, n, w, a)
<1>1. w \in Nat \ {0} /\ a < m /\ a < n
  <2>1. w \in Nat \ {0}
    BY PowersAre
  <2> QED BY <2>1
<1> DEFINE s == Stretch(one, m, w, a)
           t == Stretch(other, n, w, a)
<1>2. s \in Entries /\ Len(s) = w /\ \A i \in 1..w : s[i] = one[a + i]
  <2>1. /\ s \in Entries /\ Len(s) = (IF a + w < m THEN w ELSE m - a)
        /\ \A i \in 1..Len(s) : s[i] = one[a + i]
    BY <1>1, StretchIs
  <2>2. (IF a + w < m THEN w ELSE m - a) = w
    BY <1>1
  <2> QED BY <2>1, <2>2
<1>3. t \in Entries /\ Len(t) = w /\ \A i \in 1..w : t[i] = other[a + i]
  <2>1. /\ t \in Entries /\ Len(t) = (IF a + w < n THEN w ELSE n - a)
        /\ \A i \in 1..Len(t) : t[i] = other[a + i]
    BY <1>1, StretchIs
  <2>2. (IF a + w < n THEN w ELSE n - a) = w
    BY <1>1
  <2> QED BY <2>1, <2>2
<1> HIDE DEF s, t
<1>4. ASSUME Root[s] = Root[t], NEW i \in (a + 1)..(a + w) PROVE one[i] = other[i]
  <2>1. s = t
    BY <1>2, <1>3, <1>4, RootsDiffer
  <2>2. i - a \in 1..w /\ a + (i - a) = i
    BY <1>1
  <2> QED BY <1>2, <1>3, <2>1, <2>2
<1>5. one = other => s = t
  BY <1>2, <1>3, SameEntries
<1> QED BY <1>4, <1>5 DEF s, t, Hash

-----------------------------------------------------------------------------
(* The paths of a tree, level by level: of the entry at i, and between the *)
(* trees over the first m entries and over n.                              *)

Hashes == {Root[entries] : entries \in Entries}

Audit(log, n, w, a, i) == AuditPath[Stretch(log, n, w, a)][i - a]
Link(log, n, w, a, m) == ConsistencyPath[Stretch(log, n, w, a)][m - a][a = 0]

\* An audit path one level up: as it was, or with the sibling added.
LEMMA AuditUp ==
    ASSUME NEW log \in Seq(Int), NEW n \in 1..Len(log), NEW w \in Powers, NEW a \in Nat,
           NEW i \in Nat, a <= i, i < n, i < a + 2 * w
    PROVE  /\ n <= a + w => Audit(log, n, 2 * w, a, i) = Audit(log, n, w, a, i)
           /\ a + w < n /\ i < a + w =>
                Audit(log, n, 2 * w, a, i)
                    = Append(Audit(log, n, w, a, i), Hash(log, n, w, a + w))
           /\ a + w < n /\ i >= a + w =>
                Audit(log, n, 2 * w, a, i)
                    = Append(Audit(log, n, w, a + w, i), Hash(log, n, w, a))
<1>1. w \in Nat \ {0} /\ 2 * w \in Nat \ {0} /\ a < n
  BY PowersAre
<1>2. n <= a + w => Audit(log, n, 2 * w, a, i) = Audit(log, n, w, a, i)
  BY <1>1, LevelUp DEF Audit
<1> DEFINE s == Stretch(log, n, 2 * w, a)
<1>3. ASSUME a + w < n
      PROVE  /\ i < a + w => Audit(log, n, 2 * w, a, i)
                                = Append(Audit(log, n, w, a, i), Hash(log, n, w, a + w))
             /\ i >= a + w => Audit(log, n, 2 * w, a, i)
                                = Append(Audit(log, n, w, a + w, i), Hash(log, n, w, a))
  <2>1. /\ s \in Entries /\ Len(s) = (IF a + 2 * w < n THEN 2 * w ELSE n - a)
    BY <1>1, StretchIs
  <2>2. /\ Len(s) # 1 /\ Split(Len(s)) = w
        /\ First(s, w) = Stretch(log, n, w, a)
        /\ Rest(s, w) = Stretch(log, n, w, a + w)
    BY <1>1, <1>3, LevelUp
  <2>3. i - a \in 0..(Len(s) - 1)
    <3>1. i - a \in 0..((IF a + 2 * w < n THEN 2 * w ELSE n - a) - 1)
      BY <1>1
    <3> QED BY <2>1, <3>1
  <2> HIDE DEF s
  <2>4. AuditPath[s][i - a] = AuditStep(s, AuditPath)[i - a]
    BY <2>1, AuditPathIs
  <2>5. AuditPath[s][i - a] = IF i - a < w
                              THEN Append(AuditPath[First(s, w)][i - a], Root[Rest(s, w)])
                              ELSE Append(AuditPath[Rest(s, w)][i - a - w], Root[First(s, w)])
    BY <2>2, <2>3, <2>4 DEF AuditStep
  <2>6. (i < a + w => i - a < w) /\ (i >= a + w => ~(i - a < w)) /\ i - a - w = i - (a + w)
    BY <1>1
  <2>7. AuditPath[s][i - a] = Audit(log, n, 2 * w, a, i)
    BY DEF s, Audit
  <2> QED BY <2>2, <2>5, <2>6, <2>7 DEF Audit, Hash
<1> HIDE DEF s
<1> QED BY <1>2, <1>3

\* A consistency path one level up: as it was, or with the sibling added.
LEMMA LinkUp ==
    ASSUME NEW log \in Seq(Int), NEW n \in 1..Len(log), NEW w \in Powers, NEW a \in Nat,
           NEW m \in Nat, a < m, m < n, m < a + 2 * w
    PROVE  /\ n <= a + w => Link(log, n, 2 * w, a, m) = Link(log, n, w, a, m)
           /\ a + w < n /\ m <= a + w =>
                Link(log, n, 2 * w, a, m)
                    = Append(Link(log, n, w, a, m), Hash(log, n, w, a + w))
           /\ a + w < n /\ m > a + w =>
                Link(log, n, 2 * w, a, m)
                    = Append(Link(log, n, w, a + w, m), Hash(log, n, w, a))
<1>1. w \in Nat \ {0} /\ 2 * w \in Nat \ {0} /\ a < n
  BY PowersAre
<1>2. n <= a + w => Link(log, n, 2 * w, a, m) = Link(log, n, w, a, m)
  BY <1>1, LevelUp DEF Link
<1> DEFINE s == Stretch(log, n, 2 * w, a)
<1>3. ASSUME a + w < n
      PROVE  /\ m <= a + w => Link(log, n, 2 * w, a, m)
                                 = Append(Link(log, n, w, a, m), Hash(log, n, w, a + w))
             /\ m > a + w => Link(log, n, 2 * w, a, m)
                                = Append(Link(log, n, w, a + w, m), Hash(log, n, w, a))
  <2>1. /\ s \in Entries /\ Len(s) = (IF a + 2 * w < n THEN 2 * w ELSE n - a)
    BY <1>1, StretchIs
  <2>2. /\ Len(s) # 1 /\ Split(Len(s)) = w
        /\ First(s, w) = Stretch(log, n, w, a)
        /\ Rest(s, w) = Stretch(log, n, w, a + w)
    BY <1>1, <1>3, LevelUp
  <2>3. m - a \in 1..Len(s) /\ m - a # Len(s)
    <3>1. /\ m - a \in 1..(IF a + 2 * w < n THEN 2 * w ELSE n - a)
          /\ m - a # (IF a + 2 * w < n THEN 2 * w ELSE n - a)
      BY <1>1
    <3> QED BY <2>1, <3>1
  <2> HIDE DEF s
  <2>4. ConsistencyPath[s][m - a][a = 0] = ConsistencyStep(s, ConsistencyPath)[m - a][a = 0]
    BY <2>1, ConsistencyPathIs
  <2>5. ConsistencyPath[s][m - a][a = 0] =
            IF m - a <= w
            THEN Append(ConsistencyPath[First(s, w)][m - a][a = 0], Root[Rest(s, w)])
            ELSE Append(ConsistencyPath[Rest(s, w)][m - a - w][FALSE], Root[First(s, w)])
    <3>1. (a = 0) \in BOOLEAN
      OBVIOUS
    <3> QED BY <2>2, <2>3, <2>4, <3>1 DEF ConsistencyStep
  <2>6. (m <= a + w => m - a <= w) /\ (m > a + w => ~(m - a <= w)) /\ m - a - w = m - (a + w) /\ (a + w = 0) = FALSE
    BY <1>1
  <2>7. ConsistencyPath[s][m - a][a = 0] = Link(log, n, 2 * w, a, m)
    BY DEF s, Link
  <2> QED BY <2>2, <2>5, <2>6, <2>7 DEF Link, Hash
<1> HIDE DEF s
<1> QED BY <1>2, <1>3

\* Where the paths start: at a leaf, and where the first tree ends with a whole subtree.
LEMMA PathsStart ==
    ASSUME NEW log \in Seq(Int), NEW n \in 1..Len(log)
    PROVE  /\ \A i \in Nat : i < n => Audit(log, n, 1, i, i) = <<>>
           /\ \A w \in Powers, a \in Nat : a + w <= n =>
                Link(log, n, w, a, a + w) = IF a = 0 THEN <<>> ELSE <<Hash(log, n, w, a)>>
<1>1. ASSUME NEW i \in Nat, i < n PROVE Audit(log, n, 1, i, i) = <<>>
  <2> DEFINE s == Stretch(log, n, 1, i)
  <2>1. s \in Entries /\ Len(s) = 1
    <3>1. /\ s \in Entries /\ Len(s) = (IF i + 1 < n THEN 1 ELSE n - i)
      <4>1. 1 \in Nat \ {0}
        OBVIOUS
      <4> QED BY <1>1, <4>1, StretchIs
    <3>2. (IF i + 1 < n THEN 1 ELSE n - i) = 1
      BY <1>1
    <3> QED BY <3>1, <3>2
  <2>2. i - i = 0 /\ 0 \in 0..(1 - 1)
    OBVIOUS
  <2> HIDE DEF s
  <2>3. AuditPath[s][0] = <<>>
    BY <2>1, <2>2, AuditPathIs DEF AuditStep
  <2> QED BY <2>2, <2>3 DEF Audit, s
<1>2. ASSUME NEW w \in Powers, NEW a \in Nat, a + w <= n
      PROVE  Link(log, n, w, a, a + w) = IF a = 0 THEN <<>> ELSE <<Hash(log, n, w, a)>>
  <2> DEFINE s == Stretch(log, n, w, a)
  <2>1. w \in Nat \ {0} /\ a < n
    <3>1. w \in Nat \ {0}
      BY PowersAre
    <3> QED BY <1>2, <3>1
  <2>2. s \in Entries /\ Len(s) = w
    <3>1. /\ s \in Entries /\ Len(s) = (IF a + w < n THEN w ELSE n - a)
      BY <2>1, StretchIs
    <3>2. (IF a + w < n THEN w ELSE n - a) = w
      BY <1>2, <2>1
    <3> QED BY <3>1, <3>2
  <2>3. (a + w) - a = w /\ w \in 1..w /\ (a = 0) \in BOOLEAN
    BY <2>1
  <2> HIDE DEF s
  <2>4. ConsistencyPath[s][w][a = 0] = IF a = 0 THEN <<>> ELSE <<Root[s]>>
    <3>1. \A whole \in BOOLEAN :
              ConsistencyPath[s][w][whole] = IF whole THEN <<>> ELSE <<Root[s]>>
      <4>1. ConsistencyPath[s] = ConsistencyStep(s, ConsistencyPath)
        BY <2>2, ConsistencyPathIs
      <4>2. ASSUME NEW whole \in BOOLEAN
            PROVE  ConsistencyStep(s, ConsistencyPath)[Len(s)][whole]
                       = IF whole THEN <<>> ELSE <<Root[s]>>
        <5>1. Len(s) \in 1..Len(s)
          BY <2>2, <2>3
        <5> QED BY <5>1, Zenon DEF ConsistencyStep
      <4> QED BY <2>2, <4>1, <4>2
    <3>2. CASE a = 0
      <4>1. ConsistencyPath[s][w][TRUE] = <<>> /\ (a = 0) = TRUE
        BY <3>1, <3>2
      <4> QED BY <3>2, <4>1
    <3>3. CASE a # 0
      <4>1. ConsistencyPath[s][w][FALSE] = <<Root[s]>> /\ (a = 0) = FALSE
        BY <3>1, <3>3
      <4> QED BY <3>3, <4>1
    <3> QED BY <3>2, <3>3
  <2> QED BY <2>3, <2>4 DEF Link, Hash, s
<1> QED BY <1>1, <1>2

\* Half of a position is that of the parent.
LEMMA Parent ==
    ASSUME NEW f \in Nat, NEW w \in Nat \ {0}
    PROVE  /\ f \div 2 \in Nat
           /\ f % 2 = 0 => (f \div 2) * (2 * w) = f * w
           /\ f % 2 # 0 => f * w >= w /\ (f \div 2) * (2 * w) = f * w - w
           /\ f % 2 # 0 => f % 2 = 1
<1>1. f \div 2 \in Nat /\ f % 2 \in {0, 1} /\ f = 2 * (f \div 2) + (f % 2)
  OBVIOUS
<1> DEFINE h == f \div 2
           r == f % 2
<1>2. h \in Nat /\ r \in {0, 1} /\ f = 2 * h + r
  BY <1>1
<1> HIDE DEF h, r
<1>3. h * (2 * w) = 2 * (h * w) /\ h * w \in Nat
  BY <1>2
<1>4. f * w = 2 * (h * w) + r * w
  BY <1>2
<1>5. r = 0 => h * (2 * w) = f * w
  BY <1>3, <1>4
<1>6. r # 0 => f * w >= w /\ h * (2 * w) = f * w - w
  <2>1. r # 0 => f * w = 2 * (h * w) + w
    BY <1>2, <1>4
  <2> QED BY <1>3, <2>1
<1> QED BY <1>2, <1>5, <1>6 DEF h, r

\* A sequence of at most one element.
LEMMA NoneOrOne ==
    ASSUME NEW S, NEW x \in S, NEW none \in BOOLEAN
    PROVE  (IF none THEN <<>> ELSE <<x>>) \in Seq(S)
<1>1. <<>> \in Seq(S) /\ <<x>> \in Seq(S)
  OBVIOUS
<1> QED BY <1>1

\* A sequence with an element more.
LEMMA Appended ==
    ASSUME NEW S, NEW s \in Seq(S), NEW x \in S
    PROVE  Append(s, x) \in Seq(S) /\ Append(s, x) # <<>>
BY AppendProperties

\* Subtrees hash to hashes, and the paths within them are sequences of hashes.
LEMMA PathsTyped ==
    ASSUME NEW log \in Seq(Int), NEW n \in 1..Len(log)
    PROVE  /\ \A w \in Powers, a \in Nat : a < n => Hash(log, n, w, a) \in Hashes
           /\ \A w \in Powers, a \in Nat, i \in Nat : a <= i /\ i < n /\ i < a + w =>
                Audit(log, n, w, a, i) \in Seq(Hashes)
           /\ \A w \in Powers, a \in Nat, m \in Nat : a < m /\ m < n /\ m <= a + w =>
                Link(log, n, w, a, m) \in Seq(Hashes)
<1>1. ASSUME NEW w \in Powers, NEW a \in Nat, a < n PROVE Hash(log, n, w, a) \in Hashes
  BY <1>1, PowersAre, StretchIs DEF Hash, Hashes
<1> DEFINE audits(w) == \A a \in Nat, i \in Nat : a <= i /\ i < n /\ i < a + w =>
                          Audit(log, n, w, a, i) \in Seq(Hashes)
           links(w) == \A a \in Nat, m \in Nat : a < m /\ m < n /\ m <= a + w =>
                          Link(log, n, w, a, m) \in Seq(Hashes)
           T == {w \in Powers : audits(w) /\ links(w)}
<1>2. 1 \in T
  <2>1. ASSUME NEW a \in Nat, NEW i \in Nat, a <= i, i < n, i < a + 1
        PROVE  Audit(log, n, 1, a, i) \in Seq(Hashes)
    <3>1. i = a
      BY <2>1
    <3>2. Audit(log, n, 1, i, i) = <<>>
      BY <2>1, PathsStart
    <3> QED BY <3>1, <3>2, EmptySeq
  <2>2. ASSUME NEW a \in Nat, NEW m \in Nat, a < m, m < n, m <= a + 1
        PROVE  Link(log, n, 1, a, m) \in Seq(Hashes)
    <3>1. m = a + 1 /\ a + 1 <= n /\ a < n
      BY <2>2
    <3>2. Link(log, n, 1, a, a + 1) = IF a = 0 THEN <<>> ELSE <<Hash(log, n, 1, a)>>
      BY <3>1, PathsStart, PowersAre
    <3>3. Hash(log, n, 1, a) \in Hashes
      BY <1>1, <3>1, PowersAre
    <3> QED BY <3>1, <3>2, <3>3, NoneOrOne
  <2> QED BY <2>1, <2>2, PowersAre
<1>3. ASSUME NEW w \in Powers, w \in T PROVE 2 * w \in T
  <2>1. ASSUME NEW a \in Nat, NEW i \in Nat, a <= i, i < n, i < a + 2 * w
        PROVE  Audit(log, n, 2 * w, a, i) \in Seq(Hashes)
    <3>1. w \in Nat \ {0} /\ a + w \in Nat
      BY PowersAre
    <3>2. CASE n <= a + w
      BY <1>3, <2>1, <3>1, <3>2, AuditUp
    <3>3. CASE a + w < n /\ i < a + w
      <4>1. Audit(log, n, 2 * w, a, i) = Append(Audit(log, n, w, a, i), Hash(log, n, w, a + w))
        BY <2>1, <3>3, AuditUp
      <4>2. Audit(log, n, w, a, i) \in Seq(Hashes) /\ Hash(log, n, w, a + w) \in Hashes
        BY <1>1, <1>3, <2>1, <3>1, <3>3
      <4> QED BY <4>1, <4>2, Appended
    <3>4. CASE a + w < n /\ i >= a + w
      <4>1. a < n /\ i < a + w + w
        BY <2>1, <3>1
      <4>2. Audit(log, n, 2 * w, a, i) = Append(Audit(log, n, w, a + w, i), Hash(log, n, w, a))
        BY <2>1, <3>4, AuditUp
      <4>3. Audit(log, n, w, a + w, i) \in Seq(Hashes) /\ Hash(log, n, w, a) \in Hashes
        BY <1>1, <1>3, <2>1, <3>1, <3>4, <4>1
      <4> QED BY <4>2, <4>3, Appended
    <3> QED BY <3>1, <3>2, <3>3, <3>4
  <2>2. ASSUME NEW a \in Nat, NEW m \in Nat, a < m, m < n, m <= a + 2 * w
        PROVE  Link(log, n, 2 * w, a, m) \in Seq(Hashes)
    <3>1. w \in Nat \ {0} /\ a + w \in Nat /\ a < n
      BY <2>2, PowersAre
    <3>2. CASE m = a + 2 * w
      <4>1. Link(log, n, 2 * w, a, m) = IF a = 0 THEN <<>> ELSE <<Hash(log, n, 2 * w, a)>>
        BY <2>2, <3>2, PathsStart, PowersAre
      <4>2. Hash(log, n, 2 * w, a) \in Hashes
        BY <1>1, <3>1, PowersAre
      <4> QED BY <3>2, <4>1, <4>2, NoneOrOne
    <3>3. CASE m < a + 2 * w /\ n <= a + w
      BY <1>3, <2>2, <3>1, <3>3, LinkUp
    <3>4. CASE m < a + 2 * w /\ a + w < n /\ m <= a + w
      <4>1. Link(log, n, 2 * w, a, m) = Append(Link(log, n, w, a, m), Hash(log, n, w, a + w))
        BY <2>2, <3>4, LinkUp
      <4>2. Link(log, n, w, a, m) \in Seq(Hashes) /\ Hash(log, n, w, a + w) \in Hashes
        BY <1>1, <1>3, <2>2, <3>1, <3>4
      <4> QED BY <4>1, <4>2, Appended
    <3>5. CASE m < a + 2 * w /\ a + w < n /\ m > a + w
      <4>1. m <= a + w + w
        BY <2>2, <3>1
      <4>2. Link(log, n, 2 * w, a, m) = Append(Link(log, n, w, a + w, m), Hash(log, n, w, a))
        BY <2>2, <3>5, LinkUp
      <4>3. Link(log, n, w, a + w, m) \in Seq(Hashes) /\ Hash(log, n, w, a) \in Hashes
        BY <1>1, <1>3, <2>2, <3>1, <3>5, <4>1
      <4> QED BY <4>2, <4>3, Appended
    <3> QED BY <2>2, <3>1, <3>2, <3>3, <3>4, <3>5
  <2> QED BY <1>3, <2>1, <2>2, PowersAre
<1>4. Powers \subseteq T
  <2> HIDE DEF T
  <2> QED BY <1>2, <1>3, PowerInduction
<1> QED BY <1>1, <1>4

-----------------------------------------------------------------------------
(* Where a walk is: at position f of the level of the subtrees of w        *)
(* entries, on its way up from the entry at i.  A proof of consistency     *)
(* begins with a whole subtree of the first tree, which is known when it   *)
(* is that tree.                                                           *)

Above(f, w, i) == w \in Powers /\ f \in Nat /\ f * w <= i /\ i < f * w + w

\* The first tree, of i + 1 entries, ends within the subtree or with a left one.
Open(of, f, w, i) == of = "consistency" => f % 2 = 0 \/ i + 1 < f * w + w

Known(log, n, i) == IF i + 1 \in Powers THEN <<Hash(log, n, i + 1, 0)>> ELSE <<>>

Trail(of, log, n, f, w, i) ==
    IF of = "inclusion" THEN Audit(log, n, w, f * w, i)
    ELSE Known(log, n, i) \o Link(log, n, w, f * w, i + 1)

Fits(of, log, n, i) ==
    /\ of \in {"inclusion", "consistency"}
    /\ log \in Seq(Int) /\ n \in 1..Len(log)
    /\ i \in Nat /\ i < n /\ (of = "consistency" => i + 1 < n)

\* A trail is a sequence of hashes.
LEMMA TrailTyped ==
    ASSUME NEW of, NEW log, NEW n, NEW i, Fits(of, log, n, i), NEW f, NEW w, Above(f, w, i)
    PROVE  Trail(of, log, n, f, w, i) \in Seq(Hashes)
<1>1. w \in Nat \ {0} /\ f \in Nat /\ f * w \in Nat /\ log \in Seq(Int) /\ n \in 1..Len(log) /\ i \in Nat
      /\ f * w <= i /\ i < f * w + w
  BY PowersAre DEF Above, Fits
<1> DEFINE a == f * w
<1>2. a \in Nat /\ a <= i /\ i < a + w
  BY <1>1
<1>3. CASE of = "inclusion"
  <2> HIDE DEF a
  <2>1. Audit(log, n, w, a, i) \in Seq(Hashes)
    BY <1>1, <1>2, PathsTyped DEF Above, Fits
  <2> QED BY <1>3, <2>1 DEF Trail, a
<1>4. CASE of = "consistency"
  <2> HIDE DEF a
  <2>1. i + 1 \in Nat /\ a < i + 1 /\ i + 1 < n /\ i + 1 <= a + w
    BY <1>1, <1>2, <1>4 DEF Fits
  <2>2. Link(log, n, w, a, i + 1) \in Seq(Hashes)
    BY <1>1, <1>2, <2>1, PathsTyped DEF Above
  <2>3. 0 \in Nat /\ 0 < n
    BY <1>1
  <2>4. Known(log, n, i) \in Seq(Hashes)
    BY <1>1, <2>3, PathsTyped DEF Known
  <2> QED BY <1>4, <2>2, <2>4 DEF Trail, a
<1> QED BY <1>3, <1>4 DEF Fits

\* Concatenation and append, one after the other.
LEMMA ConcatAppend ==
    ASSUME NEW S, NEW s \in Seq(S), NEW t \in Seq(S), NEW x \in S
    PROVE  s \o Append(t, x) = Append(s \o t, x)
<1>1. Append(t, x) = t \o <<x>> /\ <<x>> \in Seq(S) /\ s \o t \in Seq(S)
  BY AppendIsConcat, ConcatProperties
<1>2. Append(s \o t, x) = (s \o t) \o <<x>>
  BY <1>1, AppendIsConcat
<1> QED BY <1>1, <1>2, ConcatAssociative

\* One level up.
LEMMA TrailUp ==
    ASSUME NEW of, NEW log, NEW n, NEW i, Fits(of, log, n, i),
           NEW f, NEW w, Above(f, w, i), Open(of, f, w, i)
    PROVE  LET g == f \div 2
               v == 2 * w
               here == Trail(of, log, n, f, w, i)
               up == Trail(of, log, n, g, v, i)
               hash == Hash(log, n, w, f * w)
               parent == Hash(log, n, v, g * v)
           IN  /\ Above(g, v, i) /\ Open(of, g, v, i)
               /\ f % 2 = 0 /\ n <= f * w + w =>
                    g * v = f * w /\ up = here /\ parent = hash
               /\ f % 2 = 0 /\ f * w + w < n =>
                    /\ g * v = f * w
                    /\ up = Append(here, Hash(log, n, w, f * w + w))
                    /\ parent = Node(hash, Hash(log, n, w, f * w + w))
               /\ f % 2 # 0 =>
                    /\ g * v = f * w - w /\ f * w - w \in Nat
                    /\ up = Append(here, Hash(log, n, w, f * w - w))
                    /\ parent = Node(Hash(log, n, w, f * w - w), hash)
<1> DEFINE g == f \div 2
           v == 2 * w
           a == f * w
           b == g * v
           even == f % 2 = 0
<1>1. /\ w \in Nat \ {0} /\ f \in Nat /\ a \in Nat /\ v \in Powers /\ w \in Powers
      /\ log \in Seq(Int) /\ n \in 1..Len(log) /\ i \in Nat /\ i < n
      /\ a <= i /\ i < a + w
  BY PowersAre DEF Above, Fits
<1>2. /\ g \in Nat
      /\ even => b = a
      /\ ~even => a >= w /\ b = a - w
  BY <1>1, Parent
<1>3. b \in Nat /\ b <= i /\ i < b + 2 * w
  <2> HIDE DEF a, b, even, g, v
  <2> QED BY <1>1, <1>2
<1>4. Above(g, v, i)
  <2>1. b <= i /\ i < b + v
    BY <1>3
  <2> QED BY <1>1, <1>2, <2>1 DEF Above
<1>5. of = "consistency" => i + 1 < b + 2 * w
  <2>1. of = "consistency" => even \/ i + 1 < a + w
    BY DEF Open
  <2> HIDE DEF a, b, even, g, v
  <2> QED BY <1>1, <1>2, <2>1
<1>6. Open(of, g, v, i)
  BY <1>5 DEF Open
<1>7. ASSUME even, n <= a + w
      PROVE  b = a /\ Trail(of, log, n, g, v, i) = Trail(of, log, n, f, w, i)
             /\ Hash(log, n, v, b) = Hash(log, n, w, a)
  <2>1. b = a
    BY <1>2, <1>7
  <2>2. a < n /\ a < i + 1 /\ i + 1 \in Nat
    BY <1>1
  <2> HIDE DEF a, even
  <2>3. Audit(log, n, 2 * w, a, i) = Audit(log, n, w, a, i)
    BY <1>1, <1>3, <1>7, <2>1, AuditUp
  <2>4. of = "consistency" => Link(log, n, 2 * w, a, i + 1) = Link(log, n, w, a, i + 1)
    BY <1>1, <1>5, <1>7, <2>1, <2>2, LinkUp DEF Fits
  <2>5. Hash(log, n, 2 * w, a) = Hash(log, n, w, a)
    BY <1>1, <1>7, <2>2, LevelUp DEF Hash
  <2>6. Trail(of, log, n, g, v, i) = Trail(of, log, n, f, w, i)
    BY <2>1, <2>3, <2>4 DEF Trail, a, Fits
  <2> QED BY <2>1, <2>5, <2>6
<1>8. ASSUME even, a + w < n
      PROVE  b = a /\ Trail(of, log, n, g, v, i)
                        = Append(Trail(of, log, n, f, w, i), Hash(log, n, w, a + w))
             /\ Hash(log, n, v, b) = Node(Hash(log, n, w, a), Hash(log, n, w, a + w))
  <2>1. b = a
    BY <1>2, <1>8
  <2>2. a < n /\ a < i + 1 /\ i + 1 \in Nat /\ i + 1 <= a + w /\ a + w \in Nat
    BY <1>1
  <2>3. Audit(log, n, 2 * w, a, i) = Append(Audit(log, n, w, a, i), Hash(log, n, w, a + w))
    <3>1. a <= i /\ i < n /\ i < a + 2 * w /\ a + w < n /\ i < a + w
      BY <1>1, <1>3, <1>8, <2>1
    <3> HIDE DEF a, even
    <3> QED BY <1>1, <3>1, AuditUp
  <2>4. of = "consistency" =>
          Link(log, n, 2 * w, a, i + 1) = Append(Link(log, n, w, a, i + 1), Hash(log, n, w, a + w))
    <3> HIDE DEF a, even
    <3> QED BY <1>1, <1>5, <1>8, <2>1, <2>2, LinkUp DEF Fits
  <2>5. Hash(log, n, 2 * w, a) = Node(Hash(log, n, w, a), Hash(log, n, w, a + w))
    <3> HIDE DEF a, even
    <3> QED BY <1>1, <1>8, <2>2, LevelUp
  <2>6. Trail(of, log, n, g, v, i) = Append(Trail(of, log, n, f, w, i), Hash(log, n, w, a + w))
    <3>1. CASE of = "inclusion"
      BY <2>1, <2>3, <3>1 DEF Trail
    <3>2. CASE of = "consistency"
      <4>1. Known(log, n, i) \in Seq(Hashes) /\ Link(log, n, w, a, i + 1) \in Seq(Hashes)
            /\ Hash(log, n, w, a + w) \in Hashes
        <5>1. Link(log, n, w, a, i + 1) \in Seq(Hashes) /\ Hash(log, n, w, a + w) \in Hashes
          <6> HIDE DEF a, even
          <6> QED BY <1>1, <1>8, <2>2, <3>2, PathsTyped DEF Fits
        <5>2. Known(log, n, i) \in Seq(Hashes)
          BY <1>1, PathsTyped DEF Known
        <5> QED BY <5>1, <5>2
      <4> HIDE DEF a
      <4>2. Known(log, n, i) \o Append(Link(log, n, w, a, i + 1), Hash(log, n, w, a + w))
              = Append(Known(log, n, i) \o Link(log, n, w, a, i + 1), Hash(log, n, w, a + w))
        BY <4>1, ConcatAppend
      <4> QED BY <2>1, <2>4, <3>2, <4>2 DEF Trail, a
    <3> QED BY <3>1, <3>2 DEF Fits
  <2> QED BY <2>1, <2>5, <2>6
<1>9. ASSUME ~even
      PROVE  b = a - w /\ a - w \in Nat
             /\ Trail(of, log, n, g, v, i)
                  = Append(Trail(of, log, n, f, w, i), Hash(log, n, w, a - w))
             /\ Hash(log, n, v, b) = Node(Hash(log, n, w, a - w), Hash(log, n, w, a))
  <2>1. b = a - w /\ a - w \in Nat /\ a = b + w
    <3> HIDE DEF a, b, even, v, g
    <3> QED BY <1>1, <1>2, <1>9
  <2>2. b < n /\ b + w < n /\ i >= b + w /\ b + w < i + 1 /\ b < i + 1 /\ i + 1 \in Nat /\ i + 1 <= a + w
    <3> HIDE DEF a, b, even, v, g
    <3> QED BY <1>1, <2>1
  <2>3. Audit(log, n, 2 * w, b, i) = Append(Audit(log, n, w, b + w, i), Hash(log, n, w, b))
    <3> HIDE DEF a, b, even, v, g
    <3>1. b <= i /\ i < n /\ i < b + 2 * w /\ b + w < n /\ i >= b + w
      BY <1>1, <1>3, <2>2
    <3>2. log \in Seq(Int) /\ n \in 1..Len(log) /\ w \in Powers /\ b \in Nat /\ i \in Nat
      BY <1>1, <1>3
    <3> QED BY <3>1, <3>2, AuditUp
  <2>4. of = "consistency" =>
          Link(log, n, 2 * w, b, i + 1) = Append(Link(log, n, w, b + w, i + 1), Hash(log, n, w, b))
    <3> HIDE DEF a, b, even, v, g
    <3>1. of = "consistency" =>
            /\ b < i + 1 /\ i + 1 < n /\ i + 1 < b + 2 * w /\ b + w < n /\ i + 1 > b + w
            /\ i + 1 \in Nat
      BY <1>1, <1>3, <1>5, <2>2 DEF Fits
    <3>2. log \in Seq(Int) /\ n \in 1..Len(log) /\ w \in Powers /\ b \in Nat
      BY <1>1, <1>3
    <3> QED BY <3>1, <3>2, LinkUp
  <2>5. Hash(log, n, 2 * w, b) = Node(Hash(log, n, w, b), Hash(log, n, w, b + w))
    <3> HIDE DEF a, b, even, v, g
    <3> QED BY <1>1, <1>3, <2>2, LevelUp
  <2>6. Trail(of, log, n, g, v, i) = Append(Trail(of, log, n, f, w, i), Hash(log, n, w, a - w))
    <3>1. CASE of = "inclusion"
      <4>1. Trail(of, log, n, g, v, i) = Audit(log, n, 2 * w, b, i)
        BY <3>1 DEF Trail
      <4>2. Trail(of, log, n, f, w, i) = Audit(log, n, w, a, i)
        BY <3>1 DEF Trail
      <4> HIDE DEF a, b, g, v
      <4> QED BY <2>1, <2>3, <4>1, <4>2
    <3>2. CASE of = "consistency"
      <4>1. Known(log, n, i) \in Seq(Hashes) /\ Link(log, n, w, a, i + 1) \in Seq(Hashes)
            /\ Hash(log, n, w, b) \in Hashes
        <5>1. Link(log, n, w, a, i + 1) \in Seq(Hashes) /\ Hash(log, n, w, b) \in Hashes
          <6>1. a < i + 1
            BY <2>1, <2>2
          <6> HIDE DEF a, b, even, v, g
          <6> QED BY <1>1, <1>3, <2>2, <3>2, <6>1, PathsTyped DEF Fits
        <5>2. Known(log, n, i) \in Seq(Hashes)
          BY <1>1, PathsTyped DEF Known
        <5> QED BY <5>1, <5>2
      <4>2. Trail(of, log, n, g, v, i) = Known(log, n, i) \o Link(log, n, 2 * w, b, i + 1)
        BY <3>2 DEF Trail
      <4>3. Trail(of, log, n, f, w, i) = Known(log, n, i) \o Link(log, n, w, a, i + 1)
        BY <3>2 DEF Trail
      <4> HIDE DEF a, b, g, v
      <4>4. Known(log, n, i) \o Append(Link(log, n, w, a, i + 1), Hash(log, n, w, b))
              = Append(Known(log, n, i) \o Link(log, n, w, a, i + 1), Hash(log, n, w, b))
        BY <4>1, ConcatAppend
      <4> QED BY <2>1, <2>4, <3>2, <4>2, <4>3, <4>4
    <3> QED BY <3>1, <3>2 DEF Fits
  <2> QED BY <2>1, <2>5, <2>6
<1> QED BY <1>4, <1>6, <1>7, <1>8, <1>9

\* The hash over a left child, one level up.
LEMMA HashUp ==
    ASSUME NEW of, NEW log, NEW n, NEW i, Fits(of, log, n, i),
           NEW f, NEW w, Above(f, w, i), Open(of, f, w, i), f % 2 = 0
    PROVE  /\ n <= f * w + w =>
                Hash(log, n, 2 * w, (f \div 2) * (2 * w)) = Hash(log, n, w, f * w)
           /\ f * w + w < n =>
                Hash(log, n, 2 * w, (f \div 2) * (2 * w))
                    = Node(Hash(log, n, w, f * w), Hash(log, n, w, f * w + w))
BY TrailUp

Between(log, n, m) == ConsistencyPath[First(log, n)][m][TRUE]

\* At the root: the whole path, whatever power of two is taken for the tree.
LEMMA TrailEnds ==
    ASSUME NEW of, NEW log, NEW n, NEW i, Fits(of, log, n, i), NEW w \in Powers, n <= w
    PROVE  /\ Hash(log, n, w, 0) = Root[First(log, n)]
           /\ of = "inclusion" => Trail(of, log, n, 0, w, i) = AuditPath[First(log, n)][i]
           /\ of = "consistency" => Trail(of, log, n, 0, w, i)
                = Known(log, n, i) \o Between(log, n, i + 1)
<1>1. Stretch(log, n, w, 0) = First(log, n)
  BY LevelEnds DEF Fits
<1>2. 0 * w = 0 /\ i - 0 = i /\ (i + 1) - 0 = i + 1 /\ (0 = 0) = TRUE
  BY PowersAre DEF Fits
<1>3. of = "inclusion" => Trail(of, log, n, 0, w, i) = AuditPath[First(log, n)][i]
  BY <1>1, <1>2 DEF Trail, Audit
<1>4. of = "consistency" => Trail(of, log, n, 0, w, i)
                = Known(log, n, i) \o Between(log, n, i + 1)
  BY <1>1, <1>2 DEF Trail, Link, Between
<1> QED BY <1>1, <1>3, <1>4 DEF Hash

\* The whole trail is one, whatever power of two bounds its tree.
LEMMA TopsAgree ==
    ASSUME NEW of, NEW log, NEW n, NEW i, Fits(of, log, n, i), NEW w \in Powers, n <= w,
           NEW v \in Powers, n <= v
    PROVE  Trail(of, log, n, 0, w, i) = Trail(of, log, n, 0, v, i)
<1>1. CASE of = "inclusion"
  <2>1. Trail(of, log, n, 0, w, i) = AuditPath[First(log, n)][i]
    BY <1>1, TrailEnds
  <2>2. Trail(of, log, n, 0, v, i) = AuditPath[First(log, n)][i]
    BY <1>1, TrailEnds
  <2> QED BY <2>1, <2>2
<1>2. CASE of = "consistency"
  <2> DEFINE path == Known(log, n, i) \o Between(log, n, i + 1)
  <2>1. Trail(of, log, n, 0, w, i) = path
    BY <1>2, TrailEnds
  <2>2. Trail(of, log, n, 0, v, i) = path
    BY <1>2, TrailEnds
  <2> HIDE DEF path
  <2> QED BY <2>1, <2>2
<1> QED BY <1>1, <1>2 DEF Fits

\* At the first node: the leaf, or the subtree with which the first tree ends.
LEMMA TrailBegins ==
    ASSUME NEW of, NEW log, NEW n, NEW i, Fits(of, log, n, i)
    PROVE  /\ of = "inclusion" =>
                /\ Trail(of, log, n, i, 1, i) = <<>>
                /\ Hash(log, n, 1, i * 1) = <<log[i + 1]>>
           /\ of = "consistency" =>
                \A w \in Powers, f \in Nat : f % 2 = 0 /\ f * w + w = i + 1 =>
                   /\ Trail(of, log, n, f, w, i) = <<Hash(log, n, w, f * w)>>
                   /\ i + 1 \in Powers <=> f = 0
<1>1. /\ log \in Seq(Int) /\ n \in 1..Len(log) /\ i \in Nat /\ i < n
      /\ of = "consistency" => i + 1 < n
  BY DEF Fits
<1>2. CASE of = "inclusion"
  <2>1. i * 1 = i
    BY <1>1
  <2> QED BY <1>1, <1>2, <2>1, PathsStart, LevelEnds DEF Trail
<1>3. ASSUME of = "consistency", NEW w \in Powers, NEW f \in Nat, f % 2 = 0, f * w + w = i + 1
      PROVE  /\ Trail(of, log, n, f, w, i) = <<Hash(log, n, w, f * w)>>
             /\ i + 1 \in Powers <=> f = 0
  <2> DEFINE a == f * w
  <2>1. w \in Nat \ {0} /\ a \in Nat /\ a + w = i + 1
    BY <1>3, PowersAre
  <2>2. f # 0 => a # 0
    BY <2>1
  <2>3. f = 0 => a = 0
    BY <2>1
  <2>4. f # 0 => i + 1 \notin Powers
    <3> SUFFICES ASSUME i + 1 \in Powers PROVE f = 0
      OBVIOUS
    <3>1. (f + 1) * w = i + 1 /\ f + 1 \in Nat /\ (f + 1) % 2 = 1 /\ w \in Nat
      BY <1>3, <2>1
    <3>2. f + 1 = 1
      BY <3>1, OddDivisors
    <3> QED BY <3>2
  <2>5. f = 0 => i + 1 = w
    BY <1>1, <2>1, <2>3
  <2> HIDE DEF a
  <2>6. Link(log, n, w, a, i + 1) = IF a = 0 THEN <<>> ELSE <<Hash(log, n, w, a)>>
    <3>1. a + w <= n
      BY <1>1, <1>3, <2>1
    <3> QED BY <1>1, <2>1, <3>1, PathsStart
  <2>7. Known(log, n, i) = IF f = 0 THEN <<Hash(log, n, w, a)>> ELSE <<>>
    BY <2>3, <2>4, <2>5 DEF Known
  <2>8. Trail(of, log, n, f, w, i) = Known(log, n, i) \o Link(log, n, w, a, i + 1)
    BY <1>3 DEF Trail, a
  <2>9. Trail(of, log, n, f, w, i) = <<Hash(log, n, w, a)>>
    <3>1. <<Hash(log, n, w, a)>> \in Seq({Hash(log, n, w, a)})
      OBVIOUS
    <3>2. CASE f = 0
      BY <2>3, <2>6, <2>7, <2>8, <3>1, <3>2, ConcatEmptySeq
    <3>3. CASE f # 0
      BY <2>2, <2>6, <2>7, <2>8, <3>1, <3>3, ConcatEmptySeq
    <3> QED BY <3>2, <3>3
  <2> QED BY <2>4, <2>5, <2>9 DEF a
<1> QED BY <1>1, <1>2, <1>3 DEF Fits

\* Subtrees at different positions of a level do not overlap.
LEMMA NextTo ==
    ASSUME NEW f \in Nat, NEW s \in Nat, NEW w \in Nat, f < s
    PROVE  f * w + w <= s * w
<1> DEFINE d == s - (f + 1)
<1>1. d \in Nat /\ s = f + 1 + d
  OBVIOUS
<1> HIDE DEF d
<1>2. s * w = f * w + w + d * w /\ d * w \in Nat /\ f * w \in Nat
  BY <1>1
<1> QED BY <1>2

\* A position, and the last one on its level.
LEMMA LastIs ==
    ASSUME NEW n \in Nat \ {0}, NEW i \in Nat, i < n, NEW f, NEW w, Above(f, w, i),
           NEW s, Above(s, w, n - 1)
    PROVE  /\ f <= s
           /\ f = s => n <= f * w + w
           /\ f # s => f * w + w < n
           /\ s = 0 => n <= w
           /\ s # 0 => w < n
<1>1. w \in Nat \ {0} /\ f \in Nat /\ s \in Nat /\ f * w \in Nat /\ s * w \in Nat
  BY PowersAre DEF Above
<1>2. f * w <= i /\ i < f * w + w /\ s * w <= n - 1 /\ n - 1 < s * w + w
  BY DEF Above
<1>3. f < s => f * w + w <= s * w
  BY <1>1, NextTo
<1>4. s < f => s * w + w <= f * w
  BY <1>1, NextTo
<1>5. s = 0 => s * w = 0
  BY <1>1
<1>6. s # 0 => w <= s * w
  BY <1>1, NextTo
<1> DEFINE a == f * w
           b == s * w
<1> HIDE DEF a, b
<1>7. a \in Nat /\ b \in Nat /\ a <= i /\ i < a + w /\ b <= n - 1 /\ n - 1 < b + w
      /\ (f < s => a + w <= b) /\ (s < f => b + w <= a) /\ (s = 0 => b = 0) /\ (s # 0 => w <= b)
      /\ (f = s => a = b)
  BY <1>1, <1>2, <1>3, <1>4, <1>5, <1>6 DEF a, b
<1>8. f <= s /\ (f = s => n <= a + w) /\ (f # s => a + w < n) /\ (s = 0 => n <= w) /\ (s # 0 => w < n)
  BY <1>1, <1>7
<1> QED BY <1>8 DEF a

\* Above a position, and above the last one.
LEMMA AboveUp ==
    ASSUME NEW i \in Nat, NEW f, NEW w, Above(f, w, i)
    PROVE  Above(f \div 2, 2 * w, i)
<1>1. w \in Nat \ {0} /\ w \in Powers /\ f \in Nat /\ 2 * w \in Powers
  BY PowersAre DEF Above
<1> DEFINE a == f * w
           b == (f \div 2) * (2 * w)
<1>2. f \div 2 \in Nat /\ (b = a \/ b = a - w) /\ a \in Nat /\ b \in Nat
  BY <1>1, Parent
<1>3. a <= i /\ i < a + w
  BY DEF Above
<1>4. b <= i /\ i < b + 2 * w
  <2> HIDE DEF a, b
  <2> QED BY <1>1, <1>2, <1>3
<1> QED BY <1>1, <1>2, <1>4 DEF Above

\* Below the root the path goes on.
LEMMA TrailGrows ==
    ASSUME NEW of, NEW log, NEW n, NEW i, Fits(of, log, n, i), NEW top \in Powers, n <= top
    PROVE  \A w \in Powers : w < n => \A f \in Nat : Above(f, w, i) /\ Open(of, f, w, i) =>
              Len(Trail(of, log, n, f, w, i)) < Len(Trail(of, log, n, 0, top, i))
<1> DEFINE len(f, w) == Len(Trail(of, log, n, f, w, i))
           grows(w) == \A f \in Nat : Above(f, w, i) /\ Open(of, f, w, i) => len(f, w) < len(0, top)
           T == {k \in Nat : \A w \in Powers : w < n /\ n <= w + k => grows(w)}
<1>1. n \in Nat /\ n >= 1 /\ i \in Nat /\ i < n /\ top \in Nat
  BY PowersAre DEF Fits
<1>2. 0 \in T
  BY <1>1, PowersAre
<1>3. ASSUME NEW k \in Nat, k \in T PROVE k + 1 \in T
  <2> SUFFICES ASSUME NEW w \in Powers, w < n, n <= w + (k + 1),
                      NEW f \in Nat, Above(f, w, i), Open(of, f, w, i)
               PROVE  len(f, w) < len(0, top)
    OBVIOUS
  <2> DEFINE g == f \div 2
             v == 2 * w
  <2>1. w \in Nat \ {0} /\ v \in Powers /\ v \in Nat /\ g \in Nat
    BY PowersAre
  <2>2. Above(g, v, i) /\ Open(of, g, v, i)
    BY TrailUp
  <2>3. /\ Trail(of, log, n, f, w, i) \in Seq(Hashes) /\ Trail(of, log, n, g, v, i) \in Seq(Hashes)
        /\ len(f, w) \in Nat /\ len(g, v) \in Nat
    BY <2>2, TrailTyped
  <2>4. \/ f % 2 = 0 /\ n <= f * w + w /\ len(g, v) = len(f, w)
        \/ len(g, v) = len(f, w) + 1
    <3> DEFINE here == Trail(of, log, n, f, w, i)
               up == Trail(of, log, n, g, v, i)
    <3>1. f * w + w \in Nat
      BY <2>1
    <3>2. CASE f % 2 = 0 /\ n <= f * w + w
      BY <3>2, TrailUp
    <3>3. CASE f % 2 = 0 /\ ~(n <= f * w + w)
      <4>1. f * w + w < n
        BY <1>1, <3>1, <3>3
      <4>2. up = Append(here, Hash(log, n, w, f * w + w))
        BY <3>3, <4>1, TrailUp
      <4>3. Hash(log, n, w, f * w + w) \in Hashes
        BY <3>1, <4>1, PathsTyped DEF Fits
      <4> HIDE DEF here, up
      <4>4. Len(up) = Len(here) + 1
        BY <2>3, <4>2, <4>3, AppendProperties DEF here
      <4> QED BY <4>4 DEF here, up
    <3>4. CASE f % 2 # 0
      <4>1. up = Append(here, Hash(log, n, w, f * w - w)) /\ f * w - w \in Nat
        BY <3>4, TrailUp
      <4>2. f * w - w < n
        <5>1. f * w <= i /\ f * w \in Nat
          BY <2>1 DEF Above
        <5> DEFINE a == f * w
        <5> HIDE DEF a
        <5>2. a \in Nat /\ a <= i => a - w < n
          BY <1>1, <2>1
        <5> QED BY <5>1, <5>2 DEF a
      <4>3. Hash(log, n, w, f * w - w) \in Hashes
        BY <4>1, <4>2, PathsTyped DEF Fits
      <4> HIDE DEF here, up
      <4>4. Len(up) = Len(here) + 1
        BY <2>3, <4>1, <4>3, AppendProperties DEF here
      <4> QED BY <4>4 DEF here, up
    <3> QED BY <3>2, <3>3, <3>4
  <2>5. CASE v < n
    <3>1. n <= v + k
      BY <1>1, <2>1
    <3>2. len(g, v) < len(0, top)
      BY <1>3, <2>1, <2>2, <2>5, <3>1
    <3>3. Len(Trail(of, log, n, 0, top, i)) \in Nat
      <4>1. Above(0, top, i)
        BY <1>1 DEF Above
      <4> QED BY <4>1, TrailTyped
    <3> HIDE DEF g, v, len, T, grows
    <3> QED BY <2>3, <2>4, <3>2, <3>3 DEF len
  <2>6. CASE ~(v < n)
    <3>1. n <= v
      BY <1>1, <2>1, <2>6
    <3>2. g = 0
      <4>1. g * v <= i
        BY <2>2 DEF Above
      <4>2. g # 0 => v <= g * v
        BY <2>1, NextTo
      <4>3. g * v \in Nat
        BY <2>1
      <4> QED BY <1>1, <2>1, <3>1, <4>1, <4>2, <4>3
    <3>3. len(g, v) = len(0, top)
      <4> HIDE DEF v
      <4>1. Trail(of, log, n, 0, v, i) = Trail(of, log, n, 0, top, i)
        BY <2>1, <3>1, TopsAgree
      <4> QED BY <3>2, <4>1
    <3>4. len(g, v) = len(f, w) + 1
      <4>1. f % 2 = 0 => f = 0
        BY <3>2
      <4>2. f = 0 => ~(n <= f * w + w)
        BY <1>1, <2>1
      <4> QED BY <2>4, <4>1, <4>2
    <3> HIDE DEF g, v, len
    <3> QED BY <2>3, <3>3, <3>4
  <2> QED BY <2>5, <2>6
<1>4. Nat \subseteq T
  <2> HIDE DEF T
  <2> QED BY <1>2, <1>3, Doubling!Induction
<1>5. ASSUME NEW w \in Powers, w < n PROVE grows(w)
  <2>1. n - w \in Nat /\ n <= w + (n - w)
    BY <1>1, <1>5, PowersAre
  <2> HIDE DEF grows
  <2> QED BY <1>4, <1>5, <2>1
<1> QED BY <1>5

-----------------------------------------------------------------------------
(* What a path is folded into.  After k nodes the second hash is that of a *)
(* tree's node exactly if what was folded is what leads there in it.       *)

IndexOf(c) == IF c.of = "inclusion" THEN c.index ELSE c.from - 1
SizeOf(c) == IF c.of = "inclusion" THEN c.heads[1].size ELSE c.heads[2].size

\* The numbers of a claim, once they are compared.
Proper(c) ==
    /\ c.of \in {"inclusion", "consistency"}
    /\ IndexOf(c) \in Nat /\ SizeOf(c) \in Nat /\ IndexOf(c) < SizeOf(c)
    /\ c.of = "consistency" => IndexOf(c) + 1 < SizeOf(c)

LeafOf(c, log) == c.of = "inclusion" => c.leaf = <<log[IndexOf(c) + 1]>>

Level(c, w, f, s) ==
    /\ Above(f, w, IndexOf(c)) /\ Above(s, w, SizeOf(c) - 1)
    /\ Open(c.of, f, w, IndexOf(c))

FoldsTo(c, path, log, w, f, k, first, second) ==
    LET here == Trail(c.of, log, SizeOf(c), f, w, IndexOf(c))
    IN  /\ k = Len(here)
        /\ second = Hash(log, SizeOf(c), w, f * w) <=> LeafOf(c, log) /\ First(path, k) = here
        /\ c.of = "consistency" /\ First(path, k) = here =>
             first = Hash(log, IndexOf(c) + 1, w, f * w)

\* Both hashes are of trees that agree on what is folded.
TreesAgree(c, one, other, w, f, first, second) ==
    /\ c.of = "consistency"
    /\ first = Hash(one, IndexOf(c) + 1, w, f * w)
    /\ second = Hash(other, SizeOf(c), w, f * w)
    => \A j \in (f * w + 1)..(IndexOf(c) + 1) : one[j] = other[j]

\* A path begins with one node more exactly if that node is the next one.
LEMMA LongerAlike ==
    ASSUME NEW D, NEW H, NEW path \in Seq(D), NEW here \in Seq(H), NEW x \in H,
           NEW k \in Nat, k < Len(path)
    PROVE  First(path, k + 1) = Append(here, x) <=> First(path, k) = here /\ path[k + 1] = x
<1> DEFINE S == D \cup H
<1>1. path \in Seq(S) /\ here \in Seq(S) /\ x \in S
  BY SeqMonotonic
<1>2. k + 1 \in 1..Len(path) /\ Len(path) \in Nat /\ path[k + 1] \in S
  BY <1>1
<1> HIDE DEF S
<1>3. First(path, k) \in Seq(S)
  BY <1>1, <1>2 DEF First
<1>4. First(path, k + 1) = Append(First(path, k), path[k + 1])
  BY <1>1, <1>2 DEF First
<1> QED BY <1>1, <1>2, <1>3, <1>4, AppendInjective

\* The numbers of a proper claim fit every log that is long enough.
LEMMA ProperFits ==
    ASSUME NEW c, Proper(c), NEW log \in Seq(Int), SizeOf(c) <= Len(log)
    PROVE  Fits(c.of, log, SizeOf(c), IndexOf(c))
<1>1. Len(log) \in Nat
  OBVIOUS
<1> QED BY <1>1 DEF Proper, Fits

\* What the position, the last position and the level say about index and size.
LEMMA LevelFacts ==
    ASSUME NEW c, Proper(c), NEW w, NEW f, NEW s, Level(c, w, f, s)
    PROVE  /\ w \in Powers /\ w \in Nat \ {0} /\ f \in Nat /\ s \in Nat /\ f * w \in Nat
           /\ f * w <= IndexOf(c) /\ IndexOf(c) < f * w + w /\ f * w + w \in Nat
           /\ f <= s
           /\ f = s => SizeOf(c) <= f * w + w
           /\ f = s \/ f * w + w < SizeOf(c)
           /\ s = 0 => SizeOf(c) <= w
           /\ s # 0 => w < SizeOf(c)
           /\ Level(c, 2 * w, f \div 2, s \div 2)
<1>1. w \in Powers /\ w \in Nat \ {0} /\ f \in Nat /\ s \in Nat /\ f * w \in Nat
      /\ f * w <= IndexOf(c) /\ IndexOf(c) < f * w + w /\ f * w + w \in Nat
  BY PowersAre DEF Level, Above
<1>2. IndexOf(c) \in Nat /\ SizeOf(c) \in Nat \ {0} /\ SizeOf(c) - 1 \in Nat /\ IndexOf(c) < SizeOf(c)
  BY DEF Proper
<1>3. /\ f <= s
      /\ f = s => SizeOf(c) <= f * w + w
      /\ f # s => f * w + w < SizeOf(c)
      /\ s = 0 => SizeOf(c) <= w
      /\ s # 0 => w < SizeOf(c)
  BY <1>2, LastIs DEF Level
<1>4. Above(f \div 2, 2 * w, IndexOf(c)) /\ Above(s \div 2, 2 * w, SizeOf(c) - 1)
  BY <1>2, AboveUp DEF Level
<1>5. Open(c.of, f \div 2, 2 * w, IndexOf(c))
  <2> DEFINE a == f * w
             b == (f \div 2) * (2 * w)
             i == IndexOf(c)
  <2>1. (f % 2 = 0 => b = a) /\ (f % 2 # 0 => b = a - w)
    BY <1>1, Parent
  <2>2. c.of = "consistency" => f % 2 = 0 \/ i + 1 < a + w
    BY DEF Level, Open
  <2>3. a \in Nat /\ i \in Nat /\ i < a + w
    BY <1>1, <1>2
  <2> HIDE DEF a, b, i
  <2>4. c.of = "consistency" => i + 1 < b + 2 * w
    BY <1>1, <2>1, <2>2, <2>3
  <2> QED BY <2>4 DEF Open, b, i
<1> QED BY <1>1, <1>3, <1>4, <1>5 DEF Level

\* In the first tree, which ends at this position, one level up.
LEMMA FirstTreeUp ==
    ASSUME NEW c, Proper(c), NEW w, NEW f, NEW s, Level(c, w, f, s),
           NEW log \in Seq(Int), IndexOf(c) + 1 <= Len(log)
    PROVE  LET m == IndexOf(c) + 1
               parent == Hash(log, m, 2 * w, (f \div 2) * (2 * w))
           IN  /\ f % 2 = 0 => parent = Hash(log, m, w, f * w)
               /\ f % 2 # 0 => /\ f * w - w \in Nat /\ f * w - w + w <= m
                               /\ parent = Node(Hash(log, m, w, f * w - w), Hash(log, m, w, f * w))
<1> DEFINE m == IndexOf(c) + 1
           a == f * w
           b == (f \div 2) * (2 * w)
<1>1. /\ w \in Powers /\ w \in Nat \ {0} /\ f \in Nat /\ a \in Nat
      /\ a < m /\ m <= a + w /\ m \in 1..Len(log)
  <2>1. a <= IndexOf(c) /\ IndexOf(c) < a + w /\ a \in Nat /\ w \in Nat \ {0}
    BY LevelFacts
  <2>2. IndexOf(c) \in Nat /\ Len(log) \in Nat
    BY DEF Proper
  <2> HIDE DEF a
  <2>3. a < m /\ m <= a + w /\ m \in 1..Len(log)
    BY <2>1, <2>2
  <2> QED BY <2>1, <2>3, LevelFacts
<1>2. (f % 2 = 0 => b = a) /\ (f % 2 # 0 => a >= w /\ b = a - w)
  BY <1>1, Parent
<1> HIDE DEF m, a, b
<1>3. f % 2 = 0 => Hash(log, m, 2 * w, b) = Hash(log, m, w, a)
  BY <1>1, <1>2, LevelUp DEF Hash
<1>4. ASSUME f % 2 # 0
      PROVE  a - w \in Nat /\ a - w + w <= m
             /\ Hash(log, m, 2 * w, b) = Node(Hash(log, m, w, a - w), Hash(log, m, w, a))
  <2>1. b \in Nat /\ b = a - w /\ b + w = a /\ b + w < m /\ b < m /\ a - w + w = a
    BY <1>1, <1>2, <1>4
  <2>2. Hash(log, m, 2 * w, b) = Node(Hash(log, m, w, b), Hash(log, m, w, b + w))
    BY <1>1, <2>1, LevelUp
  <2> QED BY <1>1, <2>1, <2>2
<1> QED BY <1>3, <1>4 DEF m, a, b

-----------------------------------------------------------------------------

\* The levels on which the last node has no sibling.
LEMMA FoldsCarry ==
    ASSUME NEW c, Proper(c), NEW w, NEW f, NEW s, Level(c, w, f, s), f = s, f % 2 = 0,
           NEW path, NEW k, NEW first, NEW second, NEW log \in Seq(Int), SizeOf(c) <= Len(log),
           FoldsTo(c, path, log, w, f, k, first, second)
    PROVE  FoldsTo(c, path, log, 2 * w, f \div 2, k, first, second)
<1>1. SizeOf(c) <= f * w + w
  BY LevelFacts
<1>2. Fits(c.of, log, SizeOf(c), IndexOf(c))
  BY ProperFits
<1>3. /\ Trail(c.of, log, SizeOf(c), f \div 2, 2 * w, IndexOf(c))
           = Trail(c.of, log, SizeOf(c), f, w, IndexOf(c))
      /\ Hash(log, SizeOf(c), 2 * w, (f \div 2) * (2 * w)) = Hash(log, SizeOf(c), w, f * w)
  BY <1>1, <1>2, TrailUp DEF Level
<1>4. IndexOf(c) + 1 <= Len(log)
  BY DEF Proper
<1>5. Hash(log, IndexOf(c) + 1, 2 * w, (f \div 2) * (2 * w)) = Hash(log, IndexOf(c) + 1, w, f * w)
  BY <1>4, FirstTreeUp
<1> QED BY <1>3, <1>5 DEF FoldsTo

\* The node is the right sibling.
LEMMA FoldsRight ==
    ASSUME NEW c, Proper(c), NEW w, NEW f, NEW s, Level(c, w, f, s), f # s, f % 2 = 0,
           NEW D, NEW path \in Seq(D), NEW k \in Nat, k < Len(path),
           NEW first, NEW second, NEW log \in Seq(Int), SizeOf(c) <= Len(log),
           FoldsTo(c, path, log, w, f, k, first, second)
    PROVE  FoldsTo(c, path, log, 2 * w, f \div 2, k + 1, first, Node(second, path[k + 1]))
<1> DEFINE n == SizeOf(c)
           i == IndexOf(c)
           here == Trail(c.of, log, n, f, w, i)
           up == Trail(c.of, log, n, f \div 2, 2 * w, i)
           right == Hash(log, n, w, f * w + w)
<1>1. f * w + w < n /\ f * w + w \in Nat
  <2>1. f * w + w < n
    BY LevelFacts
  <2>2. f * w + w \in Nat
    BY LevelFacts
  <2> QED BY <2>1, <2>2
<1>2. Fits(c.of, log, n, i)
  BY ProperFits
<1>3. /\ up = Append(here, right)
      /\ Hash(log, n, 2 * w, (f \div 2) * (2 * w)) = Node(Hash(log, n, w, f * w), right)
  BY <1>1, <1>2, TrailUp DEF Level
<1>4. here \in Seq(Hashes) /\ right \in Hashes
  <2>1. here \in Seq(Hashes)
    BY <1>2, TrailTyped DEF Level
  <2>2. right \in Hashes
    BY <1>1, <1>2, PathsTyped, LevelFacts DEF Fits
  <2> QED BY <2>1, <2>2
<1>5. IndexOf(c) + 1 <= Len(log)
  BY DEF Proper
<1>6. Hash(log, i + 1, 2 * w, (f \div 2) * (2 * w)) = Hash(log, i + 1, w, f * w)
  BY <1>5, FirstTreeUp
<1>7. k = Len(here) /\ (second = Hash(log, n, w, f * w) <=> LeafOf(c, log) /\ First(path, k) = here)
      /\ (c.of = "consistency" /\ First(path, k) = here => first = Hash(log, i + 1, w, f * w))
  BY DEF FoldsTo
<1> HIDE DEF n, i, here, up, right
<1>8. First(path, k + 1) = up <=> First(path, k) = here /\ path[k + 1] = right
  BY <1>3, <1>4, LongerAlike
<1>9. Len(up) = k + 1
  BY <1>3, <1>4, <1>7, AppendProperties
<1>10. Node(second, path[k + 1]) = Node(Hash(log, n, w, f * w), right)
         <=> second = Hash(log, n, w, f * w) /\ path[k + 1] = right
  BY NodesDiffer
<1>11. /\ k + 1 = Len(up)
       /\ Node(second, path[k + 1]) = Hash(log, n, 2 * w, (f \div 2) * (2 * w))
            <=> LeafOf(c, log) /\ First(path, k + 1) = up
       /\ c.of = "consistency" /\ First(path, k + 1) = up =>
            first = Hash(log, i + 1, 2 * w, (f \div 2) * (2 * w))
  BY <1>3, <1>6, <1>7, <1>8, <1>9, <1>10
<1> QED BY <1>11 DEF FoldsTo, n, i, up

\* The node is the left sibling.
LEMMA FoldsLeft ==
    ASSUME NEW c, Proper(c), NEW w, NEW f, NEW s, Level(c, w, f, s), f % 2 # 0,
           NEW D, NEW path \in Seq(D), NEW k \in Nat, k < Len(path),
           NEW first, NEW second, NEW log \in Seq(Int), SizeOf(c) <= Len(log),
           FoldsTo(c, path, log, w, f, k, first, second)
    PROVE  FoldsTo(c, path, log, 2 * w, f \div 2, k + 1,
                   Node(path[k + 1], first), Node(path[k + 1], second))
<1> DEFINE n == SizeOf(c)
           i == IndexOf(c)
           here == Trail(c.of, log, n, f, w, i)
           up == Trail(c.of, log, n, f \div 2, 2 * w, i)
           left == Hash(log, n, w, f * w - w)
<1>1. Fits(c.of, log, n, i)
  BY ProperFits
<1>2. /\ up = Append(here, left) /\ f * w - w \in Nat
      /\ Hash(log, n, 2 * w, (f \div 2) * (2 * w)) = Node(left, Hash(log, n, w, f * w))
  BY <1>1, TrailUp DEF Level
<1>3. IndexOf(c) + 1 <= Len(log) /\ IndexOf(c) + 1 <= SizeOf(c)
  BY DEF Proper
<1>4. /\ f * w - w + w <= i + 1
      /\ Hash(log, i + 1, 2 * w, (f \div 2) * (2 * w))
           = Node(Hash(log, i + 1, w, f * w - w), Hash(log, i + 1, w, f * w))
  BY <1>3, FirstTreeUp
<1>5. f * w - w + w <= n /\ f * w - w < n
  <2> DEFINE a == f * w - w
  <2>1. a \in Nat /\ a + w <= i + 1 /\ w \in Nat \ {0}
    BY <1>2, <1>4, LevelFacts
  <2>2. i + 1 <= n /\ i + 1 \in Nat /\ n \in Nat
    BY <1>3 DEF Proper
  <2> HIDE DEF a, i, n
  <2>3. a + w <= n /\ a < n
    BY <2>1, <2>2
  <2> QED BY <2>3 DEF a
<1>6. left = Hash(log, i + 1, w, f * w - w)
  <2>1. i + 1 \in 1..Len(log) /\ n \in 1..Len(log) /\ w \in Powers
    <3>1. w \in Powers
      BY LevelFacts
    <3>2. i + 1 \in 1..Len(log) /\ n \in 1..Len(log)
      BY <1>1, <1>3 DEF Proper, Fits
    <3> QED BY <3>1, <3>2
  <2> HIDE DEF n, i
  <2> DEFINE a == f * w - w
  <2>2. a \in Nat /\ a + w <= i + 1 /\ a + w <= n
    BY <1>2, <1>4, <1>5
  <2> HIDE DEF a
  <2>3. Hash(log, i + 1, w, a) = Hash(log, n, w, a)
    BY <2>1, <2>2, SharedStretch
  <2> QED BY <2>3 DEF a
<1>7. here \in Seq(Hashes) /\ left \in Hashes
  <2>1. here \in Seq(Hashes)
    BY <1>1, TrailTyped DEF Level
  <2>2. left \in Hashes
    BY <1>1, <1>2, <1>5, PathsTyped, LevelFacts DEF Fits
  <2> QED BY <2>1, <2>2
<1>8. k = Len(here) /\ (second = Hash(log, n, w, f * w) <=> LeafOf(c, log) /\ First(path, k) = here)
      /\ (c.of = "consistency" /\ First(path, k) = here => first = Hash(log, i + 1, w, f * w))
  BY DEF FoldsTo
<1> HIDE DEF n, i, here, up, left
<1>9. First(path, k + 1) = up <=> First(path, k) = here /\ path[k + 1] = left
  BY <1>2, <1>7, LongerAlike
<1>10. Len(up) = k + 1
  BY <1>2, <1>7, <1>8, AppendProperties
<1>11. Node(path[k + 1], second) = Node(left, Hash(log, n, w, f * w))
         <=> second = Hash(log, n, w, f * w) /\ path[k + 1] = left
  BY NodesDiffer
<1>12. /\ k + 1 = Len(up)
       /\ Node(path[k + 1], second) = Hash(log, n, 2 * w, (f \div 2) * (2 * w))
            <=> LeafOf(c, log) /\ First(path, k + 1) = up
       /\ c.of = "consistency" /\ First(path, k + 1) = up =>
            Node(path[k + 1], first) = Hash(log, i + 1, 2 * w, (f \div 2) * (2 * w))
  BY <1>2, <1>4, <1>6, <1>8, <1>9, <1>10, <1>11
<1> QED BY <1>12 DEF FoldsTo, n, i, up

-----------------------------------------------------------------------------

\* Both trees, on the levels on which the last node has no sibling.
LEMMA AgreeCarry ==
    ASSUME NEW c, Proper(c), NEW w, NEW f, NEW s, Level(c, w, f, s), f = s, f % 2 = 0,
           NEW first, NEW second, NEW one \in Seq(Int), NEW other \in Seq(Int),
           IndexOf(c) + 1 <= Len(one), SizeOf(c) <= Len(other),
           TreesAgree(c, one, other, w, f, first, second)
    PROVE  TreesAgree(c, one, other, 2 * w, f \div 2, first, second)
<1>1. SizeOf(c) <= f * w + w
  BY LevelFacts
<1>2. Fits(c.of, other, SizeOf(c), IndexOf(c))
  BY ProperFits
<1>3. Hash(other, SizeOf(c), 2 * w, (f \div 2) * (2 * w)) = Hash(other, SizeOf(c), w, f * w)
  <2>1. Above(f, w, IndexOf(c)) /\ Open(c.of, f, w, IndexOf(c))
    BY DEF Level
  <2> QED BY <1>1, <1>2, <2>1, HashUp
<1>4. Hash(one, IndexOf(c) + 1, 2 * w, (f \div 2) * (2 * w)) = Hash(one, IndexOf(c) + 1, w, f * w)
  BY FirstTreeUp
<1>5. (f \div 2) * (2 * w) = f * w
  BY LevelFacts, Parent
<1> QED BY <1>3, <1>4, <1>5 DEF TreesAgree

\* Both trees, when the node is the right sibling, which the first tree has not.
LEMMA AgreeRight ==
    ASSUME NEW c, Proper(c), NEW w, NEW f, NEW s, Level(c, w, f, s), f # s, f % 2 = 0,
           NEW first, NEW second, NEW one \in Seq(Int), NEW other \in Seq(Int),
           IndexOf(c) + 1 <= Len(one), SizeOf(c) <= Len(other),
           TreesAgree(c, one, other, w, f, first, second), NEW hash
    PROVE  TreesAgree(c, one, other, 2 * w, f \div 2, first, Node(second, hash))
<1>1. f * w + w < SizeOf(c)
  BY LevelFacts
<1>2. Fits(c.of, other, SizeOf(c), IndexOf(c))
  BY ProperFits
<1>3. Hash(other, SizeOf(c), 2 * w, (f \div 2) * (2 * w))
        = Node(Hash(other, SizeOf(c), w, f * w), Hash(other, SizeOf(c), w, f * w + w))
  <2>1. Above(f, w, IndexOf(c)) /\ Open(c.of, f, w, IndexOf(c))
    BY DEF Level
  <2> QED BY <1>1, <1>2, <2>1, HashUp
<1>4. Hash(one, IndexOf(c) + 1, 2 * w, (f \div 2) * (2 * w)) = Hash(one, IndexOf(c) + 1, w, f * w)
  BY FirstTreeUp
<1>5. (f \div 2) * (2 * w) = f * w
  BY LevelFacts, Parent
<1>6. Node(second, hash) = Hash(other, SizeOf(c), 2 * w, (f \div 2) * (2 * w))
        => second = Hash(other, SizeOf(c), w, f * w)
  BY <1>3, NodesDiffer
<1> QED BY <1>4, <1>5, <1>6 DEF TreesAgree

\* Both trees, when the node is the left sibling of both.
LEMMA AgreeLeft ==
    ASSUME NEW c, Proper(c), NEW w, NEW f, NEW s, Level(c, w, f, s), f % 2 # 0,
           NEW first, NEW second, NEW one \in Seq(Int), NEW other \in Seq(Int),
           IndexOf(c) + 1 <= Len(one), SizeOf(c) <= Len(other),
           TreesAgree(c, one, other, w, f, first, second), NEW hash
    PROVE  TreesAgree(c, one, other, 2 * w, f \div 2, Node(hash, first), Node(hash, second))
<1> DEFINE n == SizeOf(c)
           m == IndexOf(c) + 1
           a == f * w
           b == (f \div 2) * (2 * w)
<1>1. w \in Nat \ {0} /\ f \in Nat /\ w \in Powers /\ a \in Nat
  BY LevelFacts
<1>2. Fits(c.of, other, n, IndexOf(c))
  BY ProperFits
<1>3. Hash(other, n, 2 * w, b) = Node(Hash(other, n, w, a - w), Hash(other, n, w, a))
  BY <1>2, TrailUp DEF Level
<1>4. /\ Hash(one, m, 2 * w, b) = Node(Hash(one, m, w, a - w), Hash(one, m, w, a))
      /\ a - w \in Nat /\ a - w + w <= m
  BY FirstTreeUp
<1>5. b = a - w
  BY <1>1, Parent
<1>6. m \in 1..Len(one) /\ n \in 1..Len(other) /\ m <= n
  BY DEF Proper
<1> SUFFICES ASSUME c.of = "consistency", Node(hash, first) = Hash(one, m, 2 * w, b),
                    Node(hash, second) = Hash(other, n, 2 * w, b),
                    NEW j \in (b + 1)..m
             PROVE  one[j] = other[j]
  BY DEF TreesAgree
<1>7. /\ hash = Hash(one, m, w, a - w) /\ first = Hash(one, m, w, a)
      /\ hash = Hash(other, n, w, a - w) /\ second = Hash(other, n, w, a)
  BY <1>3, <1>4, NodesDiffer
<1>8. \A l \in (a + 1)..m : one[l] = other[l]
  BY <1>7 DEF TreesAgree
<1> HIDE DEF n, m, a, b
<1>9. \A l \in (b + 1)..(b + w) : one[l] = other[l]
  <2>1. b \in Nat /\ b + w <= m /\ b + w <= n
    BY <1>1, <1>4, <1>5, <1>6
  <2>2. Hash(one, m, w, b) = Hash(other, n, w, b)
    BY <1>5, <1>7
  <2> QED BY <1>1, <1>6, <2>1, <2>2, SharedStretch
<1>10. j \in (b + 1)..(b + w) \/ j \in (a + 1)..m
  BY <1>1, <1>4, <1>5, <1>6
<1> QED BY <1>8, <1>9, <1>10

-----------------------------------------------------------------------------
(* The checks before the loops.                                            *)

\* The comparisons that are over.
MembersInv ==
    /\ pc \in {"sizes", "heads", "begin"} => LargeEnough(claim)
    /\ pc \in {"heads", "begin"} /\ claim.of = "consistency" => SizesAgree(claim)
    /\ pc = "begin" => claim.of # "head"

\* The tree heads that are verified.
HeadsInv ==
    /\ pc \in {"parse", "sizes"} => at = 1
    /\ pc = "heads" => \A i \in 1..(at - 1) : Vouched(claim.heads[i])
    /\ pc \in {"begin", "strip", "walk", "climb"} =>
         \A i \in DOMAIN claim.heads : Vouched(claim.heads[i])
    /\ pc # "done" => outcome = "none"

\* A node is folded only while there is one.
FoldInv == pc = "climb" => next <= Len(nodes)

IInv == TypeOK /\ MembersInv /\ HeadsInv /\ FoldInv /\ ClimbStops /\ JudgedUnderVouchedHeads

-----------------------------------------------------------------------------

\* The kinds of claims, as far as the steps read them.
LEMMA ClaimsTyped ==
    ASSUME TypeOK
    PROVE  /\ DOMAIN claim.heads = 1..Len(claim.heads)
           /\ Len(claim.heads) \in {1, 2}
           /\ \A i \in DOMAIN claim.heads : claim.heads[i] \in Heads
           /\ claim.of \in {"head", "inclusion", "consistency"}
           /\ claim.of = "inclusion" =>
                claim.index \in Int /\ claim.path \in Seq(Digests) /\ Len(claim.heads) = 1
           /\ claim.of = "consistency" =>
                /\ claim.from \in Int /\ claim.to \in Int /\ claim.path \in Seq(Digests)
                /\ Len(claim.heads) = 2
<1>1. CASE claim \in HeadClaims
    BY <1>1 DEF HeadClaims
<1>2. CASE claim \in InclusionClaims
    BY <1>2 DEF InclusionClaims
<1>3. CASE claim \in ConsistencyClaims
    BY <1>3 DEF ConsistencyClaims
<1> QED BY <1>1, <1>2, <1>3 DEF TypeOK, AnyClaim

\* Half of a position, and half of the last position of its level.
LEMMA Halves ==
    ASSUME NEW p \in Nat, NEW l \in Nat, p <= l
    PROVE  /\ p \div 2 \in Nat /\ l \div 2 \in Nat
           /\ p \div 2 <= l \div 2
           /\ p % 2 = 0 /\ p # 0 => p \div 2 > 0
OBVIOUS

LEMMA InitIInv ==
    ASSUME Init
    PROVE  IInv
<1> USE LogProofsAssumption
<1>1. TypeOK
    <2>1. claim \in AnyClaim /\ keys \subseteq KeyIds
        BY DEF Init
    <2>2. Len(claim.heads) \in Nat
        BY <2>1 DEF AnyClaim, HeadClaims, InclusionClaims, ConsistencyClaims
    <2> QED BY <2>1, <2>2 DEF Init, TypeOK, Places
<1>2. MembersInv /\ HeadsInv /\ FoldInv /\ ClimbStops /\ JudgedUnderVouchedHeads
    BY DEF Init, MembersInv, HeadsInv, FoldInv, ClimbStops, JudgedUnderVouchedHeads
<1> QED BY <1>1, <1>2 DEF IInv

-----------------------------------------------------------------------------

\* A rejection, or an answer about a claim whose tree heads are verified.
LEMMA ReturnKeeps ==
    ASSUME IInv, NEW result \in Categories \cup {"valid"}, Return(result),
           result \in {"valid", "PROOF_INVALID"} =>
               \A i \in DOMAIN claim.heads : Vouched(claim.heads[i])
    PROVE  IInv'
<1> USE DEF IInv, Return, walkVars
<1>1. TypeOK'
    BY DEF TypeOK, Places
<1>2. MembersInv' /\ HeadsInv' /\ FoldInv' /\ ClimbStops'
    BY DEF MembersInv, HeadsInv, FoldInv, ClimbStops
<1>3. JudgedUnderVouchedHeads'
    BY DEF JudgedUnderVouchedHeads, Vouched
<1> QED BY <1>1, <1>2, <1>3

\* The next check begins; a place of a loop is where fn <= sn.
LEMMA PassKeeps ==
    ASSUME IInv, NEW check \in {"sizes", "heads", "begin", "walk"}, Pass(check),
           pc # "done",
           check \in {"sizes", "heads", "begin"} => LargeEnough(claim),
           check \in {"heads", "begin"} /\ claim.of = "consistency" => SizesAgree(claim),
           check \in {"sizes", "heads"} => at = 1,
           check = "begin" => claim.of # "head",
           check \in {"begin", "walk"} => \A i \in DOMAIN claim.heads : Vouched(claim.heads[i]),
           check = "walk" => fn <= sn
    PROVE  IInv'
<1> USE DEF IInv, Pass, walkVars
<1>1. TypeOK'
    BY DEF TypeOK, Places
<1>2. MembersInv' /\ FoldInv' /\ ClimbStops'
    BY DEF MembersInv, FoldInv, ClimbStops, LargeEnough, SizesAgree
<1>3. HeadsInv'
    BY DEF HeadsInv, Vouched
<1>4. JudgedUnderVouchedHeads'
    BY DEF HeadsInv, JudgedUnderVouchedHeads
<1> QED BY <1>1, <1>2, <1>3, <1>4

\* A loop begins, at a position of the tree.
LEMMA StartKeeps ==
    ASSUME IInv, pc = "begin", NEW check \in {"strip", "walk"}, NEW fold \in Seq(Digests),
           NEW position \in Nat, NEW last \in Nat, position <= last,
           NEW start \in 1..(Len(fold) + 1), NEW folded, DOMAIN folded \subseteq {"first", "second"},
           Start(check, fold, position, last, start, folded)
    PROVE  IInv'
<1> USE DEF IInv, Start
<1>1. TypeOK'
    BY DEF TypeOK, Places
<1>2. MembersInv' /\ FoldInv' /\ ClimbStops'
    BY DEF MembersInv, FoldInv, ClimbStops
<1>3. HeadsInv'
    BY DEF HeadsInv, Vouched
<1>4. JudgedUnderVouchedHeads'
    BY DEF HeadsInv, JudgedUnderVouchedHeads
<1> QED BY <1>1, <1>2, <1>3, <1>4

\* Within the loops: the claim, its keys and what was verified stay.
LEMMA FoldKeeps ==
    ASSUME IInv, pc \in {"strip", "walk", "climb"}, pc' \in {"strip", "walk", "climb"},
           UNCHANGED <<claim, keys, at, nodes, outcome>>,
           next' \in 1..(Len(nodes) + 1), pc' = "climb" => next' <= Len(nodes),
           fn' \in Nat, sn' \in Nat, fn' <= sn', pc' = "climb" => fn' > 0,
           DOMAIN hashes' \subseteq {"first", "second"}
    PROVE  IInv'
<1> USE DEF IInv
<1>1. TypeOK'
    BY DEF TypeOK, Places
<1>2. MembersInv' /\ FoldInv' /\ ClimbStops'
    BY DEF MembersInv, FoldInv, ClimbStops
<1>3. HeadsInv'
    BY DEF HeadsInv, Vouched
<1>4. JudgedUnderVouchedHeads'
    BY DEF HeadsInv, JudgedUnderVouchedHeads
<1> QED BY <1>1, <1>2, <1>3, <1>4

LEMMA NextIInv ==
    ASSUME IInv, [Next]_vars
    PROVE  IInv'
<1> USE DEF IInv
<1>1. CASE Parse
    <2>1. at = 1 /\ pc # "done"
        BY <1>1 DEF Parse, HeadsInv
    <2> QED BY <1>1, <2>1, ReturnKeeps, PassKeeps DEF Parse, Categories
<1>2. CASE Sizes
    <2>1. at = 1 /\ LargeEnough(claim) /\ pc # "done"
        BY <1>2 DEF Sizes, MembersInv, HeadsInv
    <2> QED BY <1>2, <2>1, ReturnKeeps, PassKeeps DEF Sizes, Categories
<1>3. CASE TreeHead
    <2>1. CASE Return("SIGNATURE_INVALID")
        BY <2>1, ReturnKeeps DEF Categories
    <2>2. CASE /\ Vouched(claim.heads[at])
               /\ at' = at + 1
               /\ UNCHANGED <<claim, keys, pc, walkVars, outcome>>
        <3>1. TypeOK'
            BY <1>3, <2>2, ClaimsTyped DEF TreeHead, TypeOK, walkVars
        <3>2. MembersInv' /\ FoldInv' /\ ClimbStops'
            BY <1>3, <2>2 DEF TreeHead, MembersInv, FoldInv, ClimbStops, walkVars
        <3>3. HeadsInv'
            BY <1>3, <2>2 DEF TreeHead, HeadsInv, Vouched, TypeOK
        <3>4. JudgedUnderVouchedHeads'
            BY <1>3, <2>2 DEF TreeHead, HeadsInv, JudgedUnderVouchedHeads
        <3> QED BY <3>1, <3>2, <3>3, <3>4
    <2> QED BY <1>3, <2>1, <2>2 DEF TreeHead
<1>4. CASE TreeHeadsVouched
    <2>1. \A i \in DOMAIN claim.heads : Vouched(claim.heads[i])
        BY <1>4, ClaimsTyped DEF TreeHeadsVouched, HeadsInv, TypeOK
    <2>2. LargeEnough(claim) /\ (claim.of = "consistency" => SizesAgree(claim))
        BY <1>4 DEF TreeHeadsVouched, MembersInv
    <2> QED BY <1>4, <2>1, <2>2, ReturnKeeps, PassKeeps DEF TreeHeadsVouched
<1>5. CASE BeginInclusion
    <2> DEFINE size == claim.heads[1].size
    <2>1. \A i \in DOMAIN claim.heads : Vouched(claim.heads[i])
        BY <1>5 DEF BeginInclusion, HeadsInv
    <2>2. size \in Int /\ claim.index \in Nat /\ claim.path \in Seq(Digests)
        BY <1>5, ClaimsTyped DEF BeginInclusion, MembersInv, LargeEnough, Heads
    <2>3. CASE claim.index >= size /\ Return("PARSE_ERROR")
        BY <2>3, ReturnKeeps DEF Categories
    <2>4. CASE /\ claim.index < size
               /\ Start("walk", claim.path, claim.index, size - 1, 1, [second |-> claim.leaf])
        <3>1. size - 1 \in Nat /\ claim.index <= size - 1
            BY <2>2, <2>4
        <3>2. 1 \in 1..(Len(claim.path) + 1)
            BY <2>2
        <3>3. DOMAIN [second |-> claim.leaf] \subseteq {"first", "second"}
            OBVIOUS
        <3>4. pc = "begin"
            BY <1>5 DEF BeginInclusion
        <3> HIDE DEF size
        <3> QED BY <2>2, <2>4, <3>1, <3>2, <3>3, <3>4, StartKeeps
    <2> QED BY <1>5, <2>3, <2>4 DEF BeginInclusion
<1>6. CASE BeginConsistency
    <2>1. \A i \in DOMAIN claim.heads : Vouched(claim.heads[i])
        BY <1>6 DEF BeginConsistency, HeadsInv
    <2>2. /\ claim.from \in Nat \ {0} /\ claim.to \in Nat /\ claim.from < claim.to
          /\ claim.path \in Seq(Digests) /\ claim.heads[1].root \in Digests
        BY <1>6, ClaimsTyped DEF BeginConsistency, MembersInv, LargeEnough, SizesAgree, Heads
    <2>3. CASE claim.path = <<>> /\ Return("PROOF_INVALID")
        BY <2>1, <2>3, ReturnKeeps DEF Categories
    <2>4. CASE /\ claim.path # <<>>
               /\ LET fold == Padded(claim)
                  IN  Start("strip", fold, claim.from - 1, claim.to - 1, 2,
                            [first |-> fold[1], second |-> fold[1]])
        <3>1. Padded(claim) \in Seq(Digests) /\ 2 \in 1..(Len(Padded(claim)) + 1)
            BY <2>2, <2>4 DEF Padded
        <3>2. claim.from - 1 \in Nat /\ claim.to - 1 \in Nat /\ claim.from - 1 <= claim.to - 1
            BY <2>2
        <3>3. DOMAIN [first |-> Padded(claim)[1], second |-> Padded(claim)[1]]
                  \subseteq {"first", "second"}
            OBVIOUS
        <3>4. pc = "begin"
            BY <1>6 DEF BeginConsistency
        <3> QED BY <2>4, <3>1, <3>2, <3>3, <3>4, StartKeeps
    <2> QED BY <1>6, <2>3, <2>4 DEF BeginConsistency
<1>7. CASE Strip
    <2>1. fn' \in Nat /\ sn' \in Nat /\ fn' <= sn'
        BY <1>7, Halves DEF Strip, Halve, TypeOK, ClimbStops
    <2> QED BY <1>7, <2>1, FoldKeeps DEF Strip, TypeOK
<1>8. CASE Stripped
    <2>1. fn <= sn /\ pc # "done" /\ \A i \in DOMAIN claim.heads : Vouched(claim.heads[i])
        BY <1>8 DEF Stripped, HeadsInv, ClimbStops
    <2> QED BY <1>8, <2>1, PassKeeps DEF Stripped
<1>9. CASE Overlong
    <2>1. \A i \in DOMAIN claim.heads : Vouched(claim.heads[i])
        BY <1>9 DEF Overlong, HeadsInv
    <2> QED BY <1>9, <2>1, ReturnKeeps DEF Overlong, Categories
<1>10. CASE JoinLeft
    <2>1. fn > 0 /\ fn <= sn
        BY <1>10 DEF JoinLeft, IsRight, TypeOK, ClimbStops
    <2> QED BY <1>10, <2>1, FoldKeeps DEF JoinLeft, TypeOK
<1>11. CASE JoinRight
    <2>1. fn' \in Nat /\ sn' \in Nat /\ fn' <= sn'
        BY <1>11, Halves DEF JoinRight, Halve, TypeOK, ClimbStops
    <2>2. next' \in 1..(Len(nodes) + 1)
        BY <1>11 DEF JoinRight, TypeOK
    <2>3. DOMAIN hashes' \subseteq {"first", "second"}
        BY <1>11 DEF JoinRight, TypeOK
    <2> QED BY <1>11, <2>1, <2>2, <2>3, FoldKeeps DEF JoinRight
<1>12. CASE Climb
    <2>1. fn' \in Nat /\ sn' \in Nat /\ fn' <= sn' /\ fn' > 0
        BY <1>12, Halves DEF Climb, Halve, TypeOK, ClimbStops
    <2> QED BY <1>12, <2>1, FoldKeeps DEF Climb, TypeOK, FoldInv
<1>13. CASE Climbed
    <2>1. fn' \in Nat /\ sn' \in Nat /\ fn' <= sn'
        BY <1>13, Halves DEF Climbed, Halve, TypeOK, ClimbStops
    <2>2. next' \in 1..(Len(nodes) + 1)
        BY <1>13 DEF Climbed, TypeOK, FoldInv
    <2> QED BY <1>13, <2>1, <2>2, FoldKeeps DEF Climbed, TypeOK
<1>14. CASE Compare
    <2>1. \A i \in DOMAIN claim.heads : Vouched(claim.heads[i])
        BY <1>14 DEF Compare, HeadsInv
    <2> QED BY <1>14, <2>1, ReturnKeeps DEF Compare, Categories
<1>15. CASE UNCHANGED vars
    BY <1>15 DEF vars, walkVars, TypeOK, MembersInv, HeadsInv, FoldInv, ClimbStops,
                 JudgedUnderVouchedHeads, Vouched, LargeEnough, SizesAgree
<1> QED BY <1>1, <1>2, <1>3, <1>4, <1>5, <1>6, <1>7, <1>8, <1>9, <1>10, <1>11, <1>12,
           <1>13, <1>14, <1>15 DEF Next

THEOREM Invariance == Spec => []IInv
BY InitIInv, NextIInv, PTL DEF Spec

-----------------------------------------------------------------------------
(* Where a walk ends.                                                      *)

\* The path of a tree is as long as the walk is, whatever hashes it has.
LEMMA LengthIsTold ==
    ASSUME NEW c, Proper(c), NEW w, NEW f, NEW s, Level(c, w, f, s),
           NEW log \in Seq(Int), SizeOf(c) <= Len(log), NEW top \in Powers, SizeOf(c) <= top
    PROVE  LET whole == Trail(c.of, log, SizeOf(c), 0, top, IndexOf(c))
               here == Trail(c.of, log, SizeOf(c), f, w, IndexOf(c))
           IN  /\ s = 0 => f = 0 /\ here = whole
               /\ s # 0 => Len(here) < Len(whole)
<1> DEFINE n == SizeOf(c)
           i == IndexOf(c)
<1>1. Fits(c.of, log, n, i)
  BY ProperFits
<1>2. w \in Powers /\ f \in Nat /\ s \in Nat /\ f <= s
  BY LevelFacts
<1>3. s = 0 => n <= w
  BY LevelFacts
<1>4. s # 0 => w < n
  BY LevelFacts
<1>5. Above(f, w, i) /\ Open(c.of, f, w, i)
  BY DEF Level
<1> HIDE DEF n, i
<1>6. ASSUME s = 0
      PROVE  f = 0 /\ Trail(c.of, log, n, f, w, i) = Trail(c.of, log, n, 0, top, i)
  <2>1. f = 0
    BY <1>2, <1>6
  <2>2. n <= top /\ n <= w
    BY <1>3, <1>6 DEF n
  <2>3. Trail(c.of, log, n, 0, w, i) = Trail(c.of, log, n, 0, top, i)
    BY <1>1, <1>2, <2>2, TopsAgree
  <2> QED BY <2>1, <2>3
<1>7. ASSUME s # 0
      PROVE  Len(Trail(c.of, log, n, f, w, i)) < Len(Trail(c.of, log, n, 0, top, i))
  <2>1. n <= top /\ w < n
    BY <1>4, <1>7 DEF n
  <2> QED BY <1>1, <1>2, <1>5, <2>1, TrailGrows
<1> QED BY <1>6, <1>7 DEF n, i

\* At the root the second hash is that of the tree only for its leaf and its path.
LEMMA RootReached ==
    ASSUME NEW c, Proper(c), NEW w, NEW f, Level(c, w, f, 0), NEW D, NEW path \in Seq(D),
           NEW first, NEW second, NEW log \in Seq(Int), SizeOf(c) <= Len(log),
           FoldsTo(c, path, log, w, f, Len(path), first, second)
    PROVE  LET here == Trail(c.of, log, SizeOf(c), 0, w, IndexOf(c))
           IN  /\ f = 0 /\ SizeOf(c) <= w
               /\ second = Root[First(log, SizeOf(c))] <=> LeafOf(c, log) /\ path = here
               /\ c.of = "consistency" /\ path = here => first = Root[First(log, IndexOf(c) + 1)]
<1>1. f \in Nat /\ w \in Powers /\ 0 * w = 0 /\ w \in Nat
  <2>1. f \in Nat /\ w \in Powers /\ w \in Nat
    BY LevelFacts
  <2> QED BY <2>1
<1>2. SizeOf(c) <= w /\ f <= 0
  BY LevelFacts
<1>3. f = 0 /\ f * w = 0
  BY <1>1, <1>2
<1>4. First(path, Len(path)) = path
  BY SubSeqFull DEF First
<1>5. SizeOf(c) \in 1..Len(log) /\ IndexOf(c) + 1 \in 1..Len(log) /\ IndexOf(c) + 1 <= w
  BY <1>1, <1>2 DEF Proper
<1>6. Hash(log, SizeOf(c), w, 0) = Root[First(log, SizeOf(c))]
  BY <1>1, <1>2, <1>5, LevelEnds DEF Hash
<1>7. Hash(log, IndexOf(c) + 1, w, 0) = Root[First(log, IndexOf(c) + 1)]
  BY <1>1, <1>5, LevelEnds DEF Hash
<1> QED BY <1>2, <1>3, <1>4, <1>6, <1>7 DEF FoldsTo

\* At the root both hashes are of trees that agree on every entry of the first.
LEMMA TreesReached ==
    ASSUME NEW c, Proper(c), c.of = "consistency", NEW w, NEW f, Level(c, w, f, 0),
           NEW first, NEW second, NEW one \in Seq(Int), NEW other \in Seq(Int),
           IndexOf(c) + 1 <= Len(one), SizeOf(c) <= Len(other),
           TreesAgree(c, one, other, w, f, first, second),
           first = Root[First(one, IndexOf(c) + 1)], second = Root[First(other, SizeOf(c))]
    PROVE  First(one, IndexOf(c) + 1) = First(other, IndexOf(c) + 1)
<1> DEFINE m == IndexOf(c) + 1
           n == SizeOf(c)
<1>1. f \in Nat /\ w \in Powers /\ w \in Nat
  BY LevelFacts
<1>2. n <= w /\ f <= 0
  BY LevelFacts
<1>3. f = 0 /\ f * w = 0
  BY <1>1, <1>2
<1>4. n \in 1..Len(other) /\ m \in 1..Len(one) /\ m \in 1..Len(other) /\ m <= w
  BY <1>1, <1>2 DEF Proper
<1>5. Hash(other, n, w, 0) = Root[First(other, n)] /\ Hash(one, m, w, 0) = Root[First(one, m)]
  <2> HIDE DEF m, n
  <2>1. Hash(other, n, w, 0) = Root[First(other, n)]
    BY <1>1, <1>2, <1>4, LevelEnds DEF Hash
  <2>2. Hash(one, m, w, 0) = Root[First(one, m)]
    BY <1>1, <1>4, LevelEnds DEF Hash
  <2> QED BY <2>1, <2>2
<1>6. \A j \in 1..m : one[j] = other[j]
  BY <1>3, <1>5 DEF TreesAgree
<1> HIDE DEF m, n
<1>7. First(one, m) = First(other, m)
  <2>1. First(one, m) = [j \in 1..m |-> one[j]] /\ First(other, m) = [j \in 1..m |-> other[j]]
    BY <1>4 DEF First
  <2> QED BY <1>6, <2>1
<1> QED BY <1>7 DEF m

-----------------------------------------------------------------------------
(* The hashes below a hash.                                                *)

Children(level) == UNION {{h[1], h[2]} : h \in {x \in level : Len(x) = 2}}

LevelBody(level, root, d) == IF d = 0 THEN {root} ELSE Children(level[d - 1])
IsLevels(f, depth, root) == f = [d \in 0..depth |-> LevelBody(f, root, d)]

\* The levels below a root, one by one.
LEMMA LevelsAre ==
    ASSUME NEW root, NEW depth \in Nat, NEW f, IsLevels(f, depth, root)
    PROVE  \A d \in 0..depth : f[d] = LevelBody(f, root, d)
BY DEF IsLevels

\* There are levels below every root, to every depth.
LEMMA LevelsExist == \A root : \A depth \in Nat : \E f : IsLevels(f, depth, root)
<1> TAKE root
<1> DEFINE T == {k \in Nat : \E f : IsLevels(f, k, root)}
<1>1. 0 \in T
  <2> DEFINE f == [d \in 0..0 |-> {root}]
  <2>1. f = [d \in 0..0 |-> LevelBody(f, root, d)]
    BY DEF LevelBody
  <2> HIDE DEF f
  <2> QED BY <2>1 DEF IsLevels
<1>2. ASSUME NEW k \in Nat, k \in T PROVE k + 1 \in T
  <2>1. PICK f : IsLevels(f, k, root)
    BY <1>2
  <2> DEFINE g == [d \in 0..(k + 1) |-> LevelBody(f, root, d)]
  <2>2. \A d \in 0..k : g[d] = f[d]
    BY <2>1, LevelsAre
  <2>3. \A d \in 0..(k + 1) : LevelBody(f, root, d) = LevelBody(g, root, d)
    <3> HIDE DEF g
    <3>1. \A d \in 0..(k + 1) : d # 0 => d - 1 \in 0..k
      OBVIOUS
    <3> QED BY <2>2, <3>1 DEF LevelBody
  <2>4. g = [d \in 0..(k + 1) |-> LevelBody(g, root, d)]
    BY <2>3
  <2> HIDE DEF g
  <2> QED BY <2>4 DEF IsLevels
<1>3. Nat \subseteq T
  <2> HIDE DEF T
  <2> QED BY <1>1, <1>2, Doubling!Induction
<1> QED BY <1>3

\* Below is the last of those levels.
LEMMA BelowIs ==
    ASSUME NEW root, NEW depth \in Nat
    PROVE  \E f : IsLevels(f, depth, root) /\ Below(depth, root) = f[depth]
<1>1. \E f : IsLevels(f, depth, root)
  BY LevelsExist
<1> QED BY <1>1 DEF IsLevels, LevelBody, Children, Below

\* More nodes have more children.
LEMMA ChildrenGrow == \A s, t : s \subseteq t => Children(s) \subseteq Children(t)
BY DEF Children

\* What is below a hash is one further below a node over it.
LEMMA BelowUp ==
    ASSUME NEW depth \in Nat, NEW root, NEW sibling, NEW x \in Below(depth, root)
    PROVE  x \in Below(depth + 1, Node(root, sibling)) /\ x \in Below(depth + 1, Node(sibling, root))
<1>1. ASSUME NEW q, Len(q) = 2, root \in {q[1], q[2]} PROVE x \in Below(depth + 1, q)
  <2>1. PICK f : IsLevels(f, depth, root) /\ Below(depth, root) = f[depth]
    BY BelowIs
  <2>2. PICK g : IsLevels(g, depth + 1, q) /\ Below(depth + 1, q) = g[depth + 1]
    BY BelowIs
  <2> DEFINE T == {k \in Nat : k <= depth => f[k] \subseteq g[k + 1]}
  <2>3. \A d \in 0..depth : f[d] = LevelBody(f, root, d)
    BY <2>1, LevelsAre
  <2>4. \A d \in 0..(depth + 1) : g[d] = LevelBody(g, q, d)
    BY <2>2, LevelsAre
  <2>5. 0 \in T
    <3>1. f[0] = {root}
      BY <2>3 DEF LevelBody
    <3>2. g[0] = {q} /\ g[1] = Children(g[0])
      BY <2>4 DEF LevelBody
    <3>3. {root} \subseteq Children({q})
      BY <1>1 DEF Children
    <3> QED BY <3>1, <3>2, <3>3
  <2>6. ASSUME NEW k \in Nat, k \in T PROVE k + 1 \in T
    <3> SUFFICES ASSUME k + 1 <= depth PROVE f[k + 1] \subseteq g[(k + 1) + 1]
      OBVIOUS
    <3>1. f[k] \subseteq g[k + 1]
      BY <2>6
    <3>2. f[k + 1] = Children(f[k])
      BY <2>3 DEF LevelBody
    <3>3. g[(k + 1) + 1] = Children(g[k + 1])
      BY <2>4 DEF LevelBody
    <3> QED BY <3>1, <3>2, <3>3, ChildrenGrow
  <2>7. Nat \subseteq T
    <3> HIDE DEF T
    <3> QED BY <2>5, <2>6, Doubling!Induction
  <2> QED BY <2>1, <2>2, <2>7
<1>2. \A a, b : Len(Node(a, b)) = 2 /\ Node(a, b)[1] = a /\ Node(a, b)[2] = b
  BY DEF Node
<1> QED BY <1>1, <1>2

\* A root is zero levels below itself.
LEMMA BelowStarts == \A root : root \in Below(0, root)
<1> TAKE root
<1>1. PICK f : IsLevels(f, 0, root) /\ Below(0, root) = f[0]
  BY BelowIs
<1>2. f[0] = {root}
  <2>1. 0 \in Nat /\ 0 \in 0..0
    OBVIOUS
  <2>2. f[0] = LevelBody(f, root, 0)
    BY <1>1, <2>1, LevelsAre
  <2> QED BY <2>2 DEF LevelBody
<1> QED BY <1>1, <1>2

-----------------------------------------------------------------------------
(* A walk, for every log at once.                                          *)

WalkAt(c, path, w, f, s, k, first, second) ==
    /\ Level(c, w, f, s)
    /\ \A log \in Logs : SizeOf(c) <= Len(log) =>
          FoldsTo(c, path, log, w, f, k, first, second)
    /\ \A one, other \in Logs : IndexOf(c) + 1 <= Len(one) /\ SizeOf(c) <= Len(other) =>
          TreesAgree(c, one, other, w, f, first, second)

\* A walk goes one level up where the last node has no sibling.
LEMMA WalkCarries ==
    ASSUME NEW c, Proper(c), NEW w, NEW f, NEW s, f = s, f % 2 = 0,
           NEW path, NEW k, NEW first, NEW second, WalkAt(c, path, w, f, s, k, first, second)
    PROVE  WalkAt(c, path, 2 * w, f \div 2, s \div 2, k, first, second)
<1>1. \A log \in Logs : log \in Seq(Int)
  BY LogProofsAssumption
<1>2. Level(c, w, f, s) /\ Level(c, 2 * w, f \div 2, s \div 2)
  BY LevelFacts DEF WalkAt
<1>3. ASSUME NEW log \in Logs, SizeOf(c) <= Len(log)
      PROVE  FoldsTo(c, path, log, 2 * w, f \div 2, k, first, second)
  BY <1>1, <1>2, <1>3, FoldsCarry DEF WalkAt
<1>4. ASSUME NEW one \in Logs, NEW other \in Logs, IndexOf(c) + 1 <= Len(one), SizeOf(c) <= Len(other)
      PROVE  TreesAgree(c, one, other, 2 * w, f \div 2, first, second)
  BY <1>1, <1>2, <1>4, AgreeCarry DEF WalkAt
<1> QED BY <1>2, <1>3, <1>4 DEF WalkAt

\* A walk takes a right sibling.
LEMMA WalkRight ==
    ASSUME NEW c, Proper(c), NEW w, NEW f, NEW s, f # s, f % 2 = 0,
           NEW path \in Seq(Digests), NEW k \in Nat, k < Len(path),
           NEW first, NEW second, WalkAt(c, path, w, f, s, k, first, second)
    PROVE  WalkAt(c, path, 2 * w, f \div 2, s \div 2, k + 1, first, Node(second, path[k + 1]))
<1>1. \A log \in Logs : log \in Seq(Int)
  BY LogProofsAssumption
<1>2. Level(c, w, f, s) /\ Level(c, 2 * w, f \div 2, s \div 2)
  BY LevelFacts DEF WalkAt
<1>3. ASSUME NEW log \in Logs, SizeOf(c) <= Len(log)
      PROVE  FoldsTo(c, path, log, 2 * w, f \div 2, k + 1, first, Node(second, path[k + 1]))
  BY <1>1, <1>2, <1>3, FoldsRight DEF WalkAt
<1>4. ASSUME NEW one \in Logs, NEW other \in Logs, IndexOf(c) + 1 <= Len(one), SizeOf(c) <= Len(other)
      PROVE  TreesAgree(c, one, other, 2 * w, f \div 2, first, Node(second, path[k + 1]))
  BY <1>1, <1>2, <1>4, AgreeRight DEF WalkAt
<1> QED BY <1>2, <1>3, <1>4 DEF WalkAt

\* A walk takes a left sibling.
LEMMA WalkLeft ==
    ASSUME NEW c, Proper(c), NEW w, NEW f, NEW s, f % 2 # 0,
           NEW path \in Seq(Digests), NEW k \in Nat, k < Len(path),
           NEW first, NEW second, WalkAt(c, path, w, f, s, k, first, second)
    PROVE  WalkAt(c, path, 2 * w, f \div 2, s \div 2, k + 1,
                  Node(path[k + 1], first), Node(path[k + 1], second))
<1>1. \A log \in Logs : log \in Seq(Int)
  BY LogProofsAssumption
<1>2. Level(c, w, f, s) /\ Level(c, 2 * w, f \div 2, s \div 2)
  BY LevelFacts DEF WalkAt
<1>3. ASSUME NEW log \in Logs, SizeOf(c) <= Len(log)
      PROVE  FoldsTo(c, path, log, 2 * w, f \div 2, k + 1,
                     Node(path[k + 1], first), Node(path[k + 1], second))
  BY <1>1, <1>2, <1>3, FoldsLeft DEF WalkAt
<1>4. ASSUME NEW one \in Logs, NEW other \in Logs, IndexOf(c) + 1 <= Len(one), SizeOf(c) <= Len(other)
      PROVE  TreesAgree(c, one, other, 2 * w, f \div 2,
                        Node(path[k + 1], first), Node(path[k + 1], second))
  BY <1>1, <1>2, <1>4, AgreeLeft DEF WalkAt
<1> QED BY <1>2, <1>3, <1>4 DEF WalkAt

\* An inclusion proof starts at its leaf.
LEMMA WalkFromLeaf ==
    ASSUME NEW c, Proper(c), c.of = "inclusion", NEW path \in Seq(Digests), NEW first
    PROVE  WalkAt(c, path, 1, c.index, SizeOf(c) - 1, 0, first, c.leaf)
<1> DEFINE i == c.index
           n == SizeOf(c)
<1>1. i = IndexOf(c) /\ i \in Nat /\ n \in Nat /\ n - 1 \in Nat
  BY DEF Proper, IndexOf
<1>2. Level(c, 1, i, n - 1)
  <2>1. Above(i, 1, i) /\ Above(n - 1, 1, n - 1)
    <3>1. \A j \in Nat : Above(j, 1, j)
      BY PowersAre DEF Above
    <3> QED BY <1>1, <3>1
  <2> QED BY <1>1, <2>1 DEF Level, Open
<1>3. ASSUME NEW log \in Logs, n <= Len(log)
      PROVE  FoldsTo(c, path, log, 1, i, 0, first, c.leaf)
  <2>1. Fits(c.of, log, n, i)
    BY <1>1, <1>3, ProperFits, LogProofsAssumption
  <2>2. /\ Trail(c.of, log, n, i, 1, i) = <<>>
        /\ Hash(log, n, 1, i * 1) = <<log[i + 1]>>
    BY <2>1, TrailBegins
  <2>3. First(path, 0) = <<>>
    BY DEF First
  <2> HIDE DEF i, n
  <2> QED BY <1>1, <2>2, <2>3 DEF FoldsTo, LeafOf, n
<1> QED BY <1>1, <1>2, <1>3 DEF WalkAt, TreesAgree

\* A consistency proof starts at the whole subtree with which the first tree ends.
LEMMA WalkFromSubtree ==
    ASSUME NEW c, Proper(c), c.of = "consistency", NEW path \in Seq(Digests), path # <<>>,
           NEW w \in Powers, NEW f \in Nat, f % 2 = 0, f * w + w = IndexOf(c) + 1,
           NEW s, Above(s, w, SizeOf(c) - 1)
    PROVE  WalkAt(c, path, w, f, s, 1, path[1], path[1])
<1> DEFINE i == IndexOf(c)
           n == SizeOf(c)
           a == f * w
<1>1. i \in Nat /\ n \in Nat /\ i + 1 < n /\ w \in Nat \ {0} /\ a \in Nat /\ a + w = i + 1
  BY PowersAre DEF Proper
<1>2. Level(c, w, f, s)
  <2>1. a <= i /\ i < a + w
    <3> HIDE DEF a, i, n
    <3> QED BY <1>1
  <2> QED BY <2>1 DEF Level, Above, Open
<1>3. \A log \in Logs : log \in Seq(Int)
  BY LogProofsAssumption
<1>4. First(path, 1) = <<path[1]>> /\ \A x, y : (<<x>> = <<y>>) <=> (x = y)
  <2>1. Len(path) \in Nat /\ Len(path) >= 1
    <3>1. Len(path) \in Nat /\ Len(path) # 0
      OBVIOUS
    <3> QED BY <3>1
  <2>2. First(path, 1) = [j \in 1..1 |-> path[j]]
    BY <2>1 DEF First
  <2>3. [j \in 1..1 |-> path[j]] = <<path[1]>>
    OBVIOUS
  <2>4. \A x, y : (<<x>> = <<y>>) <=> (x = y)
    OBVIOUS
  <2> QED BY <2>2, <2>3, <2>4
<1>5. ASSUME NEW log \in Logs, n <= Len(log)
      PROVE  FoldsTo(c, path, log, w, f, 1, path[1], path[1])
  <2>1. Fits(c.of, log, n, i)
    BY <1>3, <1>5, ProperFits
  <2>2. Trail(c.of, log, n, f, w, i) = <<Hash(log, n, w, a)>>
    BY <2>1, TrailBegins
  <2>3. Hash(log, n, w, a) = Hash(log, i + 1, w, a)
    <3>1. i + 1 \in 1..Len(log) /\ n \in 1..Len(log) /\ a + w <= i + 1 /\ a + w <= n
          /\ a \in Nat /\ log \in Seq(Int)
      BY <1>1, <1>3, <1>5
    <3> HIDE DEF a, i, n
    <3> QED BY <3>1, SharedStretch
  <2>4. Len(<<Hash(log, n, w, a)>>) = 1
    OBVIOUS
  <2> HIDE DEF a, i, n
  <2>5. path[1] = Hash(log, n, w, a) <=> First(path, 1) = <<Hash(log, n, w, a)>>
    BY <1>4
  <2> QED BY <2>2, <2>3, <2>4, <2>5 DEF FoldsTo, LeafOf, a, i, n
<1>6. ASSUME NEW one \in Logs, NEW other \in Logs, i + 1 <= Len(one), n <= Len(other)
      PROVE  TreesAgree(c, one, other, w, f, path[1], path[1])
  <2>1. i + 1 \in 1..Len(one) /\ n \in 1..Len(other) /\ a + w <= i + 1 /\ a + w <= n
        /\ a \in Nat /\ one \in Seq(Int) /\ other \in Seq(Int)
    BY <1>1, <1>3, <1>6
  <2>2. Hash(one, i + 1, w, a) = Hash(other, n, w, a)
          => \A j \in (a + 1)..(a + w) : one[j] = other[j]
    <3> HIDE DEF a, i, n
    <3> QED BY <2>1, SharedStretch
  <2> QED BY <1>1, <2>2 DEF TreesAgree
<1> QED BY <1>2, <1>5, <1>6 DEF WalkAt

-----------------------------------------------------------------------------
(* The fold of a claim that is being judged.                               *)

Folding == {"strip", "walk", "climb"}
Kept(c) == IF c.of = "inclusion" THEN {"second"} ELSE {"first", "second"}

\* A hash as the walk left it, before the node that a climb goes on with.
Held(h) == IF pc = "climb" THEN hashes[h][2] ELSE hashes[h]

ClaimInv ==
    pc \in Folding =>
        /\ Proper(claim)
        /\ claim.of = "consistency" => SizesAgree(claim)
        /\ nodes = IF claim.of = "inclusion" THEN claim.path ELSE Padded(claim)
        /\ hashes = [h \in Kept(claim) |-> hashes[h]]

ClimbInv ==
    pc = "climb" =>
        /\ fn % 2 # 0 \/ fn = sn
        /\ \A h \in Kept(claim) : hashes[h] = Node(nodes[next], Held(h))

StripInv ==
    pc = "strip" =>
        /\ claim.of = "consistency" /\ nodes # <<>> /\ next = 2
        /\ hashes["first"] = nodes[1] /\ hashes["second"] = nodes[1]
        /\ \E w \in Powers : fn * w + w = claim.from /\ Above(sn, w, claim.to - 1)

WalkInv ==
    pc \in {"walk", "climb"} =>
        \E w \in Powers : WalkAt(claim, nodes, w, fn, sn, next - 1, Held("first"), Held("second"))

LeafInv ==
    pc \in {"walk", "climb"} /\ claim.of = "inclusion" =>
        claim.leaf \in Below(next - 1, Held("second"))

Verdicts == HonestProofsVerify /\ AcceptedLeafIsLogged /\ AcceptedHeadsAreOneLog

FInv == ClaimInv /\ ClimbInv /\ StripInv /\ WalkInv /\ LeafInv /\ Verdicts

-----------------------------------------------------------------------------

\* What a claim is when it is an honest proof.
LEMMA HonestFacts ==
    ASSUME TypeOK, NEW log \in Logs, Honest(log)
    PROVE  /\ claim.readable = "yes" /\ LargeEnough(claim)
           /\ claim.of = "consistency" => SizesAgree(claim)
           /\ claim.of = "inclusion" => claim.index < claim.heads[1].size
           /\ \A i \in DOMAIN claim.heads : Vouched(claim.heads[i])
<1>1. /\ DOMAIN claim.heads = 1..Len(claim.heads)
      /\ Len(claim.heads) \in {1, 2}
      /\ claim.of \in {"head", "inclusion", "consistency"}
      /\ claim.of = "inclusion" => claim.index \in Int /\ Len(claim.heads) = 1
      /\ claim.of = "consistency" => claim.from \in Int /\ claim.to \in Int /\ Len(claim.heads) = 2
  BY ClaimsTyped
<1>2. log \in Seq(Int) /\ Len(log) \in Nat
  BY LogProofsAssumption
<1>3. \A i \in DOMAIN claim.heads : Vouched(claim.heads[i]) /\ claim.heads[i].size \in 1..Len(log)
  BY DEF Honest, IsHeadOf
<1>4. \A i \in DOMAIN claim.heads : claim.heads[i].size >= 1 /\ claim.heads[i].size >= 0
  BY <1>2, <1>3
<1>5. CASE claim.of = "inclusion"
  <2>1. 1 \in DOMAIN claim.heads
    <3>1. DOMAIN claim.heads = 1..1
      BY <1>1, <1>5
    <3> QED BY <3>1
  <2>2. claim.index \in 0..(claim.heads[1].size - 1) /\ claim.readable = "yes"
    BY <1>5 DEF Honest
  <2>3. claim.heads[1].size \in Int
    BY <1>2, <1>3, <2>1
  <2>4. claim.index >= 0 /\ claim.index < claim.heads[1].size
    BY <2>2, <2>3
  <2> QED BY <1>3, <1>4, <1>5, <2>2, <2>4 DEF LargeEnough
<1>6. CASE claim.of = "consistency"
  <2>1. 1 \in DOMAIN claim.heads /\ 2 \in DOMAIN claim.heads
    <3>1. DOMAIN claim.heads = 1..2
      BY <1>1, <1>6
    <3> QED BY <3>1
  <2>2. SizesAgree(claim) /\ claim.readable = "yes"
    BY <1>6 DEF Honest
  <2>3. claim.from >= 1 /\ claim.to >= 1
    BY <1>4, <2>1, <2>2 DEF SizesAgree
  <2> QED BY <1>3, <1>4, <1>6, <2>2, <2>3 DEF LargeEnough
<1>7. CASE claim.of = "head"
  BY <1>3, <1>4, <1>7 DEF Honest, LargeEnough
<1> QED BY <1>1, <1>5, <1>6, <1>7

\* What an honest proof folds is the trail of its tree.
LEMMA HonestPath ==
    ASSUME TypeOK, ClaimInv, pc \in Folding, NEW log \in Logs, Honest(log),
           NEW top \in Powers, SizeOf(claim) <= top
    PROVE  /\ SizeOf(claim) <= Len(log) /\ LeafOf(claim, log)
           /\ nodes = Trail(claim.of, log, SizeOf(claim), 0, top, IndexOf(claim))
           /\ claim.of = "inclusion" =>
                claim.heads[1].root = Root[First(log, SizeOf(claim))]
           /\ claim.of = "consistency" =>
                /\ claim.heads[1].root = Root[First(log, IndexOf(claim) + 1)]
                /\ claim.heads[2].root = Root[First(log, SizeOf(claim))]
<1> DEFINE n == SizeOf(claim)
           i == IndexOf(claim)
<1>1. Proper(claim) /\ log \in Seq(Int) /\ Len(log) \in Nat
  BY LogProofsAssumption DEF ClaimInv
<1>2. DOMAIN claim.heads = 1..Len(claim.heads)
      /\ (claim.of = "inclusion" => Len(claim.heads) = 1)
      /\ (claim.of = "consistency" => Len(claim.heads) = 2)
  BY ClaimsTyped
<1>3. \A j \in DOMAIN claim.heads : IsHeadOf(claim.heads[j], log)
  BY DEF Honest
<1>4. CASE claim.of = "inclusion"
  <2>1. IsHeadOf(claim.heads[1], log)
    BY <1>2, <1>3, <1>4
  <2>2. n = claim.heads[1].size /\ i = claim.index
    BY <1>4 DEF SizeOf, IndexOf
  <2>3. n <= Len(log) /\ claim.heads[1].root = Root[First(log, n)]
    BY <1>1, <2>1, <2>2 DEF IsHeadOf
  <2>4. nodes = AuditPath[First(log, n)][i] /\ claim.leaf = <<log[i + 1]>>
    BY <1>4, <2>2 DEF Honest, ClaimInv
  <2>5. Fits(claim.of, log, n, i)
    BY <1>1, <2>3, ProperFits
  <2>6. Trail(claim.of, log, n, 0, top, i) = AuditPath[First(log, n)][i]
    BY <1>4, <2>5, TrailEnds
  <2> QED BY <1>4, <2>3, <2>4, <2>6 DEF LeafOf
<1>5. CASE claim.of = "consistency"
  <2>1. IsHeadOf(claim.heads[1], log) /\ IsHeadOf(claim.heads[2], log)
    BY <1>2, <1>3, <1>5
  <2>2. claim.from \in Int /\ claim.path \in Seq(Digests) /\ SizesAgree(claim)
    BY <1>5, ClaimsTyped DEF ClaimInv
  <2>3. n = claim.heads[2].size /\ i = claim.from - 1 /\ n = claim.to /\ claim.from = claim.heads[1].size
    BY <1>5, <2>2 DEF SizeOf, IndexOf, SizesAgree
  <2>4. claim.from = i + 1
    BY <2>2, <2>3
  <2>5. n <= Len(log) /\ claim.heads[1].root = Root[First(log, i + 1)]
        /\ claim.heads[2].root = Root[First(log, n)]
    BY <1>1, <2>1, <2>3, <2>4 DEF IsHeadOf
  <2>6. claim.path = Between(log, n, i + 1)
    BY <1>5, <2>3, <2>4 DEF Honest, Between
  <2>7. Fits(claim.of, log, n, i)
    BY <1>1, <2>5, ProperFits
  <2>8. Trail(claim.of, log, n, 0, top, i) = Known(log, n, i) \o claim.path
    BY <1>5, <2>6, <2>7, TrailEnds
  <2>9. PowerOfTwo(claim.from) <=> i + 1 \in Powers
    BY <1>1, <2>4, PowerTest DEF Proper
  <2>10. Hash(log, n, i + 1, 0) = claim.heads[1].root
    <3>1. i + 1 < n /\ i \in Nat
      BY <1>1, <1>5 DEF Proper
    <3> HIDE DEF i, n
    <3>2. Stretch(log, n, i + 1, 0) = First(log, i + 1)
      BY <3>1 DEF Stretch, First
    <3> QED BY <2>5, <3>2 DEF Hash
  <2>11. nodes = Padded(claim)
    BY <1>5 DEF ClaimInv
  <2>12. nodes = Known(log, n, i) \o claim.path
    <3> HIDE DEF i, n
    <3>1. CASE i + 1 \in Powers
      BY <2>9, <2>10, <2>11, <3>1 DEF Known, Padded
    <3>2. CASE i + 1 \notin Powers
      <4>1. Known(log, n, i) = <<>> /\ nodes = claim.path
        BY <2>9, <2>11, <3>2 DEF Known, Padded
      <4> QED BY <2>2, <4>1, ConcatEmptySeq
    <3> QED BY <3>1, <3>2
  <2> QED BY <1>5, <2>5, <2>8, <2>12 DEF LeafOf
<1> QED BY <1>1, <1>4, <1>5 DEF Proper

\* The walk of an honest proof comes to the root where its path ends, and to the roots.
LEMMA HonestEnd ==
    ASSUME IInv, FInv, pc = "walk", NEW log \in Logs, Honest(log)
    PROVE  /\ sn = 0 => next > Len(nodes) /\ hashes = Signed(claim)
           /\ sn # 0 => next <= Len(nodes)
<1>1. PICK w \in Powers : WalkAt(claim, nodes, w, fn, sn, next - 1, hashes["first"], hashes["second"])
  BY DEF FInv, WalkInv, Held
<1> DEFINE n == SizeOf(claim)
           i == IndexOf(claim)
           here == Trail(claim.of, log, n, fn, w, i)
<1>2. Proper(claim) /\ Level(claim, w, fn, sn) /\ log \in Seq(Int) /\ n \in Nat
  BY <1>1, LogProofsAssumption DEF FInv, ClaimInv, WalkAt, Proper, Folding
<1>3. PICK top \in Powers : n <= top
  <2> HIDE DEF n, i, here
  <2>1. Power[n] \in Nat /\ n < Power[n] /\ Power[n] \in Powers
    BY <1>2, PowersGrow DEF Powers
  <2>2. n <= Power[n]
    BY <1>2, <2>1
  <2> QED BY <2>1, <2>2
<1>4. /\ n <= Len(log) /\ LeafOf(claim, log)
      /\ nodes = Trail(claim.of, log, n, 0, top, i)
      /\ claim.of = "inclusion" => claim.heads[1].root = Root[First(log, n)]
      /\ claim.of = "consistency" =>
           /\ claim.heads[1].root = Root[First(log, i + 1)]
           /\ claim.heads[2].root = Root[First(log, n)]
  BY <1>3, HonestPath DEF IInv, FInv, Folding
<1>5. FoldsTo(claim, nodes, log, w, fn, next - 1, hashes["first"], hashes["second"])
  BY <1>1, <1>4 DEF WalkAt
<1>6. next - 1 = Len(here) /\ next \in 1..(Len(nodes) + 1) /\ nodes \in Seq(Digests) /\ Len(nodes) \in Nat
  BY <1>5 DEF FoldsTo, IInv, TypeOK
<1>7. /\ sn = 0 => fn = 0 /\ here = nodes
      /\ sn # 0 => Len(here) < Len(nodes)
  BY <1>2, <1>3, <1>4, LengthIsTold
<1>8. ASSUME sn = 0 PROVE next > Len(nodes) /\ hashes = Signed(claim)
  <2>1. next - 1 = Len(nodes) /\ next > Len(nodes)
    BY <1>6, <1>7, <1>8
  <2>2. FoldsTo(claim, nodes, log, w, fn, Len(nodes), hashes["first"], hashes["second"])
        /\ Level(claim, w, fn, 0) /\ fn = 0
    BY <1>2, <1>5, <1>7, <1>8, <2>1
  <2>3. nodes = Trail(claim.of, log, n, 0, w, i)
    BY <1>7, <1>8
  <2> HIDE DEF here, n, i
  <2>4. /\ hashes["second"] = Root[First(log, n)]
        /\ claim.of = "consistency" => hashes["first"] = Root[First(log, i + 1)]
    BY <1>2, <1>4, <1>6, <2>2, <2>3, RootReached DEF n, i
  <2>5. hashes = [h \in Kept(claim) |-> hashes[h]]
    BY DEF FInv, ClaimInv, Folding
  <2>6. claim.of \in {"inclusion", "consistency"}
    BY <1>2 DEF Proper
  <2>7. hashes = Signed(claim)
    <3>1. CASE claim.of = "inclusion"
      <4>1. hashes = [h \in {"second"} |-> hashes[h]] /\ hashes["second"] = claim.heads[1].root
        BY <1>4, <2>4, <2>5, <3>1 DEF Kept
      <4>2. hashes = [second |-> claim.heads[1].root]
        BY <4>1
      <4> QED BY <3>1, <4>2 DEF Signed
    <3>2. CASE claim.of = "consistency"
      <4>1. /\ hashes = [h \in {"first", "second"} |-> hashes[h]]
            /\ hashes["first"] = claim.heads[1].root /\ hashes["second"] = claim.heads[2].root
        BY <1>4, <2>4, <2>5, <3>2 DEF Kept
      <4>2. hashes = [first |-> claim.heads[1].root, second |-> claim.heads[2].root]
        BY <4>1
      <4> QED BY <3>2, <4>2 DEF Signed
    <3> QED BY <2>6, <3>1, <3>2
  <2> QED BY <2>1, <2>7
<1>9. ASSUME sn # 0 PROVE next <= Len(nodes)
  <2>1. next - 1 < Len(nodes)
    BY <1>6, <1>7, <1>9
  <2> QED BY <1>6, <2>1
<1> QED BY <1>8, <1>9

-----------------------------------------------------------------------------
(* The steps.                                                              *)

\* No verdict is given yet.
LEMMA VerdictsOpen ==
    ASSUME pc' # "done", outcome' = "none"
    PROVE  Verdicts'
BY DEF Verdicts, HonestProofsVerify, AcceptedLeafIsLogged, AcceptedHeadsAreOneLog

\* Outside of the fold, and on the way there.
LEMMA OtherPlaces ==
    ASSUME pc' \notin Folding, pc' # "done", outcome' = "none"
    PROVE  FInv'
BY VerdictsOpen DEF FInv, ClaimInv, ClimbInv, StripInv, WalkInv, LeafInv, Folding

\* An answer: a rejection of no honest proof, or a verified one.
LEMMA AnswerKeeps ==
    ASSUME NEW result, Return(result),
           result = "valid" \/ \A log \in Logs : ~Honest(log),
           result = "valid" => /\ (AcceptedLeafIsLogged)'
                               /\ (AcceptedHeadsAreOneLog)'
    PROVE  FInv'
<1>1. ClaimInv' /\ ClimbInv' /\ StripInv' /\ WalkInv' /\ LeafInv'
  BY DEF Return, ClaimInv, ClimbInv, StripInv, WalkInv, LeafInv, Folding
<1>2. HonestProofsVerify'
  <2>1. \A log \in Logs : Honest(log)' => Honest(log)
    BY DEF Return, Honest, Vouched
  <2> QED BY <2>1 DEF Return, HonestProofsVerify
<1>3. AcceptedLeafIsLogged' /\ AcceptedHeadsAreOneLog'
  BY DEF Return, AcceptedLeafIsLogged, AcceptedHeadsAreOneLog
<1> QED BY <1>1, <1>2, <1>3 DEF FInv, Verdicts

\* Only the second hash of an inclusion proof says anything.
LEMMA FirstIsFree ==
    ASSUME NEW c, c.of = "inclusion", NEW path, NEW w, NEW f, NEW s, NEW k, NEW first, NEW second,
           WalkAt(c, path, w, f, s, k, first, second), NEW other
    PROVE  WalkAt(c, path, w, f, s, k, other, second)
BY DEF WalkAt, FoldsTo, TreesAgree

\* Within the fold, the claim and its nodes stay.
LEMMA ClaimStays ==
    ASSUME ClaimInv, pc \in Folding, UNCHANGED <<claim, nodes>>,
           hashes' = [h \in Kept(claim) |-> hashes'[h]]
    PROVE  ClaimInv'
BY DEF ClaimInv

\* The next level of the walk.
LEMMA WalkGoesOn ==
    ASSUME FInv, pc \in Folding, pc' \in {"walk", "climb"},
           UNCHANGED <<claim, nodes>>, outcome' = "none",
           hashes' = [h \in Kept(claim) |-> hashes'[h]], ClimbInv',
           NEW w \in Powers,
           WalkAt(claim, nodes, w, fn', sn', next' - 1, Held("first")', Held("second")'),
           claim.of = "inclusion" => claim.leaf \in Below(next' - 1, Held("second")')
    PROVE  FInv'
<1>1. ClaimInv'
  BY ClaimStays DEF FInv
<1>2. Verdicts'
  BY VerdictsOpen
<1>3. StripInv'
  BY DEF StripInv
<1>4. WalkInv' /\ LeafInv'
  <2> DEFINE first == Held("first")'
             second == Held("second")'
  <2>1. WalkAt(claim', nodes', w, fn', sn', next' - 1, first, second)
    OBVIOUS
  <2>2. claim'.of = "inclusion" => claim'.leaf \in Below(next' - 1, second)
    OBVIOUS
  <2> QED BY <2>1, <2>2 DEF WalkInv, LeafInv
<1> QED BY <1>1, <1>2, <1>3, <1>4 DEF FInv

\* The fold of an inclusion proof starts at its leaf.
LEMMA BeginInclusionKeeps ==
    ASSUME IInv, FInv, BeginInclusion
    PROVE  FInv'
<1> DEFINE size == claim.heads[1].size
<1>1. pc = "begin" /\ claim.of = "inclusion" /\ TypeOK /\ LargeEnough(claim) /\ outcome = "none"
  BY DEF BeginInclusion, IInv, MembersInv, HeadsInv
<1>2. claim.index \in Nat /\ claim.path \in Seq(Digests) /\ size \in Int
  <2>1. DOMAIN claim.heads = 1..1 /\ claim.index \in Int /\ claim.path \in Seq(Digests)
        /\ \A i \in DOMAIN claim.heads : claim.heads[i] \in Heads
    BY <1>1, ClaimsTyped
  <2> QED BY <1>1, <2>1 DEF LargeEnough, Heads
<1>3. CASE claim.index >= size /\ Return("PARSE_ERROR")
  <2>1. \A log \in Logs : ~Honest(log)
    <3>1. ~(claim.index < size)
      BY <1>2, <1>3
    <3> QED BY <1>1, <3>1, HonestFacts
  <2> QED BY <1>3, <2>1, AnswerKeeps
<1>4. CASE /\ claim.index < size
           /\ Start("walk", claim.path, claim.index, size - 1, 1, [second |-> claim.leaf])
  <2>1. Proper(claim) /\ SizeOf(claim) = size
    <3>1. SizeOf(claim) = size /\ IndexOf(claim) = claim.index
      BY <1>1 DEF SizeOf, IndexOf
    <3>2. size \in Nat /\ claim.index < size
      BY <1>2, <1>4
    <3> HIDE DEF size
    <3> QED BY <1>1, <1>2, <3>1, <3>2 DEF Proper
  <2>2. /\ claim' = claim /\ nodes' = claim.path /\ pc' = "walk" /\ outcome' = outcome
        /\ fn' = claim.index /\ sn' = size - 1 /\ next' = 1 /\ hashes' = [second |-> claim.leaf]
    BY <1>4 DEF Start
  <2>3. Verdicts'
    BY <1>1, <2>2, VerdictsOpen
  <2>4. ClaimInv'
    <3>1. hashes' = [h \in {"second"} |-> hashes'[h]]
      BY <2>2
    <3> QED BY <1>1, <2>1, <2>2, <3>1 DEF ClaimInv, Kept
  <2>5. ClimbInv' /\ StripInv'
    BY <2>2 DEF ClimbInv, StripInv
  <2>6. WalkInv'
    <3>1. WalkAt(claim, claim.path, 1, claim.index, size - 1, 0, hashes["first"]', claim.leaf)
      BY <1>1, <1>2, <2>1, WalkFromLeaf
    <3>2. 1 \in Powers /\ next' - 1 = 0
      BY <2>2, PowersAre
    <3> HIDE DEF size
    <3> QED BY <2>2, <3>1, <3>2 DEF WalkInv, Held
  <2>7. LeafInv'
    <3>1. claim.leaf \in Below(0, claim.leaf) /\ next' - 1 = 0
      BY <2>2, BelowStarts
    <3> QED BY <2>2, <3>1 DEF LeafInv, Held
  <2> QED BY <2>3, <2>4, <2>5, <2>6, <2>7 DEF FInv
<1> QED BY <1>3, <1>4 DEF BeginInclusion

\* Between two trees of different sizes the path is not empty.
LEMMA PathNotEmpty ==
    ASSUME NEW log \in Seq(Int), NEW n \in 1..Len(log), NEW m \in Nat \ {0}, m < n
    PROVE  Between(log, n, m) # <<>>
<1> DEFINE T == {w \in Powers : \A a \in Nat : a < m /\ m < a + w => Link(log, n, w, a, m) # <<>>}
<1>1. 1 \in T
  <2>1. \A a \in Nat : ~(a < m /\ m < a + 1)
    OBVIOUS
  <2> QED BY <2>1, PowersAre
<1>2. ASSUME NEW w \in Powers, w \in T PROVE 2 * w \in T
  <2>1. ASSUME NEW a \in Nat, a < m, m < a + 2 * w PROVE Link(log, n, 2 * w, a, m) # <<>>
    <3>1. w \in Nat \ {0} /\ a + w \in Nat /\ a < n
      BY <2>1, PowersAre
    <3>2. CASE n <= a + w
      <4>1. m < a + w
        BY <3>1, <3>2
      <4>2. Link(log, n, 2 * w, a, m) = Link(log, n, w, a, m)
        BY <2>1, <3>2, LinkUp
      <4> QED BY <1>2, <2>1, <4>1, <4>2
    <3>3. CASE a + w < n /\ m <= a + w
      <4>1. Link(log, n, 2 * w, a, m) = Append(Link(log, n, w, a, m), Hash(log, n, w, a + w))
        BY <2>1, <3>3, LinkUp
      <4>2. Link(log, n, w, a, m) \in Seq(Hashes) /\ Hash(log, n, w, a + w) \in Hashes
        BY <2>1, <3>1, <3>3, PathsTyped
      <4> QED BY <4>1, <4>2, Appended
    <3>4. CASE a + w < n /\ m > a + w
      <4>1. m <= a + w + w
        BY <2>1, <3>1
      <4>2. Link(log, n, 2 * w, a, m) = Append(Link(log, n, w, a + w, m), Hash(log, n, w, a))
        BY <2>1, <3>4, LinkUp
      <4>3. Link(log, n, w, a + w, m) \in Seq(Hashes) /\ Hash(log, n, w, a) \in Hashes
        BY <2>1, <3>1, <3>4, <4>1, PathsTyped
      <4> QED BY <4>2, <4>3, Appended
    <3> QED BY <3>1, <3>2, <3>3, <3>4
  <2> QED BY <2>1, <1>2, PowersAre
<1>3. Powers \subseteq T
  <2> HIDE DEF T
  <2> QED BY <1>1, <1>2, PowerInduction
<1>4. n \in Nat /\ Power[n] \in Powers /\ Power[n] \in Nat /\ n < Power[n]
  BY PowersGrow DEF Powers
<1>5. Link(log, n, Power[n], 0, m) # <<>>
  <2>1. 0 < m /\ m < 0 + Power[n]
    BY <1>4
  <2> QED BY <1>3, <1>4, <2>1
<1>6. Link(log, n, Power[n], 0, m) = Between(log, n, m)
  <2>1. Stretch(log, n, Power[n], 0) = First(log, n)
    BY <1>4, LevelEnds
  <2>2. m - 0 = m /\ (0 = 0) = TRUE
    OBVIOUS
  <2> QED BY <2>1, <2>2 DEF Link, Between
<1> QED BY <1>5, <1>6

\* That of a consistency proof starts at its first node; an empty path is not honest.
LEMMA BeginConsistencyKeeps ==
    ASSUME IInv, FInv, BeginConsistency
    PROVE  FInv'
<1>1. pc = "begin" /\ claim.of = "consistency" /\ TypeOK /\ LargeEnough(claim) /\ SizesAgree(claim)
      /\ outcome = "none"
  BY DEF BeginConsistency, IInv, MembersInv, HeadsInv
<1>2. /\ claim.from \in Nat \ {0} /\ claim.to \in Nat /\ claim.from < claim.to
      /\ claim.path \in Seq(Digests) /\ claim.heads[1].root \in Digests
  <2>1. DOMAIN claim.heads = 1..2 /\ claim.from \in Int /\ claim.to \in Int /\ claim.path \in Seq(Digests)
        /\ \A i \in DOMAIN claim.heads : claim.heads[i] \in Heads
    BY <1>1, ClaimsTyped
  <2> QED BY <1>1, <2>1 DEF LargeEnough, SizesAgree, Heads
<1>3. CASE claim.path = <<>> /\ Return("PROOF_INVALID")
  <2>1. ASSUME NEW log \in Logs, Honest(log) PROVE FALSE
    <3>1. claim.to \in 1..Len(log) /\ log \in Seq(Int)
      <4>1. DOMAIN claim.heads = 1..2 /\ claim.to = claim.heads[2].size
        BY <1>1, ClaimsTyped DEF SizesAgree
      <4> QED BY <2>1, <4>1, LogProofsAssumption DEF Honest, IsHeadOf
    <3>2. claim.path = Between(log, claim.to, claim.from)
      BY <1>1, <2>1 DEF Honest, Between
    <3> QED BY <1>2, <1>3, <3>1, <3>2, PathNotEmpty
  <2> QED BY <1>3, <2>1, AnswerKeeps
<1>4. CASE /\ claim.path # <<>>
           /\ LET fold == Padded(claim)
              IN  Start("strip", fold, claim.from - 1, claim.to - 1, 2,
                        [first |-> fold[1], second |-> fold[1]])
  <2> DEFINE fold == Padded(claim)
  <2>1. SizeOf(claim) = claim.to /\ IndexOf(claim) = claim.from - 1
    BY <1>1 DEF SizeOf, IndexOf, SizesAgree
  <2>2. Proper(claim)
    <3>1. claim.from - 1 \in Nat /\ claim.from - 1 < claim.to /\ claim.from - 1 + 1 < claim.to
      BY <1>2
    <3> QED BY <1>1, <1>2, <2>1, <3>1 DEF Proper
  <2>3. /\ claim' = claim /\ nodes' = fold /\ pc' = "strip" /\ outcome' = outcome
        /\ fn' = claim.from - 1 /\ sn' = claim.to - 1 /\ next' = 2
        /\ hashes' = [first |-> fold[1], second |-> fold[1]]
    BY <1>4 DEF Start
  <2>4. fold # <<>>
    BY <1>2, <1>4 DEF Padded
  <2> HIDE DEF fold
  <2>5. Verdicts'
    BY <1>1, <2>3, VerdictsOpen
  <2>6. ClaimInv'
    <3>1. hashes' = [h \in {"first", "second"} |-> hashes'[h]]
      BY <2>3
    <3> QED BY <1>1, <2>2, <2>3, <3>1 DEF ClaimInv, Kept, SizesAgree, fold
  <2>7. ClimbInv' /\ WalkInv' /\ LeafInv'
    BY <2>3 DEF ClimbInv, WalkInv, LeafInv
  <2>8. StripInv'
    <3>1. 1 \in Powers
      BY PowersAre
    <3>2. (claim.from - 1) * 1 + 1 = claim.from
      BY <1>2
    <3>3. Above(claim.to - 1, 1, claim.to - 1)
      <4>1. \A j \in Nat : Above(j, 1, j)
        BY PowersAre DEF Above
      <4> QED BY <1>2, <4>1
    <3>4. fn' * 1 + 1 = claim'.from /\ Above(sn', 1, claim'.to - 1)
      BY <2>3, <3>2, <3>3
    <3>5. \E w \in Powers : fn' * w + w = claim'.from /\ Above(sn', w, claim'.to - 1)
      BY <3>1, <3>4
    <3>6. claim'.of = "consistency" /\ nodes' # <<>> /\ next' = 2
          /\ hashes'["first"] = nodes'[1] /\ hashes'["second"] = nodes'[1]
      BY <1>1, <2>3, <2>4
    <3> QED BY <3>5, <3>6 DEF StripInv
  <2> QED BY <2>5, <2>6, <2>7, <2>8 DEF FInv
<1> QED BY <1>3, <1>4 DEF BeginConsistency

\* While the first tree ends with a right child, the subtree it ends with is twice as large.
LEMMA StripKeeps ==
    ASSUME IInv, FInv, Strip
    PROVE  FInv'
<1>1. pc = "strip" /\ fn % 2 = 1 /\ fn \in Nat /\ sn \in Nat /\ outcome = "none"
      /\ fn' = fn \div 2 /\ sn' = sn \div 2
      /\ UNCHANGED <<claim, keys, pc, nodes, next, hashes, outcome>>
  BY DEF Strip, Halve, IInv, TypeOK, HeadsInv
<1>2. ClaimInv' /\ ClimbInv' /\ WalkInv' /\ LeafInv'
  BY <1>1 DEF FInv, ClaimInv, ClimbInv, WalkInv, LeafInv
<1>3. PICK w \in Powers : fn * w + w = claim.from /\ Above(sn, w, claim.to - 1)
  BY <1>1 DEF FInv, StripInv
<1>4. Proper(claim) /\ claim.of = "consistency" /\ SizesAgree(claim)
  BY <1>1 DEF FInv, ClaimInv, StripInv, Folding
<1>5. claim.to - 1 \in Nat
  <2>1. SizeOf(claim) = claim.to /\ SizeOf(claim) \in Nat /\ IndexOf(claim) \in Nat
        /\ IndexOf(claim) < SizeOf(claim)
    BY <1>4 DEF Proper, SizeOf, SizesAgree
  <2> QED BY <2>1
<1>6. w \in Nat \ {0} /\ 2 * w \in Powers
  BY PowersAre
<1>7. (fn \div 2) * (2 * w) + 2 * w = claim.from
  <2> DEFINE a == fn * w
             b == (fn \div 2) * (2 * w)
  <2>1. b = a - w /\ a \in Nat
    BY <1>1, <1>6, Parent
  <2> HIDE DEF a, b
  <2>2. b + 2 * w = a + w
    BY <1>6, <2>1
  <2> QED BY <1>3, <2>2 DEF a, b
<1>8. Above(sn \div 2, 2 * w, claim.to - 1)
  BY <1>3, <1>5, AboveUp
<1>9. StripInv'
  <2>1. \E v \in Powers : fn' * v + v = claim'.from /\ Above(sn', v, claim'.to - 1)
    BY <1>1, <1>6, <1>7, <1>8
  <2> QED BY <1>1, <2>1 DEF FInv, StripInv
<1> QED BY <1>1, <1>2, <1>9, VerdictsOpen DEF FInv

\* The walk starts at the whole subtree with which the first tree ends.
LEMMA StrippedKeeps ==
    ASSUME IInv, FInv, Stripped
    PROVE  FInv'
<1>1. pc = "strip" /\ fn % 2 = 0 /\ fn \in Nat /\ sn \in Nat /\ outcome = "none" /\ pc' = "walk"
      /\ nodes \in Seq(Digests)
      /\ UNCHANGED <<claim, keys, nodes, next, fn, sn, hashes, outcome>>
  BY DEF Stripped, Pass, walkVars, IInv, TypeOK, HeadsInv
<1>2. PICK w \in Powers : fn * w + w = claim.from /\ Above(sn, w, claim.to - 1)
  BY <1>1 DEF FInv, StripInv
<1>3. /\ Proper(claim) /\ claim.of = "consistency" /\ SizesAgree(claim) /\ nodes # <<>> /\ next = 2
      /\ hashes["first"] = nodes[1] /\ hashes["second"] = nodes[1]
      /\ hashes = [h \in Kept(claim) |-> hashes[h]]
  BY <1>1 DEF FInv, ClaimInv, StripInv, Folding
<1>4. SizeOf(claim) = claim.to /\ IndexOf(claim) = claim.from - 1
  BY <1>3 DEF SizeOf, IndexOf, SizesAgree
<1>5. IndexOf(claim) + 1 = claim.from
  <2>1. claim.from \in Int
    BY <1>3, ClaimsTyped DEF IInv
  <2> QED BY <1>4, <2>1
<1>6. WalkAt(claim, nodes, w, fn, sn, 1, nodes[1], nodes[1])
  <2>1. fn * w + w = IndexOf(claim) + 1
    BY <1>2, <1>5
  <2> QED BY <1>1, <1>2, <1>3, <1>4, <2>1, WalkFromSubtree
<1>7. WalkAt(claim, nodes, w, fn', sn', next' - 1, Held("first")', Held("second")')
  <2>1. next' - 1 = 1
    BY <1>1, <1>3
  <2>2. Held("first")' = nodes[1] /\ Held("second")' = nodes[1]
    BY <1>1, <1>3 DEF Held
  <2> QED BY <1>1, <1>6, <2>1, <2>2
<1>8. ClimbInv'
  BY <1>1 DEF ClimbInv
<1> QED BY <1>1, <1>3, <1>7, <1>8, WalkGoesOn DEF Folding

\* A left sibling is hashed before the climb; the walk itself has not gone on.
LEMMA JoinLeftKeeps ==
    ASSUME IInv, FInv, JoinLeft
    PROVE  FInv'
<1>1. /\ pc = "walk" /\ pc' = "climb" /\ IsRight /\ fn \in Nat /\ sn \in Nat /\ outcome = "none"
      /\ hashes' = [h \in DOMAIN hashes |-> Node(nodes[next], hashes[h])]
      /\ UNCHANGED <<claim, keys, at, nodes, next, fn, sn, outcome>>
  BY DEF JoinLeft, IInv, TypeOK, HeadsInv
<1>2. hashes = [h \in Kept(claim) |-> hashes[h]]
  BY <1>1 DEF FInv, ClaimInv, Folding
<1>3. DOMAIN hashes = Kept(claim)
  BY <1>2
<1>4. hashes' = [h \in Kept(claim) |-> Node(nodes[next], hashes[h])]
  BY <1>1, <1>3
<1>5. \A h \in Kept(claim) : hashes'[h] = Node(nodes[next], hashes[h])
  BY <1>4
<1>6. \A a, b : Node(a, b)[2] = b
  BY DEF Node
<1>7. \A h \in Kept(claim) : hashes'[h][2] = hashes[h]
  BY <1>5, <1>6
<1>8. ClimbInv'
  <2>1. \A h \in Kept(claim) : Held(h)' = hashes[h]
    BY <1>1, <1>7 DEF Held
  <2>2. \A h \in Kept(claim)' : hashes'[h] = Node(nodes'[next'], Held(h)')
    BY <1>1, <1>5, <2>1
  <2>3. fn' % 2 # 0 \/ fn' = sn'
    BY <1>1 DEF IsRight
  <2> QED BY <2>2, <2>3 DEF ClimbInv
<1>9. "second" \in Kept(claim) /\ (claim.of # "inclusion" => "first" \in Kept(claim))
  BY DEF Kept
<1>10. Held("second")' = hashes["second"] /\ (claim.of # "inclusion" => Held("first")' = hashes["first"])
  BY <1>1, <1>7, <1>9 DEF Held
<1>11. PICK w \in Powers : WalkAt(claim, nodes, w, fn, sn, next - 1, hashes["first"], hashes["second"])
  BY <1>1 DEF FInv, WalkInv, Held
<1>12. WalkAt(claim, nodes, w, fn', sn', next' - 1, Held("first")', Held("second")')
  <2>1. CASE claim.of = "inclusion"
    <3>1. WalkAt(claim, nodes, w, fn, sn, next - 1, Held("first")', hashes["second"])
      BY <1>11, <2>1, FirstIsFree
    <3> QED BY <1>1, <1>10, <3>1
  <2>2. CASE claim.of # "inclusion"
    BY <1>1, <1>10, <1>11, <2>2
  <2> QED BY <2>1, <2>2
<1>13. claim.of = "inclusion" => claim.leaf \in Below(next' - 1, Held("second")')
  <2>1. claim.of = "inclusion" => claim.leaf \in Below(next - 1, hashes["second"])
    BY <1>1 DEF FInv, LeafInv, Held
  <2> QED BY <1>1, <1>10, <2>1
<1>14. hashes' = [h \in Kept(claim) |-> hashes'[h]]
  BY <1>4
<1> QED BY <1>1, <1>8, <1>12, <1>13, <1>14, WalkGoesOn DEF Folding

\* A right sibling takes the walk one level up.
LEMMA JoinRightKeeps ==
    ASSUME IInv, FInv, JoinRight
    PROVE  FInv'
<1>1. /\ pc = "walk" /\ pc' = "walk" /\ ~IsRight /\ fn \in Nat /\ sn \in Nat /\ outcome = "none"
      /\ hashes' = [hashes EXCEPT !["second"] = Node(@, nodes[next])]
      /\ fn' = fn \div 2 /\ sn' = sn \div 2 /\ next' = next + 1
      /\ next \in 1..Len(nodes) /\ nodes \in Seq(Digests)
      /\ UNCHANGED <<claim, keys, at, nodes, outcome>>
  BY DEF JoinRight, Halve, IInv, TypeOK, HeadsInv
<1>2. fn % 2 = 0 /\ fn # sn
  BY <1>1 DEF IsRight
<1>3. Proper(claim) /\ hashes = [h \in Kept(claim) |-> hashes[h]] /\ "second" \in Kept(claim)
  BY <1>1 DEF FInv, ClaimInv, Folding, Kept
<1>4. /\ hashes' = [h \in Kept(claim) |-> hashes'[h]]
      /\ hashes'["second"] = Node(hashes["second"], nodes[next])
      /\ claim.of # "inclusion" => hashes'["first"] = hashes["first"]
  <2>1. DOMAIN hashes = Kept(claim)
    BY <1>3
  <2>2. claim.of # "inclusion" => "first" \in Kept(claim)
    BY DEF Kept
  <2> QED BY <1>1, <1>3, <2>1, <2>2
<1>5. PICK w \in Powers : WalkAt(claim, nodes, w, fn, sn, next - 1, hashes["first"], hashes["second"])
  BY <1>1 DEF FInv, WalkInv, Held
<1>6. next - 1 \in Nat /\ next - 1 < Len(nodes) /\ next - 1 + 1 = next /\ next' - 1 = next
  BY <1>1
<1>7. WalkAt(claim, nodes, 2 * w, fn', sn', next, hashes["first"], hashes'["second"])
  <2>1. WalkAt(claim, nodes, 2 * w, fn \div 2, sn \div 2, next - 1 + 1, hashes["first"],
               Node(hashes["second"], nodes[next - 1 + 1]))
    BY <1>1, <1>2, <1>3, <1>5, <1>6, WalkRight
  <2> QED BY <1>1, <1>4, <1>6, <2>1
<1>8. WalkAt(claim, nodes, 2 * w, fn', sn', next' - 1, Held("first")', Held("second")')
  <2>1. CASE claim.of = "inclusion"
    <3>1. WalkAt(claim, nodes, 2 * w, fn', sn', next, hashes'["first"], hashes'["second"])
      BY <1>7, <2>1, FirstIsFree
    <3> QED BY <1>1, <1>6, <3>1 DEF Held
  <2>2. CASE claim.of # "inclusion"
    BY <1>1, <1>4, <1>6, <1>7, <2>2 DEF Held
  <2> QED BY <2>1, <2>2
<1>9. claim.of = "inclusion" => claim.leaf \in Below(next' - 1, Held("second")')
  <2>1. claim.of = "inclusion" => claim.leaf \in Below(next - 1, hashes["second"])
    BY <1>1 DEF FInv, LeafInv, Held
  <2>2. claim.of = "inclusion" =>
            claim.leaf \in Below(next - 1 + 1, Node(hashes["second"], nodes[next]))
    BY <1>6, <2>1, BelowUp
  <2> QED BY <1>1, <1>4, <1>6, <2>2 DEF Held
<1>10. ClimbInv'
  BY <1>1 DEF ClimbInv
<1>11. 2 * w \in Powers
  BY PowersAre
<1> QED BY <1>1, <1>4, <1>8, <1>9, <1>10, <1>11, WalkGoesOn DEF Folding

\* A last node without a sibling is carried up.
LEMMA ClimbKeeps ==
    ASSUME IInv, FInv, Climb
    PROVE  FInv'
<1>1. /\ pc = "climb" /\ pc' = "climb" /\ fn % 2 = 0 /\ fn \in Nat /\ sn \in Nat /\ outcome = "none"
      /\ fn' = fn \div 2 /\ sn' = sn \div 2
      /\ UNCHANGED <<claim, keys, at, nodes, next, hashes, outcome>>
  BY DEF Climb, Halve, IInv, TypeOK, HeadsInv
<1>2. fn = sn /\ \A h \in Kept(claim) : hashes[h] = Node(nodes[next], Held(h))
  BY <1>1 DEF FInv, ClimbInv
<1>3. Proper(claim) /\ hashes = [h \in Kept(claim) |-> hashes[h]]
  BY <1>1 DEF FInv, ClaimInv, Folding
<1>4. \A h : Held(h)' = Held(h)
  BY <1>1 DEF Held
<1>5. PICK w \in Powers : WalkAt(claim, nodes, w, fn, sn, next - 1, Held("first"), Held("second"))
  BY <1>1 DEF FInv, WalkInv
<1>6. 2 * w \in Powers
  BY PowersAre
<1>7. WalkAt(claim, nodes, 2 * w, fn', sn', next' - 1, Held("first")', Held("second")')
  <2>1. WalkAt(claim, nodes, 2 * w, fn \div 2, sn \div 2, next - 1, Held("first"), Held("second"))
    BY <1>1, <1>2, <1>3, <1>5, WalkCarries
  <2> QED BY <1>1, <1>4, <2>1
<1>8. claim.of = "inclusion" => claim.leaf \in Below(next' - 1, Held("second")')
  BY <1>1, <1>4 DEF FInv, LeafInv
<1>9. ClimbInv'
  BY <1>1, <1>2, <1>4 DEF ClimbInv
<1>10. hashes' = [h \in Kept(claim) |-> hashes'[h]]
  BY <1>1, <1>3
<1> QED BY <1>1, <1>6, <1>7, <1>8, <1>9, <1>10, WalkGoesOn DEF Folding

\* The left sibling that was hashed takes the walk one level up.
LEMMA ClimbedKeeps ==
    ASSUME IInv, FInv, Climbed
    PROVE  FInv'
<1>1. /\ pc = "climb" /\ pc' = "walk" /\ fn \in Nat /\ sn \in Nat /\ outcome = "none"
      /\ fn' = fn \div 2 /\ sn' = sn \div 2 /\ next' = next + 1
      /\ next \in 1..Len(nodes) /\ nodes \in Seq(Digests)
      /\ UNCHANGED <<claim, keys, at, nodes, hashes, outcome>>
  BY DEF Climbed, Halve, IInv, TypeOK, HeadsInv, FoldInv
<1>2. fn % 2 # 0
  BY DEF Climbed, IInv, ClimbStops
<1>3. Proper(claim) /\ hashes = [h \in Kept(claim) |-> hashes[h]] /\ "second" \in Kept(claim)
  BY <1>1 DEF FInv, ClaimInv, Folding, Kept
<1>4. \A h \in Kept(claim) : hashes[h] = Node(nodes[next], Held(h))
  BY <1>1 DEF FInv, ClimbInv
<1>5. PICK w \in Powers : WalkAt(claim, nodes, w, fn, sn, next - 1, Held("first"), Held("second"))
  BY <1>1 DEF FInv, WalkInv
<1>6. next - 1 \in Nat /\ next - 1 < Len(nodes) /\ next - 1 + 1 = next /\ next' - 1 = next
  BY <1>1
<1>7. WalkAt(claim, nodes, 2 * w, fn', sn', next, Node(nodes[next], Held("first")), hashes'["second"])
  <2>1. WalkAt(claim, nodes, 2 * w, fn \div 2, sn \div 2, next - 1 + 1,
               Node(nodes[next - 1 + 1], Held("first")), Node(nodes[next - 1 + 1], Held("second")))
    BY <1>1, <1>2, <1>3, <1>5, <1>6, WalkLeft
  <2> QED BY <1>1, <1>3, <1>4, <1>6, <2>1
<1>8. WalkAt(claim, nodes, 2 * w, fn', sn', next' - 1, Held("first")', Held("second")')
  <2>1. CASE claim.of = "inclusion"
    <3>1. WalkAt(claim, nodes, 2 * w, fn', sn', next, hashes'["first"], hashes'["second"])
      BY <1>7, <2>1, FirstIsFree
    <3> QED BY <1>1, <1>6, <3>1 DEF Held
  <2>2. CASE claim.of # "inclusion"
    <3>1. "first" \in Kept(claim)
      BY <2>2 DEF Kept
    <3> QED BY <1>1, <1>4, <1>6, <1>7, <3>1 DEF Held
  <2> QED BY <2>1, <2>2
<1>9. claim.of = "inclusion" => claim.leaf \in Below(next' - 1, Held("second")')
  <2>1. claim.of = "inclusion" => claim.leaf \in Below(next - 1, Held("second"))
    BY <1>1 DEF FInv, LeafInv
  <2>2. claim.of = "inclusion" =>
            claim.leaf \in Below(next - 1 + 1, Node(nodes[next], Held("second")))
    BY <1>6, <2>1, BelowUp
  <2>3. Held("second")' = Node(nodes[next], Held("second"))
    BY <1>1, <1>3, <1>4 DEF Held
  <2> QED BY <1>6, <2>2, <2>3
<1>10. ClimbInv'
  BY <1>1 DEF ClimbInv
<1>11. 2 * w \in Powers /\ hashes' = [h \in Kept(claim) |-> hashes'[h]]
  BY <1>1, <1>3, PowersAre
<1> QED BY <1>1, <1>8, <1>9, <1>10, <1>11, WalkGoesOn DEF Folding

\* An honest proof is never longer than its tree is high.
LEMMA OverlongKeeps ==
    ASSUME IInv, FInv, Overlong
    PROVE  FInv'
<1>1. pc = "walk" /\ sn = 0 /\ next <= Len(nodes) /\ Return("PROOF_INVALID")
  BY DEF Overlong
<1>2. next \in Nat /\ Len(nodes) \in Nat
  BY DEF IInv, TypeOK
<1>3. \A log \in Logs : ~Honest(log)
  BY <1>1, <1>2, HonestEnd
<1> QED BY <1>1, <1>3, AnswerKeeps

\* What verifies is logged.
LEMMA ValidIsLogged ==
    ASSUME IInv, FInv, pc = "walk", next > Len(nodes), sn = 0, hashes = Signed(claim),
           claim.of = "inclusion"
    PROVE  LET head == claim.heads[1]
           IN  /\ \A log \in Logs : IsHeadOf(head, log) =>
                     /\ claim.leaf = <<log[claim.index + 1]>>
                     /\ claim.path = AuditPath[First(log, head.size)][claim.index]
               /\ claim.leaf \in Below(Len(claim.path), head.root)
<1> DEFINE head == claim.heads[1]
           n == SizeOf(claim)
           i == IndexOf(claim)
<1>1. /\ Proper(claim) /\ n = head.size /\ i = claim.index /\ nodes = claim.path
      /\ hashes["second"] = head.root
  BY DEF FInv, ClaimInv, Folding, SizeOf, IndexOf, Signed
<1>2. next - 1 = Len(nodes) /\ nodes \in Seq(Digests) /\ fn \in Nat
  BY DEF IInv, TypeOK
<1>3. PICK w \in Powers : WalkAt(claim, nodes, w, fn, sn, next - 1, hashes["first"], hashes["second"])
  BY DEF FInv, WalkInv, Held
<1> HIDE DEF n, i, head
<1>4. ASSUME NEW log \in Logs, IsHeadOf(head, log)
      PROVE  claim.leaf = <<log[claim.index + 1]>> /\ claim.path = AuditPath[First(log, n)][i]
  <2>1. log \in Seq(Int) /\ n <= Len(log) /\ head.root = Root[First(log, n)]
    BY <1>1, <1>4, LogProofsAssumption DEF IsHeadOf
  <2>2. FoldsTo(claim, nodes, log, w, fn, Len(nodes), hashes["first"], hashes["second"])
        /\ Level(claim, w, fn, 0)
    BY <1>2, <1>3, <1>4, <2>1 DEF WalkAt, n
  <2>3. /\ n <= w
        /\ hashes["second"] = Root[First(log, n)] <=>
             LeafOf(claim, log) /\ nodes = Trail(claim.of, log, n, 0, w, i)
    BY <1>1, <1>2, <2>1, <2>2, RootReached DEF n, i
  <2>4. Trail(claim.of, log, n, 0, w, i) = AuditPath[First(log, n)][i]
    <3>1. Fits(claim.of, log, n, i)
      BY <1>1, <2>1, ProperFits DEF n, i
    <3> QED BY <2>3, <3>1, TrailEnds
  <2> QED BY <1>1, <2>1, <2>3, <2>4 DEF LeafOf, i
<1>5. claim.leaf \in Below(Len(claim.path), head.root)
  <2>1. claim.leaf \in Below(next - 1, hashes["second"])
    BY DEF FInv, LeafInv, Held
  <2> QED BY <1>1, <1>2, <2>1
<1> QED BY <1>1, <1>4, <1>5 DEF head

\* Trees that verify have one log.
LEMMA ValidIsOneLog ==
    ASSUME IInv, FInv, pc = "walk", next > Len(nodes), sn = 0, hashes = Signed(claim),
           claim.of = "consistency"
    PROVE  \A one, other \in Logs :
               IsHeadOf(claim.heads[1], one) /\ IsHeadOf(claim.heads[2], other) =>
                   First(one, claim.from) = First(other, claim.from)
<1> DEFINE n == SizeOf(claim)
           m == IndexOf(claim) + 1
<1>1. /\ Proper(claim) /\ n = claim.heads[2].size /\ m = claim.heads[1].size /\ m = claim.from
      /\ hashes["first"] = claim.heads[1].root /\ hashes["second"] = claim.heads[2].root
  <2>1. Proper(claim) /\ SizesAgree(claim) /\ claim.from \in Int
    BY ClaimsTyped DEF IInv, FInv, ClaimInv, Folding
  <2>2. m = claim.from
    BY <2>1 DEF IndexOf
  <2> HIDE DEF m
  <2> QED BY <2>1, <2>2 DEF SizeOf, SizesAgree, Signed
<1>2. PICK w \in Powers : WalkAt(claim, nodes, w, fn, sn, next - 1, hashes["first"], hashes["second"])
  BY DEF FInv, WalkInv, Held
<1> HIDE DEF n, m
<1>3. ASSUME NEW one \in Logs, NEW other \in Logs,
             IsHeadOf(claim.heads[1], one), IsHeadOf(claim.heads[2], other)
      PROVE  First(one, claim.from) = First(other, claim.from)
  <2>1. /\ one \in Seq(Int) /\ other \in Seq(Int) /\ m <= Len(one) /\ n <= Len(other)
        /\ hashes["first"] = Root[First(one, m)] /\ hashes["second"] = Root[First(other, n)]
    <3>1. one \in Seq(Int) /\ other \in Seq(Int)
      BY LogProofsAssumption
    <3>2. m \in 1..Len(one) /\ claim.heads[1].root = Root[First(one, m)]
      BY <1>1, <1>3 DEF IsHeadOf
    <3>3. n \in 1..Len(other) /\ claim.heads[2].root = Root[First(other, n)]
      BY <1>1, <1>3 DEF IsHeadOf
    <3> QED BY <1>1, <3>1, <3>2, <3>3
  <2>2. TreesAgree(claim, one, other, w, fn, hashes["first"], hashes["second"])
        /\ Level(claim, w, fn, 0)
    BY <1>2, <1>3, <2>1 DEF WalkAt, n, m
  <2>3. First(one, m) = First(other, m)
    BY <1>1, <2>1, <2>2, TreesReached DEF n, m
  <2> QED BY <1>1, <2>3
<1> QED BY <1>3

\* Only the roots of the tree heads are answered with valid, and every honest proof is.
LEMMA CompareKeeps ==
    ASSUME IInv, FInv, Compare
    PROVE  FInv'
<1>1. pc = "walk" /\ next > Len(nodes) /\ next \in Nat /\ Len(nodes) \in Nat
  BY DEF Compare, IInv, TypeOK
<1>2. CASE sn = 0 /\ hashes = Signed(claim) /\ Return("valid")
  <2>1. UNCHANGED claim
    BY <1>2 DEF Return
  <2>2. (AcceptedLeafIsLogged)'
    <3>1. claim.of = "inclusion" =>
            LET head == claim.heads[1]
            IN  /\ \A log \in Logs : IsHeadOf(head, log) =>
                     /\ claim.leaf = <<log[claim.index + 1]>>
                     /\ claim.path = AuditPath[First(log, head.size)][claim.index]
                /\ claim.leaf \in Below(Len(claim.path), head.root)
      BY <1>1, <1>2, ValidIsLogged
    <3> QED BY <2>1, <3>1 DEF AcceptedLeafIsLogged
  <2>3. (AcceptedHeadsAreOneLog)'
    <3>1. claim.of = "consistency" =>
            \A one, other \in Logs :
               IsHeadOf(claim.heads[1], one) /\ IsHeadOf(claim.heads[2], other) =>
                   First(one, claim.from) = First(other, claim.from)
      BY <1>1, <1>2, ValidIsOneLog
    <3> QED BY <2>1, <3>1 DEF AcceptedHeadsAreOneLog
  <2> QED BY <1>2, <2>2, <2>3, AnswerKeeps
<1>3. CASE ~(sn = 0 /\ hashes = Signed(claim)) /\ Return("PROOF_INVALID")
  <2>1. \A log \in Logs : ~Honest(log)
    BY <1>1, <1>3, HonestEnd
  <2> QED BY <1>3, <2>1, AnswerKeeps
<1> QED BY <1>2, <1>3 DEF Compare

\* Before the first step nothing is folded.
LEMMA InitFInv ==
    ASSUME Init
    PROVE  FInv
BY DEF Init, FInv, ClaimInv, ClimbInv, StripInv, WalkInv, LeafInv, Folding, Verdicts,
       HonestProofsVerify, AcceptedLeafIsLogged, AcceptedHeadsAreOneLog

\* Every step keeps the fold of a claim to the tree it is about.
LEMMA NextFInv ==
    ASSUME IInv, FInv, [Next]_vars
    PROVE  FInv'
<1>1. CASE Parse
  <2>1. CASE (claim.readable = "no" \/ ~LargeEnough(claim)) /\ Return("PARSE_ERROR")
    <3>1. \A log \in Logs : ~Honest(log)
      BY <2>1, HonestFacts DEF IInv
    <3> QED BY <2>1, <3>1, AnswerKeeps
  <2>2. CASE Pass("sizes")
    BY <1>1, <2>2, OtherPlaces DEF Parse, Pass, Folding, IInv, HeadsInv
  <2> QED BY <1>1, <2>1, <2>2 DEF Parse
<1>2. CASE Sizes
  <2>1. CASE claim.of = "consistency" /\ ~SizesAgree(claim) /\ Return("PARSE_ERROR")
    <3>1. \A log \in Logs : ~Honest(log)
      BY <2>1, HonestFacts DEF IInv
    <3> QED BY <2>1, <3>1, AnswerKeeps
  <2>2. CASE Pass("heads")
    BY <1>2, <2>2, OtherPlaces DEF Sizes, Pass, Folding, IInv, HeadsInv
  <2> QED BY <1>2, <2>1, <2>2 DEF Sizes
<1>3. CASE TreeHead
  <2>1. CASE ~Vouched(claim.heads[at]) /\ Return("SIGNATURE_INVALID")
    <3>1. at \in DOMAIN claim.heads
      BY <1>3, ClaimsTyped DEF IInv, TypeOK, TreeHead
    <3>2. \A log \in Logs : ~Honest(log)
      BY <2>1, <3>1, HonestFacts DEF IInv
    <3> QED BY <2>1, <3>2, AnswerKeeps
  <2>2. CASE UNCHANGED <<claim, keys, pc, walkVars, outcome>>
    BY <1>3, <2>2, OtherPlaces DEF TreeHead, Folding, IInv, HeadsInv
  <2> QED BY <1>3, <2>1, <2>2 DEF TreeHead
<1>4. CASE TreeHeadsVouched
  <2>1. CASE claim.of = "head" /\ Return("valid")
    <3>1. (AcceptedLeafIsLogged)' /\ (AcceptedHeadsAreOneLog)'
      BY <2>1 DEF Return, AcceptedLeafIsLogged, AcceptedHeadsAreOneLog
    <3> QED BY <2>1, <3>1, AnswerKeeps
  <2>2. CASE Pass("begin")
    BY <1>4, <2>2, OtherPlaces DEF TreeHeadsVouched, Pass, Folding, IInv, HeadsInv
  <2> QED BY <1>4, <2>1, <2>2 DEF TreeHeadsVouched
<1>5. CASE UNCHANGED vars
  BY <1>5 DEF vars, walkVars, FInv, ClaimInv, ClimbInv, StripInv, WalkInv, LeafInv, Held, Verdicts,
              HonestProofsVerify, AcceptedLeafIsLogged, AcceptedHeadsAreOneLog, Honest, Vouched
<1> QED BY <1>1, <1>2, <1>3, <1>4, <1>5, BeginInclusionKeeps, BeginConsistencyKeeps, StripKeeps,
           StrippedKeeps, OverlongKeeps, JoinLeftKeeps, JoinRightKeeps, ClimbKeeps, ClimbedKeeps,
           CompareKeeps DEF Next

-----------------------------------------------------------------------------
(* The loops of the TypeScript client.                                     *)

RisenStep(f, risen) == [s \in Nat |->
    IF f % 2 = 0 /\ f # 0 THEN risen[f \div 2][s \div 2] ELSE <<f, s>>]
Rising == INSTANCE RecursiveFunctions WITH D <- Nat, Size <- Itself, Step <- RisenStep

OpenedStep(f, opened) == [s \in Nat |->
    IF f % 2 = 1 THEN opened[f \div 2][s \div 2] ELSE <<f, s>>]
Opening == INSTANCE RecursiveFunctions WITH D <- Nat, Size <- Itself, Step <- OpenedStep

\* The inner loop is the function its recursion says.
LEMMA RisenIs ==
    \A f, s \in Nat : Ts!Risen[f][s] =
        IF f % 2 = 0 /\ f # 0 THEN Ts!Risen[f \div 2][s \div 2] ELSE <<f, s>>
<1>1. Rising!IsRecursive
  <2>1. \A x \in Nat : Itself(x) \in Nat
    BY DEF Itself
  <2>2. ASSUME NEW x \in Nat, NEW f, NEW g, \A y \in Nat : Itself(y) < Itself(x) => f[y] = g[y]
        PROVE  RisenStep(x, f) = RisenStep(x, g)
    <3>1. x % 2 = 0 /\ x # 0 => f[x \div 2] = g[x \div 2]
      BY <2>2 DEF Itself
    <3> QED BY <3>1 DEF RisenStep
  <2> QED BY <2>1, <2>2 DEF Rising!IsRecursive
<1>2. \E f : Rising!Is(f)
  BY <1>1, Rising!RecursionExists
<1>3. \E f : f = [x \in Nat |-> [s \in Nat |->
          IF x % 2 = 0 /\ x # 0 THEN f[x \div 2][s \div 2] ELSE <<x, s>>]]
  BY <1>2 DEF Rising!Is, RisenStep
<1>4. Ts!Risen = [x \in Nat |-> [s \in Nat |->
          IF x % 2 = 0 /\ x # 0 THEN Ts!Risen[x \div 2][s \div 2] ELSE <<x, s>>]]
  BY <1>3 DEF Ts!Risen
<1>5. \A f \in Nat : Ts!Risen[f] = RisenStep(f, Ts!Risen)
  BY <1>4 DEF RisenStep
<1> QED BY <1>5 DEF RisenStep

\* So is the loop before the first node of a consistency proof.
LEMMA OpenedIs ==
    \A f, s \in Nat : Ts!Opened[f][s] =
        IF f % 2 = 1 THEN Ts!Opened[f \div 2][s \div 2] ELSE <<f, s>>
<1>1. Opening!IsRecursive
  <2>1. \A x \in Nat : Itself(x) \in Nat
    BY DEF Itself
  <2>2. ASSUME NEW x \in Nat, NEW f, NEW g, \A y \in Nat : Itself(y) < Itself(x) => f[y] = g[y]
        PROVE  OpenedStep(x, f) = OpenedStep(x, g)
    <3>1. x % 2 = 1 => f[x \div 2] = g[x \div 2]
      BY <2>2 DEF Itself
    <3> QED BY <3>1 DEF OpenedStep
  <2> QED BY <2>1, <2>2 DEF Opening!IsRecursive
<1>2. \E f : Opening!Is(f)
  BY <1>1, Opening!RecursionExists
<1>3. \E f : f = [x \in Nat |-> [s \in Nat |->
          IF x % 2 = 1 THEN f[x \div 2][s \div 2] ELSE <<x, s>>]]
  BY <1>2 DEF Opening!Is, OpenedStep
<1>4. Ts!Opened = [x \in Nat |-> [s \in Nat |->
          IF x % 2 = 1 THEN Ts!Opened[x \div 2][s \div 2] ELSE <<x, s>>]]
  BY <1>3 DEF Ts!Opened
<1>5. \A f \in Nat : Ts!Opened[f] = OpenedStep(f, Ts!Opened)
  BY <1>4 DEF OpenedStep
<1> QED BY <1>5 DEF OpenedStep

\* Both clients have one test for a power of two, and hash a node alike.
LEMMA SameTree ==
    /\ \A n : Ts!PowerOfTwo(n) <=> PowerOfTwo(n)
    /\ \A a, b : Ts!Node(a, b) = Node(a, b)
BY DEF Ts!PowerOfTwo, PowerOfTwo, Ts!Power, Power, Ts!Node, Node

-----------------------------------------------------------------------------
(* Its loop over a path, node by node.                                     *)

WalkBody(walk, start, path, i) == IF i = 0 THEN start ELSE Ts!Folded(walk[i - 1], path[i])
IsWalk(walk, start, path, k) == walk = [i \in 0..k |-> WalkBody(walk, start, path, i)]

\* The states of the loop, one by one.
LEMMA WalkIs ==
    ASSUME NEW start, NEW path, NEW k \in Nat, NEW walk, IsWalk(walk, start, path, k)
    PROVE  /\ walk[0] = start
           /\ \A i \in 1..k : walk[i] = Ts!Folded(walk[i - 1], path[i])
<1>1. \A i \in 0..k : walk[i] = WalkBody(walk, start, path, i)
  BY DEF IsWalk
<1>2. 0 \in 0..k /\ \A i \in 1..k : i \in 0..k /\ i # 0
  OBVIOUS
<1> QED BY <1>1, <1>2 DEF WalkBody

\* There are such states, for every path.
LEMMA WalksExist == \A start, path : \A k \in Nat : \E walk : IsWalk(walk, start, path, k)
<1> TAKE start, path
<1> DEFINE T == {k \in Nat : \E walk : IsWalk(walk, start, path, k)}
<1>1. 0 \in T
  <2> DEFINE f == [i \in 0..0 |-> start]
  <2>1. f = [i \in 0..0 |-> WalkBody(f, start, path, i)]
    BY DEF WalkBody
  <2> HIDE DEF f
  <2> QED BY <2>1 DEF IsWalk
<1>2. ASSUME NEW k \in Nat, k \in T PROVE k + 1 \in T
  <2>1. PICK f : IsWalk(f, start, path, k)
    BY <1>2
  <2> DEFINE g == [i \in 0..(k + 1) |-> WalkBody(f, start, path, i)]
  <2>2. \A i \in 0..k : g[i] = f[i]
    <3>1. \A i \in 0..k : f[i] = WalkBody(f, start, path, i)
      BY <2>1 DEF IsWalk
    <3> QED BY <3>1
  <2>3. \A i \in 0..(k + 1) : WalkBody(f, start, path, i) = WalkBody(g, start, path, i)
    <3> HIDE DEF g
    <3>1. \A i \in 0..(k + 1) : i # 0 => i - 1 \in 0..k
      OBVIOUS
    <3> QED BY <2>2, <3>1 DEF WalkBody
  <2>4. g = [i \in 0..(k + 1) |-> WalkBody(g, start, path, i)]
    BY <2>3
  <2> HIDE DEF g
  <2> QED BY <2>4 DEF IsWalk
<1>3. Nat \subseteq T
  <2> HIDE DEF T
  <2> QED BY <1>1, <1>2, Doubling!Induction
<1> QED BY <1>3

Steps(start, path) == CHOOSE walk : IsWalk(walk, start, path, Len(path))

\* The loop is the last of its states.
LEMMA WalkedIs ==
    ASSUME NEW start, NEW path, Len(path) \in Nat
    PROVE  /\ Steps(start, path)[0] = start
           /\ \A i \in 1..Len(path) :
                Steps(start, path)[i] = Ts!Folded(Steps(start, path)[i - 1], path[i])
           /\ Ts!Walked(start, path) = Steps(start, path)[Len(path)]
<1>1. IsWalk(Steps(start, path), start, path, Len(path))
  BY WalksExist DEF Steps
<1>2. Ts!Walked(start, path) = Steps(start, path)[Len(path)]
  BY DEF Ts!Walked, Steps, IsWalk, WalkBody
<1> QED BY <1>1, <1>2, WalkIs

\* A path that does not fit never does again.
LEMMA NoFitStays ==
    ASSUME NEW start, NEW path, Len(path) \in Nat, NEW k \in 0..Len(path),
           Steps(start, path)[k] = Ts!NoRoots
    PROVE  Ts!Walked(start, path) = Ts!NoRoots
<1> DEFINE T == {d \in Nat : k + d <= Len(path) => Steps(start, path)[k + d] = Ts!NoRoots}
<1>1. 0 \in T
  OBVIOUS
<1>2. ASSUME NEW d \in Nat, d \in T PROVE d + 1 \in T
  <2> SUFFICES ASSUME k + (d + 1) <= Len(path) PROVE Steps(start, path)[k + (d + 1)] = Ts!NoRoots
    OBVIOUS
  <2>1. k + d <= Len(path) /\ k + (d + 1) \in 1..Len(path) /\ (k + (d + 1)) - 1 = k + d
    OBVIOUS
  <2>2. Steps(start, path)[k + d] = Ts!NoRoots
    BY <1>2, <2>1
  <2>3. \A hash : Ts!Folded(Ts!NoRoots, hash) = Ts!NoRoots
    BY DEF Ts!Folded, Ts!NoRoots
  <2> QED BY <2>1, <2>2, <2>3, WalkedIs
<1>3. Nat \subseteq T
  <2> HIDE DEF T
  <2> QED BY <1>1, <1>2, Doubling!Induction
<1>4. Len(path) - k \in Nat /\ k + (Len(path) - k) = Len(path)
  OBVIOUS
<1>5. Steps(start, path)[Len(path)] = Ts!NoRoots
  BY <1>3, <1>4
<1> QED BY <1>5, WalkedIs

-----------------------------------------------------------------------------
(* Where the loop of the TypeScript client is at each step of this one.    *)

TsStart(c) ==
    IF c.of = "inclusion"
    THEN Ts!At(c.index, c.heads[1].size - 1, [second |-> c.leaf])
    ELSE Ts!At(Ts!Opened[c.from - 1][c.to - 1][1], Ts!Opened[c.from - 1][c.to - 1][2],
               [first |-> Padded(c)[1], second |-> Padded(c)[1]])
TsPath(c) == IF c.of = "inclusion" THEN c.path ELSE Tail(Padded(c))
TsSteps(c) == Steps(TsStart(c), TsPath(c))

\* How many nodes of it are folded.
Taken(k) == IF claim.of = "inclusion" THEN k - 1 ELSE k - 2

ReadInv ==
    /\ pc \notin {"parse", "done"} => claim.readable = "yes"
    /\ pc \in {"heads", "begin"} \cup Folding => Ts!Parsed(claim)
    /\ pc \in Folding /\ claim.of = "consistency" => claim.path # <<>>

LoopInv ==
    /\ pc \in {"walk", "climb"} /\ claim.of = "consistency" => next >= 2 /\ nodes # <<>>
    /\ pc = "strip" => Ts!Opened[fn][sn] = Ts!Opened[claim.from - 1][claim.to - 1]
    /\ pc = "walk" => TsSteps(claim)[Taken(next)] = Ts!At(fn, sn, hashes)
    /\ pc = "climb" =>
         TsSteps(claim)[Taken(next + 1)]
             = Ts!At(Ts!Risen[fn][sn][1] \div 2, Ts!Risen[fn][sn][2] \div 2, hashes)

AgreeInv == ReadInv /\ LoopInv /\ ClientsAgree

\* What both clients take for the roots that are signed, and for none.
LEMMA EndedIs ==
    ASSUME NEW c, NEW s
    PROVE  Ts!Ended(s) = Signed(c) <=> s.fit = "yes" /\ s.sn = 0 /\ s.hashes = Signed(c)
<1>1. Ts!NoRoots # Signed(c)
  <2>1. DOMAIN Ts!NoRoots = {"fit"}
    BY DEF Ts!NoRoots
  <2>2. "second" \in DOMAIN Signed(c)
    BY DEF Signed
  <2> QED BY <2>1, <2>2
<1> QED BY <1>1 DEF Ts!Ended

\* The path that is walked, and the next node of it.
LEMMA TsPathIs ==
    ASSUME IInv, FInv, pc \in Folding
    PROVE  /\ nodes \in Seq(Digests) /\ TsPath(claim) \in Seq(Digests)
           /\ claim.of \in {"inclusion", "consistency"}
           /\ claim.of = "inclusion" => TsPath(claim) = nodes
           /\ claim.of = "consistency" => nodes = Padded(claim)
           /\ claim.of = "consistency" /\ nodes # <<>> =>
                /\ Len(TsPath(claim)) = Len(nodes) - 1
                /\ \A k \in 1..(Len(nodes) - 1) : TsPath(claim)[k] = nodes[k + 1]
<1>1. nodes \in Seq(Digests)
  BY DEF IInv, TypeOK
<1>2. claim.of \in {"inclusion", "consistency"} /\ nodes = IF claim.of = "inclusion" THEN claim.path ELSE Padded(claim)
  BY DEF FInv, ClaimInv, Proper
<1>3. CASE claim.of = "inclusion"
  BY <1>1, <1>2, <1>3 DEF TsPath
<1>4. CASE claim.of = "consistency"
  <2>1. TsPath(claim) = Tail(nodes)
    BY <1>2, <1>4 DEF TsPath
  <2>2. CASE nodes # <<>>
    <3>1. /\ Tail(nodes) \in Seq(Digests) /\ Len(Tail(nodes)) = Len(nodes) - 1
          /\ \A k \in 1..(Len(nodes) - 1) : Tail(nodes)[k] = nodes[k + 1]
      BY <1>1, <2>2
    <3> QED BY <1>1, <1>2, <1>4, <2>1, <3>1
  <2>3. CASE nodes = <<>>
    <3>1. Tail(nodes) \in Seq(Digests)
      BY <1>1, <2>3, EmptySeq
    <3> QED BY <1>1, <1>2, <1>4, <2>1, <2>3, <3>1
  <2> QED BY <2>2, <2>3
<1> QED BY <1>2, <1>3, <1>4

\* The answer of the TypeScript client, once the loops begin.
LEMMA FoldAnswers ==
    ASSUME IInv, FInv, ReadInv, pc \in Folding
    PROVE  LET roots == Ts!Ended(Ts!Walked(TsStart(claim), TsPath(claim)))
           IN  Ts!Verified(claim, keys) =
                 IF roots = Signed(claim) THEN "valid" ELSE "PROOF_INVALID"
<1> DEFINE roots == Ts!Ended(Ts!Walked(TsStart(claim), TsPath(claim)))
<1>1. /\ Ts!Parsed(claim) /\ claim.of \in {"inclusion", "consistency"}
      /\ claim.of = "inclusion" => claim.index < claim.heads[1].size
      /\ claim.of = "consistency" => claim.path # <<>>
      /\ \A i \in DOMAIN claim.heads : Vouched(claim.heads[i])
  BY DEF ReadInv, FInv, ClaimInv, Proper, IndexOf, SizeOf, IInv, HeadsInv, Folding
<1>2. ~ \E i \in DOMAIN claim.heads : ~Ts!HeadVerifies(claim.heads[i], keys)
  BY <1>1 DEF Vouched, Ts!HeadVerifies
<1>3. Ts!PathVerifies(claim) <=> roots = Signed(claim)
  <2>1. CASE claim.of = "inclusion"
    <3>1. claim.index \in Int /\ claim.heads[1].size \in Int
      <4>1. DOMAIN claim.heads = 1..1 /\ claim.index \in Int
            /\ \A i \in DOMAIN claim.heads : claim.heads[i] \in Heads
        BY <2>1, ClaimsTyped DEF IInv
      <4> QED BY <4>1 DEF Heads
    <3>2. ~(claim.index >= claim.heads[1].size)
      BY <1>1, <2>1, <3>1
    <3>3. Ts!inclusionRoot(claim.index, claim.heads[1].size, claim.leaf, claim.path) = roots
      BY <2>1, <3>2 DEF Ts!inclusionRoot, TsStart, TsPath
    <3> QED BY <2>1, <3>3 DEF Ts!PathVerifies, Signed
  <2>2. CASE claim.of = "consistency"
    <3>1. (IF Ts!PowerOfTwo(claim.from) THEN <<claim.heads[1].root>> \o claim.path ELSE claim.path)
              = Padded(claim)
      BY SameTree DEF Padded
    <3>2. Ts!consistencyRoots(claim.from, claim.to, claim.path, claim.heads[1].root) = roots
      BY <1>1, <2>2, <3>1 DEF Ts!consistencyRoots, TsStart, TsPath
    <3> QED BY <2>2, <3>2 DEF Ts!PathVerifies, Signed
  <2> QED BY <1>1, <2>1, <2>2
<1>4. ~(claim.of = "inclusion" /\ claim.index >= claim.heads[1].size)
  <2>1. claim.of = "inclusion" => claim.index \in Int /\ claim.heads[1].size \in Int
    BY DEF FInv, ClaimInv, Proper, IndexOf, SizeOf
  <2> QED BY <1>1, <2>1
<1> HIDE DEF roots
<1> QED BY <1>1, <1>2, <1>3, <1>4 DEF Ts!Verified, roots

\* An answer that is the TypeScript client's.
LEMMA AgreedAnswer ==
    ASSUME NEW result, Return(result), Ts!Verified(claim, keys) = result
    PROVE  AgreeInv'
<1>1. ReadInv' /\ LoopInv'
  BY DEF Return, ReadInv, LoopInv, Folding
<1>2. ClientsAgree'
  BY DEF Return, ClientsAgree
<1> QED BY <1>1, <1>2 DEF AgreeInv

\* Within the fold: the claim stays, and only the loop is looked at.
LEMMA LoopGoesOn ==
    ASSUME ReadInv, pc \in Folding, pc' \in Folding, UNCHANGED claim, LoopInv'
    PROVE  AgreeInv'
<1>1. ReadInv'
  BY DEF ReadInv, Folding
<1>2. ClientsAgree'
  BY DEF ClientsAgree, Folding
<1> QED BY <1>1, <1>2 DEF AgreeInv

\* Which node of its path the TypeScript client folds next.
LEMMA TsFolds ==
    ASSUME IInv, FInv, AgreeInv, pc = "walk", next <= Len(nodes)
    PROVE  /\ Taken(next) \in Nat /\ Taken(next) + 1 \in 1..Len(TsPath(claim))
           /\ Taken(next + 1) = Taken(next) + 1
           /\ TsSteps(claim)[Taken(next + 1)] = Ts!Folded(Ts!At(fn, sn, hashes), nodes[next])
<1>1. /\ nodes \in Seq(Digests) /\ TsPath(claim) \in Seq(Digests) /\ Len(nodes) \in Nat
      /\ claim.of \in {"inclusion", "consistency"}
      /\ claim.of = "inclusion" => TsPath(claim) = nodes
      /\ claim.of = "consistency" /\ nodes # <<>> =>
           /\ Len(TsPath(claim)) = Len(nodes) - 1
           /\ \A k \in 1..(Len(nodes) - 1) : TsPath(claim)[k] = nodes[k + 1]
  BY TsPathIs DEF Folding
<1>2. next \in 1..Len(nodes) /\ nodes # <<>> /\ (claim.of = "consistency" => next >= 2)
  <2>1. next \in 1..Len(nodes) /\ nodes # <<>>
    BY DEF IInv, TypeOK
  <2>2. claim.of = "consistency" => next >= 2
    BY DEF AgreeInv, LoopInv
  <2> QED BY <2>1, <2>2
<1>3. /\ Taken(next) \in Nat /\ Taken(next) + 1 \in 1..Len(TsPath(claim))
      /\ Taken(next + 1) = Taken(next) + 1
      /\ TsPath(claim)[Taken(next) + 1] = nodes[next]
  <2>1. CASE claim.of = "inclusion"
    <3>1. Taken(next) = next - 1 /\ Taken(next + 1) = (next + 1) - 1
      BY <2>1 DEF Taken
    <3> QED BY <1>1, <1>2, <2>1, <3>1
  <2>2. CASE claim.of = "consistency"
    <3>1. Taken(next) = next - 2 /\ Taken(next + 1) = (next + 1) - 2
      BY <2>2 DEF Taken
    <3>2. next - 1 \in 1..(Len(nodes) - 1) /\ (next - 1) + 1 = next /\ (next - 2) + 1 = next - 1
      BY <1>1, <1>2, <2>2
    <3>3. TsPath(claim)[next - 1] = nodes[next]
      BY <1>1, <1>2, <2>2, <3>2
    <3> QED BY <1>1, <1>2, <2>2, <3>1, <3>2, <3>3
  <2> QED BY <1>1, <2>1, <2>2
<1>4. TsSteps(claim)[Taken(next)] = Ts!At(fn, sn, hashes)
  BY DEF AgreeInv, LoopInv
<1>5. Len(TsPath(claim)) \in Nat
  BY <1>1
<1>6. \A i \in 1..Len(TsPath(claim)) :
          TsSteps(claim)[i] = Ts!Folded(TsSteps(claim)[i - 1], TsPath(claim)[i])
  BY <1>5, WalkedIs DEF TsSteps
<1>7. (Taken(next) + 1) - 1 = Taken(next)
  BY <1>3
<1> QED BY <1>3, <1>4, <1>6, <1>7

\* A step of the loops is a step of its loops, but for the climb, which it takes at once.
LEMMA LoopsKeep ==
    ASSUME IInv, FInv, AgreeInv, Strip \/ Stripped \/ JoinLeft \/ JoinRight \/ Climb \/ Climbed
    PROVE  AgreeInv'
<1>1. /\ pc \in Folding /\ pc' \in Folding /\ UNCHANGED <<claim, nodes>>
      /\ fn \in Nat /\ sn \in Nat /\ next \in Nat /\ ReadInv
  BY DEF Strip, Stripped, Pass, walkVars, JoinLeft, JoinRight, Climb, Climbed, Folding,
         IInv, TypeOK, AgreeInv
<1>2. SUFFICES LoopInv'
  BY <1>1, LoopGoesOn
<1>3. CASE Strip
  <2>1. Ts!Opened[fn][sn] = Ts!Opened[fn \div 2][sn \div 2]
    BY <1>1, <1>3, OpenedIs DEF Strip
  <2> QED BY <1>3, <2>1 DEF Strip, Halve, AgreeInv, LoopInv
<1>4. CASE Stripped
  <2>1. /\ pc = "strip" /\ pc' = "walk" /\ fn % 2 = 0
        /\ UNCHANGED <<claim, nodes, next, fn, sn, hashes>>
    BY <1>4 DEF Stripped, Pass, walkVars
  <2>2. /\ claim.of = "consistency" /\ nodes # <<>> /\ next = 2
        /\ hashes["first"] = nodes[1] /\ hashes["second"] = nodes[1]
        /\ nodes = Padded(claim) /\ hashes = [h \in {"first", "second"} |-> hashes[h]]
    BY <1>1, <2>1 DEF FInv, StripInv, ClaimInv, Kept
  <2>3. hashes = [first |-> nodes[1], second |-> nodes[1]]
    BY <2>2
  <2>4. Ts!Opened[claim.from - 1][claim.to - 1] = <<fn, sn>>
    <3>1. Ts!Opened[fn][sn] = <<fn, sn>>
      <4>1. ~(fn % 2 = 1)
        BY <2>1
      <4> QED BY <1>1, <4>1, OpenedIs
    <3> QED BY <2>1, <3>1 DEF AgreeInv, LoopInv
  <2>5. TsStart(claim) = Ts!At(fn, sn, hashes)
    BY <2>2, <2>3, <2>4 DEF TsStart
  <2>6. Taken(next) = 0
    BY <2>2 DEF Taken
  <2>7. TsSteps(claim)[0] = TsStart(claim)
    BY <1>1, TsPathIs, WalkedIs DEF TsSteps
  <2>8. TsSteps(claim)[Taken(next)] = Ts!At(fn, sn, hashes)
    BY <2>5, <2>6, <2>7
  <2>9. Taken(next)' = Taken(next)
    BY <2>1 DEF Taken
  <2> QED BY <2>1, <2>2, <2>8, <2>9 DEF LoopInv, Taken
<1>5. CASE JoinLeft
  <2>1. /\ pc = "walk" /\ pc' = "climb" /\ next <= Len(nodes) /\ sn # 0 /\ IsRight
        /\ hashes' = [h \in DOMAIN hashes |-> Node(nodes[next], hashes[h])]
        /\ UNCHANGED <<claim, nodes, next, fn, sn>>
    BY <1>5 DEF JoinLeft
  <2>2. TsSteps(claim)[Taken(next + 1)] = Ts!Folded(Ts!At(fn, sn, hashes), nodes[next])
    BY <2>1, TsFolds
  <2>3. Ts!Folded(Ts!At(fn, sn, hashes), nodes[next])
          = Ts!At(Ts!Risen[fn][sn][1] \div 2, Ts!Risen[fn][sn][2] \div 2,
                  [h \in DOMAIN hashes |-> Ts!Node(nodes[next], hashes[h])])
    BY <2>1 DEF Ts!Folded, Ts!At, IsRight
  <2>4. [h \in DOMAIN hashes |-> Ts!Node(nodes[next], hashes[h])] = hashes'
    BY <2>1, SameTree
  <2>5. TsSteps(claim)[Taken(next + 1)]
          = Ts!At(Ts!Risen[fn][sn][1] \div 2, Ts!Risen[fn][sn][2] \div 2, hashes')
    BY <2>2, <2>3, <2>4
  <2>6. Taken(next + 1)' = Taken(next + 1)
    BY <2>1 DEF Taken
  <2>7. claim.of = "consistency" => next >= 2 /\ nodes # <<>>
    BY <2>1 DEF AgreeInv, LoopInv
  <2> QED BY <2>1, <2>5, <2>6, <2>7 DEF LoopInv, Taken
<1>6. CASE JoinRight
  <2>1. /\ pc = "walk" /\ pc' = "walk" /\ next <= Len(nodes) /\ sn # 0 /\ ~IsRight
        /\ hashes' = [hashes EXCEPT !["second"] = Node(@, nodes[next])]
        /\ fn' = fn \div 2 /\ sn' = sn \div 2 /\ next' = next + 1 /\ UNCHANGED <<claim, nodes>>
    BY <1>6 DEF JoinRight, Halve
  <2>2. TsSteps(claim)[Taken(next + 1)] = Ts!Folded(Ts!At(fn, sn, hashes), nodes[next])
    BY <2>1, TsFolds
  <2>3. Ts!Folded(Ts!At(fn, sn, hashes), nodes[next])
          = Ts!At(fn \div 2, sn \div 2, [hashes EXCEPT !["second"] = Ts!Node(@, nodes[next])])
    BY <2>1 DEF Ts!Folded, Ts!At, IsRight
  <2>4. [hashes EXCEPT !["second"] = Ts!Node(@, nodes[next])] = hashes'
    BY <2>1, SameTree
  <2>5. TsSteps(claim)[Taken(next + 1)] = Ts!At(fn', sn', hashes')
    BY <2>1, <2>2, <2>3, <2>4
  <2>6. Taken(next)' = Taken(next + 1)
    BY <2>1 DEF Taken
  <2>7. claim.of = "consistency" => next + 1 >= 2 /\ nodes # <<>>
    BY <1>1, <2>1 DEF AgreeInv, LoopInv
  <2> QED BY <2>1, <2>5, <2>6, <2>7 DEF LoopInv, Taken
<1>7. CASE Climb
  <2>1. Ts!Risen[fn][sn] = Ts!Risen[fn \div 2][sn \div 2]
    BY <1>1, <1>7, RisenIs DEF Climb
  <2>2. Taken(next + 1)' = Taken(next + 1)
    BY <1>7 DEF Climb, Taken
  <2> QED BY <1>7, <2>1, <2>2 DEF Climb, Halve, AgreeInv, LoopInv, Taken
<1>8. CASE Climbed
  <2>1. /\ pc = "climb" /\ pc' = "walk" /\ ~(fn % 2 = 0 /\ fn # 0)
        /\ fn' = fn \div 2 /\ sn' = sn \div 2 /\ next' = next + 1 /\ UNCHANGED <<claim, nodes, hashes>>
    BY <1>8 DEF Climbed, Halve
  <2>2. Ts!Risen[fn][sn] = <<fn, sn>>
    BY <1>1, <2>1, RisenIs
  <2>3. TsSteps(claim)[Taken(next + 1)] = Ts!At(fn', sn', hashes')
    BY <2>1, <2>2 DEF AgreeInv, LoopInv
  <2>4. Taken(next)' = Taken(next + 1)
    BY <2>1 DEF Taken
  <2>5. claim.of = "consistency" => next + 1 >= 2 /\ nodes # <<>>
    BY <1>1, <2>1 DEF AgreeInv, LoopInv
  <2> QED BY <2>1, <2>3, <2>4, <2>5 DEF LoopInv, Taken
<1> QED BY <1>3, <1>4, <1>5, <1>6, <1>7, <1>8

\* The end of the path: both clients compare the same roots, or have none.
LEMMA EndsKeep ==
    ASSUME IInv, FInv, AgreeInv, Overlong \/ Compare
    PROVE  AgreeInv'
<1> DEFINE walked == Ts!Walked(TsStart(claim), TsPath(claim))
<1>1. /\ pc = "walk" /\ next \in Nat /\ nodes \in Seq(Digests) /\ Len(nodes) \in Nat
      /\ next <= Len(nodes) + 1
  BY DEF Overlong, Compare, IInv, TypeOK
<1>2. Ts!Verified(claim, keys) = IF Ts!Ended(walked) = Signed(claim) THEN "valid" ELSE "PROOF_INVALID"
  BY <1>1, FoldAnswers DEF AgreeInv, Folding
<1>3. Len(TsPath(claim)) \in Nat
  BY <1>1, TsPathIs DEF Folding
<1>4. CASE Overlong
  <2>1. next <= Len(nodes) /\ sn = 0 /\ Return("PROOF_INVALID")
    BY <1>4 DEF Overlong
  <2>2. TsSteps(claim)[Taken(next + 1)] = Ts!NoRoots
    <3>1. Ts!Folded(Ts!At(fn, sn, hashes), nodes[next]) = Ts!NoRoots
      BY <2>1 DEF Ts!Folded, Ts!At, Ts!NoRoots
    <3> QED BY <1>1, <2>1, <3>1, TsFolds
  <2>3. Taken(next + 1) \in 0..Len(TsPath(claim))
    <3>1. Taken(next + 1) \in 1..Len(TsPath(claim))
      BY <1>1, <2>1, TsFolds
    <3> QED BY <1>3, <3>1
  <2>4. walked = Ts!NoRoots
    BY <1>3, <2>2, <2>3, NoFitStays DEF TsSteps
  <2>5. Ts!Ended(walked) # Signed(claim)
    <3>1. ~(Ts!NoRoots.fit = "yes")
      BY DEF Ts!NoRoots
    <3> QED BY <2>4, <3>1, EndedIs
  <2> QED BY <1>2, <2>1, <2>5, AgreedAnswer
<1>5. CASE Compare
  <2>1. next > Len(nodes)
    BY <1>5 DEF Compare
  <2>2. Taken(next) = Len(TsPath(claim))
    <3>1. next = Len(nodes) + 1
      BY <1>1, <2>1
    <3>2. claim.of = "consistency" => nodes # <<>>
      BY <1>1 DEF AgreeInv, LoopInv
    <3>3. /\ claim.of \in {"inclusion", "consistency"}
          /\ claim.of = "inclusion" => Len(TsPath(claim)) = Len(nodes)
          /\ claim.of = "consistency" => Len(TsPath(claim)) = Len(nodes) - 1
      BY <1>1, <3>2, TsPathIs DEF Folding
    <3> QED BY <1>1, <3>1, <3>3 DEF Taken
  <2>3. walked = Ts!At(fn, sn, hashes)
    <3>1. walked = TsSteps(claim)[Len(TsPath(claim))]
      BY <1>3, WalkedIs DEF TsSteps
    <3>2. TsSteps(claim)[Taken(next)] = Ts!At(fn, sn, hashes)
      BY <1>1 DEF AgreeInv, LoopInv
    <3> QED BY <2>2, <3>1, <3>2
  <2>4. Ts!Ended(walked) = Signed(claim) <=> (sn = 0 /\ hashes = Signed(claim))
    <3>1. walked.fit = "yes" /\ walked.sn = sn /\ walked.hashes = hashes
      BY <2>3 DEF Ts!At
    <3> QED BY <3>1, EndedIs
  <2> HIDE DEF walked
  <2> QED BY <1>2, <1>5, <2>4, AgreedAnswer DEF Compare
<1> QED BY <1>4, <1>5

\* Both clients begin alike, or refuse the same.
LEMMA BeginKeeps ==
    ASSUME IInv, FInv, FInv', IInv', AgreeInv, BeginInclusion \/ BeginConsistency
    PROVE  AgreeInv'
<1>1. /\ pc = "begin" /\ Ts!Parsed(claim) /\ claim.readable = "yes"
      /\ \A i \in DOMAIN claim.heads : Vouched(claim.heads[i])
  BY DEF BeginInclusion, BeginConsistency, AgreeInv, ReadInv, IInv, HeadsInv
<1>2. ~ \E i \in DOMAIN claim.heads : ~Ts!HeadVerifies(claim.heads[i], keys)
  BY <1>1 DEF Vouched, Ts!HeadVerifies
<1>3. CASE BeginInclusion
  <2>1. CASE claim.index >= claim.heads[1].size /\ Return("PARSE_ERROR")
    <3>1. Ts!Verified(claim, keys) = "PARSE_ERROR"
      BY <1>1, <1>2, <1>3, <2>1 DEF BeginInclusion, Ts!Verified
    <3> QED BY <2>1, <3>1, AgreedAnswer
  <2>2. CASE Start("walk", claim.path, claim.index, claim.heads[1].size - 1, 1,
                   [second |-> claim.leaf])
    <3>1. /\ claim.of = "inclusion" /\ pc' = "walk" /\ claim' = claim /\ next' = 1
          /\ fn' = claim.index /\ sn' = claim.heads[1].size - 1 /\ hashes' = [second |-> claim.leaf]
      BY <1>3, <2>2 DEF BeginInclusion, Start
    <3>2. TsStart(claim) = Ts!At(fn', sn', hashes')
      BY <3>1 DEF TsStart
    <3>3. TsSteps(claim)[0] = TsStart(claim)
      <4>1. TsPath(claim) \in Seq(Digests)
        BY <3>1, ClaimsTyped DEF TsPath, IInv
      <4>2. Len(TsPath(claim)) \in Nat
        BY <4>1
      <4> QED BY <4>2, WalkedIs DEF TsSteps
    <3>4. Taken(next)' = 0
      BY <3>1 DEF Taken
    <3>5. LoopInv'
      BY <3>1, <3>2, <3>3, <3>4 DEF LoopInv, Taken
    <3>6. ReadInv' /\ ClientsAgree'
      BY <1>1, <3>1 DEF ReadInv, ClientsAgree, Folding
    <3> QED BY <3>5, <3>6 DEF AgreeInv
  <2> QED BY <1>3, <2>1, <2>2 DEF BeginInclusion
<1>4. CASE BeginConsistency
  <2>1. CASE claim.path = <<>> /\ Return("PROOF_INVALID")
    <3>1. claim.of = "consistency"
      BY <1>4 DEF BeginConsistency
    <3>2. Ts!NoRoots # Signed(claim)
      <4>1. DOMAIN Ts!NoRoots = {"fit"}
        BY DEF Ts!NoRoots
      <4>2. "second" \in DOMAIN Signed(claim)
        BY DEF Signed
      <4> QED BY <4>1, <4>2
    <3>3. ~Ts!PathVerifies(claim)
      BY <2>1, <3>1, <3>2 DEF Ts!PathVerifies, Ts!consistencyRoots, Signed
    <3>4. Ts!Verified(claim, keys) = "PROOF_INVALID"
      BY <1>1, <1>2, <3>1, <3>3 DEF Ts!Verified
    <3> QED BY <2>1, <3>4, AgreedAnswer
  <2>2. CASE /\ claim.path # <<>>
             /\ LET fold == Padded(claim)
                IN  Start("strip", fold, claim.from - 1, claim.to - 1, 2,
                          [first |-> fold[1], second |-> fold[1]])
    <3>1. /\ claim.of = "consistency" /\ pc' = "strip" /\ claim' = claim /\ claim.path # <<>>
          /\ fn' = claim.from - 1 /\ sn' = claim.to - 1
      BY <1>4, <2>2 DEF BeginConsistency, Start
    <3>2. LoopInv' /\ ClientsAgree'
      BY <3>1 DEF LoopInv, ClientsAgree
    <3>3. ReadInv'
      BY <1>1, <3>1 DEF ReadInv, Folding
    <3> QED BY <3>2, <3>3 DEF AgreeInv
  <2> QED BY <1>4, <2>1, <2>2 DEF BeginConsistency
<1> QED BY <1>3, <1>4

\* Every step keeps the two clients together.
LEMMA NextAgreeInv ==
    ASSUME IInv, FInv, IInv', FInv', AgreeInv, [Next]_vars
    PROVE  AgreeInv'
<1>1. CASE Parse
  <2>1. CASE (claim.readable = "no" \/ ~LargeEnough(claim)) /\ Return("PARSE_ERROR")
    <3>1. Ts!Verified(claim, keys) = "PARSE_ERROR"
      BY <2>1 DEF Ts!Verified, Ts!Parsed, LargeEnough
    <3> QED BY <2>1, <3>1, AgreedAnswer
  <2>2. CASE claim.readable = "yes" /\ Pass("sizes")
    BY <2>2 DEF Pass, AgreeInv, ReadInv, LoopInv, ClientsAgree, Folding
  <2> QED BY <1>1, <2>1, <2>2 DEF Parse
<1>2. CASE Sizes
  <2>1. pc = "sizes" /\ claim.readable = "yes" /\ LargeEnough(claim)
    BY <1>2 DEF Sizes, AgreeInv, ReadInv, IInv, MembersInv
  <2>2. CASE claim.of = "consistency" /\ ~SizesAgree(claim) /\ Return("PARSE_ERROR")
    <3>1. Ts!Verified(claim, keys) = "PARSE_ERROR"
      BY <2>2 DEF Ts!Verified, Ts!Parsed, SizesAgree
    <3> QED BY <2>2, <3>1, AgreedAnswer
  <2>3. CASE (claim.of = "consistency" => SizesAgree(claim)) /\ Pass("heads")
    <3>1. Ts!Parsed(claim)
      BY <2>1, <2>3 DEF Ts!Parsed, SizesAgree, LargeEnough
    <3> QED BY <2>1, <2>3, <3>1 DEF Pass, AgreeInv, ReadInv, LoopInv, ClientsAgree, Folding
  <2> QED BY <1>2, <2>2, <2>3 DEF Sizes
<1>3. CASE TreeHead
  <2>1. pc = "heads" /\ claim.readable = "yes" /\ Ts!Parsed(claim) /\ at \in DOMAIN claim.heads
    BY <1>3, ClaimsTyped DEF TreeHead, AgreeInv, ReadInv, IInv, TypeOK
  <2>2. CASE ~Vouched(claim.heads[at]) /\ Return("SIGNATURE_INVALID")
    <3>1. ~Ts!HeadVerifies(claim.heads[at], keys)
      BY <2>2 DEF Vouched, Ts!HeadVerifies
    <3>2. Ts!Verified(claim, keys) = "SIGNATURE_INVALID"
      BY <2>1, <3>1 DEF Ts!Verified
    <3> QED BY <2>2, <3>2, AgreedAnswer
  <2>3. CASE UNCHANGED <<claim, keys, pc, walkVars, outcome>>
    BY <2>1, <2>3 DEF AgreeInv, ReadInv, LoopInv, ClientsAgree, Folding
  <2> QED BY <1>3, <2>2, <2>3 DEF TreeHead
<1>4. CASE TreeHeadsVouched
  <2>1. pc = "heads" /\ claim.readable = "yes" /\ Ts!Parsed(claim)
    BY <1>4 DEF TreeHeadsVouched, AgreeInv, ReadInv
  <2>2. CASE claim.of = "head" /\ Return("valid")
    <3>1. \A i \in DOMAIN claim.heads : Vouched(claim.heads[i])
      BY <1>4, ClaimsTyped DEF TreeHeadsVouched, IInv, HeadsInv, TypeOK
    <3>2. Ts!Verified(claim, keys) = "valid"
      BY <2>1, <2>2, <3>1 DEF Ts!Verified, Ts!HeadVerifies, Vouched
    <3> QED BY <2>2, <3>2, AgreedAnswer
  <2>3. CASE Pass("begin")
    BY <2>1, <2>3 DEF Pass, AgreeInv, ReadInv, LoopInv, ClientsAgree, Folding
  <2> QED BY <1>4, <2>2, <2>3 DEF TreeHeadsVouched
<1>5. CASE UNCHANGED vars
  BY <1>5 DEF vars, walkVars, AgreeInv, ReadInv, LoopInv, ClientsAgree, Taken
<1> QED BY <1>1, <1>2, <1>3, <1>4, <1>5, BeginKeeps, LoopsKeep, EndsKeep DEF Next

\* The fold of every claim is that of every log of its size.
THEOREM FoldInvariance == Spec => []FInv
BY InitIInv, NextIInv, InitFInv, NextFInv, PTL DEF Spec

-----------------------------------------------------------------------------

\* Every variable keeps its type: the positions stay natural numbers whatever sizes a
\* claim states, and no node is read beyond the end of the path.
THEOREM TypeCorrect == Spec => []TypeOK
BY Invariance, PTL DEF IInv

\* No path is judged, and nothing is verified, under a tree head that is not.
THEOREM HeadsComeFirst == Spec => []JudgedUnderVouchedHeads
BY Invariance, PTL DEF IInv

\* The inner loop ends for trees of every size.
THEOREM InnerLoopEnds == Spec => []ClimbStops
BY Invariance, PTL DEF IInv

\* Completeness: the honest proof of every entry of every tree, and between any two
\* trees of one log, verifies.
THEOREM HonestVerify == Spec => []HonestProofsVerify
BY FoldInvariance, PTL DEF FInv, Verdicts

\* Soundness of inclusion: a verified leaf is the entry at its index, by its audit path.
THEOREM VerifiedLeafIsLogged == Spec => []AcceptedLeafIsLogged
BY FoldInvariance, PTL DEF FInv, Verdicts

\* Soundness of consistency: the second log begins with the whole first tree.
THEOREM VerifiedHeadsAreOneLog == Spec => []AcceptedHeadsAreOneLog
BY FoldInvariance, PTL DEF FInv, Verdicts

\* The two clients answer every claim alike, with the same category.
THEOREM BothClientsAgree == Spec => []ClientsAgree
<1>1. Init => AgreeInv
  BY DEF Init, AgreeInv, ReadInv, LoopInv, ClientsAgree, Folding
<1>2. Init => IInv /\ FInv
  BY InitIInv, InitFInv
<1>3. (IInv /\ FInv /\ AgreeInv) /\ [Next]_vars => (IInv /\ FInv /\ AgreeInv)'
  BY NextIInv, NextFInv, NextAgreeInv
<1>4. AgreeInv => ClientsAgree
  BY DEF AgreeInv
<1> QED BY <1>1, <1>2, <1>3, <1>4, PTL DEF Spec

\* Trees over as many entries have one root only with the same entries.
THEOREM RootFixesEntries ==
    \A s, t \in Entries : Len(s) = Len(t) /\ Root[s] = Root[t] => s = t
BY RootsDiffer

=============================================================================
