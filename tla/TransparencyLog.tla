-------------------------- MODULE TransparencyLog --------------------------
(***************************************************************************)
(* What the proofs of a transparency log are about: the tree of RFC 9162   *)
(* Section 2.1 over the entries of a log, as the clients' tests build it.  *)
(*                                                                         *)
(* A hash is what was hashed, which takes SHA-256 to be free of collisions *)
(* and keeps leaves and nodes apart, as their prefixes do: the hash of an  *)
(* entry is <<entry>>, that of a node the pair of its children.            *)
(***************************************************************************)
EXTENDS Integers, Sequences

Node(left, right) == <<left, right>>

\* The powers of two, by doubling.
Power[e \in Nat] == IF e = 0 THEN 1 ELSE 2 * Power[e - 1]
PowerOfTwo(n) == \E e \in 0..n : n = Power[e]

\* The largest power of two below n.
Split(n) == CHOOSE k \in {Power[e] : e \in 0..n} : k < n /\ n <= 2 * k

First(s, n) == SubSeq(s, 1, n)
Rest(s, n) == SubSeq(s, n + 1, Len(s))

\* The entries of a tree are at least one.
Entries == Seq(Int) \ {<<>>}

\* The hash of the tree over entries.
Root[entries \in Entries] ==
    IF Len(entries) = 1
    THEN entries
    ELSE LET k == Split(Len(entries))
         IN  Node(Root[First(entries, k)], Root[Rest(entries, k)])

\* The audit path of each entry, by its index from 0.
AuditPath[entries \in Entries] ==
    [m \in 0..(Len(entries) - 1) |->
        LET k == Split(Len(entries))
        IN  IF Len(entries) = 1 THEN <<>>
            ELSE IF m < k
            THEN Append(AuditPath[First(entries, k)][m], Root[Rest(entries, k)])
            ELSE Append(AuditPath[Rest(entries, k)][m - k], Root[First(entries, k)])]

\* The path between the trees over the first m entries and over all of them; whole
\* says that the tree of the first m is one the verifier knows.
ConsistencyPath[entries \in Entries] ==
    [m \in 1..Len(entries) |-> [whole \in BOOLEAN |->
        LET k == Split(Len(entries))
        IN  IF m = Len(entries) THEN IF whole THEN <<>> ELSE <<Root[entries]>>
            ELSE IF m <= k
            THEN Append(ConsistencyPath[First(entries, k)][m][whole], Root[Rest(entries, k)])
            ELSE Append(ConsistencyPath[Rest(entries, k)][m - k][FALSE], Root[First(entries, k)])]]

=============================================================================
