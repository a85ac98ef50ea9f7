---------------------------- MODULE MCLogProofs ----------------------------
(* LogProofs over the trees of a log of up to MaxSize entries, and of logs *)
(* that differ from it in one entry.                                       *)
EXTENDS LogProofs

CONSTANTS MaxSize, logKey, otherKey

Foreign == 99
Whole == [i \in 1..MaxSize |-> i - 1]
Forked(i) == [Whole EXCEPT ![i] = Foreign]
LogSet == {Whole} \cup {Forked(i) : i \in 1..MaxSize}

\* A tree head that logKey signed.
Served(size, root) ==
    [size |-> size, root |-> root, signedBy |-> logKey, by |-> logKey, over |-> root]
Own(log, n) == Served(n, Root[First(log, n)])

\* Tree heads that do not verify, or not under every set of keys.
Spoilt(head) ==
    {[head EXCEPT !.signedBy = otherKey], [head EXCEPT !.by = otherKey],
     [head EXCEPT !.signedBy = otherKey, !.by = otherKey],
     [head EXCEPT !.over = <<Foreign>>]}

\* A path, and what is left or made of it when hashes of it are lost, added or changed.
Altered(path) ==
    LET n == Len(path)
    IN  {path, Append(path, <<Foreign>>), <<<<0>>>> \o path}
        \cup {SubSeq(path, 1, i - 1) \o SubSeq(path, i + 1, n) : i \in 1..n}
        \cup {[path EXCEPT ![i] = <<Foreign>>] : i \in 1..n}
        \cup {[path EXCEPT ![i] = path[j]] : i, j \in 1..n}

Inclusion(readable, index, leaf, path, head) ==
    [of |-> "inclusion", readable |-> readable, index |-> index, leaf |-> leaf, path |-> path,
     heads |-> <<head>>]
Consistency(readable, from, to, path, head1, head2) ==
    [of |-> "consistency", readable |-> readable, from |-> from, to |-> to, path |-> path,
     heads |-> <<head1, head2>>]

\* For each entry of each tree: its path and the altered ones, for its leaf, another
\* one and the node above it, at any index, under its size and the sizes next to it.
InclusionsOf(n, i) ==
    LET path == AuditPath[First(Whole, n)][i]
        above == IF n = 1 THEN <<>>
                 ELSE IF i % 2 = 0 /\ i < n - 1 THEN Node(<<i>>, path[1]) ELSE Node(path[1], <<i>>)
        leaves == {<<i>>, <<(i + 1) % n>>, above} \ {<<>>}
        heads == {Served(size, Root[First(Whole, n)]) : size \in {n - 1, n, n + 1}}
    IN  {Inclusion("yes", index, leaf, p, head) :
            index \in -1..n, leaf \in leaves, p \in Altered(path), head \in heads}
        \cup {Inclusion("yes", i, <<i>>, path, head) : head \in Spoilt(Own(Whole, n))}
        \cup {Inclusion("yes", n, <<i>>, path, head) : head \in Spoilt(Own(Whole, n))}
        \cup {Inclusion("no", i, <<i>>, path, Own(Whole, n))}

\* For each two trees: the path between them and the altered ones, from that tree or
\* from one of a forked log, and the paths of forked logs.
ConsistenciesOf(m, n) ==
    LET path == ConsistencyPath[First(Whole, n)][m][TRUE]
        forked == {ConsistencyPath[First(Forked(i), n)][m][TRUE] : i \in 1..n}
        froms == {Own(log, m) : log \in LogSet}
        shifted == {Served(size, Root[First(Whole, m)]) : size \in {m - 1, m + 1}}
    IN  {Consistency("yes", m, n, p, head, Own(Whole, n)) :
            p \in Altered(path) \cup forked, head \in froms}
        \cup {Consistency("yes", m, n, p, head, Own(Forked(i), n)) :
                p \in {path} \cup forked, head \in froms, i \in 1..n}
        \cup {Consistency("yes", from, n, path, head, Own(Whole, n)) :
                from \in {m - 1, m, m + 1}, head \in shifted \cup Spoilt(Own(Whole, m))}
        \cup {Consistency("yes", m, n, path, Own(Whole, m), head) : head \in Spoilt(Own(Whole, n))}
        \cup {Consistency("yes", m, n + 1, path, Own(Whole, m), Own(Whole, n)),
              Consistency("no", m, n, path, Own(Whole, m), Own(Whole, n))}

HeadsAlone ==
    {[of |-> "head", readable |-> readable, heads |-> <<head>>] :
        readable \in {"yes", "no"},
        head \in Spoilt(Own(Whole, 1)) \cup {Own(Whole, 1), Served(-1, <<0>>), Served(0, <<0>>)}}

ClaimSet ==
    HeadsAlone
    \cup UNION {InclusionsOf(n, i) : <<n, i>> \in {x \in (1..MaxSize) \X (0..MaxSize) : x[2] < x[1]}}
    \cup UNION {ConsistenciesOf(m, n) : <<m, n>> \in {x \in (1..MaxSize) \X (1..MaxSize) : x[1] < x[2]}}

\* The hash of every stretch of a log: each hash of a claim is one.
DigestSet == {Root[SubSeq(log, r[1], r[2])] :
                 log \in LogSet, r \in {x \in (1..MaxSize) \X (1..MaxSize) : x[1] <= x[2]}}

=============================================================================
