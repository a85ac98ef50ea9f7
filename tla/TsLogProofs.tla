---------------------------- MODULE TsLogProofs ----------------------------
(***************************************************************************)
(* verifySignedTreeHead, verifyInclusionProof and verifyConsistencyProof   *)
(* of the TypeScript client, as the category they answer with.             *)
(*                                                                         *)
(* Claims and hashes are those of LogProofs; the loops are functions here. *)
(***************************************************************************)
EXTENDS TransparencyLog

\* null: the path does not fit the tree.
NoRoots == [fit |-> "no"]

\* Where a loop is: a position, the last position on its level, and its hashes.
At(fn, sn, hashes) == [fit |-> "yes", fn |-> fn, sn |-> sn, hashes |-> hashes]

\* The loop over levels on which the last node has no sibling.
Risen[fn \in Nat] == [sn \in Nat |->
    IF fn % 2 = 0 /\ fn # 0 THEN Risen[fn \div 2][sn \div 2] ELSE <<fn, sn>>]

\* The loop over levels on which the first tree ends with a whole subtree.
Opened[fn \in Nat] == [sn \in Nat |->
    IF fn % 2 = 1 THEN Opened[fn \div 2][sn \div 2] ELSE <<fn, sn>>]

\* One node of a path.
Folded(s, hash) ==
    IF s.fit = "no" THEN NoRoots
    ELSE IF s.sn = 0 THEN NoRoots
    ELSE IF s.fn % 2 = 1 \/ s.fn = s.sn
    THEN LET up == Risen[s.fn][s.sn]
         IN  At(up[1] \div 2, up[2] \div 2,
                [h \in DOMAIN s.hashes |-> Node(hash, s.hashes[h])])
    ELSE At(s.fn \div 2, s.sn \div 2, [s.hashes EXCEPT !["second"] = Node(@, hash)])

\* The loop over a path.
Walked(start, path) ==
    LET walk[i \in 0..Len(path)] == IF i = 0 THEN start ELSE Folded(walk[i - 1], path[i])
    IN  walk[Len(path)]

\* The roots a path leads to, when it ends at the root.
Ended(s) == IF s.fit = "yes" /\ s.sn = 0 THEN s.hashes ELSE NoRoots

inclusionRoot(index, size, leaf, path) ==
    IF index >= size THEN NoRoots
    ELSE Ended(Walked(At(index, size - 1, [second |-> leaf]), path))

consistencyRoots(first, second, path, firstRoot) ==
    LET all == IF PowerOfTwo(first) THEN <<firstRoot>> \o path ELSE path
        open == Opened[first - 1][second - 1]
    IN  IF path = <<>> THEN NoRoots
        ELSE Ended(Walked(At(open[1], open[2], [first |-> all[1], second |-> all[1]]), Tail(all)))

\* The members have their form, and each number is at least its minimum.
Parsed(c) ==
    /\ c.readable = "yes"
    /\ \A i \in DOMAIN c.heads : c.heads[i].size >= 0
    /\ c.of = "inclusion" => c.index >= 0
    /\ c.of = "consistency" =>
         /\ c.from >= 1 /\ c.to >= 1
         /\ c.from = c.heads[1].size /\ c.to = c.heads[2].size
         /\ c.from < c.to

\* checkTreeHead, for the keyIds that resolve.
HeadVerifies(head, keys) ==
    head.signedBy \in keys /\ head.by = head.signedBy /\ head.over = head.root

PathVerifies(c) ==
    IF c.of = "inclusion"
    THEN inclusionRoot(c.index, c.heads[1].size, c.leaf, c.path) = [second |-> c.heads[1].root]
    ELSE consistencyRoots(c.from, c.to, c.path, c.heads[1].root)
             = [first |-> c.heads[1].root, second |-> c.heads[2].root]

Verified(c, keys) ==
    IF ~Parsed(c) THEN "PARSE_ERROR"
    ELSE IF \E i \in DOMAIN c.heads : ~HeadVerifies(c.heads[i], keys) THEN "SIGNATURE_INVALID"
    ELSE IF c.of = "head" THEN "valid"
    ELSE IF c.of = "inclusion" /\ c.index >= c.heads[1].size THEN "PARSE_ERROR"
    ELSE IF PathVerifies(c) THEN "valid"
    ELSE "PROOF_INVALID"

=============================================================================
