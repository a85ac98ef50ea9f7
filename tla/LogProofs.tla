----------------------------- MODULE LogProofs -----------------------------
(***************************************************************************)
(* verify_signed_tree_head, verify_inclusion_proof and                     *)
(* verify_consistency_proof of the Python client, with the two loops of    *)
(* RFC 9162 Sections 2.1.3.2 and 2.1.4.2 step by step.                     *)
(*                                                                         *)
(* The loops differ in what they fold: an inclusion proof folds its leaf   *)
(* into one root, a consistency proof its first node into two.  hashes     *)
(* holds what is folded, and the loops are one here.                       *)
(***************************************************************************)
EXTENDS TransparencyLog

CONSTANTS
    Claims,     \* the proofs and tree heads to verify
    KeyIds,     \* the keyIds a tree head may name
    KeySets,    \* which of them may resolve
    Digests,    \* the hashes they are made of
    Logs        \* the logs that exist, as sequences of entries

\* A tree head: its members, the key that made its signature and what that covers,
\* which is rootHash without treeSize.
Heads == [size : Int, root : Digests, signedBy : KeyIds, by : KeyIds, over : Digests]

\* What is verified; readable says whether every member has its form.
HeadClaims == [of : {"head"}, readable : {"yes", "no"}, heads : [1..1 -> Heads]]
InclusionClaims == [of : {"inclusion"}, readable : {"yes", "no"}, index : Int, leaf : Digests,
                    path : Seq(Digests), heads : [1..1 -> Heads]]
ConsistencyClaims == [of : {"consistency"}, readable : {"yes", "no"}, from : Int, to : Int,
                      path : Seq(Digests), heads : [1..2 -> Heads]]
AnyClaim == HeadClaims \cup InclusionClaims \cup ConsistencyClaims

ASSUME LogProofsAssumption ==
    /\ Claims \subseteq AnyClaim
    /\ KeySets \subseteq SUBSET KeyIds
    /\ \A log \in Logs : log \in Seq(Int)

VARIABLES
    claim,      \* the argument
    keys,       \* the keyIds that resolve to a non-revoked Ed25519 key of the log
    pc,         \* the check that is next
    at,         \* the tree head it is at
    nodes,      \* path: the hashes to fold, the first root in front where it is due
    next,       \* the node that is next
    fn, sn,     \* of the RFC: a position at a level of the tree, and the last one there
    hashes,     \* what the nodes are folded into: "second", and "first" for consistency
    outcome     \* the VerifyResult: its category, or "valid"

vars == <<claim, keys, pc, at, nodes, next, fn, sn, hashes, outcome>>
walkVars == <<nodes, next, fn, sn, hashes>>

Places == {"parse", "sizes", "heads", "begin", "strip", "walk", "climb", "done"}
Categories == {"PARSE_ERROR", "SIGNATURE_INVALID", "PROOF_INVALID"}

TypeOK ==
    /\ claim \in AnyClaim
    /\ keys \subseteq KeyIds
    /\ pc \in Places
    /\ at \in 1..(Len(claim.heads) + 1)
    /\ nodes \in Seq(Digests)
    /\ next \in 1..(Len(nodes) + 1)
    /\ fn \in Nat /\ sn \in Nat
    /\ DOMAIN hashes \subseteq {"first", "second"}
    /\ outcome \in Categories \cup {"none", "valid"}

Init ==
    /\ claim \in Claims
    /\ keys \in KeySets
    /\ pc = "parse"
    /\ at = 1
    /\ nodes = <<>>
    /\ next = 1
    /\ fn = 0 /\ sn = 0
    /\ hashes = <<>>
    /\ outcome = "none"

-----------------------------------------------------------------------------
(* The members.                                                            *)

Return(result) ==
    /\ pc' = "done"
    /\ outcome' = result
    /\ UNCHANGED <<claim, keys, at, walkVars>>

Pass(check) ==
    /\ pc' = check
    /\ UNCHANGED <<claim, keys, at, walkVars, outcome>>

\* Defect: a consistency proof may start at the empty tree.
NotNegative(c) ==
    /\ \A i \in DOMAIN c.heads : c.heads[i].size >= 0
    /\ c.of = "inclusion" => c.index >= 0
    /\ c.of = "consistency" => c.from >= 0 /\ c.to >= 0

\* The smallest that each number of a proof may be.
LargeEnough(c) ==
    /\ \A i \in DOMAIN c.heads : c.heads[i].size >= 0
    /\ c.of = "inclusion" => c.index >= 0
    /\ c.of = "consistency" => c.from >= 1 /\ c.to >= 1

\* Every member is read, of the proof and of its tree heads, before any is judged.
Parse ==
    /\ pc = "parse"
    /\ \/ claim.readable = "no" /\ Return("PARSE_ERROR")
       \/ ~LargeEnough(claim) /\ Return("PARSE_ERROR")
       \/ claim.readable = "yes" /\ LargeEnough(claim) /\ Pass("sizes")

SizesAgree(c) ==
    /\ c.from = c.heads[1].size /\ c.to = c.heads[2].size
    /\ c.from < c.to

\* A consistency proof is between trees of its own sizes, the first the smaller.
Sizes ==
    /\ pc = "sizes"
    /\ \/ claim.of # "consistency" /\ Pass("heads")
       \/ claim.of = "consistency" /\ ~SizesAgree(claim) /\ Return("PARSE_ERROR")
       \/ claim.of = "consistency" /\ SizesAgree(claim) /\ Pass("heads")

-----------------------------------------------------------------------------
(* The tree heads: Section 5.6.                                            *)

\* signedBy resolves, and that key signed rootHash.
Vouched(head) ==
    /\ head.signedBy \in keys
    /\ head.by = head.signedBy
    /\ head.over = head.root

TreeHead ==
    /\ pc = "heads"
    /\ at <= Len(claim.heads)
    /\ \/ ~Vouched(claim.heads[at]) /\ Return("SIGNATURE_INVALID")
       \/ /\ Vouched(claim.heads[at])
          /\ at' = at + 1
          /\ UNCHANGED <<claim, keys, pc, walkVars, outcome>>

\* Defect: only the first tree head of a proof is verified.
TreeHeadsVouchedEarly ==
    /\ pc = "heads"
    /\ at > 1
    /\ \/ claim.of = "head" /\ Return("valid")
       \/ claim.of # "head" /\ Pass("begin")

\* A tree head by itself is verified now.
TreeHeadsVouched ==
    /\ pc = "heads"
    /\ at > Len(claim.heads)
    /\ \/ claim.of = "head" /\ Return("valid")
       \/ claim.of # "head" /\ Pass("begin")

-----------------------------------------------------------------------------
(* _inclusion_root and _consistency_roots.                                 *)

Start(check, fold, position, last, start, folded) ==
    /\ pc' = check
    /\ nodes' = fold
    /\ next' = start
    /\ fn' = position
    /\ sn' = last
    /\ hashes' = folded
    /\ UNCHANGED <<claim, keys, at, outcome>>

\* Section 5.4: the index is compared with the size only once the head is verified.
BeginInclusion ==
    /\ pc = "begin"
    /\ claim.of = "inclusion"
    /\ LET size == claim.heads[1].size
       IN  \/ claim.index >= size /\ Return("PARSE_ERROR")
           \/ /\ claim.index < size
              /\ Start("walk", claim.path, claim.index, size - 1, 1,
                       [second |-> claim.leaf])

\* Defect: the first root is never put in front.
Unpadded(c) == c.path

\* The path of a consistency proof, with the first root in front of it when the first
\* tree is one whole subtree of the second.
Padded(c) == IF PowerOfTwo(c.from) THEN <<c.heads[1].root>> \o c.path ELSE c.path

\* Section 5.5.
BeginConsistency ==
    /\ pc = "begin"
    /\ claim.of = "consistency"
    /\ \/ claim.path = <<>> /\ Return("PROOF_INVALID")
       \/ /\ claim.path # <<>>
          /\ LET fold == Padded(claim)
             IN  Start("strip", fold, claim.from - 1, claim.to - 1, 2,
                       [first |-> fold[1], second |-> fold[1]])

Halve == fn' = fn \div 2 /\ sn' = sn \div 2

\* The levels on which the first tree ends with a whole subtree.
Strip ==
    /\ pc = "strip"
    /\ fn % 2 = 1
    /\ Halve
    /\ UNCHANGED <<claim, keys, pc, at, nodes, next, hashes, outcome>>

Stripped ==
    /\ pc = "strip"
    /\ fn % 2 = 0
    /\ Pass("walk")

\* The path goes on where the tree ends.
Overlong ==
    /\ pc = "walk"
    /\ next <= Len(nodes)
    /\ sn = 0
    /\ Return("PROOF_INVALID")

\* Defect: a last node that is a left child is not carried up.
IsOdd == fn % 2 = 1

\* The node that is folded is a right child, or the last on its level.
IsRight == fn % 2 = 1 \/ fn = sn

\* Defect: a path is folded beyond the root.
JoinLeftOfRoot ==
    /\ pc = "walk"
    /\ next <= Len(nodes)
    /\ IsRight
    /\ hashes' = [h \in DOMAIN hashes |-> Node(nodes[next], hashes[h])]
    /\ pc' = "climb"
    /\ UNCHANGED <<claim, keys, at, nodes, next, fn, sn, outcome>>

\* The node is the left sibling.
JoinLeft ==
    /\ pc = "walk"
    /\ next <= Len(nodes)
    /\ sn # 0
    /\ IsRight
    /\ hashes' = [h \in DOMAIN hashes |-> Node(nodes[next], hashes[h])]
    /\ pc' = "climb"
    /\ UNCHANGED <<claim, keys, at, nodes, next, fn, sn, outcome>>

\* The node is the right sibling, which only the second tree has.
JoinRight ==
    /\ pc = "walk"
    /\ next <= Len(nodes)
    /\ sn # 0
    /\ ~IsRight
    /\ hashes' = [hashes EXCEPT !["second"] = Node(@, nodes[next])]
    /\ Halve
    /\ next' = next + 1
    /\ UNCHANGED <<claim, keys, pc, at, nodes, outcome>>

\* The inner loop: levels on which the last node has no sibling.
Climb ==
    /\ pc = "climb"
    /\ fn % 2 = 0 /\ fn # 0
    /\ Halve
    /\ UNCHANGED <<claim, keys, pc, at, nodes, next, hashes, outcome>>

Climbed ==
    /\ pc = "climb"
    /\ ~(fn % 2 = 0 /\ fn # 0)
    /\ Halve
    /\ next' = next + 1
    /\ pc' = "walk"
    /\ UNCHANGED <<claim, keys, at, nodes, hashes, outcome>>

\* Defect: a consistency proof is compared with the second root alone.
SignedSecond(c) ==
    IF c.of = "inclusion" THEN [second |-> c.heads[1].root]
    ELSE [first |-> hashes["first"], second |-> c.heads[2].root]

\* What the fold must have come to.
Signed(c) ==
    IF c.of = "inclusion" THEN [second |-> c.heads[1].root]
    ELSE [first |-> c.heads[1].root, second |-> c.heads[2].root]

\* Defect: a path that ends below the root is good for the roots it leads to.
CompareEarly ==
    /\ pc = "walk"
    /\ next > Len(nodes)
    /\ \/ hashes = Signed(claim) /\ Return("valid")
       \/ hashes # Signed(claim) /\ Return("PROOF_INVALID")

Compare ==
    /\ pc = "walk"
    /\ next > Len(nodes)
    /\ \/ sn = 0 /\ hashes = Signed(claim) /\ Return("valid")
       \/ ~(sn = 0 /\ hashes = Signed(claim)) /\ Return("PROOF_INVALID")

Next ==
    \/ Parse \/ Sizes \/ TreeHead \/ TreeHeadsVouched
    \/ BeginInclusion \/ BeginConsistency \/ Strip \/ Stripped
    \/ Overlong \/ JoinLeft \/ JoinRight \/ Climb \/ Climbed \/ Compare

Spec == Init /\ [][Next]_vars

-----------------------------------------------------------------------------
(* What a verified proof means.                                            *)

\* head is the tree head of the log over its first size entries.
IsHeadOf(head, log) ==
    head.size \in 1..Len(log) /\ head.root = Root[First(log, head.size)]

\* The claim is the proof that RFC 9162 defines, for an entry of a tree of the log or
\* between two of its trees, under tree heads of that log that verify.
Honest(log) ==
    /\ claim.readable = "yes"
    /\ \A i \in DOMAIN claim.heads : Vouched(claim.heads[i]) /\ IsHeadOf(claim.heads[i], log)
    /\ CASE claim.of = "head" -> TRUE
         [] claim.of = "inclusion" ->
              /\ claim.index \in 0..(claim.heads[1].size - 1)
              /\ claim.leaf = <<log[claim.index + 1]>>
              /\ claim.path = AuditPath[First(log, claim.heads[1].size)][claim.index]
         [] claim.of = "consistency" ->
              /\ SizesAgree(claim)
              /\ claim.path = ConsistencyPath[First(log, claim.to)][claim.from][TRUE]

\* Completeness of _inclusion_root and _consistency_roots: the honest proof of any entry
\* of any tree and between any two trees of one log verifies.
HonestProofsVerify == \A log \in Logs : pc = "done" /\ Honest(log) => outcome = "valid"

\* The hashes of a tree that are depth levels below its root.
Below(depth, root) ==
    LET level[d \in 0..depth] ==
            IF d = 0 THEN {root}
            ELSE UNION {{h[1], h[2]} : h \in {x \in level[d - 1] : Len(x) = 2}}
    IN  level[depth]

\* Soundness of verify_inclusion_proof: a verified leafHash is the entry at logIndex, by
\* its audit path and no other, when the tree head states the size of its tree.  The
\* signature covers rootHash alone; whatever size is stated, a verified leafHash is at
\* least a hash of the tree, as deep in it as the path is long.
AcceptedLeafIsLogged ==
    outcome = "valid" /\ claim.of = "inclusion" =>
        LET head == claim.heads[1]
        IN  /\ \A log \in Logs : IsHeadOf(head, log) =>
                  /\ claim.leaf = <<log[claim.index + 1]>>
                  /\ claim.path = AuditPath[First(log, head.size)][claim.index]
            /\ claim.leaf \in Below(Len(claim.path), head.root)

\* Soundness of verify_consistency_proof: when the tree heads state the sizes of their
\* trees, the second log begins with every entry of the first: none was removed or
\* rewritten.
AcceptedHeadsAreOneLog ==
    outcome = "valid" /\ claim.of = "consistency" =>
        \A one, other \in Logs :
            IsHeadOf(claim.heads[1], one) /\ IsHeadOf(claim.heads[2], other) =>
                First(one, claim.from) = First(other, claim.from)

\* Which order the checks come in: no path is judged, nor anything verified, unless
\* every tree head of the claim verifies.
JudgedUnderVouchedHeads ==
    outcome \in {"valid", "PROOF_INVALID"} =>
        \A i \in DOMAIN claim.heads : Vouched(claim.heads[i])

\* The positions keep within their level, and the inner loop of both functions always
\* comes to a set bit: its test of fn != 0 never decides, and it ends.
ClimbStops ==
    /\ pc \in {"strip", "walk", "climb"} => fn <= sn
    /\ pc = "climb" => fn > 0

Ts == INSTANCE TsLogProofs

\* The two clients answer alike, with the same category.
ClientsAgree == pc = "done" => outcome = Ts!Verified(claim, keys)

=============================================================================
