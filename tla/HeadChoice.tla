---------------------------- MODULE HeadChoice ----------------------------
(***************************************************************************)
(* What the rest of a node relies on of the chain pointers: a tree of      *)
(* blocks that only grows; blocks that become known, ancestors first, and  *)
(* blocks found to be bad, with what descends from them, for good; and two *)
(* choices among them, the block that is mined on and the end of the chain *)
(* it is expected to become part of.                                       *)
(***************************************************************************)
EXTENDS Naturals

CONSTANT Root

VARIABLES
    blocks,   \* all blocks
    above,    \* above[b]: the blocks from b to the root
    weight,   \* weight[b]: work up to b
    known,    \* blocks whose contents and ancestors' contents are known
    bad,      \* blocks that are bad or descend from one that is
    head,     \* the block that is mined on
    tip       \* where the chain of the head ends

headVars == <<blocks, above, weight, known, bad, head, tip>>

Heavy(S) == {b \in S : \A c \in S : weight[c] <= weight[b]}
Below(b) == {d \in blocks : b \in above[d]}
Longest == Heavy(blocks \ bad)

(* The head has as much work as any good block that is known, the tip as   *)
(* much as any good block that follows the head.                           *)
Chosen ==
    /\ head \in Heavy(known \ bad)
    /\ tip \in Heavy(Below(head) \ bad)

(* The head is left for another only if it has less work, if blocks were   *)
(* found to be bad, or if no longest chain goes through it and one goes    *)
(* through the other.                                                      *)
Faithful ==
    \/ head' = head
    \/ weight'[head'] > weight'[head]
    \/ bad' # bad
    \/ /\ \E c \in Longest' : head' \in above'[c]
       /\ \A c \in Longest' : head \notin above'[c]

Learn == known \subseteq known' /\ \A d \in known' : above'[d] \subseteq known'

(* A block arrives, of more work than its predecessor. *)
Arrive(b, p) ==
    /\ b \notin blocks
    /\ blocks' = blocks \cup {b}
    /\ above' = [x \in blocks' |-> IF x = b THEN above[p] \cup {b} ELSE above[x]]
    /\ weight' = [x \in blocks' |-> IF x = b THEN weight'[b] ELSE weight[x]]
    /\ weight'[b] > weight[p]
    /\ bad' = IF p \in bad THEN bad \cup {b} ELSE bad

(* A block is found to be bad. *)
Condemn(b) ==
    /\ b \notin bad
    /\ bad' = bad \cup Below(b)
    /\ UNCHANGED <<blocks, above, weight>>

HeadInit ==
    /\ blocks = {Root} /\ above = [b \in {Root} |-> {Root}]
    /\ weight = [b \in {Root} |-> 0]
    /\ known = {Root} /\ bad = {} /\ head = Root /\ tip = Root

HeadNext ==
    /\ \/ \E b \in blocks', p \in blocks : Arrive(b, p)
       \/ \E b \in blocks : Condemn(b)
       \/ UNCHANGED <<blocks, above, weight, bad>>
    /\ Learn /\ Faithful /\ Chosen'

HeadSpec == HeadInit /\ [][HeadNext]_headVars
=============================================================================
