----------------------------- MODULE MemberSet -----------------------------
(***************************************************************************)
(* What the users of a hash table rely on: a set to which elements are     *)
(* added, from which they are taken, and which may be cleared.             *)
(***************************************************************************)
EXTENDS FiniteSets

CONSTANT Elems
VARIABLE members

Add(e) == e \notin members /\ members' = members \cup {e}
Remove(e) == e \in members /\ members' = members \ {e}
Clear == members' = {}

MemberInit == members = {}
MemberNext == (\E e \in Elems : Add(e) \/ Remove(e)) \/ Clear
MemberSpec == MemberInit /\ [][MemberNext]_members
=============================================================================
