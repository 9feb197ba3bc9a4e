------------------------------ MODULE MerkleRoot ------------------------------
(***************************************************************************)
(* The root of a day's events: pairs are hashed level by level, and an odd *)
(* last node is paired with itself.  A hash is free of collisions: it is   *)
(* the tuple of what was hashed.                                           *)
(***************************************************************************)
EXTENDS Naturals, Sequences

Leaf(event)       == <<event>>
Parent(left, right) == <<left, right>>

\* Mutation of Level: an odd last node is dropped.
LevelDropsOdd(nodes) ==
    [i \in 1 .. Len(nodes) \div 2 |-> Parent(nodes[2*i - 1], nodes[2*i])]

\* One round of the loop: half the nodes, rounded up.
Level(nodes) ==
    [i \in 1 .. (Len(nodes) + 1) \div 2 |->
        Parent(nodes[2*i - 1],
               IF 2*i <= Len(nodes) THEN nodes[2*i] ELSE nodes[2*i - 1])]

\* Rounds go on while there is more than one node.
Round(nodes) == IF Len(nodes) > 1 THEN Level(nodes) ELSE nodes

\* The nodes after each round; Len(nodes) rounds are enough.
Levels(nodes) ==
    LET level[n \in 0 .. Len(nodes)] ==
            IF n = 0 THEN nodes ELSE Round(level[n - 1])
    IN  level

Root(nodes) == IF nodes = <<>> THEN <<>> ELSE Levels(nodes)[Len(nodes)][1]

MerkleOf(events) == Root([i \in 1 .. Len(events) |-> Leaf(events[i])])
=============================================================================
