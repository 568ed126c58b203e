----------------------------- MODULE MCTreeKEM -----------------------------
(***************************************************************************)
(* Instances of TreeKEM for TLC.                                           *)
(***************************************************************************)
EXTENDS TreeKEM

Edit(removes, updates, adds) == [removes |-> removes, updates |-> updates, adds |-> adds]

Nothing == Edit({}, {}, 0)

\* Three members and an outsider: every leaf commits, the tree grows to four
\* leaves and shrinks again, its left half empties, and a member that was removed
\* or that lost its state returns.
Small == [members |-> 3, clients |-> 0 .. 3, commits |-> 3, committers |-> 0 .. 3, external |-> TRUE,
          edits |-> {Nothing, Edit({}, {}, 1), Edit({1}, {}, 0), Edit({1}, {}, 1),
                     Edit({2}, {0}, 0), Edit({0, 1}, {}, 0)}]

\* Four members, so that the next one doubles the tree and blanks its root.
Doubling == [members |-> 4, clients |-> 0 .. 5, commits |-> 3, committers |-> {0, 2, 4}, external |-> FALSE,
             edits |-> {Nothing, Edit({}, {}, 1), Edit({}, {}, 2), Edit({4}, {}, 0), Edit({3}, {}, 2)}]

\* Five members in a tree of eight leaves: leaves unmerged at the inner nodes.
Deep == [members |-> 5, clients |-> 0 .. 5, commits |-> 3, committers |-> {0, 2, 4}, external |-> FALSE,
         edits |-> {Nothing, Edit({}, {}, 1), Edit({3}, {}, 0), Edit({3}, {1}, 1)}]

\* A leaf is unmerged below a parent when the tree doubles above it.
Growing == [members |-> 3, clients |-> 0 .. 5, commits |-> 3, committers |-> {0, 2}, external |-> FALSE,
            edits |-> {Nothing, Edit({}, {}, 1), Edit({}, {}, 2)}]

MCScenarios == {Small, Doubling, Deep, Growing}

MCDoubling == {Doubling}
=============================================================================
