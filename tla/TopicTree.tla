------------------------------- MODULE TopicTree -------------------------------
(***************************************************************************)
(* internal/subscription/tree.go: the topic tree as a function from the    *)
(* path of each existing node, a non-empty sequence of segments, to the    *)
(* node's reference count.  The root is always there and has no count.     *)
(* Every method holds t.mu throughout: one operator is one atomic step.    *)
(***************************************************************************)
EXTENDS Integers, Sequences

EmptyTree == [path \in {} |-> 0]

\* The nodes Path walks through on the way to a topic, the topic's own included.
Prefixes(topic) == {SubSeq(topic, 1, n) : n \in 1..Len(topic)}

Extends(path, topic) == Len(path) >= Len(topic) /\ SubSeq(path, 1, Len(topic)) = topic

Refs(tree, path) == IF path \in DOMAIN tree THEN tree[path] ELSE 0

\* Tree.Join creates the missing nodes and counts one reference on each.
Join(tree, topic) ==
  [path \in DOMAIN tree \cup Prefixes(topic) |->
     IF path \in Prefixes(topic) THEN Refs(tree, path) + 1 ELSE tree[path]]

\* Tree.Leave walks as far as the path exists and takes one reference off each
\* node, whatever is left of its count.
Leave(tree, topic) ==
  [path \in DOMAIN tree |->
     IF path \in Prefixes(topic) THEN tree[path] - 1 ELSE tree[path]]

\* removePath keeps an ancestor that still has a node off the deleted path below it.
Stays(tree, path, topic) ==
  \E other \in DOMAIN tree :
    Extends(other, path) /\ ~Extends(other, topic) /\ other \notin Prefixes(topic)

\* Variant: the nodes below the topic are left where they are.
DeleteAlone(tree, topic) ==
  [path \in DOMAIN tree \ {topic} |->
     IF path \in Prefixes(topic) THEN 0 ELSE tree[path]]

\* Tree.Delete: the subtree goes, then every ancestor this leaves without a
\* child; the references of the ancestors are cleared even if nothing is removed.
Delete(tree, topic) ==
  LET above == Prefixes(topic) \ {topic}
      gone  == IF topic \notin DOMAIN tree THEN {}
               ELSE {path \in DOMAIN tree :
                       \/ Extends(path, topic)
                       \/ path \in above /\ ~Stays(tree, path, topic)}
  IN  [path \in DOMAIN tree \ gone |-> IF path \in above THEN 0 ELSE tree[path]]
===============================================================================
