----------------------------- MODULE TopicsProofs -----------------------------
(***************************************************************************)
(* Proofs about Topics, for any sessions, topics and handlers: the three   *)
(* views of the membership agree, and no node of the topic tree is left    *)
(* without the node above it.                                              *)
(***************************************************************************)
EXTENDS Topics, SequenceTheorems, TLAPS

Paths == Seq(Segments) \ {<<>>}

TreePaths == DOMAIN tree \subseteq Paths

TopicsInv == TopicsTypeOK /\ ViewsAgree /\ TreePaths /\ TreeConnected
-------------------------------------------------------------------------------
(* Prefixes of paths *)

LEMMA PrefixIsPath ==
  ASSUME NEW p \in Paths, NEW n \in 1..Len(p)
  PROVE  /\ SubSeq(p, 1, n) \in Paths
         /\ Len(SubSeq(p, 1, n)) = n
         /\ \A i \in 1..n : SubSeq(p, 1, n)[i] = p[i]
  BY DEF Paths

\* A prefix is a prefix of everything that extends it further.
LEMMA PrefixOfPrefix ==
  ASSUME NEW p \in Paths, NEW n \in 1..Len(p), NEW m \in 1..n
  PROVE  SubSeq(SubSeq(p, 1, n), 1, m) = SubSeq(p, 1, m)
  BY PrefixIsPath DEF Paths

LEMMA PrefixesTransitive ==
  ASSUME NEW p \in Paths, NEW q \in Tree!Prefixes(p)
  PROVE  q \in Paths /\ Tree!Prefixes(q) \subseteq Tree!Prefixes(p)
<1>1. PICK n \in 1..Len(p) : q = SubSeq(p, 1, n)
  BY DEF Tree!Prefixes
<1>2. q \in Paths /\ Len(q) = n
  BY <1>1, PrefixIsPath
<1>3. ASSUME NEW m \in 1..n PROVE SubSeq(q, 1, m) = SubSeq(p, 1, m) /\ m \in 1..Len(p)
  BY <1>1, <1>3, PrefixOfPrefix DEF Paths
<1> QED
  BY <1>2, <1>3 DEF Tree!Prefixes

LEMMA ExtendsIsPrefix ==
  ASSUME NEW p \in Paths, NEW q \in Paths
  PROVE  Tree!Extends(p, q) <=> q \in Tree!Prefixes(p)
<1>1. Len(q) \in Nat \ {0} /\ Len(p) \in Nat
  BY DEF Paths
<1>2. ASSUME Tree!Extends(p, q) PROVE q \in Tree!Prefixes(p)
  <2>1. Len(q) \in 1..Len(p) /\ q = SubSeq(p, 1, Len(q))
    BY <1>1, <1>2 DEF Tree!Extends
  <2> QED
    BY <2>1 DEF Tree!Prefixes
<1>3. ASSUME q \in Tree!Prefixes(p) PROVE Tree!Extends(p, q)
  <2>1. PICK n \in 1..Len(p) : q = SubSeq(p, 1, n)
    BY <1>3 DEF Tree!Prefixes
  <2>2. Len(q) = n
    BY <2>1, PrefixIsPath
  <2> QED
    BY <1>1, <2>1, <2>2 DEF Tree!Extends
<1> QED
  BY <1>2, <1>3

\* What removePath takes away is closed under extension: of the nodes that stay,
\* every prefix stays.
LEMMA DeleteConnected ==
  ASSUME TreePaths, TreeConnected, NEW t \in Paths
  PROVE  \A p \in DOMAIN Tree!Delete(tree, t) :
           Tree!Prefixes(p) \subseteq DOMAIN Tree!Delete(tree, t)
<1> DEFINE above == Tree!Prefixes(t) \ {t}
           Gone(p) == \/ Tree!Extends(p, t)
                      \/ p \in above /\ ~Tree!Stays(tree, p, t)
<1>1. CASE t \notin DOMAIN tree
  BY <1>1 DEF Tree!Delete, TreeConnected
<1>2. CASE t \in DOMAIN tree
  <2>1. DOMAIN Tree!Delete(tree, t) = {p \in DOMAIN tree : ~Gone(p)}
    <3>1. {p \in DOMAIN tree : Gone(p)} =
            {p \in DOMAIN tree : \/ Tree!Extends(p, t)
                                 \/ p \in above /\ ~Tree!Stays(tree, p, t)}
      OBVIOUS
    <3> QED
      BY <1>2, <3>1 DEF Tree!Delete
  <2> HIDE DEF Gone
  <2> SUFFICES ASSUME NEW p \in DOMAIN tree, ~Gone(p), NEW q \in Tree!Prefixes(p)
               PROVE  q \in DOMAIN tree /\ ~Gone(q)
    BY <2>1
  <2>0. /\ ~Tree!Extends(p, t)
        /\ p \in above => Tree!Stays(tree, p, t)
    BY DEF Gone
  <2>2. q \in DOMAIN tree /\ p \in Paths /\ q \in Paths /\ t \in Paths
    BY DEF TreePaths, TreeConnected
  <2>3. ~Tree!Extends(q, t)
    <3>1. t \in Tree!Prefixes(q) => t \in Tree!Prefixes(p)
      BY <2>2, PrefixesTransitive
    <3> QED
      BY <2>2, <2>0, <3>1, ExtendsIsPrefix
  <2>4. ASSUME q \in above PROVE Tree!Stays(tree, q, t)
    <3>1. CASE p \notin Tree!Prefixes(t)
      <4>1. Tree!Extends(p, q)
        BY <2>2, ExtendsIsPrefix
      <4> QED
        BY <2>0, <3>1, <4>1 DEF Tree!Stays
    <3>2. CASE p \in Tree!Prefixes(t)
      <4>1. Tree!Extends(t, t)
        BY SubSeqFull DEF Tree!Extends, Paths
      <4>2. PICK other \in DOMAIN tree :
              /\ Tree!Extends(other, p) /\ ~Tree!Extends(other, t)
              /\ other \notin Tree!Prefixes(t)
        BY <2>0, <3>2, <4>1 DEF Tree!Stays
      <4>3. other \in Paths /\ q \in Tree!Prefixes(other)
        BY <2>2, <4>2, ExtendsIsPrefix, PrefixesTransitive DEF TreePaths
      <4> QED
        BY <2>2, <4>2, <4>3, ExtendsIsPrefix DEF Tree!Stays
    <3> QED
      BY <3>1, <3>2
  <2> QED
    BY <2>2, <2>3, <2>4 DEF Gone
<1> QED
  BY <1>1, <1>2
-------------------------------------------------------------------------------
LEMMA TopicsInitInv == TopicsInit => TopicsInv
<1> SUFFICES ASSUME TopicsInit PROVE TopicsInv
  OBVIOUS
<1>1. DOMAIN tree = {}
  BY DEF TopicsInit, Tree!EmptyTree
<1> QED
  BY <1>1, MaxOpsAssumption DEF TopicsInit, TopicsInv, TopicsTypeOK, ViewsAgree, TreePaths, TreeConnected

\* One locked operation on the tree.
LEMMA TreeStepKeeps ==
  ASSUME TopicsInv, NEW h \in Handlers, TreeStep(h)
  PROVE  TopicsInv'
<1> DEFINE t == topic[h]
<1>0. /\ TopicsTypeOK /\ ViewsAgree /\ TreePaths /\ TreeConnected
      /\ t \in Paths /\ t \in Topics /\ op[h] \in {"sub", "unsub", "del"}
  BY TopicAssumption DEF TopicsInv, TopicsTypeOK, Paths
<1>1. /\ (\A p \in DOMAIN tree' : tree'[p] \in Int)
      /\ TreePaths' /\ TreeConnected'
  <2>1. CASE op[h] = "sub"
    <3>1. tree' = Tree!Join(tree, t)
      BY <2>1 DEF TreeStep
    <3>2. DOMAIN tree' = DOMAIN tree \cup Tree!Prefixes(t)
      BY <3>1 DEF Tree!Join
    <3>3. \A p \in DOMAIN tree' : tree'[p] \in Int
      BY <1>0, <3>1 DEF Tree!Join, Tree!Refs, TopicsTypeOK
    <3>4. TreePaths' /\ TreeConnected'
      BY <1>0, <3>2, PrefixesTransitive DEF TreePaths, TreeConnected
    <3> QED
      BY <3>3, <3>4
  <2>2. CASE op[h] = "unsub"
    <3>1. tree' = Tree!Leave(tree, t)
      BY <2>2 DEF TreeStep
    <3>2. DOMAIN tree' = DOMAIN tree /\ \A p \in DOMAIN tree : tree'[p] \in Int
      BY <1>0, <3>1 DEF Tree!Leave, TopicsTypeOK
    <3> QED
      BY <1>0, <3>2 DEF TreePaths, TreeConnected
  <2>3. CASE op[h] = "del"
    <3>1. tree' = Tree!Delete(tree, t)
      BY <2>3 DEF TreeStep
    <3>2. DOMAIN tree' \subseteq DOMAIN tree /\ \A p \in DOMAIN tree' : tree'[p] \in Int
      BY <1>0, <3>1 DEF Tree!Delete, TopicsTypeOK
    <3>3. TreeConnected'
      BY <1>0, <3>1, DeleteConnected DEF TreeConnected
    <3> QED
      BY <1>0, <3>2, <3>3 DEF TreePaths
  <2> QED
    BY <1>0, <2>1, <2>2, <2>3
<1>2. TopicsTypeOK'
  BY <1>0, <1>1 DEF TreeStep, Advance, TopicsTypeOK, registryVars
<1>3. ViewsAgree'
  BY <1>0 DEF TreeStep, ViewsAgree, registryVars
<1> QED
  BY <1>1, <1>2, <1>3 DEF TopicsInv

\* One operation of the membership registry.
LEMMA RegistryStepKeeps ==
  ASSUME TopicsInv, NEW h \in Handlers, RegistryStep(h)
  PROVE  TopicsInv'
<1> DEFINE t == topic[h]
           s == sid[h]
<1>0. TopicsTypeOK /\ ViewsAgree /\ t \in Topics /\ s \in Sessions
  BY DEF TopicsInv, TopicsTypeOK
<1>1. TreePaths' /\ TreeConnected' /\ tree' = tree
  BY DEF TopicsInv, RegistryStep, TreePaths, TreeConnected
<1>2. CASE RegJoin(s, t)
  <2>1. TopicsTypeOK'
    BY <1>0, <1>1, <1>2 DEF RegJoin, RegistryStep, Advance, TopicsTypeOK
  <2>2. ViewsAgree'
    BY <1>0, <1>2 DEF RegJoin, ViewsAgree, TopicsTypeOK
  <2> QED
    BY <1>1, <2>1, <2>2 DEF TopicsInv
<1>3. CASE RegLeave(s, t)
  <2>1. TopicsTypeOK'
    <3>1. refs' \in [Topics -> [Sessions -> Nat]]
      BY <1>0, <1>3 DEF RegLeave, TopicsTypeOK
    <3>2. byTopic' \in [Topics -> SUBSET Sessions] /\ bySession' \in [Sessions -> SUBSET Topics]
      <4>1. byTopic \in [Topics -> SUBSET Sessions] /\ bySession \in [Sessions -> SUBSET Topics]
        BY <1>0 DEF TopicsTypeOK
      <4>2. \/ byTopic' = byTopic /\ bySession' = bySession
            \/ /\ byTopic' = [byTopic EXCEPT ![t] = @ \ {s}]
               /\ bySession' = [bySession EXCEPT ![s] = @ \ {t}]
        BY <1>3 DEF RegLeave
      <4> QED
        BY <1>0, <4>1, <4>2
    <3> QED
      BY <1>0, <1>1, <1>3, <3>1, <3>2 DEF RegLeave, RegistryStep, Advance, TopicsTypeOK
  <2>2. ViewsAgree'
    BY <1>0, <1>3 DEF RegLeave, ViewsAgree, TopicsTypeOK
  <2> QED
    BY <1>1, <2>1, <2>2 DEF TopicsInv
<1>4. CASE RegClear(t)
  <2>1. TopicsTypeOK'
    BY <1>0, <1>1, <1>4 DEF RegClear, RegistryStep, Advance, TopicsTypeOK
  <2>2. ViewsAgree'
    BY <1>0, <1>4 DEF RegClear, Has, ViewsAgree, TopicsTypeOK
  <2> QED
    BY <1>1, <2>1, <2>2 DEF TopicsInv
<1> QED
  BY <1>2, <1>3, <1>4 DEF RegistryStep

LEMMA StartKeeps ==
  ASSUME TopicsInv, NEW h \in Handlers, NEW o \in {"sub", "unsub", "del"},
         NEW s \in Sessions, NEW t \in Topics, Start(h, o, s, t)
  PROVE  TopicsInv'
<1>1. TopicsTypeOK'
  BY MaxOpsAssumption DEF TopicsInv, TopicsTypeOK, Start, registryVars
<1> QED
  BY <1>1 DEF TopicsInv, Start, registryVars, ViewsAgree, TreePaths, TreeConnected

LEMMA TopicsNextInv == TopicsInv /\ [TopicsNext]_topicVars => TopicsInv'
<1> SUFFICES ASSUME TopicsInv, [TopicsNext]_topicVars PROVE TopicsInv'
  OBVIOUS
<1> USE DEF registryVars, handlerVars
<1>1. ASSUME NEW s \in Sessions, Bind(s) \/ Remove(s) PROVE TopicsInv'
  BY <1>1 DEF TopicsInv, TopicsTypeOK, ViewsAgree, TreePaths, TreeConnected, Bind, Remove
<1>2. ASSUME NEW h \in Handlers, HandlerStep(h) PROVE TopicsInv'
  <2>1. CASE \E s \in Sessions, t \in Topics :
               ConnectSubscribe(h, s, t) \/ SubFrame(h, s, t) \/ UnsubFrame(h, s, t) \/ DelFrame(h, s, t)
    BY <2>1, StartKeeps DEF ConnectSubscribe, SubFrame, UnsubFrame, DelFrame
  <2>2. CASE TreeStep(h)
    BY <2>2, TreeStepKeeps
  <2>3. CASE RegistryStep(h)
    BY <2>3, RegistryStepKeeps
  <2>4. CASE BumpStep(h)
    BY <2>4 DEF TopicsInv, TopicsTypeOK, ViewsAgree, TreePaths, TreeConnected, BumpStep, Advance, NewVersion
  <2>5. CASE LocalStep(h)
    BY <2>5 DEF TopicsInv, TopicsTypeOK, ViewsAgree, TreePaths, TreeConnected, LocalStep, Advance
  <2> QED
    BY <1>2, <2>1, <2>2, <2>3, <2>4, <2>5 DEF HandlerStep
<1>3. CASE UNCHANGED topicVars
  BY <1>3 DEF TopicsInv, TopicsTypeOK, ViewsAgree, TreePaths, TreeConnected, topicVars
<1> QED
  BY <1>1, <1>2, <1>3 DEF TopicsNext

THEOREM TopicsInvariant == TopicsSpec => []TopicsInv
<1> QED
  BY TopicsInitInv, TopicsNextInv, PTL DEF TopicsSpec
-------------------------------------------------------------------------------
\* Every part of the registry has its type, whatever the handlers do
\* (tree.go:10-21, registry.go:11-16, subscription.go:14-19).
THEOREM TopicsTypeCorrect == TopicsSpec => []TopicsTypeOK
<1> QED
  BY TopicsInvariant, PTL DEF TopicsInv

\* The counts, the subscribers and the sessions' topics never part
\* (refcount.go:19-58, registry.go:28-66).
THEOREM ViewsAlwaysAgree == TopicsSpec => []ViewsAgree
<1> QED
  BY TopicsInvariant, PTL DEF TopicsInv

\* No node of the tree is cut off from the root (tree.go:71-102).
THEOREM TreeStaysConnected == TopicsSpec => []TreeConnected
<1> QED
  BY TopicsInvariant, PTL DEF TopicsInv
===============================================================================
