-------------------------------- MODULE Topics --------------------------------
(***************************************************************************)
(* internal/subscription and its callers in cmd/eventpush/server.go:       *)
(* handler goroutines subscribe, unsubscribe and delete topics.  The tree, *)
(* the membership registry, the topic versions and the session's own list  *)
(* of topics each have a lock of their own, so an operation is four steps  *)
(* and the steps of different handlers interleave.                         *)
(***************************************************************************)
EXTENDS Integers, Sequences

CONSTANTS Sessions,   \* session ids
          Topics,     \* topics, each a non-empty sequence of path segments
          Deletable,  \* the topics some client sends a "del" frame for
          Handlers,   \* goroutines of handleWS and readLoop
          MaxOps      \* bound: operations started in a behaviour

ASSUME DeletableAssumption == Deletable \subseteq Topics
ASSUME MaxOpsAssumption == MaxOps \in Nat

Segments == UNION {{t[i] : i \in DOMAIN t} : t \in Topics}
ASSUME TopicAssumption == Topics \subseteq Seq(Segments) \ {<<>>}

Tree == INSTANCE TopicTree

VARIABLES connected,  \* sessions present in the SessionRegistry
          tree,       \* subscription.Tree
          refs,       \* RefCounter: bindings per topic and session
          refTopics,  \* the topics RefCounter.byTopic has an entry for
          byTopic,    \* Registry.byTopic
          bySession,  \* Registry.bySession
          versions,   \* TopicRegistry.versions; a missing entry reads as 0
          local,      \* Session.topics
          pc, op, sid, topic,  \* what each handler is doing
          ops         \* operations started so far

registryVars == <<refs, refTopics, byTopic, bySession>>
handlerVars  == <<pc, op, sid, topic>>
topicVars == <<connected, tree, registryVars, versions, local, handlerVars, ops>>

TopicsInit ==
  /\ connected = {}
  /\ tree = Tree!EmptyTree
  /\ refs = [t \in Topics |-> [s \in Sessions |-> 0]]
  /\ refTopics = {}
  /\ byTopic = [t \in Topics |-> {}]
  /\ bySession = [s \in Sessions |-> {}]
  /\ versions = [t \in Topics |-> 0]
  /\ local = [s \in Sessions |-> {}]
  /\ pc = [h \in Handlers |-> "idle"]
  /\ op = [h \in Handlers |-> "sub"]
  /\ sid \in [Handlers -> Sessions]
  /\ topic \in [Handlers -> Topics]
  /\ ops = 0

\* Registry.Has and Registry.Subscribers.
Has(s, t) == s \in byTopic[t]
Subscribers(t) == byTopic[t]

-------------------------------------------------------------------------------
(* Sessions come and go: SessionRegistry.Bind and Remove *)

\* A session that is bound anew starts with no topics of its own.
Bind(s) ==
  /\ s \notin connected
  /\ connected' = connected \cup {s}
  /\ local' = [local EXCEPT ![s] = {}]
  /\ UNCHANGED <<tree, registryVars, versions, handlerVars, ops>>

\* Remove leaves the topic registry alone.
Remove(s) ==
  /\ s \in connected
  /\ connected' = connected \ {s}
  /\ UNCHANGED <<tree, registryVars, versions, local, handlerVars, ops>>

-------------------------------------------------------------------------------
(* The entry of each operation *)

Start(h, o, s, t) ==
  /\ pc[h] = "idle"
  /\ s \in connected
  /\ ops < MaxOps
  /\ ops' = ops + 1
  /\ pc' = [pc EXCEPT ![h] = "tree"]
  /\ op' = [op EXCEPT ![h] = o]
  /\ sid' = [sid EXCEPT ![h] = s]
  /\ topic' = [topic EXCEPT ![h] = t]
  /\ UNCHANGED <<connected, tree, registryVars, versions, local>>

\* handleWS subscribes to every topic of the request, bound already or not.
ConnectSubscribe(h, s, t) == Start(h, "sub", s, t)

\* The "sub" frame tests Has first, under a lock it gives up again.
SubFrame(h, s, t) == ~Has(s, t) /\ Start(h, "sub", s, t)

\* The "unsub" frame tests nothing.
UnsubFrame(h, s, t) == Start(h, "unsub", s, t)

DelFrame(h, s, t) == t \in Deletable /\ Start(h, "del", s, t)

-------------------------------------------------------------------------------
(* The steps of TopicRegistry.Subscribe, Unsubscribe and DeleteTopic *)

Advance(h, from, to) ==
  /\ pc[h] = from
  /\ pc' = [pc EXCEPT ![h] = to]
  /\ UNCHANGED <<op, sid, topic>>

TreeStep(h) ==
  /\ Advance(h, "tree", "registry")
  /\ tree' = CASE op[h] = "sub"   -> Tree!Join(tree, topic[h])
               [] op[h] = "unsub" -> Tree!Leave(tree, topic[h])
               [] op[h] = "del"   -> Tree!Delete(tree, topic[h])
  /\ UNCHANGED <<connected, registryVars, versions, local, ops>>

\* Registry.Join.
RegJoin(s, t) ==
  /\ refs' = [refs EXCEPT ![t][s] = @ + 1]
  /\ refTopics' = refTopics \cup {t}
  /\ byTopic' = [byTopic EXCEPT ![t] = @ \cup {s}]
  /\ bySession' = [bySession EXCEPT ![s] = @ \cup {t}]

\* Variant: the count is not kept from falling below zero.
RegLeaveNegative(s, t) ==
  /\ refs' = [refs EXCEPT ![t][s] = @ - 1]
  /\ IF refs[t][s] <= 1
       THEN /\ byTopic' = [byTopic EXCEPT ![t] = @ \ {s}]
            /\ bySession' = [bySession EXCEPT ![s] = @ \ {t}]
       ELSE UNCHANGED <<byTopic, bySession>>
  /\ UNCHANGED refTopics

\* Registry.Leave: RefCounter.Sub stops at zero, and the binding goes with the
\* last reference.
RegLeave(s, t) ==
  /\ refs' = [refs EXCEPT ![t][s] = IF @ <= 1 THEN 0 ELSE @ - 1]
  /\ IF refs[t][s] <= 1
       THEN /\ byTopic' = [byTopic EXCEPT ![t] = @ \ {s}]
            /\ bySession' = [bySession EXCEPT ![s] = @ \ {t}]
       ELSE UNCHANGED <<byTopic, bySession>>
  /\ UNCHANGED refTopics

\* Registry.ClearTopic and RefCounter.Clear.
RegClear(t) ==
  /\ refs' = [refs EXCEPT ![t] = [s \in Sessions |-> 0]]
  /\ refTopics' = refTopics \ {t}
  /\ byTopic' = [byTopic EXCEPT ![t] = {}]
  /\ bySession' = [s \in Sessions |-> IF Has(s, t) THEN bySession[s] \ {t} ELSE bySession[s]]

RegistryStep(h) ==
  /\ Advance(h, "registry", "bump")
  /\ \/ op[h] = "sub"   /\ RegJoin(sid[h], topic[h])
     \/ op[h] = "unsub" /\ RegLeave(sid[h], topic[h])
     \/ op[h] = "del"   /\ RegClear(topic[h])
  /\ UNCHANGED <<connected, tree, versions, local, ops>>

\* Variant: an unsubscribe leaves the version alone.
NewVersionSubOnly(o, version) ==
  CASE o = "sub" -> version + 1
    [] o = "unsub" -> version
    [] o = "del" -> 0

\* TopicRegistry.bump, and DeleteTopic's increment followed by the delete.
NewVersion(o, version) == IF o = "del" THEN 0 ELSE version + 1

BumpStep(h) ==
  /\ Advance(h, "bump", IF op[h] = "del" THEN "idle" ELSE "local")
  /\ versions' = [versions EXCEPT ![topic[h]] = NewVersion(op[h], @)]
  /\ UNCHANGED <<connected, tree, registryVars, local, ops>>

\* Session.Subscribe and Session.Unsubscribe, called after the registry's.
LocalStep(h) ==
  /\ Advance(h, "local", "idle")
  /\ local' = [local EXCEPT ![sid[h]] = IF op[h] = "sub" THEN @ \cup {topic[h]} ELSE @ \ {topic[h]}]
  /\ UNCHANGED <<connected, tree, registryVars, versions, ops>>

-------------------------------------------------------------------------------
HandlerStep(h) ==
  \/ \E s \in Sessions, t \in Topics :
       \/ ConnectSubscribe(h, s, t)
       \/ SubFrame(h, s, t)
       \/ UnsubFrame(h, s, t)
       \/ DelFrame(h, s, t)
  \/ TreeStep(h)
  \/ RegistryStep(h)
  \/ BumpStep(h)
  \/ LocalStep(h)

TopicsNext ==
  \/ \E s \in Sessions : Bind(s) \/ Remove(s)
  \/ \E h \in Handlers : HandlerStep(h)

TopicsSpec == TopicsInit /\ [][TopicsNext]_topicVars

-------------------------------------------------------------------------------
(* Properties *)

TopicsTypeOK ==
  /\ connected \subseteq Sessions
  /\ \A path \in DOMAIN tree : tree[path] \in Int
  /\ refs \in [Topics -> [Sessions -> Nat]]
  /\ refTopics \subseteq Topics
  /\ byTopic \in [Topics -> SUBSET Sessions]
  /\ bySession \in [Sessions -> SUBSET Topics]
  /\ versions \in [Topics -> Nat]
  /\ local \in [Sessions -> SUBSET Topics]
  /\ pc \in [Handlers -> {"idle", "tree", "registry", "bump", "local"}]
  /\ op \in [Handlers -> {"sub", "unsub", "del"}]
  /\ sid \in [Handlers -> Sessions]
  /\ topic \in [Handlers -> Topics]
  /\ ops \in 0..MaxOps

\* refcount.go, registry.go:28-66: the three views of the membership never part:
\* a session has references on a topic exactly when it is among the topic's
\* subscribers, and exactly then the topic is among the session's.
ViewsAgree ==
  \A t \in Topics, s \in Sessions :
    /\ (refs[t][s] >= 1) <=> (s \in byTopic[t])
    /\ (s \in byTopic[t]) <=> (t \in bySession[s])
    /\ (refs[t][s] >= 1) => (t \in refTopics)

\* tree.go:71-102: whatever handlers delete beside each other, no node of the tree
\* is left without the node above it, where no Join, Leave or Delete would find it.
TreeConnected ==
  \A path \in DOMAIN tree : Tree!Prefixes(path) \subseteq DOMAIN tree
===============================================================================
