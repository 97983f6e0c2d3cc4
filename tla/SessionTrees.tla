------------------------------ MODULE SessionTrees ------------------------------
(***************************************************************************)
(* How the sidebar groups a list of sessions (buildTree, projectTree) and how   *)
(* sub-agents are gathered in families (sessionFamily).  A session is a record:  *)
(* id, parent, repo, cwd, workspace (Nil outside git), worktree, branch ("" if *)
(* unknown), and the time it was updated.                                       *)
(***************************************************************************)
EXTENDS Arrays, Integers, Sequences, SequencesExt, FiniteSets, FiniteSetsExt

CONSTANTS
  Nil,             \* no parent, no workspace
  MaxFamilyDepth   \* MAX_FAMILY_DEPTH, 64 in the code

ASSUME TreeAssumption == Nil \notin Nat /\ MaxFamilyDepth \in Nat

\* A list of sessions: each is listed once (RefreshPipeline); ids follow the order of
\* creation here.
IsSessionList(list) ==
  /\ list \in Seq(ToSet(list))
  /\ \A i \in DOMAIN list : list[i].id \in Nat /\ list[i].updated \in Nat
  /\ \A i, j \in DOMAIN list : list[i].id = list[j].id => i = j

Mapped(f(_), seq) == [k \in DOMAIN seq |-> f(seq[k])]

\* Array.prototype.sort is stable; the latest come first.
Latest(seq, times) ==
  LET order == Sorted(DOMAIN seq, LAMBDA i, j : \/ times[i] > times[j]
                                                \/ times[i] = times[j] /\ i < j)
  IN [k \in DOMAIN seq |-> seq[order[k]]]

byRecent(sessions) == Latest(sessions, Mapped(LAMBDA s : s.updated, sessions))

\* The keys of a list in the order in which they first occur (a Map).
Keys(list) ==
  LET first(v) == CHOOSE i \in DOMAIN list : list[i] = v /\ \A j \in 1..(i - 1) : list[j] # v
  IN Sorted(ToSet(list), LAMBDA a, b : first(a) < first(b))

rootSessions(sessions) == Where(sessions, LAMBDA s : s.parent = Nil)

-----------------------------------------------------------------------------
(* Nodes.  The id of a group is the sequence of the keys on the way to it.       *)

sessionNode(s) ==
  [id |-> <<"session", s.id>>, kind |-> "session", label |-> s.id, children |-> <<>>, count |-> 1,
   latest |-> s.updated]

\* latestOfNode and nestedCount.
Group(id, kind, label, children) ==
  [id |-> id, kind |-> kind, label |-> label, children |-> children,
   count |-> SumFunction(Mapped(LAMBDA n : n.count, children)),
   latest |-> Max({n.latest : n \in ToSet(children)})]

Leaves(sessions) == Mapped(sessionNode, byRecent(sessions))

ByLatest(nodes) == Latest(nodes, Mapped(LAMBDA n : n.latest, nodes))

buildTree(sessions, mode) ==
  LET roots == rootSessions(sessions)
      key(s) == IF mode = "cwd" THEN s.cwd ELSE s.repo
      group(k) == Group(<<"group", k>>, "group", k, Leaves(Where(roots, LAMBDA s : key(s) = k)))
  IN IF mode = "none" THEN Leaves(roots) ELSE ByLatest(Mapped(group, Keys(Mapped(key, roots))))

-----------------------------------------------------------------------------
(* The workspace tree.                                                      *)

hasWorkspaceData(sessions) == \E i \in DOMAIN sessions : sessions[i].workspace # Nil

hasMultipleWorktrees(sessions) ==
  \E i, j \in DOMAIN sessions : /\ sessions[i].workspace # Nil
                                /\ sessions[i].workspace = sessions[j].workspace
                                /\ sessions[i].worktree # sessions[j].worktree

workspaceKey(s) == IF s.workspace # Nil THEN <<"git", s.workspace>> ELSE <<"repo", s.repo>>

branchName(s) == IF s.branch = "" THEN "no branch" ELSE s.branch

\* Mutant of branchNodes: no group for the sessions without a branch.
branchNodes_KnownOnly(parent, sessions) ==
  LET known == Where(sessions, LAMBDA s : s.branch # "")
      node(b) == Group(Append(parent, b), "branch", b,
                       Leaves(Where(known, LAMBDA s : s.branch = b)))
  IN ByLatest(Mapped(node, Keys(Mapped(branchName, known))))

branchNodes(parent, sessions) ==
  LET node(b) == Group(Append(parent, b), "branch", b,
                       Leaves(Where(sessions, LAMBDA s : branchName(s) = b)))
  IN ByLatest(Mapped(node, Keys(Mapped(branchName, sessions))))

Branches(sessions) == {s.branch : s \in ToSet(sessions)} \ {""}

\* The nodes of a worktree: the main one's branches take its place.
WorktreeNodes(workspace, id, sessions) ==
  LET isMain == sessions[1].worktree = workspace
      branchLevel == Cardinality(Branches(sessions)) > 1
      under == IF branchLevel THEN branchNodes(id, sessions) ELSE Leaves(sessions)
  IN IF branchLevel /\ isMain THEN under
     ELSE << Group(id, "worktree", IF isMain THEN "main" ELSE sessions[1].worktree, under) >>

WorkspaceChildren(workspace, id, sessions) ==
  LET nodes(w) == WorktreeNodes(workspace, Append(id, w),
                                Where(sessions, LAMBDA s : s.worktree = w))
      all == ByLatest(FlattenSeq(Mapped(nodes, Keys(Mapped(LAMBDA s : s.worktree, sessions)))))
  IN Where(all, LAMBDA n : n.label = "main") \o Where(all, LAMBDA n : n.label # "main")

buildProjectTree(sessions) ==
  LET roots == rootSessions(sessions)
      node(k) ==
        LET group == Where(roots, LAMBDA s : workspaceKey(s) = k) IN
        Group(k, "workspace", k[2], IF group[1].workspace = Nil THEN Leaves(group)
                                    ELSE WorkspaceChildren(k[2], k, group))
  IN ByLatest(Mapped(node, Keys(Mapped(workspaceKey, roots))))

TreeOf(sessions, mode) ==
  IF mode = "workspace" THEN buildProjectTree(sessions) ELSE buildTree(sessions, mode)

-----------------------------------------------------------------------------
(* What is shown of a tree.                                                 *)

\* A tree with what is under its nodes, each before its own: a session is in three
\* groups at most.
Unfolded(tree, under(_)) ==
  LET with(nodes, more(_)) ==
        FlattenSeq([k \in DOMAIN nodes |-> <<nodes[k]>> \o more(under(nodes[k]))])
      third(nodes) == with(nodes, LAMBDA leaves : leaves)
      second(nodes) == with(nodes, third)
  IN with(tree, second)

\* Every node, in the order of the tree.
Nodes(tree) == Unfolded(tree, LAMBDA n : n.children)

\* NodeView shows what is under a group that is not collapsed: groups first.
RowsOf(tree, collapsed) ==
  Unfolded(tree, LAMBDA n :
    IF n.id \in collapsed THEN <<>>
    ELSE Where(n.children, LAMBDA c : c.kind # "session")
         \o Where(n.children, LAMBDA c : c.kind = "session"))

IsLeaf(n) == n.kind = "session"
LeafIds(rows) == LET leaves == Where(rows, IsLeaf) IN [k \in DOMAIN leaves |-> leaves[k].id[2]]

groupPaths(tree) == {n.id : n \in {m \in ToSet(Nodes(tree)) : ~IsLeaf(m)}}

-----------------------------------------------------------------------------
(* Families.                                                                *)

Ids(sessions) == {s.id : s \in ToSet(sessions)}
SessionOf(sessions, id) == CHOOSE s \in ToSet(sessions) : s.id = id

\* A session that is not listed is its own root, and so is one whose parent is not.
\* Nor does anybody go up in a circle, or more than so many parents.
resolveFamilyRoot(sessions, id) ==
  LET climb[n \in 0..MaxFamilyDepth] ==
        IF n = 0 THEN [at |-> id, seen |-> {id}]
        ELSE LET last == climb[n - 1]
                 parent == SessionOf(sessions, last.at).parent
             IN IF parent \notin Ids(sessions) \ last.seen THEN last
                ELSE [at |-> parent, seen |-> last.seen \cup {parent}]
  IN IF id \in Ids(sessions) THEN climb[MaxFamilyDepth].at ELSE id

\* Children are listed in the order of their creation.
ChildrenOf(sessions, id) ==
  Sorted({s.id : s \in {x \in ToSet(sessions) : x.parent = id}}, LAMBDA a, b : a < b)

\* The root, then its descendants, each before its own, on so many levels.
Walk(sessions, root) ==
  LET walk[levels \in 0..(MaxFamilyDepth + 1)] ==
        [id \in Ids(sessions) |->
           IF levels = 0 THEN <<>>
           ELSE LET children == ChildrenOf(sessions, id)
                IN <<id>> \o FlattenSeq([k \in DOMAIN children |-> walk[levels - 1][children[k]]])]
  IN walk[MaxFamilyDepth + 1][root]

buildSessionFamily(sessions, root) == IF root \in Ids(sessions) THEN Walk(sessions, root) ELSE <<>>

activeSessionFamily(sessions, id) ==
  buildSessionFamily(sessions, resolveFamilyRoot(sessions, id))
=============================================================================
