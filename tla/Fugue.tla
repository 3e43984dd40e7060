-------------------------------- MODULE Fugue --------------------------------
(***************************************************************************)
(* The text CRDT of crates/crdt/src/fugue.rs: the tree that the blocks of  *)
(* a text field build, the text a replay of the whole history reads off    *)
(* it, and the merge that replays only the blocks after a critical one.    *)
(*                                                                         *)
(* A history H maps a block's number to a record with its parents, all its *)
(* ancestors (`past'), its edits (`ops') and the number of characters its  *)
(* version has (`len').  A node is named by its block and its offset in    *)
(* the block.  The span that stands for the critical block's text is one   *)
(* node per character, each the right child of the one before, which is    *)
(* what a span means; the kept reading order is the order of the tree.     *)
(***************************************************************************)
EXTENDS Integers, FiniteSets, FiniteSetsExt, SequencesExt

CONSTANTS
  Cid,            \* a block's identifier, by which siblings are ordered
  Letter(_, _),   \* the character a block inserts at an offset
  None            \* no result: the caller replays the whole history

Insert(pos, n) == [act |-> "insert", pos |-> pos, n |-> n]
Delete(pos, n) == [act |-> "delete", pos |-> pos, n |-> n]

Base == 0
Root == <<Base, 0>>

Clamp(pos, len) == IF pos < len THEN pos ELSE len

-----------------------------------------------------------------------------
IdLess(a, b) ==
  LET id(n) == IF n[1] = Base THEN 0 ELSE Cid[n[1]]
  IN \/ id(a) < id(b)
     \/ id(a) = id(b) /\ a[2] < b[2]

Children(tree, node, side, version) ==
  {n \in DOMAIN tree : /\ n # Root /\ tree[n].parent = node /\ tree[n].side = side
                       /\ n[1] \in version}

RECURSIVE Traverse(_, _, _), Read(_, _, _)

\* Siblings' subtrees, by identifier.
Read(tree, kids, version) ==
  IF kids = {} THEN <<>>
  ELSE LET first == CHOOSE a \in kids : \A b \in kids : a = b \/ IdLess(a, b)
       IN Traverse(tree, first, version) \o Read(tree, kids \ {first}, version)

\* traverse from a node: the nodes a version holds, deleted ones too.
Traverse(tree, node, version) ==
  Read(tree, Children(tree, node, "left", version), version)
    \o (IF node = Root THEN <<>> ELSE <<node>>)
    \o Read(tree, Children(tree, node, "right", version), version)

Dead(tree, node, version) == tree[node].deletedBy \cap version # {}

Visible(tree, order, version) ==
  SelectSeq(order, LAMBDA n : ~ Dead(tree, n, version))

\* A tree of one span of `base' placeholder characters under the root.
WithPlaceholder(base) ==
  [n \in {<<Base, k>> : k \in 0 .. base} |->
     [parent |-> <<Base, n[2] - 1>>, side |-> "right", deletedBy |-> {}]]

-----------------------------------------------------------------------------
\* Where an insert after the left origin hangs its first character.
Place(tree, order, origin, version) ==
  LET at == IF origin = Root THEN 0 ELSE CHOOSE i \in DOMAIN order : order[i] = origin
  IN IF Children(tree, origin, "right", version) # {} /\ at < Len(order)
     THEN [parent |-> order[at + 1], side |-> "left"]
     ELSE [parent |-> origin, side |-> "right"]

\* The nodes of an insert: each later character the right child of the one before.
Hang(b, offset, n, place) ==
  [x \in {<<b, offset + k>> : k \in 1 .. n} |->
     IF x[2] = offset + 1
     THEN [parent |-> place.parent, side |-> place.side, deletedBy |-> {}]
     ELSE [parent |-> <<b, x[2] - 1>>, side |-> "right", deletedBy |-> {}]]

\* An operation of block b on the characters `shown', of those in `order'.
ApplyShown(tree, b, version, op, order, shown) ==
  LET from == Clamp(op.pos, Len(shown))
      upto == Clamp(op.pos + op.n, Len(shown))
      origin == IF from = 0 THEN Root ELSE shown[from]
      offset == Cardinality({n \in DOMAIN tree : n[1] = b})
      marked == {shown[i] : i \in (from + 1) .. upto}
  IN IF op.act = "insert"
     THEN Hang(b, offset, op.n, Place(tree, order, origin, version)) @@ tree
     ELSE [n \in DOMAIN tree |->
             IF n \in marked THEN [tree[n] EXCEPT !.deletedBy = @ \cup {b}] ELSE tree[n]]

ApplyInOrder(tree, b, version, op, order) ==
  ApplyShown(tree, b, version, op, order, Visible(tree, order, version))

\* Tree::apply, for an operation of block b, which sees the blocks of a version.
ApplyOp(tree, b, version, op) ==
  ApplyInOrder(tree, b, version, op, Traverse(tree, Root, version))

RECURSIVE Topological(_, _)

\* The blocks B of a history, each after its parents, ties broken by identifier.
Topological(H, B) ==
  IF B = {} THEN <<>>
  ELSE LET ready == {b \in B : H[b].parents \cap B = {}}
           first == CHOOSE b \in ready : \A c \in ready : Cid[b] <= Cid[c]
       IN <<first>> \o Topological(H, B \ {first})

\* As if a block saw every block replayed before it.
VersionAll(H, B, b) == B \cup {Base}

\* The blocks whose characters block b sees and counts.
Version(H, B, b) == (H[b].past \cap B) \cup {b, Base}

\* The tree that the blocks B build on a span of `base' characters.
Build(H, B, base) ==
  FoldLeft(LAMBDA tree, b :
             FoldLeft(LAMBDA t, op : ApplyOp(t, b, Version(H, B, b), op), tree, H[b].ops),
           WithPlaceholder(base), Topological(H, B))

\* The characters of a sequence of nodes, where known(n) is a placeholder's.
Letters(nodes, known(_)) ==
  [i \in DOMAIN nodes |-> IF nodes[i][1] = Base THEN known(nodes[i])
                          ELSE Letter(nodes[i][1], nodes[i][2])]

\* What a version of a tree without placeholders reads as.
ReadOff(tree, version) ==
  Letters(Visible(tree, Traverse(tree, Root, version), version), LAMBDA n : None)

\* fugue::replay
Replay(H, B) == ReadOff(Build(H, B, 0), B \cup {Base})

\* The nodes that the version without `new' shows.
ShownWithout(tree, order, B, new) ==
  SelectSeq(order, LAMBDA n : n[1] # new /\ tree[n].deletedBy \subseteq {new})

\* The merged text, read off a tree in reading order, of whose nodes `held' were
\* shown without `new'.
MergeHeld(current, H, B, new, tree, order, held) ==
  LET known(n) == current[CHOOSE i \in DOMAIN held : held[i] = n]
  IN IF \/ \E b \in B : new \in H[b].parents
        \/ Len(held) # Len(current)
        \/ \E i \in DOMAIN held :
             held[i][1] # Base /\ Letter(held[i][1], held[i][2]) # current[i]
     THEN None
     ELSE Letters(Visible(tree, order, B), known)

MergeInOrder(current, H, B, new, tree, order) ==
  MergeHeld(current, H, B, new, tree, order, ShownWithout(tree, order, B, new))

MergeTree(current, H, B, new, tree) ==
  MergeInOrder(current, H, B, new, tree, Traverse(tree, Root, B \cup {Base}))

\* fugue::merge_text: the text of the blocks B, and of a critical block below
\* them whose text had `base' characters, when `current' is the text without `new'.
MergeText(current, base, H, B, new) == MergeTree(current, H, B, new, Build(H, B, base))

-----------------------------------------------------------------------------
\* TextOp::apply_all, of the edits of block b.
ApplyAll(text, ops, b) ==
  LET start(i) == FoldLeft(LAMBDA n, op : n + IF op.act = "insert" THEN op.n ELSE 0,
                           0, SubSeq(ops, 1, i - 1))
      step(t, i) ==
        LET op == ops[i]
            from == Clamp(op.pos, Len(t))
        IN IF op.act = "insert"
           THEN SubSeq(t, 1, from) \o [k \in 1 .. op.n |-> Letter(b, start(i) + k)]
                  \o SubSeq(t, from + 1, Len(t))
           ELSE SubSeq(t, 1, from) \o SubSeq(t, Clamp(op.pos + op.n, Len(t)) + 1, Len(t))
  IN FoldLeft(step, text, [i \in DOMAIN ops |-> i])
=============================================================================
