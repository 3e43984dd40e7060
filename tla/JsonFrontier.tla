---------------------------- MODULE JsonFrontier ----------------------------
(***************************************************************************)
(* The algorithms of a JSON field (crates/defra-core/src/json_crdt.rs and  *)
(* crates/crdt/src/field/json.rs): edits at paths, the frontier of edits   *)
(* nothing later has seen, what it reads as, and its conflicts.            *)
(*                                                                         *)
(* A value is flattened: a function from the paths it has, closed under    *)
(* prefixes, to "map" or to a value that is no map.  The edits of a block  *)
(* are a function from paths to edits: a block edits a path once, and      *)
(* above another path only before it.  A block's identifier is its number, *)
(* 0 the one below all others.                                             *)
(***************************************************************************)
EXTENDS Integers, FiniteSets, Sequences, SequencesExt, TLC

CONSTANT Paths  \* sequences of keys, closed under prefixes

Map == [kind |-> "map", value |-> "map"]
Delete == [kind |-> "delete", value |-> "none"]
Set(v) == [kind |-> "set", value |-> v]

Edits(node) == IF node = "map" THEN Map ELSE Set(node)

\* The paths above each path, and those at or below it.
Above == [p \in Paths |-> {q \in Paths : IsStrictPrefix(q, p)}]
Below == [p \in Paths |-> {q \in Paths : IsPrefix(p, q)}]

\* The part of a function that is not at or below p.
Without(f, p) == [q \in DOMAIN f \ Below[p] |-> f[q]]

\* Whether the node at p of a value is a map.
IsMap(value, p) == p \in DOMAIN value /\ value[p] = "map"

-----------------------------------------------------------------------------
\* json_crdt::diff
Diff(old, new) ==
  LET gone == {p \in DOMAIN old \ DOMAIN new :
                 \A q \in Above[p] : IsMap(new, q)}
      changed == {p \in DOMAIN new : p \notin DOMAIN old \/ old[p] # new[p]}
  IN [p \in gone |-> Delete] @@ [p \in changed |-> Edits(new[p])]

\* One round of apply_ops.
ApplyOp(value, p, edit) ==
  IF edit = Delete THEN Without(value, p)
  ELSE p :> edit.value @@ [q \in Above[p] |-> "map"] @@ Without(value, p)

\* apply_ops: an edit above another is made before it, others commute.
ApplyOps(value, ops) ==
  FoldLeft(LAMBDA v, p : ApplyOp(v, p, ops[p]), value,
           SetToSortSeq(DOMAIN ops, LAMBDA p, q : Len(p) < Len(q)))

\* deep_set: each leaf of `new' at its own path under p.
DeepSet(current, p, new) ==
  LET at == {q \in DOMAIN new : new[q] # "map" \/ ~IsMap(current, p \o q)}
  IN [q \in {p \o s : s \in at} |-> Edits(new[SubSeq(q, Len(p) + 1, Len(q))])]

\* settle_earlier
SettleEarlier(ops, p) ==
  [q \in DOMAIN Without(ops, p) |->
     IF q \in Above[p] /\ ops[q].kind = "set" THEN Map ELSE ops[q]]

\* block_ops of path edits: [path, set] sets a value, [path, delete] deletes.
PathOps(current, edits) ==
  LET Step(acc, e) ==
        LET new == IF e.value = <<>> THEN e.path :> Delete
                   ELSE DeepSet(acc.working, e.path, e.value)
        IN [working |-> ApplyOps(acc.working, new),
            ops |-> new @@ SettleEarlier(acc.ops, e.path)]
  IN FoldLeft(Step, [working |-> current, ops |-> <<>>], edits).ops

-----------------------------------------------------------------------------
\* beats
Beats(a, b) == a.pri > b.pri \/ (a.pri = b.pri /\ a.block > b.block)

\* Index::racers
Racers(entries, p) ==
  LET all == {e \in entries : e.path = p \/ (e.path \in Below[p] /\ e.edit # Delete)}
      implied == \E e \in all : e.path # p
  IN {e \in all : ~(implied /\ e.path = p /\ e.edit = Delete)}

\* Index::winner.  A block below p may win by several of its edits.
Winners(entries, p) ==
  LET racers == Racers(entries, p)
  IN {e \in racers : \A d \in racers : ~Beats(d, e)}

\* What a racer says of p.
Says(e, p) == IF e.path # p THEN Map ELSE e.edit

\* Index::node
Node(entries, p) ==
  LET winners == Winners(entries, p)
  IN IF \E e \in winners : Says(e, p) = Map THEN "map"
     ELSE IF winners = {} THEN "none"
     ELSE (CHOOSE e \in winners : TRUE).edit.value

\* Frontier::materialize
Materialize(entries) ==
  LET node == [p \in Paths |-> Node(entries, p)]
  IN [p \in {p \in Paths : node[p] # "none" /\ \A q \in Above[p] : node[q] = "map"}
        |-> node[p]]

\* Frontier::delta
Delta(entries, ops, block, pri, past) ==
  LET known == {e \in entries : e.block \in past}
  IN [removes |-> {<<e.path, e.block>> :
                     e \in {e \in known : \E p \in DOMAIN ops : e.path \in Below[p]}},
      entries |-> {[path |-> p, block |-> block, pri |-> pri, edit |-> ops[p],
                    seen |-> {e.block : e \in {e \in known : e.path \in Above[p]}}] :
                     p \in DOMAIN ops}]

\* Frontier::compose of a stored frontier and an operand, settled.
Compose(entries, operand) ==
  {e \in entries : <<e.path, e.block>> \notin operand.removes} \cup operand.entries

\* Frontier::compose of two operands.
Then(left, right) ==
  [removes |-> left.removes \cup right.removes, entries |-> Compose(left.entries, right)]

\* The edits of a frontier that lost at p to one that Concurrent says had not
\* seen them, by path and block; two maps agree.
LostTo(entries, Concurrent(_, _, _)) ==
  UNION {{<<p, e.block>> :
            e \in {e \in entries :
                   /\ e.path = p \/ (e.path \in Below[p] /\ e.edit # Delete)
                   /\ \E w \in Winners(entries, p) :
                        /\ e.block # w.block
                        /\ ~(Says(e, p) = Map /\ Says(w, p) = Map)
                        /\ Concurrent(e, w, p)}} : p \in Paths}

\* Frontier::conflicts: an edit knows the ones above it that it had seen.
Conflicts(entries) ==
  LET Unseen(e, w, p) == /\ w.path = p => w.block \notin e.seen
                         /\ e.path = p => e.block \notin w.seen
  IN LostTo(entries, Unseen)

-----------------------------------------------------------------------------
\* landed: the local block's priority is above every stored edit's.
Landed(entries, ops) ==
  LET top == 1 + Max({0} \cup {e.pri : e \in entries})
  IN Materialize(Compose(entries, Delta(entries, ops, 0, top, Nat)))

\* mismatch: a shallowest path where two values differ other than in what two
\* maps hold.
Mismatches(a, b) ==
  LET differ == {p \in DOMAIN a \cup DOMAIN b :
                   ~(p \in DOMAIN a /\ p \in DOMAIN b /\ a[p] = b[p])}
  IN {p \in differ : Above[p] \cap differ = {}}

RECURSIVE Anchored(_, _, _, _)

\* write_data's loop, at most `rounds' times.
Anchored(entries, read, ops, rounds) ==
  LET landed == Landed(entries, ops) IN
  IF rounds = 0 \/ landed = read THEN ops
  ELSE LET p == CHOOSE p \in Mismatches(landed, read) : TRUE
           anew == IF p \in DOMAIN read
                   THEN [q \in DOMAIN read \cap Below[p] |-> Edits(read[q])]
                   ELSE p :> Delete
       IN Anchored(entries, read, anew @@ Without(ops, p), rounds - 1)
=============================================================================
