--------------------------- MODULE DocumentValue ---------------------------
(***************************************************************************)
(* A stored value under blind merges (crates/crdt/src/stored.rs and        *)
(* crates/storage/src/backends/regolith/merge/mod.rs): a base and the      *)
(* operands written since.  The engine folds neighbouring operands before  *)
(* it knows their base, in groups of its own choice, and lands them on the *)
(* base when it reads or compacts.  What is read must be what the operands *)
(* make of the base one at a time, in the order they were committed.       *)
(*                                                                         *)
(* A document is a function from the fields it has to their parts.         *)
(* Full-text statistics, a value of their own, are a document of one part  *)
(* of kind "stats".  Integers are two's complement numbers of Width bits,  *)
(* floats have Digits significant bits.                                    *)
(***************************************************************************)
EXTENDS Integers, Sequences, SequencesExt

CONSTANTS
  Fields,
  Kind,        \* field -> "lww" | "int" | "float" | "text" | "json" | "stats"
  Width,       \* of an integer, in bits
  Digits,      \* significant bits of a float
  Priorities,
  Contents,    \* of a register or a text
  Increments,
  Failed,      \* full_merge's None: the value cannot be read
  MaxWrites,   \* operands written
  MaxFields    \* fields one of them has

VARIABLES
  base,     \* the value the engine holds whole
  ops,      \* the operands above it
  written,  \* how many operands were written
  value     \* history: the operands applied one at a time as they committed

vars == <<base, ops, written, value>>

-----------------------------------------------------------------------------
Bound == 2 ^ (Width - 1)

\* i64::wrapping_add
Wrapped(n) == ((n + Bound) % (2 * Bound)) - Bound

\* The float nearest to n, ties to even.
Rounded(n) ==
  LET size == IF n < 0 THEN -n ELSE n
      unit == CHOOSE u \in {2 ^ k : k \in 0..size} :
                /\ size < u * 2 ^ Digits
                /\ u = 1 \/ size >= (u \div 2) * 2 ^ Digits
      low == size \div unit
      up == \/ 2 * (size % unit) > unit
            \/ 2 * (size % unit) = unit /\ low % 2 = 1
      near == IF up THEN (low + 1) * unit ELSE low * unit
  IN IF n < 0 THEN -near ELSE near

\* i128::checked_add
Checked(n) == IF n \in -Bound..(Bound - 1) THEN n ELSE Failed

\* A part: its priority, the number or content of most kinds, and a JSON
\* field's entries with, in an operand, those it removes.
Part(pri, val, entries, removes) ==
  [pri |-> pri, val |-> val, entries |-> entries, removes |-> removes]

\* A part of a value that does not have it yet.
Fresh == Part(0, 0, {}, {})

Larger(a, b) == IF a > b THEN a ELSE b

\* FieldCrdt::merge of the part's kind.
Merged(kind, state, incoming) ==
  LET pri == Larger(state.pri, incoming.pri)
      sum == state.val + incoming.val
  IN CASE kind = "lww" ->
            IF \/ incoming.pri < state.pri
               \/ incoming.pri = state.pri /\ incoming.val <= state.val
            THEN state ELSE incoming
       [] kind = "int" -> Part(pri, Wrapped(sum), {}, {})
       [] kind = "float" -> Part(pri, Rounded(sum), {}, {})
       [] kind = "stats" -> Part(pri, Checked(sum), {}, {})
       [] kind = "text" -> Part(pri, incoming.val, {}, {})
       [] kind = "json" ->
            Part(pri, 0, (state.entries \ incoming.removes) \cup incoming.entries,
                 state.removes \cup incoming.removes)

\* StoredDocument::fold: a later operand's parts merge into those of `doc'.
Fold(doc, operand) ==
  [f \in DOMAIN doc \cup DOMAIN operand |->
     IF f \notin DOMAIN operand THEN doc[f]
     ELSE Merged(Kind[f], IF f \in DOMAIN doc THEN doc[f] ELSE Fresh, operand[f])]

\* TaggedCrdt::settle: a stored value removes nothing.
Settled(kind, part) ==
  IF kind = "json" THEN [part EXCEPT !.removes = {}] ELSE part

\* Whether the merge of some part failed, and with it the whole fold.
Broken(doc) == \E f \in DOMAIN doc : doc[f].val = Failed

\* StoredDocument::apply, or the failure of one of its parts.
Apply(doc, operand) ==
  IF doc = Failed THEN Failed
  ELSE LET new == Fold(doc, operand)
       IN IF Broken(new) THEN Failed
          ELSE [f \in DOMAIN new |->
                  IF f \in DOMAIN operand THEN Settled(Kind[f], new[f]) ELSE new[f]]

\* DefraMergeOperator::full_merge
FullMerge(doc, operands) == FoldLeft(Apply, doc, operands)

\* FieldCrdt::folds_exactly
FoldsExactly(kind) == kind \notin {"float", "stats"}

\* As if folding settled the parts as landing does.
PartialMergeSettled(left, right) ==
  [f \in DOMAIN Fold(left, right) |-> Settled(Kind[f], Fold(left, right)[f])]

\* DefraMergeOperator::partial_merge, where it does not refuse.
PartialMerge(left, right) == Fold(left, right)

-----------------------------------------------------------------------------
\* The parts a write may carry.  A write of a JSON field adds its own entry,
\* which no other write adds, and removes some of those written before it.
Parts(f) ==
  CASE Kind[f] \in {"lww", "text"} -> {Part(p, v, {}, {}) : p \in Priorities, v \in Contents}
    [] Kind[f] \in {"int", "float", "stats"} ->
         {Part(p, v, {}, {}) : p \in Priorities, v \in Increments}
    [] Kind[f] = "json" ->
         {Part(p, 0, {written + 1}, R) : p \in Priorities, R \in SUBSET (1..written)}

\* The operands over the fields F.
Documents(F) == {d \in [F -> UNION {Parts(f) : f \in F}] : \A f \in F : d[f] \in Parts(f)}

Init ==
  /\ base = <<>> /\ ops = <<>> /\ written = 0
  /\ value = <<>>

\* A commit merges an operand blindly.
Write(F) ==
  /\ written < MaxWrites
  /\ \E operand \in Documents(F) :
       /\ ops' = Append(ops, operand)
       /\ value' = Apply(value, operand)
  /\ written' = written + 1
  /\ UNCHANGED base

\* The engine folds two neighbours, if the operator lets it.
FoldPair(i) ==
  /\ \A f \in DOMAIN ops[i] \cup DOMAIN ops[i + 1] : FoldsExactly(Kind[f])
  /\ ~Broken(PartialMerge(ops[i], ops[i + 1]))
  /\ ops' = SubSeq(ops, 1, i - 1) \o <<PartialMerge(ops[i], ops[i + 1])>>
              \o SubSeq(ops, i + 2, Len(ops))
  /\ UNCHANGED <<base, written, value>>

\* The engine lands the oldest n operands on the base.
Land(n) ==
  /\ FullMerge(base, SubSeq(ops, 1, n)) # Failed
  /\ base' = FullMerge(base, SubSeq(ops, 1, n))
  /\ ops' = SubSeq(ops, n + 1, Len(ops))
  /\ UNCHANGED <<written, value>>

\* A commit puts the value whole, as it reads.
Put ==
  /\ ops # <<>> /\ value # Failed
  /\ base' = value /\ ops' = <<>>
  /\ UNCHANGED <<written, value>>

Next ==
  \/ \E k \in 1..MaxFields : \E F \in kSubset(k, Fields) : Write(F)
  \/ \E i \in 1..(Len(ops) - 1) : FoldPair(i)
  \/ \E n \in 1..Len(ops) : Land(n)
  \/ Put

Spec == Init /\ [][Next]_vars

-----------------------------------------------------------------------------
\* Values have parts of the value's fields; a value held whole removes nothing.
TypeOK ==
  /\ DOMAIN base \subseteq Fields
  /\ \A f \in DOMAIN base : base[f].removes = {}
  /\ \A i \in DOMAIN ops : DOMAIN ops[i] \subseteq Fields
  /\ Len(ops) <= written /\ written \in 0..MaxWrites

\* However the engine grouped the operands, the value it reads is the one the
\* commits made one after another: sums wrap and round as they did, an
\* overflow shows, and an entry a later write removed stays removed.
GroupingUnseen == FullMerge(base, ops) = value
=============================================================================
