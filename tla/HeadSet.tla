------------------------------- MODULE HeadSet -------------------------------
(***************************************************************************)
(* One head set in the store: a value and the operands merged into it       *)
(* since, which the engine folds two by two or onto the value whenever it   *)
(* compacts (head_set.rs: Write, full, fold, touches, Set::apply).          *)
(*                                                                         *)
(* `value' and `named' are history variables: what the writers' entries     *)
(* make of the set when each is applied as the table in head_set.rs's       *)
(* documentation says, and the names every stored operand stands for.       *)
(***************************************************************************)
EXTENDS HeadFunc, Sequences, SequencesExt

CONSTANTS Names, Part, MaxWrites, MaxEntries

VARIABLES base, operands, writes, value, named

vars == <<base, operands, writes, value, named>>

Set == [Names -> State]
Operand == [Names -> Func]

(* The row of the table for one entry, as a step on a name's state. *)
Row(e, s) ==
    CASE e.kind = "add" /\ s = Absent -> Live(e.priority)
      [] e.kind = "add" /\ s = Ahead -> Absent
      [] e.kind = "supersede" /\ IsLive(s) -> Absent
      [] e.kind = "supersede_ahead" /\ s = Absent -> Ahead
      [] e.kind = "supersede_ahead" /\ IsLive(s) -> Absent
      [] OTHER -> s

Entries ==
    [kind : {"add"}, name : Names, priority : Priorities]
        \cup [kind : {"supersede", "supersede_ahead"}, name : Names, priority : {0}]

FuncOf(e) ==
    CASE e.kind = "add" -> AddAt(e.priority)
      [] e.kind = "supersede" -> SUPERSEDE
      [] e.kind = "supersede_ahead" -> SUPERSEDE_AHEAD

EmptyWrite == [n \in Names |-> IDENTITY]

(* Write::then *)
WriteThen(w, e) == [w EXCEPT ![e.name] = Then(@, FuncOf(e))]

(* Write::operand: the names whose function is not the identity. *)
Held(operand) == {n \in Names : operand[n] # IDENTITY}

(* full, for one operand; Set::apply does the same to a decoded snapshot. *)
ApplyOperand(set, operand) == [n \in Names |-> Apply(operand[n], set[n])]

full(set, run) == FoldLeft(ApplyOperand, set, run)

(* As if the newer operand were applied first. *)
FoldSwapped(left, right) == [n \in Names |-> Then(right[n], left[n])]

fold(left, right) ==
    [n \in Names |->
        CASE left[n] # IDENTITY /\ right[n] # IDENTITY -> Then(left[n], right[n])
          [] left[n] # IDENTITY /\ right[n] = IDENTITY -> left[n]
          [] OTHER -> right[n]]

(* As if only an operand that adds the name touched its part. *)
(* touches: whether the operand holds a name of one of the parts read. *)
touches(operand, parts) == \E n \in Held(operand) : Part[n] \in parts

Read == full(base, operands)

Init ==
    /\ base = [n \in Names |-> Absent]
    /\ operands = <<>>
    /\ writes = 0
    /\ value = [n \in Names |-> Absent]
    /\ named = <<>>

(* One writer commits one operand: a blind merge of its entries, in order. *)
Merge(entries) ==
    LET write == FoldLeft(WriteThen, EmptyWrite, entries)
        row(set, e) == [set EXCEPT ![e.name] = Row(e, @)]
    IN  /\ writes < MaxWrites
        /\ writes' = writes + 1
        /\ Held(write) # {}
        /\ operands' = Append(operands, write)
        /\ value' = FoldLeft(row, value, entries)
        /\ named' = Append(named, {entries[i].name : i \in DOMAIN entries})
        /\ UNCHANGED base

(* The engine replaces two neighbouring operands by their fold (partial merge). *)
PartialMerge(i) ==
    /\ i + 1 \in DOMAIN operands
    /\ operands' = ReplaceAt(RemoveAt(operands, i + 1), i, fold(operands[i], operands[i + 1]))
    /\ named' = ReplaceAt(RemoveAt(named, i + 1), i, named[i] \cup named[i + 1])
    /\ UNCHANGED <<base, writes, value>>

(* A compaction writes the value the oldest operands make. *)
FullMerge(k) ==
    /\ k \in DOMAIN operands
    /\ base' = full(base, SubSeq(operands, 1, k))
    /\ operands' = SubSeq(operands, k + 1, Len(operands))
    /\ named' = SubSeq(named, k + 1, Len(named))
    /\ UNCHANGED <<writes, value>>

EntryRuns == UNION {[1..k -> Entries] : k \in 1..MaxEntries}

Next ==
    \/ \E entries \in EntryRuns : Merge(entries)
    \/ \E i \in 1..MaxWrites : PartialMerge(i) \/ FullMerge(i)

Spec == Init /\ [][Next]_vars

-----------------------------------------------------------------------------
(* Every stored operand is a function of the modelled shape, in its one      *)
(* canonical spelling, and every value holds states.                         *)
TypeOK ==
    /\ base \in Set
    /\ value \in Set
    /\ operands \in Seq(Operand)
    /\ \A i \in DOMAIN operands, n \in Names : Canonical(operands[i][n]) = operands[i][n]

(* However the engine groups the operands, a read gives what the writers'    *)
(* entries give one by one: `partial_merge` folds any run to exactly what    *)
(* `full_merge` gives over the unfolded run.                                 *)
FoldExact == Read = value

(* A part read is refused by exactly the writes that name its part, folded   *)
(* or not: no composition of entries is the identity, so a fold still holds  *)
(* every name of what it folds (`touches').                                  *)
TouchesSurvive ==
    \A i \in DOMAIN operands, n \in Names :
        touches(operands[i], {Part[n]}) <=> \E m \in named[i] : Part[m] = Part[n]
=============================================================================
