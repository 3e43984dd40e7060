------------------------------ MODULE LwwMerge ------------------------------
(***************************************************************************)
(* A last-write-wins field of one document on several replicas: the part   *)
(* of the stored document (crates/db/src/collection/value.rs), the         *)
(* register that merges resolve against, one per collection version        *)
(* (crates/db/src/merge/merge_handler/field_state.rs), and the field's     *)
(* index entries.                                                          *)
(*                                                                         *)
(* A local write goes into the part only, in the document's encoding; a    *)
(* merge joins the block's bytes into the register, after the document's   *)
(* value when the heads are ahead of it, and puts the outcome into the     *)
(* part.  Byte strings are ranked by Nat, 0 being the empty one: all that  *)
(* is asked of them is their order and what they read as.                  *)
(***************************************************************************)
EXTENDS Integers, Sequences, FiniteSets, FiniteSetsExt

CONSTANTS
  Replicas,
  Values,       \* what a field can read as; one of them is Null
  Null,
  Encode,       \* value -> bytes of a block (FieldCrdt::encode)
  Stored,       \* value -> bytes of a document part (LwwField::stored)
  Reads,        \* bytes -> value (LwwField::materialize)
  Reencode,     \* bytes of a part -> bytes of a block of what they read as
  Written,      \* the values that local writes take
  Versions,     \* versions of the collection
  NoVersion,
  Indexed,      \* whether the collection indexes the field
  MaxBlocks

ASSUME EncodingAssumption ==
  /\ Null \in Values /\ Written \subseteq Values /\ NoVersion \notin Versions
  /\ 0 \in DOMAIN Reads /\ DOMAIN Reads \subseteq Nat
  /\ Reads \in [DOMAIN Reads -> Values] /\ Reads[0] = Null /\ Stored[Null] = 0
  /\ Encode \in [Values -> DOMAIN Reads] /\ Stored \in [Values -> DOMAIN Reads]
  /\ Reencode \in [DOMAIN Reads -> DOMAIN Reads]
  /\ MaxBlocks \in Nat \ {0} /\ Indexed \in BOOLEAN

VARIABLES
  blocks,   \* all field blocks, the genesis first; `past' is the writer's snapshot
  merged,   \* r -> the blocks r has merged or written
  part,     \* r -> the field's part of the stored document
  version,  \* r -> the collection version the document is stored at
  register, \* r -> collection version -> the register
  index,    \* r -> the values the document has an index entry for
  snap      \* r -> the blocks an open local update has seen

vars == <<blocks, merged, part, version, register, index, snap>>

Start == [pri |-> 0, bytes |-> 0]

Init ==
  /\ blocks = <<>>
  /\ merged = [r \in Replicas |-> {}]
  /\ part = [r \in Replicas |-> Start]
  /\ version = [r \in Replicas |-> NoVersion]
  /\ register = [r \in Replicas |-> [v \in Versions |-> Start]]
  /\ index = [r \in Replicas |-> {}]
  /\ snap = [r \in Replicas |-> {}]

-----------------------------------------------------------------------------
\* As if the bytes were compared before the priorities.
JoinGreatest(state, incoming) ==
  IF \/ incoming.bytes < state.bytes
     \/ (incoming.bytes = state.bytes /\ incoming.pri <= state.pri)
  THEN state ELSE incoming

\* LwwField::merge
Join(state, incoming) ==
  IF \/ incoming.pri < state.pri
     \/ (incoming.pri = state.pri /\ incoming.bytes <= state.bytes)
  THEN state ELSE incoming

State(b) == [pri |-> blocks[b].pri, bytes |-> blocks[b].bytes]

\* The field's priority in the heads: the greatest among the blocks of S.
HeadPriority(S) == Max({0} \cup {blocks[b].pri : b \in S})

Exists(r) == merged[r] # {}
Value(r) == Reads[part[r].bytes]

\* The index entries of r after its value became v.
Reindexed(r, v) ==
  IF ~Indexed THEN {} ELSE
  IF Exists(r) THEN (index[r] \ {Value(r)}) \cup {v} ELSE {v}

-----------------------------------------------------------------------------
\* The document is created, with a value for the field or without.
Create(r, v, ver) ==
  /\ blocks = <<>>
  /\ blocks' = << IF v = Null THEN [pri |-> 0, bytes |-> 0, ver |-> ver, past |-> {}]
                  ELSE [pri |-> 1, bytes |-> Encode[v], ver |-> ver, past |-> {}] >>
  /\ merged' = [merged EXCEPT ![r] = {1}]
  /\ part' = [part EXCEPT ![r] = [pri |-> 1, bytes |-> Stored[v]]]
  /\ version' = [version EXCEPT ![r] = ver]
  /\ index' = [index EXCEPT ![r] = Reindexed(r, v)]
  /\ UNCHANGED <<register, snap>>

\* A local update takes its snapshot.
Begin(r) ==
  /\ Exists(r) /\ snap[r] = {} /\ Len(blocks) < MaxBlocks
  /\ snap' = [snap EXCEPT ![r] = merged[r]]
  /\ UNCHANGED <<blocks, merged, part, version, register, index>>

\* The block a local update writes, on the heads of its snapshot.
NewBlock(r, v, ver) ==
  [pri |-> HeadPriority(snap[r]) + 1, bytes |-> Encode[v], ver |-> ver,
   past |-> snap[r]]

\* It commits.  The part and the index are decided on, so validated, except
\* that an unindexed field's write is blind once it has lost to another; a
\* document stored at another version is read and put whole.
Update(r, v, ver) ==
  LET block == NewBlock(r, v, ver)
      new == [pri |-> block.pri, bytes |-> Stored[v]]
  IN
  /\ snap[r] # {}
  /\ snap[r] = merged[r] \/ (~Indexed /\ version[r] = ver)
  /\ blocks' = Append(blocks, block)
  /\ merged' = [merged EXCEPT ![r] = @ \cup {Len(blocks) + 1}]
  /\ part' = [part EXCEPT ![r] = IF version[r] = ver THEN Join(@, new) ELSE new]
  /\ version' = [version EXCEPT ![r] = ver]
  /\ index' = [index EXCEPT ![r] = Reindexed(r, v)]
  /\ snap' = [snap EXCEPT ![r] = {}]
  /\ UNCHANGED register

\* Another field is written, or merged, under another version: the document is
\* put whole.
PutWhole(r, ver) ==
  /\ Exists(r) /\ version[r] # ver
  /\ part' = [part EXCEPT ![r] = [pri |-> HeadPriority(merged[r]), bytes |-> Stored[Value(r)]]]
  /\ version' = [version EXCEPT ![r] = ver]
  /\ UNCHANGED <<blocks, merged, register, index, snap>>

\* reseed_from_document: the register after the document's value joined it.
Reseeded(r, state) ==
  LET heads == HeadPriority(merged[r])
  IN IF \/ ~Exists(r) \/ Value(r) = Null \/ heads = 0
        \/ state.pri # 0 /\ state.pri > heads
     THEN state
     ELSE Join(state, [pri |-> heads, bytes |-> Reencode[part[r].bytes]])

\* merge_field_state: what the register of the block's version resolves to.
Resolved(r, b) ==
  LET seeded == Reseeded(r, register[r][blocks[b].ver])
  IN Join(IF blocks[b].pri = 1 /\ ~Exists(r) THEN Start ELSE seeded, State(b))

\* persist_merged_document: the document as resolved is what is indexed.
IndexedAs(r, outcome) == Reindexed(r, Reads[outcome.bytes])

\* r merges block b, for the first time or again, after those it builds on.
Merge(r, b) ==
  LET ver == blocks[b].ver
      outcome == Resolved(r, b)
  IN
  /\ blocks[b].past \subseteq merged[r]
  /\ blocks[b].pri > 0
  /\ register' = [register EXCEPT ![r][ver] = outcome]
  /\ part' = [part EXCEPT ![r] = IF version[r] = ver THEN Join(@, outcome) ELSE outcome]
  /\ version' = [version EXCEPT ![r] = ver]
  /\ index' = [index EXCEPT ![r] = IndexedAs(r, outcome)]
  /\ merged' = [merged EXCEPT ![r] = @ \cup {b}]
  /\ UNCHANGED <<blocks, snap>>

\* r merges a genesis that does not write the field.
MergeAbsent(r) ==
  /\ blocks # <<>> /\ blocks[1].pri = 0 /\ ~Exists(r)
  /\ merged' = [merged EXCEPT ![r] = {1}]
  /\ version' = [version EXCEPT ![r] = blocks[1].ver]
  /\ index' = [index EXCEPT ![r] = Reindexed(r, Null)]
  /\ UNCHANGED <<blocks, part, register, snap>>

Next ==
  \E r \in Replicas :
    \/ \E v \in Written \cup {Null}, ver \in Versions : Create(r, v, ver)
    \/ Begin(r)
    \/ \E v \in Written, ver \in Versions : Update(r, v, ver)
    \/ \E ver \in Versions : PutWhole(r, ver)
    \/ \E b \in DOMAIN blocks : Merge(r, b)
    \/ MergeAbsent(r)

Spec == Init /\ [][Next]_vars

-----------------------------------------------------------------------------
\* No write is of null, and a value has the same bytes in a block and in a
\* document, not empty, which read as the value and are encoded as themselves.
SameBytes ==
  \A v \in Written :
    /\ v # Null /\ Stored[v] = Encode[v] /\ Encode[v] # 0
    /\ Reads[Encode[v]] = v /\ Reencode[Encode[v]] = Encode[v]

RegisterStates == [pri : 0..MaxBlocks, bytes : DOMAIN Reads]

TypeOK ==
  /\ \A b \in DOMAIN blocks :
       /\ [pri |-> blocks[b].pri, bytes |-> blocks[b].bytes] \in RegisterStates
       /\ blocks[b].ver \in Versions /\ blocks[b].past \subseteq 1..(b - 1)
  /\ \A r \in Replicas :
       /\ merged[r] \subseteq DOMAIN blocks /\ snap[r] \subseteq merged[r]
       /\ part[r] \in RegisterStates
       /\ version[r] \in Versions \cup {NoVersion}
       /\ register[r] \in [Versions -> RegisterStates]
       /\ index[r] \subseteq Values

\* b is no less than any write of S, by priority and then by its bytes.
Greatest(b, S) ==
  /\ b \in S
  /\ \A c \in S : \/ blocks[c].pri < blocks[b].pri
                  \/ (blocks[c].pri = blocks[b].pri /\ blocks[c].bytes <= blocks[b].bytes)

\* The document reads as the greatest write, by priority and then bytes, among
\* the blocks the replica has merged or written: whatever order they came in,
\* how often, under which versions, and whichever of the two stores each went
\* through.
ReadsWinner ==
  \A r \in Replicas, b \in DOMAIN blocks :
    Greatest(b, merged[r]) => Value(r) = Reads[blocks[b].bytes]

\* The index has exactly one entry for the document, for the value it reads as,
\* although the index is given the register's outcome and reads take the part.
IndexFollows ==
  Indexed => \A r \in Replicas : Exists(r) => index[r] = {Value(r)}

\* A replica reads the value of the winner among its published blocks, and its
\* index entries follow the value (lww.rs, field_state.rs).
RegisterHolds == TypeOK /\ ReadsWinner /\ IndexFollows

\* Replicas that have merged the same blocks read the same value.
Converged ==
  \A r, s \in Replicas :
    merged[r] = merged[s] /\ Exists(r) => Value(r) = Value(s)
=============================================================================
