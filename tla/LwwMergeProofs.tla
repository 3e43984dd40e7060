---------------------------- MODULE LwwMergeProofs ----------------------------
(***************************************************************************)
(* What a replica reads of a last-write-wins field is the greatest write   *)
(* it has merged, and replicas with the same blocks read the same value,   *)
(* for any replicas, versions and number of blocks, where a value has the  *)
(* same bytes in a block and in a document (SameBytes).                    *)
(*                                                                         *)
(* The invariant is stated of values: `bs' are the blocks, M what one      *)
(* replica has merged, P its part, V the document's version, R the         *)
(* registers, X the index and N the snapshot of an open update.            *)
(***************************************************************************)
EXTENDS LwwMerge, TLAPS

-----------------------------------------------------------------------------
(* The inductive invariant. *)

Wire == {Encode[v] : v \in Written}
BlockType == [pri : Nat, bytes : Nat, ver : Versions, past : SUBSET Nat]

\* The order of writes: by priority, then by bytes.
Leq(x, y) == x.pri < y.pri \/ (x.pri = y.pri /\ x.bytes <= y.bytes)

Of(bs, b) == [pri |-> bs[b].pri, bytes |-> bs[b].bytes]

\* A block that writes the field has the bytes of a value.  Only the genesis may
\* write none, and only it builds on nothing.
BlockIs(b, block) ==
  /\ block.pri \in 0 .. b /\ block.pri <= MaxBlocks
  /\ block.pri = 0 => b = 1 /\ block.bytes = 0
  /\ block.pri > 0 => block.bytes \in Wire
  /\ block.past \subseteq 1 .. (b - 1) /\ (block.past = {} => b = 1)

Blocks(bs) == bs \in Seq(BlockType) /\ \A b \in DOMAIN bs : BlockIs(b, bs[b])

Best(bs, w, S) == w \in S /\ \A c \in S : Leq(Of(bs, c), Of(bs, w))

\* The part holds the winner x; that no block wrote the field may be there at
\* either priority.
PartIs(P, x) == IF x.pri = 0 THEN P.bytes = 0 /\ P.pri \in {0, 1} ELSE P = x

ReplicaTypes(bs, M, P, V, R, X, N) ==
  /\ M \subseteq DOMAIN bs /\ P \in RegisterStates /\ V \in Versions \cup {NoVersion}
  /\ R \in [Versions -> RegisterStates] /\ X \subseteq Values
  /\ N \subseteq M /\ N \subseteq 1 .. (MaxBlocks - 1)

\* A snapshot has a winner; a replica without the document has nothing of it.
Snapshot(bs, N) == N # {} => \E w \in N : Best(bs, w, N)
Fresh(M, P, V, R) == M = {} => P = Start /\ V = NoVersion /\ R = [v \in Versions |-> Start]

\* No register is ahead of x.
Behind(R, x) == \A v \in Versions : Leq(R[v], x)

\* The part is the winner of what was merged, and no register is ahead of it.
Wins(bs, M, P, R, w) ==
  Best(bs, w, M) /\ PartIs(P, Of(bs, w)) /\ Behind(R, Of(bs, w))

Replica(bs, M, P, V, R, X, N) ==
  /\ ReplicaTypes(bs, M, P, V, R, X, N) /\ Snapshot(bs, N) /\ Fresh(M, P, V, R)
  /\ M # {} => \E w \in M : Wins(bs, M, P, R, w)
  /\ Indexed /\ M # {} => X = {Reads[P.bytes]}

OneEach ==
  /\ DOMAIN merged = Replicas /\ DOMAIN part = Replicas /\ DOMAIN version = Replicas
  /\ DOMAIN register = Replicas /\ DOMAIN index = Replicas /\ DOMAIN snap = Replicas

ReplicaIs(r) ==
  Replica(blocks, merged[r], part[r], version[r], register[r], index[r], snap[r])

IInv == Blocks(blocks) /\ OneEach /\ \A r \in Replicas : ReplicaIs(r)
-----------------------------------------------------------------------------
(* The order of writes, and what a join does. *)

Writes == [pri : Nat, bytes : Nat]

LEMMA LeqOrder ==
  ASSUME NEW x \in Writes, NEW y \in Writes
  PROVE  /\ Leq(x, x) /\ (Leq(x, y) \/ Leq(y, x))
         /\ Leq(x, y) /\ Leq(y, x) => x = y
<1>1. x = [pri |-> x.pri, bytes |-> x.bytes] /\ y = [pri |-> y.pri, bytes |-> y.bytes]
  BY DEF Writes
<1>2. x.pri \in Nat /\ x.bytes \in Nat /\ y.pri \in Nat /\ y.bytes \in Nat
  BY DEF Writes
<1> QED BY <1>1, <1>2 DEF Leq

LEMMA LeqTransitive ==
  ASSUME NEW x \in Writes, NEW y \in Writes, NEW z \in Writes, Leq(x, y), Leq(y, z)
  PROVE  Leq(x, z)
BY DEF Leq, Writes

(* LwwField::merge keeps the greater of the two. *)
LEMMA JoinIs ==
  ASSUME NEW x \in Writes, NEW y \in Writes
  PROVE  Join(x, y) = IF Leq(y, x) THEN x ELSE y
BY DEF Join, Leq

LEMMA JoinBounds ==
  ASSUME NEW x \in Writes, NEW y \in Writes
  PROVE  Join(x, y) \in Writes /\ Leq(x, Join(x, y)) /\ Leq(y, Join(x, y))
BY JoinIs, LeqOrder

(* Joining what is already ahead changes nothing. *)
LEMMA JoinAhead ==
  ASSUME NEW x \in Writes, NEW y \in Writes
  PROVE  /\ Leq(x, y) => Join(x, y) = y
         /\ Leq(y, x) => Join(x, y) = x
BY JoinIs, LeqOrder

LEMMA StartLeast == Start \in Writes /\ \A x \in Writes : Leq(Start, x) /\ (Leq(x, Start) => x = Start)
<1>1. Start \in Writes /\ \A x \in Writes : Leq(Start, x)
  BY DEF Start, Writes, Leq
<1> QED BY <1>1, LeqOrder

(* A stored state is a write. *)
LEMMA StatesAreWrites ==
  ASSUME NEW x \in RegisterStates
  PROVE  x \in Writes
BY EncodingAssumption DEF RegisterStates, Writes

-----------------------------------------------------------------------------
(* Bytes and blocks. *)

LEMMA WireBytes ==
  ASSUME SameBytes, NEW k \in Wire
  PROVE  /\ k \in DOMAIN Reads /\ k \in Nat /\ k > 0 /\ Reads[k] \in Written
         /\ Reads[k] # Null /\ Encode[Reads[k]] = k /\ Stored[Reads[k]] = k /\ Reencode[k] = k
<1>1. PICK v \in Written : k = Encode[v]
  BY DEF Wire
<1>2. v \in Values /\ v # Null /\ Stored[v] = k /\ k # 0 /\ Reads[k] = v /\ Reencode[k] = k
  BY <1>1, EncodingAssumption, Zenon DEF SameBytes
<1>3. k \in DOMAIN Reads
  BY <1>1, <1>2, EncodingAssumption
<1>4. k \in Nat /\ k > 0
  BY <1>2, <1>3, EncodingAssumption
<1> QED BY <1>1, <1>2, <1>3, <1>4, Zenon

LEMMA BlockWrites ==
  ASSUME NEW bs, Blocks(bs), NEW b \in DOMAIN bs
  PROVE  /\ b \in Nat /\ b > 0 /\ bs[b] \in BlockType /\ BlockIs(b, bs[b])
         /\ Of(bs, b) \in Writes /\ Of(bs, b).pri = bs[b].pri /\ Of(bs, b).bytes = bs[b].bytes
<1>1. bs \in Seq(BlockType) /\ BlockIs(b, bs[b])
  BY Zenon DEF Blocks
<1>2. b \in Nat /\ b > 0 /\ bs[b] \in BlockType
  BY <1>1
<1>3. bs[b].pri \in Nat /\ bs[b].bytes \in Nat
  BY <1>2, Zenon DEF BlockType
<1> QED BY <1>1, <1>2, <1>3 DEF Of, Writes

(* The state a block carries is one the stores can hold. *)
LEMMA BlockStates ==
  ASSUME SameBytes, NEW bs, Blocks(bs), NEW b \in DOMAIN bs
  PROVE  Of(bs, b) \in RegisterStates
<1>1. bs[b].pri \in 0 .. MaxBlocks /\ bs[b].bytes \in DOMAIN Reads
  <2>1. BlockIs(b, bs[b]) /\ bs[b].pri \in Nat
    BY BlockWrites, Zenon DEF BlockType
  <2>2. bs[b].pri \in 0 .. MaxBlocks
    BY <2>1, EncodingAssumption DEF BlockIs
  <2>3. CASE bs[b].pri = 0
    BY <2>1, <2>2, <2>3, EncodingAssumption, Zenon DEF BlockIs
  <2>4. CASE bs[b].pri > 0
    BY <2>1, <2>2, <2>4, WireBytes, Zenon DEF BlockIs
  <2> QED BY <2>1, <2>2, <2>3, <2>4
<1> QED BY <1>1, Zenon DEF Of, RegisterStates

(* HeadPriority of blocks with a winner is the winner's. *)
LEMMA WinnerLeads ==
  ASSUME NEW bs, Blocks(bs), NEW S \in SUBSET DOMAIN bs, NEW w, Best(bs, w, S)
  PROVE  Max({0} \cup {bs[b].pri : b \in S}) = bs[w].pri
<1> DEFINE T == {0} \cup {bs[b].pri : b \in S}
<1>1. w \in S /\ bs[w].pri \in T /\ bs[w].pri \in Nat
  BY BlockWrites, Zenon DEF Best, BlockType
<1>2. \A b \in S : bs[b].pri \in Nat /\ bs[b].pri <= bs[w].pri
  <2> TAKE b \in S
  <2>1. Leq(Of(bs, b), Of(bs, w))
    BY Zenon DEF Best
  <2>2. Of(bs, b).pri = bs[b].pri /\ Of(bs, w).pri = bs[w].pri /\ bs[b].pri \in Nat
    BY <1>1, BlockWrites, Zenon DEF BlockType
  <2> QED BY <1>1, <2>1, <2>2 DEF Leq
<1>3. \A y \in T : y \in Nat /\ bs[w].pri >= y
  BY <1>1, <1>2
<1>4. \A x \in T : (\A y \in T : x >= y) => x = bs[w].pri
  BY <1>1, <1>3
<1>5. Max(T) = CHOOSE x \in T : \A y \in T : x >= y
  BY Zenon DEF Max
<1> QED BY <1>1, <1>3, <1>4, <1>5, Zenon

(* The winner once a block joined: the greater of the two. *)
LEMMA WinnerJoins ==
  ASSUME NEW bs, Blocks(bs), NEW S \in SUBSET DOMAIN bs, NEW w, Best(bs, w, S),
         NEW b \in DOMAIN bs
  PROVE  \E u \in S \cup {b} : /\ Best(bs, u, S \cup {b})
                               /\ Of(bs, u) = Join(Of(bs, w), Of(bs, b))
<1>1. w \in S /\ w \in DOMAIN bs /\ Of(bs, w) \in Writes /\ Of(bs, b) \in Writes
  BY BlockWrites, Zenon DEF Best
<1>2. \A c \in S : Of(bs, c) \in Writes /\ Leq(Of(bs, c), Of(bs, w))
  BY BlockWrites, Zenon DEF Best
<1>3. CASE Leq(Of(bs, b), Of(bs, w))
  <2>1. Of(bs, w) = Join(Of(bs, w), Of(bs, b))
    BY <1>1, <1>3, JoinAhead, Zenon
  <2>2. Best(bs, w, S \cup {b})
    BY <1>1, <1>2, <1>3, Zenon DEF Best
  <2> QED BY <1>1, <2>1, <2>2, Zenon
<1>4. CASE ~Leq(Of(bs, b), Of(bs, w))
  <2>1. Leq(Of(bs, w), Of(bs, b)) /\ Leq(Of(bs, b), Of(bs, b))
    BY <1>1, <1>4, LeqOrder, Zenon
  <2>2. Of(bs, b) = Join(Of(bs, w), Of(bs, b))
    BY <1>1, <2>1, JoinAhead, Zenon
  <2>3. \A c \in S : Leq(Of(bs, c), Of(bs, b))
    BY <1>1, <1>2, <2>1, LeqTransitive, Zenon
  <2>4. Best(bs, b, S \cup {b})
    BY <2>1, <2>3, Zenon DEF Best
  <2> QED BY <2>2, <2>4, Zenon
<1> QED BY <1>3, <1>4, Zenon

LEMMA AloneWins ==
  ASSUME NEW bs, Blocks(bs), NEW b \in DOMAIN bs
  PROVE  Best(bs, b, {b})
BY BlockWrites, LeqOrder, Zenon DEF Best

(* Two winners of the same blocks are the same write. *)
LEMMA OneWinner ==
  ASSUME NEW bs, Blocks(bs), NEW S \in SUBSET DOMAIN bs, NEW w, NEW u,
         Best(bs, w, S), Best(bs, u, S)
  PROVE  Of(bs, w) = Of(bs, u)
<1>1. Of(bs, w) \in Writes /\ Of(bs, u) \in Writes
  BY BlockWrites, Zenon DEF Best
<1>2. Leq(Of(bs, w), Of(bs, u)) /\ Leq(Of(bs, u), Of(bs, w))
  BY Zenon DEF Best
<1> QED BY <1>1, <1>2, LeqOrder, Zenon

-----------------------------------------------------------------------------
(* A block more changes nothing of the ones there. *)

Extends(more, bs) ==
  DOMAIN bs \subseteq DOMAIN more /\ \A b \in DOMAIN bs : more[b] = bs[b]

LEMMA BestExtends ==
  ASSUME NEW bs, NEW more, Extends(more, bs), NEW S \in SUBSET DOMAIN bs, NEW w \in S
  PROVE  Best(more, w, S) <=> Best(bs, w, S)
<1>1. \A c \in S : Of(more, c) = Of(bs, c)
  BY Zenon DEF Extends, Of
<1> QED BY <1>1, Zenon DEF Best

LEMMA ReplicaExtends ==
  ASSUME NEW bs, NEW more, Extends(more, bs),
         NEW M, NEW P, NEW V, NEW R, NEW X, NEW N, Replica(bs, M, P, V, R, X, N)
  PROVE  Replica(more, M, P, V, R, X, N)
<1>1. M \in SUBSET DOMAIN bs /\ N \in SUBSET DOMAIN bs
  BY Zenon DEF Replica, ReplicaTypes
<1>2. ReplicaTypes(more, M, P, V, R, X, N)
  BY Zenon DEF Replica, ReplicaTypes, Extends
<1>3. Snapshot(more, N)
  <2>1. Snapshot(bs, N)
    BY Zenon DEF Replica
  <2> QED BY <1>1, <2>1, BestExtends, Zenon DEF Snapshot
<1>4. ASSUME M # {} PROVE \E w \in M : Wins(more, M, P, R, w)
  <2>1. PICK w \in M : Wins(bs, M, P, R, w)
    BY <1>4, Zenon DEF Replica
  <2>2. Best(more, w, M)
    BY <1>1, <2>1, BestExtends, Zenon DEF Wins
  <2>3. Of(more, w) = Of(bs, w)
    BY <1>1, <2>1, Zenon DEF Extends, Of
  <2> QED BY <2>1, <2>2, <2>3, Zenon DEF Wins
<1> QED BY <1>2, <1>3, <1>4, Zenon DEF Replica

(* Append's effect. *)
LEMMA AppendExtends ==
  ASSUME NEW bs, Blocks(bs), NEW block \in BlockType, BlockIs(Len(bs) + 1, block)
  PROVE  /\ Blocks(Append(bs, block)) /\ Extends(Append(bs, block), bs)
         /\ Len(bs) + 1 \in DOMAIN Append(bs, block)
         /\ Append(bs, block)[Len(bs) + 1] = block
<1>1. bs \in Seq(BlockType)
  BY Zenon DEF Blocks
<1>2. Append(bs, block) \in Seq(BlockType) /\ Len(bs) \in Nat
  BY <1>1
<1>3. DOMAIN Append(bs, block) = 1 .. (Len(bs) + 1) /\ DOMAIN bs = 1 .. Len(bs)
  BY <1>1
<1>4. \A b \in DOMAIN bs : Append(bs, block)[b] = bs[b]
  BY <1>1
<1>5. Append(bs, block)[Len(bs) + 1] = block
  BY <1>1
<1>6. Extends(Append(bs, block), bs) /\ Len(bs) + 1 \in DOMAIN Append(bs, block)
  BY <1>2, <1>3, <1>4 DEF Extends
<1>7. \A b \in DOMAIN Append(bs, block) : b \in DOMAIN bs \/ b = Len(bs) + 1
  BY <1>2, <1>3
<1>8. \A b \in DOMAIN Append(bs, block) : BlockIs(b, Append(bs, block)[b])
  BY <1>4, <1>5, <1>7, Zenon DEF Blocks
<1> QED BY <1>2, <1>5, <1>6, <1>8, Zenon DEF Blocks

LEMMA SameExtends ==
  ASSUME NEW bs
  PROVE  Extends(bs, bs)
BY Zenon DEF Extends

(* A step of one replica keeps what is known of the others. *)
LEMMA OthersKeep ==
  ASSUME IInv, NEW r \in Replicas, Blocks(blocks'), Extends(blocks', blocks), OneEach',
         \A s \in Replicas \ {r} :
           /\ merged'[s] = merged[s] /\ part'[s] = part[s] /\ version'[s] = version[s]
           /\ register'[s] = register[s] /\ index'[s] = index[s] /\ snap'[s] = snap[s],
         ReplicaIs(r)'
  PROVE  IInv'
<1>1. ASSUME NEW s \in Replicas, s # r PROVE ReplicaIs(s)'
  <2>1. Replica(blocks, merged[s], part[s], version[s], register[s], index[s], snap[s])
    BY Zenon DEF IInv, ReplicaIs
  <2>2. Replica(blocks', merged[s], part[s], version[s], register[s], index[s], snap[s])
    BY <2>1, ReplicaExtends, Zenon
  <2>3. /\ merged'[s] = merged[s] /\ part'[s] = part[s] /\ version'[s] = version[s]
        /\ register'[s] = register[s] /\ index'[s] = index[s] /\ snap'[s] = snap[s]
    BY <1>1, Zenon
  <2> QED BY <2>2, <2>3, Zenon DEF ReplicaIs
<1> QED BY <1>1, Zenon DEF IInv
-----------------------------------------------------------------------------
(* What the part holds, and how a block joins it. *)

(* The part has the winner's bytes, and is the winner when that writes the    *)
(* field.                                                                     *)
LEMMA PartHolds ==
  ASSUME SameBytes, NEW bs, Blocks(bs), NEW w \in DOMAIN bs, NEW P, PartIs(P, Of(bs, w))
  PROVE  /\ P.bytes = bs[w].bytes
         /\ bs[w].pri = 0 => P.bytes = 0 /\ P.pri \in {0, 1} /\ Of(bs, w) = Start
         /\ bs[w].pri # 0 => P = Of(bs, w) /\ P.bytes \in Wire
<1>1. BlockIs(w, bs[w]) /\ Of(bs, w).pri = bs[w].pri /\ Of(bs, w).bytes = bs[w].bytes
  BY BlockWrites, Zenon
<1>2. CASE bs[w].pri = 0
  <2>1. bs[w].bytes = 0
    BY <1>1, <1>2, Zenon DEF BlockIs
  <2>2. P.bytes = 0 /\ P.pri \in {0, 1}
    BY <1>1, <1>2, Zenon DEF PartIs
  <2>3. Of(bs, w) = Start
    BY <1>2, <2>1, Zenon DEF Of, Start
  <2> QED BY <1>2, <2>1, <2>2, <2>3, Zenon
<1>3. CASE bs[w].pri # 0
  <2>1. P = Of(bs, w)
    BY <1>1, <1>3, Zenon DEF PartIs
  <2>2. bs[w].pri > 0
    <3>1. bs[w].pri \in Nat
      BY BlockWrites, Zenon DEF BlockType
    <3> QED BY <1>3, <3>1
  <2>3. bs[w].bytes \in Wire
    BY <1>1, <2>2, Zenon DEF BlockIs
  <2> QED BY <1>1, <1>3, <2>1, <2>3, Zenon
<1> QED BY <1>2, <1>3, Zenon

(* Joining a write into the part is joining it to the winner. *)
LEMMA PartJoins ==
  ASSUME SameBytes, NEW bs, Blocks(bs), NEW w \in DOMAIN bs,
         NEW P \in Writes, PartIs(P, Of(bs, w)),
         NEW y \in Writes, y.pri > 0, y.bytes > 0
  PROVE  Join(P, y) = Join(Of(bs, w), y)
<1>1. CASE bs[w].pri = 0
  <2>1. P.bytes = 0 /\ P.pri \in {0, 1} /\ Of(bs, w) = Start
    BY <1>1, PartHolds, Zenon
  <2>2. Join(P, y) = y
    BY <2>1 DEF Join, Writes
  <2>3. Join(Start, y) = y
    BY DEF Join, Start, Writes
  <2> QED BY <2>1, <2>2, <2>3, Zenon
<1>2. CASE bs[w].pri # 0
  BY <1>2, PartHolds, Zenon
<1> QED BY <1>1, <1>2, Zenon

(* Q is the winner of the blocks of S. *)
WonBy(bs, S, Q) == \E u \in S : Best(bs, u, S) /\ Of(bs, u) = Q

(* The winner once a block that writes the field joined. *)
LEMMA BlockJoins ==
  ASSUME SameBytes, NEW bs, NEW more, Blocks(bs), Blocks(more), Extends(more, bs),
         NEW M \in SUBSET DOMAIN bs, NEW w, Best(bs, w, M),
         NEW b \in DOMAIN more, more[b].pri > 0,
         NEW Q, Q = Join(Of(bs, w), Of(more, b))
  PROVE  /\ WonBy(more, M \cup {b}, Q)
         /\ Q \in RegisterStates /\ Q \in Writes /\ Leq(Of(bs, w), Q)
         /\ Q.pri > 0 /\ Q.bytes \in Wire /\ Q.bytes > 0 /\ PartIs(Q, Q)
<1>1. /\ w \in M /\ w \in DOMAIN bs /\ w \in DOMAIN more /\ Of(more, w) = Of(bs, w)
      /\ M \in SUBSET DOMAIN more
  BY Zenon DEF Best, Extends, Of
<1>2. Best(more, w, M)
  BY <1>1, BestExtends, Zenon
<1>3. PICK u \in M \cup {b} : /\ Best(more, u, M \cup {b})
                              /\ Of(more, u) = Join(Of(more, w), Of(more, b))
  BY <1>1, <1>2, WinnerJoins, Zenon
<1>4. Of(more, u) = Q /\ u \in DOMAIN more
  BY <1>1, <1>3, Zenon
<1>5. /\ Of(more, w) \in Writes /\ Of(more, b) \in Writes /\ Of(more, b).pri = more[b].pri
      /\ Of(more, u).pri = more[u].pri /\ Of(more, u).bytes = more[u].bytes /\ BlockIs(u, more[u])
  BY <1>1, <1>4, BlockWrites, Zenon
<1>6. Q \in RegisterStates /\ Q \in Writes
  BY <1>4, BlockStates, StatesAreWrites, Zenon
<1>7. Leq(Of(more, w), Q) /\ Leq(Of(more, b), Q)
  BY <1>1, <1>5, JoinBounds, Zenon
<1>8. Q.pri > 0 /\ Q.pri # 0
  BY <1>5, <1>6, <1>7 DEF Leq, Writes
<1>9. Q.bytes \in Wire
  BY <1>4, <1>5, <1>8, Zenon DEF BlockIs
<1>10. Q.bytes > 0
  BY <1>9, WireBytes, Zenon
<1>11. PartIs(Q, Q)
  BY <1>8, Zenon DEF PartIs
<1> QED BY <1>1, <1>3, <1>4, <1>6, <1>7, <1>8, <1>9, <1>10, <1>11, Zenon DEF WonBy

(* Registers that were not ahead of the winner are not ahead of a greater one. *)
LEMMA RegistersBehind ==
  ASSUME NEW R \in [Versions -> RegisterStates], NEW x \in Writes, NEW Q \in Writes,
         Leq(x, Q), Behind(R, x), NEW ver \in Versions
  PROVE  Behind(R, Q) /\ Behind([R EXCEPT ![ver] = Q], Q)
<1>1. ASSUME NEW v \in Versions PROVE Leq(R[v], Q) /\ Leq([R EXCEPT ![ver] = Q][v], Q)
  <2>1. R[v] \in Writes
    BY StatesAreWrites, Zenon
  <2>2. Leq(R[v], Q)
    BY <2>1, LeqTransitive, Zenon DEF Behind
  <2>3. Leq(Q, Q)
    BY LeqOrder, Zenon
  <2>4. [R EXCEPT ![ver] = Q][v] = R[v] \/ [R EXCEPT ![ver] = Q][v] = Q
    BY Zenon
  <2> QED BY <2>2, <2>3, <2>4, Zenon
<1> QED BY <1>1, Zenon DEF Behind

(* The winner's bytes are the part's, and the registers are behind it. *)
LEMMA WonWins ==
  ASSUME NEW bs, NEW S, NEW Q, WonBy(bs, S, Q), PartIs(Q, Q), NEW R, Behind(R, Q)
  PROVE  \E u \in S : Wins(bs, S, Q, R, u)
BY Zenon DEF WonBy, Wins
-----------------------------------------------------------------------------
(* The steps. *)

LEMMA InitInv == Init => IInv
<1> SUFFICES ASSUME Init PROVE IInv
  OBVIOUS
<1>1. Blocks(blocks)
  <2>1. blocks = <<>> /\ blocks \in Seq(BlockType) /\ DOMAIN blocks = {}
    BY DEF Init
  <2> QED BY <2>1, Zenon DEF Blocks
<1>2. OneEach
  BY Zenon DEF Init, OneEach
<1>3. ASSUME NEW r \in Replicas PROVE ReplicaIs(r)
  <2>1. /\ merged[r] = {} /\ part[r] = Start /\ version[r] = NoVersion
        /\ register[r] = [v \in Versions |-> Start] /\ index[r] = {} /\ snap[r] = {}
    BY Zenon DEF Init
  <2>2. Start \in RegisterStates
    BY EncodingAssumption DEF Start, RegisterStates
  <2>3. [v \in Versions |-> Start] \in [Versions -> RegisterStates]
    BY <2>2, Zenon
  <2>4. ReplicaTypes(blocks, {}, Start, NoVersion, [v \in Versions |-> Start], {}, {})
    BY <2>2, <2>3, Zenon DEF ReplicaTypes
  <2>5. Snapshot(blocks, {}) /\ Fresh({}, Start, NoVersion, [v \in Versions |-> Start])
    BY Zenon DEF Snapshot, Fresh
  <2>6. Replica(blocks, {}, Start, NoVersion, [v \in Versions |-> Start], {}, {})
    BY <2>4, <2>5, Zenon DEF Replica
  <2> QED BY <2>1, <2>6, Zenon DEF ReplicaIs
<1> QED BY <1>1, <1>2, <1>3, Zenon DEF IInv

(* What the invariant says of one replica. *)
LEMMA Row ==
  ASSUME IInv, NEW r \in Replicas
  PROVE  /\ ReplicaTypes(blocks, merged[r], part[r], version[r], register[r], index[r], snap[r])
         /\ Snapshot(blocks, snap[r]) /\ Fresh(merged[r], part[r], version[r], register[r])
         /\ merged[r] # {} => \E w \in merged[r] : Wins(blocks, merged[r], part[r], register[r], w)
         /\ Indexed /\ merged[r] # {} => index[r] = {Reads[part[r].bytes]}
BY Zenon DEF IInv, ReplicaIs, Replica

LEMMA BeginKeeps ==
  ASSUME IInv, NEW r \in Replicas, Begin(r)
  PROVE  IInv'
<1>1. /\ merged[r] # {} /\ Len(blocks) < MaxBlocks /\ snap' = [snap EXCEPT ![r] = merged[r]]
      /\ UNCHANGED <<blocks, merged, part, version, register, index>>
  BY Zenon DEF Begin, Exists
<1>2. Blocks(blocks') /\ Extends(blocks', blocks)
  BY <1>1, SameExtends, Zenon DEF IInv
<1>3. OneEach' /\ snap'[r] = merged[r] /\ \A s \in Replicas \ {r} : snap'[s] = snap[s]
  BY <1>1, Zenon DEF IInv, OneEach
<1>4. merged[r] \subseteq 1 .. (MaxBlocks - 1)
  <2>1. merged[r] \subseteq DOMAIN blocks
    BY Row, Zenon DEF ReplicaTypes
  <2>2. DOMAIN blocks = 1 .. Len(blocks) /\ Len(blocks) \in Nat
    BY DEF IInv, Blocks
  <2> QED BY <1>1, <2>1, <2>2, EncodingAssumption
<1>5. ReplicaTypes(blocks, merged[r], part[r], version[r], register[r], index[r], merged[r])
  BY <1>4, Row, Zenon DEF ReplicaTypes
<1>6. Snapshot(blocks, merged[r])
  BY <1>1, Row, Zenon DEF Wins, Snapshot
<1>7. Replica(blocks, merged[r], part[r], version[r], register[r], index[r], merged[r])
  BY <1>5, <1>6, Row, Zenon DEF Replica
<1>8. ReplicaIs(r)'
  BY <1>1, <1>3, <1>7, Zenon DEF ReplicaIs
<1> QED BY <1>1, <1>2, <1>3, <1>8, OthersKeep, Zenon

(* A document put whole keeps the part: the winner's bytes read as its value, *)
(* and the value is stored as these bytes at the priority of the heads.       *)
LEMMA PutWholeKeeps ==
  ASSUME SameBytes, IInv, NEW r \in Replicas, NEW ver \in Versions, PutWhole(r, ver)
  PROVE  IInv'
<1> DEFINE P == [pri |-> HeadPriority(merged[r]), bytes |-> Stored[Value(r)]]
<1>1. /\ merged[r] # {} /\ part' = [part EXCEPT ![r] = P]
      /\ version' = [version EXCEPT ![r] = ver]
      /\ UNCHANGED <<blocks, merged, register, index, snap>>
  BY Zenon DEF PutWhole, Exists
<1>2. Blocks(blocks) /\ Blocks(blocks') /\ Extends(blocks', blocks)
  BY <1>1, SameExtends, Zenon DEF IInv
<1>3. /\ OneEach' /\ part'[r] = P /\ version'[r] = ver
      /\ \A s \in Replicas \ {r} : part'[s] = part[s] /\ version'[s] = version[s]
  BY <1>1, Zenon DEF IInv, OneEach
<1>4. PICK w \in merged[r] : Wins(blocks, merged[r], part[r], register[r], w)
  BY <1>1, Row, Zenon
<1>5. merged[r] \in SUBSET DOMAIN blocks /\ w \in DOMAIN blocks
  BY <1>4, Row, Zenon DEF ReplicaTypes
<1>6. HeadPriority(merged[r]) = blocks[w].pri
  BY <1>2, <1>4, <1>5, WinnerLeads, Zenon DEF HeadPriority, Wins
<1>7. P = Of(blocks, w) /\ P.bytes = part[r].bytes
  <2>1. PartIs(part[r], Of(blocks, w))
    BY <1>4, Zenon DEF Wins
  <2>2. part[r].bytes = blocks[w].bytes
    BY <1>2, <1>5, <2>1, PartHolds, Zenon
  <2>3. Stored[Reads[part[r].bytes]] = part[r].bytes
    <3>1. CASE blocks[w].pri = 0
      <4>1. part[r].bytes = 0
        BY <1>2, <1>5, <2>1, <3>1, PartHolds, Zenon
      <4> QED BY <4>1, EncodingAssumption, Zenon
    <3>2. CASE blocks[w].pri # 0
      <4>1. part[r].bytes \in Wire
        BY <1>2, <1>5, <2>1, <3>2, PartHolds, Zenon
      <4> QED BY <4>1, WireBytes, Zenon
    <3> QED BY <3>1, <3>2, Zenon
  <2>4. Stored[Value(r)] = part[r].bytes
    BY <2>3, Zenon DEF Value
  <2> QED BY <1>6, <2>2, <2>4, Zenon DEF Of
<1>8. P \in RegisterStates
  BY <1>2, <1>5, <1>7, BlockStates, Zenon
<1> HIDE DEF P
<1>9. ReplicaTypes(blocks, merged[r], P, ver, register[r], index[r], snap[r])
  BY <1>8, Row, Zenon DEF ReplicaTypes
<1>10. PartIs(P, Of(blocks, w))
  <2>1. CASE Of(blocks, w).pri = 0
    <3>1. P.bytes = 0 /\ P.pri = 0
      <4>1. Of(blocks, w) = Start
        <5>1. blocks[w].pri = 0
          BY <1>2, <1>5, <2>1, BlockWrites, Zenon
        <5> QED BY <1>2, <1>4, <1>5, <5>1, PartHolds, Zenon DEF Wins
      <4>2. Start.pri = 0 /\ Start.bytes = 0
        BY DEF Start
      <4> QED BY <1>7, <4>1, <4>2, Zenon
    <3> QED BY <2>1, <3>1, Zenon DEF PartIs
  <2>2. CASE Of(blocks, w).pri # 0
    BY <1>7, <2>2, Zenon DEF PartIs
  <2> QED BY <2>1, <2>2, Zenon
<1>11. Wins(blocks, merged[r], P, register[r], w)
  BY <1>4, <1>10, Zenon DEF Wins
<1>12. Snapshot(blocks, snap[r]) /\ Fresh(merged[r], P, ver, register[r])
  BY <1>1, Row, Zenon DEF Fresh
<1>13. Indexed => index[r] = {Reads[P.bytes]}
  BY <1>1, <1>7, Row, Zenon
<1>14. Replica(blocks, merged[r], P, ver, register[r], index[r], snap[r])
  BY <1>4, <1>9, <1>11, <1>12, <1>13, Zenon DEF Replica
<1>15. ReplicaIs(r)'
  BY <1>1, <1>3, <1>14, Zenon DEF ReplicaIs
<1> QED BY <1>1, <1>2, <1>3, <1>15, OthersKeep, Zenon

(* The index after a value was set: the one entry there was is replaced. *)
LEMMA ReindexedIs ==
  ASSUME IInv, NEW r \in Replicas, NEW v
  PROVE  /\ Indexed => Reindexed(r, v) = {v}
         /\ Reindexed(r, v) \subseteq {v}
<1>1. CASE Indexed /\ Exists(r)
  <2>1. index[r] = {Value(r)}
    BY <1>1, Row, Zenon DEF Exists, Value
  <2>2. Reindexed(r, v) = (index[r] \ {Value(r)}) \cup {v}
    BY <1>1, Zenon DEF Reindexed
  <2>3. ({Value(r)} \ {Value(r)}) \cup {v} = {v}
    BY Zenon
  <2> QED BY <2>1, <2>2, <2>3, Zenon
<1>2. CASE ~Indexed \/ ~Exists(r)
  BY <1>2, Zenon DEF Reindexed
<1> QED BY <1>1, <1>2, Zenon

(* The first block: everywhere else the document is not there yet. *)
LEMMA CreateKeeps ==
  ASSUME SameBytes, IInv, NEW r \in Replicas, NEW v \in Written \cup {Null},
         NEW ver \in Versions, Create(r, v, ver)
  PROVE  IInv'
<1> DEFINE block == IF v = Null THEN [pri |-> 0, bytes |-> 0, ver |-> ver, past |-> {}]
                    ELSE [pri |-> 1, bytes |-> Encode[v], ver |-> ver, past |-> {}]
           P == [pri |-> 1, bytes |-> Stored[v]]
<1>1. /\ blocks = <<>> /\ blocks' = <<block>>
      /\ merged' = [merged EXCEPT ![r] = {1}] /\ part' = [part EXCEPT ![r] = P]
      /\ version' = [version EXCEPT ![r] = ver]
      /\ index' = [index EXCEPT ![r] = Reindexed(r, v)] /\ UNCHANGED <<register, snap>>
  BY Zenon DEF Create
<1>2. v # Null => Encode[v] \in Wire /\ Encode[v] \in DOMAIN Reads /\ Stored[v] = Encode[v]
                  /\ Reads[Encode[v]] = v
  <2>1. v # Null => v \in Written
    BY Zenon
  <2>2. v # Null => Encode[v] \in Wire
    BY <2>1, Zenon DEF Wire
  <2> QED BY <2>1, <2>2, WireBytes, Zenon DEF SameBytes
<1>3. block.pri = (IF v = Null THEN 0 ELSE 1) /\ block.bytes = (IF v = Null THEN 0 ELSE Encode[v])
      /\ block.ver = ver /\ block.past = {}
  BY Zenon
<1>4. block \in BlockType
  <2>1. CASE v = Null
    BY <2>1 DEF BlockType
  <2>2. CASE v # Null
    <3>1. Encode[v] \in Nat
      BY <1>2, <2>2, WireBytes, Zenon
    <3> QED BY <2>2, <3>1 DEF BlockType
  <2> QED BY <2>1, <2>2, Zenon
<1>5. BlockIs(1, block)
  <2>1. CASE v = Null
    <3>1. block.pri = 0 /\ block.bytes = 0 /\ block.past = {}
      BY <1>3, <2>1, Zenon
    <3> HIDE DEF block
    <3> QED BY <3>1, EncodingAssumption DEF BlockIs
  <2>2. CASE v # Null
    <3>1. block.pri = 1 /\ block.bytes \in Wire /\ block.past = {}
      BY <1>2, <1>3, <2>2, Zenon
    <3> HIDE DEF block
    <3> QED BY <3>1, EncodingAssumption DEF BlockIs
  <2> QED BY <2>1, <2>2, Zenon
<1>6. /\ blocks' \in Seq(BlockType) /\ DOMAIN blocks' = {1} /\ blocks'[1] = block
      /\ DOMAIN blocks = {}
  <2> HIDE DEF block
  <2> QED BY <1>1, <1>4
<1>7. Blocks(blocks') /\ Extends(blocks', blocks)
  <2> HIDE DEF block
  <2> QED BY <1>5, <1>6, Zenon DEF Blocks, Extends
<1>8. /\ OneEach' /\ merged'[r] = {1} /\ part'[r] = P /\ version'[r] = ver
      /\ index'[r] = Reindexed(r, v)
      /\ \A s \in Replicas \ {r} : /\ merged'[s] = merged[s] /\ part'[s] = part[s]
                                   /\ version'[s] = version[s] /\ index'[s] = index[s]
  BY <1>1, Zenon DEF IInv, OneEach
<1>9. merged[r] = {} /\ snap[r] = {}
  BY <1>6, Row, Zenon DEF ReplicaTypes
<1>10. /\ register[r] = [q \in Versions |-> Start] /\ register[r] \in [Versions -> RegisterStates]
       /\ \A q \in Versions : register[r][q] = Start
  <2>1. register[r] = [q \in Versions |-> Start]
    BY <1>9, Row, Zenon DEF Fresh
  <2>2. register[r] \in [Versions -> RegisterStates]
    BY Row, Zenon DEF ReplicaTypes
  <2> QED BY <2>1, <2>2, Zenon
<1>11. P.bytes = (IF v = Null THEN 0 ELSE Encode[v]) /\ P.pri = 1 /\ Reads[P.bytes] = v
  <2>1. P.bytes = Stored[v] /\ P.pri = 1
    BY Zenon
  <2> HIDE DEF P
  <2> QED BY <1>2, <2>1, EncodingAssumption, Zenon
<1>12. P \in RegisterStates
  <2>1. P.bytes \in DOMAIN Reads
    BY <1>2, <1>11, EncodingAssumption, Zenon
  <2>2. 1 \in 0 .. MaxBlocks
    BY EncodingAssumption
  <2> QED BY <2>1, <2>2, Zenon DEF RegisterStates
<1>13. v \in Values
  BY EncodingAssumption, Zenon
<1>14. ReplicaTypes(blocks', {1}, P, ver, register[r], Reindexed(r, v), {})
  <2> HIDE DEF P, block
  <2>1. Reindexed(r, v) \subseteq {v}
    BY ReindexedIs, Zenon
  <2>2. Reindexed(r, v) \subseteq Values
    BY <1>13, <2>1, Zenon
  <2> QED BY <1>6, <1>10, <1>12, <2>2, Zenon DEF ReplicaTypes
<1>15. Wins(blocks', {1}, P, register[r], 1)
  <2> HIDE DEF block
  <2>1. Best(blocks', 1, {1}) /\ Of(blocks', 1) \in Writes
    BY <1>6, <1>7, AloneWins, BlockWrites, Zenon
  <2>2. Behind(register[r], Of(blocks', 1))
    BY <1>10, <2>1, StartLeast, Zenon DEF Behind
  <2>3. Of(blocks', 1) = [pri |-> block.pri, bytes |-> block.bytes]
    BY <1>6, Zenon DEF Of
  <2>4. PartIs(P, Of(blocks', 1))
    <3>1. CASE v = Null
      <4>1. Of(blocks', 1).pri = 0
        <5>1. block.pri = 0
          BY <1>3, <3>1, Zenon
        <5>2. Of(blocks', 1).pri = block.pri
          BY <1>6, <1>7, BlockWrites, Zenon
        <5> QED BY <5>1, <5>2, Zenon
      <4>2. P.bytes = 0 /\ P.pri = 1
        BY <1>11, <3>1, Zenon
      <4> QED BY <4>1, <4>2, Zenon DEF PartIs
    <3>2. CASE v # Null
      <4>1. Of(blocks', 1) = [pri |-> 1, bytes |-> Encode[v]]
        BY <1>3, <2>3, <3>2, Zenon
      <4>2. P = Of(blocks', 1)
        BY <1>2, <3>2, <4>1, Zenon
      <4>3. Of(blocks', 1).pri # 0
        BY <4>1
      <4> QED BY <4>2, <4>3, Zenon DEF PartIs
    <3> QED BY <3>1, <3>2, Zenon
  <2> QED BY <2>1, <2>2, <2>4, Zenon DEF Wins
<1>16. Indexed => Reindexed(r, v) = {Reads[P.bytes]}
  BY <1>11, ReindexedIs, Zenon
<1>17. Replica(blocks', {1}, P, ver, register[r], Reindexed(r, v), {})
  <2> HIDE DEF P, block
  <2>1. Snapshot(blocks', {}) /\ Fresh({1}, P, ver, register[r])
    BY Zenon DEF Snapshot, Fresh
  <2> QED BY <1>14, <1>15, <1>16, <2>1, Zenon DEF Replica
<1>18. ReplicaIs(r)'
  <2> HIDE DEF P, block
  <2> QED BY <1>1, <1>8, <1>9, <1>17, Zenon DEF ReplicaIs
<1> QED BY <1>1, <1>7, <1>8, <1>18, OthersKeep, Zenon

(* A genesis that does not write the field leaves what was there. *)
LEMMA MergeAbsentKeeps ==
  ASSUME SameBytes, IInv, NEW r \in Replicas, MergeAbsent(r)
  PROVE  IInv'
<1>1. /\ blocks # <<>> /\ blocks[1].pri = 0 /\ merged[r] = {}
      /\ merged' = [merged EXCEPT ![r] = {1}]
      /\ version' = [version EXCEPT ![r] = blocks[1].ver]
      /\ index' = [index EXCEPT ![r] = Reindexed(r, Null)]
      /\ UNCHANGED <<blocks, part, register, snap>>
  BY Zenon DEF MergeAbsent, Exists
<1>2. Blocks(blocks) /\ Blocks(blocks') /\ Extends(blocks', blocks)
  BY <1>1, SameExtends, Zenon DEF IInv
<1>3. /\ OneEach' /\ merged'[r] = {1} /\ version'[r] = blocks[1].ver
      /\ index'[r] = Reindexed(r, Null)
      /\ \A s \in Replicas \ {r} : /\ merged'[s] = merged[s] /\ version'[s] = version[s]
                                   /\ index'[s] = index[s]
  BY <1>1, Zenon DEF IInv, OneEach
<1>4. 1 \in DOMAIN blocks
  BY <1>1, <1>2 DEF Blocks
<1>5. blocks[1].ver \in Versions /\ Of(blocks, 1) \in Writes /\ Of(blocks, 1).pri = 0
  BY <1>1, <1>2, <1>4, BlockWrites, Zenon DEF BlockType
<1>6. /\ snap[r] = {} /\ part[r] = Start /\ part[r] \in RegisterStates
      /\ register[r] = [q \in Versions |-> Start] /\ register[r] \in [Versions -> RegisterStates]
  BY <1>1, Row, Zenon DEF Fresh, ReplicaTypes
<1>7. Start.bytes = 0 /\ Start.pri = 0
  BY DEF Start
<1>8. Reindexed(r, Null) \subseteq Values
  <2>1. Reindexed(r, Null) \subseteq {Null}
    BY ReindexedIs, Zenon
  <2>2. Null \in Values
    BY EncodingAssumption, Zenon
  <2> QED BY <2>1, <2>2, Zenon
<1>9. ReplicaTypes(blocks, {1}, part[r], blocks[1].ver, register[r], Reindexed(r, Null), {})
  BY <1>4, <1>5, <1>6, <1>8, Zenon DEF ReplicaTypes
<1>10. Wins(blocks, {1}, part[r], register[r], 1)
  <2>1. Best(blocks, 1, {1})
    BY <1>2, <1>4, AloneWins, Zenon
  <2>2. Behind(register[r], Of(blocks, 1))
    BY <1>5, <1>6, StartLeast, Zenon DEF Behind
  <2>3. PartIs(part[r], Of(blocks, 1))
    BY <1>5, <1>6, <1>7, Zenon DEF PartIs
  <2> QED BY <2>1, <2>2, <2>3, Zenon DEF Wins
<1>11. Indexed => Reindexed(r, Null) = {Reads[part[r].bytes]}
  BY <1>6, <1>7, ReindexedIs, EncodingAssumption, Zenon
<1>12. Snapshot(blocks, {}) /\ Fresh({1}, part[r], blocks[1].ver, register[r])
  BY Zenon DEF Snapshot, Fresh
<1>13. Replica(blocks, {1}, part[r], blocks[1].ver, register[r], Reindexed(r, Null), {})
  BY <1>9, <1>10, <1>11, <1>12, Zenon DEF Replica
<1>14. ReplicaIs(r)'
  BY <1>1, <1>3, <1>6, <1>13, Zenon DEF ReplicaIs
<1> QED BY <1>1, <1>2, <1>3, <1>14, OthersKeep, Zenon

(* A local update's block is one the invariant allows: its priority is one    *)
(* more than the heads of a snapshot taken with a block to spare.             *)
LEMMA UpdateBlock ==
  ASSUME SameBytes, IInv, NEW r \in Replicas, NEW v \in Written, NEW ver \in Versions,
         snap[r] # {}
  PROVE  /\ NewBlock(r, v, ver) \in BlockType /\ BlockIs(Len(blocks) + 1, NewBlock(r, v, ver))
         /\ NewBlock(r, v, ver).pri > 0 /\ NewBlock(r, v, ver).bytes = Encode[v]
         /\ \E w \in snap[r] : /\ Best(blocks, w, snap[r])
                               /\ NewBlock(r, v, ver).pri = blocks[w].pri + 1
<1> DEFINE block == NewBlock(r, v, ver)
<1>1. PICK w \in snap[r] : Best(blocks, w, snap[r])
  BY Row, Zenon DEF Snapshot
<1>2. /\ Blocks(blocks) /\ snap[r] \in SUBSET DOMAIN blocks /\ w \in DOMAIN blocks
      /\ snap[r] \subseteq 1 .. (MaxBlocks - 1)
  BY Row, Zenon DEF IInv, ReplicaTypes
<1>3. HeadPriority(snap[r]) = blocks[w].pri
  BY <1>1, <1>2, WinnerLeads, Zenon DEF HeadPriority
<1>4. block = [pri |-> blocks[w].pri + 1, bytes |-> Encode[v], ver |-> ver, past |-> snap[r]]
  BY <1>3, Zenon DEF NewBlock
<1>5. block.pri = blocks[w].pri + 1 /\ block.bytes = Encode[v] /\ block.past = snap[r]
  BY <1>3, Zenon DEF NewBlock
<1>6. blocks[w].pri \in Nat /\ blocks[w].pri <= w /\ w \in Nat
  <2>1. BlockIs(w, blocks[w]) /\ blocks[w] \in BlockType /\ w \in Nat
    BY <1>2, BlockWrites, Zenon
  <2> QED BY <2>1 DEF BlockIs, BlockType
<1>7. Len(blocks) \in Nat /\ DOMAIN blocks = 1 .. Len(blocks)
  BY <1>2 DEF Blocks
<1>8. Encode[v] \in Wire /\ Encode[v] \in Nat
  BY WireBytes, Zenon DEF Wire
<1> HIDE DEF block
<1>9. block \in BlockType
  <2>1. blocks[w].pri + 1 \in Nat /\ snap[r] \in SUBSET Nat
    BY <1>2, <1>6, <1>7
  <2> QED BY <1>4, <1>8, <2>1, Zenon DEF BlockType
<1>10. block.pri > 0 /\ block.pri # 0 /\ block.pri \in 0 .. (Len(blocks) + 1) /\ block.pri <= MaxBlocks
  <2>1. w \in 1 .. Len(blocks) /\ w \in 1 .. (MaxBlocks - 1)
    BY <1>2, <1>7
  <2>2. block.pri = blocks[w].pri + 1 /\ MaxBlocks \in Nat
    BY <1>5, EncodingAssumption, Zenon
  <2> QED BY <1>6, <1>7, <2>1, <2>2
<1>11. block.past \subseteq 1 .. (Len(blocks) + 1 - 1) /\ block.past # {}
  BY <1>2, <1>5, <1>7
<1>12. BlockIs(Len(blocks) + 1, block)
  <2>1. block.bytes \in Wire
    BY <1>5, <1>8, Zenon
  <2> QED BY <1>10, <1>11, <2>1 DEF BlockIs
<1> QED BY <1>1, <1>5, <1>9, <1>10, <1>12, Zenon DEF block

(* A local update joins its block; where it does not join it into the part, it *)
(* saw every block there was, and is ahead of them.                            *)
LEMMA UpdateKeeps ==
  ASSUME SameBytes, IInv, NEW r \in Replicas, NEW v \in Written, NEW ver \in Versions,
         Update(r, v, ver)
  PROVE  IInv'
<1> DEFINE block == NewBlock(r, v, ver)
           new == [pri |-> block.pri, bytes |-> Stored[v]]
           b == Len(blocks) + 1
           P == IF version[r] = ver THEN Join(part[r], new) ELSE new
<1>1. /\ snap[r] # {} /\ (snap[r] = merged[r] \/ (~Indexed /\ version[r] = ver))
      /\ blocks' = Append(blocks, block)
      /\ merged' = [merged EXCEPT ![r] = merged[r] \cup {b}]
      /\ part' = [part EXCEPT ![r] = P]
      /\ version' = [version EXCEPT ![r] = ver]
      /\ index' = [index EXCEPT ![r] = Reindexed(r, v)]
      /\ snap' = [snap EXCEPT ![r] = {}] /\ UNCHANGED register
  BY Zenon DEF Update
<1>2. /\ Blocks(blocks) /\ block \in BlockType /\ BlockIs(b, block)
      /\ block.pri > 0 /\ block.bytes = Encode[v]
  BY <1>1, UpdateBlock, Zenon DEF IInv
<1>3. PICK n \in snap[r] : Best(blocks, n, snap[r]) /\ block.pri = blocks[n].pri + 1
  BY <1>1, UpdateBlock, Zenon
<1> HIDE DEF block
<1>4. /\ Blocks(blocks') /\ Extends(blocks', blocks) /\ b \in DOMAIN blocks'
      /\ blocks'[b] = block
  BY <1>1, <1>2, AppendExtends, Zenon
<1>5. /\ OneEach' /\ merged'[r] = merged[r] \cup {b} /\ part'[r] = P /\ version'[r] = ver
      /\ index'[r] = Reindexed(r, v) /\ snap'[r] = {}
      /\ \A s \in Replicas \ {r} : /\ merged'[s] = merged[s] /\ part'[s] = part[s]
                                   /\ version'[s] = version[s] /\ index'[s] = index[s]
                                   /\ snap'[s] = snap[s]
  <2> HIDE DEF P, b
  <2> QED BY <1>1, Zenon DEF IInv, OneEach
<1>6. /\ merged[r] \in SUBSET DOMAIN blocks /\ snap[r] \subseteq merged[r]
      /\ part[r] \in RegisterStates /\ register[r] \in [Versions -> RegisterStates]
  BY Row, Zenon DEF ReplicaTypes
<1>7. PICK w \in merged[r] : Wins(blocks, merged[r], part[r], register[r], w)
  BY <1>1, <1>6, Row, Zenon
<1>8. /\ v \in Values /\ Stored[v] = Encode[v] /\ Reads[Encode[v]] = v /\ Encode[v] \in Wire
      /\ Encode[v] > 0
  <2>1. Encode[v] \in Wire
    BY Zenon DEF Wire
  <2> QED BY <2>1, WireBytes, EncodingAssumption, Zenon DEF SameBytes
<1>9. new = Of(blocks', b) /\ new \in Writes /\ new.pri > 0 /\ new.bytes > 0 /\ new.bytes = Encode[v]
      /\ new.pri = block.pri
  <2>1. new = Of(blocks', b)
    BY <1>2, <1>4, <1>8, Zenon DEF Of
  <2>2. new.pri = block.pri /\ new.bytes = Encode[v]
    BY <1>8
  <2>3. new \in Writes
    BY <1>4, <2>1, BlockWrites, Zenon
  <2> QED BY <1>2, <1>8, <2>1, <2>2, <2>3, Zenon
<1> HIDE DEF new, b
<1>10. w \in DOMAIN blocks /\ Of(blocks, w) \in Writes /\ part[r] \in Writes
  BY <1>2, <1>6, <1>7, BlockWrites, StatesAreWrites, Zenon
<1>11. ASSUME snap[r] = merged[r] PROVE Join(Of(blocks, w), new) = new
  <2>1. Of(blocks, w) = Of(blocks, n) /\ n \in DOMAIN blocks
    BY <1>2, <1>3, <1>6, <1>7, <1>11, OneWinner, Zenon DEF Wins
  <2>2. Of(blocks, w).pri = blocks[n].pri /\ blocks[n].pri \in Nat
    BY <1>2, <2>1, BlockWrites, Zenon DEF BlockType
  <2>3. Leq(Of(blocks, w), new)
    BY <1>3, <1>9, <2>2 DEF Leq
  <2> QED BY <1>9, <1>10, <2>3, JoinAhead, Zenon
<1>12. Join(part[r], new) = Join(Of(blocks, w), new)
  <2>1. PartIs(part[r], Of(blocks, w))
    BY <1>7, Zenon DEF Wins
  <2> QED BY <1>2, <1>9, <1>10, <2>1, PartJoins, Zenon
<1>13. P = Join(Of(blocks, w), new)
  BY <1>1, <1>11, <1>12, Zenon
<1>14. Indexed => P = new
  BY <1>1, <1>11, <1>13, Zenon
<1> HIDE DEF P
<1>15. /\ \E u \in merged[r] \cup {b} : Wins(blocks', merged[r] \cup {b}, P, register[r], u)
       /\ P \in RegisterStates
  <2>1. blocks'[b].pri > 0 /\ P = Join(Of(blocks, w), Of(blocks', b))
    BY <1>2, <1>4, <1>9, <1>13, Zenon
  <2>2. Best(blocks, w, merged[r]) /\ Behind(register[r], Of(blocks, w))
    BY <1>7, Zenon DEF Wins
  <2>3. WonBy(blocks', merged[r] \cup {b}, P)
    BY <1>2, <1>4, <1>6, <2>1, <2>2, BlockJoins, Zenon
  <2>4. P \in RegisterStates /\ P \in Writes /\ Leq(Of(blocks, w), P) /\ PartIs(P, P)
    BY <1>2, <1>4, <1>6, <2>1, <2>2, BlockJoins, Zenon
  <2>5. Behind(register[r], P)
    BY <1>6, <1>10, <2>2, <2>4, RegistersBehind, Zenon
  <2> QED BY <2>3, <2>4, <2>5, WonWins, Zenon
<1>16. Reindexed(r, v) \subseteq Values
  <2>1. Reindexed(r, v) \subseteq {v}
    BY ReindexedIs, Zenon
  <2> QED BY <1>8, <2>1, Zenon
<1>17. merged[r] \cup {b} \subseteq DOMAIN blocks'
  BY <1>4, <1>6, Zenon DEF Extends
<1>18. ReplicaTypes(blocks', merged[r] \cup {b}, P, ver, register[r], Reindexed(r, v), {})
  <2>1. {} \subseteq merged[r] \cup {b} /\ {} \subseteq 1 .. (MaxBlocks - 1)
    BY Zenon
  <2> QED BY <1>6, <1>15, <1>16, <1>17, <2>1, Zenon DEF ReplicaTypes
<1>19. Indexed => Reindexed(r, v) = {Reads[P.bytes]}
  BY <1>8, <1>9, <1>14, ReindexedIs, Zenon
<1>20. Snapshot(blocks', {}) /\ Fresh(merged[r] \cup {b}, P, ver, register[r])
  BY Zenon DEF Snapshot, Fresh
<1>21. Replica(blocks', merged[r] \cup {b}, P, ver, register[r], Reindexed(r, v), {})
  BY <1>15, <1>18, <1>19, <1>20, Zenon DEF Replica
<1>22. ReplicaIs(r)'
  BY <1>1, <1>5, <1>21, Zenon DEF ReplicaIs
<1> QED BY <1>1, <1>4, <1>5, <1>22, OthersKeep, Zenon

(* A merge resolves to the join of the winner and the block.  The register    *)
(* may be behind the winner, but the document's value, joined first, is the   *)
(* winner with its priority.                                                  *)
LEMMA MergeResolves ==
  ASSUME SameBytes, IInv, NEW r \in Replicas, NEW w \in merged[r],
         Wins(blocks, merged[r], part[r], register[r], w),
         NEW b \in DOMAIN blocks, blocks[b].pri > 0
  PROVE  Resolved(r, b) = Join(Of(blocks, w), Of(blocks, b))
<1> DEFINE ver == blocks[b].ver
           R == register[r][ver]
           x == Of(blocks, w)
           seed == [pri |-> HeadPriority(merged[r]), bytes |-> Reencode[part[r].bytes]]
<1>1. /\ Blocks(blocks) /\ merged[r] \in SUBSET DOMAIN blocks /\ w \in DOMAIN blocks
      /\ register[r] \in [Versions -> RegisterStates]
  BY Row, Zenon DEF IInv, ReplicaTypes
<1>2. ver \in Versions /\ x \in Writes /\ x.pri = blocks[w].pri /\ x.bytes = blocks[w].bytes
  BY <1>1, BlockWrites, Zenon DEF BlockType
<1>3. R \in Writes /\ Leq(R, x)
  BY <1>1, <1>2, StatesAreWrites, Zenon DEF Wins, Behind
<1>4. HeadPriority(merged[r]) = x.pri
  BY <1>1, <1>2, WinnerLeads, Zenon DEF HeadPriority, Wins
<1>5. Exists(r) /\ State(b) = Of(blocks, b)
  BY Zenon DEF Exists, State, Of
<1>6. PartIs(part[r], x)
  BY Zenon DEF Wins
<1>7. Resolved(r, b) = Join(Reseeded(r, R), Of(blocks, b))
  BY <1>5, Zenon DEF Resolved
<1>8. CASE x.pri = 0
  <2>1. x = Start
    BY <1>1, <1>2, <1>6, <1>8, PartHolds, Zenon
  <2>2. R = x
    <3> HIDE DEF R, x
    <3> QED BY <1>3, <2>1, StartLeast, Zenon
  <2>3. Reseeded(r, R) = R
    BY <1>4, <1>8, Zenon DEF Reseeded
  <2> QED BY <1>7, <2>2, <2>3, Zenon
<1>9. CASE x.pri # 0
  <2>1. part[r] = x /\ part[r].bytes \in Wire
    BY <1>1, <1>2, <1>6, <1>9, PartHolds, Zenon
  <2>2. Value(r) # Null /\ Reencode[part[r].bytes] = part[r].bytes
    BY <2>1, WireBytes, Zenon DEF Value
  <2>3. ~(R.pri > x.pri)
    <3> HIDE DEF R, x
    <3> QED BY <1>2, <1>3 DEF Leq, Writes
  <2>4. seed = x
    <3>1. x = [pri |-> x.pri, bytes |-> x.bytes]
      BY <1>2, Zenon DEF Of
    <3>2. seed = [pri |-> x.pri, bytes |-> x.bytes]
      BY <1>4, <2>1, <2>2, Zenon
    <3> QED BY <3>1, <3>2, Zenon
  <2>5. Reseeded(r, R) = Join(R, seed)
    <3>1. ~(\/ ~Exists(r) \/ Value(r) = Null \/ HeadPriority(merged[r]) = 0
            \/ R.pri # 0 /\ R.pri > HeadPriority(merged[r]))
      BY <1>4, <1>5, <1>9, <2>2, <2>3, Zenon
    <3> QED BY <3>1, Zenon DEF Reseeded
  <2>6. Join(R, x) = x
    <3> HIDE DEF R, x
    <3> QED BY <1>2, <1>3, JoinAhead, Zenon
  <2> QED BY <1>7, <2>4, <2>5, <2>6, Zenon
<1> QED BY <1>8, <1>9, Zenon

(* The first block a replica merges of a document is what it resolves to. *)
LEMMA FirstResolves ==
  ASSUME IInv, NEW r \in Replicas, merged[r] = {},
         NEW b \in DOMAIN blocks
  PROVE  Resolved(r, b) = Of(blocks, b)
<1> DEFINE y == Of(blocks, b)
<1>1. y \in Writes /\ blocks[b].ver \in Versions
  BY BlockWrites, Zenon DEF IInv, BlockType
<1>2. ~Exists(r) /\ State(b) = y
  BY Zenon DEF Exists, State, Of
<1>3. register[r][blocks[b].ver] = Start
  <2>1. register[r] = [q \in Versions |-> Start]
    BY Row, Zenon DEF Fresh
  <2> QED BY <1>1, <2>1, Zenon
<1>4. Reseeded(r, Start) = Start
  BY <1>2, Zenon DEF Reseeded
<1>5. Resolved(r, b) = Join(Start, y)
  BY <1>2, <1>3, <1>4, Zenon DEF Resolved
<1>6. Start \in Writes /\ Leq(Start, y)
  BY <1>1, StartLeast, Zenon
<1> HIDE DEF y
<1> QED BY <1>1, <1>5, <1>6, JoinAhead, Zenon DEF y

LEMMA MergeKeeps ==
  ASSUME SameBytes, IInv, NEW r \in Replicas, NEW b \in DOMAIN blocks, Merge(r, b)
  PROVE  IInv'
<1> DEFINE ver == blocks[b].ver
           Q == Resolved(r, b)
           P == IF version[r] = ver THEN Join(part[r], Q) ELSE Q
           R == [register[r] EXCEPT ![ver] = Q]
           M == merged[r] \cup {b}
           X == Reindexed(r, Reads[Q.bytes])
<1>1. /\ blocks[b].pri > 0 /\ register' = [register EXCEPT ![r][ver] = Q]
      /\ part' = [part EXCEPT ![r] = P] /\ version' = [version EXCEPT ![r] = ver]
      /\ index' = [index EXCEPT ![r] = X] /\ merged' = [merged EXCEPT ![r] = M]
      /\ UNCHANGED <<blocks, snap>>
  BY Zenon DEF Merge, IndexedAs
<1>2. Blocks(blocks) /\ Blocks(blocks') /\ Extends(blocks', blocks) /\ Extends(blocks, blocks)
  BY <1>1, SameExtends, Zenon DEF IInv
<1>3. ver \in Versions
  BY <1>2, BlockWrites, Zenon DEF BlockType
<1>4. /\ merged[r] \in SUBSET DOMAIN blocks /\ part[r] \in RegisterStates
      /\ register[r] \in [Versions -> RegisterStates]
      /\ snap[r] \subseteq merged[r] /\ snap[r] \subseteq 1 .. (MaxBlocks - 1)
  BY Row, Zenon DEF ReplicaTypes
<1> HIDE DEF Q
<1>5. WonBy(blocks, M, Q) /\ Behind(R, Q) /\ PartIs(Q, Q)
      /\ Q \in RegisterStates /\ Q.bytes \in Wire /\ P = Q
  <2>1. CASE merged[r] = {}
    <3>1. Q = Of(blocks, b) /\ M = {b}
      BY <2>1, FirstResolves, Zenon DEF Q
    <3>2. Q \in RegisterStates /\ Q \in Writes /\ Q.pri = blocks[b].pri /\ Q.bytes = blocks[b].bytes
      BY <1>2, <3>1, BlockStates, BlockWrites, Zenon
    <3>3. Q.bytes \in Wire /\ Q.pri # 0
      <4>1. BlockIs(b, blocks[b]) /\ Q.pri \in Nat
        BY <1>2, <3>2, BlockWrites, Zenon DEF BlockType
      <4>2. Q.pri > 0 /\ Q.bytes \in Wire
        BY <1>1, <3>2, <4>1, Zenon DEF BlockIs
      <4> QED BY <4>1, <4>2
    <3>4. WonBy(blocks, M, Q) /\ PartIs(Q, Q)
      BY <1>2, <3>1, <3>3, AloneWins, Zenon DEF WonBy, PartIs
    <3>5. version[r] = NoVersion /\ register[r] = [q \in Versions |-> Start]
      BY <2>1, Row, Zenon DEF Fresh
    <3>6. Behind(R, Q)
      <4>1. Start \in Writes /\ Leq(Start, Q) /\ Leq(Start, Start)
        BY <3>2, StartLeast, Zenon
      <4>2. Behind(register[r], Start)
        BY <3>5, <4>1, Zenon DEF Behind
      <4> QED BY <1>3, <1>4, <3>2, <4>1, <4>2, RegistersBehind, Zenon
    <3>7. version[r] # ver
      BY <1>3, <3>5, EncodingAssumption, Zenon
    <3>8. P = Q
      BY <3>7, Zenon
    <3> QED BY <3>2, <3>3, <3>4, <3>6, <3>8, Zenon
  <2>2. CASE merged[r] # {}
    <3>1. PICK w \in merged[r] : Wins(blocks, merged[r], part[r], register[r], w)
      BY <2>2, Row, Zenon
    <3>2. Q = Join(Of(blocks, w), Of(blocks, b))
      BY <1>1, <3>1, MergeResolves, Zenon DEF Q
    <3>3. /\ Best(blocks, w, merged[r]) /\ Behind(register[r], Of(blocks, w))
          /\ PartIs(part[r], Of(blocks, w))
      BY <3>1, Zenon DEF Wins
    <3>4. blocks[b].pri > 0 /\ Blocks(blocks) /\ Extends(blocks, blocks)
          /\ merged[r] \in SUBSET DOMAIN blocks
      BY <1>1, <1>2, <1>4, Zenon
    <3>5. WonBy(blocks, M, Q) /\ Leq(Of(blocks, w), Q) /\ PartIs(Q, Q)
      BY <3>2, <3>3, <3>4, BlockJoins, Zenon
    <3>6. Q \in RegisterStates /\ Q \in Writes /\ Q.pri > 0 /\ Q.bytes \in Wire /\ Q.bytes > 0
      BY <3>2, <3>3, <3>4, BlockJoins, Zenon
    <3>7. w \in DOMAIN blocks /\ part[r] \in Writes /\ Of(blocks, w) \in Writes
      BY <1>4, <3>1, <3>4, StatesAreWrites, BlockWrites, Zenon
    <3>8. Behind(R, Q)
      BY <1>3, <1>4, <3>3, <3>5, <3>6, <3>7, RegistersBehind, Zenon
    <3>9. Join(part[r], Q) = Join(Of(blocks, w), Q)
      BY <3>3, <3>4, <3>6, <3>7, PartJoins, Zenon
    <3>10. Join(Of(blocks, w), Q) = Q
      BY <3>5, <3>6, <3>7, JoinAhead, Zenon
    <3>11. P = Q
      BY <3>9, <3>10, Zenon
    <3> QED BY <3>5, <3>6, <3>8, <3>11, Zenon
  <2> QED BY <2>1, <2>2, Zenon
<1>6. \E u \in M : Wins(blocks, M, Q, R, u)
  <2> HIDE DEF M, R
  <2> QED BY <1>5, WonWins, Zenon
<1> HIDE DEF P
<1>7. R \in [Versions -> RegisterStates]
  BY <1>4, <1>5, Zenon
<1>8. Q.bytes \in DOMAIN Reads /\ Reads[Q.bytes] \in Values
  BY <1>5, WireBytes, EncodingAssumption, Zenon
<1>9. X \subseteq Values /\ (Indexed => X = {Reads[Q.bytes]})
  <2>1. X \subseteq {Reads[Q.bytes]} /\ (Indexed => X = {Reads[Q.bytes]})
    BY ReindexedIs, Zenon
  <2> QED BY <1>8, <2>1, Zenon
<1>10. /\ OneEach' /\ merged'[r] = M /\ part'[r] = P /\ version'[r] = ver
       /\ register'[r] = R /\ index'[r] = X
       /\ \A s \in Replicas \ {r} : /\ merged'[s] = merged[s] /\ part'[s] = part[s]
                                    /\ version'[s] = version[s] /\ index'[s] = index[s]
                                    /\ register'[s] = register[s]
  <2>1. DOMAIN register' = Replicas /\ register'[r] = R
        /\ \A s \in Replicas \ {r} : register'[s] = register[s]
    BY <1>1, Zenon DEF IInv, OneEach
  <2> HIDE DEF R, M, X
  <2> QED BY <1>1, <2>1, Zenon DEF IInv, OneEach
<1> HIDE DEF R, X
<1>11. M \subseteq DOMAIN blocks /\ snap[r] \subseteq M /\ M # {}
  BY <1>4, Zenon
<1> HIDE DEF M
<1>12. ReplicaTypes(blocks, M, P, ver, R, X, snap[r])
  BY <1>3, <1>4, <1>5, <1>7, <1>9, <1>11, Zenon DEF ReplicaTypes
<1>13. Snapshot(blocks, snap[r]) /\ Fresh(M, P, ver, R)
  BY <1>11, Row, Zenon DEF Fresh
<1>14. Replica(blocks, M, P, ver, R, X, snap[r])
  BY <1>5, <1>6, <1>9, <1>12, <1>13, Zenon DEF Replica
<1>15. ReplicaIs(r)'
  BY <1>1, <1>10, <1>14, Zenon DEF ReplicaIs
<1> QED BY <1>1, <1>2, <1>10, <1>15, OthersKeep, Zenon

-----------------------------------------------------------------------------
(* The theorems. *)

LEMMA NextKeeps ==
  ASSUME SameBytes, IInv, [Next]_vars
  PROVE  IInv'
<1>1. CASE Next
  <2>1. PICK r \in Replicas :
          \/ \E v \in Written \cup {Null}, ver \in Versions : Create(r, v, ver)
          \/ Begin(r)
          \/ \E v \in Written, ver \in Versions : Update(r, v, ver)
          \/ \E ver \in Versions : PutWhole(r, ver)
          \/ \E b \in DOMAIN blocks : Merge(r, b)
          \/ MergeAbsent(r)
    BY <1>1, Zenon DEF Next
  <2>2. CASE \E v \in Written \cup {Null}, ver \in Versions : Create(r, v, ver)
    BY <2>2, CreateKeeps, Zenon
  <2>3. CASE Begin(r)
    BY <2>3, BeginKeeps, Zenon
  <2>4. CASE \E v \in Written, ver \in Versions : Update(r, v, ver)
    BY <2>4, UpdateKeeps, Zenon
  <2>5. CASE \E ver \in Versions : PutWhole(r, ver)
    BY <2>5, PutWholeKeeps, Zenon
  <2>6. CASE \E b \in DOMAIN blocks : Merge(r, b)
    BY <2>6, MergeKeeps, Zenon
  <2>7. CASE MergeAbsent(r)
    BY <2>7, MergeAbsentKeeps, Zenon
  <2> QED BY <2>1, <2>2, <2>3, <2>4, <2>5, <2>6, <2>7, Zenon
<1>2. CASE UNCHANGED vars
  BY <1>2, Zenon DEF vars, IInv, OneEach, ReplicaIs
<1> QED BY <1>1, <1>2, Zenon

(* The inductive invariant of the stores of a last-write-wins field (value.rs, *)
(* field_state.rs): the part holds the winner of what the replica merged, and  *)
(* no register is ahead of it.                                                 *)
THEOREM RegisterInvariant ==
  ASSUME SameBytes
  PROVE  Spec => []IInv
<1>1. Init => IInv
  BY InitInv
<1>2. IInv /\ [Next]_vars => IInv'
  BY NextKeeps
<1> QED BY <1>1, <1>2, PTL DEF Spec

(* The value a replica reads has the bytes of any winner of its blocks. *)
LEMMA WinnerRead ==
  ASSUME SameBytes, IInv, NEW r \in Replicas, NEW b, Best(blocks, b, merged[r])
  PROVE  Value(r) = Reads[blocks[b].bytes]
<1>1. Blocks(blocks) /\ merged[r] \in SUBSET DOMAIN blocks /\ b \in merged[r]
  BY Row, Zenon DEF IInv, ReplicaTypes, Best
<1>2. PICK w \in merged[r] : Wins(blocks, merged[r], part[r], register[r], w)
  BY <1>1, Row, Zenon
<1>3. part[r].bytes = blocks[w].bytes
  BY <1>1, <1>2, PartHolds, Zenon DEF Wins
<1>4. Of(blocks, w) = Of(blocks, b)
  BY <1>1, <1>2, OneWinner, Zenon DEF Wins
<1>5. Of(blocks, w).bytes = blocks[w].bytes /\ Of(blocks, b).bytes = blocks[b].bytes
  BY <1>1, <1>2, BlockWrites, Zenon
<1> QED BY <1>3, <1>4, <1>5, Zenon DEF Value

LEMMA InvTypes ==
  ASSUME SameBytes, IInv
  PROVE  TypeOK
<1>1. ASSUME NEW b \in DOMAIN blocks
      PROVE  /\ [pri |-> blocks[b].pri, bytes |-> blocks[b].bytes] \in RegisterStates
             /\ blocks[b].ver \in Versions /\ blocks[b].past \subseteq 1..(b - 1)
  <2>1. Blocks(blocks) /\ Of(blocks, b) \in RegisterStates
    BY BlockStates, Zenon DEF IInv
  <2>2. blocks[b] \in BlockType /\ BlockIs(b, blocks[b])
    BY <2>1, BlockWrites, Zenon
  <2> QED BY <2>1, <2>2, Zenon DEF Of, BlockType, BlockIs
<1>2. ASSUME NEW r \in Replicas
      PROVE  /\ merged[r] \subseteq DOMAIN blocks /\ snap[r] \subseteq merged[r]
             /\ part[r] \in RegisterStates
             /\ version[r] \in Versions \cup {NoVersion}
             /\ register[r] \in [Versions -> RegisterStates]
             /\ index[r] \subseteq Values
  BY Row, Zenon DEF ReplicaTypes
<1> QED BY <1>1, <1>2, Zenon DEF TypeOK

(* For any replicas, versions and number of blocks, a document reads as the    *)
(* greatest write its replica has merged or written, whichever of the part and *)
(* the registers each went through, and the one index entry is for that value  *)
(* (merge_field_state, reseed_from_document, persist_merged_document).         *)
THEOREM RegisterReadsWinner ==
  ASSUME SameBytes
  PROVE  Spec => []RegisterHolds
<1>1. IInv => RegisterHolds
  <2> SUFFICES ASSUME IInv PROVE RegisterHolds
    OBVIOUS
  <2>1. ReadsWinner
    <3> SUFFICES ASSUME NEW r \in Replicas, NEW b \in DOMAIN blocks, Greatest(b, merged[r])
                 PROVE  Value(r) = Reads[blocks[b].bytes]
      BY Zenon DEF ReadsWinner
    <3>1. Best(blocks, b, merged[r])
      <4>1. \A c \in merged[r] : Leq(Of(blocks, c), Of(blocks, b))
        <5> TAKE c \in merged[r]
        <5>1. \/ blocks[c].pri < blocks[b].pri
              \/ (blocks[c].pri = blocks[b].pri /\ blocks[c].bytes <= blocks[b].bytes)
          BY Zenon DEF Greatest
        <5>2. /\ Of(blocks, c).pri = blocks[c].pri /\ Of(blocks, c).bytes = blocks[c].bytes
              /\ Of(blocks, b).pri = blocks[b].pri /\ Of(blocks, b).bytes = blocks[b].bytes
          BY Zenon DEF Of
        <5> QED BY <5>1, <5>2, Zenon DEF Leq
      <4> QED BY <4>1, Zenon DEF Greatest, Best
    <3> QED BY <3>1, WinnerRead, Zenon
  <2>2. IndexFollows
    BY Row, Zenon DEF IndexFollows, Exists, Value
  <2> QED BY <2>1, <2>2, InvTypes, Zenon DEF RegisterHolds
<1> QED BY <1>1, RegisterInvariant, PTL

(* For any replicas, versions and number of blocks, replicas that have merged  *)
(* the same blocks read the same value, where a value has the same bytes in a  *)
(* block and in a document (lww.rs; for JSON it has not, and they may differ). *)
THEOREM RegistersConverge ==
  ASSUME SameBytes
  PROVE  Spec => []Converged
<1>1. IInv => Converged
  <2> SUFFICES ASSUME IInv, NEW r \in Replicas, NEW s \in Replicas, merged[r] = merged[s], Exists(r)
               PROVE  Value(r) = Value(s)
    BY Zenon DEF Converged
  <2>1. PICK w \in merged[r] : Best(blocks, w, merged[r])
    BY Row, Zenon DEF Exists, Wins
  <2>2. Value(r) = Reads[blocks[w].bytes]
    BY <2>1, WinnerRead, Zenon
  <2>3. Value(s) = Reads[blocks[w].bytes]
    BY <2>1, WinnerRead, Zenon
  <2> QED BY <2>2, <2>3, Zenon
<1> QED BY <1>1, RegisterInvariant, PTL
=============================================================================
