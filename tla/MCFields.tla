------------------------------ MODULE MCFields ------------------------------
(***************************************************************************)
(* The fields of a document in one model: a last-write-wins field          *)
(* (LwwMerge), the merge operands of the stored document (DocumentValue),  *)
(* a JSON field (JsonField) and a text field (TextField).  The parts share *)
(* no state here, so a behaviour is one of one part: `component` says of   *)
(* which.  Meanwhile the variables of LwwMerge keep their initial values   *)
(* and those that another part does not have are Off.                      *)
(***************************************************************************)
EXTENDS LwwMerge, TLC

CONSTANTS u, v,    \* replicas
          v1, v2,  \* versions of the collection
          x, y,    \* values
          Nil, Off

VARIABLES component,
  base, ops, written,
  value,
  log, published,
  entries, open, answer,
  checked, refused, walk

stored == <<base, ops, written>>
either == <<log, published>>
json == <<entries, open, answer>>
text == <<checked, refused, walk>>
all == <<vars, component, stored, value, either, json, text>>

OffStored == base = Off /\ ops = Off /\ written = Off
OffEither == log = Off /\ published = Off
OffJson == entries = Off /\ open = Off /\ answer = Off
OffText == checked = Off /\ refused = Off /\ walk = Off

-----------------------------------------------------------------------------
\* Bytes are ranks, 0 the empty string; block and document hold the same bytes.
PlainValues == {x, y, Null}
PlainEncode == x :> 1 @@ y :> 2 @@ Null :> 3
PlainStored == x :> 1 @@ y :> 2 @@ Null :> 0
PlainReencode == [b \in 0..3 |-> b]
PlainReads == 0 :> Null @@ 1 :> x @@ 2 :> y @@ 3 :> Null

\* A JSON field: a block holds the integer x as an integer (1), the document as a
\* float (3), which reads as the same number and is encoded as a float again; y
\* is a string.
JsonEncode == x :> 1 @@ y :> 2 @@ Null :> 4
JsonStored == x :> 3 @@ y :> 2 @@ Null :> 0
JsonReencode == [b \in 0..4 |-> b]
JsonReads == 0 :> Null @@ 1 :> x @@ 2 :> y @@ 3 :> x @@ 4 :> Null

\* One version and four blocks.
OneVersion == \A r \in Replicas : version'[r] # v2
\* Two versions and three blocks, the first of them with x.
TwoVersions ==
  /\ Len(blocks') <= 3
  /\ blocks = <<>> => blocks'[1] = [pri |-> 1, bytes |-> 1, ver |-> v1, past |-> {}]

-----------------------------------------------------------------------------
\* At four bits two of them overflow; at two digits 1 + 6 rounds.
Signed == {-6, 1, 6}

PairKind == "lww" :> "lww" @@ "json" :> "json"
CounterKind == "int" :> "int" @@ "float" :> "float" @@ "text" :> "text"
StatsKind == "stats" :> "stats"

Pair == INSTANCE DocumentValue WITH
  Fields <- {"lww", "json"}, Kind <- PairKind, Width <- 4, Digits <- 2,
  Priorities <- {1, 2}, Contents <- {0, 1}, Increments <- Signed, Failed <- Nil,
  MaxWrites <- 3, MaxFields <- 2
Counters == INSTANCE DocumentValue WITH
  Fields <- {"int", "float", "text"}, Kind <- CounterKind, Width <- 4, Digits <- 2,
  Priorities <- {1}, Contents <- {0, 1}, Increments <- Signed, Failed <- Nil,
  MaxWrites <- 3, MaxFields <- 2
Stats == INSTANCE DocumentValue WITH
  Fields <- {"stats"}, Kind <- StatsKind, Width <- 4, Digits <- 2,
  Priorities <- {1}, Contents <- {0, 1}, Increments <- Signed, Failed <- Nil,
  MaxWrites <- 5, MaxFields <- 1

-----------------------------------------------------------------------------
JsonPaths == {<<>>, <<"a">>, <<"a", "b">>}

\* {"a": {"b": 1}}
Nested == <<>> :> "map" @@ <<"a">> :> "map" @@ <<"a", "b">> :> "1"
Flat == <<>> :> "map" @@ <<"a">> :> "3"
Scalar == <<>> :> "2"

ByPath(edits) == [paths |-> TRUE, edits |-> edits, value |-> <<>>]
Whole(new) == [paths |-> FALSE, edits |-> <<>>, value |-> new]
Assign(path, new) == [path |-> path, value |-> new]
Unset(path) == [path |-> path, value |-> <<>>]

LeafWrites ==
  {ByPath(<<Assign(<<"a", "b">>, Scalar)>>), ByPath(<<Unset(<<"a", "b">>)>>), Whole(Flat)}
TreeWrites ==
  {ByPath(<<Unset(<<"a">>)>>),
   ByPath(<<Assign(<<"a">>, Scalar), Assign(<<"a", "b">>, Scalar)>>),
   Whole(Flat), Whole(<<>>)}

\* Two transactions may be open on a replica.
Edited == INSTANCE JsonField WITH
  Paths <- JsonPaths, First <- Nested, Writes <- LeafWrites, Replicas <- {u, v},
  Readers <- {}, MaxBlocks <- 4, MaxOpen <- 2, MaxRounds <- 3, blocks <- log
\* A replica also reads older versions.
Versioned == INSTANCE JsonField WITH
  Paths <- JsonPaths, First <- Nested, Writes <- TreeWrites,
  Replicas <- {u, v}, Readers <- {u, v}, MaxBlocks <- 4, MaxOpen <- 1, MaxRounds <- 3,
  blocks <- log

-----------------------------------------------------------------------------
Insert(p, n) == [act |-> "insert", pos |-> p, n |-> n]
Delete(p, n) == [act |-> "delete", pos |-> p, n |-> n]

\* Identifiers that follow the order blocks are written in, and some that do not.
InOrder == [b \in 1..4 |-> b]
Turned == <<3, 5, 1, 4, 2>>

\* Characters told apart by block and offset, and of two letters only.
Own(b, k) == <<b, k>>
Plain(b, k) == b % 2

SomeEdits ==
  {<<Insert(p, 2)>> : p \in 0..2} \cup {<<Delete(0, 2), Insert(0, 1)>>, Null}
FewEdits == {<<Delete(0, 1), Insert(2, 1)>>}
FirstEdits == {<<Insert(0, 2)>>, <<Delete(0, 1), Insert(1, 1)>>, Null}

Told == INSTANCE TextField WITH
  Cid <- InOrder, Letter <- Own, None <- Nil, Replicas <- {u, v}, FirstLen <- 2,
  Edits <- SomeEdits, MaxBlocks <- 4, MaxText <- 5, blocks <- log
\* Few edits and a longer history.
Long == INSTANCE TextField WITH
  Cid <- Turned, Letter <- Plain, None <- Nil, Replicas <- {u, v}, FirstLen <- 2,
  Edits <- FewEdits, MaxBlocks <- 5, MaxText <- 5, blocks <- log
\* The document is created without the field.
Rooted == INSTANCE TextField WITH
  Cid <- Turned, Letter <- Plain, None <- Nil, Replicas <- {u, v}, FirstLen <- 0,
  Edits <- FirstEdits, MaxBlocks <- 4, MaxText <- 5, blocks <- log
-----------------------------------------------------------------------------
MCInit ==
  /\ Init
  /\ \/ component \in {"register", "moved"} /\ OffStored /\ value = Off /\ OffEither /\ OffJson /\ OffText
     \/ /\ component \in {"pair", "counters", "stats"} /\ OffEither /\ OffJson /\ OffText
        /\ \/ component = "pair" /\ Pair!Init
           \/ component = "counters" /\ Counters!Init
           \/ component = "stats" /\ Stats!Init
     \/ /\ component \in {"edited", "versioned"} /\ OffStored /\ value = Off /\ OffText
        /\ \/ component = "edited" /\ Edited!Init
           \/ component = "versioned" /\ Versioned!Init
     \/ /\ component \in {"told", "long", "rooted"} /\ OffStored /\ OffJson
        /\ \/ component = "told" /\ Told!Init
           \/ component = "long" /\ Long!Init
           \/ component = "rooted" /\ Rooted!Init

MCNext ==
  /\ UNCHANGED component
  /\ \/ /\ Next /\ UNCHANGED <<stored, value, either, json, text>>
        /\ \/ component = "register" /\ OneVersion
           \/ component = "moved" /\ TwoVersions
     \/ /\ UNCHANGED <<vars, either, json, text>>
        /\ \/ component = "pair" /\ Pair!Next
           \/ component = "counters" /\ Counters!Next
           \/ component = "stats" /\ Stats!Next
     \/ /\ UNCHANGED <<vars, stored, value, text>>
        /\ \/ component = "edited" /\ Edited!Next
           \/ component = "versioned" /\ Versioned!Next
     \/ /\ UNCHANGED <<vars, stored, json>>
        /\ \/ component = "told" /\ Told!Next
           \/ component = "long" /\ Long!Next
           \/ component = "rooted" /\ Rooted!Next

MCSpec == MCInit /\ [][MCNext]_all

Alike == Permutations({u, v})
-----------------------------------------------------------------------------
\* However the engine groups the operands of a stored document, a read gives
\* what the writes give one at a time (partial_merge and full_merge).
GroupingUnseen ==
  /\ component = "pair" => Pair!TypeOK /\ Pair!GroupingUnseen
  /\ component = "counters" => Counters!TypeOK /\ Counters!GroupingUnseen
  /\ component = "stats" => Stats!TypeOK /\ Stats!GroupingUnseen

\* However merges, writes and their stale reads interleave, a replica's stored
\* frontier of a JSON field is the one its published blocks determine, and the
\* conflicts it reports are the edits that lost to one they are concurrent with
\* (merge_field_tagged, local_delta, Frontier::conflicts).
FrontierExact ==
  /\ component = "edited" => Edited!TypeOK /\ Edited!FrontierExact /\ Edited!ConflictsExact
  /\ component = "versioned" =>
       Versioned!TypeOK /\ Versioned!FrontierExact /\ Versioned!ConflictsExact

\* A prepared write lands as the application reads it, its anchoring loop ending
\* within as many rounds as there are paths; a read of an older version, replayed
\* from its blocks, finds the frontier that version had (write_data, replay).
LandsAsRead ==
  /\ component = "edited" => Edited!LandsAsRead /\ Edited!ReplayExact
  /\ component = "versioned" => Versioned!LandsAsRead /\ Versioned!ReplayExact

\* The stored text is the one a replay of the whole published history makes,
\* whatever order the blocks came in, and however often; no block that a replica
\* wrote is refused; the block a merge's walk stops at is critical and its length
\* was compared on this replica; and concurrent inserts do not run into each other
\* (field_causal.rs, fugue.rs).
TextHolds ==
  /\ component = "told" => Told!TextHolds
  /\ component = "long" => Long!TextHolds
  /\ component = "rooted" => Rooted!TextHolds
  /\ component = "told" => Told!RunsTogether
=============================================================================
