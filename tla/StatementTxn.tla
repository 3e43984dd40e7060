---------------------------- MODULE StatementTxn ----------------------------
(***************************************************************************)
(* One explicit transaction and the requests its owner runs on it, one at  *)
(* a time: OwnedTxn (crates/db/src/txn/registry/owned.rs), DbTxn and its   *)
(* catalog (crates/db/src/txn), BasicTxn and SharedTxn (crates/datastore)  *)
(* and the engine's transaction (crates/storage/src/backends/regolith).    *)
(*                                                                         *)
(* A statement is undone through three layers, each with a savepoint of    *)
(* its own: the catalog's snapshot, BasicTxn's savepoints and the engine's *)
(* writes and callback marks.  Callbacks registered by a request wait in a *)
(* queue until the transaction is next held alone.  BasicTxn's own         *)
(* callbacks stay empty: a lent transaction registers through the queue.   *)
(***************************************************************************)
EXTENDS Integers, Sequences, FiniteSets, SequencesExt

CONSTANTS
  MaxRequests,
  MaxItems,     \* the items of work of all requests together
  Holds         \* what of a request's operation may outlive it

VARIABLES
  txn,          \* OwnedTxn.txn: "held", "lent" or "gone"
  open,         \* OwnedTxn.statement_open
  saved,        \* DbTxn.statement_savepoint: none, or one snapshot
  collections,  \* Catalog.collections, as the items cached
  owed,         \* Catalog.owed
  depth,        \* how many savepoints BasicTxn holds
  queue,        \* SharedTxn.queued
  engine,       \* the engine's writes, callbacks and savepoints
  request,      \* the request running: its kind, or "none"
  outliving,    \* what outlived the requests that made it
  end,          \* "active", "leaving" with its last holder, "committed", "aborted"
  ran,          \* the callbacks and registrations that have run, in order
  kinds,        \* history: the kind of each request so far
  told,         \* history: what each request that ended was answered
  made,         \* history: the items of work done, in order
  before        \* history: what the running request found

layers == <<txn, open, saved, collections, owed, depth, queue, engine>>
history == <<kinds, told, made, before>>
vars == <<layers, request, outliving, end, ran, history>>

Kinds == {"mutation", "query", "definition"}

\* What a request of each kind may do: stage a write, register a callback,
\* cache a collection, owe a registration.
Does(kind) ==
  CASE kind = "mutation" -> {"write", "before", "commit", "abort", "cache"}
    [] kind = "query" -> {"cache"}
    [] kind = "definition" -> {"write", "commit", "cache", "owe"}

Callbacks == {"before", "commit", "abort"}

Items == [id : 1..MaxItems, request : 1..MaxRequests,
          what : Callbacks \cup {"write", "cache", "owe"}]

OfKind(s, what) == SelectSeq(s, LAMBDA i : i.what = what)

\* What the transaction holds, whichever layer holds it.
Contents == [writes |-> engine.writes, callbacks |-> engine.callbacks \o queue,
             collections |-> collections, owed |-> owed]

Init ==
  /\ txn = "held" /\ open = FALSE /\ saved = <<>>
  /\ collections = {} /\ owed = <<>> /\ depth = 0 /\ queue = <<>>
  /\ engine = [writes |-> <<>>, callbacks |-> <<>>, saves |-> <<>>, marks |-> <<>>]
  /\ request = "none" /\ outliving = {} /\ end = "active" /\ ran = <<>>
  /\ kinds = <<>> /\ told = <<>> /\ made = <<>>
  /\ before = Contents

-----------------------------------------------------------------------------
\* OwnedTxn::alone succeeds, then BasicTxn::alone, then writable_mut.
Alone == txn = "held" \/ (txn = "lent" /\ "handle" \notin outliving)
Unshared == Alone /\ "view" \notin outliving
Savable == Unshared /\ "iterator" \notin outliving

\* Arc::try_unwrap gives the transaction back, or the handle keeps it.
Unwrapped == IF Alone THEN "held" ELSE txn

\* SharedTxn::settle: the queued callbacks go to the engine's registry.
Settled == [engine EXCEPT !.callbacks = @ \o queue]

\* As if a savepoint's mark were taken before the queue is settled.
MarkedUnsettled ==
  [Settled EXCEPT !.saves = Append(@, Len(engine.writes)),
                  !.marks = Append(@, Len(engine.callbacks))]

\* RegolithTxn::set_savepoint.
Marked == [Settled EXCEPT !.saves = Append(@, Len(Settled.writes)),
                          !.marks = Append(@, Len(Settled.callbacks))]

\* RegolithTxn::rollback_to_savepoint: writes and callbacks since are gone.
RolledBack == [Settled EXCEPT !.writes = SubSeq(@, 1, Last(Settled.saves)),
                              !.callbacks = SubSeq(@, 1, Last(Settled.marks)),
                              !.saves = Front(@), !.marks = Front(@)]

\* RegolithTxn::release_savepoint.
Released == [Settled EXCEPT !.saves = Front(@), !.marks = Front(@)]

\* SharedTxn settles its queue before the engine looks for iterators.
SettleOnly ==
  IF Unshared THEN queue' = <<>> /\ engine' = Settled ELSE UNCHANGED <<queue, engine>>

\* DbTxn::set_statement_savepoint; with a statement still active, or anything
\* outliving its request, no savepoint is set.
SetStatementSavepoint ==
  /\ Savable /\ saved = <<>>
  /\ engine' = Marked /\ queue' = <<>> /\ depth' = depth + 1
  /\ saved' = <<[collections |-> collections, owed |-> owed]>>
  /\ UNCHANGED <<collections, owed>>

\* DbTxn::rollback_statement_savepoint.
RollbackStatementSavepoint ==
  /\ Savable /\ saved # <<>>
  /\ engine' = RolledBack /\ queue' = <<>> /\ depth' = depth - 1
  /\ saved' = <<>>
  /\ collections' = Head(saved).collections /\ owed' = Head(saved).owed

\* DbTxn::release_statement_savepoint.
ReleaseStatementSavepoint ==
  /\ Savable /\ saved # <<>>
  /\ engine' = Released /\ queue' = <<>> /\ depth' = depth - 1
  /\ saved' = <<>>
  /\ UNCHANGED <<collections, owed>>

\* As if the snapshot taken for a rollback were not put back.
RefusedTakesSnapshot(possible) ==
  /\ ~(Savable /\ possible)
  /\ IF possible THEN SettleOnly ELSE UNCHANGED <<queue, engine>>
  /\ saved' = <<>>
  /\ UNCHANGED <<collections, owed, depth>>

\* A savepoint operation that is refused: the snapshot is where it was.
Refused(possible) ==
  /\ ~(Savable /\ possible)
  /\ IF possible THEN SettleOnly ELSE UNCHANGED <<queue, engine>>
  /\ UNCHANGED <<saved, collections, owed, depth>>

-----------------------------------------------------------------------------
Asked(kind) ==
  /\ end = "active" /\ request = "none" /\ Len(kinds) < MaxRequests
  /\ kinds' = Append(kinds, kind) /\ before' = Contents
  /\ UNCHANGED <<outliving, end, ran, made>>

\* A mutation opens a statement and lends the transaction to its handles.
BeginStatement ==
  /\ Asked("mutation") /\ SetStatementSavepoint
  /\ txn' = "lent" /\ open' = TRUE /\ request' = "mutation"
  /\ UNCHANGED told

\* The statement cannot be opened, and the mutation is answered with that.
BeginRefused ==
  /\ Asked("mutation") /\ Refused(saved = <<>>)
  /\ txn' = Unwrapped /\ told' = Append(told, "failed")
  /\ UNCHANGED <<open, request>>

\* A query needs no statement.
BeginQuery ==
  /\ Asked("query")
  /\ txn' = "lent" /\ request' = "query"
  /\ UNCHANGED <<open, saved, collections, owed, depth, queue, engine, told>>

\* A change of definitions takes the transaction alone, in no statement.
BeginDefinition ==
  /\ Asked("definition")
  /\ txn' = Unwrapped
  /\ IF Alone THEN request' = "definition" /\ UNCHANGED told
     ELSE told' = Append(told, "failed") /\ UNCHANGED request
  /\ UNCHANGED <<open, saved, collections, owed, depth, queue, engine>>

\* One item of the running request's work.
Work(what) ==
  /\ request # "none" /\ what \in Does(request) /\ Len(made) < MaxItems
  /\ LET item == [id |-> Len(made) + 1, request |-> Len(kinds), what |-> what]
     IN /\ made' = Append(made, item)
        /\ engine' = IF what = "write" THEN [engine EXCEPT !.writes = Append(@, item)]
                     ELSE engine
        /\ queue' = IF what \in Callbacks THEN Append(queue, item) ELSE queue
        /\ collections' = IF what = "cache" THEN collections \cup {item} ELSE collections
        /\ owed' = IF what = "owe" THEN Append(owed, item) ELSE owed
  /\ UNCHANGED <<txn, open, saved, depth, request, outliving, end, ran, kinds, told, before>>

\* An operation of the request lives on, with what it holds.
Outlive(what) ==
  /\ request \in {"mutation", "query"} /\ what \notin outliving
  /\ outliving' = outliving \cup {what}
  /\ UNCHANGED <<layers, request, end, ran, history>>

Answer(answer) ==
  /\ request' = "none" /\ told' = Append(told, answer)
  /\ UNCHANGED <<outliving, end, ran, kinds, made, before>>

\* end_statement: kept when the response has no errors, undone otherwise.
EndStatement(keep) ==
  /\ request = "mutation"
  /\ open' = FALSE /\ txn' = Unwrapped
  /\ \/ /\ IF keep THEN ReleaseStatementSavepoint ELSE RollbackStatementSavepoint
        /\ Answer(IF keep THEN "ok" ELSE "failed")
     \/ Refused(saved # <<>>) /\ Answer("failed")

\* The request is dropped, at its deadline or by its caller, and
\* after_request undoes the statement it left open.
Cancelled ==
  /\ request = "mutation"
  /\ open' = FALSE /\ txn' = Unwrapped
  /\ RollbackStatementSavepoint \/ Refused(saved # <<>>)
  /\ Answer("failed")

\* A query or a change of definitions ends; what it did stays either way.
EndOther(answer) ==
  /\ request \in {"query", "definition"}
  /\ Answer(answer)
  /\ UNCHANGED layers

-----------------------------------------------------------------------------
\* The engine's transaction ends without a commit.
AbortRuns == OfKind(engine.callbacks \o queue, "abort")

Over(writes) ==
  /\ txn' = "gone" /\ open' = FALSE /\ saved' = <<>> /\ owed' = <<>> /\ queue' = <<>>
  /\ depth' = 0 /\ request' = "none"
  /\ engine' = [writes |-> writes, callbacks |-> <<>>, saves |-> <<>>, marks |-> <<>>]
  /\ UNCHANGED <<collections, outliving, history>>

\* Whoever still shares the transaction ends it by dropping it.
Leave(runs) ==
  /\ end' = "leaving" /\ ran' = runs /\ txn' = "gone" /\ open' = FALSE
  /\ request' = "none"
  /\ UNCHANGED <<saved, collections, owed, depth, queue, engine, outliving, history>>

Abort(runs) == end' = "aborted" /\ ran' = runs /\ Over(<<>>)

\* OwnedTxn::discard, and Drop: BasicTxn::discard, or the last holder's drop.
Discard ==
  /\ end = "active"
  /\ IF Unshared THEN Abort(AbortRuns) ELSE Leave(<<>>)

\* The transaction is not alone and is dropped: by OwnedTxn::commit before
\* anything ran, by BasicTxn::commit after the registrations owed.
CommitRefused ==
  /\ end = "active" /\ request = "none" /\ ~Unshared
  /\ Leave(IF Alone THEN owed ELSE <<>>)

\* A registration owed to access control fails: the ones before it have run.
RegistrationFails(n) ==
  /\ end = "active" /\ request = "none" /\ Alone /\ n \in 1..Len(owed)
  /\ IF Unshared THEN Abort(SubSeq(owed, 1, n - 1) \o AbortRuns)
     ELSE Leave(SubSeq(owed, 1, n - 1))

\* run_before_commit fails at the n-th of its callbacks.
BeforeFails(n) ==
  /\ end = "active" /\ request = "none" /\ Unshared
  /\ LET runs == OfKind(Settled.callbacks, "before")
     IN n \in 1..Len(runs) /\ Abort(owed \o SubSeq(runs, 1, n) \o AbortRuns)

\* An iterator is still open, or the engine refuses the commit.
CommitFails ==
  /\ end = "active" /\ request = "none" /\ Unshared
  /\ Abort(owed \o OfKind(Settled.callbacks, "before") \o AbortRuns)

\* The commit is durable and its callbacks run.
Commit ==
  /\ end = "active" /\ request = "none" /\ Savable
  /\ end' = "committed"
  /\ ran' = owed \o OfKind(Settled.callbacks, "before") \o OfKind(Settled.callbacks, "commit")
  /\ Over(engine.writes)

\* What outlived its request drops what it holds; the last holder of a
\* transaction whose owner is gone ends it.
DropHeld(what) ==
  /\ what \in outliving
  /\ outliving' = outliving \ {what}
  /\ IF end = "leaving" /\ outliving' \cap {"handle", "view"} = {}
     THEN /\ end' = "aborted" /\ ran' = ran \o AbortRuns
          /\ engine' = [writes |-> <<>>, callbacks |-> <<>>, saves |-> <<>>, marks |-> <<>>]
          /\ saved' = <<>> /\ owed' = <<>> /\ queue' = <<>> /\ depth' = 0 /\ open' = FALSE
          /\ UNCHANGED <<txn, collections>>
     ELSE UNCHANGED <<layers, end, ran>>
  /\ UNCHANGED <<request, history>>

Next ==
  \/ BeginStatement \/ BeginRefused \/ BeginQuery \/ BeginDefinition
  \/ \E what \in Callbacks \cup {"write", "cache", "owe"} : Work(what)
  \/ \E what \in Holds : Outlive(what) \/ DropHeld(what)
  \/ \E keep \in BOOLEAN : EndStatement(keep)
  \/ Cancelled
  \/ \E answer \in {"ok", "failed"} : EndOther(answer)
  \/ Discard \/ CommitRefused \/ CommitFails \/ Commit
  \/ \E n \in 1..MaxItems : RegistrationFails(n) \/ BeforeFails(n)

Spec == Init /\ [][Next]_vars

\* An operation that outlived its request ends and drops what it holds.
FairSpec == Spec /\ \A what \in Holds : WF_vars(DropHeld(what))

-----------------------------------------------------------------------------
TypeOK ==
  /\ txn \in {"held", "lent", "gone"} /\ open \in BOOLEAN
  /\ Len(saved) <= 1 /\ depth \in 0..1
  /\ collections \subseteq Items /\ owed \in Seq(Items) /\ queue \in Seq(Items)
  /\ engine.writes \in Seq(Items) /\ engine.callbacks \in Seq(Items)
  /\ engine.saves \in Seq(Nat) /\ engine.marks \in Seq(Nat)
  /\ request \in Kinds \cup {"none"} /\ outliving \subseteq Holds
  /\ end \in {"active", "leaving", "committed", "aborted"}
  /\ ran \in Seq(Items) /\ made \in Seq(Items)
  /\ kinds \in Seq(Kinds) /\ told \in Seq({"ok", "failed"})

\* The three layers hold a savepoint together or not at all, and outside a
\* mutation an open statement is never pending: a rollback or release that
\* one layer took and another refused would undo the wrong statement next.
LayersAgree ==
  /\ Len(saved) = depth /\ Len(engine.saves) = depth /\ Len(engine.marks) = depth
  /\ open => request = "mutation" /\ depth = 1

\* A statement that failed, was cancelled or could not be opened leaves
\* nothing behind: writes, callbacks in their order, cached collections and
\* owed registrations are what it found (rollback_statement_savepoint).
UndoneIfFailed ==
  Len(told') > Len(told) /\ kinds'[Len(told')] = "mutation" /\ Last(told') = "failed"
    => Contents' = before'

\* A statement whose client was told of an error.
Failed(r) == kinds[r] = "mutation" /\ r \in DOMAIN told /\ told[r] = "failed"

\* A commit makes durable the writes of the statements that were kept and
\* runs their registrations, before-commit work and commit callbacks, each
\* once and in the order they were made; an end of any other kind runs the
\* abort callbacks of the same statements, after what a failed commit ran.
EndRunsKept ==
  LET kept == SelectSeq(made, LAMBDA i : ~Failed(i.request))
      all == OfKind(kept, "owe") \o OfKind(kept, "before")
  IN /\ end = "committed" => /\ engine.writes = OfKind(kept, "write")
                             /\ ran = all \o OfKind(kept, "commit")
     /\ end = "aborted" => \E n \in 0..Len(all) :
                             ran = SubSeq(all, 1, n) \o OfKind(kept, "abort")

\* Whatever outlives its request, a statement that was answered without an
\* error is never undone by what comes after it: its writes stay staged, and
\* a commit has them and has run its commit callbacks.
KeptStays ==
  \A n \in DOMAIN made : LET item == made[n] IN
    (/\ item.request \in DOMAIN told /\ told[item.request] = "ok"
     /\ end \in {"active", "committed"}) =>
      /\ item.what = "write" => item \in Range(engine.writes)
      /\ item.what = "commit" /\ end = "committed" => item \in Range(ran)
=============================================================================
