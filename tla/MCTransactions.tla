--------------------------- MODULE MCTransactions ---------------------------
(***************************************************************************)
(* The slots of open transactions (TxnSlots) and the statements of one     *)
(* explicit transaction (StatementTxn) in one model.  The parts share no   *)
(* state, so a behaviour is one of one part: `component` says of which.    *)
(* Meanwhile the variables of TxnSlots keep their initial values and those *)
(* of StatementTxn are Off.                                                *)
(***************************************************************************)
EXTENDS TxnSlots

CONSTANT Off

VARIABLES component,
  owned, opened, saved, collections, owed, depth, queue, layer, request, outliving, end, ran,
  kinds, told, made, before

statement == <<owned, opened, saved, collections, owed, depth, queue, layer, request,
               outliving, end, ran, kinds, told, made, before>>
all == <<vars, component, statement>>

\* Three requests of a transaction, with three items of work.
Alone == INSTANCE StatementTxn WITH
  MaxRequests <- 3, MaxItems <- 3, Holds <- {}, txn <- owned, open <- opened, engine <- layer
\* Three requests, parts of which may outlive them.
Held == INSTANCE StatementTxn WITH
  MaxRequests <- 3, MaxItems <- 2, Holds <- {"handle", "view", "iterator"},
  txn <- owned, open <- opened, engine <- layer

OffStatement ==
  /\ owned = Off /\ opened = Off /\ saved = Off /\ collections = Off /\ owed = Off
  /\ depth = Off /\ queue = Off /\ layer = Off /\ request = Off /\ outliving = Off
  /\ end = Off /\ ran = Off /\ kinds = Off /\ told = Off /\ made = Off /\ before = Off

MCInit ==
  /\ Init
  /\ \/ component = "slots" /\ OffStatement
     \/ component = "alone" /\ Alone!Init
     \/ component = "held" /\ Held!Init

MCNext ==
  /\ UNCHANGED component
  /\ \/ component = "slots" /\ Next /\ UNCHANGED statement
     \/ component = "alone" /\ Alone!Next /\ UNCHANGED vars
     \/ component = "held" /\ Held!Next /\ UNCHANGED vars

MCSpec == MCInit /\ [][MCNext]_all

-----------------------------------------------------------------------------
\* The three layers of a transaction hold a savepoint together or not at all; a
\* commit or an abort runs exactly the callbacks of the statements that were
\* kept, in their order; a statement that was answered without an error is not
\* undone by what comes after it (OwnedTxn, DbTxn, BasicTxn).
StatementsHold ==
  /\ component = "alone" => /\ Alone!TypeOK /\ Alone!LayersAgree
                            /\ Alone!EndRunsKept /\ Alone!KeptStays
  /\ component = "held" => Held!TypeOK /\ Held!LayersAgree /\ Held!KeptStays

\* A statement that failed, was cancelled or could not be opened leaves
\* nothing behind (after_request, rollback_statement_savepoint).
FailedIsUndone == [][component = "alone" => Alone!UndoneIfFailed]_all
=============================================================================
