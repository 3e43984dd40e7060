-------------------------- MODULE BroadcastCoalescer --------------------------
(****************************************************************************)
(* crates/p2p/src/sync/broadcast_coalescer.rs, for one document or          *)
(* collection: concurrent calls of run.  The first call to list a window    *)
(* leads it, waits for quiet, unlists and seals it, and sends the newest    *)
(* update; the others offer theirs to it and share its result.  Any call    *)
(* may be dropped where it awaits.                                          *)
(*                                                                          *)
(* A call leads at most once, so a window is named by its leader.  Versions *)
(* (priority, CID) are naturals in the same order.  Time is left out: the   *)
(* quiet period may end at any moment.                                      *)
(****************************************************************************)
EXTENDS Naturals

CONSTANTS
  Callers,      \* the calls of run
  Version,      \* version(): what each call's broadcast decodes to
  Undecodable,  \* the calls whose broadcast does not decode
  NoWindow      \* no window is listed under the key

ASSUME CoalescerAssumption ==
  /\ Version \in [Callers -> Nat \ {0}]
  /\ Undecodable \subseteq Callers
  /\ NoWindow \notin Callers

VARIABLES
  at,         \* where each call is
  candidate,  \* the version it wants sent
  window,     \* the window it follows or leads
  pending,    \* the window listed under the key
  latest,     \* each window's head, and whether it is sealed
  loaded,     \* the head an offer loaded, until its swap
  result,     \* the version each window's stored result is about, or 0
  cancelled,  \* windows whose leader was dropped
  woken       \* followers a notification reached

vars == <<at, candidate, window, pending, latest, loaded, result, cancelled, woken>>

Head == [version : Nat, sealed : BOOLEAN]
Empty == [version |-> 0, sealed |-> FALSE]

Init ==
  /\ at = [c \in Callers |-> "idle"]
  /\ candidate = Version
  /\ window = [c \in Callers |-> c]
  /\ pending = NoWindow
  /\ latest = [c \in Callers |-> Empty]
  /\ loaded = [c \in Callers |-> Empty]
  /\ result = [c \in Callers |-> 0]
  /\ cancelled = {}
  /\ woken = {}

Go(c, from, to) ==
  /\ at[c] = from
  /\ at' = [at EXCEPT ![c] = to]

Run(c) ==
  /\ Go(c, "idle", IF c \in Undecodable THEN "direct" ELSE "admit")
  /\ UNCHANGED <<candidate, window, pending, latest, loaded, result, cancelled, woken>>

\* An update without a version is sent on its own.
SendDirect(c) ==
  /\ Go(c, "direct", "returned")
  /\ result' = [result EXCEPT ![c] = candidate[c]]
  /\ UNCHANGED <<candidate, window, pending, latest, loaded, cancelled, woken>>

----------------------------------------------------------------------------
(* Election, and a follower's offer: a load, then a compare_and_swap. *)

Admit(c) ==
  /\ Go(c, "admit", IF pending = NoWindow THEN "leading" ELSE "offering")
  /\ IF pending = NoWindow
     THEN /\ pending' = c
          /\ window' = [window EXCEPT ![c] = c]
          /\ latest' = [latest EXCEPT ![c] = [version |-> candidate[c], sealed |-> FALSE]]
     ELSE /\ window' = [window EXCEPT ![c] = pending]
          /\ UNCHANGED <<pending, latest>>
  /\ UNCHANGED <<candidate, loaded, result, cancelled, woken>>

OfferLoad(c) ==
  LET current == latest[window[c]]
  IN  /\ Go(c, "offering", IF candidate[c] <= current.version THEN "following"
                           ELSE IF current.sealed THEN "admit" ELSE "swapping")
      /\ loaded' = [loaded EXCEPT ![c] = IF at'[c] = "swapping" THEN current ELSE Empty]
      /\ UNCHANGED <<candidate, window, pending, latest, result, cancelled, woken>>

OfferSwap(c) ==
  LET same == latest[window[c]] = loaded[c]
  IN  /\ Go(c, "swapping", IF same THEN "following" ELSE "offering")
      /\ latest' = IF same THEN [latest EXCEPT ![window[c]].version = candidate[c]] ELSE latest
      /\ loaded' = [loaded EXCEPT ![c] = Empty]
      /\ UNCHANGED <<candidate, window, pending, result, cancelled, woken>>

----------------------------------------------------------------------------
(* A follower: its Notified exists before it looks. *)

Notified(c) ==
  /\ Go(c, "following", "armed")
  /\ woken' = woken \ {c}
  /\ UNCHANGED <<candidate, window, pending, latest, loaded, result, cancelled>>

LookResult(c) ==
  /\ Go(c, "armed", IF result[window[c]] # 0 THEN "returned" ELSE "looking")
  /\ UNCHANGED <<candidate, window, pending, latest, loaded, result, cancelled, woken>>

LookCancelled(c) ==
  /\ Go(c, "looking", IF window[c] \in cancelled THEN "admit" ELSE "waiting")
  /\ candidate' = IF window[c] \in cancelled
                  THEN [candidate EXCEPT ![c] = latest[window[c]].version] ELSE candidate
  /\ UNCHANGED <<window, pending, latest, loaded, result, cancelled, woken>>

Wake(c) ==
  /\ c \in woken
  /\ Go(c, "waiting", "following")
  /\ UNCHANGED <<candidate, window, pending, latest, loaded, result, cancelled, woken>>

Reached(l) == {c \in Callers : at[c] \in {"armed", "looking", "waiting"} /\ window[c] = l}

----------------------------------------------------------------------------
(* The leader. *)

Unlist(l) ==
  /\ Go(l, "leading", "sealing")
  /\ pending' = NoWindow
  /\ UNCHANGED <<candidate, window, latest, loaded, result, cancelled, woken>>

\* As if the window stayed open while its head is sent.
SealNothing(l) ==
  /\ Go(l, "sealing", "sending")
  /\ candidate' = [candidate EXCEPT ![l] = latest[l].version]
  /\ UNCHANGED <<window, pending, latest, loaded, result, cancelled, woken>>

Seal(l) ==
  /\ Go(l, "sealing", "sending")
  /\ latest' = [latest EXCEPT ![l].sealed = TRUE]
  /\ candidate' = [candidate EXCEPT ![l] = latest[l].version]
  /\ UNCHANGED <<window, pending, loaded, result, cancelled, woken>>

\* The send of latest, here the leader's candidate, ends, well or not; what it
\* returned is shared.
StoreResult(l) ==
  /\ Go(l, "sending", "answering")
  /\ result' = [result EXCEPT ![l] = candidate[l]]
  /\ UNCHANGED <<candidate, window, pending, latest, loaded, cancelled, woken>>

Complete(l) ==
  /\ Go(l, "answering", "returned")
  /\ woken' = woken \cup Reached(l)
  /\ UNCHANGED <<candidate, window, pending, latest, loaded, result, cancelled>>

----------------------------------------------------------------------------
(* A call is dropped where it awaits; a leader's guard then ends its window. *)

\* As if the guard unlisted the key whether or not it had done so.
DropUnlists(c) ==
  /\ \/ Go(c, "waiting", "dropped") \/ Go(c, "direct", "dropped")
     \/ Go(c, "leading", "unlisting")
     \/ Go(c, "sending", "unlisting")
  /\ UNCHANGED <<candidate, window, pending, latest, loaded, result, cancelled, woken>>

Drop(c) ==
  /\ \/ Go(c, "waiting", "dropped") \/ Go(c, "direct", "dropped")
     \/ Go(c, "leading", "unlisting")
     \/ Go(c, "sending", "cancelling")
  /\ UNCHANGED <<candidate, window, pending, latest, loaded, result, cancelled, woken>>

DropUnlist(l) ==
  /\ Go(l, "unlisting", "cancelling")
  /\ pending' = NoWindow
  /\ UNCHANGED <<candidate, window, latest, loaded, result, cancelled, woken>>

DropCancel(l) ==
  /\ Go(l, "cancelling", "waking")
  /\ cancelled' = cancelled \cup {l}
  /\ UNCHANGED <<candidate, window, pending, latest, loaded, result, woken>>

DropNotify(l) ==
  /\ Go(l, "waking", "dropped")
  /\ woken' = woken \cup Reached(l)
  /\ UNCHANGED <<candidate, window, pending, latest, loaded, result, cancelled>>

----------------------------------------------------------------------------
Step(c) ==
  \/ SendDirect(c) \/ Admit(c) \/ OfferLoad(c) \/ OfferSwap(c)
  \/ Notified(c) \/ LookResult(c) \/ LookCancelled(c) \/ Wake(c)
  \/ Unlist(c) \/ Seal(c) \/ StoreResult(c) \/ Complete(c)
  \/ DropUnlist(c) \/ DropCancel(c) \/ DropNotify(c)

Next == \E c \in Callers : Run(c) \/ Step(c) \/ Drop(c)

Spec == Init /\ [][Next]_vars

\* A started call is polled, its timer fires by max_delay, its send ends.
FairSpec == Spec /\ \A c \in Callers : WF_vars(Step(c))

----------------------------------------------------------------------------
Versions == {Version[c] : c \in Callers}

Places == {"idle", "direct", "admit", "offering", "swapping", "following", "armed", "looking",
           "waiting", "leading", "sealing", "sending", "answering", "returned",
           "unlisting", "cancelling", "waking", "dropped"}

\* A call is at one place of run, and sends nothing that no call brought.
TypeOK ==
  /\ at \in [Callers -> Places]
  /\ candidate \in [Callers -> Versions]
  /\ window \in [Callers -> Callers]
  /\ pending \in Callers \cup {NoWindow}
  /\ latest \in [Callers -> Head]
  /\ loaded \in [Callers -> Head]
  /\ result \in [Callers -> Nat]
  /\ cancelled \subseteq Callers
  /\ woken \subseteq Callers

\* run: whatever offers, seals and cancellations interleave, the result a call
\* returns is of a send of its own update or of a newer one.
AnswerCovers ==
  \A c \in Callers : at[c] = "returned" => result[window[c]] >= Version[c]

\* BroadcastLeaderGuard: the key lists a window exactly while its leader still
\* gathers updates.  A guard that removes the key never removes the window of
\* the next leader, and no caller finds one that will take no more.
OneWindow ==
  \A l \in Callers : pending = l <=> at[l] \in {"leading", "unlisting"}
=============================================================================
