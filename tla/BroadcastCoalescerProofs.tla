----------------------- MODULE BroadcastCoalescerProofs -----------------------
(****************************************************************************)
(* AnswerCovers and OneWindow for any calls with any versions.              *)
(****************************************************************************)
EXTENDS BroadcastCoalescer, TLAPS

Following == {"following", "armed", "looking", "waiting"}
Joined == Following \cup {"offering", "swapping"}
Led == {"leading", "sealing", "sending", "answering", "returned",
        "unlisting", "cancelling", "waking", "dropped"}

\* A follower's update is no newer than the head of a window that was led, and
\* the call that led it will not list another.
FollowInv ==
  \A c \in Callers :
    /\ Version[c] <= candidate[c]
    /\ at[c] \in Following => candidate[c] <= latest[window[c]].version
    /\ at[c] \in Joined => at[window[c]] \in Led /\ window[c] \notin Undecodable
    /\ at[c] = "swapping" => ~loaded[c].sealed /\ candidate[c] > loaded[c].version
    /\ at[c] = "direct" => c \in Undecodable
    /\ c \in Undecodable =>
          at[c] \in {"idle", "direct", "returned", "dropped"} /\ window[c] = c

\* A leader sends what its sealed window holds.
LeadInv ==
  \A l \in Callers :
    /\ at[l] \in {"idle", "direct", "leading", "sealing", "sending", "answering"} => window[l] = l
    /\ at[l] \in {"leading", "sealing"} => candidate[l] <= latest[l].version
    /\ latest[l].version \in Versions \cup {0}
    /\ at[l] \in {"sending", "answering"} =>
          latest[l].sealed /\ candidate[l] = latest[l].version
    /\ at[l] = "answering" => result[l] = candidate[l]
    /\ result[l] # 0 => at[l] \in {"answering", "returned"}
    /\ result[l] # 0 /\ l \notin Undecodable =>
          latest[l].sealed /\ result[l] = latest[l].version

IInv == TypeOK /\ OneWindow /\ AnswerCovers /\ FollowInv /\ LeadInv
----------------------------------------------------------------------------
\* Every version is a positive natural number.
LEMMA Positive == \A v \in Versions : v \in Nat /\ v >= 1
BY CoalescerAssumption DEF Versions

\* No call has started.
LEMMA InitIInv == Init => IInv
BY CoalescerAssumption, Positive
   DEF Init, IInv, TypeOK, OneWindow, AnswerCovers, FollowInv, LeadInv,
       Versions, Places, Head, Empty, Following, Joined, Led

\* Every step of a call keeps the inductive invariant.
LEMMA StepIInv ==
  ASSUME IInv, NEW c \in Callers, Run(c) \/ Step(c) \/ Drop(c)
  PROVE  IInv'
<1> USE CoalescerAssumption, Positive DEF IInv, Go
<1>1. CASE Run(c)
  <2>1. TypeOK'
    BY <1>1 DEF Run, TypeOK, Places
  <2>2. OneWindow'
    BY <1>1 DEF Run, OneWindow
  <2>3. AnswerCovers'
    BY <1>1 DEF Run, AnswerCovers
  <2>4. FollowInv'
    BY <1>1 DEF Run, FollowInv, Following, Joined, Led
  <2>5. LeadInv'
    BY <1>1 DEF Run, LeadInv
  <2> QED BY <2>1, <2>2, <2>3, <2>4, <2>5
<1>2. CASE SendDirect(c)
  <2>1. TypeOK'
    BY <1>2 DEF SendDirect, TypeOK, Places
  <2>2. OneWindow'
    BY <1>2 DEF SendDirect, OneWindow
  <2>3. AnswerCovers'
    <3>1. result[c] = 0 /\ window[c] = c /\ Version[c] <= candidate[c]
      BY <1>2 DEF SendDirect, FollowInv, LeadInv
    <3>2. \A d \in Callers : at[d] = "returned" => d # c /\ window[d] # c
      BY <1>2, <3>1 DEF SendDirect, AnswerCovers
    <3> QED BY <1>2, <3>1, <3>2 DEF SendDirect, TypeOK, AnswerCovers
  <2>4. FollowInv'
    BY <1>2 DEF SendDirect, FollowInv, Following, Joined
  <2>5. LeadInv'
    BY <1>2 DEF SendDirect, TypeOK, FollowInv, LeadInv
  <2> QED BY <2>1, <2>2, <2>3, <2>4, <2>5
<1>3. CASE Admit(c)
  <2>1. TypeOK'
    <3>1. candidate[c] \in Nat
      BY DEF TypeOK
    <3>2. [version |-> candidate[c], sealed |-> FALSE] \in Head
      BY <3>1 DEF Head
    <3>3. latest' \in [Callers -> Head]
      <4>1. latest' = latest \/ latest' = [latest EXCEPT ![c] = [version |-> candidate[c], sealed |-> FALSE]]
        BY <1>3 DEF Admit
      <4>2. latest \in [Callers -> Head]
        BY DEF TypeOK
      <4> HIDE DEF IInv
      <4> QED BY <3>2, <4>1, <4>2
    <3>4. /\ at' \in [Callers -> Places] /\ window' \in [Callers -> Callers]
          /\ pending' \in Callers \cup {NoWindow}
      BY <1>3 DEF Admit, TypeOK, Places
    <3> QED BY <1>3, <3>3, <3>4 DEF Admit, TypeOK
  <2>2. OneWindow'
    BY <1>3 DEF Admit, TypeOK, OneWindow
  <2>3. AnswerCovers'
    BY <1>3 DEF Admit, TypeOK, AnswerCovers
  <2>4. FollowInv'
    <3>1. \A d \in Callers : at[d] \in Joined => window[d] # c
      BY <1>3 DEF Admit, FollowInv, Led
    <3>2. CASE pending = NoWindow
      BY <1>3, <3>1, <3>2 DEF Admit, TypeOK, FollowInv, Following, Joined
    <3>3. CASE pending # NoWindow
      <4>1. pending \in Callers /\ at[pending] \in Led /\ pending \notin Undecodable /\ pending # c
        BY <1>3, <3>3 DEF Admit, TypeOK, OneWindow, FollowInv, Led
      <4> QED BY <1>3, <3>1, <3>3, <4>1 DEF Admit, TypeOK, FollowInv, Following
    <3> QED BY <3>2, <3>3
  <2>5. LeadInv'
    BY <1>3 DEF Admit, TypeOK, LeadInv
  <2> QED BY <2>1, <2>2, <2>3, <2>4, <2>5
<1>4. CASE OfferLoad(c)
  <2>1. TypeOK'
    BY <1>4 DEF OfferLoad, TypeOK, Places, Head, Empty
  <2>2. OneWindow'
    BY <1>4 DEF OfferLoad, OneWindow
  <2>3. AnswerCovers'
    BY <1>4 DEF OfferLoad, AnswerCovers
  <2>4. FollowInv'
    BY <1>4 DEF OfferLoad, TypeOK, FollowInv, Head, Following, Joined, Led
  <2>5. LeadInv'
    BY <1>4 DEF OfferLoad, LeadInv
  <2> QED BY <2>1, <2>2, <2>3, <2>4, <2>5
<1>5. CASE OfferSwap(c)
  <2>1. TypeOK'
    <3>1. window[c] \in Callers /\ latest \in [Callers -> Head] /\ candidate[c] \in Nat
      BY DEF TypeOK
    <3>2. [latest[window[c]] EXCEPT !.version = candidate[c]] \in Head /\ Empty \in Head
      BY <3>1 DEF Head, Empty
    <3>3. latest' \in [Callers -> Head]
      BY <1>5, <3>1, <3>2 DEF OfferSwap
    <3>4. at' \in [Callers -> Places] /\ loaded' \in [Callers -> Head]
      BY <1>5, <3>2 DEF OfferSwap, TypeOK, Places
    <3> QED BY <1>5, <3>3, <3>4 DEF OfferSwap, TypeOK
  <2>2. OneWindow'
    BY <1>5 DEF OfferSwap, OneWindow
  <2>3. AnswerCovers'
    BY <1>5 DEF OfferSwap, AnswerCovers
  <2>4. FollowInv'
    BY <1>5 DEF OfferSwap, TypeOK, FollowInv, Head, Following, Joined, Led
  <2>5. LeadInv'
    BY <1>5 DEF OfferSwap, TypeOK, FollowInv, LeadInv
  <2> QED BY <2>1, <2>2, <2>3, <2>4, <2>5
<1>6. CASE Notified(c)
  <2>1. TypeOK'
    BY <1>6 DEF Notified, TypeOK, Places
  <2>2. OneWindow'
    BY <1>6 DEF Notified, OneWindow
  <2>3. AnswerCovers'
    BY <1>6 DEF Notified, AnswerCovers
  <2>4. FollowInv'
    BY <1>6 DEF Notified, FollowInv, Following, Joined, Led
  <2>5. LeadInv'
    BY <1>6 DEF Notified, LeadInv
  <2> QED BY <2>1, <2>2, <2>3, <2>4, <2>5
<1>7. CASE LookResult(c)
  <2>1. TypeOK'
    BY <1>7 DEF LookResult, TypeOK, Places
  <2>2. OneWindow'
    BY <1>7 DEF LookResult, OneWindow
  <2>3. AnswerCovers'
    BY <1>7 DEF LookResult, TypeOK, AnswerCovers, FollowInv, LeadInv, Following, Joined
  <2>4. FollowInv'
    BY <1>7 DEF LookResult, FollowInv, Following, Joined, Led
  <2>5. LeadInv'
    BY <1>7 DEF LookResult, LeadInv
  <2> QED BY <2>1, <2>2, <2>3, <2>4, <2>5
<1>8. CASE LookCancelled(c)
  <2>1. TypeOK'
    BY <1>8 DEF LookCancelled, TypeOK, FollowInv, LeadInv, Places, Following
  <2>2. OneWindow'
    BY <1>8 DEF LookCancelled, OneWindow
  <2>3. AnswerCovers'
    BY <1>8 DEF LookCancelled, AnswerCovers
  <2>4. FollowInv'
    BY <1>8 DEF LookCancelled, TypeOK, FollowInv, Head, Following, Joined, Led
  <2>5. LeadInv'
    BY <1>8 DEF LookCancelled, LeadInv
  <2> QED BY <2>1, <2>2, <2>3, <2>4, <2>5
<1>9. CASE Wake(c)
  <2>1. TypeOK'
    BY <1>9 DEF Wake, TypeOK, Places
  <2>2. OneWindow'
    BY <1>9 DEF Wake, OneWindow
  <2>3. AnswerCovers'
    BY <1>9 DEF Wake, AnswerCovers
  <2>4. FollowInv'
    BY <1>9 DEF Wake, FollowInv, Following, Joined, Led
  <2>5. LeadInv'
    BY <1>9 DEF Wake, LeadInv
  <2> QED BY <2>1, <2>2, <2>3, <2>4, <2>5
<1>10. CASE Unlist(c)
  <2>1. TypeOK'
    BY <1>10 DEF Unlist, TypeOK, Places
  <2>2. OneWindow'
    BY <1>10 DEF Unlist, TypeOK, OneWindow
  <2>3. AnswerCovers'
    BY <1>10 DEF Unlist, AnswerCovers
  <2>4. FollowInv'
    BY <1>10 DEF Unlist, FollowInv, LeadInv, Led
  <2>5. LeadInv'
    BY <1>10 DEF Unlist, LeadInv
  <2> QED BY <2>1, <2>2, <2>3, <2>4, <2>5
<1>11. CASE Seal(c)
  <2>1. TypeOK'
    <3>1. latest[c] \in Head /\ latest[c].version \in Versions
      BY <1>11 DEF Seal, TypeOK, LeadInv
    <3>2. [latest[c] EXCEPT !.sealed = TRUE] \in Head
      BY <3>1 DEF Head
    <3>3. latest' \in [Callers -> Head] /\ candidate' \in [Callers -> Versions]
      BY <1>11, <3>1, <3>2 DEF Seal, TypeOK
    <3>4. at' \in [Callers -> Places]
      BY <1>11 DEF Seal, TypeOK, Places
    <3> QED BY <1>11, <3>3, <3>4 DEF Seal, TypeOK
  <2>2. OneWindow'
    BY <1>11 DEF Seal, OneWindow
  <2>3. AnswerCovers'
    BY <1>11 DEF Seal, AnswerCovers
  <2>4. FollowInv'
    BY <1>11 DEF Seal, TypeOK, FollowInv, LeadInv, Head, Led
  <2>5. LeadInv'
    BY <1>11 DEF Seal, TypeOK, LeadInv
  <2> QED BY <2>1, <2>2, <2>3, <2>4, <2>5
<1>12. CASE StoreResult(c)
  <2>1. TypeOK'
    BY <1>12 DEF StoreResult, TypeOK, Places
  <2>2. OneWindow'
    BY <1>12 DEF StoreResult, OneWindow
  <2>3. AnswerCovers'
    BY <1>12 DEF StoreResult, AnswerCovers, LeadInv
  <2>4. FollowInv'
    BY <1>12 DEF StoreResult, FollowInv, LeadInv, Led
  <2>5. LeadInv'
    BY <1>12 DEF StoreResult, TypeOK, LeadInv
  <2> QED BY <2>1, <2>2, <2>3, <2>4, <2>5
<1>13. CASE Complete(c)
  <2>1. TypeOK'
    BY <1>13 DEF Complete, TypeOK, Places, Reached
  <2>2. OneWindow'
    BY <1>13 DEF Complete, OneWindow
  <2>3. AnswerCovers'
    BY <1>13 DEF Complete, AnswerCovers, FollowInv, LeadInv
  <2>4. FollowInv'
    BY <1>13 DEF Complete, FollowInv, LeadInv, Led
  <2>5. LeadInv'
    BY <1>13 DEF Complete, LeadInv
  <2> QED BY <2>1, <2>2, <2>3, <2>4, <2>5
<1>14. CASE Drop(c)
  <2>0. PICK there \in {"dropped", "unlisting", "cancelling"} :
          /\ at' = [at EXCEPT ![c] = there]
          /\ at[c] \in {"waiting", "direct", "leading", "sending"}
          /\ there = "unlisting" <=> at[c] = "leading"
          /\ at[c] = "direct" => there = "dropped"
          /\ UNCHANGED <<candidate, window, pending, latest, loaded, result, cancelled, woken>>
    BY <1>14 DEF Drop
  <2>1. TypeOK'
    BY <2>0 DEF TypeOK, Places
  <2>2. OneWindow'
    BY <2>0 DEF TypeOK, OneWindow
  <2>3. AnswerCovers'
    BY <2>0 DEF TypeOK, AnswerCovers
  <2>4. FollowInv'
    BY <2>0 DEF TypeOK, FollowInv, Following, Joined, Led
  <2>5. LeadInv'
    BY <2>0 DEF TypeOK, LeadInv
  <2> QED BY <2>1, <2>2, <2>3, <2>4, <2>5
<1>15. CASE DropUnlist(c)
  <2>1. TypeOK'
    BY <1>15 DEF DropUnlist, TypeOK, Places
  <2>2. OneWindow'
    BY <1>15 DEF DropUnlist, TypeOK, OneWindow
  <2>3. AnswerCovers'
    BY <1>15 DEF DropUnlist, AnswerCovers
  <2>4. FollowInv'
    BY <1>15 DEF DropUnlist, FollowInv, Following, Joined, Led
  <2>5. LeadInv'
    BY <1>15 DEF DropUnlist, LeadInv
  <2> QED BY <2>1, <2>2, <2>3, <2>4, <2>5
<1>16. CASE DropCancel(c)
  <2>1. TypeOK'
    BY <1>16 DEF DropCancel, TypeOK, Places
  <2>2. OneWindow'
    BY <1>16 DEF DropCancel, OneWindow
  <2>3. AnswerCovers'
    BY <1>16 DEF DropCancel, AnswerCovers
  <2>4. FollowInv'
    BY <1>16 DEF DropCancel, FollowInv, Following, Joined, Led
  <2>5. LeadInv'
    BY <1>16 DEF DropCancel, LeadInv
  <2> QED BY <2>1, <2>2, <2>3, <2>4, <2>5
<1>17. CASE DropNotify(c)
  <2>1. TypeOK'
    BY <1>17 DEF DropNotify, TypeOK, Places, Reached
  <2>2. OneWindow'
    BY <1>17 DEF DropNotify, OneWindow
  <2>3. AnswerCovers'
    BY <1>17 DEF DropNotify, AnswerCovers
  <2>4. FollowInv'
    BY <1>17 DEF DropNotify, FollowInv, Following, Joined, Led
  <2>5. LeadInv'
    BY <1>17 DEF DropNotify, LeadInv
  <2> QED BY <2>1, <2>2, <2>3, <2>4, <2>5
<1> QED BY <1>1, <1>2, <1>3, <1>4, <1>5, <1>6, <1>7, <1>8, <1>9, <1>10, <1>11, <1>12, <1>13, <1>14, <1>15, <1>16, <1>17 DEF Step

\* The inductive invariant of the coalescer.
THEOREM CoalescerInvariant == Spec => []IInv
<1>1. IInv /\ [Next]_vars => IInv'
  <2> SUFFICES ASSUME IInv, [Next]_vars PROVE IInv'
    OBVIOUS
  <2>1. CASE Next
    BY <2>1, StepIInv DEF Next
  <2>2. CASE UNCHANGED vars
    BY <2>2 DEF vars, IInv, TypeOK, OneWindow, AnswerCovers, FollowInv, LeadInv
  <2> QED BY <2>1, <2>2
<1> QED BY <1>1, InitIInv, PTL DEF Spec

\* run: the types of its state, for any calls.
THEOREM CoalescerTypes == Spec => []TypeOK
BY CoalescerInvariant, PTL DEF IInv

\* run: the result a call returns is of a send of its own update or a newer one.
THEOREM ResultCovers == Spec => []AnswerCovers
BY CoalescerInvariant, PTL DEF IInv

\* BroadcastLeaderGuard: the key lists exactly the window that still gathers.
THEOREM WindowListed == Spec => []OneWindow
BY CoalescerInvariant, PTL DEF IInv
===========================================================================
