----------------------------- MODULE AtLeastOnce -----------------------------
(***************************************************************************)
(* What both queues of the system promise, whatever fails on the way: an   *)
(* item that was accepted is delivered, perhaps more than once, and nobody *)
(* forgets it before that.  Items are input messages on their way into the *)
(* store, or events on their way out of it.                                *)
(***************************************************************************)
CONSTANT Items

VARIABLES accepted,    \* items somebody answers for
          delivered,   \* items that reached their destination at least once
          retired      \* items the sender no longer keeps

items == <<accepted, delivered, retired>>

Init == accepted = {} /\ delivered = {} /\ retired = {}

\* Items written together are accepted together.
Accept(new) ==
  /\ new # {} /\ new \cap accepted = {}
  /\ accepted' = accepted \cup new
  /\ UNCHANGED <<delivered, retired>>

Deliver(i) ==
  /\ i \in accepted \ delivered
  /\ delivered' = delivered \cup {i}
  /\ UNCHANGED <<accepted, retired>>

Retire(i) ==
  /\ i \in delivered \ retired
  /\ retired' = retired \cup {i}
  /\ UNCHANGED <<accepted, delivered>>

\* Delivered and retired in one stroke.
Move(i) ==
  /\ i \in accepted \ delivered
  /\ delivered' = delivered \cup {i}
  /\ retired' = retired \cup {i}
  /\ UNCHANGED accepted

Next ==
  \/ \E new \in SUBSET Items : Accept(new)
  \/ \E i \in Items : Deliver(i) \/ Retire(i) \/ Move(i)

Spec == Init /\ [][Next]_items

\* Nothing that was accepted stays where it is for ever.
Fairness == \A i \in Items : WF_items(Deliver(i) \/ Move(i)) /\ WF_items(Retire(i))

FairSpec == Spec /\ Fairness
=============================================================================
