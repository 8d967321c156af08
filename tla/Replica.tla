------------------------------- MODULE Replica -------------------------------
(***************************************************************************)
(* What a discovery stream promises, without its protocol: a node replaces *)
(* the world it serves in one step by a whole world that was offered to it *)
(* and that compiles, and is credited, per session and only upwards, with  *)
(* the sequence of an offered world whose content it committed.            *)
(***************************************************************************)
EXTENDS Naturals

CONSTANTS
  Contents,  \* worlds
  Bad        \* worlds that do not compile

VARIABLES
  offered,   \* the views offered in this session, each a content and a sequence
  serving,   \* the world the node serves
  committed, \* the worlds the node committed in this session
  credit     \* the sequence the control plane credits the node with

vars == <<offered, serving, committed, credit>>

Views == [content : Contents, seq : Nat]

Init ==
  /\ offered = {}
  /\ serving \in Contents \ Bad
  /\ committed = {}
  /\ credit = 0

\* Within a session views are only ever added.
OfferMore == offered \subseteq offered' /\ offered' \subseteq Views

Creditable(n) == \E v \in offered' : v.seq = n /\ v.content \in committed

\* A view is offered, and the credit may rise.
Offer ==
  /\ OfferMore
  /\ credit' = credit \/ (credit' > credit /\ Creditable(credit'))
  /\ UNCHANGED <<serving, committed>>

\* The node switches to an offered world.
Commit ==
  /\ \E v \in offered : v.content \notin Bad /\ serving' = v.content
  /\ committed' = committed \cup {serving'}
  /\ UNCHANGED <<offered, credit>>

\* A session ends: credit, offers and commitments are forgotten.
Forget ==
  /\ credit' = 0
  /\ offered' = {}
  /\ committed' = {}
  /\ UNCHANGED serving

Next == Offer \/ Commit \/ Forget

Spec == Init /\ [][Next]_vars
=============================================================================
