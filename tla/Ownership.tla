------------------------------ MODULE Ownership ------------------------------
(***************************************************************************)
(* What the transfer of a collection promises, without requests, codes,    *)
(* links or handlers: a collection has one owner and at most one open      *)
(* offer, made by that owner; it changes hands only when the person it was *)
(* offered to takes that offer, and the offer is gone with it.             *)
(*                                                                         *)
(* "disturbed" is the way out the code needs: once two handlers have met   *)
(* in one of the windows CollectionTransfer names, or one could not cancel *)
(* the offer it replaces, nothing is promised.                             *)
(***************************************************************************)
CONSTANTS Collections, Users, NoOne, Ids

VARIABLES owner, offers, disturbed

book == <<owner, offers, disturbed>>

Offers == [id : Ids, collection : Collections, from : Users, to : Users]

Opened == 
  /\ owner = [c \in Collections |-> NoOne]
  /\ offers = {}
  /\ disturbed = FALSE

Open(c, u) ==
  /\ owner[c] = NoOne
  /\ owner' = [owner EXCEPT ![c] = u]
  /\ UNCHANGED offers

\* A new offer replaces the one before it.
Offer(i, c, u) ==
  /\ owner[c] \in Users
  /\ offers' = {o \in offers : o.collection # c}
                 \cup {[id |-> i, collection |-> c, from |-> owner[c], to |-> u]}
  /\ UNCHANGED owner

\* Withdrawn by the owner, declined, or lapsed.
Withdraw ==
  /\ offers' \subseteq offers
  /\ UNCHANGED owner

HandOver(o) ==
  /\ owner[o.collection] = o.from
  /\ owner' = [owner EXCEPT ![o.collection] = o.to]
  /\ offers' = offers \ {o}

Undisturbed ==
  /\ ~disturbed
  /\ ~disturbed'
  /\ \/ \E c \in Collections, u \in Users :
          Open(c, u) \/ \E i \in Ids : Offer(i, c, u)
     \/ Withdraw
     \/ \E o \in offers : HandOver(o)

Promise == Opened /\ [][Undisturbed \/ disturbed']_book

\* The promise in one state: the offers open for a collection are one, of its
\* present owner.
OneOfferByTheOwner ==
  ~disturbed =>
    \A o \in offers :
      /\ owner[o.collection] = o.from
      /\ \A q \in offers : q.collection = o.collection => q = o
=============================================================================
