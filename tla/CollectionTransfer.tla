------------------------- MODULE CollectionTransfer -------------------------
(***************************************************************************)
(* Who owns a collection: its creation (services/collectionService.js),    *)
(* its deletion and re-activation (updateCollectionStatus), and the        *)
(* transfer to another user (controllers/collectionTransfer.js).           *)
(*                                                                         *)
(* A transfer is a row of collection_transfer_requests: the owner asks,    *)
(* confirms with a code, and the recipient follows a link and accepts.     *)
(* Every handler first reads (ownership, the row, the KYC cap) and then    *)
(* writes, one action per call that matters; nothing locks, so handlers    *)
(* meet between their reads and their writes.                              *)
(***************************************************************************)
EXTENDS Naturals, FiniteSets

CONSTANTS
  Collections,   \* collections that may be created
  Users,
  NoOne,         \* the owner of a collection that does not exist yet
  Offered,       \* those a transfer is asked for (a bound)
  MaxRequests,   \* bound on rows of collection_transfer_requests
  Sessions,      \* handlers in flight at the same time
  Faults,        \* a handler may die, a mail may not be sent
  Revocable      \* a verified user may lose the verification

ASSUME TransferAssumption ==
  /\ NoOne \notin Users /\ Offered \subseteq Collections /\ IsFiniteSet(Collections)
  /\ MaxRequests \in Nat
  /\ Faults \in BOOLEAN /\ Revocable \in BOOLEAN

VARIABLES
  owner,      \* collections.user_id
  deleted,    \* collections with status 'deleted'
  verified,   \* users whose kyc_verifications.status is 'verified'
  request,    \* the transfer requests, in the order of created_at
  work,       \* where each handler in flight stands
  moved,      \* history: requests that have handed their collection over
  slips       \* history: "owner" once two handlers met in one of the windows
              \* below or open requests could not be cancelled, "cap" once the cap
              \* was checked on what then changed, or let pass though not counted

vars == <<owner, deleted, verified, request, work, moved, slips>>
collections == <<owner, deleted, verified>>
history == <<moved, slips>>

Requests == 1..MaxRequests
Idle == [at |-> "idle"]
NoRequest == [status |-> "none"]

Init ==
  /\ owner = [c \in Collections |-> NoOne]
  /\ deleted = {}
  /\ verified = {}
  /\ request = [r \in Requests |-> NoRequest]
  /\ work = [s \in Sessions |-> Idle]
  /\ moved = {} /\ slips = {}

Goto(s, step) == work' = [work EXCEPT ![s] = step]
Slip(kind, when) == slips' = IF when THEN slips \cup {kind} ELSE slips
Others(s) == Sessions \ {s}

Owned(u) == {c \in Collections \ deleted : owner[c] = u}

\* Mutant: one more than the cap allows.
BlockedPastTwo(u) == u \notin verified /\ Cardinality(Owned(u)) > 1

\* recipientBlockedByKycCap, and assertCanCreate at creation.
BlockedByKycCap(u) == u \notin verified /\ Owned(u) # {}

\* In a transfer nobody looks at the error of the count, and no count is below one.
\* (At creation the error is thrown.)
PassesCap(u) == ~BlockedByKycCap(u) \/ Faults

Pending(c) ==
  {r \in Requests : request[r].status = "pending" /\ request[r].collection = c}

\* The rows an UPDATE names get a status; the code and the link of a request
\* that is not pending are of no more use.
Resolve(rs, status) ==
  request' = [r \in Requests |->
                IF r \in rs
                THEN [request[r] EXCEPT !.status = status, !.code = "lapsed",
                                        !.link = "none"]
                ELSE request[r]]

-----------------------------------------------------------------------------
\* The windows.  A handler that accepts has read its request and the cap; one
\* that requests has read the owner, and between its two writes has cancelled
\* what was pending.

Accepting(s, rs) == work[s].at = "accepting" /\ work[s].request \in rs
Asking(s, c) ==
  work[s].at \in {"cancelling", "inserting"} /\ work[s].collection = c

\* Those who passed the cap check for u and have not used it yet.
PassedCap(s, u) ==
  \/ work[s].at = "creating" /\ work[s].user = u
  \/ work[s].at = "accepting" /\ request[work[s].request].to = u

\* 1. These requests are resolved under an acceptance in flight.
Late(s, rs) == \E t \in Others(s) : Accepting(t, rs)

\* 2. Two requests both cancel before either inserts.
Twice(s, c) == \E t \in Others(s) : work[t].at = "inserting" /\ Asking(t, c)

\* 3. The collection moves under a request in flight, or under the acceptance
\* of another one.
MovedUnder(s, r) ==
  LET c == request[r].collection IN
  \E t \in Others(s) :
    \/ Asking(t, c)
    \/ work[t].at = "accepting" /\ work[t].request # r
         /\ request[work[t].request].collection = c

\* 4. Requests stay open that the handler failed to cancel.
Uncancelled(c) == Pending(c) # {}

-----------------------------------------------------------------------------
\* Creation, deletion, re-activation, and the KYC status others decide.

Create(s, u) ==
  /\ work[s] = Idle
  /\ ~BlockedByKycCap(u)
  /\ Goto(s, [at |-> "creating", user |-> u])
  /\ UNCHANGED <<collections, request, history>>

InsertCollection(s, c) ==
  /\ work[s].at = "creating"
  /\ owner[c] = NoOne
  /\ owner' = [owner EXCEPT ![c] = work[s].user]
  /\ Slip("cap", \E t \in Others(s) : PassedCap(t, work[s].user))
  /\ Goto(s, Idle)
  /\ UNCHANGED <<deleted, verified, request, moved>>

\* updateCollectionStatus: the UPDATE takes whatever status the caller names,
\* repeats no check of the read before it, and asks for no cap.
SetStatus(c) ==
  /\ owner[c] # NoOne
  /\ \/ deleted' = deleted \cup {c} /\ UNCHANGED slips
     \/ deleted' = deleted \ {c} /\ Slip("cap", c \in deleted)
  /\ UNCHANGED <<owner, verified, request, work, moved>>

KycDecided(u) ==
  /\ \/ u \notin verified /\ verified' = verified \cup {u} /\ UNCHANGED slips
     \/ /\ Revocable /\ u \in verified /\ verified' = verified \ {u}
        /\ Slip("cap", \E s \in Sessions : PassedCap(s, u))
  /\ UNCHANGED <<owner, deleted, request, work, moved>>

-----------------------------------------------------------------------------
\* requestCollectionTransfer: loads the collection, checks the recipient's cap,
\* cancels what is pending, inserts the row, mails the code.

RequestTransfer(s, c, to) ==
  /\ work[s] = Idle
  /\ c \in Offered
  /\ owner[c] \in Users \ {to}
  /\ PassesCap(to)
  /\ Goto(s, [at |-> "cancelling", collection |-> c, from |-> owner[c], to |-> to])
  /\ UNCHANGED <<collections, request, history>>

\* Mutant: a request whose code was confirmed stays open.
CancelUnconfirmed(s) ==
  LET c == work[s].collection
      unconfirmed == {r \in Pending(c) : request[r].link = "none"}
  IN
  /\ work[s].at = "cancelling"
  /\ Resolve(unconfirmed, "cancelled")
  /\ Slip("owner", Late(s, unconfirmed) \/ Twice(s, c))
  /\ Goto(s, [work[s] EXCEPT !.at = "inserting"])
  /\ UNCHANGED <<collections, moved>>

\* The new request is inserted whether or not this UPDATE succeeded.
CancelPending(s) ==
  LET c == work[s].collection IN
  /\ work[s].at = "cancelling"
  /\ \/ /\ Resolve(Pending(c), "cancelled")
        /\ Slip("owner", Late(s, Pending(c)) \/ Twice(s, c))
     \/ /\ Faults
        /\ UNCHANGED request
        /\ Slip("owner", Uncancelled(c) \/ Twice(s, c))
  /\ Goto(s, [work[s] EXCEPT !.at = "inserting"])
  /\ UNCHANGED <<collections, moved>>

InsertRequest(s, r) ==
  /\ work[s].at = "inserting"
  /\ request[r] = NoRequest
  /\ \A q \in Requests : q < r => request[q] # NoRequest
  /\ request' = [request EXCEPT ![r] =
       [status |-> "pending", collection |-> work[s].collection,
        from |-> work[s].from, to |-> work[s].to, code |-> "fresh", link |-> "none"]]
  /\ Goto(s, [at |-> "mailing", request |-> r])
  /\ UNCHANGED <<collections, history>>

\* The code reaches the owner, or the row is cancelled if it is still pending; when
\* that UPDATE fails too, the row stays as it is.
MailCode(s) ==
  /\ work[s].at = "mailing"
  /\ \/ UNCHANGED <<request, slips>>
     \/ LET rs == {work[s].request} \cap
                    {r \in Requests : request[r].status = "pending"}
        IN /\ Faults
           /\ Resolve(rs, "cancelled")
           /\ Slip("owner", Late(s, rs))
  /\ Goto(s, Idle)
  /\ UNCHANGED <<collections, moved>>

-----------------------------------------------------------------------------
\* verifyCollectionTransferOtp: the latest pending row of this owner.

IsLatest(r) ==
  /\ request[r].status = "pending"
  /\ \A q \in Pending(request[r].collection) :
       request[q].from = request[r].from => q <= r

VerifyOtp(s, r) ==
  /\ work[s] = Idle
  /\ IsLatest(r)
  /\ owner[request[r].collection] = request[r].from
  /\ Goto(s, [at |-> IF request[r].code = "lapsed" THEN "expiring" ELSE "confirming",
              request |-> r])
  /\ UNCHANGED <<collections, request, history>>

\* By id, whatever became of the row; only then is the link mailed.
ConfirmRequest(s) ==
  /\ work[s].at = "confirming"
  /\ IF request[work[s].request].status = "pending"
     THEN request' = [request EXCEPT ![work[s].request].link = "fresh"]
     ELSE UNCHANGED request
  /\ Goto(s, Idle)
  /\ UNCHANGED <<collections, history>>

\* Mutant: a status the other handlers do not know.
ExpireAsLapsed(s) ==
  /\ work[s].at = "expiring"
  /\ Resolve({work[s].request}, "lapsed")
  /\ Slip("owner", Late(s, {work[s].request}))
  /\ Goto(s, Idle)
  /\ UNCHANGED <<collections, moved>>

ExpireRequest(s) ==
  /\ work[s].at = "expiring"
  /\ Resolve({work[s].request}, "expired")
  /\ Slip("owner", Late(s, {work[s].request}))
  /\ Goto(s, Idle)
  /\ UNCHANGED <<collections, moved>>

\* Ten minutes for the code, seven days for the link.
Lapse(r) ==
  /\ \/ /\ request[r].status = "pending" /\ request[r].code = "fresh"
        /\ request' = [request EXCEPT ![r].code = "lapsed"]
     \/ /\ request[r].status = "pending" /\ request[r].link = "fresh"
        /\ request[r].code = "lapsed"
        /\ request' = [request EXCEPT ![r].link = "lapsed"]
  /\ UNCHANGED <<collections, work, history>>

-----------------------------------------------------------------------------
\* respondToCollectionTransfer, called by the recipient.

Respond(s, r) ==
  /\ work[s] = Idle
  /\ request[r].status = "pending"
  /\ \/ /\ request[r].link = "lapsed"
        /\ Goto(s, [at |-> "expiring", request |-> r])
        /\ UNCHANGED slips
     \/ /\ request[r].link = "fresh"
        /\ Goto(s, [at |-> "declining", request |-> r])
        /\ UNCHANGED slips
     \/ /\ request[r].link = "fresh"
        /\ PassesCap(request[r].to)
        /\ Goto(s, [at |-> "accepting", request |-> r])
        /\ Slip("cap", BlockedByKycCap(request[r].to))
  /\ UNCHANGED <<collections, request, moved>>

Decline(s) ==
  /\ work[s].at = "declining"
  /\ Resolve({work[s].request}, "declined")
  /\ Slip("owner", Late(s, {work[s].request}))
  /\ Goto(s, Idle)
  /\ UNCHANGED <<collections, moved>>

\* UPDATE collections SET user_id .. WHERE id: the giver is not asked again.
MoveCollection(s) ==
  LET r == work[s].request
      c == request[r].collection
  IN
  /\ work[s].at = "accepting"
  /\ owner' = [owner EXCEPT ![c] = request[r].to]
  /\ moved' = moved \cup {r}
  /\ slips' = slips
       \cup (IF MovedUnder(s, r) THEN {"owner"} ELSE {})
       \cup (IF \E t \in Others(s) : PassedCap(t, request[r].to) THEN {"cap"} ELSE {})
  /\ Goto(s, [at |-> "closing", request |-> r])
  /\ UNCHANGED <<deleted, verified, request>>

\* By id.
CloseRequest(s) ==
  /\ work[s].at = "closing"
  /\ Resolve({work[s].request}, "accepted")
  /\ Goto(s, Idle)
  /\ UNCHANGED <<collections, history>>

-----------------------------------------------------------------------------
\* cancelCollectionTransfer.

CancelTransfer(s, c) ==
  /\ work[s] = Idle
  /\ owner[c] \in Users
  /\ Goto(s, [at |-> "withdrawing", collection |-> c, from |-> owner[c]])
  /\ UNCHANGED <<collections, request, history>>

WithdrawRequests(s) ==
  LET rs == {r \in Pending(work[s].collection) : request[r].from = work[s].from} IN
  /\ work[s].at = "withdrawing"
  /\ Resolve(rs, "cancelled")
  /\ Slip("owner", Late(s, rs))
  /\ Goto(s, Idle)
  /\ UNCHANGED <<collections, moved>>

\* A call throws, times out, or the process ends; or the last UPDATE of the handler
\* fails, an error that only confirming a request looks at.
Die(s) ==
  /\ Faults
  /\ work[s] # Idle
  /\ Goto(s, Idle)
  /\ UNCHANGED <<collections, request, history>>

-----------------------------------------------------------------------------
OwnerStep(s) ==
  \/ \E c \in Collections :
       \/ CancelTransfer(s, c) \/ InsertCollection(s, c)
       \/ \E u \in Users : RequestTransfer(s, c, u)
  \/ \E u \in Users : Create(s, u)
  \/ CancelPending(s) \/ MailCode(s) \/ WithdrawRequests(s)

RequestStep(s) ==
  \/ \E r \in Requests : InsertRequest(s, r) \/ VerifyOtp(s, r) \/ Respond(s, r)
  \/ ConfirmRequest(s) \/ ExpireRequest(s) \/ Decline(s)
  \/ MoveCollection(s) \/ CloseRequest(s)

Next ==
  \/ \E s \in Sessions : OwnerStep(s) \/ RequestStep(s) \/ Die(s)
  \/ \E u \in Users : KycDecided(u)
  \/ \E c \in Collections : SetStatus(c)
  \/ \E r \in Requests : Lapse(r)

Spec == Init /\ [][Next]_vars

-----------------------------------------------------------------------------
\* Properties.

TransferRows ==
  {NoRequest}
    \cup [status : {"pending", "accepted", "declined", "cancelled", "expired"},
          collection : Collections, from : Users, to : Users,
          code : {"fresh", "lapsed"}, link : {"none", "fresh", "lapsed"}]

Steps ==
  {Idle}
    \cup [at : {"creating"}, user : Users]
    \cup [at : {"withdrawing"}, collection : Collections, from : Users]
    \cup [at : {"cancelling", "inserting"}, collection : Collections,
          from : Users, to : Users]
    \cup [at : {"mailing", "confirming", "expiring", "declining", "accepting",
                "closing"}, request : Requests]

\* The shape of the rows and of a handler's locals; a handler only holds
\* requests that exist.
TypeOK ==
  /\ owner \in [Collections -> Users \cup {NoOne}]
  /\ deleted \subseteq Collections /\ verified \subseteq Users
  /\ request \in [Requests -> TransferRows]
  /\ work \in [Sessions -> Steps]
  /\ moved \subseteq Requests
  /\ slips \subseteq {"cap", "owner"}
  /\ \A s \in Sessions :
       "request" \in DOMAIN work[s] => request[work[s].request] # NoRequest

\* The abstract book: a request that moved its collection is no offer any
\* more, whether or not its row says so yet.
Book == INSTANCE Ownership WITH
  Ids <- Requests,
  offers <- {[id |-> r, collection |-> request[r].collection,
              from |-> request[r].from, to |-> request[r].to] :
               r \in {q \in Requests \ moved : request[q].status = "pending"}},
  disturbed <- "owner" \in slips

\* Until two handlers meet in one of three windows, or one fails to cancel the open
\* requests and adds its own to them, the handlers implement an ownership book: mails
\* that fail, codes and links that lapse or are asked for again, second clicks on
\* accept, rows that cannot be closed, and handlers that die between moving the
\* collection and closing the request do not let a collection go to anyone its
\* owner is not offering it to.
ImplementsOwnership == Book!Promise

\* There is never a second open offer, nor one of a former owner.
OneOfferByTheOwner == Book!OneOfferByTheOwner

\* A user who is not verified never comes to hold a second collection, but for
\* two checks of the cap that overlap, an acceptance whose count fails, and a deleted
\* collection made active again ("unverified recipients may hold at most one collection").
CapKept ==
  [][\A u \in Users \ verified' :
       Cardinality(Owned(u)') > 1 /\ Cardinality(Owned(u)') > Cardinality(Owned(u))
         => "cap" \in slips']_vars

\* What the comment over assertCanCreate says: "unverified users may own at
\* most one non-deleted collection".
AtMostOneUnverified ==
  \A u \in Users \ verified : Cardinality(Owned(u)) <= 1
=============================================================================
