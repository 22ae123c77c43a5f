--------------------------- MODULE Collections_proofs ---------------------------
(***************************************************************************)
(* For any collections, users, requests, invites and number of handlers in *)
(* flight.  Until two handlers meet in one of the windows, the transfer    *)
(* handlers implement the ownership book, and nobody unverified comes to   *)
(* hold a second collection, but for the slips that the model records.     *)
(* Shared access is by consent, one grant per person and collection, and   *)
(* whoever is told that an invite was accepted has what it offered.        *)
(***************************************************************************)
EXTENDS CollectionTransfer, CollectionAccess, FiniteSetTheorems, TLAPS

\* A handler that closes a request has moved its collection, and only requests that
\* exist have moved one.
Moved ==
  /\ \A s \in Sessions : work[s].at = "closing" => work[s].request \in moved
  /\ \A r \in moved : request[r] # NoRequest

\* A collection has one pending request, made by its owner or taken by the one who is
\* now; whoever asks still owns it, has cancelled what was pending, and is alone in
\* doing so; an acceptance is of a pending request, or one that has been taken.
Orderly ==
  "owner" \notin slips =>
    /\ \A q, r \in Requests :
         (/\ request[q].status = "pending" /\ request[r].status = "pending"
          /\ request[q].collection = request[r].collection) => q = r
    /\ \A r \in Requests : request[r].status = "pending" =>
         owner[request[r].collection] =
           IF r \in moved THEN request[r].to ELSE request[r].from
    /\ \A s \in Sessions : work[s].at \in {"cancelling", "inserting"} =>
         owner[work[s].collection] = work[s].from
    /\ \A s \in Sessions : work[s].at = "inserting" =>
         /\ Pending(work[s].collection) = {}
         /\ \A t \in Sessions \ {s} :
              work[t].at = "inserting" => work[t].collection # work[s].collection
    /\ \A s \in Sessions : work[s].at = "accepting" =>
         LET r == work[s].request IN
         IF r \in moved THEN owner[request[r].collection] = request[r].to
         ELSE request[r].status = "pending"

\* Whoever passed the check of the cap may still take a collection.
Capped ==
  "cap" \notin slips =>
    \A s \in Sessions, u \in Users \ verified : PassedCap(s, u) => Owned(u) = {}

TransferInv == TypeOK /\ Moved /\ Orderly /\ Capped

\* The offers of the book.
OpenOffers ==
  {[id |-> r, collection |-> request[r].collection,
    from |-> request[r].from, to |-> request[r].to] :
     r \in {q \in Requests \ moved : request[q].status = "pending"}}

BookStep == [Book!Undisturbed \/ "owner" \in slips']_(Book!book)
CapStep ==
  \A u \in Users \ verified' :
    Cardinality(Owned(u)') > 1 /\ Cardinality(Owned(u)') > Cardinality(Owned(u))
      => "cap" \in slips'

-----------------------------------------------------------------------------
(* The rows and the steps.                                                 *)

Row == [status : {"pending", "accepted", "declined", "cancelled", "expired"},
        collection : Collections, from : Users, to : Users,
        code : {"fresh", "lapsed"}, link : {"none", "fresh", "lapsed"}]
Naming == {"mailing", "confirming", "expiring", "declining", "accepting", "closing"}

LEMMA RowIs ==
  ASSUME NEW row \in TransferRows
  PROVE  row # NoRequest <=> row \in Row
BY DEF TransferRows, Row, NoRequest

LEMMA StepIs ==
  ASSUME NEW step \in Steps
  PROVE  /\ step.at = "creating" => step.user \in Users
         /\ step.at = "withdrawing" => step.collection \in Collections /\ step.from \in Users
         /\ step.at \in {"cancelling", "inserting"} =>
              step \in [at : {"cancelling", "inserting"}, collection : Collections,
                        from : Users, to : Users]
         /\ step.at \in Naming => step.request \in Requests
         /\ "request" \in DOMAIN step <=> step.at \in Naming
BY DEF Steps, Naming, Idle

LEMMA Stepping ==
  /\ Idle \in Steps /\ Idle.at = "idle"
  /\ \A at \in Naming, r \in Requests : [at |-> at, request |-> r] \in Steps
  /\ \A u \in Users : [at |-> "creating", user |-> u] \in Steps
  /\ \A c \in Collections, u \in Users :
       [at |-> "withdrawing", collection |-> c, from |-> u] \in Steps
  /\ \A c \in Collections, u \in Users, v \in Users :
       [at |-> "cancelling", collection |-> c, from |-> u, to |-> v] \in Steps
BY DEF Steps, Naming, Idle

\* Only the handler that moves is somewhere else.
LEMMA OneMoves ==
  ASSUME TypeOK, NEW s \in Sessions, NEW step \in Steps, Goto(s, step),
         step.at \in Naming => request'[step.request] # NoRequest,
         \A r \in Requests : request[r] # NoRequest => request'[r] # NoRequest
  PROVE  /\ work' \in [Sessions -> Steps] /\ work'[s] = step
         /\ \A t \in Sessions \ {s} : work'[t] = work[t]
         /\ \A t \in Sessions :
              ("request" \in DOMAIN work[t] => request[work[t].request] # NoRequest)'
<1>1. /\ work' \in [Sessions -> Steps] /\ work'[s] = step
      /\ \A t \in Sessions \ {s} : work'[t] = work[t]
  BY DEF TypeOK, Goto
<1>2. ASSUME NEW t \in Sessions, "request" \in DOMAIN work'[t]
      PROVE  request'[work'[t].request] # NoRequest
  <2>1. CASE t = s
    BY <1>1, <1>2, <2>1, StepIs
  <2>2. CASE t # s
    <3>1. work'[t] = work[t] /\ work[t] \in Steps /\ "request" \in DOMAIN work[t]
      BY <1>1, <1>2, <2>2 DEF TypeOK
    <3>2. work[t].request \in Requests /\ request[work[t].request] # NoRequest
      BY <3>1, StepIs DEF TypeOK
    <3>3. QED BY <3>1, <3>2
  <2>3. QED BY <2>1, <2>2
<1>3. QED BY <1>1, <1>2

-----------------------------------------------------------------------------
(* The book and the cap.                                                   *)

\* Offers go, and nothing else happens.
LEMMA Withdrawn ==
  ASSUME UNCHANGED owner, OpenOffers' \subseteq OpenOffers, slips \subseteq slips'
  PROVE  BookStep
BY DEF BookStep, OpenOffers, Book!Undisturbed, Book!Withdraw

LEMMA OwnedFinite ==
  ASSUME NEW u
  PROVE  IsFiniteSet(Owned(u)) /\ Cardinality(Owned(u)) \in Nat
<1>1. Owned(u) \in SUBSET Collections
  BY DEF Owned
<1>2. QED BY <1>1, TransferAssumption, FS_Subset, FS_CardinalityType

\* The same, after a step.
LEMMA OwnedFiniteNext ==
  ASSUME NEW u
  PROVE  IsFiniteSet(Owned(u)') /\ Cardinality(Owned(u)') \in Nat
<1>1. Owned(u)' \in SUBSET Collections
  BY DEF Owned
<1>2. QED BY <1>1, TransferAssumption, FS_Subset, FS_CardinalityType

\* Nobody unverified gets a collection.
LEMMA NobodyGains ==
  ASSUME \A u \in Users \ verified' : "cap" \notin slips' => Owned(u)' \subseteq Owned(u)
  PROVE  CapStep
<1> SUFFICES ASSUME NEW u \in Users \ verified', "cap" \notin slips'
             PROVE  ~(Cardinality(Owned(u)') > Cardinality(Owned(u)))
  BY DEF CapStep
<1>1. Owned(u)' \subseteq Owned(u)
  OBVIOUS
<1>2. Cardinality(Owned(u)') <= Cardinality(Owned(u))
  BY <1>1, OwnedFinite, FS_Subset
<1>3. QED BY <1>2, OwnedFinite, OwnedFiniteNext

\* Or whoever gets one has no other.
LEMMA OneGains ==
  ASSUME NEW c \in Collections,
         \A u \in Users \ verified' : "cap" \notin slips' =>
           Owned(u)' \subseteq Owned(u) \/ Owned(u)' \subseteq {c}
  PROVE  CapStep
<1> SUFFICES ASSUME NEW u \in Users \ verified', "cap" \notin slips'
             PROVE  \/ ~(Cardinality(Owned(u)') > Cardinality(Owned(u)))
                    \/ ~(Cardinality(Owned(u)') > 1)
  BY DEF CapStep
<1>1. CASE Owned(u)' \subseteq Owned(u)
  <2>1. Cardinality(Owned(u)') <= Cardinality(Owned(u))
    BY <1>1, OwnedFinite, FS_Subset
  <2>2. QED BY <2>1, OwnedFinite, OwnedFiniteNext
<1>2. CASE Owned(u)' \subseteq {c}
  <2>1. IsFiniteSet({c}) /\ Cardinality({c}) = 1
    BY FS_Singleton
  <2>2. Cardinality(Owned(u)') <= 1
    BY <1>2, <2>1, FS_Subset
  <2>3. QED BY <2>2, OwnedFiniteNext
<1>3. QED BY <1>1, <1>2

\* A request keeps its collection, its giver and its taker, and does not become pending.
Aged(r) ==
  /\ request'[r] \in TransferRows
  /\ request[r] # NoRequest <=> request'[r] # NoRequest
  /\ request'[r].collection = request[r].collection
  /\ request'[r].from = request[r].from /\ request'[r].to = request[r].to
  /\ request'[r].status = "pending" => request[r].status = "pending"

\* With the owners and what was moved as they are, it matters where the handlers go,
\* and that nobody's request goes under an acceptance.
LEMMA RowsAge ==
  ASSUME TransferInv, UNCHANGED <<owner, deleted, verified, moved>>,
         request' = [r \in Requests |-> request'[r]], \A r \in Requests : Aged(r),
         slips \subseteq slips', slips' \subseteq slips \cup {"owner", "cap"},
         NEW s \in Sessions, NEW step \in Steps, Goto(s, step),
         step.at \in Naming => request'[step.request] # NoRequest,
         step.at = "closing" => step.request \in moved,
         "cap" \notin slips' =>
           /\ step.at = "creating" => ~BlockedByKycCap(step.user)
           /\ step.at = "accepting" => ~BlockedByKycCap(request[step.request].to),
         "owner" \notin slips' =>
           /\ step.at \in {"cancelling", "inserting"} => owner[step.collection] = step.from
           /\ step.at = "inserting" =>
                /\ Pending(step.collection)' = {}
                /\ \A t \in Sessions \ {s} :
                     work[t].at = "inserting" => work[t].collection # step.collection
           /\ step.at = "accepting" => request'[step.request].status = "pending"
           /\ \A t \in Sessions \ {s} : work[t].at = "accepting" =>
                \/ work[t].request \in moved
                \/ request'[work[t].request].status = request[work[t].request].status
  PROVE  TransferInv' /\ BookStep /\ CapStep
<1>1. /\ work' \in [Sessions -> Steps] /\ work'[s] = step
      /\ \A t \in Sessions \ {s} : work'[t] = work[t]
      /\ \A t \in Sessions :
           ("request" \in DOMAIN work[t] => request[work[t].request] # NoRequest)'
  BY OneMoves DEF TransferInv, Aged
<1>2. TypeOK'
  <2>1. request' \in [Requests -> TransferRows]
    BY DEF Aged
  <2>2. QED BY <1>1, <2>1 DEF TransferInv, TypeOK
<1>3. Moved'
  BY <1>1 DEF TransferInv, Moved, Aged, TypeOK
<1>4. Orderly'
  <2> SUFFICES ASSUME "owner" \notin slips'
               PROVE  Orderly'
    BY DEF Orderly
  <2>1. Orderly /\ "owner" \notin slips
    BY DEF TransferInv
  <2>2. \A q, r \in Requests :
          (/\ request'[q].status = "pending" /\ request'[r].status = "pending"
           /\ request'[q].collection = request'[r].collection) => q = r
    BY <2>1 DEF Orderly, Aged
  <2>3. \A r \in Requests : request'[r].status = "pending" =>
          owner'[request'[r].collection] =
            IF r \in moved' THEN request'[r].to ELSE request'[r].from
    BY <2>1 DEF Orderly, Aged
  <2>4. \A t \in Sessions : work'[t].at \in {"cancelling", "inserting"} =>
          owner'[work'[t].collection] = work'[t].from
    BY <1>1, <2>1 DEF Orderly
  <2>5. \A c : Pending(c)' \subseteq Pending(c)
    BY DEF Pending, Aged
  <2>6. ASSUME NEW t \in Sessions, work'[t].at = "inserting"
        PROVE  (/\ Pending(work[t].collection) = {}
                /\ \A u \in Sessions \ {t} :
                     work[u].at = "inserting" => work[u].collection # work[t].collection)'
    <3> PICK c : c = work'[t].collection
      OBVIOUS
    <3>1. /\ Pending(c)' = {}
          /\ \A u \in Sessions \ {t} : work'[u].at = "inserting" => work'[u].collection # c
      <4>1. CASE t = s
        BY <1>1, <2>6, <4>1
      <4>2. CASE t # s
        <5>1. /\ work[t] = work'[t] /\ Pending(c) = {}
              /\ \A u \in Sessions \ {t} : work[u].at = "inserting" => work[u].collection # c
          BY <1>1, <2>1, <2>6, <4>2 DEF Orderly
        <5>2. step.at = "inserting" => step.collection # c
          BY <2>6, <4>2, <5>1
        <5>3. QED BY <1>1, <2>5, <5>1, <5>2
      <4>3. QED BY <4>1, <4>2
    <3>2. Pending(work[t].collection)' = Pending(c)'
      BY DEF Pending
    <3>3. QED BY <3>1, <3>2
  <2>7. ASSUME NEW t \in Sessions, work'[t].at = "accepting"
        PROVE  (LET r == work[t].request IN
                IF r \in moved THEN owner[request[r].collection] = request[r].to
                ELSE request[r].status = "pending")'
    <3> PICK r : r = work'[t].request
      OBVIOUS
    <3>0. r \in Requests
      BY <1>1, <2>7, StepIs DEF Naming
    <3>1. IF r \in moved THEN owner[request'[r].collection] = request'[r].to
          ELSE request'[r].status = "pending"
      <4>1. CASE t = s
        BY <1>1, <2>3, <2>7, <3>0, <4>1
      <4>2. CASE t # s
        <5>1. work[t] = work'[t]
          BY <1>1, <4>2
        <5>2. IF r \in moved THEN owner[request[r].collection] = request[r].to
              ELSE request[r].status = "pending"
          BY <2>1, <2>7, <5>1 DEF Orderly
        <5>3. r \in moved \/ request'[r].status = request[r].status
          BY <2>7, <4>2, <5>1
        <5>4. QED BY <3>0, <5>2, <5>3 DEF Aged
      <4>3. QED BY <4>1, <4>2
    <3>2. QED BY <3>1
  <2>8. QED BY <2>2, <2>3, <2>4, <2>6, <2>7 DEF Orderly
<1>5. Capped'
  <2>1. \A u : Owned(u)' = Owned(u)
    BY DEF Owned
  <2>2. ASSUME NEW t \in Sessions, NEW u \in Users \ verified, PassedCap(t, u)', "cap" \notin slips'
        PROVE  Owned(u) = {}
    <3>1. CASE t = s
      <4>1. step.at = "accepting" => request'[step.request].to = request[step.request].to
        BY StepIs DEF Aged, Naming
      <4>2. ~BlockedByKycCap(u)
        BY <1>1, <2>2, <3>1, <4>1 DEF PassedCap
      <4>3. QED BY <4>2 DEF BlockedByKycCap
    <3>2. CASE t # s
      <4>1. work'[t] = work[t] /\ work[t] \in Steps
        BY <1>1, <3>2 DEF TransferInv, TypeOK
      <4>2. work[t].at = "accepting" => request'[work[t].request].to = request[work[t].request].to
        BY <4>1, StepIs DEF Aged, Naming
      <4>3. PassedCap(t, u)
        BY <2>2, <4>1, <4>2 DEF PassedCap
      <4>4. QED BY <2>2, <4>3 DEF TransferInv, Capped
    <3>3. QED BY <3>1, <3>2
  <2>3. QED BY <2>1, <2>2 DEF Capped
<1>6. BookStep
  <2>1. OpenOffers' \subseteq OpenOffers
    BY DEF OpenOffers, Aged
  <2>2. QED BY <2>1, Withdrawn
<1>7. CapStep
  <2>1. \A u : Owned(u)' = Owned(u)
    BY DEF Owned
  <2>2. QED BY <2>1, NobodyGains
<1>8. QED BY <1>2, <1>3, <1>4, <1>5, <1>6, <1>7 DEF TransferInv

LEMMA RowsSame ==
  ASSUME TypeOK, UNCHANGED request
  PROVE  request' = [r \in Requests |-> request'[r]] /\ \A r \in Requests : Aged(r)
BY DEF TypeOK, Aged

LEMMA RequestResolved ==
  ASSUME TypeOK, NEW rs, NEW status \in {"accepted", "declined", "cancelled", "expired"},
         \A r \in rs : r \in Requests /\ request[r] # NoRequest, Resolve(rs, status)
  PROVE  /\ request' = [r \in Requests |-> request'[r]]
         /\ \A r \in Requests : Aged(r)
         /\ \A r \in Requests \ rs : request'[r] = request[r]
         /\ \A r \in rs : request'[r].status = status
<1>1. request' = [r \in Requests |-> request'[r]]
  BY DEF Resolve
<1>2. \A r \in Requests \ rs : request'[r] = request[r]
  BY DEF Resolve
<1>3. ASSUME NEW r \in rs
      PROVE  Aged(r) /\ request'[r].status = status
  <2> PICK row : row = request[r]
    OBVIOUS
  <2>1. row \in Row /\ r \in Requests
    BY RowIs DEF TypeOK
  <2>2. request'[r] = [row EXCEPT !.status = status, !.code = "lapsed", !.link = "none"]
    BY <2>1 DEF Resolve
  <2>3. /\ request'[r] \in Row /\ request'[r].collection = row.collection
        /\ request'[r].from = row.from /\ request'[r].to = row.to
        /\ request'[r].status = status
    BY <2>1, <2>2 DEF Row
  <2>4. request'[r] \in TransferRows
    BY <2>3 DEF TransferRows, Row
  <2>5. QED BY <2>1, <2>3, <2>4, RowIs DEF Aged, TypeOK
<1>4. \A r \in Requests \ rs : Aged(r)
  BY <1>2 DEF Aged, TypeOK
<1>5. QED BY <1>1, <1>2, <1>3, <1>4

\* What is pending is a request.
LEMMA PendingIs ==
  ASSUME TypeOK, NEW r \in Requests, request[r].status = "pending"
  PROVE  request[r] \in Row /\ request[r] # NoRequest
BY RowIs DEF TypeOK, NoRequest

-----------------------------------------------------------------------------
(* The handlers that read.                                                 *)

Kept == TransferInv' /\ BookStep /\ CapStep

LEMMA StartsKept ==
  ASSUME TransferInv, NEW s \in Sessions, NEW step \in Steps, Goto(s, step),
         UNCHANGED <<collections, request, moved>>,
         slips' = slips \/ slips' = slips \cup {"cap"},
         step.at \notin {"closing", "inserting"},
         step.at \in Naming => request[step.request] # NoRequest,
         "cap" \notin slips' =>
           /\ step.at = "creating" => ~BlockedByKycCap(step.user)
           /\ step.at = "accepting" => ~BlockedByKycCap(request[step.request].to),
         step.at = "accepting" => request[step.request].status = "pending",
         step.at = "cancelling" => owner[step.collection] = step.from
  PROVE  Kept
<1>1. UNCHANGED <<owner, deleted, verified, request, moved>>
  BY DEF collections
<1>2. request' = [r \in Requests |-> request'[r]] /\ \A r \in Requests : Aged(r)
  BY <1>1, RowsSame DEF TransferInv
<1>3. slips' \subseteq slips \cup {"owner", "cap"} /\ slips \subseteq slips'
  OBVIOUS
<1>4. \A t \in Sessions : request'[work[t].request] = request[work[t].request]
  BY <1>1
<1>5. QED BY <1>1, <1>2, <1>3, <1>4, RowsAge DEF Kept

LEMMA CreateKept ==
  ASSUME TransferInv, NEW s \in Sessions, NEW u \in Users, Create(s, u)
  PROVE  Kept
<1> PICK step : step = [at |-> "creating", user |-> u]
  OBVIOUS
<1>1. step.at = "creating" /\ step.user = u /\ step \in Steps
  BY Stepping
<1>2. QED BY <1>1, StartsKept DEF Create, Naming, history

LEMMA RequestTransferKept ==
  ASSUME TransferInv, NEW s \in Sessions, NEW c \in Collections, NEW to \in Users,
         RequestTransfer(s, c, to)
  PROVE  Kept
<1> PICK step : step = [at |-> "cancelling", collection |-> c, from |-> owner[c], to |-> to]
  OBVIOUS
<1>1. owner[c] \in Users
  BY DEF RequestTransfer
<1>2. /\ step.at = "cancelling" /\ step.collection = c /\ step.from = owner[c]
      /\ step \in Steps
  BY <1>1, Stepping
<1>3. QED BY <1>2, StartsKept DEF RequestTransfer, Naming, history

LEMMA CancelTransferKept ==
  ASSUME TransferInv, NEW s \in Sessions, NEW c \in Collections, CancelTransfer(s, c)
  PROVE  Kept
<1> PICK step : step = [at |-> "withdrawing", collection |-> c, from |-> owner[c]]
  OBVIOUS
<1>1. step.at = "withdrawing" /\ step \in Steps
  BY Stepping DEF CancelTransfer
<1>2. QED BY <1>1, StartsKept DEF CancelTransfer, Naming, history

\* Both start from a request that is pending.
LEMMA RequestReadKept ==
  ASSUME TransferInv, NEW s \in Sessions, NEW r \in Requests, VerifyOtp(s, r) \/ Respond(s, r)
  PROVE  Kept
<1>1. PICK at : /\ at \in {"expiring", "confirming", "declining", "accepting"}
                /\ Goto(s, [at |-> at, request |-> r])
                /\ at = "accepting" /\ "cap" \notin slips' => ~BlockedByKycCap(request[r].to)
                /\ request[r].status = "pending"
                /\ UNCHANGED <<collections, request, moved>>
                /\ slips' = slips \/ slips' = slips \cup {"cap"}
  <2>1. CASE VerifyOtp(s, r)
    BY <2>1 DEF VerifyOtp, IsLatest, history
  <2>2. CASE Respond(s, r)
    <3>1. /\ request[r].status = "pending" /\ UNCHANGED <<collections, request, moved>>
          /\ slips' = slips \/ slips' = slips \cup {"cap"}
          /\ \/ Goto(s, [at |-> "expiring", request |-> r])
             \/ Goto(s, [at |-> "declining", request |-> r])
             \/ /\ Goto(s, [at |-> "accepting", request |-> r])
                /\ "cap" \notin slips' => ~BlockedByKycCap(request[r].to)
      BY <2>2 DEF Respond, Slip
    <3>2. QED BY <3>1
  <2>3. QED BY <2>1, <2>2
<1> PICK step : step = [at |-> at, request |-> r]
  OBVIOUS
<1>2. step.at = at /\ step.request = r /\ step \in Steps
  BY <1>1, Stepping DEF Naming
<1>3. request[r] # NoRequest
  BY <1>1, PendingIs DEF TransferInv
<1>4. QED BY <1>1, <1>2, <1>3, StartsKept

LEMMA DieKept ==
  ASSUME TransferInv, NEW s \in Sessions, Die(s)
  PROVE  Kept
BY Stepping, StartsKept DEF Die, Naming, history

-----------------------------------------------------------------------------
(* The handlers that resolve requests.                                     *)

\* A handler that ends with these requests resolved.
LEMMA ResolvesKept ==
  ASSUME TransferInv, NEW s \in Sessions, Goto(s, Idle), NEW rs,
         NEW status \in {"accepted", "declined", "cancelled", "expired"},
         Resolve(rs, status), \A r \in rs : r \in Requests /\ request[r] # NoRequest,
         UNCHANGED <<collections, moved>>,
         \/ Slip("owner", Late(s, rs))
         \/ UNCHANGED slips /\ rs \subseteq moved
  PROVE  Kept
<1>1. UNCHANGED <<owner, deleted, verified, moved>>
  BY DEF collections
<1>2. /\ request' = [r \in Requests |-> request'[r]]
      /\ \A r \in Requests : Aged(r)
      /\ \A r \in Requests \ rs : request'[r] = request[r]
  BY RequestResolved DEF TransferInv
<1>3. slips \subseteq slips' /\ slips' \subseteq slips \cup {"owner"}
  BY DEF Slip
<1>4. ASSUME "owner" \notin slips', NEW t \in Sessions \ {s}, work[t].at = "accepting"
      PROVE  work[t].request \in moved \/ request'[work[t].request] = request[work[t].request]
  <2>1. work[t].request \in Requests
    BY <1>4, StepIs DEF TransferInv, TypeOK, Naming
  <2>2. work[t].request \notin rs \/ rs \subseteq moved
    BY <1>4 DEF Slip, Late, Others, Accepting
  <2>3. QED BY <1>2, <2>1, <2>2
<1>5. Idle \in Steps /\ Idle.at = "idle"
  BY Stepping
<1>6. QED BY <1>1, <1>2, <1>3, <1>4, <1>5, RowsAge DEF Kept, Naming

LEMMA EndsKept ==
  ASSUME TransferInv, NEW s \in Sessions,
         ExpireRequest(s) \/ Decline(s) \/ CloseRequest(s)
  PROVE  Kept
<1>1. work[s].at \in Naming
  BY DEF ExpireRequest, Decline, CloseRequest, Naming
<1> PICK r : r = work[s].request
  OBVIOUS
<1>2. r \in Requests /\ request[r] # NoRequest
  BY <1>1, StepIs DEF TransferInv, TypeOK
<1>3. UNCHANGED <<collections, moved>> /\ Goto(s, Idle)
  BY DEF ExpireRequest, Decline, CloseRequest, history
<1>4. CASE CloseRequest(s)
  <2>1. r \in moved
    BY <1>4 DEF CloseRequest, TransferInv, Moved
  <2>2. Resolve({r}, "accepted") /\ UNCHANGED slips
    BY <1>4 DEF CloseRequest, history
  <2>3. QED BY <1>2, <1>3, <2>1, <2>2, ResolvesKept
<1>5. CASE ExpireRequest(s)
  BY <1>2, <1>3, <1>5, ResolvesKept DEF ExpireRequest
<1>6. CASE Decline(s)
  BY <1>2, <1>3, <1>6, ResolvesKept DEF Decline
<1>7. QED BY <1>4, <1>5, <1>6

LEMMA WithdrawKept ==
  ASSUME TransferInv, NEW s \in Sessions, WithdrawRequests(s)
  PROVE  Kept
<1> PICK rs : rs = {r \in Pending(work[s].collection) : request[r].from = work[s].from}
  OBVIOUS
<1>1. \A r \in rs : r \in Requests /\ request[r] # NoRequest
  BY PendingIs DEF Pending, TransferInv
<1>2. /\ Resolve(rs, "cancelled") /\ Slip("owner", Late(s, rs)) /\ Goto(s, Idle)
      /\ UNCHANGED <<collections, moved>>
  BY DEF WithdrawRequests
<1>3. QED BY <1>1, <1>2, ResolvesKept

LEMMA MailCodeKept ==
  ASSUME TransferInv, NEW s \in Sessions, MailCode(s)
  PROVE  Kept
<1>1. CASE UNCHANGED <<request, slips>>
  <2>1. Goto(s, Idle) /\ UNCHANGED <<collections, request, history>>
    BY <1>1 DEF MailCode, history
  <2>2. QED BY <2>1, Stepping, StartsKept DEF Naming, history
<1>2. CASE ~UNCHANGED <<request, slips>>
  <2> PICK rs : rs = {work[s].request} \cap {r \in Requests : request[r].status = "pending"}
    OBVIOUS
  <2>1. \A r \in rs : r \in Requests /\ request[r] # NoRequest
    BY PendingIs DEF TransferInv
  <2>2. /\ Resolve(rs, "cancelled") /\ Slip("owner", Late(s, rs)) /\ Goto(s, Idle)
        /\ UNCHANGED <<collections, moved>>
    BY <1>2 DEF MailCode
  <2>3. QED BY <2>1, <2>2, ResolvesKept
<1>3. QED BY <1>1, <1>2

\* Whoever cancels what is pending is alone in asking from then on.
LEMMA CancelPendingKept ==
  ASSUME TransferInv, NEW s \in Sessions, CancelPending(s)
  PROVE  Kept
<1> PICK old : old = work[s]
  OBVIOUS
<1> PICK c : c = old.collection
  OBVIOUS
<1>0. /\ old.at = "cancelling"
      /\ old \in [at : {"cancelling", "inserting"}, collection : Collections,
                  from : Users, to : Users]
  BY StepIs DEF CancelPending, TransferInv, TypeOK
<1> PICK step : step = [old EXCEPT !.at = "inserting"]
  OBVIOUS
<1>1. step.at = "inserting" /\ step.collection = c /\ step.from = old.from
  BY <1>0
<1>2. step \in Steps
  BY <1>0 DEF Steps
<1>3. UNCHANGED <<owner, deleted, verified, moved>> /\ Goto(s, step)
  BY DEF CancelPending, collections
<1>4. /\ request' = [r \in Requests |-> request'[r]]
      /\ \A r \in Requests : Aged(r)
      /\ "owner" \notin slips' => /\ \A r \in Requests \ Pending(c) : request'[r] = request[r]
                                  /\ \A r \in Pending(c) : request'[r].status = "cancelled"
  <2>1. CASE Resolve(Pending(c), "cancelled")
    <3>1. \A r \in Pending(c) : r \in Requests /\ request[r] # NoRequest
      BY PendingIs DEF Pending, TransferInv
    <3>2. QED BY <2>1, <3>1, RequestResolved DEF TransferInv
  <2>2. CASE UNCHANGED request /\ Slip("owner", Uncancelled(c) \/ Twice(s, c))
    <3>1. "owner" \notin slips' => Pending(c) = {}
      BY <2>2 DEF Slip, Uncancelled
    <3>2. QED BY <2>2, <3>1, RowsSame DEF TransferInv
  <2>3. QED BY <2>1, <2>2 DEF CancelPending
<1>5. "owner" \notin slips' => ~Late(s, Pending(c)) /\ ~Twice(s, c) /\ "owner" \notin slips
  <2>1. CASE Slip("owner", Late(s, Pending(c)) \/ Twice(s, c))
    BY <2>1 DEF Slip
  <2>2. CASE Slip("owner", Uncancelled(c) \/ Twice(s, c))
    BY <2>2 DEF Slip, Uncancelled, Late, Accepting
  <2>3. QED BY <2>1, <2>2 DEF CancelPending
<1>6. slips \subseteq slips' /\ slips' \subseteq slips \cup {"owner"}
  BY DEF CancelPending, Slip
<1>7. ASSUME "owner" \notin slips'
      PROVE  /\ owner[step.collection] = step.from
             /\ Pending(step.collection)' = {}
             /\ \A t \in Sessions \ {s} :
                  work[t].at = "inserting" => work[t].collection # step.collection
             /\ \A t \in Sessions \ {s} : work[t].at = "accepting" =>
                  request'[work[t].request] = request[work[t].request]
  <2>1. ~Late(s, Pending(c)) /\ ~Twice(s, c) /\ "owner" \notin slips
    BY <1>5, <1>7
  <2>2. owner[step.collection] = step.from
    BY <1>0, <1>1, <2>1 DEF TransferInv, Orderly
  <2>3. Pending(c)' = {}
    BY <1>4, <1>7 DEF Pending, Aged
  <2>4. \A t \in Sessions \ {s} : work[t].at = "inserting" => work[t].collection # c
    BY <2>1 DEF Twice, Asking, Others
  <2>5. ASSUME NEW t \in Sessions \ {s}, work[t].at = "accepting"
        PROVE  request'[work[t].request] = request[work[t].request]
    <3>1. work[t].request \in Requests
      BY <2>5, StepIs DEF TransferInv, TypeOK, Naming
    <3>2. work[t].request \notin Pending(c)
      BY <2>1, <2>5 DEF Late, Accepting, Others
    <3>3. QED BY <1>4, <1>7, <3>1, <3>2
  <2>6. Pending(step.collection)' = Pending(c)'
    BY <1>1 DEF Pending
  <2>7. QED BY <1>1, <2>2, <2>3, <2>4, <2>5, <2>6
<1>8. step.at \notin Naming
  BY <1>1 DEF Naming
<1>9. QED BY <1>1, <1>2, <1>3, <1>4, <1>6, <1>7, <1>8, RowsAge DEF Kept

\* The link and the code: only their own fields.
LEMMA FieldsKept ==
  ASSUME TransferInv, NEW r \in Requests, request[r].status = "pending",
         \/ request' = [request EXCEPT ![r].link = "fresh"]
         \/ request' = [request EXCEPT ![r].link = "lapsed"]
         \/ request' = [request EXCEPT ![r].code = "lapsed"]
  PROVE  /\ request' = [q \in Requests |-> request'[q]]
         /\ \A q \in Requests : Aged(q)
         /\ \A q \in Requests : request'[q].status = request[q].status
<1> PICK row : row = request[r]
  OBVIOUS
<1>1. row \in Row /\ row \in TransferRows
  BY PendingIs DEF TransferInv, TypeOK
<1>2. /\ request' = [q \in Requests |-> request'[q]]
      /\ \A q \in Requests \ {r} : request'[q] = request[q]
  BY DEF TransferInv, TypeOK
<1>3. \/ request'[r] = [row EXCEPT !.link = "fresh"]
      \/ request'[r] = [row EXCEPT !.link = "lapsed"]
      \/ request'[r] = [row EXCEPT !.code = "lapsed"]
  BY DEF TransferInv, TypeOK
<1>4. /\ request'[r] \in Row /\ request'[r].collection = row.collection
      /\ request'[r].from = row.from /\ request'[r].to = row.to
      /\ request'[r].status = row.status
  BY <1>1, <1>3 DEF Row
<1>5. request'[r] \in TransferRows
  BY <1>4 DEF TransferRows, Row
<1>6. Aged(r)
  BY <1>1, <1>4, <1>5, RowIs DEF Aged
<1>7. \A q \in Requests \ {r} : Aged(q)
  BY <1>2 DEF Aged, TransferInv, TypeOK
<1>8. QED BY <1>2, <1>4, <1>6, <1>7

LEMMA ConfirmKept ==
  ASSUME TransferInv, NEW s \in Sessions, ConfirmRequest(s)
  PROVE  Kept
<1> PICK r : r = work[s].request
  OBVIOUS
<1>1. r \in Requests
  BY StepIs DEF ConfirmRequest, Naming, TransferInv, TypeOK
<1>2. UNCHANGED <<owner, deleted, verified, moved, slips>> /\ Goto(s, Idle)
  BY DEF ConfirmRequest, collections, history
<1>3. /\ request' = [q \in Requests |-> request'[q]]
      /\ \A q \in Requests : Aged(q)
      /\ \A q \in Requests : request'[q].status = request[q].status
  <2>1. CASE request[r].status = "pending"
    <3>1. request' = [request EXCEPT ![r].link = "fresh"]
      BY <2>1 DEF ConfirmRequest
    <3>2. QED BY <1>1, <2>1, <3>1, FieldsKept
  <2>2. CASE request[r].status # "pending"
    BY <2>2, RowsSame DEF ConfirmRequest, TransferInv
  <2>3. QED BY <2>1, <2>2
<1>4. ASSUME NEW t \in Sessions, work[t].at = "accepting"
      PROVE  request'[work[t].request].status = request[work[t].request].status
  BY <1>3, <1>4, StepIs DEF TransferInv, TypeOK, Naming
<1>5. Idle \in Steps /\ Idle.at = "idle"
  BY Stepping
<1>6. slips \subseteq slips' /\ slips' \subseteq slips \cup {"owner"}
  BY <1>2
<1>7. QED BY <1>2, <1>3, <1>4, <1>5, <1>6, RowsAge DEF Kept, Naming

LEMMA LapseKept ==
  ASSUME TransferInv, NEW r \in Requests, Lapse(r)
  PROVE  Kept
<1>1. UNCHANGED <<owner, deleted, verified, work, moved, slips>>
  BY DEF Lapse, collections, history
<1>2. /\ request' = [q \in Requests |-> request'[q]]
      /\ \A q \in Requests : Aged(q)
      /\ \A q \in Requests : request'[q].status = request[q].status
  BY FieldsKept DEF Lapse
<1>3. \A t \in Sessions : "request" \in DOMAIN work[t] =>
        work[t].request \in Requests /\ request'[work[t].request] # NoRequest
  BY <1>2, StepIs DEF TransferInv, TypeOK, Aged
<1>4. request' \in [Requests -> TransferRows]
  BY <1>2 DEF Aged
<1>5. TypeOK' /\ Moved'
  BY <1>1, <1>2, <1>3, <1>4 DEF TransferInv, TypeOK, Moved, Aged
<1>6. \A c : Pending(c)' = Pending(c)
  BY <1>2 DEF Pending, Aged
<1>7. Orderly'
  <2>1. ASSUME "owner" \notin slips, NEW s \in Sessions, work[s].at = "accepting"
        PROVE  (LET q == work[s].request IN
                IF q \in moved THEN owner[request[q].collection] = request[q].to
                ELSE request[q].status = "pending")'
    <3>1. work[s].request \in Requests
      BY <2>1, StepIs DEF TransferInv, TypeOK, Naming
    <3>2. QED BY <1>1, <1>2, <2>1, <3>1 DEF TransferInv, Orderly, Aged
  <2>2. ASSUME "owner" \notin slips, NEW s \in Sessions, work[s].at = "inserting"
        PROVE  (/\ Pending(work[s].collection) = {}
                /\ \A t \in Sessions \ {s} :
                     work[t].at = "inserting" => work[t].collection # work[s].collection)'
    <3>1. Pending(work[s].collection)' = Pending(work[s].collection)
      BY <1>1, <1>2 DEF Pending, Aged
    <3>2. QED BY <1>1, <2>2, <3>1 DEF TransferInv, Orderly
  <2>3. ASSUME "owner" \notin slips
        PROVE  /\ \A q, p \in Requests :
                    (/\ request'[q].status = "pending" /\ request'[p].status = "pending"
                     /\ request'[q].collection = request'[p].collection) => q = p
               /\ \A q \in Requests : request'[q].status = "pending" =>
                    owner'[request'[q].collection] =
                      IF q \in moved' THEN request'[q].to ELSE request'[q].from
               /\ \A s \in Sessions : work'[s].at \in {"cancelling", "inserting"} =>
                    owner'[work'[s].collection] = work'[s].from
    BY <1>1, <1>2, <2>3 DEF TransferInv, Orderly, Aged
  <2>4. QED BY <1>1, <2>1, <2>2, <2>3 DEF Orderly
<1>8. \A u : Owned(u)' = Owned(u)
  BY <1>1 DEF Owned
<1>9. Capped'
  <2>1. ASSUME NEW s \in Sessions, NEW u, PassedCap(s, u)'
        PROVE  PassedCap(s, u)
    <3>1. work[s].at = "accepting" => work[s].request \in Requests
      BY StepIs DEF TransferInv, TypeOK, Naming
    <3>2. QED BY <1>1, <1>2, <2>1, <3>1 DEF PassedCap, Aged
  <2>2. QED BY <1>1, <1>8, <2>1 DEF TransferInv, Capped
<1>10. BookStep
  <2>1. OpenOffers' \subseteq OpenOffers
    BY <1>1, <1>2 DEF OpenOffers, Aged
  <2>2. QED BY <1>1, <2>1, Withdrawn
<1>11. CapStep
  BY <1>8, NobodyGains
<1>12. QED BY <1>5, <1>7, <1>9, <1>10, <1>11 DEF Kept, TransferInv

-----------------------------------------------------------------------------
(* A new offer.                                                            *)

LEMMA InsertRequestKept ==
  ASSUME TransferInv, NEW s \in Sessions, NEW r \in Requests, InsertRequest(s, r)
  PROVE  Kept
<1> PICK old : old = work[s]
  OBVIOUS
<1> PICK c : c = old.collection
  OBVIOUS
<1>0. /\ old.at = "inserting" /\ c \in Collections /\ old.from \in Users /\ old.to \in Users
  BY StepIs DEF InsertRequest, TransferInv, TypeOK
<1> PICK row : row = [status |-> "pending", collection |-> c, from |-> old.from,
                      to |-> old.to, code |-> "fresh", link |-> "none"]
  OBVIOUS
<1>1. /\ row \in Row /\ row \in TransferRows /\ row # NoRequest
      /\ row.status = "pending" /\ row.collection = c
      /\ row.from = old.from /\ row.to = old.to
  <2>1. row \in Row
    BY <1>0 DEF Row
  <2>2. row \in TransferRows
    BY <2>1 DEF TransferRows, Row
  <2>3. QED BY <2>1, <2>2, RowIs
<1> PICK step : step = [at |-> "mailing", request |-> r]
  OBVIOUS
<1>2. step.at = "mailing" /\ step.request = r /\ step \in Steps
  BY Stepping DEF Naming
<1>3. /\ UNCHANGED <<owner, deleted, verified, moved, slips>> /\ Goto(s, step)
      /\ request' = [request EXCEPT ![r] = row] /\ request[r] = NoRequest
  BY DEF InsertRequest, collections, history
<1>4. /\ request' \in [Requests -> TransferRows] /\ request'[r] = row
      /\ \A q \in Requests \ {r} : request'[q] = request[q]
      /\ \A q \in Requests : request[q] # NoRequest => request'[q] # NoRequest
  BY <1>1, <1>3 DEF TransferInv, TypeOK
<1>5. /\ work' \in [Sessions -> Steps] /\ work'[s] = step
      /\ \A t \in Sessions \ {s} : work'[t] = work[t]
      /\ \A t \in Sessions :
           ("request" \in DOMAIN work[t] => request[work[t].request] # NoRequest)'
  BY <1>1, <1>2, <1>3, <1>4, OneMoves DEF TransferInv
<1>6. r \notin moved /\ request[r].status # "pending"
  BY <1>3 DEF TransferInv, Moved, NoRequest
<1>7. TypeOK'
  BY <1>3, <1>4, <1>5 DEF TransferInv, TypeOK
<1>8. Moved'
  BY <1>2, <1>3, <1>4, <1>5 DEF TransferInv, Moved, TypeOK
<1>9. \A t \in Sessions \ {s} : work[t].at = "accepting" =>
        work[t].request \in Requests \ {r} /\ request'[work[t].request] = request[work[t].request]
  <2>1. ASSUME NEW t \in Sessions \ {s}, work[t].at = "accepting"
        PROVE  work[t].request \in Requests /\ request[work[t].request] # NoRequest
    BY <2>1, StepIs DEF TransferInv, TypeOK, Naming
  <2>2. QED BY <1>3, <1>4, <2>1
<1>10. ASSUME "owner" \notin slips
       PROVE  Orderly'
  <2>1. Orderly /\ owner[c] = old.from /\ Pending(c) = {}
        /\ \A t \in Sessions \ {s} : work[t].at = "inserting" => work[t].collection # c
    BY <1>0, <1>10 DEF TransferInv, Orderly
  <2>2. \A q \in Requests \ {r} : request[q].status = "pending" => request[q].collection # c
    BY <2>1 DEF Pending
  <2>3. \A q, p \in Requests :
          (/\ request'[q].status = "pending" /\ request'[p].status = "pending"
           /\ request'[q].collection = request'[p].collection) => q = p
    BY <1>1, <1>4, <1>10, <2>1, <2>2 DEF Orderly
  <2>4. \A q \in Requests : request'[q].status = "pending" =>
          owner'[request'[q].collection] =
            IF q \in moved' THEN request'[q].to ELSE request'[q].from
    BY <1>1, <1>3, <1>4, <1>6, <1>10, <2>1 DEF Orderly
  <2>5. \A t \in Sessions : work'[t].at \in {"cancelling", "inserting"} =>
          owner'[work'[t].collection] = work'[t].from
    BY <1>2, <1>3, <1>5, <1>10, <2>1 DEF Orderly
  <2>6. ASSUME NEW t \in Sessions, work'[t].at = "inserting"
        PROVE  (/\ Pending(work[t].collection) = {}
                /\ \A u \in Sessions \ {t} :
                     work[u].at = "inserting" => work[u].collection # work[t].collection)'
    <3> PICK d : d = work'[t].collection
      OBVIOUS
    <3>1. t # s /\ work[t] = work'[t] /\ d # c
      BY <1>2, <1>5, <2>1, <2>6
    <3>2. /\ Pending(d) = {}
          /\ \A u \in Sessions \ {t} : work[u].at = "inserting" => work[u].collection # d
      BY <1>10, <2>1, <2>6, <3>1 DEF Orderly
    <3>3. Pending(d)' = {}
      BY <1>1, <1>4, <3>1, <3>2 DEF Pending
    <3>4. \A u \in Sessions \ {t} : work'[u].at = "inserting" => work'[u].collection # d
      BY <1>2, <1>5, <3>2
    <3>5. Pending(work[t].collection)' = Pending(d)'
      BY DEF Pending
    <3>6. QED BY <3>3, <3>4, <3>5
  <2>7. ASSUME NEW t \in Sessions, work'[t].at = "accepting"
        PROVE  (LET q == work[t].request IN
                IF q \in moved THEN owner[request[q].collection] = request[q].to
                ELSE request[q].status = "pending")'
    <3>1. t # s /\ work[t] = work'[t]
      BY <1>2, <1>5, <2>7
    <3>2. QED BY <1>3, <1>9, <1>10, <2>1, <2>7, <3>1 DEF Orderly
  <2>8. QED BY <2>3, <2>4, <2>5, <2>6, <2>7 DEF Orderly
<1>11. Orderly'
  BY <1>3, <1>10 DEF Orderly
<1>12. \A u : Owned(u)' = Owned(u)
  BY <1>3 DEF Owned
<1>13. Capped'
  <2>1. ASSUME NEW t \in Sessions, NEW u, PassedCap(t, u)'
        PROVE  PassedCap(t, u)
    <3>1. t # s
      BY <1>2, <1>5, <2>1 DEF PassedCap
    <3>2. QED BY <1>5, <1>9, <2>1, <3>1 DEF PassedCap
  <2>2. QED BY <1>3, <1>12, <2>1 DEF TransferInv, Capped
<1>14. BookStep
  <2>1. CASE "owner" \in slips
    BY <1>3, <2>1 DEF BookStep
  <2>2. CASE "owner" \notin slips
    <3> PICK offer : offer = [id |-> r, collection |-> c, from |-> owner[c], to |-> old.to]
      OBVIOUS
    <3>1. owner[c] = old.from /\ Pending(c) = {}
      BY <1>0, <2>2 DEF TransferInv, Orderly
    <3>2. OpenOffers' = OpenOffers \cup {offer}
      <4>1. {q \in Requests \ moved : request[q].status = "pending"}'
              = {q \in Requests \ moved : request[q].status = "pending"} \cup {r}
        BY <1>1, <1>3, <1>4, <1>6
      <4>2. offer = [id |-> r, collection |-> request'[r].collection,
                     from |-> request'[r].from, to |-> request'[r].to]
        BY <1>1, <1>4, <3>1
      <4>3. QED BY <1>4, <1>6, <4>1, <4>2 DEF OpenOffers
    <3>3. {o \in OpenOffers : o.collection # c} = OpenOffers
      BY <3>1 DEF OpenOffers, Pending
    <3>4. owner[c] \in Users
      BY <1>0, <3>1
    <3>5. Book!Offer(r, c, old.to)
      BY <1>3, <3>2, <3>3, <3>4 DEF Book!Offer, OpenOffers
    <3>6. QED BY <1>0, <1>3, <2>2, <3>5 DEF BookStep, Book!Undisturbed
  <2>3. QED BY <2>1, <2>2
<1>15. CapStep
  BY <1>12, NobodyGains
<1>16. QED BY <1>7, <1>8, <1>11, <1>13, <1>14, <1>15 DEF Kept, TransferInv

-----------------------------------------------------------------------------
(* A new owner.                                                            *)

LEMMA RowOwners ==
  ASSUME TypeOK, NEW r \in Requests, request[r] # NoRequest
  PROVE  /\ request[r].collection \in Collections
         /\ request[r].from \in Users /\ request[r].to \in Users
         /\ request[r].from # NoOne /\ request[r].to # NoOne
<1>1. request[r] \in Row
  BY RowIs DEF TypeOK
<1>2. QED BY <1>1, TransferAssumption DEF Row

LEMMA AcceptingIs ==
  ASSUME TypeOK, NEW t \in Sessions, work[t].at \in Naming
  PROVE  work[t].request \in Requests /\ request[work[t].request] # NoRequest
BY StepIs DEF TypeOK

\* A collection that is made is nobody's before, and asked for by nobody.
LEMMA InsertCollectionKept ==
  ASSUME TransferInv, NEW s \in Sessions, NEW c \in Collections, InsertCollection(s, c)
  PROVE  Kept
<1> PICK u : u = work[s].user
  OBVIOUS
<1>0. work[s].at = "creating" /\ u \in Users /\ owner[c] = NoOne
  BY StepIs DEF InsertCollection, TransferInv, TypeOK
<1>1. /\ UNCHANGED <<deleted, verified, request, moved>> /\ Goto(s, Idle)
      /\ owner' = [owner EXCEPT ![c] = u]
      /\ Slip("cap", \E t \in Others(s) : PassedCap(t, u))
  BY DEF InsertCollection
<1>2. /\ owner' \in [Collections -> Users \cup {NoOne}] /\ owner'[c] = u
      /\ \A d \in Collections \ {c} : owner'[d] = owner[d]
  BY <1>0, <1>1 DEF TransferInv, TypeOK
<1>3. slips \subseteq slips' /\ slips' \subseteq slips \cup {"cap"}
  BY <1>1 DEF Slip
<1>4. /\ work' \in [Sessions -> Steps] /\ work'[s] = Idle /\ Idle.at = "idle"
      /\ \A t \in Sessions \ {s} : work'[t] = work[t]
      /\ \A t \in Sessions :
           ("request" \in DOMAIN work[t] => request[work[t].request] # NoRequest)'
  BY <1>1, Stepping, OneMoves DEF TransferInv, Naming
<1>5. TypeOK'
  BY <1>1, <1>2, <1>3, <1>4 DEF TransferInv, TypeOK
<1>6. Moved'
  BY <1>1, <1>4 DEF TransferInv, Moved
<1>7. Orderly'
  <2> SUFFICES ASSUME "owner" \notin slips
               PROVE  Orderly'
    BY <1>3 DEF Orderly
  <2>1. Orderly
    BY DEF TransferInv
  <2>2. ASSUME NEW r \in Requests, request[r] # NoRequest,
               owner[request[r].collection] \in {request[r].from, request[r].to}
        PROVE  owner'[request[r].collection] = owner[request[r].collection]
    <3>1. request[r].collection # c /\ request[r].collection \in Collections
      BY <1>0, <2>2, RowOwners DEF TransferInv
    <3>2. QED BY <1>2, <3>1
  <2>3. \A r \in Requests : request'[r].status = "pending" =>
          owner'[request'[r].collection] =
            IF r \in moved' THEN request'[r].to ELSE request'[r].from
    BY <1>1, <2>1, <2>2, PendingIs DEF Orderly, TransferInv
  <2>4. ASSUME NEW t \in Sessions, work'[t].at \in {"cancelling", "inserting"}
        PROVE  owner'[work'[t].collection] = work'[t].from
    <3>1. /\ work'[t] = work[t] /\ owner[work[t].collection] = work[t].from
          /\ work[t].collection \in Collections /\ work[t].from \in Users
      BY <1>4, <2>1, <2>4, StepIs DEF Orderly, TransferInv, TypeOK
    <3>2. work[t].collection # c
      BY <1>0, <3>1, TransferAssumption
    <3>3. QED BY <1>2, <3>1, <3>2
  <2>5. ASSUME NEW t \in Sessions, work'[t].at = "inserting"
        PROVE  (/\ Pending(work[t].collection) = {}
                /\ \A v \in Sessions \ {t} :
                     work[v].at = "inserting" => work[v].collection # work[t].collection)'
    <3>1. \A d : Pending(d)' = Pending(d)
      BY <1>1 DEF Pending
    <3>2. Pending(work[t].collection)' = {} 
      BY <1>1, <1>4, <2>1, <2>5 DEF Orderly, Pending
    <3>3. QED BY <1>4, <2>1, <2>5, <3>2 DEF Orderly
  <2>6. ASSUME NEW t \in Sessions, work'[t].at = "accepting"
        PROVE  (LET r == work[t].request IN
                IF r \in moved THEN owner[request[r].collection] = request[r].to
                ELSE request[r].status = "pending")'
    <3> PICK r : r = work[t].request
      OBVIOUS
    <3>1. /\ work'[t] = work[t] /\ r \in Requests /\ request[r] # NoRequest
          /\ IF r \in moved THEN owner[request[r].collection] = request[r].to
             ELSE request[r].status = "pending"
      BY <1>4, <2>1, <2>6, AcceptingIs DEF Orderly, TransferInv, Naming
    <3>2. QED BY <1>1, <2>2, <3>1
  <2>7. QED BY <1>1, <2>1, <2>3, <2>4, <2>5, <2>6 DEF Orderly
<1>8. \A v \in Users \ {u} : Owned(v)' = Owned(v)
  <2>1. \A v \in Users \ {u} : owner[c] # v /\ owner'[c] # v
    BY <1>0, <1>2, TransferAssumption
  <2>2. QED BY <1>1, <1>2, <2>1 DEF Owned
<1>9. ASSUME "cap" \notin slips', u \notin verified
      PROVE  Owned(u)' \subseteq {c}
  <2>1. PassedCap(s, u) /\ "cap" \notin slips
    BY <1>0, <1>3, <1>9 DEF PassedCap
  <2>2. Owned(u) = {}
    BY <1>0, <1>9, <2>1 DEF TransferInv, Capped
  <2>3. QED BY <1>1, <1>2, <2>2 DEF Owned
<1>10. Capped'
  <2>1. ASSUME "cap" \notin slips', NEW t \in Sessions, NEW v \in Users \ verified,
               PassedCap(t, v)'
        PROVE  Owned(v)' = {}
    <3>1. t # s
      BY <1>4, <2>1 DEF PassedCap
    <3>2. PassedCap(t, v)
      BY <1>1, <1>4, <2>1, <3>1 DEF PassedCap
    <3>3. v # u
      BY <1>1, <2>1, <3>1, <3>2 DEF Slip, Others
    <3>4. QED BY <1>3, <1>8, <2>1, <3>2, <3>3 DEF TransferInv, Capped
  <2>2. QED BY <1>1, <2>1 DEF Capped
<1>11. BookStep
  <2>1. CASE "owner" \in slips
    BY <1>3, <2>1 DEF BookStep
  <2>2. CASE "owner" \notin slips
    <3>1. UNCHANGED OpenOffers
      BY <1>1 DEF OpenOffers
    <3>2. Book!Open(c, u)
      BY <1>0, <1>1, <3>1 DEF Book!Open, OpenOffers
    <3>3. QED BY <1>0, <1>3, <2>2, <3>2 DEF BookStep, Book!Undisturbed
  <2>3. QED BY <2>1, <2>2
<1>12. CapStep
  <2>1. \A v \in Users \ verified' : "cap" \notin slips' =>
          Owned(v)' \subseteq Owned(v) \/ Owned(v)' \subseteq {c}
    BY <1>1, <1>8, <1>9
  <2>2. QED BY <2>1, OneGains
<1>13. QED BY <1>5, <1>6, <1>7, <1>10, <1>11, <1>12 DEF Kept, TransferInv

\* Deletion, re-activation and KYC touch no request.
LEMMA StatusKept ==
  ASSUME TransferInv, (\E c \in Collections : SetStatus(c)) \/ (\E u \in Users : KycDecided(u))
  PROVE  Kept
<1>1. /\ UNCHANGED <<owner, request, work, moved>>
      /\ deleted' \subseteq Collections /\ verified' \subseteq Users
      /\ slips \subseteq slips' /\ slips' \subseteq slips \cup {"cap"}
  BY DEF SetStatus, KycDecided, Slip, TransferInv, TypeOK
<1>2. TypeOK' /\ Moved'
  BY <1>1 DEF TransferInv, TypeOK, Moved
<1>3. Orderly'
  BY <1>1 DEF TransferInv, Orderly, Pending
<1>4. "cap" \notin slips' => \A u : Owned(u)' \subseteq Owned(u)
  BY <1>1 DEF SetStatus, KycDecided, Slip, Owned
<1>5. ASSUME "cap" \notin slips', NEW t \in Sessions, NEW u \in Users \ verified',
             PassedCap(t, u)
      PROVE  u \notin verified
  BY <1>5 DEF SetStatus, KycDecided, Slip
<1>6. \A t, u : PassedCap(t, u)' = PassedCap(t, u)
  BY <1>1 DEF PassedCap
<1>7. Capped'
  <2>1. ASSUME "cap" \notin slips', NEW t \in Sessions, NEW u \in Users \ verified',
               PassedCap(t, u)'
        PROVE  Owned(u)' = {}
    BY <1>1, <1>4, <1>5, <1>6, <2>1 DEF TransferInv, Capped
  <2>2. QED BY <2>1 DEF Capped
<1>8. BookStep
  BY <1>1, Withdrawn DEF OpenOffers
<1>9. CapStep
  BY <1>4, NobodyGains
<1>10. QED BY <1>2, <1>3, <1>7, <1>8, <1>9 DEF Kept, TransferInv

\* A second acceptance of a request that has moved its collection changes nothing; the
\* first one takes the offer that is open.
LEMMA MoveCollectionKept ==
  ASSUME TransferInv, NEW s \in Sessions, MoveCollection(s)
  PROVE  Kept
<1> PICK r : r = work[s].request
  OBVIOUS
<1> PICK c : c = request[r].collection
  OBVIOUS
<1> PICK to : to = request[r].to
  OBVIOUS
<1>0. /\ work[s].at = "accepting" /\ r \in Requests /\ request[r] # NoRequest
      /\ c \in Collections /\ to \in Users /\ to # NoOne
  BY AcceptingIs, RowOwners DEF MoveCollection, TransferInv, Naming
<1> PICK step : step = [at |-> "closing", request |-> r]
  OBVIOUS
<1>1. step.at = "closing" /\ step.request = r /\ step \in Steps
  BY <1>0, Stepping DEF Naming
<1>2. /\ UNCHANGED <<deleted, verified, request>> /\ Goto(s, step)
      /\ owner' = [owner EXCEPT ![c] = to] /\ moved' = moved \cup {r}
  BY DEF MoveCollection
<1>3. /\ slips \subseteq slips' /\ slips' \subseteq slips \cup {"owner", "cap"}
      /\ "owner" \notin slips' => ~MovedUnder(s, r)
      /\ "cap" \notin slips' => \A t \in Others(s) : ~PassedCap(t, to)
  BY DEF MoveCollection
<1>4. /\ owner' \in [Collections -> Users \cup {NoOne}] /\ owner'[c] = to
      /\ \A d \in Collections \ {c} : owner'[d] = owner[d]
  BY <1>0, <1>2 DEF TransferInv, TypeOK
<1>5. /\ work' \in [Sessions -> Steps] /\ work'[s] = step
      /\ \A t \in Sessions \ {s} : work'[t] = work[t]
      /\ \A t \in Sessions :
           ("request" \in DOMAIN work[t] => request[work[t].request] # NoRequest)'
  BY <1>0, <1>1, <1>2, OneMoves DEF TransferInv
<1>6. TypeOK'
  BY <1>0, <1>2, <1>3, <1>4, <1>5 DEF TransferInv, TypeOK
<1>7. Moved'
  BY <1>0, <1>1, <1>2, <1>5 DEF TransferInv, Moved
<1>8. ASSUME "owner" \notin slips
      PROVE  IF r \in moved THEN owner[c] = to
             ELSE request[r].status = "pending" /\ owner[c] = request[r].from
  BY <1>0, <1>8 DEF TransferInv, Orderly
<1>9. Orderly'
  <2> SUFFICES ASSUME "owner" \notin slips'
               PROVE  Orderly'
    BY DEF Orderly
  <2>1. /\ Orderly /\ "owner" \notin slips
        /\ \A t \in Sessions \ {s} : work[t].at \in {"cancelling", "inserting"} =>
             work[t].collection # c
        /\ \A t \in Sessions \ {s} : work[t].at = "accepting" =>
             work[t].request = r \/ request[work[t].request].collection # c
    BY <1>3 DEF TransferInv, MovedUnder, Others, Asking
  <2>2. ASSUME NEW q \in Requests, request'[q].status = "pending"
        PROVE  owner'[request'[q].collection] =
                 IF q \in moved' THEN request'[q].to ELSE request'[q].from
    <3>1. /\ owner[request[q].collection] =
               IF q \in moved THEN request[q].to ELSE request[q].from
          /\ request[q].collection \in Collections
      BY <1>2, <2>1, <2>2, PendingIs, RowOwners DEF Orderly, TransferInv
    <3>2. CASE request[q].collection # c
      BY <1>2, <1>4, <3>1, <3>2
    <3>3. CASE q = r
      BY <1>2, <1>4, <3>3
    <3>4. CASE request[q].collection = c /\ q # r
      <4>1. r \in moved
        BY <1>2, <1>8, <2>1, <2>2, <1>0, <3>4 DEF Orderly
      <4>2. owner[c] = owner'[c]
        BY <1>4, <1>8, <2>1, <4>1
      <4>3. QED BY <1>2, <3>1, <3>4, <4>2
    <3>5. QED BY <3>2, <3>3, <3>4
  <2>3. ASSUME NEW t \in Sessions, work'[t].at \in {"cancelling", "inserting"}
        PROVE  owner'[work'[t].collection] = work'[t].from
    <3>1. /\ t # s /\ work'[t] = work[t] /\ work[t] \in Steps
      BY <1>1, <1>5, <2>3 DEF TransferInv, TypeOK
    <3>2. work[t].collection \in Collections \ {c} /\ owner[work[t].collection] = work[t].from
      BY <2>1, <2>3, <3>1, StepIs DEF Orderly
    <3>3. QED BY <1>4, <3>1, <3>2
  <2>4. ASSUME NEW t \in Sessions, work'[t].at = "inserting"
        PROVE  (/\ Pending(work[t].collection) = {}
                /\ \A v \in Sessions \ {t} :
                     work[v].at = "inserting" => work[v].collection # work[t].collection)'
    <3>1. t # s /\ work'[t] = work[t]
      BY <1>1, <1>5, <2>4
    <3>2. Pending(work[t].collection)' = {}
      BY <1>2, <2>1, <2>4, <3>1 DEF Orderly, Pending
    <3>3. QED BY <1>1, <1>5, <2>1, <2>4, <3>1, <3>2 DEF Orderly
  <2>5. ASSUME NEW t \in Sessions, work'[t].at = "accepting"
        PROVE  (LET q == work[t].request IN
                IF q \in moved THEN owner[request[q].collection] = request[q].to
                ELSE request[q].status = "pending")'
    <3> PICK q : q = work[t].request
      OBVIOUS
    <3>1. /\ t # s /\ work'[t] = work[t] /\ q \in Requests /\ request[q] # NoRequest
          /\ q = r \/ request[q].collection # c
      BY <1>1, <1>5, <2>1, <2>5, AcceptingIs DEF TransferInv, Naming
    <3>2. request[q].collection \in Collections
      BY <3>1, RowOwners DEF TransferInv
    <3>3. IF q \in moved THEN owner[request[q].collection] = request[q].to
          ELSE request[q].status = "pending"
      BY <2>1, <2>5, <3>1 DEF Orderly
    <3>4. IF q \in moved' THEN owner'[request[q].collection] = request[q].to
          ELSE request[q].status = "pending"
      BY <1>2, <1>4, <3>1, <3>2, <3>3
    <3>5. QED BY <1>2, <3>1, <3>4
  <2>6. QED BY <1>2, <2>1, <2>2, <2>3, <2>4, <2>5 DEF Orderly
<1>10. \A v \in Users \ {to} : Owned(v)' \subseteq Owned(v)
  BY <1>2, <1>4 DEF Owned
<1>11. ASSUME "cap" \notin slips', to \notin verified
       PROVE  Owned(to)' \subseteq {c}
  <2>1. PassedCap(s, to) /\ "cap" \notin slips
    BY <1>0, <1>3, <1>11 DEF PassedCap
  <2>2. Owned(to) = {}
    BY <1>0, <1>11, <2>1 DEF TransferInv, Capped
  <2>3. QED BY <1>2, <1>4, <2>2 DEF Owned
<1>12. Capped'
  <2>1. ASSUME "cap" \notin slips', NEW t \in Sessions, NEW v \in Users \ verified,
               PassedCap(t, v)'
        PROVE  Owned(v)' = {}
    <3>1. t # s
      BY <1>1, <1>5, <2>1 DEF PassedCap
    <3>2. PassedCap(t, v)
      BY <1>2, <1>5, <2>1, <3>1 DEF PassedCap
    <3>3. v # to
      BY <1>3, <2>1, <3>1, <3>2 DEF Others
    <3>4. QED BY <1>3, <1>10, <2>1, <3>2, <3>3 DEF TransferInv, Capped
  <2>2. QED BY <1>2, <2>1 DEF Capped
<1>13. BookStep
  <2>1. CASE "owner" \in slips'
    BY <2>1 DEF BookStep
  <2>2. CASE "owner" \notin slips' /\ r \in moved
    <3>1. UNCHANGED OpenOffers
      BY <1>2, <2>2 DEF OpenOffers
    <3>2. UNCHANGED owner
      BY <1>2, <1>3, <1>8, <2>2 DEF TransferInv, TypeOK
    <3>3. QED BY <1>3, <3>1, <3>2, Withdrawn
  <2>3. CASE "owner" \notin slips' /\ r \notin moved
    <3> PICK offer : offer = [id |-> r, collection |-> request[r].collection,
                              from |-> request[r].from, to |-> request[r].to]
      OBVIOUS
    <3>1. /\ offer.collection = c /\ offer.from = owner[c] /\ offer.to = to /\ offer.id = r
          /\ request[r].status = "pending" /\ "owner" \notin slips
      BY <1>3, <1>8, <2>3
    <3>2. offer \in OpenOffers
      BY <1>0, <2>3, <3>1 DEF OpenOffers
    <3>3. OpenOffers' = OpenOffers \ {offer}
      BY <1>2, <3>1 DEF OpenOffers
    <3>4. Book!HandOver(offer)
      BY <1>2, <3>1, <3>3 DEF Book!HandOver, OpenOffers
    <3>5. QED BY <2>3, <3>1, <3>2, <3>4 DEF BookStep, Book!Undisturbed, OpenOffers
  <2>4. QED BY <2>1, <2>2, <2>3
<1>14. CapStep
  <2>1. \A v \in Users \ verified' : "cap" \notin slips' =>
          Owned(v)' \subseteq Owned(v) \/ Owned(v)' \subseteq {c}
    BY <1>2, <1>10, <1>11
  <2>2. QED BY <1>0, <2>1, OneGains
<1>15. QED BY <1>6, <1>7, <1>9, <1>12, <1>13, <1>14 DEF Kept, TransferInv

-----------------------------------------------------------------------------
(* The theorems.                                                           *)

LEMMA InitTransfer == Init => TransferInv /\ Book!Opened
<1> SUFFICES ASSUME Init
             PROVE  TransferInv /\ Book!Opened
  OBVIOUS
<1>1. /\ \A s \in Sessions : work[s] = Idle
      /\ \A r \in Requests : request[r] = NoRequest
      /\ NoRequest.status = "none" /\ Idle.at = "idle" /\ "request" \notin DOMAIN Idle
  BY DEF Init, NoRequest, Idle
<1>2. TypeOK
  BY <1>1, Stepping DEF Init, TypeOK, TransferRows
<1>3. Moved /\ Orderly
  BY <1>1 DEF Init, Moved, Orderly
<1>4. Capped
  BY <1>1 DEF Init, Capped, PassedCap
<1>5. Book!Opened
  BY <1>1 DEF Init, Book!Opened
<1>6. QED BY <1>2, <1>3, <1>4, <1>5 DEF TransferInv

LEMMA NextKept == TransferInv /\ [Next]_vars => Kept
<1> SUFFICES ASSUME TransferInv, [Next]_vars
             PROVE  Kept
  OBVIOUS
<1>1. ASSUME NEW s \in Sessions, OwnerStep(s)
      PROVE  Kept
  BY <1>1, CancelTransferKept, InsertCollectionKept, RequestTransferKept, CreateKept,
     CancelPendingKept, MailCodeKept, WithdrawKept DEF OwnerStep
<1>2. ASSUME NEW s \in Sessions, RequestStep(s)
      PROVE  Kept
  BY <1>2, InsertRequestKept, RequestReadKept, ConfirmKept, EndsKept, MoveCollectionKept
  DEF RequestStep
<1>3. CASE UNCHANGED vars
  <2>1. TypeOK'
    BY <1>3 DEF vars, TransferInv, TypeOK
  <2>2. Moved' /\ Orderly' /\ Capped'
    BY <1>3 DEF vars, TransferInv, Moved, Orderly, Capped, Pending, PassedCap, Owned
  <2>3. BookStep
    BY <1>3, Withdrawn DEF vars, OpenOffers
  <2>4. CapStep
    BY <1>3, NobodyGains DEF vars, Owned
  <2>5. QED BY <2>1, <2>2, <2>3, <2>4 DEF Kept, TransferInv
<1>4. QED BY <1>1, <1>2, <1>3, DieKept, LapseKept, StatusKept DEF Next

LEMMA TransferInvariant == Spec => []TransferInv
<1>1. TransferInv /\ [Next]_vars => TransferInv'
  BY NextKept DEF Kept
<1>2. QED BY <1>1, InitTransfer, PTL DEF Spec

\* The rows of collections and collection_transfer_requests keep their shape.
THEOREM TransferTyped == Spec => []TypeOK
<1>1. TransferInv => TypeOK
  BY DEF TransferInv
<1>2. QED BY <1>1, TransferInvariant, PTL

\* The handlers of collectionTransfer.js implement the ownership book: every step opens
\* a collection, offers it, withdraws offers, hands it to the one its owner offers it
\* to, or is none of the book's, until two handlers meet in one of the windows.
THEOREM TransferImplementsOwnership == Spec => ImplementsOwnership
<1>1. TransferInv /\ [Next]_vars => [Book!Undisturbed \/ ("owner" \in slips)']_(Book!book)
  BY NextKept DEF Kept, BookStep
<1>2. QED BY <1>1, InitTransfer, TransferInvariant, PTL
      DEF Spec, ImplementsOwnership, Book!Promise

\* recipientBlockedByKycCap, assertCanCreate: nobody unverified comes to hold a second
\* collection, but for two overlapping checks, a re-activation, or a verification lost
\* after the check.
THEOREM CapIsKept == Spec => CapKept
<1>1. TransferInv /\ [Next]_vars =>
        [\A u \in Users \ verified' :
           Cardinality(Owned(u)') > 1 /\ Cardinality(Owned(u)') > Cardinality(Owned(u))
             => "cap" \in slips']_vars
  BY NextKept DEF Kept, CapStep
<1>2. QED BY <1>1, TransferInvariant, PTL DEF Spec, CapKept

-----------------------------------------------------------------------------
(* Shared access to a collection.                                         *)

Findings == [row : {NoGrant} \cup Grants, flags : SUBSET Flags]
Founds == UNION {[read -> Findings] : read \in SUBSET Shareable}
Acceptances ==
  [at : {"granting"}, invite : Invites, unread : SUBSET Shareable, found : Founds,
   failed : BOOLEAN]

\* A grant names invites that are there.
Tables ==
  /\ AccessTypeOK
  /\ \A g \in Grants : grant[g] # NoRow => \A i \in grant[g].invites : invite[i] # NoRow

\* Every flag of a set is one of an invite that the row names.
Backed(g, flags) == \A f \in flags : \E i \in grant[g].invites : f \in invite[i].flags

\* What an acceptance has read is of its invite, its person and its collections.
Reading(step) ==
  /\ step \in Acceptances /\ invite[step.invite] # NoRow
  /\ step.unread \subseteq invite[step.invite].items
  /\ DOMAIN step.found \subseteq invite[step.invite].items \ step.unread
  /\ \A c \in DOMAIN step.found :
       LET g == step.found[c].row IN
       g # NoGrant =>
         /\ grant[g] # NoRow /\ grant[g].collection = c
         /\ grant[g].user = invite[step.invite].to
         /\ grant[g].status = "active" => Backed(g, step.found[c].flags)

Proper(step) ==
  /\ step.at \in {"idle", "inserting", "closing", "granting", "revoking"}
  /\ step.at = "inserting" =>
       step \in [at : {"inserting"}, from : Owners, to : Invited, items : ItemChoices,
                 flags : FlagChoices]
  /\ step.at = "closing" =>
       step \in [at : {"closing"}, invite : Invites] /\ invite[step.invite] # NoRow
  /\ step.at = "revoking" =>
       step \in [at : {"revoking"}, grant : Grants] /\ grant[step.grant] # NoRow
  /\ step.at = "granting" => Reading(step)

Carried ==
  /\ handling = [s \in Handlers |-> handling[s]]
  /\ \A s \in Handlers : Proper(handling[s])

Flagged == \A g \in Grants : grant[g].status = "active" => Backed(g, grant[g].flags)

\* An acceptance that has looked for the person's grant of a collection.
HasRead(s, u, c) == Granting(s, u, c) /\ c \notin handling[s].unread

\* What an acceptance found is still so, and what it wrote is seen.
Current(s, u, c) ==
  IF c \in DOMAIN handling[s].found
  THEN Active(u, c) = {handling[s].found[c].row} \ {NoGrant}
  ELSE handling[s].failed \/ invite[handling[s].invite].flags \subseteq Sees(u, c)

\* Unless two met: one grant, and one acceptance that has looked for it.
Unmixed ==
  "grants" \notin noted =>
    /\ OneActiveGrant
    /\ \A s \in Handlers : \A u, c :
         HasRead(s, u, c) =>
           Current(s, u, c) /\ \A t \in OtherHandlers(s) : ~HasRead(t, u, c)

\* The invites behind an active grant are accepted or being accepted, and nobody is
\* about to close an accepted one.
Consented ==
  "consent" \notin noted =>
    /\ \A g \in Grants : grant[g].status = "active" =>
         \A i \in grant[g].invites :
           invite[i].status = "accepted" \/ \E s \in Handlers : Redeeming(s, i)
    /\ \A s \in Handlers : handling[s].at = "closing" =>
         invite[handling[s].invite].status # "accepted"

AccessInv == Tables /\ Carried /\ Flagged /\ Unmixed /\ Consented
-----------------------------------------------------------------------------
(* What the statements do to the two tables.                               *)

\* Invites stay what they are of; only their status and link move on.
InvitesKeep ==
  /\ invite' \in [Invites -> InviteRows]
  /\ \A i \in Invites : invite[i] # NoRow =>
       /\ invite'[i] # NoRow /\ invite'[i].to = invite[i].to
       /\ invite'[i].items = invite[i].items /\ invite'[i].flags = invite[i].flags

\* Grants stay what they are for; an active one only gathers invites.
GrantsKeep ==
  /\ grant' \in [Grants -> GrantRows]
  /\ \A g \in Grants : grant[g] # NoRow =>
       /\ grant'[g] # NoRow /\ grant'[g].user = grant[g].user
       /\ grant'[g].collection = grant[g].collection
       /\ grant'[g].status = "active" =>
            grant[g].status = "active" /\ grant[g].invites \subseteq grant'[g].invites

LEMMA InviteShape ==
  ASSUME NEW row \in InviteRows
  PROVE  /\ row # NoRow <=> row.status \in {"pending", "accepted", "closed"}
         /\ row # NoRow =>
              row \in [status : {"pending", "accepted", "closed"},
                       from : Owners, to : Invited, items : ItemChoices,
                       flags : FlagChoices, link : {"none", "mailed"}]
<1>1. CASE row = NoRow
  BY <1>1 DEF NoRow
<1>2. CASE row \in [status : {"pending", "accepted", "closed"},
                    from : Owners, to : Invited, items : ItemChoices,
                    flags : FlagChoices, link : {"none", "mailed"}]
  <2>1. row.status \in {"pending", "accepted", "closed"}
    BY <1>2
  <2>2. row # NoRow
    BY <2>1 DEF NoRow
  <2> QED
    BY <1>2, <2>1, <2>2
<1> QED
  BY <1>1, <1>2 DEF InviteRows

LEMMA GrantShape ==
  ASSUME NEW row \in GrantRows
  PROVE  /\ row # NoRow <=> row.status \in {"active", "revoked"}
         /\ row # NoRow =>
              row \in [status : {"active", "revoked"}, collection : Shareable,
                       user : Invited, flags : SUBSET Flags, invites : SUBSET Invites]
<1>1. CASE row = NoRow
  BY <1>1 DEF NoRow
<1>2. CASE row \in [status : {"active", "revoked"}, collection : Shareable,
                    user : Invited, flags : SUBSET Flags, invites : SUBSET Invites]
  <2>1. row.status \in {"active", "revoked"}
    BY <1>2
  <2>2. row # NoRow
    BY <2>1 DEF NoRow
  <2> QED
    BY <1>2, <2>1, <2>2
<1> QED
  BY <1>1, <1>2 DEF GrantRows

LEMMA ResolvedShape ==
  ASSUME NEW row \in InviteRows, row # NoRow, NEW status \in {"accepted", "closed"}
  PROVE  /\ Resolved(row, status) \in InviteRows /\ Resolved(row, status) # NoRow
         /\ Resolved(row, status).status = status
         /\ Resolved(row, status).to = row.to
         /\ Resolved(row, status).items = row.items
         /\ Resolved(row, status).flags = row.flags
<1> PICK new : new = Resolved(row, status)
  OBVIOUS
<1>1. row \in [status : {"pending", "accepted", "closed"},
               from : Owners, to : Invited, items : ItemChoices,
               flags : FlagChoices, link : {"none", "mailed"}]
  BY InviteShape
<1>2. /\ new \in [status : {"pending", "accepted", "closed"},
                  from : Owners, to : Invited, items : ItemChoices,
                  flags : FlagChoices, link : {"none", "mailed"}]
      /\ new.status = status /\ new.to = row.to /\ new.items = row.items
      /\ new.flags = row.flags
  BY <1>1 DEF Resolved
<1>3. new \in InviteRows
  BY <1>2 DEF InviteRows
<1>4. new # NoRow
  BY <1>2, <1>3, InviteShape
<1> QED
  BY <1>2, <1>3, <1>4

LEMMA CloseFacts ==
  ASSUME Tables, NEW is \in SUBSET Invites, Close(is), \A i \in is : invite[i] # NoRow
  PROVE  /\ InvitesKeep
         /\ \A i \in is : invite'[i].status = "closed"
         /\ \A i \in Invites \ is : invite'[i] = invite[i]
<1>1. invite \in [Invites -> InviteRows]
  BY DEF Tables, AccessTypeOK
<1>2. \A i \in Invites : invite'[i] = IF i \in is THEN Resolved(invite[i], "closed")
                                      ELSE invite[i]
  BY DEF Close
<1>3. \A i \in is : /\ Resolved(invite[i], "closed") \in InviteRows
                    /\ Resolved(invite[i], "closed") # NoRow
                    /\ Resolved(invite[i], "closed").status = "closed"
                    /\ Resolved(invite[i], "closed").to = invite[i].to
                    /\ Resolved(invite[i], "closed").items = invite[i].items
                    /\ Resolved(invite[i], "closed").flags = invite[i].flags
  BY <1>1, ResolvedShape
<1>4. invite' \in [Invites -> InviteRows]
  BY <1>1, <1>2, <1>3 DEF Close
<1> QED
  BY <1>2, <1>3, <1>4 DEF InvitesKeep

LEMMA UnchangedKeeps ==
  ASSUME Tables
  PROVE  /\ UNCHANGED invite => InvitesKeep
         /\ UNCHANGED grant => GrantsKeep
BY DEF Tables, AccessTypeOK, InvitesKeep, GrantsKeep

\* Grants that stay as they are name invites that stay what they were.
LEMMA TablesKept ==
  ASSUME Tables, InvitesKeep, UNCHANGED grant,
         ownedBy' \in [Shareable -> Owners], noted' \subseteq {"consent", "grants"}
  PROVE  Tables'
<1>1. grant \in [Grants -> GrantRows]
  BY DEF Tables, AccessTypeOK
<1>2. ASSUME NEW g \in Grants, grant[g] # NoRow, NEW i \in grant[g].invites
      PROVE  /\ invite'[i] # NoRow /\ invite'[i].to = grant[g].user
             /\ grant[g].collection \in invite'[i].items
  <2>1. i \in Invites
    BY <1>1, <1>2, GrantShape
  <2>2. /\ invite[i] # NoRow /\ invite[i].to = grant[g].user
        /\ grant[g].collection \in invite[i].items
    BY <1>2 DEF Tables, AccessTypeOK
  <2> QED
    BY <2>1, <2>2 DEF InvitesKeep
<1> QED
  BY <1>1, <1>2 DEF Tables, AccessTypeOK, InvitesKeep

\* Whatever a handler carries stays good.
LEMMA ProperKept ==
  ASSUME Tables, InvitesKeep, GrantsKeep, NEW step, Proper(step)
  PROVE  Proper(step)'
<1>1. CASE step.at # "granting"
  BY <1>1 DEF Proper, InvitesKeep, GrantsKeep
<1>2. CASE step.at = "granting"
  <2>1. /\ step \in Acceptances /\ invite[step.invite] # NoRow
        /\ step.unread \subseteq invite[step.invite].items
        /\ DOMAIN step.found \subseteq invite[step.invite].items \ step.unread
    BY <1>2 DEF Proper, Reading
  <2>2. step.invite \in Invites /\ step.found \in Founds
    BY <2>1 DEF Acceptances
  <2>3. /\ invite'[step.invite] # NoRow /\ invite'[step.invite].to = invite[step.invite].to
        /\ invite'[step.invite].items = invite[step.invite].items
    BY <2>1, <2>2 DEF InvitesKeep
  <2>4. ASSUME NEW c \in DOMAIN step.found, step.found[c].row # NoGrant
        PROVE  LET g == step.found[c].row IN
               /\ grant'[g] # NoRow /\ grant'[g].collection = c
               /\ grant'[g].user = invite[step.invite].to
               /\ grant'[g].status = "active" => Backed(g, step.found[c].flags)'
    <3> PICK g : g = step.found[c].row
      OBVIOUS
    <3>1. /\ grant[g] # NoRow /\ grant[g].collection = c
          /\ grant[g].user = invite[step.invite].to
          /\ grant[g].status = "active" => Backed(g, step.found[c].flags)
      BY <1>2, <2>4 DEF Proper, Reading
    <3>2. g \in Grants
      BY <2>2, <2>4 DEF Founds, Findings
    <3>3. /\ grant'[g] # NoRow /\ grant'[g].collection = c
          /\ grant'[g].user = invite[step.invite].to
      BY <3>1, <3>2 DEF GrantsKeep
    <3>4. ASSUME grant'[g].status = "active"
          PROVE  Backed(g, step.found[c].flags)'
      <4>1. grant[g].status = "active" /\ grant[g].invites \subseteq grant'[g].invites
        BY <3>1, <3>2, <3>4 DEF GrantsKeep
      <4>2. \A i \in grant[g].invites : i \in Invites /\ invite[i] # NoRow
        <5>1. grant[g] \in GrantRows
          BY <3>2 DEF Tables, AccessTypeOK
        <5>2. grant[g].invites \subseteq Invites
          BY <3>1, <5>1, GrantShape
        <5> QED
          BY <3>1, <3>2, <5>2 DEF Tables
      <4>3. \A i \in grant[g].invites : invite'[i].flags = invite[i].flags
        BY <4>2 DEF InvitesKeep
      <4> QED
        BY <3>1, <4>1, <4>3 DEF Backed
    <3> QED
      BY <3>3, <3>4
  <2>5. Reading(step)'
    BY <2>1, <2>3, <2>4 DEF Reading
  <2> QED
    BY <1>2, <2>5 DEF Proper
<1> QED
  BY <1>1, <1>2

LEMMA CarriedKept ==
  ASSUME Tables, Carried, InvitesKeep, GrantsKeep, NEW s \in Handlers, NEW step,
         Proceed(s, step), Proper(step)'
  PROVE  /\ Carried' /\ handling'[s] = step
         /\ \A t \in Handlers \ {s} : handling'[t] = handling[t]
<1>1. /\ handling'[s] = step /\ \A t \in Handlers \ {s} : handling'[t] = handling[t]
      /\ handling' = [t \in Handlers |-> handling'[t]]
  BY DEF Carried, Proceed
<1>2. \A c : Proper(c) => Proper(c)'
  BY ProperKept
<1>3. \A t \in Handlers : \E c : c = handling'[t] /\ Proper(c)'
  <2> SUFFICES ASSUME NEW t \in Handlers PROVE \E c : c = handling'[t] /\ Proper(c)'
    OBVIOUS
  <2>1. CASE t = s
    BY <1>1, <2>1
  <2>2. CASE t # s
    <3> PICK c : c = handling[t]
      OBVIOUS
    <3>1. Proper(c)
      BY DEF Carried
    <3> QED
      BY <1>1, <1>2, <2>2, <3>1
  <2> QED
    BY <2>1, <2>2
<1>4. \A t \in Handlers : Proper(handling[t])'
  BY <1>3 DEF Proper, Reading, Backed
<1> QED
  BY <1>1, <1>4 DEF Carried

-----------------------------------------------------------------------------
(* Grants, and who has looked at them.                                     *)

\* A person's active grants change by the rows of that person and collection only.
LEMMA RowChanged ==
  ASSUME NEW g \in Grants, \A h \in Grants : h # g => grant'[h] = grant[h],
         NEW u, NEW c, g \notin Active(u, c), g \notin Active(u, c)'
  PROVE  Active(u, c)' = Active(u, c) /\ Sees(u, c)' = Sees(u, c)
<1>1. Active(u, c)' = Active(u, c)
  BY DEF Active
<1>3. {grant'[h].flags : h \in Active(u, c)'} = {grant[h].flags : h \in Active(u, c)}
  <2>1. \A h \in Active(u, c) : grant'[h] = grant[h]
    BY DEF Active
  <2> QED
    BY <1>1, <2>1
<1> QED
  BY <1>1, <1>3 DEF Sees

LEMMA GrantingKept ==
  ASSUME Carried, InvitesKeep, NEW t \in Handlers, handling'[t] = handling[t], NEW u, NEW c
  PROVE  /\ Granting(t, u, c)' = Granting(t, u, c)
         /\ HasRead(t, u, c)' = HasRead(t, u, c)
         /\ handling[t].at = "granting" =>
              invite'[handling[t].invite].flags = invite[handling[t].invite].flags
<1>1. CASE handling[t].at = "granting"
  <2>1. handling[t].invite \in Invites /\ invite[handling[t].invite] # NoRow
    BY <1>1 DEF Carried, Proper, Reading, Acceptances
  <2> PICK i : i = handling[t].invite
    OBVIOUS
  <2>2. /\ invite'[i].to = invite[i].to /\ invite'[i].items = invite[i].items
        /\ invite'[i].flags = invite[i].flags
    BY <2>1 DEF InvitesKeep
  <2> QED
    BY <2>2 DEF Granting, HasRead
<1>2. CASE handling[t].at # "granting"
  BY <1>2 DEF Granting, HasRead
<1> QED
  BY <1>1, <1>2

\* A step of one handler leaves the grants unmixed if it keeps what others have read,
\* reads what nobody else has, and is right about it.
LEMMA UnmixedStep ==
  ASSUME Carried, Unmixed, InvitesKeep, NEW s \in Handlers,
         \A t \in Handlers \ {s} : handling'[t] = handling[t],
         "grants" \notin noted' =>
           /\ "grants" \notin noted /\ OneActiveGrant'
           /\ \A u, c : HasRead(s, u, c)' =>
                Current(s, u, c)' /\ \A t \in OtherHandlers(s) : ~HasRead(t, u, c)
           /\ \A t \in OtherHandlers(s) : \A u, c : HasRead(t, u, c) =>
                Active(u, c)' = Active(u, c) /\ Sees(u, c) \subseteq Sees(u, c)'
  PROVE  Unmixed'
<1> SUFFICES ASSUME "grants" \notin noted' PROVE
               /\ OneActiveGrant'
               /\ \A t \in Handlers : \A u, c :
                    HasRead(t, u, c)' =>
                      /\ Current(t, u, c)'
                      /\ \A r \in OtherHandlers(t) : ~HasRead(r, u, c)'
  BY DEF Unmixed, OtherHandlers
<1>1. \A t \in OtherHandlers(s) : \A u, c : HasRead(t, u, c)' = HasRead(t, u, c)
  BY GrantingKept DEF OtherHandlers
<1>2. ASSUME NEW u, NEW c, HasRead(s, u, c)'
      PROVE  Current(s, u, c)' /\ \A r \in OtherHandlers(s) : ~HasRead(r, u, c)'
  BY <1>1, <1>2
<1>3. ASSUME NEW t \in OtherHandlers(s), NEW u, NEW c, HasRead(t, u, c)'
      PROVE  Current(t, u, c)' /\ \A r \in OtherHandlers(t) : ~HasRead(r, u, c)'
  <2>1. HasRead(t, u, c)
    BY <1>1, <1>3
  <2>2. Current(t, u, c) /\ \A r \in OtherHandlers(t) : ~HasRead(r, u, c)
    BY <2>1 DEF Unmixed, OtherHandlers
  <2>3. Active(u, c)' = Active(u, c) /\ Sees(u, c) \subseteq Sees(u, c)'
    BY <2>1
  <2>4. handling[t].at = "granting" /\ handling'[t] = handling[t]
    BY <2>1 DEF HasRead, Granting, OtherHandlers
  <2>5. invite'[handling[t].invite].flags = invite[handling[t].invite].flags
    BY <2>4, GrantingKept DEF OtherHandlers
  <2>6. Current(t, u, c)'
    BY <2>2, <2>3, <2>4, <2>5 DEF Current
  <2>7. \A r \in OtherHandlers(t) : ~HasRead(r, u, c)'
    <3> SUFFICES ASSUME NEW r \in OtherHandlers(t) PROVE ~HasRead(r, u, c)'
      OBVIOUS
    <3>1. CASE r = s
      BY <1>2, <1>3, <3>1 DEF OtherHandlers
    <3>2. CASE r # s
      BY <1>1, <2>2, <3>2 DEF OtherHandlers
    <3> QED
      BY <3>1, <3>2
  <2> QED
    BY <2>6, <2>7
<1> QED
  BY <1>2, <1>3 DEF OtherHandlers

\* The grants stay and the handler has read nothing.
LEMMA UnmixedQuietly ==
  ASSUME Carried, Unmixed, InvitesKeep, UNCHANGED grant, NEW s \in Handlers,
         \A t \in Handlers \ {s} : handling'[t] = handling[t],
         "grants" \notin noted' => "grants" \notin noted,
         \A u, c : ~HasRead(s, u, c)'
  PROVE  Unmixed'
<1>1. \A u, c : Active(u, c)' = Active(u, c) /\ Sees(u, c)' = Sees(u, c)
  BY DEF Active, Sees
<1>2. OneActiveGrant' <=> ("grants" \notin noted' =>
        \A u \in Invited, c \in Shareable : \A g, h \in Active(u, c) : g = h)
  BY <1>1 DEF OneActiveGrant
<1>3. "grants" \notin noted' => "grants" \notin noted /\ OneActiveGrant'
  BY <1>2 DEF Unmixed, OneActiveGrant
<1> QED
  BY <1>1, <1>3, UnmixedStep


\* Flags stay backed while the grants stay as they are.
LEMMA FlaggedKept ==
  ASSUME Tables, Flagged, InvitesKeep, NEW g \in Grants, grant'[g] = grant[g],
         grant[g].status = "active"
  PROVE  Backed(g, grant[g].flags)'
<1>1. grant[g] \in GrantRows
  BY DEF Tables, AccessTypeOK
<1>2. grant[g] # NoRow /\ grant[g].invites \subseteq Invites
  BY <1>1, GrantShape
<1>3. \A i \in grant[g].invites : invite'[i].flags = invite[i].flags
  BY <1>2 DEF Tables, InvitesKeep
<1> QED
  BY <1>3 DEF Flagged, Backed

\* An active grant names nothing new but what the handler is redeeming, and what was
\* accepted, or is about to be closed, stays so.
LEMMA ConsentedStep ==
  ASSUME Tables, Carried, Consented, NEW s \in Handlers,
         \A t \in Handlers \ {s} : handling'[t] = handling[t],
         "consent" \notin noted' =>
           /\ "consent" \notin noted
           /\ \A i \in Invites :
                invite[i].status = "accepted" => invite'[i].status = "accepted"
           /\ \A g \in Grants : grant'[g].status = "active" =>
                \A i \in grant'[g].invites :
                  \/ Redeeming(s, i)'
                  \/ /\ grant[g].status = "active" /\ i \in grant[g].invites
                     /\ Redeeming(s, i) => invite'[i].status = "accepted"
           /\ \A t \in OtherHandlers(s) : handling[t].at = "closing" =>
                (invite'[handling[t].invite].status = "accepted"
                   => invite[handling[t].invite].status = "accepted")
           /\ handling'[s].at = "closing" =>
                invite'[handling'[s].invite].status # "accepted"
  PROVE  Consented'
<1> SUFFICES ASSUME "consent" \notin noted'
             PROVE  /\ \A g \in Grants : grant'[g].status = "active" =>
                         \A i \in grant'[g].invites :
                           \/ invite'[i].status = "accepted"
                           \/ \E t \in Handlers : Redeeming(t, i)'
                    /\ \A t \in Handlers : handling'[t].at = "closing" =>
                         invite'[handling'[t].invite].status # "accepted"
  BY DEF Consented
<1>1. ASSUME NEW g \in Grants, grant'[g].status = "active", NEW i \in grant'[g].invites
      PROVE  invite'[i].status = "accepted" \/ \E t \in Handlers : Redeeming(t, i)'
  <2>1. CASE /\ grant[g].status = "active" /\ i \in grant[g].invites
             /\ Redeeming(s, i) => invite'[i].status = "accepted"
    <3>1. invite[i].status = "accepted" \/ \E t \in Handlers : Redeeming(t, i)
      BY <2>1 DEF Consented
    <3>2. \A t \in Handlers \ {s} : Redeeming(t, i) => Redeeming(t, i)'
      BY DEF Redeeming
    <3>3. i \in Invites
      <4>1. grant[g] \in GrantRows
        BY DEF Tables, AccessTypeOK
      <4> QED
        BY <2>1, <4>1, GrantShape
    <3> QED
      BY <2>1, <3>1, <3>2, <3>3
  <2> QED
    BY <1>1, <2>1
<1>2. ASSUME NEW t \in Handlers, handling'[t].at = "closing"
      PROVE  invite'[handling'[t].invite].status # "accepted"
  <2>1. CASE t = s
    BY <1>2, <2>1
  <2>2. CASE t # s
    <3>1. handling'[t] = handling[t] /\ t \in OtherHandlers(s)
      BY <2>2 DEF OtherHandlers
    <3>2. invite[handling[t].invite].status # "accepted"
      BY <1>2, <3>1 DEF Consented
    <3> QED
      BY <1>2, <3>1, <3>2
  <2> QED
    BY <2>1, <2>2
<1> QED
  BY <1>1, <1>2

\* The steps that leave the grants alone.
LEMMA QuietStep ==
  ASSUME AccessInv, InvitesKeep, UNCHANGED <<ownedBy, grant>>,
         noted \subseteq noted', noted' \subseteq {"consent", "grants"},
         NEW s \in Handlers, NEW step, Proceed(s, step), Proper(step)',
         step.at = "granting" => step.unread = invite'[step.invite].items,
         "consent" \notin noted' =>
           /\ \A i \in Invites :
                invite[i].status = "accepted" => invite'[i].status = "accepted"
           /\ handling[s].at = "granting" =>
                \/ invite'[handling[s].invite].status = "accepted"
                \/ ~GrantedInPart(handling[s].invite)
           /\ \A t \in OtherHandlers(s) : handling[t].at = "closing" =>
                (invite'[handling[t].invite].status = "accepted"
                   => invite[handling[t].invite].status = "accepted")
           /\ step.at = "closing" => invite'[step.invite].status # "accepted"
  PROVE  AccessInv'
<1> USE DEF AccessInv
<1>1. Tables'
  BY TablesKept DEF Tables, AccessTypeOK
<1>2. /\ Carried' /\ handling'[s] = step
      /\ \A t \in Handlers \ {s} : handling'[t] = handling[t]
  BY UnchangedKeeps, CarriedKept
<1>3. Flagged'
  BY FlaggedKept DEF Flagged
<1>4. \A u, c : ~HasRead(s, u, c)'
  BY <1>2 DEF HasRead, Granting
<1>5. Unmixed'
  BY <1>2, <1>4, UnmixedQuietly
<1>6. \A i : Redeeming(s, i) /\ "consent" \notin noted' =>
        invite'[i].status = "accepted" \/ ~GrantedInPart(i)
  BY DEF Redeeming
<1>7. Consented'
  BY <1>2, <1>6, ConsentedStep DEF GrantedInPart
<1> QED
  BY <1>1, <1>2, <1>3, <1>5, <1>7

-----------------------------------------------------------------------------
(* The actions that leave the grants alone.                                *)

LEMMA RequestKept ==
  ASSUME AccessInv, NEW s \in Handlers, NEW o \in Owners, NEW u \in Invited,
         NEW items \in ItemChoices, NEW flags \in FlagChoices,
         RequestAccess(s, o, u, items, flags)
  PROVE  AccessInv'
<1> DEFINE open == {i \in OpenInvites : invite[i].from = o /\ invite[i].to = u}
<1> PICK is : is = open
  OBVIOUS
<1> PICK step : step = [at |-> "inserting", from |-> o, to |-> u, items |-> items,
                        flags |-> flags]
  OBVIOUS
<1>1. /\ handling[s] = Waiting /\ Proceed(s, step)
      /\ Close(is) \/ UNCHANGED invite
      /\ UNCHANGED <<ownedBy, grant, noted>>
  BY DEF RequestAccess
<1>2. is \in SUBSET Invites /\ \A i \in is : invite[i] # NoRow
  BY InviteShape DEF OpenInvites, AccessInv, Tables, AccessTypeOK, NoRow
<1>3. /\ InvitesKeep
      /\ \A i \in is : invite'[i] = invite[i] \/ invite'[i].status = "closed"
      /\ \A i \in Invites \ is : invite'[i] = invite[i]
  <2>1. CASE Close(is)
    BY <1>2, <2>1, CloseFacts DEF AccessInv
  <2>2. CASE UNCHANGED invite
    BY <2>2, UnchangedKeeps DEF AccessInv, Tables, AccessTypeOK
  <2>3. QED BY <1>1, <2>1, <2>2
<1>4. \A i \in is : invite[i].status = "pending"
  BY DEF OpenInvites
<1>5. step \in [at : {"inserting"}, from : Owners, to : Invited, items : ItemChoices,
                flags : FlagChoices]
  OBVIOUS
<1>6. Proper(step)' /\ step.at = "inserting"
  BY <1>5 DEF Proper
<1>7. handling[s].at # "granting"
  BY <1>1 DEF Waiting
<1>8. ASSUME NEW i \in Invites
      PROVE  invite'[i].status = "accepted" <=> invite[i].status = "accepted"
  <2>1. CASE i \in is
    BY <1>3, <1>4, <2>1
  <2>2. CASE i \notin is
    BY <1>3, <2>2
  <2> QED
    BY <2>1, <2>2
<1>9. \A t \in OtherHandlers(s) : handling[t].at = "closing" => handling[t].invite \in Invites
  BY DEF AccessInv, Carried, Proper, OtherHandlers
<1>10. noted \subseteq {"consent", "grants"} /\ UNCHANGED noted
  BY <1>1 DEF AccessInv, Tables, AccessTypeOK
<1> QED
  BY <1>1, <1>3, <1>6, <1>7, <1>8, <1>9, <1>10, QuietStep

LEMMA InsertInviteKept ==
  ASSUME AccessInv, NEW s \in Handlers, NEW i \in Invites, InsertInvite(s, i)
  PROVE  AccessInv'
<1>1. /\ handling[s].at = "inserting" /\ invite[i] = NoRow /\ Proceed(s, Waiting)
      /\ UNCHANGED <<ownedBy, grant, noted>>
  BY DEF InsertInvite
<1>2. PICK status \in {"pending", "closed"} :
        invite' = [invite EXCEPT ![i] =
          [status |-> status, from |-> handling[s].from, to |-> handling[s].to,
           items |-> handling[s].items, flags |-> handling[s].flags, link |-> "none"]]
  BY DEF InsertInvite
<1> PICK new : new =
      [status |-> status, from |-> handling[s].from, to |-> handling[s].to,
       items |-> handling[s].items, flags |-> handling[s].flags, link |-> "none"]
  OBVIOUS
<1>3. handling[s] \in [at : {"inserting"}, from : Owners, to : Invited,
                       items : ItemChoices, flags : FlagChoices]
  BY <1>1 DEF AccessInv, Carried, Proper
<1>4. /\ new.status # "accepted"
      /\ new \in [status : {"pending", "accepted", "closed"},
                  from : Owners, to : Invited, items : ItemChoices,
                  flags : FlagChoices, link : {"none", "mailed"}]
  BY <1>3
<1>5. new \in InviteRows
  BY <1>4 DEF InviteRows
<1>6. /\ invite \in [Invites -> InviteRows]
      /\ invite' = [invite EXCEPT ![i] = new]
  BY <1>2 DEF AccessInv, Tables, AccessTypeOK
<1>7. /\ invite'[i] = new /\ \A j \in Invites \ {i} : invite'[j] = invite[j]
      /\ invite' \in [Invites -> InviteRows]
  BY <1>5, <1>6
<1>8. InvitesKeep
  BY <1>1, <1>7 DEF InvitesKeep
<1>9. ASSUME NEW j \in Invites
      PROVE  invite'[j].status = "accepted" <=> invite[j].status = "accepted"
  BY <1>1, <1>4, <1>7 DEF NoRow
<1>10. \A t \in OtherHandlers(s) : handling[t].at = "closing" => handling[t].invite \in Invites
  BY DEF AccessInv, Carried, Proper, OtherHandlers
<1>11. noted \subseteq {"consent", "grants"} /\ UNCHANGED noted
  BY <1>1 DEF AccessInv, Tables, AccessTypeOK
<1>12. Proper(Waiting)' /\ Waiting.at = "idle"
  BY DEF Proper, Waiting
<1> QED
  BY <1>1, <1>8, <1>9, <1>10, <1>11, <1>12, QuietStep

LEMMA CloseInviteKept ==
  ASSUME AccessInv, NEW s \in Handlers, CloseInvite(s)
  PROVE  AccessInv'
<1> PICK i : i = handling[s].invite
  OBVIOUS
<1>1. /\ handling[s].at = "closing" /\ Close({i}) /\ Proceed(s, Waiting)
      /\ UNCHANGED <<ownedBy, grant, noted>>
  BY DEF CloseInvite
<1>2. i \in Invites /\ invite[i] # NoRow
  BY <1>1 DEF AccessInv, Carried, Proper
<1>3. /\ InvitesKeep /\ invite'[i].status = "closed"
      /\ \A j \in Invites \ {i} : invite'[j] = invite[j]
  BY <1>1, <1>2, CloseFacts DEF AccessInv
<1>4. "consent" \notin noted' => invite[i].status # "accepted"
  BY <1>1 DEF AccessInv, Consented
<1>5. ASSUME NEW j \in Invites
      PROVE  /\ "consent" \notin noted' /\ invite[j].status = "accepted"
                  => invite'[j].status = "accepted"
             /\ invite'[j].status = "accepted" => invite[j].status = "accepted"
  BY <1>3, <1>4
<1>6. \A t \in OtherHandlers(s) : handling[t].at = "closing" => handling[t].invite \in Invites
  BY DEF AccessInv, Carried, Proper, OtherHandlers
<1>7. noted \subseteq {"consent", "grants"} /\ UNCHANGED noted
  BY <1>1 DEF AccessInv, Tables, AccessTypeOK
<1>8. Proper(Waiting)' /\ Waiting.at = "idle"
  BY DEF Proper, Waiting
<1> QED
  BY <1>1, <1>3, <1>5, <1>6, <1>7, <1>8, QuietStep

\* A read leaves the tables as they are.
LEMMA ReadKept ==
  ASSUME AccessInv, NEW s \in Handlers, NEW step, Proceed(s, step), Proper(step),
         handling[s] = Waiting, UNCHANGED <<ownedBy, invite, grant, noted>>,
         step.at = "granting" => step.unread = invite[step.invite].items,
         step.at = "closing" => invite[step.invite].status # "accepted"
  PROVE  AccessInv'
<1>1. InvitesKeep /\ GrantsKeep
  BY UnchangedKeeps DEF AccessInv
<1>2. Proper(step)'
  BY <1>1, ProperKept DEF AccessInv
<1>3. noted \subseteq {"consent", "grants"}
  BY DEF AccessInv, Tables, AccessTypeOK
<1>4. handling[s].at # "granting"
  BY DEF Waiting
<1> QED
  BY <1>1, <1>2, <1>3, <1>4, QuietStep

LEMMA LoadInviteKept ==
  ASSUME AccessInv, NEW s \in Handlers, NEW i \in Invites, LoadInvite(s, i)
  PROVE  AccessInv'
<1> PICK step : step = [at |-> "closing", invite |-> i]
  OBVIOUS
<1>1. /\ handling[s] = Waiting /\ i \in OpenInvites /\ Proceed(s, step)
      /\ UNCHANGED <<ownedBy, invite, grant, noted>>
  BY DEF LoadInvite
<1>2. step \in [at : {"closing"}, invite : Invites] /\ step.at = "closing" /\ step.invite = i
  OBVIOUS
<1>3. invite[i].status = "pending" /\ invite[i] # NoRow
  BY <1>1 DEF OpenInvites, NoRow
<1>4. Proper(step)
  BY <1>2, <1>3 DEF Proper
<1> QED
  BY <1>1, <1>2, <1>3, <1>4, ReadKept

LEMMA AnswerInviteKept ==
  ASSUME AccessInv, NEW s \in Handlers, NEW i \in Invites, AnswerInvite(s, i)
  PROVE  AccessInv'
<1>1. /\ handling[s] = Waiting /\ i \in OpenInvites
      /\ UNCHANGED <<ownedBy, invite, grant, noted>>
  BY DEF AnswerInvite
<1>2. invite[i].status = "pending" /\ invite[i] # NoRow
  BY <1>1 DEF OpenInvites, NoRow
<1> PICK down : down = [at |-> "closing", invite |-> i]
  OBVIOUS
<1> PICK up : up = [at |-> "granting", invite |-> i, unread |-> invite[i].items,
                    found |-> << >>, failed |-> FALSE]
  OBVIOUS
<1>3. CASE Proceed(s, down)
  <2>1. down \in [at : {"closing"}, invite : Invites] /\ down.at = "closing" /\ down.invite = i
    OBVIOUS
  <2>2. Proper(down)
    BY <1>2, <2>1 DEF Proper
  <2> QED
    BY <1>1, <1>2, <1>3, <2>1, <2>2, ReadKept
<1>4. CASE Proceed(s, up)
  <2>1. invite[i].items \in SUBSET Shareable
    <3>1. invite[i].items \in ItemChoices
      BY <1>2, InviteShape DEF AccessInv, Tables, AccessTypeOK
    <3> QED
      BY <3>1, AccessAssumption
  <2>2. << >> \in Founds /\ DOMAIN << >> = {}
    <3>1. << >> \in [{} -> Findings]
      OBVIOUS
    <3> QED
      BY <3>1 DEF Founds
  <2>3. /\ up \in Acceptances /\ up.at = "granting" /\ up.invite = i
        /\ up.unread = invite[i].items /\ up.found = << >>
    BY <2>1, <2>2 DEF Acceptances
  <2>4. Reading(up)
    BY <1>2, <2>2, <2>3 DEF Reading
  <2>5. Proper(up)
    BY <2>3, <2>4 DEF Proper
  <2> QED
    BY <1>1, <1>4, <2>3, <2>5, ReadKept
<1> QED
  BY <1>3, <1>4 DEF AnswerInvite

LEMMA LoadGrantKept ==
  ASSUME AccessInv, NEW s \in Handlers, NEW g \in Grants, LoadGrant(s, g)
  PROVE  AccessInv'
<1> PICK step : step = [at |-> "revoking", grant |-> g]
  OBVIOUS
<1>1. /\ handling[s] = Waiting /\ grant[g].status = "active" /\ Proceed(s, step)
      /\ UNCHANGED <<ownedBy, invite, grant, noted>>
  BY DEF LoadGrant
<1>2. step \in [at : {"revoking"}, grant : Grants] /\ step.at = "revoking" /\ step.grant = g
  OBVIOUS
<1>3. grant[g] # NoRow
  BY <1>1 DEF NoRow
<1>4. Proper(step)
  BY <1>2, <1>3 DEF Proper
<1> QED
  BY <1>1, <1>2, <1>4, ReadKept

LEMMA StopShortKept ==
  ASSUME AccessInv, NEW s \in Handlers, StopShort(s)
  PROVE  AccessInv'
<1>1. /\ Proceed(s, Waiting) /\ UNCHANGED <<ownedBy, invite, grant>>
      /\ noted' \in {noted, noted \cup {"consent"}}
      /\ "consent" \notin noted' =>
           ~(handling[s].at = "granting" /\ GrantedInPart(handling[s].invite))
  BY DEF StopShort, Note
<1>2. InvitesKeep
  BY <1>1, UnchangedKeeps DEF AccessInv
<1>3. Proper(Waiting)' /\ Waiting.at = "idle"
  BY DEF Proper, Waiting
<1>4. noted \subseteq {"consent", "grants"}
  BY DEF AccessInv, Tables, AccessTypeOK
<1> QED
  BY <1>1, <1>2, <1>3, <1>4, QuietStep

LEMMA AcceptInviteKept ==
  ASSUME AccessInv, NEW s \in Handlers, AcceptInvite(s)
  PROVE  AccessInv'
<1> PICK i : i = handling[s].invite
  OBVIOUS
<1>1. /\ handling[s].at = "granting" /\ Proceed(s, Waiting) /\ UNCHANGED <<ownedBy, grant>>
  BY DEF AcceptInvite
<1>2. i \in Invites /\ invite[i] # NoRow
  BY <1>1 DEF AccessInv, Carried, Proper, Reading, Acceptances
<1>3. noted \subseteq {"consent", "grants"} /\ invite \in [Invites -> InviteRows]
  BY DEF AccessInv, Tables, AccessTypeOK
<1>4. Proper(Waiting)' /\ Waiting.at = "idle"
  BY DEF Proper, Waiting
<1>5. CASE handling[s].failed
  <2>1. /\ UNCHANGED invite /\ noted' \in {noted, noted \cup {"consent"}}
        /\ "consent" \notin noted' => ~GrantedInPart(i)
    BY <1>5 DEF AcceptInvite, Note
  <2>2. InvitesKeep
    BY <2>1, UnchangedKeeps DEF AccessInv
  <2> QED
    BY <1>1, <1>3, <1>4, <2>1, <2>2, QuietStep
<1>6. CASE ~handling[s].failed
  <2>1. /\ invite' = [invite EXCEPT ![i] = Resolved(@, "accepted")]
        /\ noted' \in {noted, noted \cup {"consent"}}
        /\ "consent" \notin noted' =>
             ~\E t \in OtherHandlers(s) : handling[t].at = "closing" /\ handling[t].invite = i
    BY <1>6 DEF AcceptInvite, Accept, Note
  <2>2. /\ invite'[i] = Resolved(invite[i], "accepted")
        /\ \A j \in Invites \ {i} : invite'[j] = invite[j]
    BY <1>2, <1>3, <2>1
  <2>3. /\ Resolved(invite[i], "accepted") \in InviteRows
        /\ invite'[i] # NoRow /\ invite'[i].status = "accepted"
        /\ invite'[i].to = invite[i].to /\ invite'[i].items = invite[i].items
        /\ invite'[i].flags = invite[i].flags
    BY <1>2, <1>3, <2>2, ResolvedShape
  <2>4. InvitesKeep
    BY <1>2, <1>3, <2>1, <2>2, <2>3 DEF InvitesKeep
  <2>5. \A j \in Invites : invite[j].status = "accepted" => invite'[j].status = "accepted"
    BY <2>2, <2>3
  <2>6. ASSUME NEW t \in OtherHandlers(s), handling[t].at = "closing", "consent" \notin noted'
        PROVE  invite'[handling[t].invite] = invite[handling[t].invite]
    <3>1. handling[t].invite \in Invites
      BY <2>6 DEF AccessInv, Carried, Proper, OtherHandlers
    <3> QED
      BY <2>1, <2>2, <2>6, <3>1
  <2> QED
    BY <1>1, <1>3, <1>4, <2>1, <2>3, <2>4, <2>5, <2>6, QuietStep
<1> QED
  BY <1>5, <1>6

\* No handler moves, and invites stay pending, accepted or closed.
LEMMA AsideKept ==
  ASSUME AccessInv, InvitesKeep, UNCHANGED <<grant, handling, noted>>,
         ownedBy' \in [Shareable -> Owners],
         \A i \in Invites : invite'[i].status = invite[i].status
  PROVE  AccessInv'
<1> USE DEF AccessInv
<1>1. Tables'
  BY TablesKept DEF Tables, AccessTypeOK
<1>2. Carried'
  <2>1. \A c : Proper(c) => Proper(c)'
    BY UnchangedKeeps, ProperKept
  <2>2. \A s \in Handlers : Proper(handling[s])'
    <3> SUFFICES ASSUME NEW s \in Handlers PROVE Proper(handling[s])'
      OBVIOUS
    <3> PICK c : c = handling[s]
      OBVIOUS
    <3>1. Proper(c)'
      BY <2>1 DEF Carried
    <3>2. c = handling'[s]
      OBVIOUS
    <3> QED
      BY <3>1, <3>2 DEF Proper, Reading, Backed
  <2> QED
    BY <2>2 DEF Carried
<1>3. Flagged'
  BY FlaggedKept DEF Flagged
<1>4. Unmixed'
  <2>1. \A u, c : Active(u, c)' = Active(u, c) /\ Sees(u, c)' = Sees(u, c)
    BY DEF Active, Sees
  <2>2. OneActiveGrant' <=> OneActiveGrant
    BY <2>1 DEF OneActiveGrant
  <2>3. \A s \in Handlers : \A u, c : HasRead(s, u, c)' = HasRead(s, u, c)
    BY GrantingKept
  <2>4. ASSUME NEW s \in Handlers, NEW u, NEW c, HasRead(s, u, c), Current(s, u, c)
        PROVE  Current(s, u, c)'
    <3>1. invite'[handling[s].invite].flags = invite[handling[s].invite].flags
      BY <2>4, GrantingKept DEF HasRead, Granting
    <3> QED
      BY <2>1, <2>4, <3>1 DEF Current
  <2> QED
    BY <2>2, <2>3, <2>4 DEF Unmixed, OtherHandlers
<1>5. Consented'
  <2>1. \A g \in Grants : grant[g].status = "active" => grant[g].invites \subseteq Invites
    BY GrantShape DEF Tables, AccessTypeOK
  <2>2. \A s \in Handlers : handling[s].at = "closing" => handling[s].invite \in Invites
    BY DEF Carried, Proper
  <2> QED
    BY <2>1, <2>2 DEF Consented, Redeeming
<1> QED
  BY <1>1, <1>2, <1>3, <1>4, <1>5

LEMMA ConfirmInviteKept ==
  ASSUME AccessInv, NEW i \in Invites, ConfirmInvite(i)
  PROVE  AccessInv'
<1>1. /\ i \in OpenInvites /\ UNCHANGED <<ownedBy, grant, handling, noted>>
      /\ invite' = [invite EXCEPT ![i].link = "mailed"]
  BY DEF ConfirmInvite
<1>2. invite \in [Invites -> InviteRows] /\ ownedBy' \in [Shareable -> Owners]
  BY <1>1 DEF AccessInv, Tables, AccessTypeOK
<1>3. invite[i].status = "pending" /\ invite[i] # NoRow
  BY <1>1 DEF OpenInvites, NoRow
<1>4. invite[i] \in [status : {"pending", "accepted", "closed"},
                     from : Owners, to : Invited, items : ItemChoices,
                     flags : FlagChoices, link : {"none", "mailed"}]
  BY <1>2, <1>3, InviteShape
<1> PICK new : new = [invite[i] EXCEPT !.link = "mailed"]
  OBVIOUS
<1>5. /\ new \in [status : {"pending", "accepted", "closed"},
                  from : Owners, to : Invited, items : ItemChoices,
                  flags : FlagChoices, link : {"none", "mailed"}]
      /\ new.status = invite[i].status /\ new.to = invite[i].to
      /\ new.items = invite[i].items /\ new.flags = invite[i].flags
  BY <1>4
<1>6. new \in InviteRows /\ new # NoRow
  <2>1. new \in InviteRows
    BY <1>5 DEF InviteRows
  <2> QED
    BY <1>3, <1>5, <2>1, InviteShape
<1>7. invite' = [invite EXCEPT ![i] = new]
  BY <1>1
<1>8. /\ invite'[i] = new /\ \A j \in Invites \ {i} : invite'[j] = invite[j]
      /\ invite' \in [Invites -> InviteRows]
  BY <1>2, <1>6, <1>7
<1>9. InvitesKeep /\ \A j \in Invites : invite'[j].status = invite[j].status
  BY <1>5, <1>6, <1>8 DEF InvitesKeep
<1> QED
  BY <1>1, <1>2, <1>9, AsideKept

LEMMA TransferKept ==
  ASSUME AccessInv, NEW c \in Transferable, NEW u \in Owners, Transfer(c, u)
  PROVE  AccessInv'
<1>1. UNCHANGED <<invite, grant, handling, noted>> /\ ownedBy' \in [Shareable -> Owners]
  BY DEF Transfer, AccessInv, Tables, AccessTypeOK
<1> QED
  BY <1>1, UnchangedKeeps, AsideKept DEF AccessInv

-----------------------------------------------------------------------------
(* Reading and writing grants.                                             *)

LEMMA FoundFacts ==
  ASSUME NEW cur \in Acceptances, NEW c \in Shareable, NEW row \in {NoGrant} \cup Grants,
         NEW flags \in SUBSET Flags, NEW step, step = Found(cur, c, row, flags)
  PROVE  /\ step \in Acceptances /\ step.invite = cur.invite /\ step.failed = cur.failed
         /\ \A d : d \in step.unread <=> d \in cur.unread /\ d # c
         /\ step.found[c].row = row /\ step.found[c].flags = flags
         /\ \A d : d \in DOMAIN step.found <=> d \in DOMAIN cur.found \/ d = c
         /\ \A d \in DOMAIN cur.found : d # c => step.found[d] = cur.found[d]
<1> PICK found : found = cur.found
  OBVIOUS
<1> PICK what : what = [row |-> row, flags |-> flags]
  OBVIOUS
<1> PICK new : new = [d \in DOMAIN found \cup {c} |-> IF d = c THEN what ELSE found[d]]
  OBVIOUS
<1>1. found \in Founds /\ what \in Findings /\ what.row = row /\ what.flags = flags
  BY DEF Acceptances, Findings
<1>2. DOMAIN found \in SUBSET Shareable /\ \A d \in DOMAIN found : found[d] \in Findings
  BY <1>1 DEF Founds
<1>3. new \in [DOMAIN found \cup {c} -> Findings]
  BY <1>1, <1>2
<1>4. new \in Founds
  BY <1>2, <1>3 DEF Founds
<1>5. step = [cur EXCEPT !.unread = cur.unread \ {c}, !.found = new]
  BY DEF Found, Acceptances
<1>6. /\ step \in Acceptances /\ step.found = new /\ step.unread = cur.unread \ {c}
      /\ step.invite = cur.invite /\ step.failed = cur.failed
  BY <1>4, <1>5 DEF Acceptances
<1>7. /\ new[c] = what
      /\ \A d : d \in DOMAIN new <=> d \in DOMAIN found \/ d = c
      /\ \A d \in DOMAIN found : d # c => new[d] = found[d]
  OBVIOUS
<1> QED
  BY <1>1, <1>6, <1>7

LEMMA WithoutFacts ==
  ASSUME NEW found \in Founds, NEW c
  PROVE  LET new == [d \in DOMAIN found \ {c} |-> found[d]] IN
         /\ new \in Founds /\ DOMAIN new = DOMAIN found \ {c}
         /\ \A d \in DOMAIN new : new[d] = found[d]
<1> PICK new : new = [d \in DOMAIN found \ {c} |-> found[d]]
  OBVIOUS
<1>1. DOMAIN found \in SUBSET Shareable /\ \A d \in DOMAIN found : found[d] \in Findings
  BY DEF Founds
<1>2. new \in [DOMAIN found \ {c} -> Findings]
  BY <1>1
<1>3. new \in Founds
  BY <1>1, <1>2 DEF Founds
<1> QED
  BY <1>2, <1>3

\* What an acceptance in flight carries.
LEMMA GrantingShape ==
  ASSUME AccessInv, NEW s \in Handlers, handling[s].at = "granting"
  PROVE  /\ handling[s] \in Acceptances /\ Reading(handling[s])
         /\ handling[s].invite \in Invites /\ invite[handling[s].invite] # NoRow
         /\ invite[handling[s].invite] \in InviteRows
         /\ invite[handling[s].invite].to \in Invited
         /\ invite[handling[s].invite].flags \subseteq Flags
         /\ invite[handling[s].invite].items \subseteq Shareable
         /\ handling[s].found \in Founds
<1>1. /\ Reading(handling[s]) /\ handling[s] \in Acceptances
      /\ invite[handling[s].invite] # NoRow
  BY DEF AccessInv, Carried, Proper, Reading
<1>2. handling[s].invite \in Invites /\ handling[s].found \in Founds
  BY <1>1 DEF Acceptances
<1>3. invite[handling[s].invite] \in InviteRows
  BY <1>2 DEF AccessInv, Tables, AccessTypeOK
<1>4. /\ invite[handling[s].invite].to \in Invited
      /\ invite[handling[s].invite].flags \in FlagChoices
      /\ invite[handling[s].invite].items \in ItemChoices
  BY <1>1, <1>3, InviteShape
<1> QED
  BY <1>1, <1>2, <1>3, <1>4, AccessAssumption DEF Flags

\* A look-up that meets no other acceptance, and is right about what it found.
LEMMA LookedUp ==
  ASSUME AccessInv, NEW s \in Handlers, NEW c \in handling[s].unread, NEW step,
         NEW p, p = invite[handling[s].invite].to,
         handling[s].at = "granting", UNCHANGED <<ownedBy, invite, grant>>,
         Proceed(s, step), step \in Acceptances,
         step.invite = handling[s].invite,
         \A d : d \in step.unread <=> d \in handling[s].unread /\ d # c,
         \A d \in Shareable \ {c} :
           /\ d \in DOMAIN step.found <=> d \in DOMAIN handling[s].found
           /\ d \in DOMAIN step.found => step.found[d] = handling[s].found[d],
         Reading(step),
         handling[s].failed => step.failed,
         noted \subseteq noted', noted' \subseteq noted \cup {"grants"},
         "grants" \notin noted' =>
           /\ \A t \in OtherHandlers(s) : ~Granting(t, p, c)
           /\ Current(s, p, c)'
  PROVE  AccessInv'
<1> USE DEF AccessInv
<1> PICK i : i = handling[s].invite
  OBVIOUS
<1>1. /\ Reading(handling[s]) /\ i \in Invites /\ invite[i] # NoRow
      /\ handling[s].found \in Founds /\ c \in Shareable
      /\ DOMAIN handling[s].found \subseteq invite[i].items \ handling[s].unread
      /\ handling[s].unread \subseteq invite[i].items
  BY GrantingShape DEF Reading
<1>2. InvitesKeep /\ GrantsKeep
  BY UnchangedKeeps
<1>3. noted' \subseteq {"consent", "grants"} /\ ownedBy' \in [Shareable -> Owners]
  BY DEF Tables, AccessTypeOK
<1>4. Tables'
  BY <1>2, <1>3, TablesKept
<1>5. step.at = "granting"
  BY DEF Acceptances
<1>6. Proper(step)
  BY <1>5 DEF Proper
<1>7. /\ Carried' /\ handling'[s] = step
      /\ \A t \in Handlers \ {s} : handling'[t] = handling[t]
  BY <1>2, <1>6, ProperKept, CarriedKept
<1>8. Flagged'
  BY <1>2, FlaggedKept DEF Flagged
<1>9. \A u, d : Active(u, d)' = Active(u, d) /\ Sees(u, d)' = Sees(u, d)
  BY DEF Active, Sees
<1>10. Unmixed'
  <2>1. ASSUME "grants" \notin noted' PROVE "grants" \notin noted /\ OneActiveGrant'
    BY <1>9, <2>1 DEF Unmixed, OneActiveGrant
  <2>2. ASSUME "grants" \notin noted', NEW u, NEW d, HasRead(s, u, d)'
        PROVE  Current(s, u, d)' /\ \A t \in OtherHandlers(s) : ~HasRead(t, u, d)
    <3>1. u = p /\ d \in invite[i].items
      BY <1>5, <1>7, <2>2 DEF HasRead, Granting
    <3>2. CASE d = c
      BY <2>2, <3>1, <3>2 DEF HasRead
    <3>3. CASE d # c
      <4>1. HasRead(s, u, d)
        BY <1>7, <2>2, <3>1, <3>3 DEF HasRead, Granting
      <4>2. Current(s, u, d) /\ \A t \in OtherHandlers(s) : ~HasRead(t, u, d)
        BY <2>1, <2>2, <4>1 DEF Unmixed
      <4>3. d \in Shareable
        BY <1>1, <3>1, GrantingShape
      <4>4. Current(s, u, d)'
        BY <1>7, <1>9, <3>3, <4>2, <4>3 DEF Current
      <4> QED
        BY <4>2, <4>4
    <3> QED
      BY <3>2, <3>3
  <2> QED
    BY <1>2, <1>7, <1>9, <2>1, <2>2, UnmixedStep
<1>11. Consented'
  <2>1. "consent" \notin noted' => "consent" \notin noted
    OBVIOUS
  <2>2. \A j : Redeeming(s, j) => Redeeming(s, j)'
    BY <1>5, <1>7 DEF Redeeming
  <2> QED
    BY <1>5, <1>7, <2>1, <2>2, ConsentedStep
<1> QED
  BY <1>4, <1>7, <1>8, <1>10, <1>11

\* The look-up found a grant, or that there is none.
LEMMA FoundKept ==
  ASSUME AccessInv, NEW s \in Handlers, NEW c \in handling[s].unread,
         NEW p, p = invite[handling[s].invite].to,
         NEW row \in {NoGrant} \cup Grants, NEW flags \in SUBSET Flags,
         handling[s].at = "granting", UNCHANGED <<ownedBy, invite, grant>>,
         Proceed(s, Found(handling[s], c, row, flags)),
         noted \subseteq noted', noted' \subseteq noted \cup {"grants"},
         "grants" \notin noted' => \A t \in OtherHandlers(s) : ~Granting(t, p, c),
         \A g : g \in Active(p, c) <=> g = row /\ g # NoGrant,
         row # NoGrant => flags = grant[row].flags
  PROVE  AccessInv'
<1> PICK cur : cur = handling[s]
  OBVIOUS
<1> PICK i : i = cur.invite
  OBVIOUS
<1> PICK step : step = Found(cur, c, row, flags)
  OBVIOUS
<1>1. /\ cur \in Acceptances /\ Reading(cur) /\ i \in Invites /\ invite[i] # NoRow
      /\ c \in invite[i].items /\ c \in Shareable
  BY GrantingShape DEF Reading
<1>2. /\ step \in Acceptances /\ step.invite = cur.invite /\ step.failed = cur.failed
      /\ \A d : d \in step.unread <=> d \in cur.unread /\ d # c
      /\ step.found[c].row = row /\ step.found[c].flags = flags
      /\ \A d : d \in DOMAIN step.found <=> d \in DOMAIN cur.found \/ d = c
      /\ \A d \in DOMAIN cur.found : d # c => step.found[d] = cur.found[d]
  BY <1>1, FoundFacts
<1>3. row # NoGrant =>
        /\ grant[row] # NoRow /\ grant[row].collection = c /\ grant[row].user = p
        /\ Backed(row, flags)
  BY DEF Active, NoRow, AccessInv, Flagged
<1>4. Reading(step)
  <2>1. ASSUME NEW d \in DOMAIN step.found, step.found[d].row # NoGrant
        PROVE  LET g == step.found[d].row IN
               /\ grant[g] # NoRow /\ grant[g].collection = d
               /\ grant[g].user = invite[i].to
               /\ grant[g].status = "active" => Backed(g, step.found[d].flags)
    <3>1. CASE d = c
      BY <1>2, <1>3, <2>1, <3>1
    <3>2. CASE d # c
      <4>1. d \in DOMAIN cur.found /\ step.found[d] = cur.found[d]
        BY <1>2, <2>1, <3>2
      <4> QED
        BY <1>1, <2>1, <4>1 DEF Reading
    <3> QED
      BY <3>1, <3>2
  <2>2. step.unread \subseteq invite[i].items
    BY <1>1, <1>2 DEF Reading
  <2>3. DOMAIN step.found \subseteq invite[i].items \ step.unread
    BY <1>1, <1>2 DEF Reading
  <2> QED
    BY <1>1, <1>2, <2>1, <2>2, <2>3 DEF Reading
<1>5. handling'[s] = step
  BY DEF Proceed, AccessInv, Carried
<1>6. Current(s, p, c)'
  <2>1. Active(p, c)' = Active(p, c)
    BY DEF Active
  <2> QED
    BY <1>2, <1>5, <2>1 DEF Current
<1> QED
  BY <1>2, <1>4, <1>6, LookedUp

LEMMA FindGrantKept ==
  ASSUME AccessInv, NEW s \in Handlers, NEW c \in Shareable, FindGrant(s, c)
  PROVE  AccessInv'
<1> PICK cur : cur = handling[s]
  OBVIOUS
<1> PICK p : p = invite[cur.invite].to
  OBVIOUS
<1>1. /\ handling[s].at = "granting" /\ c \in cur.unread
      /\ UNCHANGED <<ownedBy, invite, grant>>
      /\ noted \subseteq noted' /\ noted' \subseteq noted \cup {"grants"}
      /\ "grants" \notin noted' => \A t \in OtherHandlers(s) : ~Granting(t, p, c)
  BY DEF FindGrant, Note
<1>2. CASE LookUp(p, c) = {} /\ Proceed(s, Found(cur, c, NoGrant, {}))
  <2>1. \A g : g \in Active(p, c) <=> g = NoGrant /\ g # NoGrant
    BY <1>2 DEF LookUp
  <2>2. NoGrant \in {NoGrant} \cup Grants /\ {} \in SUBSET Flags
    OBVIOUS
  <2> QED
    BY <1>1, <1>2, <2>1, <2>2, FoundKept
<1>3. ASSUME NEW g \in LookUp(p, c), LookUp(p, c) = {g},
             Proceed(s, Found(cur, c, g, grant[g].flags))
      PROVE  AccessInv'
  <2> PICK flags : flags = grant[g].flags
    OBVIOUS
  <2>1. g \in Grants /\ grant[g].status = "active"
    BY <1>3 DEF LookUp, Active
  <2>2. flags \in SUBSET Flags
    <3>1. grant[g] \in GrantRows
      BY <2>1 DEF AccessInv, Tables, AccessTypeOK
    <3> QED
      BY <2>1, <3>1, GrantShape
  <2>3. \A h : h \in Active(p, c) <=> h = g /\ h # NoGrant
    BY <1>3, <2>1, AccessAssumption DEF LookUp, Grants, NoGrant
  <2>4. Proceed(s, Found(cur, c, g, flags)) /\ g \in {NoGrant} \cup Grants
    BY <1>3, <2>1
  <2> QED
    BY <1>1, <2>2, <2>3, <2>4, FoundKept
<1>4. CASE Proceed(s, [cur EXCEPT !.unread = @ \ {c}, !.failed = TRUE])
  <2> PICK step : step = [cur EXCEPT !.unread = @ \ {c}, !.failed = TRUE]
    OBVIOUS
  <2>1. cur \in Acceptances /\ Reading(cur)
    BY <1>1, GrantingShape
  <2>2. /\ step \in Acceptances /\ step.invite = cur.invite /\ step.found = cur.found
        /\ step.unread = cur.unread \ {c} /\ step.failed
    BY <2>1 DEF Acceptances
  <2>3. Reading(step)
    BY <2>1, <2>2 DEF Reading
  <2>4. handling'[s] = step
    BY <1>4 DEF Proceed, AccessInv, Carried
  <2>5. c \notin DOMAIN step.found
    BY <1>1, <2>1, <2>2 DEF Reading
  <2>6. Current(s, p, c)'
    BY <2>2, <2>4, <2>5 DEF Current
  <2> QED
    BY <1>1, <1>4, <2>2, <2>3, <2>6, LookedUp
<1> QED
  BY <1>2, <1>3, <1>4 DEF FindGrant

\* A row that may be written for a person's collection on the strength of an invite.
Fitting(g, new, i, p, c) ==
  /\ new \in GrantRows /\ new # NoRow /\ new.user = p /\ new.collection = c
  /\ grant[g] # NoRow =>
       /\ grant[g].user = p /\ grant[g].collection = c
       /\ new.status = "active" =>
            grant[g].status = "active" /\ grant[g].invites \subseteq new.invites
  /\ \A j \in new.invites : j = i \/ (grant[g] # NoRow /\ j \in grant[g].invites)
  /\ new.status = "active" =>
       \A f \in new.flags : \E j \in new.invites : f \in invite[j].flags
  /\ "grants" \notin noted =>
       /\ new.status = "active" /\ Active(p, c) \subseteq {g}
       /\ invite[i].flags \subseteq new.flags

\* A write to one row of the grants, when the handler goes on to the next collection.
LEMMA WroteGrant ==
  ASSUME AccessInv, NEW s \in Handlers, NEW c \in DOMAIN handling[s].found,
         handling[s].at = "granting", Written(s, c),
         NEW p, p = invite[handling[s].invite].to,
         NEW g \in Grants, NEW new, grant' = [grant EXCEPT ![g] = new],
         Fitting(g, new, handling[s].invite, p, c)
  PROVE  AccessInv'
<1> USE DEF AccessInv
<1> PICK cur : cur = handling[s]
  OBVIOUS
<1> PICK i : i = cur.invite
  OBVIOUS
<1> PICK step : step = [cur EXCEPT !.found = [d \in DOMAIN @ \ {c} |-> @[d]]]
  OBVIOUS
<1>1. /\ cur \in Acceptances /\ Reading(cur) /\ i \in Invites /\ invite[i] # NoRow
      /\ cur.found \in Founds /\ cur.at = "granting"
      /\ p = invite[i].to /\ c \in invite[i].items /\ p \in Invited
  BY GrantingShape DEF Reading
<1>1a. /\ new \in GrantRows /\ new # NoRow /\ new.user = p /\ new.collection = c
       /\ grant[g] # NoRow =>
            /\ grant[g].user = p /\ grant[g].collection = c
            /\ new.status = "active" =>
                 grant[g].status = "active" /\ grant[g].invites \subseteq new.invites
       /\ \A j \in new.invites : j = i \/ (grant[g] # NoRow /\ j \in grant[g].invites)
       /\ new.status = "active" =>
            \A f \in new.flags : \E j \in new.invites : f \in invite[j].flags
       /\ "grants" \notin noted =>
            /\ new.status = "active" /\ Active(p, c) \subseteq {g}
            /\ invite[i].flags \subseteq new.flags
  BY DEF Fitting
<1>2. Proceed(s, step) /\ UNCHANGED <<ownedBy, invite, noted>>
  BY DEF Written
<1> PICK rest : rest = [d \in DOMAIN cur.found \ {c} |-> cur.found[d]]
  OBVIOUS
<1>3. /\ rest \in Founds /\ DOMAIN rest = DOMAIN cur.found \ {c}
      /\ \A d \in DOMAIN rest : rest[d] = cur.found[d]
  BY <1>1, WithoutFacts
<1>4. /\ step \in Acceptances /\ step.at = "granting" /\ step.invite = i
      /\ step.unread = cur.unread /\ step.found = rest /\ step.failed = cur.failed
  BY <1>1, <1>3 DEF Acceptances
<1>5. Reading(step)
  <2>1. \A d \in DOMAIN rest : d \in DOMAIN cur.found /\ rest[d] = cur.found[d]
    BY <1>3
  <2>2. step.unread \subseteq invite[i].items /\ DOMAIN rest \subseteq invite[i].items \ step.unread
    BY <1>1, <1>3, <1>4 DEF Reading
  <2> QED
    BY <1>1, <1>4, <2>1, <2>2 DEF Reading
<1>6. /\ grant \in [Grants -> GrantRows] /\ invite \in [Invites -> InviteRows]
      /\ noted \subseteq {"consent", "grants"} /\ ownedBy \in [Shareable -> Owners]
  BY DEF Tables, AccessTypeOK
<1>7. /\ grant'[g] = new /\ \A h \in Grants : h # g => grant'[h] = grant[h]
      /\ grant' \in [Grants -> GrantRows]
  BY <1>1a, <1>6
<1>8. InvitesKeep
  BY <1>2, UnchangedKeeps
<1>9. GrantsKeep
  BY <1>1a, <1>7 DEF GrantsKeep
<1>10. Proper(step)'
  <2>1. Proper(step)
    BY <1>4, <1>5 DEF Proper
  <2> QED
    BY <2>1, <1>8, <1>9, ProperKept
<1>11. /\ Carried' /\ handling'[s] = step
       /\ \A t \in Handlers \ {s} : handling'[t] = handling[t]
  BY <1>2, <1>8, <1>9, <1>10, CarriedKept
<1>12. Tables'
  <2>1. ASSUME NEW h \in Grants, grant'[h] # NoRow, NEW j \in grant'[h].invites
        PROVE  /\ invite[j] # NoRow /\ invite[j].to = grant'[h].user
               /\ grant'[h].collection \in invite[j].items
    <3>1. CASE grant'[h] = grant[h]
      BY <2>1, <3>1 DEF Tables, AccessTypeOK
    <3>2. CASE h = g /\ j = i
      BY <1>1, <1>1a, <1>7, <3>2
    <3>3. CASE h = g /\ grant[g] # NoRow /\ j \in grant[g].invites
      BY <1>1a, <1>7, <3>3 DEF Tables, AccessTypeOK
    <3> QED
      BY <1>1a, <1>7, <2>1, <3>1, <3>2, <3>3
  <2> QED
    BY <1>2, <1>6, <1>7, <2>1 DEF Tables, AccessTypeOK
<1>13. Flagged'
  <2>1. ASSUME NEW h \in Grants, h # g, grant'[h].status = "active"
        PROVE  Backed(h, grant[h].flags)' /\ grant'[h] = grant[h]
    BY <1>7, <1>8, <2>1, FlaggedKept
  <2>2. \A h \in Grants : grant'[h].status = "active" => Backed(h, grant[h].flags)'
    BY <1>1a, <1>2, <1>7, <2>1 DEF Backed
  <2> QED
    BY <2>2 DEF Flagged
<1>14. \A u, d : ~(u = p /\ d = c) =>
         Active(u, d)' = Active(u, d) /\ Sees(u, d)' = Sees(u, d)
  <2> SUFFICES ASSUME NEW u, NEW d, ~(u = p /\ d = c)
               PROVE  Active(u, d)' = Active(u, d) /\ Sees(u, d)' = Sees(u, d)
    OBVIOUS
  <2>1. g \notin Active(u, d)
    BY <1>1a DEF NoRow, Active
  <2>2. g \notin Active(u, d)'
    BY <1>1a, <1>7 DEF Active
  <2> QED
    BY <1>7, <2>1, <2>2, RowChanged
<1>15. ASSUME "grants" \notin noted'
       PROVE  /\ \A h \in Active(p, c)' : h = g
              /\ invite'[i].flags \subseteq Sees(p, c)'
  <2>1. /\ "grants" \notin noted /\ new.status = "active" /\ Active(p, c) \subseteq {g}
        /\ invite[i].flags \subseteq new.flags
    BY <1>1a, <1>2, <1>15
  <2>2. \A h \in Active(p, c)' : h = g
    BY <1>7, <2>1 DEF Active
  <2>3. g \in Active(p, c)'
    BY <1>1a, <1>7, <2>1 DEF Active
  <2>4. new.flags \subseteq Sees(p, c)'
    BY <1>7, <2>3 DEF Sees
  <2> QED
    BY <1>2, <2>1, <2>2, <2>4
<1>16. HasRead(s, p, c)
  BY <1>1 DEF HasRead, Granting, Reading
<1>17. Unmixed'
  <2>1. ASSUME "grants" \notin noted'
        PROVE  "grants" \notin noted /\ OneActiveGrant'
    <3>1. "grants" \notin noted
      BY <1>2, <2>1
    <3>2. ASSUME NEW u \in Invited, NEW d \in Shareable
          PROVE  \A h, k \in Active(u, d)' : h = k
      <4>1. CASE u = p /\ d = c
        BY <1>15, <2>1, <4>1
      <4>2. CASE ~(u = p /\ d = c)
        <5>1. Active(u, d)' = Active(u, d)
          BY <1>14, <4>2
        <5> QED
          BY <3>1, <5>1 DEF Unmixed, OneActiveGrant
      <4> QED
        BY <4>1, <4>2
    <3> QED
      BY <3>1, <3>2 DEF OneActiveGrant
  <2>2. ASSUME "grants" \notin noted', NEW u, NEW d, HasRead(s, u, d)'
        PROVE  Current(s, u, d)' /\ \A t \in OtherHandlers(s) : ~HasRead(t, u, d)
    <3>1. u = p /\ d \in invite[i].items /\ d \notin cur.unread
      BY <1>2, <1>4, <1>11, <2>2 DEF HasRead, Granting
    <3>2. HasRead(s, u, d)
      BY <1>1, <3>1 DEF HasRead, Granting
    <3>3. Current(s, u, d) /\ \A t \in OtherHandlers(s) : ~HasRead(t, u, d)
      BY <1>2, <2>2, <3>2 DEF Unmixed
    <3>4. CASE d = c
      BY <1>3, <1>4, <1>11, <1>15, <2>2, <3>1, <3>3, <3>4 DEF Current
    <3>5. CASE d # c
      <4>1. Active(u, d)' = Active(u, d) /\ Sees(u, d)' = Sees(u, d)
        BY <1>14, <3>5
      <4>2. /\ d \in DOMAIN step.found <=> d \in DOMAIN cur.found
            /\ d \in DOMAIN step.found => step.found[d] = cur.found[d]
        BY <1>3, <1>4, <3>5
      <4>3. Current(s, u, d)'
        BY <1>2, <1>4, <1>11, <3>3, <4>1, <4>2 DEF Current
      <4> QED
        BY <3>3, <4>3
    <3> QED
      BY <3>4, <3>5
  <2>3. ASSUME "grants" \notin noted', NEW t \in OtherHandlers(s), NEW u, NEW d,
               HasRead(t, u, d)
        PROVE  Active(u, d)' = Active(u, d) /\ Sees(u, d) \subseteq Sees(u, d)'
    <3>1. ~HasRead(t, p, c)
      BY <1>2, <1>16, <2>3 DEF Unmixed
    <3> QED
      BY <1>14, <2>3, <3>1
  <2> QED
    BY <1>8, <1>11, <2>1, <2>2, <2>3, UnmixedStep
<1>18. Consented'
  <2>1. \A j : Redeeming(s, j) => Redeeming(s, j)'
    BY <1>4, <1>11 DEF Redeeming
  <2>2. Redeeming(s, i)'
    BY <1>4, <1>11 DEF Redeeming
  <2>3. ASSUME NEW h \in Grants, grant'[h].status = "active", NEW j \in grant'[h].invites
        PROVE  \/ Redeeming(s, j)'
               \/ grant[h].status = "active" /\ j \in grant[h].invites
    BY <1>1a, <1>7, <2>2, <2>3
  <2>4. handling'[s].at # "closing"
    BY <1>4, <1>11
  <2> QED
    BY <1>2, <1>11, <2>1, <2>3, <2>4, ConsentedStep
<1> QED
  BY <1>11, <1>12, <1>13, <1>17, <1>18

\* What an acceptance that is about to write has read is its own, and still so.
LEMMA AboutToWrite ==
  ASSUME AccessInv, NEW s \in Handlers, handling[s].at = "granting",
         NEW c \in DOMAIN handling[s].found,
         NEW p, p = invite[handling[s].invite].to
  PROVE  /\ c \in Shareable /\ p \in Invited
         /\ handling[s].found[c].row \in {NoGrant} \cup Grants
         /\ handling[s].found[c].flags \subseteq Flags
         /\ "grants" \notin noted =>
              Active(p, c) = {handling[s].found[c].row} \ {NoGrant}
<1>1. /\ Reading(handling[s]) /\ handling[s].found \in Founds
      /\ invite[handling[s].invite].items \subseteq Shareable /\ p \in Invited
  BY GrantingShape
<1>2. /\ c \in invite[handling[s].invite].items /\ c \notin handling[s].unread
  BY <1>1 DEF Reading
<1>3. handling[s].found[c] \in Findings
  BY <1>1 DEF Founds
<1>4. HasRead(s, p, c)
  BY <1>2 DEF HasRead, Granting
<1>5. "grants" \notin noted => Current(s, p, c)
  BY <1>4 DEF AccessInv, Unmixed
<1> QED
  BY <1>1, <1>2, <1>3, <1>5 DEF Findings, Current

LEMMA MergeGrantKept ==
  ASSUME AccessInv, NEW s \in Handlers, NEW c \in Shareable, MergeGrant(s, c)
  PROVE  AccessInv'
<1> PICK i : i = handling[s].invite
  OBVIOUS
<1> PICK p : p = invite[i].to
  OBVIOUS
<1> PICK g : g = handling[s].found[c].row
  OBVIOUS
<1> PICK flags : flags = handling[s].found[c].flags
  OBVIOUS
<1> PICK new : new = Merged(grant[g], flags, i)
  OBVIOUS
<1>1. /\ handling[s].at = "granting" /\ c \in DOMAIN handling[s].found /\ g # NoGrant
      /\ Written(s, c)
  BY DEF MergeGrant
<1>2. /\ g \in Grants /\ flags \subseteq Flags
      /\ "grants" \notin noted => Active(p, c) = {g}
  BY <1>1, AboutToWrite
<1>3. /\ Reading(handling[s]) /\ i \in Invites /\ invite[i].flags \subseteq Flags
  BY <1>1, GrantingShape
<1>4. /\ grant[g] # NoRow /\ grant[g].collection = c /\ grant[g].user = p
      /\ grant[g].status = "active" => Backed(g, flags)
  BY <1>1, <1>3 DEF Reading
<1>5. grant \in [Grants -> GrantRows]
  BY DEF AccessInv, Tables, AccessTypeOK
<1>6. grant[g] \in [status : {"active", "revoked"}, collection : Shareable,
                    user : Invited, flags : SUBSET Flags, invites : SUBSET Invites]
  BY <1>2, <1>4, <1>5, GrantShape
<1>7. grant' = [grant EXCEPT ![g] = new]
  BY <1>1 DEF MergeGrant
<1>8. CASE grant[g].status = "revoked"
  <2>1. new = grant[g] /\ new \in GrantRows /\ new.status # "active"
    BY <1>2, <1>5, <1>8 DEF Merged
  <2>2. "grants" \in noted
    BY <1>2, <1>8 DEF Active
  <2>3. Fitting(g, new, i, p, c)
    BY <1>4, <2>1, <2>2 DEF Fitting
  <2> QED
    BY <1>1, <1>2, <1>7, <2>3, WroteGrant
<1>9. CASE grant[g].status # "revoked"
  <2>1. grant[g].status = "active"
    BY <1>6, <1>9
  <2> PICK all : all = flags \cup invite[i].flags
    OBVIOUS
  <2> PICK named : named = grant[g].invites \cup {i}
    OBVIOUS
  <2>2. /\ new = [grant[g] EXCEPT !.flags = all, !.invites = named]
        /\ all \in SUBSET Flags /\ named \in SUBSET Invites
    BY <1>2, <1>3, <1>6, <1>9 DEF Merged
  <2>3. /\ new \in [status : {"active", "revoked"}, collection : Shareable,
                    user : Invited, flags : SUBSET Flags, invites : SUBSET Invites]
        /\ new.status = "active" /\ new.user = p /\ new.collection = c
        /\ new.flags = all /\ new.invites = named
    BY <1>4, <1>6, <2>1, <2>2
  <2>4. new \in GrantRows
    BY <2>3 DEF GrantRows
  <2>5. new # NoRow
    BY <2>3, <2>4, GrantShape
  <2>6. \A f \in new.flags : \E j \in new.invites : f \in invite[j].flags
    BY <1>4, <2>1, <2>3 DEF Backed
  <2>7. /\ grant[g].invites \subseteq new.invites /\ invite[i].flags \subseteq new.flags
        /\ \A j \in new.invites : j = i \/ j \in grant[g].invites
    BY <2>3
  <2>8. new.status = "active" /\ new.user = p /\ new.collection = c
    BY <2>3
  <2>9. "grants" \notin noted => Active(p, c) \subseteq {g}
    BY <1>2
  <2>10. Fitting(g, new, i, p, c)
    BY <1>4, <2>1, <2>4, <2>5, <2>6, <2>7, <2>8, <2>9 DEF Fitting
  <2> QED
    BY <1>1, <1>2, <1>7, <2>10, WroteGrant
<1> QED
  BY <1>8, <1>9

LEMMA InsertGrantKept ==
  ASSUME AccessInv, NEW s \in Handlers, NEW c \in Shareable, NEW g \in Grants,
         InsertGrant(s, c, g)
  PROVE  AccessInv'
<1> PICK i : i = handling[s].invite
  OBVIOUS
<1> PICK p : p = invite[i].to
  OBVIOUS
<1> PICK new : new = [status |-> "active", collection |-> c, user |-> p,
                      flags |-> invite[i].flags, invites |-> {i}]
  OBVIOUS
<1>1. /\ handling[s].at = "granting" /\ c \in DOMAIN handling[s].found
      /\ handling[s].found[c].row = NoGrant /\ grant[g] = NoRow /\ Written(s, c)
      /\ grant' = [grant EXCEPT ![g] = new]
  BY DEF InsertGrant
<1>2. p \in Invited /\ "grants" \notin noted => Active(p, c) = {}
  BY <1>1, AboutToWrite
<1>3. i \in Invites /\ invite[i].flags \subseteq Flags /\ p \in Invited
  BY <1>1, GrantingShape
<1>4. /\ new \in [status : {"active", "revoked"}, collection : Shareable,
                  user : Invited, flags : SUBSET Flags, invites : SUBSET Invites]
      /\ new.status = "active" /\ new.user = p /\ new.collection = c
      /\ new.flags = invite[i].flags /\ new.invites = {i}
  BY <1>3
<1>5. new \in GrantRows
  BY <1>4 DEF GrantRows
<1>6. new # NoRow
  BY <1>4 DEF NoRow
<1>7. /\ \A j \in new.invites : j = i
      /\ \A f \in new.flags : \E j \in new.invites : f \in invite[j].flags
      /\ invite[i].flags \subseteq new.flags
  BY <1>4
<1>8. "grants" \notin noted => Active(p, c) \subseteq {g}
  BY <1>2, <1>3
<1>9. new.status = "active" /\ new.user = p /\ new.collection = c
  BY <1>4
<1>10. Fitting(g, new, i, p, c)
  BY <1>1, <1>5, <1>6, <1>7, <1>8, <1>9 DEF Fitting
<1> QED
  BY <1>1, <1>10, WroteGrant

LEMMA RevokeGrantKept ==
  ASSUME AccessInv, NEW s \in Handlers, RevokeGrant(s)
  PROVE  AccessInv'
<1> USE DEF AccessInv
<1> PICK g : g = handling[s].grant
  OBVIOUS
<1> PICK new : new = Revoked(grant[g])
  OBVIOUS
<1> PICK p : p = grant[g].user
  OBVIOUS
<1> PICK c : c = grant[g].collection
  OBVIOUS
<1>1. /\ handling[s].at = "revoking" /\ Proceed(s, Waiting) /\ UNCHANGED <<ownedBy, invite>>
      /\ grant' = [grant EXCEPT ![g] = new]
      /\ noted \subseteq noted' /\ noted' \subseteq noted \cup {"grants"}
      /\ "grants" \notin noted' =>
           "grants" \notin noted /\ \A t \in OtherHandlers(s) : ~Granting(t, p, c)
  BY DEF RevokeGrant, Note
<1>2. g \in Grants /\ grant[g] # NoRow
  BY <1>1 DEF Carried, Proper
<1>3. /\ grant \in [Grants -> GrantRows] /\ invite \in [Invites -> InviteRows]
      /\ noted' \subseteq {"consent", "grants"} /\ ownedBy' \in [Shareable -> Owners]
  BY <1>1 DEF Tables, AccessTypeOK
<1>4. grant[g] \in [status : {"active", "revoked"}, collection : Shareable,
                    user : Invited, flags : SUBSET Flags, invites : SUBSET Invites]
  BY <1>2, <1>3, GrantShape
<1>5. /\ new \in [status : {"active", "revoked"}, collection : Shareable,
                  user : Invited, flags : SUBSET Flags, invites : SUBSET Invites]
      /\ new.status = "revoked" /\ new.invites = {} /\ new.user = p /\ new.collection = c
  BY <1>4 DEF Revoked
<1>6. new \in GrantRows /\ new # NoRow
  BY <1>5 DEF GrantRows, NoRow
<1>7. /\ grant'[g] = new /\ \A h \in Grants : h # g => grant'[h] = grant[h]
      /\ grant' \in [Grants -> GrantRows]
  BY <1>1, <1>2, <1>3, <1>6
<1>8. InvitesKeep /\ GrantsKeep
  BY <1>1, <1>5, <1>6, <1>7, UnchangedKeeps DEF GrantsKeep
<1>9. Proper(Waiting)' /\ Waiting.at = "idle"
  BY DEF Proper, Waiting
<1>10. /\ Carried' /\ handling'[s] = Waiting
       /\ \A t \in Handlers \ {s} : handling'[t] = handling[t]
  BY <1>1, <1>8, <1>9, CarriedKept
<1>11. Tables'
  <2>1. \A h \in Grants : grant'[h] # NoRow =>
          \A j \in grant'[h].invites : /\ invite[j] # NoRow /\ invite[j].to = grant'[h].user
                                       /\ grant'[h].collection \in invite[j].items
    BY <1>5, <1>7 DEF Tables, AccessTypeOK
  <2> QED
    BY <1>1, <1>3, <1>7, <2>1 DEF Tables, AccessTypeOK
<1>12. Flagged'
  <2>1. ASSUME NEW h \in Grants, grant'[h].status = "active"
        PROVE  Backed(h, grant[h].flags)' /\ grant'[h] = grant[h]
    BY <1>5, <1>7, <1>8, <2>1, FlaggedKept
  <2> QED
    BY <2>1 DEF Flagged
<1>13. \A u, d : Active(u, d)' \subseteq Active(u, d)
  BY <1>5, <1>7 DEF Active
<1>14. \A u, d : ~(u = p /\ d = c) =>
         Active(u, d)' = Active(u, d) /\ Sees(u, d)' = Sees(u, d)
  <2> SUFFICES ASSUME NEW u, NEW d, ~(u = p /\ d = c)
               PROVE  Active(u, d)' = Active(u, d) /\ Sees(u, d)' = Sees(u, d)
    OBVIOUS
  <2>1. g \notin Active(u, d)
    BY DEF Active
  <2>2. g \notin Active(u, d)'
    BY <2>1, <1>13
  <2> QED
    BY <1>2, <1>7, <2>1, <2>2, RowChanged
<1>15. Unmixed'
  <2>1. "grants" \notin noted' => "grants" \notin noted /\ OneActiveGrant'
    BY <1>1, <1>13 DEF Unmixed, OneActiveGrant
  <2>2. \A u, d : ~HasRead(s, u, d)'
    BY <1>9, <1>10 DEF HasRead, Granting
  <2>3. ASSUME "grants" \notin noted', NEW t \in OtherHandlers(s), NEW u, NEW d,
               HasRead(t, u, d)
        PROVE  Active(u, d)' = Active(u, d) /\ Sees(u, d) \subseteq Sees(u, d)'
    BY <1>1, <1>14, <2>3 DEF HasRead
  <2> QED
    BY <1>8, <1>10, <2>1, <2>2, <2>3, UnmixedStep
<1>16. Consented'
  <2>1. \A h \in Grants : grant'[h].status = "active" => grant'[h] = grant[h]
    BY <1>5, <1>7
  <2>2. \A j : ~Redeeming(s, j)
    BY <1>1 DEF Redeeming
  <2> QED
    BY <1>1, <1>9, <1>10, <2>1, <2>2, ConsentedStep
<1> QED
  BY <1>10, <1>11, <1>12, <1>15, <1>16

-----------------------------------------------------------------------------
(* The steps together.                                                     *)

LEMMA StartsAccess == ASSUME AccessInit PROVE AccessInv
<1>1. \A s \in Handlers : handling[s] = Waiting /\ handling[s].at = "idle"
  BY DEF AccessInit, Waiting
<1>2. \A g \in Grants : grant[g] = NoRow /\ grant[g].status = "none"
  BY DEF AccessInit, NoRow
<1>3. AccessTypeOK
  BY <1>2 DEF AccessInit, AccessTypeOK, InviteRows, GrantRows
<1>4. Tables
  BY <1>2, <1>3 DEF Tables
<1>5. Carried
  BY <1>1 DEF Carried, Proper, AccessInit
<1>6. Flagged /\ Consented
  BY <1>1, <1>2 DEF Flagged, Consented
<1>7. Unmixed
  BY <1>1, <1>2 DEF Unmixed, OneActiveGrant, Active, HasRead, Granting
<1> QED
  BY <1>4, <1>5, <1>6, <1>7 DEF AccessInv

LEMMA StepKeepsAccess == ASSUME AccessInv, [AccessNext]_accessVars PROVE AccessInv'
<1>1. CASE UNCHANGED accessVars
  <2>1. InvitesKeep /\ ownedBy' \in [Shareable -> Owners]
    BY <1>1, UnchangedKeeps DEF accessVars, AccessInv, Tables, AccessTypeOK
  <2> QED
    BY <1>1, <2>1, AsideKept DEF accessVars
<1>2. ASSUME NEW s \in Handlers, InviteStep(s) PROVE AccessInv'
  BY <1>2, RequestKept, CloseInviteKept, InsertInviteKept, LoadInviteKept, AnswerInviteKept
     DEF InviteStep
<1>3. ASSUME NEW s \in Handlers, GrantStep(s) PROVE AccessInv'
  BY <1>3, FindGrantKept, MergeGrantKept, InsertGrantKept, LoadGrantKept,
     AcceptInviteKept, RevokeGrantKept DEF GrantStep
<1> QED
  BY <1>1, <1>2, <1>3, StopShortKept, ConfirmInviteKept, TransferKept DEF AccessNext

LEMMA AlwaysAccess == AccessSpec => []AccessInv
BY StartsAccess, StepKeepsAccess, PTL DEF AccessSpec

-----------------------------------------------------------------------------
(* The theorems.                                                           *)

\* Rows are well formed, a grant names invites of its user that cover its collection,
\* and unless two acceptances, or an acceptance and a revocation, met at one person and
\* collection, a person has one active grant for a collection.
THEOREM OneGrant == AccessSpec => []GrantTable
<1>1. AccessInv => AccessTypeOK
  BY DEF AccessInv, Tables
<1>2. AccessInv => OneActiveGrant
  BY DEF AccessInv, Unmixed, OneActiveGrant
<1>3. AccessInv => GrantTable
  BY <1>1, <1>2 DEF GrantTable
<1> QED
  BY <1>3, AlwaysAccess, PTL

\* Nobody sees anything on the strength of an invite that is not accepted or being
\* accepted, unless an acceptance met a handler about to close the invite, or stopped
\* half-way.
THEOREM OnlyWithConsent == AccessSpec => []SharedWithConsent
<1>1. AccessInv => SharedWithConsent
  <2> SUFFICES ASSUME AccessInv, "consent" \notin noted, NEW g \in Grants,
                      grant[g].status = "active", NEW f \in grant[g].flags
               PROVE  \E i \in grant[g].invites :
                        /\ f \in invite[i].flags
                        /\ \/ invite[i].status = "accepted"
                           \/ \E s \in Handlers : Redeeming(s, i)
    BY DEF SharedWithConsent
  <2>1. PICK i \in grant[g].invites : f \in invite[i].flags
    BY DEF AccessInv, Flagged, Backed
  <2>2. invite[i].status = "accepted" \/ \E s \in Handlers : Redeeming(s, i)
    BY DEF AccessInv, Consented
  <2> QED
    BY <2>1, <2>2
<1> QED
  BY <1>1, AlwaysAccess, PTL

\* An invite turns accepted only in the last step of an acceptance.
LEMMA AcceptsByAcceptance ==
  ASSUME AccessInv, [AccessNext]_accessVars, NEW i \in Invites,
         invite[i].status # "accepted", invite'[i].status = "accepted"
  PROVE  \E s \in Handlers : /\ AcceptInvite(s) /\ handling[s].invite = i
                             /\ ~handling[s].failed
<1>1. invite \in [Invites -> InviteRows]
  BY DEF AccessInv, Tables, AccessTypeOK
<1>2. ASSUME NEW s \in Handlers, NEW o \in Owners, NEW u \in Invited,
             NEW items \in ItemChoices, NEW flags \in FlagChoices,
             RequestAccess(s, o, u, items, flags)
      PROVE  FALSE
  <2> DEFINE is == {j \in OpenInvites : invite[j].from = o /\ invite[j].to = u}
  <2>1. Close(is)
    BY <1>2 DEF RequestAccess
  <2>2. is \in SUBSET Invites /\ \A j \in is : invite[j] # NoRow
    BY InviteShape DEF OpenInvites, AccessInv, Tables, AccessTypeOK, NoRow
  <2>3. /\ \A j \in is : invite'[j].status = "closed"
        /\ \A j \in Invites \ is : invite'[j] = invite[j]
    BY <2>1, <2>2, CloseFacts DEF AccessInv
  <2> QED
    BY <2>3
<1>3. ASSUME NEW s \in Handlers, CloseInvite(s) PROVE FALSE
  <2>1. handling[s].at = "closing" /\ Close({handling[s].invite})
    BY <1>3 DEF CloseInvite
  <2>2. handling[s].invite \in Invites /\ invite[handling[s].invite] # NoRow
    BY <2>1 DEF AccessInv, Carried, Proper
  <2> PICK j : j = handling[s].invite
    OBVIOUS
  <2>3. invite'[j].status = "closed" /\ \A k \in Invites \ {j} : invite'[k] = invite[k]
    BY <2>1, <2>2, CloseFacts DEF AccessInv
  <2> QED
    BY <2>3
<1>4. ASSUME NEW s \in Handlers, NEW j \in Invites, InsertInvite(s, j) PROVE FALSE
  <2>1. PICK status \in {"pending", "closed"} :
          invite' = [invite EXCEPT ![j] =
            [status |-> status, from |-> handling[s].from, to |-> handling[s].to,
             items |-> handling[s].items, flags |-> handling[s].flags, link |-> "none"]]
    BY <1>4 DEF InsertInvite
  <2> QED
    BY <1>1, <2>1
<1>5. ASSUME NEW j \in Invites, ConfirmInvite(j) PROVE FALSE
  <2>1. invite' = [invite EXCEPT ![j].link = "mailed"] /\ j \in OpenInvites
    BY <1>5 DEF ConfirmInvite
  <2>2. invite[j].status = "pending" /\ invite[j] # NoRow
    BY <2>1 DEF OpenInvites, NoRow
  <2>3. invite[j] \in [status : {"pending", "accepted", "closed"},
                       from : Owners, to : Invited, items : ItemChoices,
                       flags : FlagChoices, link : {"none", "mailed"}]
    BY <1>1, <2>2, InviteShape
  <2>4. [invite[j] EXCEPT !.link = "mailed"].status = invite[j].status
    BY <2>3
  <2>5. invite'[j].status = invite[j].status /\ \A k \in Invites \ {j} : invite'[k] = invite[k]
    BY <1>1, <2>1, <2>4
  <2> QED
    BY <2>5
<1>6. UNCHANGED invite => FALSE
  OBVIOUS
<1>7. ASSUME NEW s \in Handlers, AcceptInvite(s)
      PROVE  handling[s].invite = i /\ ~handling[s].failed
  <2>1. ~handling[s].failed /\ Accept(handling[s].invite)
    BY <1>7 DEF AcceptInvite
  <2> QED
    BY <1>1, <2>1 DEF Accept
<1>8. ASSUME NEW s \in Handlers, InviteStep(s) PROVE FALSE
  BY <1>2, <1>3, <1>4, <1>6, <1>8 DEF InviteStep, LoadInvite, AnswerInvite
<1>9. ASSUME NEW s \in Handlers, GrantStep(s) PROVE AcceptInvite(s)
  BY <1>6, <1>9 DEF GrantStep, FindGrant, MergeGrant, InsertGrant, Written, LoadGrant,
                    RevokeGrant
<1>10. ASSUME NEW s \in Handlers, StopShort(s) PROVE FALSE
  BY <1>6, <1>10 DEF StopShort
<1>11. ASSUME NEW c \in Transferable, NEW u \in Owners, Transfer(c, u) PROVE FALSE
  BY <1>6, <1>11 DEF Transfer
<1>12. \E s \in Handlers : AcceptInvite(s)
  BY <1>5, <1>6, <1>8, <1>9, <1>10, <1>11 DEF AccessNext, accessVars
<1> QED
  BY <1>7, <1>12

\* Whoever is told that an invite was accepted sees what it promised.
THEOREM AcceptedIsSeen == AccessSpec => AcceptedMeansAccess
<1>1. ASSUME AccessInv, [AccessNext]_accessVars, NEW i \in Invites,
             invite[i].status # "accepted", invite'[i].status = "accepted",
             "grants" \notin noted, NEW c \in invite[i].items
      PROVE  invite[i].flags \subseteq Sees(invite[i].to, c)
  <2>1. PICK s \in Handlers : /\ AcceptInvite(s) /\ handling[s].invite = i
                              /\ ~handling[s].failed
    BY <1>1, AcceptsByAcceptance
  <2>2. handling[s].at = "granting" /\ handling[s].unread = {} /\ DOMAIN handling[s].found = {}
    BY <2>1 DEF AcceptInvite
  <2>3. HasRead(s, invite[i].to, c)
    BY <1>1, <2>1, <2>2 DEF HasRead, Granting
  <2>4. Current(s, invite[i].to, c)
    BY <1>1, <2>3 DEF AccessInv, Unmixed
  <2> QED
    BY <2>1, <2>2, <2>4 DEF Current
<1>2. AccessInv /\ [AccessNext]_accessVars =>
        [\A i \in Invites :
           /\ invite[i].status # "accepted" /\ invite'[i].status = "accepted"
           /\ "grants" \notin noted
           => \A c \in invite[i].items :
                invite[i].flags \subseteq Sees(invite[i].to, c)]_accessVars
  BY <1>1
<1> QED
  BY <1>2, AlwaysAccess, PTL DEF AccessSpec, AcceptedMeansAccess
=============================================================================
