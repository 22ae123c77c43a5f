--------------------------- MODULE EmailQueue_proofs ---------------------------
(***************************************************************************)
(* For any number of recipients, workers and faults: a recipient is mailed *)
(* once, and once more for each message the queue lost track of            *)
(* (QueueInv); a campaign the queue closed has nothing left to send, and a *)
(* cancellation stops each worker within its batch (CampaignInv).          *)
(***************************************************************************)
EXTENDS EmailQueue, FiniteSetTheorems, TLAPS

\* A worker took mail for this row to the server and has not marked it yet.
Unmarked(r) == \E w \in Workers : /\ work[w].at = "marking" /\ work[w].row = r
                                  /\ work[w].ok

\* A row in a worker's hands is its own: marked processing, not stale, in no
\* other worker's hands.
Owned ==
  \A w \in Workers :
    /\ Held(w) \subseteq Rows
    /\ \A r \in Held(w) : status[r] = "processing" /\ r \notin stale
    /\ \A v \in Workers : v # w => Held(v) \cap Held(w) = {}
    /\ work[w].at = "marking" => /\ work[w].row \notin work[w].left
                                 /\ work[w].ok \in BOOLEAN

\* What the server took and the queue still has no record of is lost, or about
\* to be marked, or marked.
Accounted ==
  \A r \in Rows : /\ accepted[r] <= lost[r] + 1
                  /\ status[r] # "sent" /\ ~Unmarked(r) => accepted[r] <= lost[r]

Shape ==
  /\ status \in [Rows -> RowStatuses]
  /\ accepted \in [Rows -> Nat] /\ lost \in [Rows -> Nat]
  /\ work = [w \in Workers |-> work[w]]

QueueInv == Shape /\ Owned /\ Accounted

LEMMA InitQueue == Init => QueueInv
<1> SUFFICES ASSUME Init PROVE QueueInv
  OBVIOUS
<1>1. Shape
  BY DEF Init, Shape, RowStatuses
<1>2. \A w \in Workers : work[w].at = "idle" /\ Held(w) = {}
  BY DEF Init, Idle, Held
<1>3. Owned
  BY <1>2 DEF Owned
<1>4. Accounted
  BY DEF Init, Accounted
<1>5. QED BY <1>1, <1>3, <1>4 DEF QueueInv

\* Only the worker that moves changes what it holds.
LEMMA OthersHold ==
  ASSUME Shape, NEW w \in Workers, NEW step, Goto(w, step)
  PROVE  /\ work' = [v \in Workers |-> work'[v]]
         /\ work'[w] = step
         /\ \A v \in Workers : v # w => work'[v] = work[v] /\ Held(v)' = Held(v)
<1>1. \A v \in Workers : work'[v] = IF v = w THEN step ELSE work[v]
  BY DEF Goto, Shape
<1>2. work' = [v \in Workers |-> work'[v]]
  BY DEF Goto, Shape
<1>3. \A v \in Workers : v # w => Held(v)' = Held(v)
  BY <1>1 DEF Held
<1>4. QED BY <1>1, <1>2, <1>3

\* A worker keeps some of its rows and leaves those of the others alone.
LEMMA KeepsOwned ==
  ASSUME Shape, Owned, NEW w \in Workers, NEW step, Goto(w, step),
         Held(w)' \subseteq Held(w),
         \A v \in Workers \ {w} : \A r \in Held(v) :
           status'[r] = status[r] /\ (r \in stale' => r \in stale),
         \A r \in Held(w)' : status'[r] = "processing" /\ r \notin stale',
         step.at = "marking" => step.row \notin step.left /\ step.ok \in BOOLEAN
  PROVE  Owned'
<1>1. /\ work'[w] = step
      /\ \A v \in Workers \ {w} : work'[v] = work[v] /\ Held(v)' = Held(v)
  BY OthersHold
<1>2. ASSUME NEW v \in Workers
      PROVE  /\ Held(v)' \subseteq Rows
             /\ \A r \in Held(v)' : status'[r] = "processing" /\ r \notin stale'
             /\ \A u \in Workers : u # v => Held(u)' \cap Held(v)' = {}
             /\ work'[v].at = "marking" => /\ work'[v].row \notin work'[v].left
                                           /\ work'[v].ok \in BOOLEAN
  <2>1. \A u \in Workers : Held(u)' \subseteq Held(u)
    BY <1>1
  <2>2. Held(v)' \subseteq Rows
    BY <2>1 DEF Owned
  <2>3. \A u \in Workers : u # v => Held(u)' \cap Held(v)' = {}
    BY <2>1 DEF Owned
  <2>4. CASE v = w
    BY <1>1, <2>2, <2>3, <2>4
  <2>5. CASE v # w
    BY <1>1, <2>2, <2>3, <2>5 DEF Owned
  <2>6. QED BY <2>4, <2>5
<1>3. QED BY <1>2 DEF Owned

\* A step that neither sends nor ends the marking of a message accounts for the
\* same messages.
LEMMA KeepsAccounted ==
  ASSUME Shape, Accounted, NEW w \in Workers, NEW step, Goto(w, step),
         ~(work[w].at = "marking" /\ work[w].ok),
         UNCHANGED <<accepted, lost>>,
         \A r \in Rows : status[r] = "sent" => status'[r] = "sent"
  PROVE  Accounted'
<1>1. \A v \in Workers \ {w} : work'[v] = work[v]
  BY OthersHold
<1>2. \A r : Unmarked(r) => Unmarked(r)'
  BY <1>1 DEF Unmarked
<1>3. QED BY <1>2 DEF Accounted

\* What a held row is known to be.
LEMMA HeldRow ==
  ASSUME Owned, NEW w \in Workers, NEW r \in Held(w)
  PROVE  /\ r \in Rows /\ status[r] = "processing" /\ r \notin stale
         /\ \A v \in Workers \ {w} : r \notin Held(v)
BY DEF Owned

-----------------------------------------------------------------------------
(* The steps of a worker.                                                  *)

LEMMA ClaimQueue ==
  ASSUME QueueInv, NEW w \in Workers, Claim(w)
  PROVE  QueueInv'
<1>1. PICK batch \in SUBSET Claimable :
        /\ status' = [r \in Rows |-> IF r \in batch THEN "processing" ELSE status[r]]
        /\ stale' = stale \ batch
        /\ Goto(w, [at |-> "claimed", left |-> batch, tries |-> [r \in batch |-> retries[r]]])
        /\ UNCHANGED <<accepted, lost>>
        /\ work[w] = Idle
  BY DEF Claim, history
<1> DEFINE step == [at |-> "claimed", left |-> batch, tries |-> [r \in batch |-> retries[r]]]
<1>2. /\ work' = [v \in Workers |-> work'[v]] /\ work'[w] = step
      /\ \A v \in Workers : v # w => work'[v] = work[v] /\ Held(v)' = Held(v)
  BY <1>1, OthersHold DEF QueueInv
<1>3. Held(w)' = batch
  BY <1>2 DEF Held
<1>4. /\ batch \subseteq Rows
      /\ \A r \in batch : /\ status[r] # "sent"
                          /\ \A v \in Workers : r \notin Held(v)
  BY HeldRow DEF QueueInv, Claimable, Retryable
<1>5. \A r \in Rows : status[r] = "sent" => status'[r] = "sent"
  BY <1>1, <1>4
<1>6. Shape'
  BY <1>1, <1>2 DEF QueueInv, Shape, RowStatuses
<1>7. Owned'
  <2>1. work'[w].at # "marking"
    BY <1>2
  <2>2. \A r \in batch : status'[r] = "processing" /\ r \notin stale'
    BY <1>1, <1>4
  <2>3. \A v \in Workers : v # w => \A r \in Held(v)' :
          r \in Rows /\ status'[r] = "processing" /\ r \notin stale'
    BY <1>1, <1>2, HeldRow DEF QueueInv
  <2>4. \A u, v \in Workers : u # v => Held(u)' \cap Held(v)' = {}
    BY <1>2, <1>3, <1>4 DEF QueueInv, Owned
  <2>5. ASSUME NEW v \in Workers, v # w
        PROVE  work'[v].at = "marking" => /\ work'[v].row \notin work'[v].left
                                          /\ work'[v].ok \in BOOLEAN
    BY <1>2, <2>5 DEF QueueInv, Owned
  <2>6. QED BY <1>3, <1>4, <2>1, <2>2, <2>3, <2>4, <2>5 DEF Owned
<1>8. Accounted'
  <2>1. work[w].at = "idle" BY <1>1 DEF Idle
  <2>2. QED BY <1>1, <1>5, <2>1, KeepsAccounted DEF QueueInv
<1>9. QED BY <1>5, <1>6, <1>7, <1>8 DEF QueueInv

\* A worker goes on with some of its rows, or none, and the rows it lets go
\* become anything but are its own.
LEMMA LetsGo ==
  ASSUME QueueInv, NEW w \in Workers, NEW step, Goto(w, step),
         ~(work[w].at = "marking" /\ work[w].ok),
         step.at # "marking", Held(w)' \subseteq Held(w),
         UNCHANGED <<accepted, lost>>,
         status' \in [Rows -> RowStatuses],
         stale' \subseteq stale,
         \A r \in Rows : r \notin Held(w) \/ r \in Held(w)' => status'[r] = status[r]
  PROVE  QueueInv'
<1>1. \A r \in Rows : status[r] = "sent" => status'[r] = "sent"
  BY HeldRow DEF QueueInv
<1>2. Shape'
  BY OthersHold DEF QueueInv, Shape
<1>3. \A v \in Workers \ {w} : \A r \in Held(v) :
        status'[r] = status[r] /\ (r \in stale' => r \in stale)
  BY HeldRow DEF QueueInv
<1>4. \A r \in Held(w)' : status'[r] = "processing" /\ r \notin stale'
  BY HeldRow DEF QueueInv
<1>5. Owned'
  BY <1>3, <1>4, KeepsOwned DEF QueueInv
<1>6. Accounted'
  BY <1>1, KeepsAccounted DEF QueueInv
<1>7. QED BY <1>1, <1>2, <1>5, <1>6 DEF QueueInv

\* The reads of a tick, which hold the same rows before and after.
LEMMA ReadsQueue ==
  ASSUME QueueInv, NEW w \in Workers, LoadCampaign(w) \/ CheckUnsubs(w)
  PROVE  QueueInv'
<1>1. PICK step : /\ Goto(w, step)
                  /\ step.at \in {"loaded", "batch"} /\ step.left = work[w].left
                  /\ work[w].at \in {"claimed", "loaded"}
                  /\ UNCHANGED <<status, stale, accepted, lost>>
  <2>1. CASE LoadCampaign(w)
    BY <2>1 DEF LoadCampaign, queue, history
  <2>2. CASE CheckUnsubs(w)
    BY <2>2 DEF CheckUnsubs, queue, history
  <2>3. QED BY <2>1, <2>2
<1>2. work'[w] = step
  BY <1>1, OthersHold DEF QueueInv
<1>3. Held(w)' = Held(w)
  BY <1>1, <1>2 DEF Held
<1>4. status' \in [Rows -> RowStatuses]
  BY <1>1 DEF QueueInv, Shape
<1>5. QED BY <1>1, <1>3, <1>4, LetsGo

\* A batch given back, or a tick that ends.
LEMMA EndsQueue ==
  ASSUME QueueInv, NEW w \in Workers,
         ReleaseClaims(w) \/ CountOpen(w) \/ CountSent(w) \/ Close(w)
  PROVE  QueueInv'
<1>1. PICK step : /\ Goto(w, step)
                  /\ step.at \in {"idle", "drained", "closing"}
                  /\ step.at # "idle" => step.left = {}
                  /\ work[w].at # "marking"
                  /\ UNCHANGED <<accepted, lost>>
                  /\ stale' \subseteq stale
                  /\ status' \in [Rows -> RowStatuses]
                  /\ \A r \in Rows : r \notin Held(w) => status'[r] = status[r]
  <2>1. CASE ReleaseClaims(w)
    <3>1. work[w].left = Held(w)
      BY <2>1 DEF ReleaseClaims, Held
    <3>2. QED BY <2>1, <3>1 DEF ReleaseClaims, Idle, history, QueueInv, Shape, RowStatuses
  <2>2. CASE CountOpen(w)
    BY <2>2 DEF CountOpen, Idle, queue, history, QueueInv, Shape
  <2>3. CASE CountSent(w)
    BY <2>3 DEF CountSent, queue, history, QueueInv, Shape
  <2>4. CASE Close(w)
    BY <2>4 DEF Close, Idle, queue, history, QueueInv, Shape
  <2>5. QED BY <2>1, <2>2, <2>3, <2>4
<1>2. work'[w] = step
  BY <1>1, OthersHold DEF QueueInv
<1>3. Held(w)' = {}
  BY <1>1, <1>2 DEF Held
<1>4. QED BY <1>1, <1>3, LetsGo

\* A row dropped without a message, whether its UPDATE succeeds or not.
LEMMA DropQueue ==
  ASSUME QueueInv, NEW w \in Workers, NEW r \in Rows, Drop(w, r) \/ DropFails(w, r)
  PROVE  QueueInv'
<1> DEFINE step == [at |-> "batch", left |-> work[w].left \ {r}, tries |-> work[w].tries,
                    campaign |-> work[w].campaign, unsub |-> work[w].unsub]
<1>1. /\ Goto(w, step) /\ work[w].at = "batch" /\ r \in work[w].left
      /\ UNCHANGED <<accepted, lost>>
      /\ stale' \subseteq stale
      /\ status' = status \/ status' = [status EXCEPT ![r] = "failed"]
  <2>1. CASE Drop(w, r)
    BY <2>1 DEF Drop, InBatch, history
  <2>2. CASE DropFails(w, r)
    BY <2>2 DEF DropFails, InBatch, queue, history
  <2>3. QED BY <2>1, <2>2
<1>2. work'[w] = step
  BY <1>1, OthersHold DEF QueueInv
<1>3. Held(w) = work[w].left /\ Held(w)' = work[w].left \ {r}
  BY <1>1, <1>2 DEF Held
<1>4. status' \in [Rows -> RowStatuses]
  BY <1>1 DEF QueueInv, Shape, RowStatuses
<1>5. \A q \in Rows : q \notin Held(w) \/ q \in Held(w)' => status'[q] = status[q]
  BY <1>1, <1>3 DEF QueueInv, Shape
<1>6. QED BY <1>1, <1>3, <1>4, <1>5, LetsGo

\* A message goes out: its row is the sender's, not sent, and not unmarked, so
\* the queue has a record of all that went before.
LEMMA SendQueue ==
  ASSUME QueueInv, NEW w \in Workers, NEW r \in Rows, Send(w, r)
  PROVE  QueueInv'
<1>1. PICK ok \in BOOLEAN : \E unheard \in 0 .. (IF ok THEN 1 ELSE 2) :
        /\ accepted' = [accepted EXCEPT ![r] = @ + unheard + IF ok THEN 1 ELSE 0]
        /\ lost' = [lost EXCEPT ![r] = @ + unheard]
        /\ Goto(w, [at |-> "marking", left |-> work[w].left \ {r},
                    tries |-> work[w].tries, campaign |-> work[w].campaign,
                    unsub |-> work[w].unsub, row |-> r, ok |-> ok])
        /\ UNCHANGED <<status, stale>>
        /\ work[w].at = "batch" /\ r \in work[w].left
  BY DEF Send, Unheard, queue
<1>9. PICK unheard \in Nat :
        /\ accepted' = [accepted EXCEPT ![r] = @ + unheard + IF ok THEN 1 ELSE 0]
        /\ lost' = [lost EXCEPT ![r] = @ + unheard]
  <2>1. PICK n \in 0 .. (IF ok THEN 1 ELSE 2) :
          /\ accepted' = [accepted EXCEPT ![r] = @ + n + IF ok THEN 1 ELSE 0]
          /\ lost' = [lost EXCEPT ![r] = @ + n]
    BY <1>1
  <2>2. n \in Nat
    BY <1>1
  <2>3. QED BY <2>1, <2>2
<1> DEFINE step == [at |-> "marking", left |-> work[w].left \ {r},
                    tries |-> work[w].tries, campaign |-> work[w].campaign,
                    unsub |-> work[w].unsub, row |-> r, ok |-> ok]
<1>2. /\ work' = [v \in Workers |-> work'[v]] /\ work'[w] = step
      /\ \A v \in Workers : v # w => work'[v] = work[v]
  BY <1>1, OthersHold DEF QueueInv
<1>3. Held(w) = work[w].left /\ Held(w)' = Held(w)
  BY <1>1, <1>2 DEF Held
<1>4. Shape'
  <2>1. accepted' \in [Rows -> Nat] /\ lost' \in [Rows -> Nat]
    BY <1>9 DEF QueueInv, Shape
  <2>2. QED BY <1>1, <1>2, <2>1 DEF QueueInv, Shape
<1>5. Owned'
  <2>1. \A q \in Held(w)' : status'[q] = "processing" /\ q \notin stale'
    BY <1>1, <1>3, HeldRow DEF QueueInv
  <2>2. step.row \notin step.left /\ step.ok \in BOOLEAN
    OBVIOUS
  <2>3. QED BY <1>1, <1>3, <2>1, <2>2, KeepsOwned DEF QueueInv
<1>6. status[r] = "processing" /\ ~Unmarked(r)
  <2>1. r \in Held(w)
    BY <1>1, <1>3
  <2>2. \A v \in Workers : work[v].at = "marking" => work[v].row \in Held(v)
    BY DEF Held
  <2>3. QED BY <1>1, <2>1, <2>2, HeldRow DEF QueueInv, Unmarked
<1>7. Accounted'
  <2>1. \A q : Unmarked(q) => Unmarked(q)'
    BY <1>1, <1>2 DEF Unmarked
  <2>2. ok => Unmarked(r)'
    BY <1>2 DEF Unmarked
  <2>3. accepted[r] <= lost[r] /\ accepted[r] \in Nat /\ lost[r] \in Nat
    BY <1>6 DEF QueueInv, Accounted, Shape
  <2>4. /\ accepted'[r] = accepted[r] + unheard + IF ok THEN 1 ELSE 0
        /\ lost'[r] = lost[r] + unheard
        /\ \A q \in Rows : q # r => accepted'[q] = accepted[q] /\ lost'[q] = lost[q]
    BY <1>9 DEF QueueInv, Shape
  <2>5. accepted'[r] <= lost'[r] + 1 /\ (~ok => accepted'[r] <= lost'[r])
    BY <2>3, <2>4
  <2>6. ASSUME NEW q \in Rows
        PROVE  /\ accepted'[q] <= lost'[q] + 1
               /\ status'[q] # "sent" /\ ~Unmarked(q)' => accepted'[q] <= lost'[q]
    <3>1. CASE q = r
      BY <1>1, <2>2, <2>5, <3>1
    <3>2. CASE q # r
      BY <1>1, <2>1, <2>4, <3>2 DEF QueueInv, Accounted
    <3>3. QED BY <3>1, <3>2
  <2>7. QED BY <2>6 DEF Accounted
<1>8. QED BY <1>1, <1>4, <1>5, <1>7 DEF QueueInv

\* A message is done with: marked, its UPDATE failed, or its worker dead.  One
\* that was taken and is not marked sent becomes one the queue lost track of.
LEMMA MessageDone ==
  ASSUME QueueInv, NEW w \in Workers, work[w].at = "marking",
         NEW step, Goto(w, step), step.at # "marking", Held(w)' \subseteq work[w].left,
         NEW q, q = work[w].row,
         UNCHANGED accepted, stale' \subseteq stale,
         \/ /\ status' = [status EXCEPT ![q] = IF work[w].ok THEN "sent" ELSE "failed"]
            /\ UNCHANGED lost
         \/ /\ UNCHANGED status
            /\ lost' = [lost EXCEPT ![q] = @ + IF work[w].ok THEN 1 ELSE 0]
  PROVE  QueueInv'
<1>1. /\ work' = [v \in Workers |-> work'[v]] /\ work'[w] = step
      /\ \A v \in Workers : v # w => work'[v] = work[v]
  BY OthersHold DEF QueueInv
<1>2. Held(w) = work[w].left \cup {q}
  BY DEF Held
<1>3. /\ q \in Rows /\ q \notin work[w].left /\ work[w].ok \in BOOLEAN
      /\ status[q] = "processing"
      /\ \A v \in Workers \ {w} : q \notin Held(v)
  BY <1>2, HeldRow DEF QueueInv, Owned
<1>4. /\ \A r \in Rows : r # q => status'[r] = status[r] /\ lost'[r] = lost[r]
      /\ status' \in [Rows -> RowStatuses] /\ lost' \in [Rows -> Nat]
  BY <1>3 DEF QueueInv, Shape, RowStatuses
<1>5. Shape'
  BY <1>1, <1>4 DEF QueueInv, Shape
<1>6. Owned'
  <2>1. \A r \in Held(w)' : status'[r] = "processing" /\ r \notin stale'
    BY <1>2, <1>3, <1>4, HeldRow DEF QueueInv
  <2>2. \A v \in Workers \ {w} : \A r \in Held(v) :
          status'[r] = status[r] /\ (r \in stale' => r \in stale)
    BY <1>3, <1>4, HeldRow DEF QueueInv
  <2>3. Held(w)' \subseteq Held(w)
    BY <1>2
  <2>4. QED BY <2>1, <2>2, <2>3, KeepsOwned DEF QueueInv
<1>7. Accounted'
  <2>1. \A r \in Rows : r # q /\ Unmarked(r) => Unmarked(r)'
    BY <1>1 DEF Unmarked
  <2>2. accepted[q] \in Nat /\ lost[q] \in Nat /\ accepted[q] <= lost[q] + 1
    BY <1>3 DEF QueueInv, Shape, Accounted
  <2>3. \/ status'[q] = "sent" /\ lost'[q] = lost[q]
        \/ accepted[q] <= lost'[q] /\ lost'[q] \in Nat
    <3>1. CASE work[w].ok
      <4>1. \/ status'[q] = "sent" /\ lost'[q] = lost[q]
            \/ lost'[q] = lost[q] + 1
        BY <1>3, <3>1 DEF QueueInv, Shape
      <4>2. QED BY <2>2, <4>1
    <3>2. CASE ~work[w].ok
      <4>1. ~Unmarked(q)
        <5>1. \A v \in Workers : work[v].at = "marking" => work[v].row \in Held(v)
          BY DEF Held
        <5>2. QED BY <1>3, <3>2, <5>1 DEF Unmarked
      <4>2. accepted[q] <= lost[q]
        BY <1>3, <4>1 DEF QueueInv, Accounted
      <4>3. lost'[q] = lost[q] + 0 \/ lost'[q] = lost[q]
        BY <1>3, <3>2 DEF QueueInv, Shape
      <4>4. QED BY <2>2, <4>2, <4>3
    <3>3. QED BY <3>1, <3>2
  <2>4. ASSUME NEW r \in Rows
        PROVE  /\ accepted'[r] <= lost'[r] + 1
               /\ status'[r] # "sent" /\ ~Unmarked(r)' => accepted'[r] <= lost'[r]
    <3>1. CASE r = q
      BY <2>2, <2>3, <3>1
    <3>2. CASE r # q
      BY <1>4, <2>1, <3>2 DEF QueueInv, Accounted
    <3>3. QED BY <3>1, <3>2
  <2>5. QED BY <2>4 DEF Accounted
<1>8. QED BY <1>5, <1>6, <1>7 DEF QueueInv

LEMMA MarkQueue ==
  ASSUME QueueInv, NEW w \in Workers, Mark(w) \/ MarkFails(w)
  PROVE  QueueInv'
<1> DEFINE step == [at |-> "batch", left |-> work[w].left, tries |-> work[w].tries,
                    campaign |-> work[w].campaign, unsub |-> work[w].unsub]
<1>1. /\ work[w].at = "marking" /\ Goto(w, step)
      /\ UNCHANGED accepted /\ stale' \subseteq stale
  <2>1. CASE Mark(w)
    BY <2>1 DEF Mark, InBatch, history
  <2>2. CASE MarkFails(w)
    BY <2>2 DEF MarkFails, InBatch, queue
  <2>3. QED BY <2>1, <2>2
<1>2. \/ /\ status' = [status EXCEPT ![work[w].row] = IF work[w].ok THEN "sent" ELSE "failed"]
         /\ UNCHANGED lost
      \/ /\ UNCHANGED status
         /\ lost' = [lost EXCEPT ![work[w].row] = @ + IF work[w].ok THEN 1 ELSE 0]
  BY DEF Mark, MarkFails, history, queue
<1>3. work'[w] = step
  BY <1>1, OthersHold DEF QueueInv
<1>4. Held(w)' = work[w].left
  BY <1>3 DEF Held
<1>5. QED BY <1>1, <1>2, <1>4, MessageDone

LEMMA CrashQueue ==
  ASSUME QueueInv, NEW w \in Workers, Crash(w)
  PROVE  QueueInv'
<1>1. /\ Goto(w, Idle) /\ UNCHANGED <<status, stale, accepted>>
      /\ Idle.at = "idle"
  BY DEF Crash, queue, Idle
<1>2. Held(w)' = {}
  <2>1. work'[w] = Idle BY <1>1, OthersHold DEF QueueInv
  <2>2. QED BY <2>1 DEF Held, Idle
<1>3. CASE work[w].at = "marking" /\ work[w].ok
  <2>1. lost' = [lost EXCEPT ![work[w].row] = @ + IF work[w].ok THEN 1 ELSE 0]
    BY <1>3 DEF Crash
  <2>2. QED BY <1>1, <1>2, <1>3, <2>1, MessageDone
<1>4. CASE ~(work[w].at = "marking" /\ work[w].ok)
  <2>1. UNCHANGED lost
    BY <1>4 DEF Crash
  <2>2. status' \in [Rows -> RowStatuses]
    BY <1>1 DEF QueueInv, Shape
  <2>3. QED BY <1>1, <1>2, <1>4, <2>1, <2>2, LetsGo
<1>5. QED BY <1>3, <1>4

\* Time, unsubscribes and the campaign's handlers touch no worker and no message.
LEMMA WorldQueue ==
  ASSUME QueueInv, UNCHANGED <<status, work, accepted, lost>>,
         \A w \in Workers : \A r \in Held(w) : r \notin stale'
  PROVE  QueueInv'
<1>1. /\ \A w \in Workers : Held(w)' = Held(w)
      /\ \A r : Unmarked(r)' <=> Unmarked(r)
  BY DEF Held, Unmarked
<1>2. Owned'
  BY <1>1 DEF QueueInv, Owned
<1>3. Shape' /\ Accounted'
  BY <1>1 DEF QueueInv, Shape, Accounted
<1>4. QED BY <1>2, <1>3 DEF QueueInv

LEMMA StepQueue ==
  ASSUME QueueInv, [Next]_vars
  PROVE  QueueInv'
<1>1. ASSUME NEW w \in Workers, WorkerStep(w) PROVE QueueInv'
  BY <1>1, ClaimQueue, ReadsQueue, EndsQueue, DropQueue, SendQueue, MarkQueue
  DEF WorkerStep
<1>2. ASSUME NEW w \in Workers,
             \/ ReleaseClaims(w) \/ (\E r \in Rows : DropFails(w, r))
             \/ MarkFails(w) \/ Crash(w)
      PROVE  QueueInv'
  BY <1>2, EndsQueue, DropQueue, MarkQueue, CrashQueue
<1>3. ASSUME NEW r \in Rows, Age(r) PROVE QueueInv'
  <2>1. /\ UNCHANGED <<status, work, accepted, lost>>
        /\ stale' = stale \cup {r} /\ \A w \in Workers : r \notin Held(w)
    BY <1>3 DEF Age, history
  <2>2. QED BY <2>1, HeldRow, WorldQueue DEF QueueInv
<1>4. CASE \/ \E r \in Rows : Unsubscribe(r)
           \/ \E h \in Handlers : Write(h) \/ \E job \in DOMAIN Fetched : Fetch(h, job)
           \/ UNCHANGED vars
  <2>1. UNCHANGED <<status, stale, work, accepted, lost>>
    BY <1>4 DEF Unsubscribe, Write, Fetch, vars, queue, history
  <2>2. QED BY <2>1, HeldRow, WorldQueue DEF QueueInv
<1>5. QED BY <1>1, <1>2, <1>3, <1>4 DEF Next

-----------------------------------------------------------------------------
(* A queue that has nothing left to do.                                    *)

\* What an admin or the scheduler is about to write.
Handled ==
  /\ handler = [h \in Handlers |-> handler[h]]
  /\ \A h \in Handlers : handler[h] = Idle \/ handler[h].at \in DOMAIN Fetched

\* Nothing is open once a worker has counted so, and nothing opens again.
Drained ==
  /\ campaign \in {"sent", "failed"} => Open = {}
  /\ campaign = "failed" => \A r \in Rows : status[r] = "failed"
  /\ \A w \in Workers :
       /\ work[w].at \in {"drained", "closing"} => Open = {}
       /\ work[w].at = "closing" =>
            /\ work[w].to \in {"sent", "failed"}
            /\ work[w].to = "failed" => \A r \in Rows : status[r] = "failed"

LEMMA Jobs ==
  /\ DOMAIN Fetched = {"send", "schedule", "cancel", "promote"}
  /\ \A job \in DOMAIN Fetched : Written[job] \in {"sending", "scheduled", "cancelled"}
<1>1. DOMAIN Fetched = {"send", "schedule", "cancel", "promote"}
  BY DEF Fetched
<1>2. /\ Written["send"] = "sending" /\ Written["schedule"] = "scheduled"
      /\ Written["cancel"] = "cancelled" /\ Written["promote"] = "sending"
  BY DEF Written
<1>3. QED BY <1>1, <1>2

LEMMA HandledKept ==
  ASSUME Handled, [Next]_vars
  PROVE  Handled'
<1>1. CASE UNCHANGED handler
  BY <1>1 DEF Handled
<1>2. ASSUME NEW h \in Handlers, NEW job \in DOMAIN Fetched, Fetch(h, job)
      PROVE  Handled'
  <2> PICK step : step = [at |-> job]
    OBVIOUS
  <2>1. step.at \in DOMAIN Fetched
    OBVIOUS
  <2>2. handler' = [handler EXCEPT ![h] = step]
    BY <1>2 DEF Fetch
  <2>3. QED BY <2>1, <2>2 DEF Handled
<1>3. ASSUME NEW h \in Handlers, Write(h)
      PROVE  Handled'
  <2>1. handler' = [handler EXCEPT ![h] = Idle]
    BY <1>3 DEF Write
  <2>2. QED BY <2>1 DEF Handled, Idle
<1>4. QED BY <1>1, <1>2, <1>3 DEF Next, WorkerStep, Claim, LoadCampaign, CheckUnsubs, Drop,
  Send, Mark, CountOpen, CountSent, Close, ReleaseClaims, DropFails, MarkFails, Crash, Age,
  Unsubscribe, vars

\* With nothing open no worker holds a row, and no step touches one.
LEMMA QuietWhenDrained ==
  ASSUME QueueInv, Open = {}, [Next]_vars
  PROVE  UNCHANGED status /\ Open' = {}
<1>1. Claimable = {}
  BY DEF Open, Claimable
<1>2. \A w \in Workers : Held(w) = {}
  BY HeldRow DEF QueueInv, Open
<1>3. \A w \in Workers : /\ work[w].at = "batch" => work[w].left = {}
                         /\ work[w].at = "claimed" => work[w].left = {}
                         /\ work[w].at # "marking"
  BY <1>2 DEF Held
<1>4. status = [r \in Rows |-> status[r]]
  BY DEF QueueInv, Shape
<1>5. ASSUME NEW w \in Workers, ReleaseClaims(w)
      PROVE  UNCHANGED <<status, retries>>
  BY <1>3, <1>4, <1>5 DEF ReleaseClaims
<1>6. UNCHANGED <<status, retries>>
  BY <1>1, <1>3, <1>5 DEF Next, WorkerStep, Claim, LoadCampaign, CheckUnsubs, Drop,
  Send, Mark, CountOpen, CountSent, Close, DropFails, MarkFails, Crash, Age,
  Unsubscribe, Fetch, Write, vars, queue
<1>7. QED BY <1>6 DEF Open, Retryable

\* Who closes the campaign, and what it says then.
LEMMA Closes ==
  ASSUME Handled, [Next]_vars, campaign' # campaign, campaign' \in {"sent", "failed"}
  PROVE  \E w \in Workers : work[w].at = "closing" /\ campaign' = work[w].to
<1>1. \A h \in Handlers : ~Write(h)
  BY Jobs DEF Write, Handled
<1>2. QED BY <1>1 DEF Next, WorkerStep, Claim, LoadCampaign, CheckUnsubs, Drop,
  Send, Mark, CountOpen, CountSent, Close, ReleaseClaims, DropFails, MarkFails, Crash, Age,
  Unsubscribe, Fetch, vars

\* A tick gets to its last two statements by counting.
LEMMA Counts ==
  ASSUME Shape, [Next]_vars, NEW w \in Workers, work'[w].at \in {"drained", "closing"}
  PROVE  \/ work'[w] = work[w]
         \/ Open = {} /\ work'[w].at = "drained"
         \/ /\ work[w].at = "drained"
            /\ work'[w].to = IF \E r \in Rows : status[r] = "sent" THEN "sent" ELSE "failed"
<1> SUFFICES ASSUME work'[w] # work[w]
             PROVE  \/ Open = {} /\ work'[w].at = "drained"
                    \/ /\ work[w].at = "drained"
                       /\ work'[w].to = IF \E r \in Rows : status[r] = "sent"
                                        THEN "sent" ELSE "failed"
  OBVIOUS
<1>1. ASSUME NEW v \in Workers, NEW step, Goto(v, step), step.at \notin {"drained", "closing"}
      PROVE  FALSE
  BY <1>1, OthersHold
<1>2. Idle.at = "idle"
  BY DEF Idle
<1>3. ASSUME NEW v \in Workers,
             \/ Claim(v) \/ LoadCampaign(v) \/ CheckUnsubs(v) \/ Mark(v) \/ Close(v)
             \/ \E r \in Rows : Drop(v, r) \/ Send(v, r) \/ DropFails(v, r)
             \/ ReleaseClaims(v) \/ MarkFails(v) \/ Crash(v)
      PROVE  \E step : Goto(v, step) /\ step.at \notin {"drained", "closing"}
  <2>1. CASE Claim(v) \/ LoadCampaign(v) \/ CheckUnsubs(v)
    <3>1. CASE Claim(v)
      <4> PICK batch, step :
            /\ step = [at |-> "claimed", left |-> batch, tries |-> [r \in batch |-> retries[r]]]
            /\ Goto(v, step)
        BY <3>1 DEF Claim
      <4>1. step.at = "claimed"
        OBVIOUS
      <4>2. QED BY <4>1
    <3>2. CASE LoadCampaign(v)
      <4> PICK step : step = [at |-> "loaded", left |-> work[v].left, tries |-> work[v].tries,
                              campaign |-> campaign]
        OBVIOUS
      <4>1. Goto(v, step) /\ step.at = "loaded"
        BY <3>2 DEF LoadCampaign
      <4>2. QED BY <4>1
    <3>3. CASE CheckUnsubs(v)
      <4> PICK gone, step :
            /\ step = [at |-> "batch", left |-> work[v].left, tries |-> work[v].tries,
                       campaign |-> work[v].campaign, unsub |-> gone]
            /\ Goto(v, step)
        BY <3>3 DEF CheckUnsubs
      <4>1. step.at = "batch"
        OBVIOUS
      <4>2. QED BY <4>1
    <3>4. QED BY <2>1, <3>1, <3>2, <3>3
  <2>2. CASE \/ Mark(v) \/ MarkFails(v)
             \/ \E r \in Rows : Drop(v, r) \/ Send(v, r) \/ DropFails(v, r)
    <3>1. ASSUME NEW r \in Rows, Send(v, r)
          PROVE  \E step : Goto(v, step) /\ step.at \notin {"drained", "closing"}
      <4> PICK ok, step :
            /\ step = [at |-> "marking", left |-> work[v].left \ {r},
                       tries |-> work[v].tries, campaign |-> work[v].campaign,
                       unsub |-> work[v].unsub, row |-> r, ok |-> ok]
            /\ Goto(v, step)
        BY <3>1 DEF Send
      <4>1. step.at = "marking"
        OBVIOUS
      <4>2. QED BY <4>1
    <3>2. ASSUME NEW left, InBatch(v, left)
          PROVE  \E step : Goto(v, step) /\ step.at \notin {"drained", "closing"}
      <4> PICK step : step = [at |-> "batch", left |-> left, tries |-> work[v].tries,
                              campaign |-> work[v].campaign, unsub |-> work[v].unsub]
        OBVIOUS
      <4>1. Goto(v, step) /\ step.at = "batch"
        BY <3>2 DEF InBatch
      <4>2. QED BY <4>1
    <3>3. QED BY <2>2, <3>1, <3>2 DEF Mark, MarkFails, Drop, DropFails
  <2>3. CASE Close(v) \/ ReleaseClaims(v) \/ Crash(v)
    BY <1>2, <2>3 DEF Close, ReleaseClaims, Crash
  <2>4. QED BY <1>3, <2>1, <2>2, <2>3
<1>4. PICK v \in Workers : CountOpen(v) \/ CountSent(v)
  BY <1>1, <1>3 DEF Next, WorkerStep, Age, Unsubscribe, Fetch, Write, vars
<1>5. CASE CountOpen(v)
  <2>1. CASE Open = {}
    <3> PICK step : step = [at |-> "drained", left |-> {}]
      OBVIOUS
    <3>1. Goto(v, step) /\ step.at = "drained"
      BY <1>5, <2>1 DEF CountOpen
    <3>2. QED BY <2>1, <3>1, OthersHold
  <2>2. CASE Open # {}
    BY <1>1, <1>2, <1>5, <2>2 DEF CountOpen
  <2>3. QED BY <2>1, <2>2
<1>6. CASE CountSent(v)
  <2> PICK to : to = IF \E r \in Rows : status[r] = "sent" THEN "sent" ELSE "failed"
    OBVIOUS
  <2> PICK step : step = [at |-> "closing", left |-> {}, to |-> to]
    OBVIOUS
  <2>1. Goto(v, step) /\ step.to = to /\ work[v].at = "drained"
    BY <1>6 DEF CountSent
  <2>2. v = w /\ work'[w] = step
    BY <2>1, OthersHold
  <2>3. QED BY <2>1, <2>2
<1>7. QED BY <1>4, <1>5, <1>6

LEMMA DrainedKept ==
  ASSUME QueueInv, Handled, Drained, [Next]_vars
  PROVE  Drained'
<1>1. Open = {} => UNCHANGED status /\ Open' = {}
  BY QuietWhenDrained
<1>2. campaign' \in {"sent", "failed"} =>
        /\ Open = {}
        /\ campaign' = "failed" => \A r \in Rows : status[r] = "failed"
  BY Closes DEF Drained
<1>3. Open = {} => \A r \in Rows : status[r] \in {"sent", "failed"}
  BY DEF Open, QueueInv, Shape, RowStatuses
<1>4. ASSUME NEW w \in Workers, work'[w].at \in {"drained", "closing"}
      PROVE  /\ Open = {}
             /\ work'[w].at = "closing" =>
                  /\ work'[w].to \in {"sent", "failed"}
                  /\ work'[w].to = "failed" => \A r \in Rows : status[r] = "failed"
  <2>1. CASE work'[w] = work[w]
    BY <1>4, <2>1 DEF Drained
  <2>2. CASE Open = {} /\ work'[w].at = "drained"
    BY <2>2
  <2>3. CASE /\ work[w].at = "drained"
             /\ work'[w].to = IF \E r \in Rows : status[r] = "sent" THEN "sent" ELSE "failed"
    BY <1>3, <2>3 DEF Drained
  <2>4. QED BY <1>4, <2>1, <2>2, <2>3, Counts DEF QueueInv
<1>5. QED BY <1>1, <1>2, <1>4 DEF Drained

-----------------------------------------------------------------------------
(* A campaign that is cancelled.                                           *)

\* A tick with rows ahead, and one that would still send them.
Loaded(step) == step.at \in {"claimed", "loaded", "batch", "marking"}
Live(step) == step.at \in {"loaded", "batch", "marking"} /\ step.campaign # "cancelled"

\* No more rows than a batch; and what was sent since the cancellation by a tick that
\* has not heard of it comes out of its batch.
Bounded ==
  /\ late \in [Workers -> Nat]
  /\ \A w \in Workers : late[w] <= BatchSize
  /\ \A w \in Workers : Loaded(work[w]) =>
       work[w].left \in SUBSET Rows /\ Cardinality(work[w].left) <= BatchSize
  /\ campaign = "cancelled" => \A w \in Workers : Live(work[w]) =>
       late[w] + Cardinality(work[w].left) <= BatchSize

LEMMA RowsCounted ==
  ASSUME NEW S \in SUBSET Rows
  PROVE  IsFiniteSet(S) /\ Cardinality(S) \in Nat
BY EmailQueueAssumption, FS_Subset, FS_CardinalityType

LEMMA FewerRows ==
  ASSUME NEW S \in SUBSET Rows, NEW T \in SUBSET S
  PROVE  Cardinality(T) <= Cardinality(S) /\ T \in SUBSET Rows
BY RowsCounted, FS_Subset

\* A step that sends nothing, cancels nothing and takes on no row while cancelled.
LEMMA BoundedKept ==
  ASSUME Shape, Bounded, NEW w \in Workers, NEW step, Goto(w, step), UNCHANGED late,
         campaign' = "cancelled" => campaign = "cancelled",
         Loaded(step) => \/ Loaded(work[w]) /\ step.left \subseteq work[w].left
                         \/ step.left \in SUBSET Rows /\ Cardinality(step.left) <= BatchSize,
         campaign = "cancelled" /\ Live(step) =>
           Live(work[w]) /\ step.left \subseteq work[w].left
  PROVE  Bounded'
<1>1. work'[w] = step /\ \A v \in Workers \ {w} : work'[v] = work[v]
  BY OthersHold
<1>2. Loaded(step) => step.left \in SUBSET Rows /\ Cardinality(step.left) <= BatchSize
  <2>1. CASE Loaded(work[w]) /\ step.left \subseteq work[w].left
    <3>1. work[w].left \in SUBSET Rows /\ Cardinality(work[w].left) <= BatchSize
      BY <2>1 DEF Bounded
    <3>2. Cardinality(step.left) <= Cardinality(work[w].left) /\ step.left \in SUBSET Rows
      BY <2>1, <3>1, FewerRows
    <3>3. BatchSize \in Nat /\ Cardinality(step.left) \in Nat /\ Cardinality(work[w].left) \in Nat
      BY <3>1, <3>2, RowsCounted, EmailQueueAssumption
    <3>4. QED BY <3>1, <3>2, <3>3
  <2>2. QED BY <2>1
<1>3. ASSUME campaign = "cancelled", Live(step)
      PROVE  late[w] + Cardinality(step.left) <= BatchSize
  <2>1. /\ Live(work[w]) /\ Loaded(work[w]) /\ step.left \subseteq work[w].left
        /\ late[w] + Cardinality(work[w].left) <= BatchSize
    BY <1>3 DEF Bounded, Live, Loaded
  <2>2. work[w].left \in SUBSET Rows
    BY <2>1 DEF Bounded
  <2>3. Cardinality(step.left) <= Cardinality(work[w].left) /\ step.left \in SUBSET Rows
    BY <2>1, <2>2, FewerRows
  <2>4. /\ BatchSize \in Nat /\ Cardinality(step.left) \in Nat
        /\ Cardinality(work[w].left) \in Nat /\ late[w] \in Nat
    BY <2>2, <2>3, RowsCounted, EmailQueueAssumption DEF Bounded
  <2>5. QED BY <2>1, <2>3, <2>4
<1>4. QED BY <1>1, <1>2, <1>3 DEF Bounded

\* Nor does it matter what the world does, while nobody cancels.
LEMMA BoundedStill ==
  ASSUME Bounded, UNCHANGED <<work, late>>, campaign' = "cancelled" => campaign = "cancelled"
  PROVE  Bounded'
BY DEF Bounded

LEMMA ClaimBounded ==
  ASSUME QueueInv, Bounded, NEW w \in Workers, Claim(w)
  PROVE  Bounded'
<1> PICK batch \in SUBSET Claimable :
      /\ \/ Cardinality(batch) = BatchSize
         \/ batch = Claimable /\ Cardinality(batch) < BatchSize
      /\ Goto(w, [at |-> "claimed", left |-> batch, tries |-> [r \in batch |-> retries[r]]])
  BY DEF Claim
<1> PICK step : step = [at |-> "claimed", left |-> batch, tries |-> [r \in batch |-> retries[r]]]
  OBVIOUS
<1>1. step.at = "claimed" /\ step.left = batch /\ batch \in SUBSET Rows
  BY DEF Claimable
<1>2. Cardinality(batch) <= BatchSize
  BY <1>1, RowsCounted, EmailQueueAssumption
<1>3. UNCHANGED <<campaign, late>> /\ ~Live(step) /\ Goto(w, step)
  BY <1>1 DEF Claim, history, Live
<1>4. QED BY <1>1, <1>2, <1>3, BoundedKept DEF QueueInv

LEMMA ReadsBounded ==
  ASSUME QueueInv, Bounded, NEW w \in Workers, LoadCampaign(w) \/ CheckUnsubs(w)
  PROVE  Bounded'
<1>1. CASE LoadCampaign(w)
  <2> PICK step : step = [at |-> "loaded", left |-> work[w].left, tries |-> work[w].tries,
                          campaign |-> campaign]
    OBVIOUS
  <2>1. /\ Goto(w, step) /\ step.left = work[w].left
        /\ Loaded(work[w]) /\ UNCHANGED <<campaign, late>>
    BY <1>1 DEF LoadCampaign, Loaded, history
  <2>2. campaign = "cancelled" => ~Live(step)
    BY DEF Live
  <2>3. QED BY <2>1, <2>2, BoundedKept DEF QueueInv
<1>2. CASE CheckUnsubs(w)
  <2> PICK gone, step :
        /\ step = [at |-> "batch", left |-> work[w].left, tries |-> work[w].tries,
                   campaign |-> work[w].campaign, unsub |-> gone]
        /\ Goto(w, step)
    BY <1>2 DEF CheckUnsubs
  <2>1. /\ step.left = work[w].left /\ step.campaign = work[w].campaign
        /\ work[w].at = "loaded" /\ UNCHANGED <<campaign, late>>
    BY <1>2 DEF CheckUnsubs, history
  <2>2. QED BY <2>1, BoundedKept DEF QueueInv, Loaded, Live
<1>3. QED BY <1>1, <1>2

\* The rest of the batch, with the campaign as it was read.
LEMMA BatchBounded ==
  ASSUME QueueInv, Bounded, NEW w \in Workers, NEW left, InBatch(w, left),
         work[w].at \in {"batch", "marking"}, left \subseteq work[w].left,
         UNCHANGED <<campaign, late>>
  PROVE  Bounded'
<1> PICK step : step = [at |-> "batch", left |-> left, tries |-> work[w].tries,
                        campaign |-> work[w].campaign, unsub |-> work[w].unsub]
  OBVIOUS
<1>1. Goto(w, step) /\ step.left = left /\ step.campaign = work[w].campaign
  BY DEF InBatch
<1>2. QED BY <1>1, BoundedKept DEF QueueInv, Loaded, Live

\* A message of a cancelled campaign leaves the batch one row smaller.
LEMMA SendBounded ==
  ASSUME QueueInv, Bounded, NEW w \in Workers, NEW r \in Rows, Send(w, r)
  PROVE  Bounded'
<1> PICK ok, step :
      /\ step = [at |-> "marking", left |-> work[w].left \ {r},
                 tries |-> work[w].tries, campaign |-> work[w].campaign,
                 unsub |-> work[w].unsub, row |-> r, ok |-> ok]
      /\ Goto(w, step)
  BY DEF Send
<1>1. /\ step.left = work[w].left \ {r} /\ step.campaign = work[w].campaign
      /\ step.at = "marking" /\ work[w].at = "batch" /\ r \in work[w].left
      /\ UNCHANGED campaign
  BY DEF Send
<1>2. work[w].campaign # "cancelled"
  BY <1>1 DEF Send, Dropped
<1>3. Live(work[w]) /\ Loaded(work[w])
  BY <1>1, <1>2 DEF Live, Loaded
<1>4. work'[w] = step /\ \A v \in Workers \ {w} : work'[v] = work[v]
  BY OthersHold DEF QueueInv
<1>5. /\ late' = [late EXCEPT ![w] = @ + IF campaign = "cancelled" THEN 1 ELSE 0]
      /\ late' \in [Workers -> Nat]
      /\ \A v \in Workers \ {w} : late'[v] = late[v]
      /\ campaign = "cancelled" => late'[w] = late[w] + 1
      /\ campaign # "cancelled" => late'[w] = late[w]
  BY DEF Send, Bounded
<1>6. work[w].left \in SUBSET Rows /\ Cardinality(work[w].left) <= BatchSize
  BY <1>3 DEF Bounded
<1>7. /\ step.left \in SUBSET Rows
      /\ Cardinality(step.left) = Cardinality(work[w].left) - 1
      /\ Cardinality(step.left) \in Nat /\ Cardinality(work[w].left) \in Nat
  BY <1>1, <1>6, RowsCounted, FS_RemoveElement
<1>8. Cardinality(step.left) <= BatchSize
  BY <1>6, <1>7, EmailQueueAssumption
<1>9. late'[w] <= BatchSize /\ (campaign = "cancelled" =>
                                 late'[w] + Cardinality(step.left) <= BatchSize)
  <2>1. CASE campaign = "cancelled"
    <3>1. late[w] + Cardinality(work[w].left) <= BatchSize /\ late[w] \in Nat
      BY <1>3, <2>1 DEF Bounded
    <3>2. QED BY <1>5, <1>7, <2>1, <3>1, EmailQueueAssumption
  <2>2. CASE campaign # "cancelled"
    BY <1>5, <2>2 DEF Bounded
  <2>3. QED BY <2>1, <2>2
<1>10. QED BY <1>1, <1>4, <1>5, <1>7, <1>8, <1>9 DEF Bounded

LEMMA EndsBounded ==
  ASSUME QueueInv, Drained, Bounded, NEW w \in Workers,
         ReleaseClaims(w) \/ CountOpen(w) \/ CountSent(w) \/ Close(w) \/ Crash(w)
  PROVE  Bounded'
<1>1. UNCHANGED late /\ (campaign' = "cancelled" => campaign = "cancelled")
  BY DEF ReleaseClaims, CountOpen, CountSent, Close, Crash, history, Drained
<1>2. ASSUME NEW step, Goto(w, step), step.at \in {"idle", "drained", "closing"}
      PROVE  Bounded'
  <2>1. ~Loaded(step) /\ ~Live(step)
    BY <1>2 DEF Loaded, Live
  <2>2. QED BY <1>1, <1>2, <2>1, BoundedKept DEF QueueInv
<1>3. CASE Goto(w, Idle)
  BY <1>2, <1>3 DEF Idle
<1>4. CASE CountOpen(w)
  <2> PICK step : step = [at |-> "drained", left |-> {}]
    OBVIOUS
  <2>1. Goto(w, Idle) \/ (Goto(w, step) /\ step.at = "drained")
    BY <1>4 DEF CountOpen
  <2>2. QED BY <1>2, <1>3, <2>1
<1>5. CASE CountSent(w)
  <2> PICK to, step : step = [at |-> "closing", left |-> {}, to |-> to] /\ Goto(w, step)
    BY <1>5 DEF CountSent
  <2>1. step.at = "closing"
    OBVIOUS
  <2>2. QED BY <1>2, <2>1
<1>6. QED BY <1>3, <1>4, <1>5 DEF ReleaseClaims, Close, Crash

\* With the cancellation the count starts over.
LEMMA WriteBounded ==
  ASSUME QueueInv, Bounded, NEW h \in Handlers, Write(h)
  PROVE  Bounded'
<1>1. UNCHANGED work
  BY DEF Write
<1>2. CASE campaign' = "cancelled" /\ campaign # "cancelled"
  <2>1. late' = [w \in Workers |-> 0]
    BY <1>2 DEF Write
  <2>2. ASSUME NEW w \in Workers, Live(work[w])
        PROVE  0 + Cardinality(work[w].left) <= BatchSize
    <3>1. work[w].left \in SUBSET Rows /\ Cardinality(work[w].left) <= BatchSize
      BY <2>2 DEF Bounded, Live, Loaded
    <3>2. QED BY <3>1, RowsCounted
  <2>3. QED BY <1>1, <2>1, <2>2, EmailQueueAssumption DEF Bounded
<1>3. CASE ~(campaign' = "cancelled" /\ campaign # "cancelled")
  BY <1>1, <1>3, BoundedStill DEF Write
<1>4. QED BY <1>2, <1>3

LEMMA NextBounded ==
  ASSUME QueueInv, Drained, Bounded, [Next]_vars
  PROVE  Bounded'
<1>1. ASSUME NEW w \in Workers,
             \/ \E r \in Rows : Drop(w, r) \/ DropFails(w, r)
             \/ Mark(w) \/ MarkFails(w)
      PROVE  Bounded'
  <2>1. PICK left : /\ InBatch(w, left) /\ left \subseteq work[w].left
                    /\ work[w].at \in {"batch", "marking"}
                    /\ UNCHANGED <<campaign, late>>
    BY <1>1 DEF Drop, DropFails, Mark, MarkFails, history
  <2>2. QED BY <2>1, BatchBounded
<1>2. ASSUME NEW w \in Workers, WorkerStep(w)
      PROVE  Bounded'
  BY <1>1, <1>2, ClaimBounded, ReadsBounded, SendBounded, EndsBounded DEF WorkerStep
<1>3. ASSUME \/ \E r \in Rows : Age(r) \/ Unsubscribe(r)
             \/ \E h \in Handlers : \E job \in DOMAIN Fetched : Fetch(h, job)
             \/ UNCHANGED vars
      PROVE  Bounded'
  BY <1>3, BoundedStill DEF Age, Unsubscribe, Fetch, vars, history
<1>4. QED BY <1>1, <1>2, <1>3, EndsBounded, WriteBounded DEF Next

CampaignInv == QueueInv /\ Handled /\ Drained /\ Bounded

LEMMA InitCampaign == Init => CampaignInv
<1> SUFFICES ASSUME Init PROVE CampaignInv
  OBVIOUS
<1>1. campaign \in {"draft", "scheduled", "sending"}
  BY EmailQueueAssumption DEF Init
<1>2. /\ \A w \in Workers : work[w].at = "idle"
      /\ \A h \in Handlers : handler[h] = Idle
      /\ handler = [h \in Handlers |-> handler[h]]
  BY DEF Init, Idle
<1>3. Handled /\ Drained
  BY <1>1, <1>2 DEF Handled, Drained
<1>4. Bounded
  BY <1>1, <1>2, EmailQueueAssumption DEF Init, Bounded, Loaded, Live
<1>5. QED BY <1>3, <1>4, InitQueue DEF CampaignInv

LEMMA CampaignInvariance == Spec => []CampaignInv
<1>1. CampaignInv /\ [Next]_vars => CampaignInv'
  BY StepQueue, HandledKept, DrainedKept, NextBounded DEF CampaignInv
<1>2. QED BY <1>1, InitCampaign, PTL DEF Spec

-----------------------------------------------------------------------------
(* The theorems.                                                           *)

\* The invariant holds in every reachable state.
THEOREM QueueInvariance == Spec => []QueueInv
BY InitQueue, StepQueue, PTL DEF Spec

\* sendCampaignRecipientEmail: a recipient is mailed once, and once more for each message
\* that a lost answer, a crash or a failed UPDATE kept out of the queue's records.
THEOREM MailedAtMostOnce == Spec => []MailedOnce
<1>1. QueueInv => MailedOnce
  BY DEF QueueInv, Shape, Accounted, MailedOnce
<1>2. QED BY <1>1, QueueInvariance, PTL

\* finalizeCampaignsIfDone: a campaign the queue closed has nothing left to send, and is
\* 'failed' only when nobody was reached.
THEOREM ClosedIsDrained == Spec => []ClosedWhenDrained
<1>1. CampaignInv => ClosedWhenDrained
  BY DEF CampaignInv, Drained, ClosedWhenDrained
<1>2. QED BY <1>1, CampaignInvariance, PTL

\* cancelCampaign: each worker sends at most a batch after the cancellation, for any
\* batch size and number of workers, also when the campaign is started and cancelled
\* again.
THEOREM CancelStops == Spec => []CancelStopsTheQueue
<1>1. CampaignInv => CancelStopsTheQueue
  BY DEF CampaignInv, Bounded, CancelStopsTheQueue
<1>2. QED BY <1>1, CampaignInvariance, PTL
=============================================================================
