-------------------------- MODULE CollectionAccess --------------------------
(***************************************************************************)
(* Read access to a collection for somebody who does not own it            *)
(* (controllers/collectionAccess.js).  The owner invites an address to     *)
(* some collections, with the flags earnings and contributors, confirms    *)
(* with a code, and the invited person accepts: every collection of the    *)
(* invite gets a grant, merged into an active one if there is one.         *)
(*                                                                         *)
(* Handlers read and write in separate calls.  The collections of one      *)
(* acceptance are handled side by side (Promise.all), each with a read of  *)
(* the active grant and a write.                                           *)
(***************************************************************************)
EXTENDS Naturals

CONSTANTS
  Shareable,     \* the collections
  Transferable,  \* those that change hands (a bound)
  Owners,        \* users who may own one
  Invited,       \* users who are invited
  ItemChoices,   \* the collections an invite may name
  FlagChoices,   \* what it may let see
  MaxInvites, MaxGrants,   \* bounds on the rows of the two tables
  Handlers,      \* handlers in flight at the same time
  MayFail        \* a handler may die, a statement or a mail may fail

ASSUME AccessAssumption ==
  /\ Owners \cap Invited = {} /\ Transferable \subseteq Shareable
  /\ ItemChoices \subseteq (SUBSET Shareable) \ {{}}
  /\ FlagChoices \subseteq SUBSET {"earnings", "contributors"}
  /\ MaxInvites \in Nat /\ MaxGrants \in Nat /\ MayFail \in BOOLEAN

VARIABLES
  ownedBy,   \* collections.user_id
  invite,    \* collection_access_invites with their items
  grant,     \* collection_access_grants
  handling,  \* where each handler in flight stands
  noted      \* history: "consent" once an invite was accepted that a handler was
             \* about to close, or was accepted in part; "grants" once two acceptances, or an
             \* acceptance and a revocation, met at one person and collection

accessVars == <<ownedBy, invite, grant, handling, noted>>

Invites == 1..MaxInvites
Grants == 1..MaxGrants
Waiting == [at |-> "idle"]
NoRow == [status |-> "none"]
NoGrant == 0

AccessInit ==
  /\ \E u \in Owners : ownedBy = [c \in Shareable |-> u]
  /\ invite = [i \in Invites |-> NoRow]
  /\ grant = [g \in Grants |-> NoRow]
  /\ handling = [s \in Handlers |-> Waiting]
  /\ noted = {}

Proceed(s, step) == handling' = [handling EXCEPT ![s] = step]
Note(kind, when) == noted' = IF when THEN noted \cup {kind} ELSE noted
OtherHandlers(s) == Handlers \ {s}

\* The link of an invite that is not pending is of no more use.
Resolved(row, status) == [row EXCEPT !.status = status, !.link = "none"]
Close(is) ==
  invite' = [i \in Invites |->
               IF i \in is THEN Resolved(invite[i], "closed") ELSE invite[i]]
Accept(i) == invite' = [invite EXCEPT ![i] = Resolved(@, "accepted")]

OpenInvites == {i \in Invites : invite[i].status = "pending"}

Active(u, c) ==
  {g \in Grants : /\ grant[g].status = "active"
                  /\ grant[g].user = u /\ grant[g].collection = c}

\* getSharedCollections, getSharedCollectionDetail: every active row counts.
Sees(u, c) == UNION {grant[g].flags : g \in Active(u, c)}

-----------------------------------------------------------------------------
\* The windows: acceptances that have not answered yet.

Granting(s, u, c) ==
  /\ handling[s].at = "granting"
  /\ invite[handling[s].invite].to = u /\ c \in invite[handling[s].invite].items

Redeeming(s, i) == handling[s].at = "granting" /\ handling[s].invite = i

-----------------------------------------------------------------------------
\* requestCollectionAccess: ownership of all the collections; one UPDATE cancels
\* what this owner has pending for this address; then, whether or not that UPDATE
\* succeeded, the invite and its items are inserted and the code is mailed.

RequestAccess(s, o, u, items, flags) ==
  LET is == {i \in OpenInvites : invite[i].from = o /\ invite[i].to = u} IN
  /\ handling[s] = Waiting
  /\ \A c \in items : ownedBy[c] = o
  /\ \/ Close(is)
     \/ MayFail /\ UNCHANGED invite
  /\ Proceed(s, [at |-> "inserting", from |-> o, to |-> u, items |-> items,
              flags |-> flags])
  /\ UNCHANGED <<ownedBy, grant, noted>>

\* Items that cannot be inserted take their invite with them (StopShort), or leave it
\* without a code that anyone has.  When the mail with the code fails the row is
\* cancelled before anyone has a code; that UPDATE may fail too.
InsertInvite(s, i) ==
  /\ handling[s].at = "inserting"
  /\ invite[i] = NoRow
  /\ \A j \in Invites : j < i => invite[j] # NoRow
  /\ \E status \in {"pending"} \cup (IF MayFail THEN {"closed"} ELSE {}) :
       invite' = [invite EXCEPT ![i] =
         [status |-> status, from |-> handling[s].from, to |-> handling[s].to,
          items |-> handling[s].items, flags |-> handling[s].flags, link |-> "none"]]
  /\ Proceed(s, Waiting)
  /\ UNCHANGED <<ownedBy, grant, noted>>

-----------------------------------------------------------------------------
\* An invite is closed by id, on the strength of an earlier read that found it
\* pending: the code or the link has lapsed, the invited person declines, or
\* the inviter cancels.  "closed" stands for expired, declined and cancelled.

CloseInvite(s) ==
  /\ handling[s].at = "closing"
  /\ Close({handling[s].invite})
  /\ Proceed(s, Waiting)
  /\ UNCHANGED <<ownedBy, grant, noted>>

\* Mutant: any status will do.
LoadAnyInvite(s, i) ==
  /\ handling[s] = Waiting
  /\ invite[i] # NoRow
  /\ Proceed(s, [at |-> "closing", invite |-> i])
  /\ UNCHANGED <<ownedBy, invite, grant, noted>>

\* cancelCollectionAccessInvite, and the lapsed code of verifyCollectionAccessOtp.
LoadInvite(s, i) ==
  /\ handling[s] = Waiting
  /\ i \in OpenInvites
  /\ Proceed(s, [at |-> "closing", invite |-> i])
  /\ UNCHANGED <<ownedBy, invite, grant, noted>>

\* verifyCollectionAccessOtp: the link goes out.  Written to a row resolved in
\* the meantime it changes nothing.
ConfirmInvite(i) ==
  /\ i \in OpenInvites
  /\ invite' = [invite EXCEPT ![i].link = "mailed"]
  /\ UNCHANGED <<ownedBy, grant, handling, noted>>

-----------------------------------------------------------------------------
\* respondToCollectionAccess, by the invited person.  It does not ask who owns
\* the collections by now.

AnswerInvite(s, i) ==
  /\ handling[s] = Waiting
  /\ i \in OpenInvites
  /\ invite[i].link = "mailed"
  /\ \/ Proceed(s, [at |-> "closing", invite |-> i])
     \/ Proceed(s, [at |-> "granting", invite |-> i, unread |-> invite[i].items,
                 found |-> << >>, failed |-> FALSE])
  /\ UNCHANGED <<ownedBy, invite, grant, noted>>

\* Mutant: the look-up forgets .is("revoked_at", null).
LookUpAny(u, c) ==
  {g \in Grants : grant[g] # NoRow /\ grant[g].user = u /\ grant[g].collection = c}

\* Mutant: a row per invite, as before the merge was added.
LookUpNone(u, c) == {}

LookUp(u, c) == Active(u, c)

\* What an acceptance carries once it has looked for the grant of a collection.
Found(step, c, row, flags) ==
  [step EXCEPT !.unread = @ \ {c},
               !.found = [d \in DOMAIN @ \cup {c} |->
                            IF d = c THEN [row |-> row, flags |-> flags] ELSE @[d]]]

\* SELECT .. maybeSingle(): two rows are an error, and so is a failed query.
FindGrant(s, c) ==
  LET u == invite[handling[s].invite].to IN
  /\ handling[s].at = "granting" /\ c \in handling[s].unread
  /\ \/ /\ LookUp(u, c) = {}
        /\ Proceed(s, Found(handling[s], c, NoGrant, {}))
     \/ \E g \in LookUp(u, c) :
        /\ LookUp(u, c) = {g}
        /\ Proceed(s, Found(handling[s], c, g, grant[g].flags))
     \/ /\ (\E g, h \in LookUp(u, c) : g # h) \/ MayFail
        /\ Proceed(s, [handling[s] EXCEPT !.unread = @ \ {c}, !.failed = TRUE])
  /\ Note("grants", \E t \in OtherHandlers(s) : Granting(t, u, c))
  /\ UNCHANGED <<ownedBy, invite, grant>>

Written(s, c) ==
  /\ Proceed(s, [handling[s] EXCEPT !.found = [d \in DOMAIN @ \ {c} |-> @[d]]])
  /\ UNCHANGED <<ownedBy, invite, noted>>

\* The UPDATE writes what was read and what the invite adds.
Merged(row, flags, i) ==
  IF row.status = "revoked" THEN row
  ELSE [row EXCEPT !.flags = flags \cup invite[i].flags, !.invites = @ \cup {i}]

MergeGrant(s, c) ==
  LET i == handling[s].invite
      found == handling[s].found[c]
  IN
  /\ handling[s].at = "granting" /\ c \in DOMAIN handling[s].found
  /\ found.row # NoGrant
  /\ grant' = [grant EXCEPT ![found.row] = Merged(@, found.flags, i)]
  /\ Written(s, c)

InsertGrant(s, c, g) ==
  LET i == handling[s].invite IN
  /\ handling[s].at = "granting" /\ c \in DOMAIN handling[s].found
  /\ handling[s].found[c].row = NoGrant
  /\ grant[g] = NoRow /\ \A h \in Grants : h < g => grant[h] # NoRow
  /\ grant' = [grant EXCEPT ![g] = [status |-> "active", collection |-> c,
       user |-> invite[i].to, flags |-> invite[i].flags, invites |-> {i}]]
  /\ Written(s, c)

\* Some collections of this invite have been granted and it stays pending.
GrantedInPart(i) ==
  \E g \in Grants : grant[g].status = "active" /\ i \in grant[g].invites

\* An error of any collection is a 500; otherwise the invite is accepted, by id.
AcceptInvite(s) ==
  LET i == handling[s].invite IN
  /\ handling[s].at = "granting"
  /\ handling[s].unread = {} /\ DOMAIN handling[s].found = {}
  /\ IF handling[s].failed
     THEN Note("consent", GrantedInPart(i)) /\ UNCHANGED invite
     ELSE /\ Accept(i)
          /\ Note("consent", \E t \in OtherHandlers(s) :
                    handling[t].at = "closing" /\ handling[t].invite = i)
  /\ Proceed(s, Waiting)
  /\ UNCHANGED <<ownedBy, grant>>

-----------------------------------------------------------------------------
\* revokeCollectionAccess, by the present owner; a revoked grant is left alone.

LoadGrant(s, g) ==
  /\ handling[s] = Waiting
  /\ grant[g].status = "active"
  /\ Proceed(s, [at |-> "revoking", grant |-> g])
  /\ UNCHANGED <<ownedBy, invite, grant, noted>>

\* What a revoked row shows, or is given by a late merge, is of no more use.
Revoked(row) == [row EXCEPT !.status = "revoked", !.flags = {}, !.invites = {}]

RevokeGrant(s) ==
  LET g == handling[s].grant IN
  /\ handling[s].at = "revoking"
  /\ grant' = [grant EXCEPT ![g] = Revoked(@)]
  /\ Note("grants", \E t \in OtherHandlers(s) :
            Granting(t, grant[g].user, grant[g].collection))
  /\ Proceed(s, Waiting)
  /\ UNCHANGED <<ownedBy, invite>>

\* A transfer is accepted (collectionTransfer.js): grants and invites stay.
Transfer(c, u) ==
  /\ ownedBy[c] # u
  /\ ownedBy' = [ownedBy EXCEPT ![c] = u]
  /\ UNCHANGED <<invite, grant, handling, noted>>

StopShort(s) ==
  /\ MayFail
  /\ handling[s] # Waiting
  /\ Note("consent", handling[s].at = "granting" /\ GrantedInPart(handling[s].invite))
  /\ Proceed(s, Waiting)
  /\ UNCHANGED <<ownedBy, invite, grant>>

-----------------------------------------------------------------------------
InviteStep(s) ==
  \/ \E o \in Owners, u \in Invited, items \in ItemChoices,
        flags \in FlagChoices : RequestAccess(s, o, u, items, flags)
  \/ CloseInvite(s)
  \/ \E i \in Invites : InsertInvite(s, i) \/ LoadInvite(s, i) \/ AnswerInvite(s, i)

GrantStep(s) ==
  \/ \E c \in Shareable :
       \/ FindGrant(s, c) \/ MergeGrant(s, c)
       \/ \E g \in Grants : InsertGrant(s, c, g)
  \/ \E g \in Grants : LoadGrant(s, g)
  \/ AcceptInvite(s) \/ RevokeGrant(s)

AccessNext ==
  \/ \E s \in Handlers : InviteStep(s) \/ GrantStep(s) \/ StopShort(s)
  \/ \E i \in Invites : ConfirmInvite(i)
  \/ \E c \in Transferable, u \in Owners : Transfer(c, u)

AccessSpec == AccessInit /\ [][AccessNext]_accessVars

-----------------------------------------------------------------------------
\* Properties.

Flags == {"earnings", "contributors"}

InviteRows ==
  {NoRow} \cup
    [status : {"pending", "accepted", "closed"},
     from : Owners, to : Invited, items : ItemChoices,
     flags : FlagChoices, link : {"none", "mailed"}]

GrantRows ==
  {NoRow} \cup
    [status : {"active", "revoked"}, collection : Shareable, user : Invited,
     flags : SUBSET Flags, invites : SUBSET Invites]

\* The shape of the two tables; a grant names invites of its user that cover
\* its collection.
AccessTypeOK ==
  /\ ownedBy \in [Shareable -> Owners]
  /\ invite \in [Invites -> InviteRows]
  /\ grant \in [Grants -> GrantRows]
  /\ noted \subseteq {"consent", "grants"}
  /\ \A g \in Grants : grant[g] # NoRow =>
       \A i \in grant[g].invites : /\ invite[i].to = grant[g].user
                                   /\ grant[g].collection \in invite[i].items

\* "Merge into any existing active grant rather than blindly inserting a new
\* row": a person has one active grant for a collection, unless two of their
\* acceptances overlap.
OneActiveGrant ==
  "grants" \notin noted =>
    \A u \in Invited, c \in Shareable : \A g, h \in Active(u, c) : g = h

GrantTable == AccessTypeOK /\ OneActiveGrant

\* Nobody sees a collection on the strength of an invite that was cancelled,
\* declined or left to lapse: every flag of an active grant is of an invite
\* accepted, or being accepted: one that was closed while it was being accepted
\* ends accepted.  Closing it after that, on an earlier read, breaks this, and so
\* does an acceptance that stops half-way.
SharedWithConsent ==
  "consent" \notin noted =>
    \A g \in Grants : grant[g].status = "active" =>
      \A f \in grant[g].flags : \E i \in grant[g].invites :
        /\ f \in invite[i].flags
        /\ \/ invite[i].status = "accepted"
           \/ \E s \in Handlers : Redeeming(s, i)

\* Who is told an invite was accepted sees what it promised, whatever was
\* granted, merged or revoked before, unless another acceptance of theirs or a
\* revocation falls between its read and its write.
AcceptedMeansAccess ==
  [][\A i \in Invites :
       /\ invite[i].status # "accepted" /\ invite'[i].status = "accepted"
       /\ "grants" \notin noted
       => \A c \in invite[i].items :
            invite[i].flags \subseteq Sees(invite[i].to, c)]_accessVars
=============================================================================
