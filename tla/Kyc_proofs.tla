------------------------------ MODULE Kyc_proofs ------------------------------
(***************************************************************************)
(* For any document types, flags, bounds and number of handlers in flight, *)
(* up to the slips the model records: an account that is verified has all  *)
(* the flags it needs once nobody is settling them, and a flag set through *)
(* documents is that of documents which are still there and none of which  *)
(* was rejected.                                                           *)
(***************************************************************************)
EXTENDS Kyc, TLAPS

KycRow == [status : Statuses, flags : SUBSET Needed]
Document == [type : Uploaded, status : {"pending", "verified", "rejected"}]

\* What a handler carries along.
Proper(step) ==
  /\ step.at \in {"marking", "inserting"} =>
       step \in [at : {"marking", "inserting"}, type : Uploaded, read : KycRow]
  /\ step.at = "storing" => step \in [at : {"storing"}, doc : Docs, read : KycRow]
  /\ step.at = "restoring" => step \in [at : {"restoring"}, read : KycRow]
  /\ step.at = "nin" => step \in [at : {"nin"}, was : {"none", "not_started"}]
  /\ step.at = "deciding" =>
       step \in [at : {"deciding"}, doc : Docs, verdict : {"verified", "rejected"}]
  /\ step.at = "counting" => step \in [at : {"counting"}, type : Uploaded]
  /\ step.at = "flagging" => step \in [at : {"flagging"}, type : Uploaded, all : BOOLEAN]
  /\ step.at = "writing" =>
       step \in [at : {"writing"}, read : KycRow] /\ step.read.status # "none"

Carried ==
  /\ work = [s \in Sessions |-> work[s]]
  /\ \A s \in Sessions : Proper(work[s])

\* A user without a row has no flags.
NoRowNoFlags == kyc.status = "none" => kyc.flags = {}

\* A row read while nothing was settling is backed, and so may be written back.
Uploading(step) == step.at \in {"marking", "inserting", "storing", "restoring"}
Sound(row) == row.status = "verified" => Needed \subseteq row.flags

Backed ==
  "status" \notin slips =>
    /\ ~Settling => Sound(kyc)
    /\ \A s \in Sessions : Uploading(work[s]) => Sound(work[s].read)

\* What the documents of a type have to say for its flag.
Supported(t) ==
  /\ \E d \in OfType(t) : doc[d].status = "verified"
  /\ \A d \in OfType(t) : doc[d].status # "rejected"

FlaggedBy(step, t) == step.at \in {"counting", "flagging"} /\ step.type = t

\* The document a decision was on does not go away before the flag is set, and
\* what was counted still stands unless somebody else has decided since.
Followed ==
  "flag" \notin slips =>
    /\ \A t \in (kyc.flags \cap DocTypes) \ byHand : Flagging(t) \/ Supported(t)
    /\ \A s \in Sessions : work[s].at = "counting" => OfType(work[s].type) # {}
    /\ \A s \in Sessions : work[s].at = "flagging" /\ work[s].all =>
         \/ Supported(work[s].type)
         \/ \E r \in Sessions \ {s} : FlaggedBy(work[r], work[s].type)

KycInv == TypeOK /\ NoRowNoFlags /\ Carried /\ Backed /\ Followed

-----------------------------------------------------------------------------
(* What a step leaves alone.                                               *)

\* Only the handler that moves is somewhere else.
LEMMA OneMoves ==
  ASSUME Carried, NEW s \in Sessions, NEW step, Goto(s, step), Proper(step)
  PROVE  /\ Carried' /\ work'[s] = step
         /\ \A r \in Sessions \ {s} : work'[r] = work[r]
<1>1. work' = [r \in Sessions |-> IF r = s THEN step ELSE work[r]]
  BY DEF Goto, Carried
<1>2. work' = [r \in Sessions |-> work'[r]]
  BY <1>1
<1>3. \A r \in Sessions : Proper(work'[r])
  BY <1>1 DEF Carried
<1>4. QED BY <1>1, <1>2, <1>3 DEF Carried, Proper, KycRow, Docs

LEMMA BackedKept ==
  ASSUME Backed, UNCHANGED kyc, slips \subseteq slips',
         ~Settling' => ~Settling,
         \A r \in Sessions : Uploading(work'[r]) =>
           Uploading(work[r]) /\ work'[r].read = work[r].read
  PROVE  Backed'
BY DEF Backed, Uploading, Sound

\* A step that is no part of a decision, and leaves what supports the flags alone.
Deciding(step) == step.at \in {"counting", "flagging"}

LEMMA SupportKept ==
  ASSUME Followed, slips \subseteq slips',
         "flag" \notin slips' => \A t :
           /\ Supported(t) => Supported(t)'
           /\ Flagging(t) /\ OfType(t) # {} => OfType(t)' # {},
         (kyc'.flags \cap DocTypes) \ byHand' \subseteq (kyc.flags \cap DocTypes) \ byHand,
         \A r \in Sessions : Deciding(work'[r]) => work'[r] = work[r],
         "flag" \notin slips' => \A r \in Sessions : Deciding(work[r]) => work'[r] = work[r]
  PROVE  Followed'
<1> SUFFICES ASSUME "flag" \notin slips'
             PROVE  Followed'
  BY DEF Followed
<1>1. \A r \in Sessions : Deciding(work[r]) \/ Deciding(work'[r]) => work'[r] = work[r]
  OBVIOUS
<1>2. \A t : (Flagging(t) => Flagging(t)') /\ (Supported(t) => Supported(t)')
  BY <1>1 DEF Flagging, Deciding
<1>3. \A t \in (kyc'.flags \cap DocTypes) \ byHand' : Flagging(t)' \/ Supported(t)'
  BY <1>2 DEF Followed
<1>4. \A r \in Sessions : work'[r].at = "counting" => OfType(work[r].type)' # {}
  BY <1>1 DEF Followed, Deciding, Flagging
<1>5. ASSUME NEW r \in Sessions, work'[r].at = "flagging", work'[r].all
      PROVE  (\/ Supported(work[r].type)
              \/ \E q \in Sessions \ {r} : FlaggedBy(work[q], work[r].type))'
  <2> PICK t : t = work[r].type
    OBVIOUS
  <2>1. work'[r] = work[r]
    BY <1>1, <1>5 DEF Deciding
  <2>2. \/ Supported(t)
        \/ \E q \in Sessions \ {r} : FlaggedBy(work[q], t)
    BY <1>5, <2>1 DEF Followed
  <2>3. \A q \in Sessions : FlaggedBy(work[q], t) => FlaggedBy(work'[q], t)
    BY <1>1 DEF FlaggedBy, Deciding
  <2>4. \/ Supported(t)'
        \/ \E q \in Sessions \ {r} : FlaggedBy(work'[q], t)
    BY <1>2, <2>2, <2>3
  <2>5. t = work'[r].type
    BY <2>1
  <2>6. CASE Supported(t)'
    BY <2>5, <2>6 DEF Supported, OfType
  <2>7. CASE \E q \in Sessions \ {r} : FlaggedBy(work'[q], t)
    BY <2>5, <2>7 DEF FlaggedBy
  <2>8. QED BY <2>4, <2>6, <2>7
<1>6. QED BY <1>3, <1>4, <1>5 DEF Followed, FlaggedBy

LEMMA FollowedKept ==
  ASSUME Followed, UNCHANGED doc, slips \subseteq slips',
         (kyc'.flags \cap DocTypes) \ byHand' \subseteq (kyc.flags \cap DocTypes) \ byHand,
         \A r \in Sessions : Deciding(work'[r]) => work'[r] = work[r],
         "flag" \notin slips' => \A r \in Sessions : Deciding(work[r]) => work'[r] = work[r]
  PROVE  Followed'
<1>1. \A t : OfType(t)' = OfType(t) /\ Supported(t)' = Supported(t)
  BY DEF OfType, Supported
<1>2. QED BY <1>1, SupportKept

-----------------------------------------------------------------------------
(* The handlers of the user.                                               *)

LEMMA StartUploadKeeps ==
  ASSUME KycInv, NEW s \in Sessions, NEW t \in Uploaded, StartUpload(s, t)
  PROVE  KycInv'
<1> PICK step : step = [at |-> "marking", type |-> t, read |-> kyc]
  OBVIOUS
<1>1. Proper(step)
  BY DEF Proper, KycInv, TypeOK, KycRow
<1>2. Carried' /\ work'[s] = step /\ \A r \in Sessions \ {s} : work'[r] = work[r]
  BY <1>1, OneMoves DEF KycInv, StartUpload
<1>3. work[s].at = "idle" /\ step.at = "marking"
  BY DEF StartUpload, Idle
<1>4. TypeOK' /\ NoRowNoFlags'
  BY DEF KycInv, TypeOK, NoRowNoFlags, StartUpload, Slip
<1>5. Backed'
  <2>1. Settling' = Settling
    BY <1>2, <1>3 DEF Settling
  <2>2. "status" \notin slips' => ~Settling /\ "status" \notin slips
    BY DEF StartUpload, Slip
  <2>3. work'[s].read = kyc
    BY <1>2
  <2>4. QED BY <1>2, <2>1, <2>2, <2>3 DEF KycInv, Backed, StartUpload, Sound, Uploading
<1>6. Followed'
  BY <1>2, <1>3, FollowedKept DEF KycInv, StartUpload, Slip, Deciding
<1>7. QED BY <1>2, <1>4, <1>5, <1>6 DEF KycInv

LEMMA MarkPendingKeeps ==
  ASSUME KycInv, NEW s \in Sessions, MarkPending(s)
  PROVE  KycInv'
<1> PICK old : old = work[s]
  OBVIOUS
<1>0. old.at = "marking" /\ old \in [at : {"marking", "inserting"}, type : Uploaded, read : KycRow]
  BY DEF KycInv, Carried, Proper, MarkPending
<1>1. UNCHANGED <<doc, byHand, slips>>
  BY DEF MarkPending
<1>2. CASE kyc' = [kyc EXCEPT !.status = "pending"] /\ Goto(s, [old EXCEPT !.at = "inserting"])
  <2> PICK step : step = [old EXCEPT !.at = "inserting"]
    OBVIOUS
  <2>1. step.at = "inserting" /\ step.read = old.read /\ Proper(step)
    BY <1>0 DEF Proper
  <2>2. Carried' /\ work'[s] = step /\ \A r \in Sessions \ {s} : work'[r] = work[r]
    BY <1>2, <2>1, OneMoves DEF KycInv
  <2>3. kyc' \in KycRow /\ kyc'.status = "pending" /\ kyc'.flags = kyc.flags
    BY <1>2 DEF KycInv, TypeOK, KycRow, Statuses
  <2>4. TypeOK' /\ NoRowNoFlags'
    BY <1>1, <2>3 DEF KycInv, TypeOK, NoRowNoFlags, KycRow
  <2>5. Backed'
    BY <1>0, <1>1, <2>1, <2>2, <2>3 DEF KycInv, Backed, Sound, Uploading
  <2>6. Followed'
    BY <1>0, <1>1, <2>1, <2>2, <2>3, FollowedKept DEF KycInv, Deciding
  <2>7. QED BY <2>2, <2>4, <2>5, <2>6 DEF KycInv
<1>3. CASE /\ UNCHANGED kyc
           /\ \/ Goto(s, Idle)
              \/ Goto(s, [at |-> "restoring", read |-> old.read])
  <2> PICK step : /\ step = Idle \/ step = [at |-> "restoring", read |-> old.read]
                  /\ Goto(s, step)
    BY <1>3
  <2>1. /\ step.at \in {"idle", "restoring"} /\ Proper(step)
        /\ step.at = "restoring" => step.read = old.read
    BY <1>0 DEF Proper, Idle
  <2>2. Carried' /\ work'[s] = step /\ \A r \in Sessions \ {s} : work'[r] = work[r]
    BY <2>1, OneMoves DEF KycInv
  <2>3. TypeOK' /\ NoRowNoFlags'
    BY <1>1, <1>3 DEF KycInv, TypeOK, NoRowNoFlags
  <2>4. Settling' = Settling
    BY <1>0, <2>1, <2>2 DEF Settling
  <2>5. Backed'
    BY <1>0, <1>1, <1>3, <2>1, <2>2, <2>4, BackedKept DEF KycInv, Uploading
  <2>6. Followed'
    BY <1>0, <1>1, <1>3, <2>1, <2>2, FollowedKept DEF KycInv, Deciding
  <2>7. QED BY <2>2, <2>3, <2>5, <2>6 DEF KycInv
<1>4. QED BY <1>2, <1>3 DEF MarkPending

\* A new document is pending: it speaks neither for nor against the flag.
LEMMA InsertDocumentKeeps ==
  ASSUME KycInv, NEW s \in Sessions, NEW d \in Docs, InsertDocument(s, d)
  PROVE  KycInv'
<1> PICK old : old = work[s]
  OBVIOUS
<1>0. old.at = "inserting" /\ old \in [at : {"marking", "inserting"}, type : Uploaded, read : KycRow]
  BY DEF KycInv, Carried, Proper, InsertDocument
<1>1. UNCHANGED <<kyc, byHand, slips>> /\ doc[d] = NoRow
  BY DEF InsertDocument
<1> PICK step : /\ \/ step = [at |-> "storing", doc |-> d, read |-> old.read]
                   \/ step = [at |-> "restoring", read |-> old.read]
                /\ Goto(s, step)
  BY DEF InsertDocument
<1>2. step.at \in {"storing", "restoring"} /\ step.read = old.read /\ Proper(step)
  BY <1>0 DEF Proper
<1>3. Carried' /\ work'[s] = step /\ \A r \in Sessions \ {s} : work'[r] = work[r]
  BY <1>2, OneMoves DEF KycInv
<1>4. doc' = doc \/ doc' = [doc EXCEPT ![d] = [type |-> old.type, status |-> "pending"]]
  BY DEF InsertDocument
<1>5. TypeOK' /\ NoRowNoFlags'
  BY <1>0, <1>1, <1>4 DEF KycInv, TypeOK, NoRowNoFlags
<1>6. Settling' = Settling
  BY <1>0, <1>2, <1>3 DEF Settling
<1>7. Backed'
  BY <1>0, <1>1, <1>2, <1>3, <1>6, BackedKept DEF KycInv, Uploading
<1>8. Followed'
  <2>1. CASE doc' = doc
    BY <1>0, <1>1, <1>2, <1>3, <2>1, FollowedKept DEF KycInv, Deciding
  <2>2. CASE doc' = [doc EXCEPT ![d] = [type |-> old.type, status |-> "pending"]]
    <3>1. /\ \A e \in Docs \ {d} : doc'[e] = doc[e]
          /\ doc'[d].status = "pending"
      BY <2>2 DEF KycInv, TypeOK
    <3>2. \A t : OfType(t) \subseteq OfType(t)' /\ d \notin OfType(t)
      BY <1>1, <3>1 DEF OfType
    <3>3. \A t : OfType(t)' \subseteq OfType(t) \cup {d}
      BY <3>1 DEF OfType
    <3>4. \A t : Supported(t) => Supported(t)'
      BY <3>1, <3>2, <3>3 DEF Supported, OfType
    <3>5. \A r \in Sessions : Deciding(work[r]) \/ Deciding(work'[r]) => work'[r] = work[r]
      BY <1>0, <1>2, <1>3 DEF Deciding
    <3>6. QED BY <1>1, <3>2, <3>4, <3>5, SupportKept DEF KycInv
  <2>3. QED BY <1>4, <2>1, <2>2
<1>9. QED BY <1>3, <1>5, <1>7, <1>8 DEF KycInv

LEMMA StoreFilesKeeps ==
  ASSUME KycInv, NEW s \in Sessions, StoreFiles(s)
  PROVE  KycInv'
<1>1. UNCHANGED <<kyc, doc, byHand, slips>> /\ work[s].at = "storing"
  BY DEF StoreFiles
<1>2. Proper(Idle) /\ Idle.at = "idle"
  BY DEF Proper, Idle
<1>3. Carried' /\ work'[s] = Idle /\ \A r \in Sessions \ {s} : work'[r] = work[r]
  BY <1>2, OneMoves DEF KycInv, StoreFiles
<1>4. Settling' = Settling
  BY <1>1, <1>2, <1>3 DEF Settling
<1>5. Backed'
  BY <1>1, <1>2, <1>3, <1>4, BackedKept DEF KycInv, Uploading
<1>6. Followed'
  BY <1>1, <1>2, <1>3, FollowedKept DEF KycInv, Deciding
<1>7. QED BY <1>1, <1>3, <1>5, <1>6 DEF KycInv, TypeOK, NoRowNoFlags

\* Only a document that is pending, and of a type nobody is flagging, goes unnoticed.
LEMMA DropDocumentKeeps ==
  ASSUME KycInv, NEW s \in Sessions, DropDocument(s)
  PROVE  KycInv'
<1> PICK old : old = work[s]
  OBVIOUS
<1> PICK d : d = old.doc
  OBVIOUS
<1>0. old.at = "storing" /\ old \in [at : {"storing"}, doc : Docs, read : KycRow]
  BY DEF KycInv, Carried, Proper, DropDocument
<1>1. UNCHANGED <<kyc, byHand>> /\ d \in Docs
  BY <1>0 DEF DropDocument
<1> PICK step : step = [at |-> "restoring", read |-> old.read]
  OBVIOUS
<1>2. step.at = "restoring" /\ step.read = old.read /\ Proper(step)
  BY <1>0 DEF Proper
<1>3. Carried' /\ work'[s] = step /\ \A r \in Sessions \ {s} : work'[r] = work[r]
  BY <1>2, OneMoves DEF KycInv, DropDocument
<1>4. slips \subseteq slips' /\ slips' \subseteq slips \cup {"flag"}
  BY DEF DropDocument, Slip
<1>5. TypeOK' /\ NoRowNoFlags'
  <2>1. (\A e \in Docs \ {d} : doc'[e] = doc[e]) /\ doc'[d] \in {doc[d], NoRow}
    BY <1>0 DEF KycInv, TypeOK, DropDocument
  <2>2. doc' \in [Docs -> {NoRow} \cup
                    [type : Uploaded, status : {"pending", "verified", "rejected"}]]
    BY <1>0, <2>1 DEF KycInv, TypeOK, DropDocument
  <2>3. QED BY <1>1, <1>4, <2>2 DEF KycInv, TypeOK, NoRowNoFlags
<1>6. Settling' = Settling
  BY <1>0, <1>2, <1>3 DEF Settling
<1>7. Backed'
  BY <1>0, <1>1, <1>2, <1>3, <1>4, <1>6, BackedKept DEF KycInv, Uploading
<1>8. ASSUME "flag" \notin slips', NEW t
      PROVE  /\ Supported(t) => Supported(t)'
             /\ Flagging(t) /\ OfType(t) # {} => OfType(t)' # {}
  <2>1. CASE UNCHANGED doc
    BY <2>1 DEF Supported, OfType
  <2>2. CASE doc' # doc
    <3>1. doc' = [doc EXCEPT ![d] = NoRow] /\ doc[d].status = "pending"
          /\ ~Flagging(doc[d].type)
      BY <1>8, <2>2 DEF DropDocument, Slip
    <3>2. \A e \in Docs \ {d} : doc'[e] = doc[e]
      BY <3>1 DEF KycInv, TypeOK
    <3>3. doc'[d] = NoRow
      BY <1>1, <3>1 DEF KycInv, TypeOK
    <3>4. OfType(t) \ {d} = OfType(t)'
      BY <3>2, <3>3 DEF OfType
    <3>5. Supported(t) => Supported(t)'
      BY <3>1, <3>2, <3>4 DEF Supported, OfType
    <3>6. Flagging(t) /\ OfType(t) # {} => OfType(t)' # {}
      BY <3>1, <3>4 DEF OfType
    <3>7. QED BY <3>5, <3>6
  <2>3. QED BY <2>1, <2>2
<1>9. Followed'
  BY <1>0, <1>1, <1>2, <1>3, <1>4, <1>8, SupportKept DEF KycInv, Deciding
<1>10. QED BY <1>3, <1>5, <1>7, <1>9 DEF KycInv

\* The row written back is the one read before anybody was settling it.
LEMMA RestoreStatusKeeps ==
  ASSUME KycInv, NEW s \in Sessions, RestoreStatus(s)
  PROVE  KycInv'
<1> PICK old : old = work[s]
  OBVIOUS
<1>0. /\ old.at = "restoring" /\ old.read \in KycRow
      /\ old.read.status # "none" =>
           kyc' = [kyc EXCEPT !.status = IF HasRow THEN old.read.status ELSE @]
      /\ old.read.status = "none" => kyc' \in {NoKyc, kyc}
  BY DEF KycInv, Carried, Proper, RestoreStatus, SetStatus
<1>1. UNCHANGED <<doc, byHand>>
  BY DEF RestoreStatus
<1>2. Proper(Idle) /\ Idle.at = "idle"
  BY DEF Proper, Idle
<1>3. Carried' /\ work'[s] = Idle /\ \A r \in Sessions \ {s} : work'[r] = work[r]
  BY <1>2, OneMoves DEF KycInv, RestoreStatus
<1>4. slips \subseteq slips' /\ slips' \subseteq slips \cup {"status"}
  BY DEF RestoreStatus, Slip
<1>5. kyc' \in KycRow /\ (kyc'.flags = {} \/ kyc'.flags = kyc.flags)
  BY <1>0 DEF KycInv, TypeOK, KycRow, NoKyc, Statuses
<1>6. TypeOK'
  BY <1>1, <1>4, <1>5 DEF KycInv, TypeOK, KycRow
<1>7. NoRowNoFlags'
  BY <1>0 DEF KycInv, TypeOK, KycRow, NoRowNoFlags, NoKyc, HasRow
<1>8. Settling' = Settling
  BY <1>0, <1>2, <1>3 DEF Settling
<1>9. Backed'
  <2>1. ASSUME "status" \notin slips', ~Settling
        PROVE  Sound(kyc')
    <3>1. Sound(kyc) /\ Sound(old.read)
      BY <1>0, <1>4, <2>1 DEF KycInv, Backed, Uploading
    <3>2. kyc.flags = old.read.flags
      BY <2>1 DEF RestoreStatus, Slip, KycInv, TypeOK, KycRow
    <3>3. CASE old.read.status # "none"
      BY <1>0, <3>1, <3>2, <3>3 DEF Sound, KycInv, TypeOK, KycRow
    <3>4. CASE old.read.status = "none"
      BY <1>0, <3>1, <3>4 DEF Sound, NoKyc
    <3>5. QED BY <3>3, <3>4
  <2>2. QED BY <1>2, <1>3, <1>4, <1>8, <2>1 DEF KycInv, Backed, Uploading, Sound
<1>10. Followed'
  BY <1>0, <1>1, <1>2, <1>3, <1>4, <1>5, FollowedKept DEF KycInv, Deciding
<1>11. QED BY <1>3, <1>6, <1>7, <1>9, <1>10 DEF KycInv

LEMMA ReadForNinKeeps ==
  ASSUME KycInv, NEW s \in Sessions, ReadForNin(s)
  PROVE  KycInv'
<1> PICK step : step = [at |-> "nin", was |-> kyc.status]
  OBVIOUS
<1>1. UNCHANGED <<kyc, doc, byHand, slips>> /\ work[s].at = "idle"
  BY DEF ReadForNin, Idle
<1>2. Proper(step) /\ step.at = "nin"
  BY DEF Proper, ReadForNin
<1>3. Carried' /\ work'[s] = step /\ \A r \in Sessions \ {s} : work'[r] = work[r]
  BY <1>2, OneMoves DEF KycInv, ReadForNin
<1>4. Settling' = Settling
  BY <1>1, <1>2, <1>3 DEF Settling
<1>5. Backed'
  BY <1>1, <1>2, <1>3, <1>4, BackedKept DEF KycInv, Uploading
<1>6. Followed'
  BY <1>1, <1>2, <1>3, FollowedKept DEF KycInv, Deciding
<1>7. QED BY <1>1, <1>3, <1>5, <1>6 DEF KycInv, TypeOK, NoRowNoFlags

LEMMA WriteForNinKeeps ==
  ASSUME KycInv, NEW s \in Sessions, WriteForNin(s)
  PROVE  KycInv'
<1>1. UNCHANGED <<doc, byHand, slips>> /\ work[s].at = "nin"
  BY DEF WriteForNin
<1>2. Proper(Idle) /\ Idle.at = "idle"
  BY DEF Proper, Idle
<1>3. Carried' /\ work'[s] = Idle /\ \A r \in Sessions \ {s} : work'[r] = work[r]
  BY <1>2, OneMoves DEF KycInv, WriteForNin
<1>4. /\ kyc' \in KycRow /\ kyc'.flags = kyc.flags
      /\ kyc' = kyc \/ kyc'.status = "pending"
  BY DEF WriteForNin, KycInv, TypeOK, KycRow, Statuses
<1>5. Settling' = Settling
  BY <1>1, <1>2, <1>3 DEF Settling
<1>6. Backed'
  BY <1>1, <1>2, <1>3, <1>4, <1>5 DEF KycInv, Backed, Uploading, Sound
<1>7. Followed'
  BY <1>1, <1>2, <1>3, <1>4, FollowedKept DEF KycInv, Deciding
<1>8. TypeOK' /\ NoRowNoFlags'
  BY <1>1, <1>4 DEF KycInv, TypeOK, KycRow, NoRowNoFlags
<1>9. QED BY <1>3, <1>6, <1>7, <1>8 DEF KycInv

LEMMA VerifyNinKeeps ==
  ASSUME KycInv, VerifyNin
  PROVE  KycInv'
<1>1. UNCHANGED <<doc, work, byHand, slips>> /\ HasRow
  BY DEF VerifyNin
<1>2. /\ kyc' \in KycRow /\ kyc'.status = kyc.status
      /\ kyc'.flags = kyc.flags \cup {"nin"}
  BY <1>1, KycAssumption DEF VerifyNin, SetFlags, KycInv, TypeOK, KycRow
<1>3. TypeOK' /\ NoRowNoFlags'
  BY <1>1, <1>2 DEF KycInv, TypeOK, KycRow, NoRowNoFlags, HasRow
<1>4. Carried'
  BY <1>1 DEF KycInv, Carried
<1>5. Backed'
  BY <1>1, <1>2 DEF KycInv, Backed, Uploading, Sound, Settling
<1>6. Followed'
  BY <1>1, <1>2, FollowedKept, KycAssumption DEF KycInv, Deciding
<1>7. QED BY <1>3, <1>4, <1>5, <1>6 DEF KycInv

-----------------------------------------------------------------------------
(* The handlers of the admins.                                             *)

\* The parts of Followed after a step, type by type.
LEMMA FollowedAfter ==
  ASSUME \A u \in (kyc'.flags \cap DocTypes) \ byHand' : Flagging(u)' \/ Supported(u)',
         \A r \in Sessions : \A u :
           work'[r].at = "counting" /\ work'[r].type = u => OfType(u)' # {},
         \A r \in Sessions : \A u :
           work'[r].at = "flagging" /\ work'[r].all /\ work'[r].type = u =>
             Supported(u)' \/ \E q \in Sessions \ {r} : FlaggedBy(work'[q], u)
  PROVE  Followed'
<1>1. \A r \in Sessions : (work[r].at = "counting" => OfType(work[r].type) # {})'
  BY DEF OfType
<1>2. ASSUME NEW r \in Sessions, work'[r].at = "flagging", work'[r].all
      PROVE  (\/ Supported(work[r].type)
              \/ \E q \in Sessions \ {r} : FlaggedBy(work[q], work[r].type))'
  <2> PICK u : u = work'[r].type
    OBVIOUS
  <2>1. CASE Supported(u)'
    BY <2>1 DEF Supported, OfType
  <2>2. CASE \E q \in Sessions \ {r} : FlaggedBy(work'[q], u)
    BY <2>2 DEF FlaggedBy
  <2>3. QED BY <1>2, <2>1, <2>2
<1>3. QED BY <1>1, <1>2 DEF Followed

LEMMA ReadDocumentKeeps ==
  ASSUME KycInv, NEW s \in Sessions, NEW d \in Docs,
         NEW verdict \in {"verified", "rejected"}, ReadDocument(s, d, verdict)
  PROVE  KycInv'
<1> PICK step : step = [at |-> "deciding", doc |-> d, verdict |-> verdict]
  OBVIOUS
<1>1. UNCHANGED <<kyc, doc, byHand, slips>> /\ work[s].at = "idle"
  BY DEF ReadDocument, Idle
<1>2. Proper(step) /\ step.at = "deciding"
  BY DEF Proper
<1>3. Carried' /\ work'[s] = step /\ \A r \in Sessions \ {s} : work'[r] = work[r]
  BY <1>2, OneMoves DEF KycInv, ReadDocument
<1>4. Settling' = Settling
  BY <1>1, <1>2, <1>3 DEF Settling
<1>5. Backed'
  BY <1>1, <1>2, <1>3, <1>4, BackedKept DEF KycInv, Uploading
<1>6. Followed'
  BY <1>1, <1>2, <1>3, FollowedKept DEF KycInv, Deciding
<1>7. QED BY <1>1, <1>3, <1>5, <1>6 DEF KycInv, TypeOK, NoRowNoFlags

\* From the decision on, somebody is flagging the type.
LEMMA DecideDocumentKeeps ==
  ASSUME KycInv, NEW s \in Sessions, DecideDocument(s)
  PROVE  KycInv'
<1> PICK old : old = work[s]
  OBVIOUS
<1> PICK d : d = old.doc
  OBVIOUS
<1>0. /\ old.at = "deciding"
      /\ old \in [at : {"deciding"}, doc : Docs, verdict : {"verified", "rejected"}]
      /\ d \in Docs
  BY DEF KycInv, Carried, Proper, DecideDocument
<1>1. UNCHANGED <<kyc, byHand, slips>>
  BY DEF DecideDocument
<1>2. CASE doc[d] = NoRow
  <2>1. UNCHANGED doc /\ Goto(s, Idle)
    BY <1>2 DEF DecideDocument
  <2>2. Proper(Idle) /\ Idle.at = "idle"
    BY DEF Proper, Idle
  <2>3. Carried' /\ work'[s] = Idle /\ \A r \in Sessions \ {s} : work'[r] = work[r]
    BY <2>1, <2>2, OneMoves DEF KycInv
  <2>4. Settling' = Settling
    BY <1>0, <2>2, <2>3 DEF Settling
  <2>5. Backed'
    BY <1>0, <1>1, <2>2, <2>3, <2>4, BackedKept DEF KycInv, Uploading
  <2>6. Followed'
    BY <1>0, <1>1, <2>1, <2>2, <2>3, FollowedKept DEF KycInv, Deciding
  <2>7. QED BY <1>1, <2>1, <2>3, <2>5, <2>6 DEF KycInv, TypeOK, NoRowNoFlags
<1>3. CASE doc[d] # NoRow
  <2> PICK t : t = doc[d].type
    OBVIOUS
  <2> PICK step : step = [at |-> "counting", type |-> t]
    OBVIOUS
  <2>1. doc[d] \in Document /\ t \in Uploaded
    BY <1>0, <1>3 DEF KycInv, TypeOK, Document
  <2>2. doc' = [doc EXCEPT ![d].status = old.verdict] /\ Goto(s, step)
    BY <1>3 DEF DecideDocument
  <2>3. Proper(step) /\ step.at = "counting" /\ step.type = t
    BY <2>1 DEF Proper
  <2>4. Carried' /\ work'[s] = step /\ \A r \in Sessions \ {s} : work'[r] = work[r]
    BY <2>2, <2>3, OneMoves DEF KycInv
  <2>5. doc'[d] \in Document /\ doc'[d].type = t
    BY <1>0, <2>1, <2>2 DEF KycInv, TypeOK, Document
  <2>6. \A e \in Docs \ {d} : doc'[e] = doc[e]
    BY <2>2 DEF KycInv, TypeOK
  <2>7. doc' \in [Docs -> {NoRow} \cup Document]
    <3>1. doc' = [e \in Docs |-> doc'[e]]
      BY <2>2 DEF KycInv, TypeOK
    <3>2. \A e \in Docs : doc'[e] \in {NoRow} \cup Document
      BY <2>5, <2>6 DEF KycInv, TypeOK, Document
    <3>3. QED BY <3>1, <3>2
  <2>8. TypeOK' /\ NoRowNoFlags'
    BY <1>1, <2>7 DEF KycInv, TypeOK, NoRowNoFlags, Document
  <2>9. Settling' = Settling
    BY <1>0, <2>3, <2>4 DEF Settling
  <2>10. Backed'
    BY <1>0, <1>1, <2>3, <2>4, <2>9, BackedKept DEF KycInv, Uploading
  <2>11. Followed'
    <3> SUFFICES ASSUME "flag" \notin slips
                 PROVE  Followed'
      BY <1>1 DEF Followed
    <3>1. doc'[d] # NoRow
      BY <2>5 DEF Document, NoRow
    <3>2. \A u : OfType(u)' = OfType(u)
      BY <1>3, <2>1, <2>5, <2>6, <3>1 DEF OfType
    <3>3. d \in OfType(t)'
      BY <1>0, <2>5, <3>1 DEF OfType
    <3>4. ASSUME NEW u, u # t
          PROVE  Supported(u) => Supported(u)'
      <4>1. d \notin OfType(u)
        BY <3>4 DEF OfType
      <4>2. QED BY <2>6, <3>2, <4>1 DEF Supported, OfType
    <3>5. FlaggedBy(work'[s], t)
      BY <2>3, <2>4 DEF FlaggedBy
    <3>6. \A r \in Sessions : \A u : FlaggedBy(work[r], u) => FlaggedBy(work'[r], u)
      BY <1>0, <2>4 DEF FlaggedBy
    <3>7. \A u \in (kyc'.flags \cap DocTypes) \ byHand' : Flagging(u)' \/ Supported(u)'
      <4>1. Flagging(t)'
        BY <3>5 DEF Flagging, FlaggedBy
      <4>2. \A u : Flagging(u) => Flagging(u)'
        BY <3>6 DEF Flagging, FlaggedBy
      <4>3. QED BY <1>1, <3>4, <4>1, <4>2 DEF KycInv, Followed
    <3>8. ASSUME NEW r \in Sessions, NEW u, work'[r].at = "counting", work'[r].type = u
          PROVE  OfType(u)' # {}
      <4>1. CASE r = s
        BY <2>3, <2>4, <3>3, <3>8, <4>1
      <4>2. CASE r # s
        BY <2>4, <3>2, <3>8, <4>2 DEF KycInv, Followed
      <4>3. QED BY <4>1, <4>2
    <3>9. ASSUME NEW r \in Sessions, NEW u,
                 work'[r].at = "flagging", work'[r].all, work'[r].type = u
          PROVE  Supported(u)' \/ \E q \in Sessions \ {r} : FlaggedBy(work'[q], u)
      <4>1. r # s /\ work[r] = work'[r]
        BY <2>3, <2>4, <3>9
      <4>2. CASE u = t
        BY <3>5, <4>1, <4>2
      <4>3. CASE u # t
        <5>1. \/ Supported(u)
              \/ \E q \in Sessions \ {r} : FlaggedBy(work[q], u)
          BY <3>9, <4>1 DEF KycInv, Followed
        <5>2. QED BY <3>4, <3>6, <4>3, <5>1
      <4>4. QED BY <4>2, <4>3
    <3>10. QED BY <3>7, <3>8, <3>9, FollowedAfter
  <2>12. QED BY <2>4, <2>8, <2>10, <2>11 DEF KycInv
<1>4. QED BY <1>2, <1>3

\* What was counted supports the flag; the handler goes on flagging the type.
LEMMA CountDocumentsKeeps ==
  ASSUME KycInv, NEW s \in Sessions, CountDocuments(s)
  PROVE  KycInv'
<1> PICK old : old = work[s]
  OBVIOUS
<1> PICK t : t = old.type
  OBVIOUS
<1>0. old.at = "counting" /\ old.type = t /\ t \in Uploaded
  BY DEF KycInv, Carried, Proper, CountDocuments
<1>1. UNCHANGED <<kyc, doc, byHand, slips>>
  BY DEF CountDocuments
<1> PICK step : /\ step = IF OfType(t) = {} THEN Idle
                          ELSE [at |-> "flagging", type |-> t, all |-> AllVerified(t)]
                /\ Goto(s, step)
  BY DEF CountDocuments
<1>2. /\ OfType(t) = {} => step = Idle
      /\ OfType(t) # {} => FlaggedBy(step, t) /\ step.at = "flagging"
                           /\ (step.all <=> AllVerified(t))
  BY DEF FlaggedBy
<1>3. Proper(step) /\ step.at \in {"idle", "flagging"}
  BY <1>0 DEF Proper, Idle, AllVerified
<1>4. Carried' /\ work'[s] = step /\ \A r \in Sessions \ {s} : work'[r] = work[r]
  BY <1>3, OneMoves DEF KycInv
<1>5. TypeOK' /\ NoRowNoFlags'
  BY <1>1 DEF KycInv, TypeOK, NoRowNoFlags
<1>6. Settling' = Settling
  BY <1>0, <1>3, <1>4 DEF Settling
<1>7. Backed'
  BY <1>0, <1>1, <1>3, <1>4, <1>6, BackedKept DEF KycInv, Uploading
<1>8. Followed'
  <2> SUFFICES ASSUME "flag" \notin slips
               PROVE  Followed'
    BY <1>1 DEF Followed
  <2>1. \A u : OfType(u)' = OfType(u) /\ Supported(u)' = Supported(u)
    BY <1>1 DEF OfType, Supported
  <2>2. OfType(t) # {}
    BY <1>0 DEF KycInv, Followed
  <2>3. FlaggedBy(work'[s], t) /\ work'[s].type = t
    BY <1>2, <1>4, <2>2 DEF FlaggedBy
  <2>4. \A r \in Sessions : \A u : FlaggedBy(work[r], u) => FlaggedBy(work'[r], u)
    BY <1>0, <1>4, <2>3 DEF FlaggedBy
  <2>5. \A u \in (kyc'.flags \cap DocTypes) \ byHand' : Flagging(u)' \/ Supported(u)'
    <3>1. \A u : Flagging(u) => Flagging(u)'
      BY <2>4 DEF Flagging, FlaggedBy
    <3>2. QED BY <1>1, <2>1, <3>1 DEF KycInv, Followed
  <2>6. ASSUME NEW r \in Sessions, NEW u, work'[r].at = "counting", work'[r].type = u
        PROVE  OfType(u)' # {}
    BY <1>3, <1>4, <2>1, <2>6 DEF KycInv, Followed
  <2>7. ASSUME NEW r \in Sessions, NEW u,
               work'[r].at = "flagging", work'[r].all, work'[r].type = u
        PROVE  Supported(u)' \/ \E q \in Sessions \ {r} : FlaggedBy(work'[q], u)
    <3>1. CASE r = s
      <4>1. u = t /\ AllVerified(t)
        BY <1>2, <1>4, <2>2, <2>3, <2>7, <3>1
      <4>2. Supported(t)
        BY <2>2, <4>1 DEF AllVerified, Supported
      <4>3. QED BY <2>1, <4>1, <4>2
    <3>2. CASE r # s
      BY <1>4, <2>1, <2>4, <2>7, <3>2 DEF KycInv, Followed
    <3>3. QED BY <3>1, <3>2
  <2>8. QED BY <2>5, <2>6, <2>7, FollowedAfter
<1>9. QED BY <1>4, <1>5, <1>7, <1>8 DEF KycInv

\* Nobody else was flagging the type, so what was counted still stands.
LEMMA WriteFlagKeeps ==
  ASSUME KycInv, NEW s \in Sessions, WriteFlag(s)
  PROVE  KycInv'
<1> PICK old : old = work[s]
  OBVIOUS
<1> PICK t : t = old.type
  OBVIOUS
<1> PICK step : step = [at |-> "weighing"]
  OBVIOUS
<1>0. old.at = "flagging" /\ old \in [at : {"flagging"}, type : Uploaded, all : BOOLEAN]
  BY DEF KycInv, Carried, Proper, WriteFlag
<1>1. UNCHANGED doc /\ byHand' = byHand \ {t}
  BY DEF WriteFlag
<1>2. /\ HasRow => kyc' = [kyc EXCEPT !.flags = IF old.all THEN @ \cup ({t} \cap Needed) ELSE @ \ {t}]
      /\ ~HasRow => kyc' = kyc
  BY DEF WriteFlag, SetFlags, KycInv, TypeOK
<1>3. Proper(step) /\ step.at = "weighing"
  BY DEF Proper
<1>4. Carried' /\ work'[s] = step /\ \A r \in Sessions \ {s} : work'[r] = work[r]
  BY <1>3, OneMoves DEF KycInv, WriteFlag
<1>5. slips \subseteq slips' /\ slips' \subseteq slips \cup {"flag"}
  BY DEF WriteFlag, Slip
<1>6. /\ kyc' \in KycRow /\ kyc'.status = kyc.status
      /\ kyc'.flags \subseteq kyc.flags \cup {t}
      /\ t \in kyc'.flags => old.all
  <2>1. CASE HasRow
    BY <1>0, <1>2, <2>1 DEF KycInv, TypeOK, KycRow
  <2>2. CASE ~HasRow
    BY <1>0, <1>2, <2>2 DEF KycInv, TypeOK, KycRow, NoRowNoFlags, HasRow
  <2>3. QED BY <2>1, <2>2
<1>7. TypeOK'
  BY <1>1, <1>5, <1>6 DEF KycInv, TypeOK, KycRow
<1>8. NoRowNoFlags'
  BY <1>2, <1>6 DEF KycInv, NoRowNoFlags, HasRow
<1>9. Backed'
  <2>1. Settling'
    BY <1>3, <1>4 DEF Settling
  <2>2. QED BY <1>3, <1>4, <1>5, <2>1 DEF KycInv, Backed, Uploading
<1>10. Followed'
  <2> SUFFICES ASSUME "flag" \notin slips'
               PROVE  Followed'
    BY DEF Followed
  <2>1. \A r \in Sessions \ {s} : ~FlaggedBy(work[r], t)
    BY DEF WriteFlag, Slip, FlaggedBy
  <2>2. "flag" \notin slips
    BY <1>5
  <2>3. \A u : OfType(u)' = OfType(u) /\ Supported(u)' = Supported(u)
    BY <1>1 DEF OfType, Supported
  <2>4. old.all => Supported(t)
    BY <1>0, <2>1, <2>2 DEF KycInv, Followed
  <2>5. \A r \in Sessions, u \in DocTypes \ {t} :
          FlaggedBy(work[r], u) => FlaggedBy(work'[r], u)
    BY <1>4 DEF FlaggedBy
  <2>6. ASSUME NEW u \in (kyc'.flags \cap DocTypes) \ byHand'
        PROVE  Flagging(u)' \/ Supported(u)'
    <3>1. CASE u = t
      BY <1>6, <2>3, <2>4, <3>1
    <3>2. CASE u # t
      <4>1. Flagging(u) \/ Supported(u)
        BY <1>1, <1>6, <2>2, <2>6, <3>2 DEF KycInv, Followed
      <4>2. Flagging(u) => Flagging(u)'
        BY <2>5, <2>6, <3>2 DEF Flagging, FlaggedBy
      <4>3. QED BY <2>3, <4>1, <4>2
    <3>3. QED BY <3>1, <3>2
  <2>7. ASSUME NEW r \in Sessions, NEW u, work'[r].at = "counting", work'[r].type = u
        PROVE  OfType(u)' # {}
    BY <1>3, <1>4, <2>2, <2>3, <2>7 DEF KycInv, Followed
  <2>8. ASSUME NEW r \in Sessions, NEW u,
               work'[r].at = "flagging", work'[r].all, work'[r].type = u
        PROVE  Supported(u)' \/ \E q \in Sessions \ {r} : FlaggedBy(work'[q], u)
    <3>1. r # s /\ work'[r] = work[r]
      BY <1>3, <1>4, <2>8
    <3>2. u # t
      BY <2>1, <2>8, <3>1 DEF FlaggedBy
    <3>3. Supported(u) \/ \E q \in Sessions \ {r} : FlaggedBy(work[q], u)
      BY <2>2, <2>8, <3>1 DEF KycInv, Followed
    <3>4. \A q \in Sessions : FlaggedBy(work[q], u) => FlaggedBy(work'[q], u)
      BY <1>4, <3>2 DEF FlaggedBy
    <3>5. QED BY <2>3, <3>3, <3>4
  <2>9. QED BY <2>6, <2>7, <2>8, FollowedAfter
<1>11. QED BY <1>4, <1>7, <1>8, <1>9, <1>10 DEF KycInv

\* A decision on the row: its flags are set by hand, or go.
LEMMA RowDecisionKeeps ==
  ASSUME KycInv, NEW s \in Sessions, NEW types \in SUBSET DocTypes,
         ApproveKyc(s, types) \/ RejectKyc(s, types)
  PROVE  KycInv'
<1> PICK step : step = [at |-> "weighing"]
  OBVIOUS
<1>1. UNCHANGED <<doc, slips>> /\ work[s].at = "idle" /\ HasRow
  BY DEF ApproveKyc, RejectKyc, Idle
<1>2. /\ kyc' \in KycRow /\ kyc'.status # "none"
      /\ byHand' \subseteq Needed
      /\ kyc'.flags \ byHand' \subseteq kyc.flags \ byHand
  <2>1. CASE ApproveKyc(s, types)
    BY <1>1, <2>1 DEF ApproveKyc, KycInv, TypeOK, KycRow, Statuses, HasRow
  <2>2. CASE RejectKyc(s, types)
    BY <1>1, <2>2 DEF RejectKyc, KycInv, TypeOK, KycRow, Statuses
  <2>3. QED BY <2>1, <2>2
<1>3. Proper(step) /\ step.at = "weighing"
  BY DEF Proper
<1>4. Carried' /\ work'[s] = step /\ \A r \in Sessions \ {s} : work'[r] = work[r]
  BY <1>3, OneMoves DEF KycInv, ApproveKyc, RejectKyc
<1>5. TypeOK' /\ NoRowNoFlags'
  BY <1>1, <1>2 DEF KycInv, TypeOK, KycRow, NoRowNoFlags
<1>6. Backed'
  <2>1. Settling'
    BY <1>3, <1>4 DEF Settling
  <2>2. QED BY <1>1, <1>3, <1>4, <2>1 DEF KycInv, Backed, Uploading
<1>7. Followed'
  BY <1>1, <1>2, <1>3, <1>4, FollowedKept DEF KycInv, Deciding
<1>8. QED BY <1>4, <1>5, <1>6, <1>7 DEF KycInv

LEMMA OutcomeIs ==
  ASSUME NEW row \in KycRow
  PROVE  /\ Outcome(row) \in Statuses
         /\ Outcome(row) = "verified" => Needed \subseteq row.flags
         /\ row.status # "none" => Outcome(row) # "none"
BY DEF Outcome, KycRow, Statuses

\* Whoever stops recomputing has found the row sound.
LEMMA ReadFlagsKeeps ==
  ASSUME KycInv, NEW s \in Sessions, ReadFlags(s)
  PROVE  KycInv'
<1>1. UNCHANGED <<kyc, doc, byHand, slips>> /\ work[s].at = "weighing"
  BY DEF ReadFlags
<1> PICK step : /\ step = IF HasRow /\ Outcome(kyc) # kyc.status
                          THEN [at |-> "writing", read |-> kyc] ELSE Idle
                /\ Goto(s, step)
  BY DEF ReadFlags
<1>2. Proper(step) /\ step.at \in {"idle", "writing"}
  BY DEF Proper, Idle, KycInv, TypeOK, KycRow, HasRow
<1>3. Carried' /\ work'[s] = step /\ \A r \in Sessions \ {s} : work'[r] = work[r]
  BY <1>2, OneMoves DEF KycInv
<1>4. TypeOK' /\ NoRowNoFlags'
  BY <1>1 DEF KycInv, TypeOK, NoRowNoFlags
<1>5. Backed'
  <2>1. ~Settling' => Sound(kyc')
    <3>1. ~Settling' => step.at = "idle"
      BY <1>2, <1>3 DEF Settling
    <3>2. step.at = "idle" => ~HasRow \/ Outcome(kyc) = kyc.status
      OBVIOUS
    <3>3. kyc \in KycRow
      BY DEF KycInv, TypeOK, KycRow
    <3>4. QED BY <1>1, <3>1, <3>2, <3>3, OutcomeIs DEF Sound, HasRow
  <2>2. QED BY <1>1, <1>2, <1>3, <2>1 DEF KycInv, Backed, Uploading, Sound
<1>6. Followed'
  BY <1>1, <1>2, <1>3, FollowedKept DEF KycInv, Deciding
<1>7. QED BY <1>3, <1>4, <1>5, <1>6 DEF KycInv

LEMMA WriteStatusKeeps ==
  ASSUME KycInv, NEW s \in Sessions, WriteStatus(s)
  PROVE  KycInv'
<1> PICK old : old = work[s]
  OBVIOUS
<1>0. old.at = "writing" /\ old.read \in KycRow /\ old.read.status # "none"
  BY DEF KycInv, Carried, Proper, WriteStatus
<1>1. UNCHANGED <<doc, byHand>>
  BY DEF WriteStatus
<1>2. /\ Outcome(old.read) \in Statuses \ {"none"}
      /\ Outcome(old.read) = "verified" => Needed \subseteq old.read.flags
  BY <1>0, OutcomeIs
<1>3. kyc' = [kyc EXCEPT !.status = IF HasRow THEN Outcome(old.read) ELSE @]
  BY DEF WriteStatus, SetStatus
<1>4. Proper(Idle) /\ Idle.at = "idle"
  BY DEF Proper, Idle
<1>5. Carried' /\ work'[s] = Idle /\ \A r \in Sessions \ {s} : work'[r] = work[r]
  BY <1>4, OneMoves DEF KycInv, WriteStatus
<1>6. slips \subseteq slips' /\ slips' \subseteq slips \cup {"status"}
  BY DEF WriteStatus, Slip
<1>7. /\ kyc' \in KycRow /\ kyc'.flags = kyc.flags
      /\ HasRow => kyc'.status = Outcome(old.read)
      /\ ~HasRow => kyc'.status = "none"
  BY <1>2, <1>3 DEF KycInv, TypeOK, KycRow, HasRow
<1>8. TypeOK' /\ NoRowNoFlags'
  BY <1>1, <1>2, <1>6, <1>7 DEF KycInv, TypeOK, KycRow, NoRowNoFlags, HasRow
<1>9. Backed'
  <2>1. "status" \notin slips' => kyc = old.read
    BY DEF WriteStatus, Slip
  <2>2. "status" \notin slips' => Sound(kyc')
    BY <1>2, <1>7, <2>1 DEF Sound
  <2>3. QED BY <1>4, <1>5, <1>6, <2>2 DEF KycInv, Backed, Uploading, Sound
<1>10. Followed'
  BY <1>0, <1>1, <1>4, <1>5, <1>6, <1>7, FollowedKept DEF KycInv, Deciding
<1>11. QED BY <1>5, <1>8, <1>9, <1>10 DEF KycInv

LEMMA DieKeeps ==
  ASSUME KycInv, NEW s \in Sessions, Die(s)
  PROVE  KycInv'
<1>1. /\ UNCHANGED <<kyc, doc, byHand>>
      /\ slips \subseteq slips' /\ slips' \subseteq slips \cup {"status", "flag"}
      /\ work[s].at \in {"weighing", "writing"} => "status" \in slips'
      /\ Deciding(work[s]) => "flag" \in slips'
  BY DEF Die, Deciding
<1>2. Proper(Idle) /\ Idle.at = "idle"
  BY DEF Proper, Idle
<1>3. Carried' /\ work'[s] = Idle /\ \A r \in Sessions \ {s} : work'[r] = work[r]
  BY <1>2, OneMoves DEF KycInv, Die
<1>4. TypeOK' /\ NoRowNoFlags'
  BY <1>1 DEF KycInv, TypeOK, NoRowNoFlags
<1>5. Backed'
  <2>1. CASE work[s].at \in {"weighing", "writing"}
    BY <1>1, <2>1 DEF Backed
  <2>2. CASE work[s].at \notin {"weighing", "writing"}
    <3>1. Settling' = Settling
      BY <1>2, <1>3, <2>2 DEF Settling
    <3>2. QED BY <1>1, <1>2, <1>3, <3>1, BackedKept DEF KycInv, Uploading
  <2>3. QED BY <2>1, <2>2
<1>6. Followed'
  BY <1>1, <1>2, <1>3, FollowedKept DEF KycInv, Deciding
<1>7. QED BY <1>3, <1>4, <1>5, <1>6 DEF KycInv

-----------------------------------------------------------------------------
(* The theorems.                                                           *)

LEMMA InitIsKycInv == Init => KycInv
<1> SUFFICES ASSUME Init
             PROVE  KycInv
  OBVIOUS
<1>1. kyc \in KycRow /\ kyc.status \in {"none", "not_started"} /\ kyc.flags = {}
  BY DEF Init, NoKyc, KycRow, Statuses
<1>2. TypeOK /\ NoRowNoFlags
  BY <1>1 DEF Init, TypeOK, KycRow, NoRowNoFlags
<1>3. \A s \in Sessions : work[s] = Idle /\ Idle.at = "idle"
  BY DEF Init, Idle
<1>4. Carried
  BY <1>3 DEF Init, Carried, Proper
<1>5. Backed /\ Followed
  BY <1>1, <1>3 DEF Backed, Sound, Uploading, Followed
<1>6. QED BY <1>2, <1>4, <1>5 DEF KycInv

LEMMA NextKeepsKycInv == KycInv /\ [Next]_vars => KycInv'
<1> SUFFICES ASSUME KycInv, [Next]_vars
             PROVE  KycInv'
  OBVIOUS
<1>1. ASSUME NEW s \in Sessions, UserStep(s)
      PROVE  KycInv'
  BY <1>1, StartUploadKeeps, InsertDocumentKeeps, MarkPendingKeeps, StoreFilesKeeps,
     DropDocumentKeeps, RestoreStatusKeeps, ReadForNinKeeps, WriteForNinKeeps DEF UserStep
<1>2. ASSUME NEW s \in Sessions, AdminStep(s)
      PROVE  KycInv'
  <2>1. ASSUME NEW d \in Docs, ApproveDocument(s, d) \/ RejectDocument(s, d)
        PROVE  KycInv'
    BY <2>1, ReadDocumentKeeps DEF ApproveDocument, RejectDocument
  <2>2. ASSUME NEW types \in {{t} : t \in DocTypes} \cup {DocTypes},
               ApproveKyc(s, types) \/ RejectKyc(s, types)
        PROVE  KycInv'
    <3>1. types \in SUBSET DocTypes
      OBVIOUS
    <3>2. QED BY <2>2, <3>1, RowDecisionKeeps
  <2>3. QED BY <1>2, <2>1, <2>2, DecideDocumentKeeps, CountDocumentsKeeps, WriteFlagKeeps,
               ReadFlagsKeeps, WriteStatusKeeps DEF AdminStep
<1>3. CASE UNCHANGED vars
  BY <1>3 DEF vars, KycInv, TypeOK, NoRowNoFlags, Carried, Backed, Followed, Settling,
     Flagging, Supported, OfType
<1>4. QED BY <1>1, <1>2, <1>3, DieKeeps, VerifyNinKeeps DEF Next

LEMMA KycInvariant == Spec => []KycInv
BY InitIsKycInv, NextKeepsKycInv, PTL DEF Spec

\* The rows of kyc_verifications and kyc_documents keep their shape.
THEOREM KycTyped == Spec => []TypeOK
<1>1. KycInv => TypeOK
  BY DEF KycInv
<1>2. QED BY <1>1, KycInvariant, PTL

\* updateKycOverallStatus: an account that is verified has every flag it needs, however
\* uploads, roll-backs and decisions alternate, unless the model recorded a status
\* written from a row that had changed.
THEOREM VerifiedIsBacked == Spec => []VerifiedBacked
<1>1. KycInv => VerifiedBacked
  BY DEF KycInv, Backed, Sound, VerifiedBacked
<1>2. QED BY <1>1, KycInvariant, PTL

\* approveDocument, rejectDocument: a flag set through documents is that of documents
\* still there, one of them verified and none rejected.
THEOREM FlagIsDocumented == Spec => []FlagFollowsDocuments
<1>1. KycInv => FlagFollowsDocuments
  BY DEF KycInv, Followed, Supported, FlagFollowsDocuments
<1>2. QED BY <1>1, KycInvariant, PTL
=============================================================================
