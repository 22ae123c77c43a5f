---------------------------- MODULE Ambassadors ----------------------------
(***************************************************************************)
(* One ambassador of the programme (controllers/ambassador.js): the        *)
(* application and the profile it becomes, which admins decide on, and the *)
(* withdrawal of the rewards earned through one referred organizer.        *)
(*                                                                         *)
(* Application and profile each have a status; no two writes are in one    *)
(* transaction, and the updates are by id, whatever the row says by then.  *)
(* distribute_ambassador_withdrawal_payment is external: the code says it  *)
(* marks the withdrawal paid and adds it to reward_paid in one step.       *)
(* Who referred an organizer is kept twice: in the ledger of influenced    *)
(* organizers, which pays, and on the organizer's profile.                 *)
(***************************************************************************)
EXTENDS Naturals, FiniteSets, FiniteSetsExt

CONSTANTS
  UnlockAmount, UnlockReward, IncrementalAmount, IncrementalReward, MaxReward,
  MaxProcessed,     \* a bound on what the organizer's collections take in
  Amounts,          \* what may be asked for
  MaxWithdrawals,   \* a bound on the rows of ambassador_withdrawals
  Sessions,         \* handlers in flight at the same time
  Faults            \* a handler may die, a statement may fail

ASSUME AmbassadorAssumption ==
  /\ UnlockAmount \in Nat /\ UnlockReward \in Nat /\ MaxReward \in Nat
  /\ IncrementalAmount \in Nat \ {0} /\ IncrementalReward \in Nat
  /\ MaxProcessed \in Nat /\ MaxWithdrawals \in Nat
  /\ Amounts \subseteq Nat \ {0} /\ Faults \in BOOLEAN

VARIABLES
  ledger,        \* whose row the organizer has in ambassador_influenced_organizers
  referredBy,    \* referred_by_ambassador_id of the organizer
  application,   \* status of the application, "none" before it is submitted
  profile,       \* status of the ambassador profile, "none" until there is one
  processed,     \* processed_amount_internal of the organizer
  rewardPaid,    \* reward_paid
  withdrawal,    \* ambassador_withdrawals
  work,          \* where each handler in flight stands
  slips          \* history: "status" once two decisions on the application met, or
                 \* one stopped half-way; "link" once the same befell two referrals
                 \* of the organizer, or the second named another ambassador; "money"
                 \* once two requests, or a request and a payment, or two decisions
                 \* on a withdrawal met

status == <<application, profile>>
referral == <<ledger, referredBy>>
money == <<processed, rewardPaid, withdrawal, referral>>
vars == <<application, profile, processed, rewardPaid, withdrawal, referral, work, slips>>

Referrers == {"ours", "other"}

Withdrawals == 1..MaxWithdrawals
NoRow == [status |-> "none"]
Idle == [at |-> "idle"]

Init ==
  /\ application = "none" /\ profile = "none"
  /\ processed = 0 /\ rewardPaid = 0
  /\ ledger = "none" /\ referredBy = "none"
  /\ withdrawal = [w \in Withdrawals |-> NoRow]
  /\ work = [s \in Sessions |-> Idle]
  /\ slips = {}

Goto(s, step) == work' = [work EXCEPT ![s] = step]
Slip(kind, when) == slips' = IF when THEN slips \cup {kind} ELSE slips
Others(s) == Sessions \ {s}

Rows(states) == {w \in Withdrawals : withdrawal[w].status \in states}
Total(states) == SumFunction([w \in Rows(states) |-> withdrawal[w].amount])

-----------------------------------------------------------------------------
\* Decisions on the application.  Whoever has written it goes on to the profile.

Deciding(s) == work[s].at \in {"ensuring", "creating", "setting"}
Met(s) == \E t \in Others(s) : Deciding(t)

\* submitAmbassadorApplication; the address is unique.
Submit ==
  /\ application = "none"
  /\ application' = "pending"
  /\ UNCHANGED <<profile, money, work, slips>>

\* scheduleAmbassadorInterview; the profile is left as it is.
ScheduleInterview(s) ==
  /\ work[s] = Idle /\ application # "none"
  /\ application' = "interview_scheduled"
  /\ Slip("status", Met(s))
  /\ UNCHANGED <<profile, money, work>>

AcceptApplication(s) ==
  /\ work[s] = Idle /\ application # "none"
  /\ application' = "accepted"
  /\ Goto(s, [at |-> "ensuring", accept |-> TRUE])
  /\ Slip("status", Met(s))
  /\ UNCHANGED <<profile, money>>

\* rejectAmbassadorApplication, suspendAmbassador, reactivateAmbassador.
ChangeStatus(s, to) ==
  /\ work[s] = Idle /\ application # "none"
  /\ application' = to
  /\ Goto(s, [at |-> "setting", to |-> to])
  /\ Slip("status", Met(s))
  /\ UNCHANGED <<profile, money>>

\* getAdminAmbassadorOverview and -Detail make the profile of an accepted
\* application if it is missing.
OpenDetail(s) ==
  /\ work[s] = Idle /\ application = "accepted"
  /\ Goto(s, [at |-> "ensuring", accept |-> FALSE])
  /\ Slip("status", Met(s))
  /\ UNCHANGED <<status, money>>

\* Mutant: a profile that exists is taken for an active one.
FindProfileAny(s) ==
  /\ work[s].at = "ensuring"
  /\ Goto(s, IF profile = "none" THEN [at |-> "creating"] ELSE Idle)
  /\ UNCHANGED <<status, money, slips>>

\* ensureAmbassadorProfile; a profile with another status is accepted again.
FindProfile(s) ==
  /\ work[s].at = "ensuring"
  /\ Goto(s, IF profile = "none" THEN [at |-> "creating"]
             ELSE IF profile # "accepted" /\ work[s].accept
                  THEN [at |-> "setting", to |-> "accepted"]
                  ELSE Idle)
  /\ UNCHANGED <<status, money, slips>>

\* One profile per application; the insert also fails when somebody took the code.
CreateProfile(s) ==
  /\ work[s].at = "creating"
  /\ profile' \in (IF profile = "none" THEN {"accepted"} ELSE {profile})
                    \cup (IF Faults THEN {profile} ELSE {})
  /\ Goto(s, Idle)
  /\ UNCHANGED <<application, money, slips>>

\* rejectAmbassadorApplication and suspendAmbassador do not look at the error.
SetProfile(s) ==
  /\ work[s].at = "setting"
  /\ \/ /\ profile' = IF profile = "none" THEN "none" ELSE work[s].to
        /\ UNCHANGED slips
     \/ /\ Faults
        /\ Slip("status", TRUE)
        /\ UNCHANGED profile
  /\ Goto(s, Idle)
  /\ UNCHANGED <<application, money>>

-----------------------------------------------------------------------------
\* Who referred the organizer.

Linking(s) == work[s].at \in {"entering", "naming"}

\* signUp with the code of an accepted ambassador; an address signed up before and
\* not confirmed is signed up again.
SignUp(s, to) ==
  /\ work[s] = Idle
  /\ to = "ours" => profile = "accepted"
  /\ Goto(s, [at |-> IF ledger = "none" THEN "entering" ELSE "naming", to |-> to])
  /\ Slip("link", ledger \notin {"none", to} \/ \E t \in Others(s) : Linking(t))
  /\ UNCHANGED <<status, money>>

\* adminLinkOrganizerToAmbassador does not take an organizer from somebody else:
\* the profile is looked at, then the ledger.
AdminLink(s) ==
  /\ work[s] = Idle /\ profile = "accepted"
  /\ referredBy # "other"
  /\ Goto(s, [at |-> "looking"])
  /\ UNCHANGED <<status, money, slips>>

\* Mutant: a row there is, is taken for the ambassador's own.
FindLedgerAny(s) ==
  /\ work[s].at = "looking"
  /\ Goto(s, [at |-> IF ledger = "none" THEN "entering" ELSE "naming", to |-> "ours"])
  /\ Slip("link", \E t \in Others(s) : Linking(t))
  /\ UNCHANGED <<status, money>>

FindLedger(s) ==
  /\ work[s].at = "looking"
  /\ Goto(s, IF ledger = "other" THEN Idle
             ELSE [at |-> IF ledger = "none" THEN "entering" ELSE "naming", to |-> "ours"])
  /\ Slip("link", ledger # "other" /\ \E t \in Others(s) : Linking(t))
  /\ UNCHANGED <<status, money>>

\* organizer_id is unique: who comes second stops here.
EnterLedger(s) ==
  /\ work[s].at = "entering"
  /\ \/ /\ ledger = "none"
        /\ ledger' = work[s].to
        /\ Goto(s, [work[s] EXCEPT !.at = "naming"])
     \/ /\ Faults \/ ledger # "none"
        /\ Goto(s, Idle)
        /\ UNCHANGED ledger
  /\ UNCHANGED <<status, processed, rewardPaid, withdrawal, referredBy, slips>>

\* A failure of this update is logged only.
NameReferrer(s) ==
  /\ work[s].at = "naming"
  /\ \/ referredBy' = work[s].to /\ UNCHANGED slips
     \/ Faults /\ Slip("link", TRUE) /\ UNCHANGED referredBy
  /\ Goto(s, Idle)
  /\ UNCHANGED <<status, processed, rewardPaid, withdrawal, ledger>>

-----------------------------------------------------------------------------
\* Rewards (services/ambassadorProgram.js).

\* calculateOrganizerReward: generated less locked.
Earned(amount) ==
  IF amount < UnlockAmount THEN 0
  ELSE Min({MaxReward, UnlockReward
              + ((amount - UnlockAmount) \div IncrementalAmount) * IncrementalReward})

Less(a, b) == IF a > b THEN a - b ELSE 0

\* A contribution to one of the organizer's collections is attributed (external)
\* to whoever has the row in the ledger.
Process ==
  /\ ledger = "ours" /\ processed < MaxProcessed
  /\ processed' = processed + 1
  /\ UNCHANGED <<status, referral, rewardPaid, withdrawal, work, slips>>

-----------------------------------------------------------------------------
\* Withdrawal requests and what becomes of them.

Requesting(s) == work[s].at \in {"reserving", "requesting"}

\* requestAmbassadorWithdrawal, behind verifyAmbassador.  The rewards are read
\* first, what is reserved next.
ReadRewards(s, amount) ==
  /\ work[s] = Idle /\ profile = "accepted"
  /\ amount <= Less(Earned(processed), rewardPaid)
  /\ Goto(s, [at |-> "reserving", amount |-> amount,
              available |-> Less(Earned(processed), rewardPaid)])
  /\ UNCHANGED <<status, money, slips>>

\* Mutant: what is approved is no longer reserved.
ReservedPending == Total({"pending"})

\* WITHDRAWAL_REQUEST_STATUSES.
Reserved == Total({"pending", "approved"})

ReadReserved(s) ==
  LET amount == work[s].amount IN
  /\ work[s].at = "reserving"
  /\ Goto(s, IF amount <= Less(work[s].available, Reserved)
             THEN [at |-> "requesting", amount |-> amount] ELSE Idle)
  /\ UNCHANGED <<status, money, slips>>

RequestWithdrawal(s, w) ==
  /\ work[s].at = "requesting"
  /\ withdrawal[w] = NoRow /\ \A v \in Withdrawals : v < w => withdrawal[v] # NoRow
  /\ withdrawal' = [withdrawal EXCEPT ![w] =
                      [status |-> "pending", amount |-> work[s].amount]]
  /\ Slip("money", \E t \in Others(s) : Requesting(t))
  /\ Goto(s, Idle)
  /\ UNCHANGED <<status, processed, rewardPaid, referral>>

\* updateAdminAmbassadorWithdrawal: which status an action wants to see.
Allows(to) ==
  CASE to = "approved" -> {"pending"}
    [] to = "rejected" -> {"pending", "approved"}
    [] to = "paid" -> {"approved"}

\* Mutant: any action on any row.
LoadWithdrawalAny(s, w, to) ==
  /\ work[s] = Idle
  /\ withdrawal[w] # NoRow
  /\ Goto(s, [at |-> "deciding", row |-> w, read |-> withdrawal[w].status, to |-> to])
  /\ UNCHANGED <<status, money, slips>>

LoadWithdrawal(s, w, to) ==
  /\ work[s] = Idle
  /\ withdrawal[w].status \in Allows(to)
  /\ Goto(s, [at |-> "deciding", row |-> w, read |-> withdrawal[w].status, to |-> to])
  /\ UNCHANGED <<status, money, slips>>

\* approve and reject: by id.
DecideWithdrawal(s) ==
  LET w == work[s].row IN
  /\ work[s].at = "deciding" /\ work[s].to # "paid"
  /\ withdrawal' = [withdrawal EXCEPT ![w].status = work[s].to]
  /\ Slip("money", withdrawal[w].status # work[s].read)
  /\ Goto(s, Idle)
  /\ UNCHANGED <<status, processed, rewardPaid, referral>>

\* pay: the database function may or may not refuse a row that is no longer approved.
PayWithdrawal(s) ==
  LET w == work[s].row
      stale == withdrawal[w].status # work[s].read
  IN
  /\ work[s].at = "deciding" /\ work[s].to = "paid"
  /\ \/ /\ withdrawal' = [withdrawal EXCEPT ![w].status = "paid"]
        /\ rewardPaid' = rewardPaid + withdrawal[w].amount
        /\ Slip("money", stale \/ \E t \in Others(s) : Requesting(t))
     \/ /\ stale \/ Faults
        /\ UNCHANGED <<withdrawal, rewardPaid, slips>>
  /\ Goto(s, Idle)
  /\ UNCHANGED <<status, processed, referral>>

Die(s) ==
  /\ Faults /\ work[s] # Idle
  /\ slips' = slips
       \cup (IF work[s].at = "setting" \/ (work[s].at = "ensuring" /\ work[s].accept)
             THEN {"status"} ELSE {})
       \cup (IF work[s].at = "naming" THEN {"link"} ELSE {})
  /\ Goto(s, Idle)
  /\ UNCHANGED <<status, money>>

-----------------------------------------------------------------------------
StatusStep(s) ==
  \/ \E to \in {"accepted", "rejected", "suspended"} : ChangeStatus(s, to)
  \/ ScheduleInterview(s) \/ AcceptApplication(s) \/ OpenDetail(s)
  \/ FindProfile(s) \/ CreateProfile(s) \/ SetProfile(s)

ReferralStep(s) ==
  \/ \E to \in Referrers : SignUp(s, to)
  \/ AdminLink(s) \/ FindLedger(s) \/ EnterLedger(s) \/ NameReferrer(s)

MoneyStep(s) ==
  \/ \E amount \in Amounts : ReadRewards(s, amount)
  \/ ReadReserved(s)
  \/ \E w \in Withdrawals :
       \/ RequestWithdrawal(s, w)
       \/ \E to \in {"approved", "rejected", "paid"} : LoadWithdrawal(s, w, to)
  \/ DecideWithdrawal(s) \/ PayWithdrawal(s)

Next ==
  \/ Submit \/ Process
  \/ \E s \in Sessions : StatusStep(s) \/ ReferralStep(s) \/ MoneyStep(s) \/ Die(s)

Spec == Init /\ [][Next]_vars

-----------------------------------------------------------------------------
\* Properties.

\* The two statuses stay within the checks of the schema.
TypeOK ==
  /\ application \in {"none", "pending", "interview_scheduled", "accepted",
                      "rejected", "suspended"}
  /\ profile \in {"none", "accepted", "rejected", "suspended"}
  /\ processed \in 0..MaxProcessed /\ rewardPaid \in Nat
  /\ withdrawal \in [Withdrawals -> {NoRow} \cup
       [status : {"pending", "approved", "rejected", "paid"}, amount : Amounts]]
  /\ ledger \in {"none"} \cup Referrers /\ referredBy \in {"none"} \cup Referrers
  /\ slips \subseteq {"status", "link", "money"}

\* "without this, the profile stays 'accepted' and the ambassador keeps full
\* portal access despite the rejection": once a decision is over, the profile, if
\* there is one, has the status of the application, however often it was accepted,
\* suspended, rejected and taken up again.  Two decisions at a time, a decision
\* that stops before the profile, or an update that fails there, break it.
ProfileFollowsApplication ==
  "status" \notin slips /\ (\A s \in Sessions : ~Deciding(s)) =>
    (application \in {"accepted", "rejected", "suspended"} =>
       profile \in {"none", application})

\* The ambassador named on the organizer's profile is the one the ledger pays,
\* once sign-ups and links are over, whoever was told first and whatever became of
\* the profile check of a link.  Two of them at a time, one that stops between the
\* two writes, and a second sign-up with somebody else's code break it.
ReferrerAgrees ==
  "link" \notin slips /\ (\A s \in Sessions : ~Linking(s)) => referredBy = ledger

\* What was paid and what is asked for stays within what is unlocked.  Two
\* requests at a time, or a payment between the two reads of a request, break it.
WithinEarnings ==
  "money" \notin slips => rewardPaid + Total({"pending", "approved"}) <= Earned(processed)

\* reward_paid is the sum of the withdrawals that say paid: none is paid twice,
\* or taken back to another status once it is paid.
PaidIsPaid ==
  "money" \notin slips => rewardPaid = Total({"paid"})
=============================================================================
