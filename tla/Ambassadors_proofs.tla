-------------------------- MODULE Ambassadors_proofs --------------------------
(***************************************************************************)
(* For any rewards, bounds, amounts and number of handlers in flight, up   *)
(* to the slips the model records: the profile has the status of the       *)
(* application, ledger and profile name the same referrer, what was paid   *)
(* is the sum of the withdrawals that say so, and stays within the         *)
(* earnings together with what is asked for.                               *)
(***************************************************************************)
EXTENDS Ambassadors, Sums_proofs, TLAPS

Decisions == {"accepted", "rejected", "suspended"}
RowStates == {"pending", "approved", "rejected", "paid"}

\* What a handler carries along.
Proper(step) ==
  /\ step.at = "ensuring" => step \in [at : {"ensuring"}, accept : BOOLEAN]
  /\ step.at = "setting" => step \in [at : {"setting"}, to : Decisions]
  /\ step.at \in {"entering", "naming"} =>
       step \in [at : {"entering", "naming"}, to : Referrers]
  /\ step.at = "reserving" =>
       step \in [at : {"reserving"}, amount : Amounts, available : Nat]
  /\ step.at = "requesting" => step \in [at : {"requesting"}, amount : Amounts]
  /\ step.at = "deciding" =>
       /\ step \in [at : {"deciding"}, row : Withdrawals, read : RowStates,
                    to : {"approved", "rejected", "paid"}]
       /\ step.read \in Allows(step.to)
       /\ withdrawal[step.row] # NoRow

Carried ==
  /\ work = [s \in Sessions |-> work[s]]
  /\ \A s \in Sessions : Proper(work[s])

\* One decision at a time: the application says what the profile will say.
OneDecision ==
  "status" \notin slips =>
    /\ \A s, t \in Sessions : Deciding(s) /\ Deciding(t) => s = t
    /\ (\A s \in Sessions : ~Deciding(s)) /\ application \in Decisions =>
         profile \in {"none", application}
    /\ \A s \in Sessions :
         /\ work[s].at = "ensuring" =>
              /\ application = "accepted"
              /\ ~work[s].accept => profile \in {"none", "accepted"}
         /\ work[s].at = "creating" => application = "accepted" /\ profile = "none"
         /\ work[s].at = "setting" => application = work[s].to

\* One referral at a time: the profile names the ledger's row once it is over.
OneReferral ==
  "link" \notin slips =>
    /\ \A s, t \in Sessions : Linking(s) /\ Linking(t) => s = t
    /\ (\A s \in Sessions : ~Linking(s)) => referredBy = ledger
    /\ \A s \in Sessions :
         /\ work[s].at = "entering" => ledger = "none" /\ referredBy = "none"
         /\ work[s].at = "naming" => ledger = work[s].to

\* A request that is not out of date still fits what is earned.
Reckoned ==
  "money" \notin slips =>
    /\ rewardPaid = Total({"paid"})
    /\ rewardPaid + Total({"pending", "approved"}) <= Earned(processed)
    /\ \A s \in Sessions :
         /\ work[s].at = "reserving" =>
              work[s].available <= Less(Earned(processed), rewardPaid)
         /\ work[s].at = "requesting" =>
              rewardPaid + Total({"pending", "approved"}) + work[s].amount
                <= Earned(processed)

AmbassadorInv == TypeOK /\ Carried /\ OneDecision /\ OneReferral /\ Reckoned

-----------------------------------------------------------------------------
(* What a step leaves alone.                                               *)

\* Only the handler that moves is somewhere else, and rows do not vanish.
LEMMA OneMoves ==
  ASSUME Carried, NEW s \in Sessions, NEW step, Goto(s, step), Proper(step)',
         \A w \in Withdrawals : withdrawal[w] # NoRow => withdrawal'[w] # NoRow
  PROVE  /\ Carried' /\ work'[s] = step
         /\ \A t \in Sessions \ {s} : work'[t] = work[t]
<1>1. work' = [t \in Sessions |-> IF t = s THEN step ELSE work[t]]
  BY DEF Goto, Carried
<1>2. work' = [t \in Sessions |-> work'[t]]
  BY <1>1
<1>3. \A t \in Sessions \ {s} : Proper(work[t])'
  BY <1>1 DEF Carried, Proper
<1>4. QED BY <1>1, <1>2, <1>3 DEF Carried, Proper

LEMMA OneDecisionKept ==
  ASSUME OneDecision, UNCHANGED <<application, profile>>, slips \subseteq slips',
         \A t \in Sessions : Deciding(t)' => work'[t] = work[t],
         "status" \notin slips' => \A t \in Sessions : Deciding(t) => work'[t] = work[t]
  PROVE  OneDecision'
BY DEF OneDecision, Deciding

LEMMA OneReferralKept ==
  ASSUME OneReferral, UNCHANGED referral, slips \subseteq slips',
         \A t \in Sessions : Linking(t)' => work'[t] = work[t],
         "link" \notin slips' => \A t \in Sessions : Linking(t) => work'[t] = work[t]
  PROVE  OneReferral'
BY DEF OneReferral, Linking, referral

LEMMA ReckonedKept ==
  ASSUME Reckoned, UNCHANGED <<processed, rewardPaid, withdrawal>>, slips \subseteq slips',
         \A t \in Sessions : Requesting(t)' => work'[t] = work[t]
  PROVE  Reckoned'
BY DEF Reckoned, Requesting, Total, Rows

-----------------------------------------------------------------------------
(* The arithmetic of the rewards.                                          *)

Row == [status : RowStates, amount : Amounts]
Table == [Withdrawals -> {NoRow} \cup Row]

\* What is said of the totals holds for any table of withdrawals, before a step or after.
AmountIn(table) == [w \in Withdrawals |-> table[w].amount]
RowsIn(table, states) == {w \in Withdrawals : table[w].status \in states}
TotalIn(table, states) == SumFunctionOnSet(AmountIn(table), RowsIn(table, states))

LEMMA RowsAreRows ==
  ASSUME NEW table \in Table, NEW states, "none" \notin states,
         NEW w \in RowsIn(table, states)
  PROVE  table[w] \in Row /\ AmountIn(table)[w] \in Nat /\ w \in Withdrawals
<1>1. w \in Withdrawals /\ table[w].status # "none"
  BY DEF RowsIn
<1>2. table[w] # NoRow
  BY <1>1 DEF NoRow
<1>3. table[w] \in Row
  BY <1>1, <1>2 DEF Table
<1>4. table[w].amount \in Nat
  BY <1>3, AmbassadorAssumption DEF Row
<1>5. QED BY <1>1, <1>3, <1>4 DEF AmountIn

\* A total is the sum of the amounts of finitely many rows.
LEMMA TotalIs ==
  ASSUME NEW table \in Table, NEW states, "none" \notin states
  PROVE  /\ IsFiniteSet(RowsIn(table, states))
         /\ SumFunction([w \in RowsIn(table, states) |-> table[w].amount])
              = TotalIn(table, states)
         /\ TotalIn(table, states) \in Nat
<1>1. IsFiniteSet(RowsIn(table, states))
  <2>1. IsFiniteSet(Withdrawals)
    <3>1. 1 \in Int /\ MaxWithdrawals \in Int
      BY AmbassadorAssumption
    <3>2. QED BY <3>1, FS_Interval DEF Withdrawals
  <2>2. QED BY <2>1, FS_Subset DEF RowsIn
<1>2. SumFunction([w \in RowsIn(table, states) |-> table[w].amount]) = TotalIn(table, states)
  <2> DEFINE f == [w \in RowsIn(table, states) |-> table[w].amount]
  <2>1. SumFunction(f) = SumFunctionOnSet(f, RowsIn(table, states))
    BY DEF SumFunction
  <2>2. \A w \in RowsIn(table, states) : f[w] = AmountIn(table)[w]
    BY DEF AmountIn, RowsIn
  <2> HIDE DEF f
  <2>3. SumFunctionOnSet(f, RowsIn(table, states)) = TotalIn(table, states)
    BY <1>1, <2>2, SumSame DEF TotalIn
  <2>4. SumFunction(f) = TotalIn(table, states)
    BY <2>1, <2>3
  <2>5. QED BY <2>4 DEF f
<1>3. TotalIn(table, states) \in Nat
  BY <1>1, RowsAreRows, SumNat DEF TotalIn
<1>4. QED BY <1>1, <1>2, <1>3

LEMMA TotalOf ==
  ASSUME NEW states, "none" \notin states
  PROVE  /\ withdrawal \in Table => Total(states) = TotalIn(withdrawal, states)
         /\ withdrawal' \in Table => Total(states)' = TotalIn(withdrawal', states)
<1>1. ASSUME withdrawal \in Table PROVE Total(states) = TotalIn(withdrawal, states)
  <2>1. Total(states) = SumFunction([w \in RowsIn(withdrawal, states) |-> withdrawal[w].amount])
    BY DEF Total, Rows, RowsIn
  <2>2. QED BY <1>1, <2>1, TotalIs
<1>2. ASSUME withdrawal' \in Table PROVE Total(states)' = TotalIn(withdrawal', states)
  <2>1. Total(states)'
          = SumFunction([w \in RowsIn(withdrawal', states) |-> withdrawal'[w].amount])
    BY DEF Total, Rows, RowsIn
  <2>2. QED BY <1>2, <2>1, TotalIs
<1>3. QED BY <1>1, <1>2

LEMMA TypedTable == (TypeOK => withdrawal \in Table) /\ (TypeOK' => withdrawal' \in Table)
BY DEF TypeOK, Table, Row, RowStates

\* What row w adds to a total.
PartIn(table, w, states) == IF table[w].status \in states THEN table[w].amount ELSE 0

LEMMA TotalSplit ==
  ASSUME NEW table \in Table, NEW states, "none" \notin states, NEW w \in Withdrawals
  PROVE  LET rest == SumFunctionOnSet(AmountIn(table), RowsIn(table, states) \ {w})
         IN  /\ rest \in Nat /\ PartIn(table, w, states) \in Nat
             /\ TotalIn(table, states) = PartIn(table, w, states) + rest
<1> DEFINE rows == RowsIn(table, states)
           rest == SumFunctionOnSet(AmountIn(table), rows \ {w})
<1>1. IsFiniteSet(rows) /\ \A v \in rows : AmountIn(table)[v] \in Nat
  BY TotalIs, RowsAreRows
<1>2. IsFiniteSet(rows \ {w})
  BY <1>1, FS_RemoveElement
<1>3. rest \in Nat
  <2> HIDE DEF rows
  <2>1. QED BY <1>1, <1>2, SumNat
<1>4. CASE w \in rows
  <2>1. TotalIn(table, states) = AmountIn(table)[w] + rest
    BY <1>1, <1>4, SumSplit DEF TotalIn
  <2>2. PartIn(table, w, states) = AmountIn(table)[w]
    BY <1>4 DEF PartIn, RowsIn, AmountIn
  <2>3. PartIn(table, w, states) \in Nat
    BY <1>1, <1>4, <2>2
  <2> HIDE DEF rest
  <2>4. QED BY <1>3, <2>1, <2>2, <2>3 DEF rest
<1>5. CASE w \notin rows
  <2>1. rows \ {w} = rows /\ PartIn(table, w, states) = 0
    BY <1>5 DEF PartIn, RowsIn
  <2>2. TotalIn(table, states) = rest
    BY <2>1 DEF TotalIn
  <2> HIDE DEF rest
  <2>3. QED BY <1>3, <2>1, <2>2 DEF rest
<1>6. QED BY <1>4, <1>5

\* A step that changes row w changes the totals by what the row adds to them.
LEMMA TotalChanges ==
  ASSUME NEW old \in Table, NEW new \in Table, NEW w \in Withdrawals,
         \A v \in Withdrawals \ {w} : new[v] = old[v],
         NEW states, "none" \notin states
  PROVE  /\ TotalIn(old, states) \in Nat /\ TotalIn(new, states) \in Nat
         /\ PartIn(old, w, states) \in Nat /\ PartIn(new, w, states) \in Nat
         /\ TotalIn(new, states) + PartIn(old, w, states)
              = TotalIn(old, states) + PartIn(new, w, states)
<1> DEFINE rest(table) == SumFunctionOnSet(AmountIn(table), RowsIn(table, states) \ {w})
<1>1. RowsIn(new, states) \ {w} = RowsIn(old, states) \ {w}
  BY DEF RowsIn
<1>2. rest(new) = rest(old)
  <2>1. IsFiniteSet(RowsIn(old, states) \ {w})
    BY TotalIs, FS_RemoveElement
  <2>2. \A v \in RowsIn(old, states) \ {w} : AmountIn(new)[v] = AmountIn(old)[v]
    BY DEF AmountIn, RowsIn
  <2>3. QED BY <1>1, <2>1, <2>2, SumSame
<1>3. /\ rest(old) \in Nat /\ PartIn(old, w, states) \in Nat
      /\ TotalIn(old, states) = PartIn(old, w, states) + rest(old)
  BY TotalSplit
<1>4. /\ rest(new) \in Nat /\ PartIn(new, w, states) \in Nat
      /\ TotalIn(new, states) = PartIn(new, w, states) + rest(new)
  BY TotalSplit
<1> HIDE DEF rest
<1>5. QED BY <1>2, <1>3, <1>4

\* Rewards are naturals and grow with what the organizer's collections take in.
LEMMA DivisionGrows ==
  ASSUME NEW a \in Nat, NEW b \in Nat, a <= b, NEW i \in Nat \ {0}
  PROVE  a \div i \in Nat /\ b \div i \in Nat /\ a \div i <= b \div i
OBVIOUS

LEMMA EarnedGrows ==
  ASSUME NEW a \in Nat, NEW b \in Nat, a <= b
  PROVE  Earned(a) \in Nat /\ Earned(b) \in Nat /\ Earned(a) <= Earned(b)
<1> DEFINE steps(n) == (n - UnlockAmount) \div IncrementalAmount
           uncut(n) == UnlockReward + steps(n) * IncrementalReward
<1>1. ASSUME NEW n \in Nat, UnlockAmount <= n
      PROVE  /\ uncut(n) \in Nat
             /\ Earned(n) = IF MaxReward <= uncut(n) THEN MaxReward ELSE uncut(n)
  <2>1. steps(n) \in Nat
    BY <1>1, DivisionGrows, AmbassadorAssumption
  <2>2. steps(n) * IncrementalReward \in Nat
    BY <2>1, AmbassadorAssumption
  <2>3. uncut(n) \in Nat
    BY <2>2, AmbassadorAssumption
  <2>4. Earned(n) = Min({MaxReward, uncut(n)})
    BY <1>1, AmbassadorAssumption DEF Earned
  <2> HIDE DEF uncut
  <2>5. QED BY <2>3, <2>4, AmbassadorAssumption DEF Min
<1>2. ASSUME NEW n \in Nat, ~(UnlockAmount <= n) PROVE Earned(n) = 0
  BY <1>2, AmbassadorAssumption DEF Earned
<1>3. CASE UnlockAmount <= a
  <2>1. UnlockAmount <= b /\ a - UnlockAmount \in Nat /\ b - UnlockAmount \in Nat
    BY <1>3, AmbassadorAssumption
  <2>2. steps(a) \in Nat /\ steps(b) \in Nat /\ steps(a) <= steps(b)
    BY <1>3, <2>1, DivisionGrows, AmbassadorAssumption
  <2>3. steps(a) * IncrementalReward <= steps(b) * IncrementalReward
    BY <2>2, AmbassadorAssumption
  <2>4. uncut(a) <= uncut(b)
    BY <2>2, <2>3, AmbassadorAssumption
  <2> HIDE DEF uncut
  <2>5. QED BY <1>1, <1>3, <2>1, <2>4, AmbassadorAssumption
<1>4. CASE ~(UnlockAmount <= a)
  <2> HIDE DEF uncut
  <2>1. Earned(a) = 0 BY <1>2, <1>4
  <2>2. Earned(b) \in Nat BY <1>1, <1>2, AmbassadorAssumption
  <2>3. QED BY <2>1, <2>2
<1>5. QED BY <1>3, <1>4

-----------------------------------------------------------------------------
LEMMA InitAmbassador == Init => AmbassadorInv
<1> SUFFICES ASSUME Init PROVE AmbassadorInv
  OBVIOUS
<1>1. \A s \in Sessions : work[s].at = "idle"
  BY DEF Init, Idle
<1>2. TypeOK
  BY AmbassadorAssumption DEF Init, TypeOK
<1>3. Carried
  BY <1>1 DEF Init, Carried, Proper
<1>4. OneDecision
  BY <1>1 DEF Init, OneDecision, Deciding, Decisions
<1>5. OneReferral
  BY <1>1 DEF Init, OneReferral, Linking
<1>6. Reckoned
  <2>1. ASSUME NEW states, "none" \notin states PROVE Total(states) = 0
    <3>1. withdrawal \in Table /\ RowsIn(withdrawal, states) = {}
      BY <2>1, <1>2, TypedTable DEF Init, RowsIn, NoRow
    <3>2. Total(states) = SumFunctionOnSet(AmountIn(withdrawal), {})
      BY <2>1, <3>1, TotalOf DEF TotalIn
    <3>3. QED BY <3>2, SumEmpty
  <2>2. 0 <= Earned(processed) /\ processed = 0 /\ rewardPaid = 0
    BY EarnedGrows DEF Init
  <2>3. Total({"paid"}) = 0 /\ Total({"pending", "approved"}) = 0
    BY <2>1
  <2>4. QED BY <1>1, <2>2, <2>3 DEF Reckoned
<1>7. QED BY <1>2, <1>3, <1>4, <1>5, <1>6 DEF AmbassadorInv

-----------------------------------------------------------------------------
(* Decisions on the application: the other parts see nothing of them.      *)

LEMMA StatusFrame ==
  ASSUME AmbassadorInv, NEW s \in Sessions, NEW step, Goto(s, step), Proper(step),
         UNCHANGED money, slips \subseteq slips', TypeOK',
         step.at \notin {"entering", "naming", "reserving", "requesting"},
         work[s].at \in {"entering", "naming"} => work[s].at = "entering" \/ "link" \in slips'
  PROVE  /\ Carried' /\ work'[s] = step
         /\ \A t \in Sessions \ {s} : work'[t] = work[t]
         /\ work[s].at # "entering" => OneReferral'
         /\ Reckoned'
<1>1. /\ UNCHANGED <<processed, rewardPaid, withdrawal>> /\ UNCHANGED referral
  BY DEF money
<1>2. Proper(step)'
  BY <1>1 DEF Proper
<1>3. /\ Carried' /\ work'[s] = step /\ \A t \in Sessions \ {s} : work'[t] = work[t]
  BY <1>1, <1>2, OneMoves DEF AmbassadorInv
<1>4. Reckoned'
  BY <1>1, <1>3, ReckonedKept DEF AmbassadorInv, Requesting
<1>5. ASSUME work[s].at # "entering" PROVE OneReferral'
  <2>1. \A t \in Sessions : Linking(t)' => work'[t] = work[t]
    BY <1>3 DEF Linking
  <2>2. "link" \notin slips' => \A t \in Sessions : Linking(t) => work'[t] = work[t]
    BY <1>3, <1>5 DEF Linking
  <2>3. QED BY <1>1, <2>1, <2>2, OneReferralKept DEF AmbassadorInv
<1>6. QED BY <1>3, <1>4, <1>5

LEMMA SubmitSafe == ASSUME AmbassadorInv, Submit PROVE AmbassadorInv'
<1>1. /\ UNCHANGED <<profile, processed, rewardPaid, withdrawal, ledger, referredBy, work, slips>>
      /\ UNCHANGED referral
      /\ application = "none" /\ application' = "pending"
  BY DEF Submit, money, referral
<1>2. TypeOK' /\ Carried'
  BY <1>1 DEF AmbassadorInv, TypeOK, Carried, Proper
<1>3. OneDecision'
  BY <1>1 DEF AmbassadorInv, OneDecision, Deciding, Carried, Proper, Decisions
<1>4. OneReferral'
  BY <1>1, OneReferralKept DEF AmbassadorInv
<1>5. Reckoned'
  BY <1>1, ReckonedKept DEF AmbassadorInv
<1>6. QED BY <1>2, <1>3, <1>4, <1>5 DEF AmbassadorInv

LEMMA ScheduleInterviewSafe ==
  ASSUME AmbassadorInv, NEW s \in Sessions, ScheduleInterview(s) PROVE AmbassadorInv'
<1>1. /\ UNCHANGED <<profile, processed, rewardPaid, withdrawal, ledger, referredBy, work>>
      /\ UNCHANGED referral /\ slips \subseteq slips'
      /\ application' = "interview_scheduled" /\ work[s].at = "idle"
  BY DEF ScheduleInterview, money, referral, Slip, Idle
<1>2. TypeOK' /\ Carried'
  BY <1>1 DEF AmbassadorInv, TypeOK, Carried, Proper, ScheduleInterview, Slip
<1>3. OneDecision'
  <2>1. "status" \notin slips' => \A t \in Sessions : ~Deciding(t)
    BY <1>1 DEF ScheduleInterview, Slip, Met, Others, Deciding
  <2>2. QED BY <1>1, <2>1 DEF OneDecision, Deciding, Decisions
<1>4. OneReferral'
  BY <1>1, OneReferralKept DEF AmbassadorInv
<1>5. Reckoned'
  BY <1>1, ReckonedKept DEF AmbassadorInv
<1>6. QED BY <1>2, <1>3, <1>4, <1>5 DEF AmbassadorInv

LEMMA AcceptApplicationSafe ==
  ASSUME AmbassadorInv, NEW s \in Sessions, AcceptApplication(s) PROVE AmbassadorInv'
<1> DEFINE step == [at |-> "ensuring", accept |-> TRUE]
<1>1. step \in [at : {"ensuring"}, accept : BOOLEAN] /\ step.at = "ensuring" /\ Proper(step)
  BY DEF Proper
<1> HIDE DEF step
<1>2. /\ Goto(s, step) /\ UNCHANGED profile /\ UNCHANGED money /\ slips \subseteq slips'
      /\ application' = "accepted" /\ work[s].at = "idle"
      /\ "status" \notin slips' => "status" \notin slips /\ ~Met(s)
  BY DEF AcceptApplication, Slip, Idle, step
<1>3. TypeOK'
  BY <1>2 DEF AmbassadorInv, TypeOK, money, referral, AcceptApplication, Slip
<1>4. /\ Carried' /\ work'[s] = step /\ \A t \in Sessions \ {s} : work'[t] = work[t]
      /\ OneReferral' /\ Reckoned'
  BY <1>1, <1>2, <1>3, StatusFrame
<1>5. OneDecision'
  BY <1>1, <1>2, <1>4 DEF step, OneDecision, Met, Others, Deciding
<1>6. QED BY <1>3, <1>4, <1>5 DEF AmbassadorInv

LEMMA ChangeStatusSafe ==
  ASSUME AmbassadorInv, NEW s \in Sessions, NEW to \in Decisions, ChangeStatus(s, to)
  PROVE  AmbassadorInv'
<1> DEFINE step == [at |-> "setting", to |-> to]
<1>1. step \in [at : {"setting"}, to : Decisions] /\ step.at = "setting" /\ step.to = to /\ Proper(step)
  BY DEF Proper
<1> HIDE DEF step
<1>2. /\ Goto(s, step) /\ UNCHANGED profile /\ UNCHANGED money /\ slips \subseteq slips'
      /\ application' = to /\ work[s].at = "idle"
      /\ "status" \notin slips' => "status" \notin slips /\ ~Met(s)
  BY DEF ChangeStatus, Slip, Idle, step
<1>3. TypeOK'
  BY <1>2 DEF AmbassadorInv, TypeOK, money, referral, ChangeStatus, Slip, Decisions
<1>4. /\ Carried' /\ work'[s] = step /\ \A t \in Sessions \ {s} : work'[t] = work[t]
      /\ OneReferral' /\ Reckoned'
  BY <1>1, <1>2, <1>3, StatusFrame
<1>5. OneDecision'
  BY <1>1, <1>2, <1>4 DEF OneDecision, Met, Others, Deciding
<1>6. QED BY <1>3, <1>4, <1>5 DEF AmbassadorInv

LEMMA OpenDetailSafe ==
  ASSUME AmbassadorInv, NEW s \in Sessions, OpenDetail(s) PROVE AmbassadorInv'
<1> DEFINE step == [at |-> "ensuring", accept |-> FALSE]
<1>1. step \in [at : {"ensuring"}, accept : BOOLEAN] /\ step.at = "ensuring" /\ Proper(step)
  BY DEF Proper
<1> HIDE DEF step
<1>2. /\ Goto(s, step) /\ UNCHANGED <<application, profile>> /\ UNCHANGED money
      /\ slips \subseteq slips' /\ application = "accepted" /\ work[s].at = "idle"
      /\ "status" \notin slips' => "status" \notin slips /\ ~Met(s)
  BY DEF OpenDetail, Slip, Idle, step, status
<1>3. TypeOK'
  BY <1>2 DEF AmbassadorInv, TypeOK, money, referral, OpenDetail, Slip
<1>4. /\ Carried' /\ work'[s] = step /\ \A t \in Sessions \ {s} : work'[t] = work[t]
      /\ OneReferral' /\ Reckoned'
  BY <1>1, <1>2, <1>3, StatusFrame
<1>5. OneDecision'
  BY <1>1, <1>2, <1>4 DEF AmbassadorInv, OneDecision, Met, Others, Deciding, Decisions
<1>6. QED BY <1>3, <1>4, <1>5 DEF AmbassadorInv

LEMMA FindProfileSafe ==
  ASSUME AmbassadorInv, NEW s \in Sessions, FindProfile(s) PROVE AmbassadorInv'
<1>1. /\ UNCHANGED <<application, profile>> /\ UNCHANGED money /\ UNCHANGED slips
      /\ work[s].at = "ensuring"
  BY DEF FindProfile, status
<1>2. PICK step :
        /\ Goto(s, step)
        /\ step = IF profile = "none" THEN [at |-> "creating"]
                  ELSE IF profile # "accepted" /\ work[s].accept
                       THEN [at |-> "setting", to |-> "accepted"] ELSE Idle
  BY DEF FindProfile
<1>3. \/ profile = "none" /\ step.at = "creating"
      \/ /\ profile # "none" /\ step.at = "setting"
         /\ step \in [at : {"setting"}, to : Decisions] /\ step.to = "accepted"
      \/ /\ profile # "none" /\ step.at = "idle"
         /\ profile = "accepted" \/ ~work[s].accept
  <2>1. CASE profile = "none"
    BY <1>2, <2>1
  <2>2. CASE profile # "none" /\ profile # "accepted" /\ work[s].accept
    BY <1>2, <2>2 DEF Decisions
  <2>3. CASE profile # "none" /\ ~(profile # "accepted" /\ work[s].accept)
    BY <1>2, <2>3 DEF Idle
  <2>4. QED BY <2>1, <2>2, <2>3
<1>4. TypeOK'
  BY <1>1 DEF AmbassadorInv, TypeOK, money, referral
<1>5. Proper(step)
  BY <1>3 DEF Proper
<1>6. /\ Carried' /\ work'[s] = step /\ \A t \in Sessions \ {s} : work'[t] = work[t]
      /\ OneReferral' /\ Reckoned'
  BY <1>1, <1>2, <1>3, <1>4, <1>5, StatusFrame
<1>7. OneDecision'
  <2>1. SUFFICES ASSUME "status" \notin slips PROVE OneDecision'
    BY <1>1 DEF OneDecision
  <2>2. /\ application = "accepted" /\ \A t \in Sessions \ {s} : ~Deciding(t)
        /\ ~work[s].accept => profile \in {"none", "accepted"}
    BY <1>1, <2>1 DEF AmbassadorInv, OneDecision, Deciding
  <2>3. QED BY <1>1, <1>3, <1>6, <2>2 DEF OneDecision, Deciding
<1>8. QED BY <1>4, <1>6, <1>7 DEF AmbassadorInv

LEMMA IdleIsProper == Proper(Idle) /\ Idle.at = "idle"
BY DEF Proper, Idle

LEMMA CreateProfileSafe ==
  ASSUME AmbassadorInv, NEW s \in Sessions, CreateProfile(s) PROVE AmbassadorInv'
<1>1. /\ UNCHANGED application /\ UNCHANGED money /\ UNCHANGED slips /\ Goto(s, Idle)
      /\ work[s].at = "creating"
      /\ profile' \in (IF profile = "none" THEN {"accepted"} ELSE {profile})
                        \cup (IF Faults THEN {profile} ELSE {})
  BY DEF CreateProfile
<1>2. profile' = profile \/ (profile = "none" /\ profile' = "accepted")
  <2>1. (IF Faults THEN {profile} ELSE {}) \subseteq {profile}
    OBVIOUS
  <2>2. CASE profile = "none"
    <3>1. profile' \in {"accepted"} \cup {profile}
      BY <1>1, <2>1, <2>2
    <3>2. QED BY <2>2, <3>1
  <2>3. CASE profile # "none"
    <3>1. profile' \in {profile} \cup {profile}
      BY <1>1, <2>1, <2>3
    <3>2. QED BY <3>1
  <2>4. QED BY <2>2, <2>3
<1>3. TypeOK'
  BY <1>1, <1>2 DEF AmbassadorInv, TypeOK, money, referral
<1>4. /\ Carried' /\ work'[s] = Idle /\ \A t \in Sessions \ {s} : work'[t] = work[t]
      /\ OneReferral' /\ Reckoned'
  BY <1>1, <1>3, StatusFrame, IdleIsProper
<1>5. OneDecision'
  <2>1. SUFFICES ASSUME "status" \notin slips PROVE OneDecision'
    BY <1>1 DEF OneDecision
  <2>2. /\ application = "accepted" /\ profile = "none"
        /\ \A t \in Sessions \ {s} : ~Deciding(t)
    BY <1>1, <2>1 DEF AmbassadorInv, OneDecision, Deciding
  <2>3. QED BY <1>1, <1>2, <1>4, <2>2, IdleIsProper DEF OneDecision, Deciding
<1>6. QED BY <1>3, <1>4, <1>5 DEF AmbassadorInv

LEMMA SetProfileSafe ==
  ASSUME AmbassadorInv, NEW s \in Sessions, SetProfile(s) PROVE AmbassadorInv'
<1>1. /\ UNCHANGED application /\ UNCHANGED money /\ slips \subseteq slips' /\ Goto(s, Idle)
      /\ work[s].at = "setting"
      /\ \/ slips' = slips /\ profile' = IF profile = "none" THEN "none" ELSE work[s].to
         \/ slips' = slips \cup {"status"} /\ profile' = profile
  BY DEF SetProfile, Slip
<1>2. work[s].to \in Decisions
  BY <1>1 DEF AmbassadorInv, Carried, Proper
<1>3. TypeOK'
  BY <1>1, <1>2 DEF AmbassadorInv, TypeOK, money, referral, Decisions
<1>4. /\ Carried' /\ work'[s] = Idle /\ \A t \in Sessions \ {s} : work'[t] = work[t]
      /\ OneReferral' /\ Reckoned'
  BY <1>1, <1>3, StatusFrame, IdleIsProper
<1>5. OneDecision'
  <2>1. SUFFICES ASSUME "status" \notin slips' PROVE OneDecision'
    BY DEF OneDecision
  <2>2. /\ application = work[s].to /\ "status" \notin slips
        /\ \A t \in Sessions \ {s} : ~Deciding(t)
    BY <1>1, <2>1 DEF AmbassadorInv, OneDecision, Deciding
  <2>3. QED BY <1>1, <1>4, <2>1, <2>2, IdleIsProper DEF OneDecision, Deciding
<1>6. QED BY <1>3, <1>4, <1>5 DEF AmbassadorInv

-----------------------------------------------------------------------------
(* Referrals.                                                              *)

LEMMA ReferralFrame ==
  ASSUME AmbassadorInv, NEW s \in Sessions, NEW step, Goto(s, step), Proper(step),
         UNCHANGED <<application, profile, processed, rewardPaid, withdrawal>>,
         slips \subseteq slips',
         step.at \notin {"ensuring", "creating", "setting", "reserving", "requesting"},
         work[s].at \notin {"ensuring", "creating", "setting"}
  PROVE  /\ Carried' /\ work'[s] = step
         /\ \A t \in Sessions \ {s} : work'[t] = work[t]
         /\ OneDecision' /\ Reckoned'
<1>1. Proper(step)'
  BY DEF Proper
<1>2. /\ Carried' /\ work'[s] = step /\ \A t \in Sessions \ {s} : work'[t] = work[t]
  BY <1>1, OneMoves DEF AmbassadorInv
<1>3. Reckoned'
  BY <1>2, ReckonedKept DEF AmbassadorInv, Requesting
<1>4. OneDecision'
  BY <1>2, OneDecisionKept DEF AmbassadorInv, Deciding
<1>5. QED BY <1>2, <1>3, <1>4

\* What a sign-up or a link that goes ahead sets out to write.
LEMMA SetOut ==
  ASSUME NEW to \in Referrers,
         NEW step, step = [at |-> IF ledger = "none" THEN "entering" ELSE "naming", to |-> to]
  PROVE  /\ step \in [at : {"entering", "naming"}, to : Referrers] /\ step.to = to
         /\ step.at = IF ledger = "none" THEN "entering" ELSE "naming"
         /\ Proper(step)
<1>1. /\ step \in [at : {"entering", "naming"}, to : Referrers] /\ step.to = to
      /\ step.at = IF ledger = "none" THEN "entering" ELSE "naming"
  OBVIOUS
<1>2. QED BY <1>1 DEF Proper

LEMMA SignUpSafe ==
  ASSUME AmbassadorInv, NEW s \in Sessions, NEW to \in Referrers, SignUp(s, to)
  PROVE  AmbassadorInv'
<1>1. PICK step :
        /\ step = [at |-> IF ledger = "none" THEN "entering" ELSE "naming", to |-> to]
        /\ Goto(s, step)
  BY DEF SignUp
<1>2. /\ step.at = (IF ledger = "none" THEN "entering" ELSE "naming") /\ step.to = to
      /\ Proper(step)
  BY <1>1, SetOut
<1>3. /\ UNCHANGED <<application, profile, processed, rewardPaid, withdrawal>>
      /\ UNCHANGED <<ledger, referredBy>>
      /\ slips \subseteq slips' /\ work[s].at = "idle"
      /\ "link" \notin slips' =>
           /\ "link" \notin slips /\ ledger \in {"none", to}
           /\ \A t \in Sessions \ {s} : ~Linking(t)
  BY DEF SignUp, Slip, Idle, status, money, referral, Others
<1>4. TypeOK'
  BY <1>3 DEF AmbassadorInv, TypeOK, SignUp, Slip
<1>5. /\ Carried' /\ work'[s] = step /\ \A t \in Sessions \ {s} : work'[t] = work[t]
      /\ OneDecision' /\ Reckoned'
  BY <1>1, <1>2, <1>3, ReferralFrame
<1>6. OneReferral'
  BY <1>2, <1>3, <1>5 DEF AmbassadorInv, OneReferral, Linking
<1>7. QED BY <1>4, <1>5, <1>6 DEF AmbassadorInv

LEMMA AdminLinkSafe ==
  ASSUME AmbassadorInv, NEW s \in Sessions, AdminLink(s) PROVE AmbassadorInv'
<1> DEFINE step == [at |-> "looking"]
<1>1. step.at = "looking" /\ Proper(step)
  BY DEF Proper
<1> HIDE DEF step
<1>2. /\ UNCHANGED <<application, profile, processed, rewardPaid, withdrawal>>
      /\ UNCHANGED referral /\ UNCHANGED <<ledger, referredBy>> /\ UNCHANGED slips
      /\ work[s].at = "idle" /\ Goto(s, step)
  BY DEF AdminLink, Idle, status, money, referral, step
<1>3. TypeOK'
  BY <1>2 DEF AmbassadorInv, TypeOK
<1>4. /\ Carried' /\ work'[s] = step /\ \A t \in Sessions \ {s} : work'[t] = work[t]
      /\ OneDecision' /\ Reckoned'
  BY <1>1, <1>2, ReferralFrame
<1>5. OneReferral'
  BY <1>1, <1>2, <1>4, OneReferralKept DEF AmbassadorInv, Linking
<1>6. QED BY <1>3, <1>4, <1>5 DEF AmbassadorInv

LEMMA FindLedgerSafe ==
  ASSUME AmbassadorInv, NEW s \in Sessions, FindLedger(s) PROVE AmbassadorInv'
<1>1. /\ UNCHANGED <<application, profile, processed, rewardPaid, withdrawal>>
      /\ UNCHANGED referral /\ UNCHANGED <<ledger, referredBy>> /\ slips \subseteq slips'
      /\ work[s].at = "looking"
      /\ "link" \notin slips' =>
           /\ "link" \notin slips
           /\ ledger # "other" => \A t \in Sessions \ {s} : ~Linking(t)
  BY DEF FindLedger, Slip, status, money, referral, Others
<1>2. TypeOK'
  BY <1>1 DEF AmbassadorInv, TypeOK, FindLedger, Slip
<1>3. CASE ledger = "other"
  <2>1. Goto(s, Idle)
    BY <1>3 DEF FindLedger
  <2>2. /\ Carried' /\ work'[s] = Idle /\ \A t \in Sessions \ {s} : work'[t] = work[t]
        /\ OneDecision' /\ Reckoned'
    BY <1>1, <2>1, ReferralFrame, IdleIsProper
  <2>3. OneReferral'
    BY <1>1, <2>2, OneReferralKept, IdleIsProper DEF AmbassadorInv, Linking
  <2>4. QED BY <1>2, <2>2, <2>3 DEF AmbassadorInv
<1>4. CASE ledger # "other"
  <2>1. PICK step :
          /\ step = [at |-> IF ledger = "none" THEN "entering" ELSE "naming", to |-> "ours"]
          /\ Goto(s, step)
    BY <1>4 DEF FindLedger
  <2>2. /\ step.at = (IF ledger = "none" THEN "entering" ELSE "naming") /\ step.to = "ours"
        /\ Proper(step)
    BY <2>1, SetOut DEF Referrers
  <2>3. /\ Carried' /\ work'[s] = step /\ \A t \in Sessions \ {s} : work'[t] = work[t]
        /\ OneDecision' /\ Reckoned'
    BY <1>1, <2>1, <2>2, ReferralFrame
  <2>4. ledger \in {"none", "ours"}
    BY <1>4 DEF AmbassadorInv, TypeOK, Referrers
  <2>5. OneReferral'
    BY <1>1, <1>4, <2>2, <2>3, <2>4 DEF AmbassadorInv, OneReferral, Linking
  <2>6. QED BY <1>2, <2>3, <2>5 DEF AmbassadorInv
<1>5. QED BY <1>3, <1>4

LEMMA EnterLedgerSafe ==
  ASSUME AmbassadorInv, NEW s \in Sessions, EnterLedger(s) PROVE AmbassadorInv'
<1>1. /\ UNCHANGED <<application, profile, processed, rewardPaid, withdrawal>>
      /\ UNCHANGED referredBy /\ UNCHANGED slips /\ work[s].at = "entering"
  BY DEF EnterLedger, status
<1>2. /\ work[s] \in [at : {"entering", "naming"}, to : Referrers]
      /\ "link" \notin slips =>
           /\ ledger = "none" /\ referredBy = "none"
           /\ \A t \in Sessions \ {s} : ~Linking(t)
  BY <1>1 DEF AmbassadorInv, Carried, Proper, OneReferral, Linking
<1>3. CASE ledger = "none" /\ ledger' = work[s].to /\ Goto(s, [work[s] EXCEPT !.at = "naming"])
  <2> DEFINE step == [work[s] EXCEPT !.at = "naming"]
  <2>1. /\ step \in [at : {"entering", "naming"}, to : Referrers]
        /\ step.at = "naming" /\ step.to = work[s].to
    BY <1>2
  <2>2. Goto(s, step)
    BY <1>3
  <2> HIDE DEF step
  <2>3. Proper(step)
    BY <2>1 DEF Proper
  <2>4. /\ Carried' /\ work'[s] = step /\ \A t \in Sessions \ {s} : work'[t] = work[t]
        /\ OneDecision' /\ Reckoned'
    BY <1>1, <2>1, <2>2, <2>3, ReferralFrame
  <2>5. TypeOK'
    BY <1>1, <1>2, <1>3 DEF AmbassadorInv, TypeOK
  <2>6. OneReferral'
    BY <1>1, <1>2, <1>3, <2>1, <2>4 DEF AmbassadorInv, OneReferral, Linking
  <2>7. QED BY <2>4, <2>5, <2>6 DEF AmbassadorInv
<1>4. CASE Goto(s, Idle) /\ UNCHANGED ledger
  <2>1. /\ Carried' /\ work'[s] = Idle /\ \A t \in Sessions \ {s} : work'[t] = work[t]
        /\ OneDecision' /\ Reckoned'
    BY <1>1, <1>4, ReferralFrame, IdleIsProper
  <2>2. TypeOK'
    BY <1>1, <1>4 DEF AmbassadorInv, TypeOK
  <2>3. OneReferral'
    BY <1>1, <1>2, <1>4, <2>1, IdleIsProper DEF AmbassadorInv, OneReferral, Linking
  <2>4. QED BY <2>1, <2>2, <2>3 DEF AmbassadorInv
<1>5. QED BY <1>3, <1>4 DEF EnterLedger

LEMMA NameReferrerSafe ==
  ASSUME AmbassadorInv, NEW s \in Sessions, NameReferrer(s) PROVE AmbassadorInv'
<1>1. /\ UNCHANGED <<application, profile, processed, rewardPaid, withdrawal>>
      /\ UNCHANGED ledger /\ slips \subseteq slips' /\ work[s].at = "naming" /\ Goto(s, Idle)
      /\ \/ slips' = slips /\ referredBy' = work[s].to
         \/ slips' = slips \cup {"link"} /\ referredBy' = referredBy
  BY DEF NameReferrer, status, Slip
<1>2. /\ work[s] \in [at : {"entering", "naming"}, to : Referrers]
      /\ "link" \notin slips =>
           /\ ledger = work[s].to /\ \A t \in Sessions \ {s} : ~Linking(t)
  BY <1>1 DEF AmbassadorInv, Carried, Proper, OneReferral, Linking
<1>3. /\ Carried' /\ work'[s] = Idle /\ \A t \in Sessions \ {s} : work'[t] = work[t]
      /\ OneDecision' /\ Reckoned'
  BY <1>1, ReferralFrame, IdleIsProper
<1>4. work[s].to \in Referrers
  BY <1>2
<1>5. TypeOK'
  BY <1>1, <1>4 DEF AmbassadorInv, TypeOK
<1>6. OneReferral'
  BY <1>1, <1>2, <1>3, IdleIsProper DEF AmbassadorInv, OneReferral, Linking
<1>7. QED BY <1>3, <1>5, <1>6 DEF AmbassadorInv

-----------------------------------------------------------------------------
(* Rewards and withdrawals.                                                *)

LEMMA MoneyFrame ==
  ASSUME AmbassadorInv, NEW s \in Sessions, NEW step, Goto(s, step), Proper(step)',
         UNCHANGED <<application, profile, ledger, referredBy>>, slips \subseteq slips',
         \A w \in Withdrawals : withdrawal[w] # NoRow => withdrawal'[w] # NoRow,
         step.at \in {"idle", "reserving", "requesting", "deciding"},
         work[s].at \in {"idle", "reserving", "requesting", "deciding"}
  PROVE  /\ Carried' /\ work'[s] = step
         /\ \A t \in Sessions \ {s} : work'[t] = work[t]
         /\ OneDecision' /\ OneReferral'
<1>1. /\ Carried' /\ work'[s] = step /\ \A t \in Sessions \ {s} : work'[t] = work[t]
  BY OneMoves DEF AmbassadorInv
<1>2. OneDecision'
  BY <1>1, OneDecisionKept DEF AmbassadorInv, Deciding
<1>3. OneReferral'
  BY <1>1, OneReferralKept DEF AmbassadorInv, Linking, referral
<1>4. QED BY <1>1, <1>2, <1>3

LEMMA Numbers ==
  ASSUME AmbassadorInv
  PROVE  /\ rewardPaid \in Nat /\ processed \in Nat /\ Earned(processed) \in Nat
         /\ Total({"pending", "approved"}) \in Nat /\ Total({"paid"}) \in Nat
         /\ Reserved = Total({"pending", "approved"})
         /\ Less(Earned(processed), rewardPaid) \in Nat
<1>1. rewardPaid \in Nat /\ processed \in Nat
  BY AmbassadorAssumption DEF AmbassadorInv, TypeOK
<1>2. Earned(processed) \in Nat
  BY <1>1, EarnedGrows
<1>3. Total({"pending", "approved"}) \in Nat /\ Total({"paid"}) \in Nat
  BY TypedTable, TotalOf, TotalIs DEF AmbassadorInv
<1>4. QED BY <1>1, <1>2, <1>3 DEF Less, Reserved

LEMMA ProcessSafe == ASSUME AmbassadorInv, Process PROVE AmbassadorInv'
<1>1. /\ UNCHANGED <<application, profile, ledger, referredBy, rewardPaid, withdrawal, work, slips>>
      /\ processed' = processed + 1 /\ processed < MaxProcessed
      /\ UNCHANGED referral
  BY DEF Process, status, referral
<1>2. /\ rewardPaid \in Nat /\ processed \in Nat /\ processed' \in Nat
      /\ Earned(processed) \in Nat /\ Earned(processed') \in Nat
      /\ Earned(processed) <= Earned(processed')
  BY <1>1, Numbers, EarnedGrows
<1>3. TypeOK'
  BY <1>1, <1>2, AmbassadorAssumption DEF AmbassadorInv, TypeOK
<1>4. Carried' /\ OneDecision' /\ OneReferral'
  BY <1>1, OneDecisionKept, OneReferralKept DEF AmbassadorInv, Carried, Proper
<1>5. Earned(processed)' = Earned(processed')
  BY DEF Earned
<1>6. /\ Total({"paid"})' = Total({"paid"})
      /\ Total({"pending", "approved"})' = Total({"pending", "approved"})
      /\ Total({"pending", "approved"}) \in Nat
  BY <1>1, Numbers DEF Total, Rows
<1>7. \A n \in Nat : n <= Less(Earned(processed), rewardPaid) =>
        n <= Less(Earned(processed), rewardPaid)'
  BY <1>1, <1>2, <1>5 DEF Less
<1>8. \A s \in Sessions :
        /\ work[s].at = "reserving" => work[s].available \in Nat
        /\ work[s].at = "requesting" => work[s].amount \in Nat
  BY AmbassadorAssumption DEF AmbassadorInv, Carried, Proper
<1>9. Reckoned'
  BY <1>1, <1>2, <1>5, <1>6, <1>7, <1>8 DEF AmbassadorInv, Reckoned
<1>10. QED BY <1>3, <1>4, <1>9 DEF AmbassadorInv

LEMMA ReadRewardsSafe ==
  ASSUME AmbassadorInv, NEW s \in Sessions, NEW amount \in Amounts, ReadRewards(s, amount)
  PROVE  AmbassadorInv'
<1> PICK step : step = [at |-> "reserving", amount |-> amount,
                        available |-> Less(Earned(processed), rewardPaid)]
  OBVIOUS
<1>1. /\ step \in [at : {"reserving"}, amount : Amounts, available : Nat]
      /\ step.at = "reserving" /\ step.available = Less(Earned(processed), rewardPaid)
  BY Numbers
<1>2. /\ Goto(s, step) /\ UNCHANGED <<application, profile, ledger, referredBy>>
      /\ UNCHANGED <<processed, rewardPaid, withdrawal>> /\ UNCHANGED slips
      /\ work[s].at = "idle"
  BY DEF ReadRewards, status, money, referral, Idle
<1>3. Proper(step)'
  BY <1>1 DEF Proper
<1>4. /\ Carried' /\ work'[s] = step /\ \A t \in Sessions \ {s} : work'[t] = work[t]
      /\ OneDecision' /\ OneReferral'
  BY <1>1, <1>2, <1>3, MoneyFrame
<1>5. TypeOK'
  BY <1>2 DEF AmbassadorInv, TypeOK
<1>6. /\ Total({"paid"})' = Total({"paid"})
      /\ Total({"pending", "approved"})' = Total({"pending", "approved"})
  BY <1>2 DEF Total, Rows
<1>7. /\ Earned(processed)' = Earned(processed)
      /\ Less(Earned(processed), rewardPaid)' = Less(Earned(processed), rewardPaid)
  BY <1>2 DEF Earned, Less
<1>8. Less(Earned(processed), rewardPaid) \in Nat
  BY Numbers
<1>9. Reckoned'
  <2>1. SUFFICES ASSUME "money" \notin slips PROVE Reckoned'
    BY <1>2 DEF Reckoned
  <2>2. \A t \in Sessions :
          /\ work'[t].at = "reserving" =>
               work'[t].available <= Less(Earned(processed), rewardPaid)
          /\ work'[t].at = "requesting" =>
               rewardPaid + Total({"pending", "approved"}) + work'[t].amount
                 <= Earned(processed)
    BY <1>1, <1>4, <1>8, <2>1 DEF AmbassadorInv, Reckoned
  <2>3. /\ rewardPaid = Total({"paid"})
        /\ rewardPaid + Total({"pending", "approved"}) <= Earned(processed)
    BY <2>1 DEF AmbassadorInv, Reckoned
  <2>4. QED BY <1>2, <1>6, <1>7, <2>2, <2>3 DEF Reckoned
<1>10. QED BY <1>4, <1>5, <1>9 DEF AmbassadorInv

LEMMA ReadReservedSafe ==
  ASSUME AmbassadorInv, NEW s \in Sessions, ReadReserved(s) PROVE AmbassadorInv'
<1>1. /\ UNCHANGED <<application, profile, ledger, referredBy>>
      /\ UNCHANGED <<processed, rewardPaid, withdrawal>> /\ UNCHANGED slips
      /\ work[s].at = "reserving"
  BY DEF ReadReserved, status, money, referral
<1>2. /\ work[s].amount \in Amounts /\ work[s].amount \in Nat \ {0}
      /\ work[s].available \in Nat
      /\ "money" \notin slips => work[s].available <= Less(Earned(processed), rewardPaid)
  BY <1>1, AmbassadorAssumption DEF AmbassadorInv, Carried, Proper, Reckoned
<1>3. TypeOK'
  BY <1>1 DEF AmbassadorInv, TypeOK
<1>4. CASE work[s].amount <= Less(work[s].available, Reserved)
  <2> PICK step : step = [at |-> "requesting", amount |-> work[s].amount]
    OBVIOUS
  <2>1. /\ step \in [at : {"requesting"}, amount : Amounts] /\ step.at = "requesting"
        /\ step.amount = work[s].amount
    BY <1>2
  <2>2. Goto(s, step)
    BY <1>4 DEF ReadReserved
  <2>3. Proper(step)'
    BY <2>1 DEF Proper
  <2>4. /\ Carried' /\ work'[s] = step /\ \A t \in Sessions \ {s} : work'[t] = work[t]
        /\ OneDecision' /\ OneReferral'
    BY <1>1, <2>1, <2>2, <2>3, MoneyFrame
  <2>5. "money" \notin slips =>
          rewardPaid + Total({"pending", "approved"}) + work[s].amount <= Earned(processed)
    BY <1>2, <1>4, Numbers DEF Less
  <2>6. /\ Total({"paid"})' = Total({"paid"}) /\ Earned(processed)' = Earned(processed)
        /\ Total({"pending", "approved"})' = Total({"pending", "approved"})
        /\ Less(Earned(processed), rewardPaid)' = Less(Earned(processed), rewardPaid)
    BY <1>1 DEF Total, Rows, Earned, Less
  <2>7. Reckoned'
    BY <1>1, <2>1, <2>4, <2>5, <2>6 DEF AmbassadorInv, Reckoned
  <2>8. QED BY <1>3, <2>4, <2>7 DEF AmbassadorInv
<1>5. CASE ~(work[s].amount <= Less(work[s].available, Reserved))
  <2>1. Goto(s, Idle)
    BY <1>5 DEF ReadReserved
  <2>2. /\ Carried' /\ work'[s] = Idle /\ \A t \in Sessions \ {s} : work'[t] = work[t]
        /\ OneDecision' /\ OneReferral'
    BY <1>1, <2>1, MoneyFrame, IdleIsProper DEF Proper
  <2>3. Reckoned'
    BY <1>1, <2>2, ReckonedKept, IdleIsProper DEF AmbassadorInv, Requesting
  <2>4. QED BY <1>3, <2>2, <2>3 DEF AmbassadorInv
<1>6. QED BY <1>4, <1>5

LEMMA RowPut ==
  ASSUME AmbassadorInv, NEW w \in Withdrawals, NEW row \in Row,
         withdrawal' = [withdrawal EXCEPT ![w] = row]
  PROVE  /\ withdrawal \in Table /\ withdrawal' \in Table /\ withdrawal'[w] = row
         /\ \A v \in Withdrawals \ {w} : withdrawal'[v] = withdrawal[v]
         /\ \A v \in Withdrawals : withdrawal[v] # NoRow => withdrawal'[v] # NoRow
<1>1. withdrawal \in Table
  BY TypedTable DEF AmbassadorInv
<1>2. /\ withdrawal' \in Table /\ withdrawal'[w] = row
      /\ \A v \in Withdrawals \ {w} : withdrawal'[v] = withdrawal[v]
  BY <1>1 DEF Table
<1>3. row # NoRow
  BY DEF Row, RowStates, NoRow
<1>4. QED BY <1>1, <1>2, <1>3

\* A step that puts row w into another state, seen from the totals.
LEMMA RowMoves ==
  ASSUME AmbassadorInv, NEW w \in Withdrawals, NEW row \in Row,
         withdrawal' = [withdrawal EXCEPT ![w] = row],
         NEW states, "none" \notin states
  PROVE  /\ Total(states) \in Nat /\ Total(states)' \in Nat
         /\ PartIn(withdrawal, w, states) \in Nat
         /\ Total(states)' + PartIn(withdrawal, w, states)
              = Total(states) + (IF row.status \in states THEN row.amount ELSE 0)
<1>1. PICK old : old = withdrawal
  OBVIOUS
<1>2. PICK new : new = withdrawal'
  OBVIOUS
<1>3. /\ old \in Table /\ new \in Table /\ new[w] = row
      /\ \A v \in Withdrawals \ {w} : new[v] = old[v]
  BY <1>1, <1>2, RowPut
<1>4. /\ TotalIn(old, states) \in Nat /\ TotalIn(new, states) \in Nat
      /\ PartIn(old, w, states) \in Nat
      /\ TotalIn(new, states) + PartIn(old, w, states)
           = TotalIn(old, states) + PartIn(new, w, states)
  BY <1>3, TotalChanges
<1>5. Total(states) = TotalIn(old, states) /\ Total(states)' = TotalIn(new, states)
  BY <1>1, <1>2, <1>3, TotalOf
<1>6. PartIn(new, w, states) = IF row.status \in states THEN row.amount ELSE 0
  BY <1>3 DEF PartIn
<1>7. QED BY <1>1, <1>4, <1>5, <1>6

LEMMA RequestWithdrawalSafe ==
  ASSUME AmbassadorInv, NEW s \in Sessions, NEW w \in Withdrawals, RequestWithdrawal(s, w)
  PROVE  AmbassadorInv'
<1> PICK row : row = [status |-> "pending", amount |-> work[s].amount]
  OBVIOUS
<1>1. /\ UNCHANGED <<application, profile, ledger, referredBy, processed, rewardPaid>>
      /\ slips \subseteq slips' /\ work[s].at = "requesting" /\ Goto(s, Idle)
      /\ withdrawal[w] = NoRow /\ withdrawal' = [withdrawal EXCEPT ![w] = row]
      /\ "money" \notin slips' =>
           "money" \notin slips /\ \A t \in Sessions \ {s} : ~Requesting(t)
  BY DEF RequestWithdrawal, status, referral, Slip, Others
<1>2. /\ work[s].amount \in Amounts /\ work[s].amount \in Nat
      /\ "money" \notin slips =>
           rewardPaid + Total({"pending", "approved"}) + work[s].amount <= Earned(processed)
  BY <1>1, AmbassadorAssumption DEF AmbassadorInv, Carried, Proper, Reckoned
<1>3. row \in Row /\ row.status = "pending" /\ row.amount = work[s].amount
  BY <1>2 DEF Row, RowStates
<1>4. /\ withdrawal' \in Table
      /\ \A v \in Withdrawals : withdrawal[v] # NoRow => withdrawal'[v] # NoRow
      /\ Total({"paid"})' = Total({"paid"})
      /\ Total({"pending", "approved"})' = Total({"pending", "approved"}) + work[s].amount
  <2>1. \A states : "none" \notin states => PartIn(withdrawal, w, states) = 0
    BY <1>1 DEF PartIn, NoRow
  <2>2. /\ withdrawal' \in Table
        /\ \A v \in Withdrawals : withdrawal[v] # NoRow => withdrawal'[v] # NoRow
    BY <1>1, <1>3, RowPut
  <2>3. /\ Total({"paid"}) \in Nat /\ Total({"paid"})' \in Nat
        /\ Total({"paid"})' + PartIn(withdrawal, w, {"paid"})
             = Total({"paid"}) + (IF row.status \in {"paid"} THEN row.amount ELSE 0)
    BY <1>1, <1>3, RowMoves
  <2>4. /\ Total({"pending", "approved"}) \in Nat /\ Total({"pending", "approved"})' \in Nat
        /\ Total({"pending", "approved"})' + PartIn(withdrawal, w, {"pending", "approved"})
             = Total({"pending", "approved"})
                 + (IF row.status \in {"pending", "approved"} THEN row.amount ELSE 0)
    BY <1>1, <1>3, RowMoves
  <2>5. /\ PartIn(withdrawal, w, {"paid"}) = 0
        /\ PartIn(withdrawal, w, {"pending", "approved"}) = 0
        /\ (IF row.status \in {"paid"} THEN row.amount ELSE 0) = 0
        /\ (IF row.status \in {"pending", "approved"} THEN row.amount ELSE 0) = work[s].amount
    BY <1>3, <2>1
  <2>6. QED BY <1>2, <2>2, <2>3, <2>4, <2>5
<1>5. /\ Carried' /\ work'[s] = Idle /\ \A t \in Sessions \ {s} : work'[t] = work[t]
      /\ OneDecision' /\ OneReferral'
  BY <1>1, <1>4, MoneyFrame, IdleIsProper DEF Proper
<1>6. TypeOK'
  BY <1>1, <1>4 DEF AmbassadorInv, TypeOK, Table, Row, RowStates, RequestWithdrawal, Slip
<1>7. Reckoned'
  <2>1. SUFFICES ASSUME "money" \notin slips' PROVE Reckoned'
    BY DEF Reckoned
  <2>2. \A t \in Sessions : ~Requesting(t)'
    BY <1>1, <1>5, <2>1, IdleIsProper DEF Requesting
  <2>3. Earned(processed)' = Earned(processed)
    BY <1>1 DEF Earned
  <2>4. rewardPaid' = Total({"paid"})'
    BY <1>1, <1>4, <2>1 DEF AmbassadorInv, Reckoned
  <2>5. rewardPaid' + Total({"pending", "approved"})' <= Earned(processed)'
    BY <1>1, <1>2, <1>4, <2>1, <2>3, Numbers
  <2>6. QED BY <2>2, <2>4, <2>5 DEF Reckoned, Requesting
<1>8. QED BY <1>5, <1>6, <1>7 DEF AmbassadorInv

LEMMA LoadWithdrawalSafe ==
  ASSUME AmbassadorInv, NEW s \in Sessions, NEW w \in Withdrawals,
         NEW to \in {"approved", "rejected", "paid"}, LoadWithdrawal(s, w, to)
  PROVE  AmbassadorInv'
<1> PICK step : step = [at |-> "deciding", row |-> w, read |-> withdrawal[w].status, to |-> to]
  OBVIOUS
<1>1. /\ UNCHANGED <<application, profile, ledger, referredBy>>
      /\ UNCHANGED <<processed, rewardPaid, withdrawal>> /\ UNCHANGED slips
      /\ work[s].at = "idle" /\ Goto(s, step) /\ withdrawal[w].status \in Allows(to)
  BY DEF LoadWithdrawal, status, money, referral, Idle
<1>2. withdrawal[w].status \in {"pending", "approved"}
  BY <1>1 DEF Allows
<1>3. withdrawal[w] # NoRow /\ withdrawal[w].status \in RowStates
  BY <1>2 DEF NoRow, RowStates
<1>4. /\ step \in [at : {"deciding"}, row : Withdrawals, read : RowStates,
                   to : {"approved", "rejected", "paid"}]
      /\ step.at = "deciding" /\ step.read \in Allows(step.to) /\ withdrawal[step.row] # NoRow
  BY <1>1, <1>3
<1>5. Proper(step)'
  BY <1>1, <1>4 DEF Proper
<1>6. /\ Carried' /\ work'[s] = step /\ \A t \in Sessions \ {s} : work'[t] = work[t]
      /\ OneDecision' /\ OneReferral'
  BY <1>1, <1>4, <1>5, MoneyFrame
<1>7. TypeOK'
  BY <1>1 DEF AmbassadorInv, TypeOK
<1>8. Reckoned'
  BY <1>1, <1>4, <1>6, ReckonedKept DEF AmbassadorInv, Requesting
<1>9. QED BY <1>6, <1>7, <1>8 DEF AmbassadorInv

\* The row a decision is about, and what it was when it was read.
LEMMA Decided ==
  ASSUME AmbassadorInv, NEW s \in Sessions, work[s].at = "deciding"
  PROVE  /\ work[s].row \in Withdrawals /\ work[s].to \in {"approved", "rejected", "paid"}
         /\ work[s].read \in Allows(work[s].to)
         /\ withdrawal[work[s].row] \in Row
<1>1. /\ work[s].row \in Withdrawals /\ work[s].to \in {"approved", "rejected", "paid"}
      /\ work[s].read \in Allows(work[s].to) /\ withdrawal[work[s].row] # NoRow
  BY DEF AmbassadorInv, Carried, Proper
<1>2. withdrawal \in Table
  BY TypedTable DEF AmbassadorInv
<1>3. QED BY <1>1, <1>2 DEF Table

LEMMA DecideWithdrawalSafe ==
  ASSUME AmbassadorInv, NEW s \in Sessions, DecideWithdrawal(s) PROVE AmbassadorInv'
<1> PICK w : w = work[s].row
  OBVIOUS
<1> PICK row : row = [withdrawal[w] EXCEPT !.status = work[s].to]
  OBVIOUS
<1>1. /\ UNCHANGED <<application, profile, ledger, referredBy, processed, rewardPaid>>
      /\ slips \subseteq slips' /\ work[s].at = "deciding" /\ Goto(s, Idle)
      /\ work[s].to # "paid"
      /\ withdrawal' = [withdrawal EXCEPT ![w] = row]
      /\ "money" \notin slips' => "money" \notin slips /\ withdrawal[w].status = work[s].read
  BY DEF DecideWithdrawal, status, referral, Slip
<1>2. /\ w \in Withdrawals /\ work[s].to \in {"approved", "rejected"}
      /\ work[s].read \in Allows(work[s].to) /\ withdrawal[w] \in Row
  BY <1>1, Decided
<1>3. /\ row \in Row /\ row.status = work[s].to /\ row.amount = withdrawal[w].amount
      /\ row.amount \in Nat
  BY <1>2, AmbassadorAssumption DEF Row, RowStates
<1>4. /\ withdrawal' \in Table
      /\ \A v \in Withdrawals : withdrawal[v] # NoRow => withdrawal'[v] # NoRow
  BY <1>1, <1>2, <1>3, RowPut
<1>5. "money" \notin slips' =>
        /\ Total({"paid"})' = Total({"paid"})
        /\ Total({"pending", "approved"})' \in Nat
        /\ Total({"pending", "approved"})' <= Total({"pending", "approved"})
  <2>1. SUFFICES ASSUME "money" \notin slips'
                 PROVE  /\ Total({"paid"})' = Total({"paid"})
                        /\ Total({"pending", "approved"})' \in Nat
                        /\ Total({"pending", "approved"})' <= Total({"pending", "approved"})
    OBVIOUS
  <2>2. /\ work[s].to = "approved" => withdrawal[w].status = "pending"
        /\ withdrawal[w].status \in {"pending", "approved"}
    BY <1>1, <1>2, <2>1 DEF Allows
  <2>3. /\ Total({"paid"}) \in Nat /\ Total({"paid"})' \in Nat
        /\ Total({"paid"})' + PartIn(withdrawal, w, {"paid"})
             = Total({"paid"}) + (IF row.status \in {"paid"} THEN row.amount ELSE 0)
    BY <1>1, <1>2, <1>3, RowMoves
  <2>4. /\ Total({"pending", "approved"}) \in Nat /\ Total({"pending", "approved"})' \in Nat
        /\ Total({"pending", "approved"})' + PartIn(withdrawal, w, {"pending", "approved"})
             = Total({"pending", "approved"})
                 + (IF row.status \in {"pending", "approved"} THEN row.amount ELSE 0)
    BY <1>1, <1>2, <1>3, RowMoves
  <2>5. PartIn(withdrawal, w, {"paid"}) = 0 /\ row.status # "paid"
    BY <1>2, <1>3, <2>2 DEF PartIn
  <2>6. PartIn(withdrawal, w, {"pending", "approved"}) = row.amount
    BY <1>3, <2>2 DEF PartIn
  <2>7. QED BY <1>3, <2>3, <2>4, <2>5, <2>6
<1>6. /\ Carried' /\ work'[s] = Idle /\ \A t \in Sessions \ {s} : work'[t] = work[t]
      /\ OneDecision' /\ OneReferral'
  BY <1>1, <1>4, MoneyFrame, IdleIsProper DEF Proper
<1>7. TypeOK'
  BY <1>1, <1>4 DEF AmbassadorInv, TypeOK, Table, Row, RowStates, DecideWithdrawal, Slip
<1>8. Reckoned'
  <2>1. SUFFICES ASSUME "money" \notin slips' PROVE Reckoned'
    BY DEF Reckoned
  <2>2. /\ Earned(processed)' = Earned(processed)
        /\ Less(Earned(processed), rewardPaid)' = Less(Earned(processed), rewardPaid)
    BY <1>1 DEF Earned, Less
  <2>3. rewardPaid' = Total({"paid"})'
    BY <1>1, <1>5, <2>1 DEF AmbassadorInv, Reckoned
  <2>4. rewardPaid + Total({"pending", "approved"}) <= Earned(processed)
    BY <1>1, <2>1 DEF AmbassadorInv, Reckoned
  <2>5. rewardPaid' + Total({"pending", "approved"})' <= Earned(processed)'
    BY <1>1, <1>5, <2>1, <2>2, <2>4, Numbers
  <2>6. ASSUME NEW t \in Sessions, work'[t].at = "reserving"
        PROVE  work'[t].available <= Less(Earned(processed), rewardPaid)'
    BY <1>1, <1>6, <2>1, <2>2, <2>6, IdleIsProper DEF AmbassadorInv, Reckoned
  <2>7. ASSUME NEW t \in Sessions, work'[t].at = "requesting"
        PROVE  rewardPaid' + Total({"pending", "approved"})' + work'[t].amount
                 <= Earned(processed)'
    <3>1. work'[t] = work[t]
      BY <1>6, <2>7, IdleIsProper
    <3>2. work[t].amount \in Nat
      BY <2>7, <3>1, AmbassadorAssumption DEF AmbassadorInv, Carried, Proper
    <3>3. rewardPaid + Total({"pending", "approved"}) + work[t].amount <= Earned(processed)
      BY <1>1, <2>1, <2>7, <3>1 DEF AmbassadorInv, Reckoned
    <3>4. QED BY <1>1, <1>5, <2>1, <2>2, <3>1, <3>2, <3>3, Numbers
  <2>8. QED BY <2>3, <2>5, <2>6, <2>7 DEF Reckoned
<1>9. QED BY <1>6, <1>7, <1>8 DEF AmbassadorInv

LEMMA PayWithdrawalSafe ==
  ASSUME AmbassadorInv, NEW s \in Sessions, PayWithdrawal(s) PROVE AmbassadorInv'
<1> PICK w : w = work[s].row
  OBVIOUS
<1> PICK row : row = [withdrawal[w] EXCEPT !.status = "paid"]
  OBVIOUS
<1>1. /\ UNCHANGED <<application, profile, ledger, referredBy, processed>>
      /\ slips \subseteq slips' /\ work[s].at = "deciding" /\ Goto(s, Idle)
      /\ work[s].to = "paid"
  BY DEF PayWithdrawal, status, referral, Slip
<1>2. /\ w \in Withdrawals /\ work[s].read = "approved" /\ withdrawal[w] \in Row
  BY <1>1, Decided DEF Allows
<1>3. CASE UNCHANGED <<withdrawal, rewardPaid, slips>>
  <2>1. /\ Carried' /\ work'[s] = Idle /\ \A t \in Sessions \ {s} : work'[t] = work[t]
        /\ OneDecision' /\ OneReferral'
    BY <1>1, <1>3, MoneyFrame, IdleIsProper DEF Proper
  <2>2. TypeOK'
    BY <1>1, <1>3 DEF AmbassadorInv, TypeOK
  <2>3. Reckoned'
    BY <1>1, <1>3, <2>1, ReckonedKept, IdleIsProper DEF AmbassadorInv, Requesting
  <2>4. QED BY <2>1, <2>2, <2>3 DEF AmbassadorInv
<1>4. CASE /\ withdrawal' = [withdrawal EXCEPT ![w].status = "paid"]
           /\ rewardPaid' = rewardPaid + withdrawal[w].amount
           /\ Slip("money", \/ withdrawal[w].status # work[s].read
                            \/ \E t \in Others(s) : Requesting(t))
  <2>1. /\ withdrawal' = [withdrawal EXCEPT ![w] = row]
        /\ rewardPaid' = rewardPaid + withdrawal[w].amount
        /\ "money" \notin slips' =>
             /\ "money" \notin slips /\ withdrawal[w].status = "approved"
             /\ \A t \in Sessions \ {s} : ~Requesting(t)
    BY <1>2, <1>4 DEF Slip, Others
  <2>2. /\ row \in Row /\ row.status = "paid" /\ row.amount = withdrawal[w].amount
        /\ row.amount \in Nat
    BY <1>2, AmbassadorAssumption DEF Row, RowStates
  <2>3. /\ withdrawal' \in Table
        /\ \A v \in Withdrawals : withdrawal[v] # NoRow => withdrawal'[v] # NoRow
    BY <1>2, <2>1, <2>2, RowPut
  <2>4. "money" \notin slips' =>
          /\ Total({"paid"})' = Total({"paid"}) + row.amount
          /\ Total({"pending", "approved"})' \in Nat
          /\ Total({"pending", "approved"})' + row.amount = Total({"pending", "approved"})
    <3>1. SUFFICES ASSUME "money" \notin slips'
                   PROVE  /\ Total({"paid"})' = Total({"paid"}) + row.amount
                          /\ Total({"pending", "approved"})' \in Nat
                          /\ Total({"pending", "approved"})' + row.amount
                               = Total({"pending", "approved"})
      OBVIOUS
    <3>2. /\ Total({"paid"}) \in Nat /\ Total({"paid"})' \in Nat
          /\ Total({"paid"})' + PartIn(withdrawal, w, {"paid"})
               = Total({"paid"}) + (IF row.status \in {"paid"} THEN row.amount ELSE 0)
      BY <1>2, <2>1, <2>2, RowMoves
    <3>3. /\ Total({"pending", "approved"}) \in Nat /\ Total({"pending", "approved"})' \in Nat
          /\ Total({"pending", "approved"})' + PartIn(withdrawal, w, {"pending", "approved"})
               = Total({"pending", "approved"})
                   + (IF row.status \in {"pending", "approved"} THEN row.amount ELSE 0)
      BY <1>2, <2>1, <2>2, RowMoves
    <3>4. /\ PartIn(withdrawal, w, {"paid"}) = 0
          /\ PartIn(withdrawal, w, {"pending", "approved"}) = row.amount
      BY <2>1, <2>2, <3>1 DEF PartIn
    <3>5. QED BY <2>2, <3>2, <3>3, <3>4
  <2>5. /\ Carried' /\ work'[s] = Idle /\ \A t \in Sessions \ {s} : work'[t] = work[t]
        /\ OneDecision' /\ OneReferral'
    BY <1>1, <2>3, MoneyFrame, IdleIsProper DEF Proper
  <2>6. rewardPaid' \in Nat
    BY <2>1, <2>2, Numbers
  <2>7. TypeOK'
    BY <1>1, <1>4, <2>3, <2>6 DEF AmbassadorInv, TypeOK, Table, Row, RowStates, Slip
  <2>8. Reckoned'
    <3>1. SUFFICES ASSUME "money" \notin slips' PROVE Reckoned'
      BY DEF Reckoned
    <3>2. \A t \in Sessions : ~Requesting(t)'
      BY <1>1, <2>1, <2>5, <3>1, IdleIsProper DEF Requesting
    <3>3. Earned(processed)' = Earned(processed)
      BY <1>1 DEF Earned
    <3>4. /\ rewardPaid = Total({"paid"})
          /\ rewardPaid + Total({"pending", "approved"}) <= Earned(processed)
      BY <2>1, <3>1 DEF AmbassadorInv, Reckoned
    <3>5. /\ rewardPaid' = Total({"paid"})'
          /\ rewardPaid' + Total({"pending", "approved"})' <= Earned(processed)'
      BY <2>1, <2>2, <2>4, <3>1, <3>3, <3>4, Numbers
    <3>6. QED BY <3>2, <3>5 DEF Reckoned, Requesting
  <2>9. QED BY <2>5, <2>7, <2>8 DEF AmbassadorInv
<1>5. QED BY <1>3, <1>4 DEF PayWithdrawal

-----------------------------------------------------------------------------
\* A handler dies before its next write.
LEMMA DieSafe ==
  ASSUME AmbassadorInv, NEW s \in Sessions, Die(s) PROVE AmbassadorInv'
<1> DEFINE status1 == IF \/ work[s].at = "setting"
                         \/ work[s].at = "ensuring" /\ work[s].accept
                      THEN {"status"} ELSE {}
           link1 == IF work[s].at = "naming" THEN {"link"} ELSE {}
<1>1. /\ UNCHANGED <<application, profile, processed, rewardPaid, withdrawal>>
      /\ UNCHANGED <<ledger, referredBy>> /\ UNCHANGED referral /\ Goto(s, Idle)
      /\ slips' = slips \cup status1 \cup link1
  BY DEF Die, status, money, referral
<1>2. /\ work[s].at = "setting" => "status" \in slips'
      /\ work[s].at = "ensuring" => "status" \in slips' \/ ~work[s].accept
      /\ work[s].at = "naming" => "link" \in slips'
      /\ slips \subseteq slips' /\ slips' \subseteq slips \cup {"status", "link"}
  BY <1>1
<1> HIDE DEF status1, link1
<1>3. /\ Carried' /\ work'[s] = Idle /\ \A t \in Sessions \ {s} : work'[t] = work[t]
  BY <1>1, OneMoves, IdleIsProper DEF AmbassadorInv, Proper
<1>4. TypeOK'
  BY <1>1, <1>2 DEF AmbassadorInv, TypeOK
<1>5. Reckoned'
  BY <1>1, <1>2, <1>3, ReckonedKept, IdleIsProper DEF AmbassadorInv, Requesting
<1>6. OneReferral'
  <2>1. SUFFICES ASSUME "link" \notin slips' PROVE OneReferral'
    BY DEF OneReferral
  <2>2. CASE work[s].at = "entering"
    BY <1>1, <1>2, <1>3, <2>1, <2>2, IdleIsProper DEF AmbassadorInv, OneReferral, Linking
  <2>3. CASE ~Linking(s)
    BY <1>1, <1>2, <1>3, <2>3, OneReferralKept, IdleIsProper DEF AmbassadorInv, Linking
  <2>4. QED BY <1>2, <2>1, <2>2, <2>3 DEF Linking
<1>7. OneDecision'
  <2>1. SUFFICES ASSUME "status" \notin slips' PROVE OneDecision'
    BY DEF OneDecision
  <2>2. CASE Deciding(s)
    <3>1. /\ application = "accepted" /\ profile \in {"none", "accepted"}
          /\ \A t \in Sessions \ {s} : ~Deciding(t)
      BY <1>2, <2>1, <2>2 DEF AmbassadorInv, OneDecision, Deciding
    <3>2. QED BY <1>1, <1>3, <3>1, IdleIsProper DEF OneDecision, Deciding
  <2>3. CASE ~Deciding(s)
    BY <1>1, <1>2, <1>3, <2>3, OneDecisionKept, IdleIsProper DEF AmbassadorInv, Deciding
  <2>4. QED BY <2>2, <2>3
<1>8. QED BY <1>3, <1>4, <1>5, <1>6, <1>7 DEF AmbassadorInv

\* Every step keeps the invariant.
LEMMA NextAmbassador == AmbassadorInv /\ [Next]_vars => AmbassadorInv'
<1> SUFFICES ASSUME AmbassadorInv, [Next]_vars PROVE AmbassadorInv'
  OBVIOUS
<1>1. CASE UNCHANGED vars
  <2>1. /\ UNCHANGED <<application, profile, processed, rewardPaid, withdrawal>>
        /\ UNCHANGED <<ledger, referredBy, work, slips>> /\ UNCHANGED referral
    BY <1>1 DEF vars, referral
  <2>2. TypeOK' /\ Carried'
    BY <2>1 DEF AmbassadorInv, TypeOK, Carried, Proper
  <2>3. QED
    BY <2>1, <2>2, OneDecisionKept, OneReferralKept, ReckonedKept DEF AmbassadorInv
<1>2. CASE Submit
  BY <1>2, SubmitSafe
<1>3. CASE Process
  BY <1>3, ProcessSafe
<1>4. ASSUME NEW s \in Sessions, StatusStep(s) PROVE AmbassadorInv'
  BY <1>4, ChangeStatusSafe, ScheduleInterviewSafe, AcceptApplicationSafe, OpenDetailSafe,
     FindProfileSafe, CreateProfileSafe, SetProfileSafe DEF StatusStep, Decisions
<1>5. ASSUME NEW s \in Sessions, ReferralStep(s) PROVE AmbassadorInv'
  BY <1>5, SignUpSafe, AdminLinkSafe, FindLedgerSafe, EnterLedgerSafe, NameReferrerSafe
  DEF ReferralStep
<1>6. ASSUME NEW s \in Sessions, MoneyStep(s) PROVE AmbassadorInv'
  BY <1>6, ReadRewardsSafe, ReadReservedSafe, RequestWithdrawalSafe, LoadWithdrawalSafe,
     DecideWithdrawalSafe, PayWithdrawalSafe DEF MoneyStep
<1>7. ASSUME NEW s \in Sessions, Die(s) PROVE AmbassadorInv'
  BY <1>7, DieSafe
<1>8. QED BY <1>1, <1>2, <1>3, <1>4, <1>5, <1>6, <1>7 DEF Next

LEMMA AlwaysAmbassador == Spec => []AmbassadorInv
<1>1. QED BY InitAmbassador, NextAmbassador, PTL DEF Spec

-----------------------------------------------------------------------------
\* The rows of the programme keep their types: no withdrawal has a status outside
\* the checks of the schema, and reward_paid never goes below zero.
THEOREM AmbassadorsTyped == Spec => []TypeOK
<1>1. AmbassadorInv => TypeOK
  BY DEF AmbassadorInv
<1>2. QED BY <1>1, AlwaysAmbassador, PTL

\* Whatever is accepted, rejected, suspended, reactivated and looked at, in any order
\* and by any number of admins, the profile has the status of the application once
\* no decision is under way, unless two decisions met or one failed half-way.
THEOREM ProfileFollows == Spec => []ProfileFollowsApplication
<1>1. AmbassadorInv => ProfileFollowsApplication
  BY DEF AmbassadorInv, OneDecision, ProfileFollowsApplication, Decisions
<1>2. QED BY <1>1, AlwaysAmbassador, PTL

\* Ledger and profile of an organizer name the same ambassador once no sign-up or
\* link is under way, unless two of them met or one failed half-way.
THEOREM OneReferrer == Spec => []ReferrerAgrees
<1>1. AmbassadorInv => ReferrerAgrees
  BY DEF AmbassadorInv, OneReferral, ReferrerAgrees
<1>2. QED BY <1>1, AlwaysAmbassador, PTL

\* However many withdrawals there are and whatever their amounts, reward_paid and
\* what is still reserved stay within what is unlocked, unless two requests, or a
\* request and a payment, met.
THEOREM NeverOverdrawn == Spec => []WithinEarnings
<1>1. AmbassadorInv => WithinEarnings
  BY DEF AmbassadorInv, Reckoned, WithinEarnings
<1>2. QED BY <1>1, AlwaysAmbassador, PTL

\* reward_paid is the sum of the paid withdrawals: none is paid twice, none is
\* taken back.
THEOREM PaidOnce == Spec => []PaidIsPaid
<1>1. AmbassadorInv => PaidIsPaid
  BY DEF AmbassadorInv, Reckoned, PaidIsPaid
<1>2. QED BY <1>1, AlwaysAmbassador, PTL
=============================================================================
