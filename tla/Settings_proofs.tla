--------------------------- MODULE Settings_proofs ---------------------------
(***************************************************************************)
(* What a user changes under settings.                                     *)
(*                                                                         *)
(* AccountSecurity (settings/security.js), for any number of addresses,    *)
(* rows and handlers in flight: the rows keep their shape, a code changes  *)
(* the password once, what was superseded is void, and login and profile   *)
(* agree, each up to the slips the model records (SecurityInv).            *)
(*                                                                         *)
(* PayoutAccounts (settings/profile.js), for any accounts, rows and        *)
(* handlers: one default at most, and one while there are accounts, up to  *)
(* its slips (AccountInv).                                                 *)
(***************************************************************************)
EXTENDS AccountSecurity, PayoutAccounts, FiniteSetTheorems, WellFoundedInduction, TLAPS

\* A handler at one of these steps works on a code, on a request, or on a new address.
CodeSteps == {"changing", "marking"}
ChangeSteps == {"linking", "closing", "moving", "copying"}
AddressSteps == {"invalidating", "insertingChange"}
OnCode(s) == work[s].at \in CodeSteps
OnChange(s) == work[s].at \in ChangeSteps
OnAddress(s) == work[s].at \in AddressSteps

\* What the handlers work on, and what was redeemed, is in the tables.
Held ==
  /\ work = [s \in Sessions |-> work[s]]
  /\ \A s \in Sessions :
       /\ OnCode(s) => /\ work[s] \in [at : CodeSteps, code : Codes]
                       /\ code[work[s].code] # NoRow
       /\ OnChange(s) => /\ work[s] \in [at : ChangeSteps, change : Changes]
                         /\ change[work[s].change] # NoRow
       /\ OnAddress(s) => work[s] \in [at : AddressSteps, to : Addresses]
  /\ redeemed \in [code : SUBSET Codes, change : SUBSET Changes]
  /\ \A c \in redeemed.code : code[c] # NoRow

\* The tables fill from the first row.
Filled(table) ==
  \A i, j \in DOMAIN table : i < j /\ table[j] # NoRow => table[i] # NoRow

Shape == TypeOK /\ Held /\ Filled(code) /\ Filled(change)

\* Unless a code slipped: each code is in one handler's hands, and one that
\* changed the password is used or about to be marked.
Single ==
  "again" \notin slips =>
    /\ again = {}
    /\ \A s, t \in Sessions :
         s # t /\ OnCode(s) /\ OnCode(t) => work[s].code # work[t].code
    /\ \A s \in Sessions : work[s].at = "changing" => work[s].code \notin redeemed.code
    /\ \A c \in redeemed.code :
         \/ code[c].state = "used"
         \/ \E s \in Sessions : work[s].at = "marking" /\ work[s].code = c

Newest(table, i) == \A j \in DOMAIN table : j > i => table[j] = NoRow

\* Unless one was superseded unseen: only the newest row is open or being redeemed,
\* and none is open while the next one is being inserted.
CodesSuperseded ==
  "superseded" \notin slips =>
    /\ \A c \in Open(code) : Newest(code, c)
    /\ \A s \in Sessions : work[s].at = "changing" => Newest(code, work[s].code)
    /\ \A s \in Sessions : work[s].at = "insertingCode" =>
         Open(code) = {} /\ ~At(Others(s), {"insertingCode"})

ChangesSuperseded ==
  "superseded" \notin slips =>
    /\ \A r \in Open(change) : Newest(change, r)
    /\ \A s \in Sessions : work[s].at = "moving" => Newest(change, work[s].change)
    /\ \A s \in Sessions : work[s].at = "insertingChange" =>
         Open(change) = {} /\ ~At(Others(s), {"insertingChange"})

\* Unless a copy failed: every copy under way copies the login.
Copying ==
  "address" \notin slips =>
    /\ \A s \in Sessions : work[s].at = "copying" => change[work[s].change].to = login
    /\ ~At(Sessions, {"copying"}) => profile = login

SecurityInv ==
  Shape /\ Single /\ CodesSuperseded /\ ChangesSuperseded /\ Copying

-----------------------------------------------------------------------------
(* What the operators on the tables and on the handlers do.                *)

CodeRow == {NoRow} \cup [state : {"code", "used"}, fresh : BOOLEAN]
ChangeRow == {NoRow} \cup [state : {"code", "link", "used"}, fresh : BOOLEAN, to : Addresses]

LEMMA UsedCodes ==
  ASSUME code \in [Codes -> CodeRow], NEW is \in SUBSET Codes,
         \A i \in is : code[i] # NoRow
  PROVE  /\ Used(code, is) \in [Codes -> CodeRow]
         /\ \A i \in Codes : /\ Used(code, is)[i] = NoRow <=> code[i] = NoRow
                             /\ i \in is => Used(code, is)[i].state = "used"
                             /\ i \notin is => Used(code, is)[i] = code[i]
         /\ Open(Used(code, is)) = Open(code) \ is
<1> DEFINE Closed(r) == [r EXCEPT !.state = "used", !.fresh = FALSE]
<1>1. DOMAIN code = Codes /\ \A i \in Codes : code[i] \in CodeRow
  OBVIOUS
<1>2. Used(code, is) = [i \in Codes |->
        IF i \in is THEN Closed(code[i]) ELSE code[i]]
  BY <1>1 DEF Used
<1>3. ASSUME NEW r \in CodeRow, r # NoRow
      PROVE  /\ Closed(r) \in CodeRow \ {NoRow}
             /\ Closed(r).state = "used"
  BY <1>3 DEF CodeRow, NoRow
<1> HIDE DEF Closed
<1>6. \A i \in Codes : /\ Used(code, is)[i] = NoRow <=> code[i] = NoRow
                       /\ i \in is => Used(code, is)[i].state = "used"
                       /\ i \notin is => Used(code, is)[i] = code[i]
                       /\ Used(code, is)[i] \in CodeRow
  BY <1>1, <1>2, <1>3
<1>7. Used(code, is) \in [Codes -> CodeRow]
  <2>1. Used(code, is) = [i \in Codes |-> Used(code, is)[i]]
    BY <1>2
  <2>2. QED BY <2>1, <1>6
<1>8. Open(Used(code, is)) = Open(code) \ is
  BY <1>1, <1>2, <1>6 DEF Open
<1>9. QED BY <1>6, <1>7, <1>8

LEMMA UsedChanges ==
  ASSUME change \in [Changes -> ChangeRow], NEW is \in SUBSET Changes,
         \A i \in is : change[i] # NoRow
  PROVE  /\ Used(change, is) \in [Changes -> ChangeRow]
         /\ \A i \in Changes : /\ Used(change, is)[i] = NoRow <=> change[i] = NoRow
                               /\ change[i] # NoRow => Used(change, is)[i].to = change[i].to
         /\ Open(Used(change, is)) = Open(change) \ is
<1> DEFINE Closed(r) == [r EXCEPT !.state = "used", !.fresh = FALSE]
<1>1. DOMAIN change = Changes /\ \A i \in Changes : change[i] \in ChangeRow
  OBVIOUS
<1>2. Used(change, is) = [i \in Changes |->
        IF i \in is THEN Closed(change[i]) ELSE change[i]]
  BY <1>1 DEF Used
<1>3. ASSUME NEW r \in ChangeRow, r # NoRow
      PROVE  /\ Closed(r) \in ChangeRow \ {NoRow}
             /\ Closed(r).state = "used"
             /\ Closed(r).to = r.to
  BY <1>3 DEF ChangeRow, NoRow
<1> HIDE DEF Closed
<1>6. \A i \in Changes : /\ Used(change, is)[i] = NoRow <=> change[i] = NoRow
                         /\ change[i] # NoRow => Used(change, is)[i].to = change[i].to
                         /\ i \in is => Used(change, is)[i].state = "used"
                         /\ i \notin is => Used(change, is)[i] = change[i]
                         /\ Used(change, is)[i] \in ChangeRow
  BY <1>1, <1>2, <1>3
<1>7. Used(change, is) \in [Changes -> ChangeRow]
  <2>1. Used(change, is) = [i \in Changes |-> Used(change, is)[i]]
    BY <1>2
  <2>2. QED BY <2>1, <1>6
<1>8. Open(Used(change, is)) = Open(change) \ is
  BY <1>1, <1>2, <1>6 DEF Open
<1>9. QED BY <1>6, <1>7, <1>8

\* Only the handler that moves is somewhere else.
LEMMA OneMoves ==
  ASSUME Held, NEW s \in Sessions, NEW step, Goto(s, step)
  PROVE  /\ work' = [t \in Sessions |-> work'[t]]
         /\ work'[s] = step
         /\ \A t \in Sessions \ {s} : work'[t] = work[t]
<1>1. work' = [t \in Sessions |-> IF t = s THEN step ELSE work[t]]
  BY DEF Goto, Held
<1>2. QED BY <1>1

\* A row is inserted after all the others.
LEMMA InsertedLast ==
  ASSUME NEW table, NEW n \in Nat, DOMAIN table = 1..n, Filled(table), NEW i \in 1..n,
         NextRow(table, i)
  PROVE  table[i] = NoRow /\ Newest(table, i)
BY DEF Filled, NextRow, Newest

-----------------------------------------------------------------------------
(* A part of the invariant is kept by a step that does not reach it.       *)

LEMMA SingleKept ==
  ASSUME Held, Single, UNCHANGED <<redeemed, again>>, slips \subseteq slips',
         \A c \in Codes : code[c].state = "used" => code'[c].state = "used",
         \A t \in Sessions : OnCode(t)' => work'[t] = work[t],
         "again" \notin slips' => \A t \in Sessions : work[t].at = "marking" =>
           work'[t] = work[t] \/ code'[work[t].code].state = "used"
  PROVE  Single'
<1> SUFFICES ASSUME "again" \notin slips'
             PROVE  Single'
  BY DEF Single
<1>1. /\ again' = {} /\ redeemed' = redeemed
      /\ \A s, t \in Sessions :
           s # t /\ OnCode(s) /\ OnCode(t) => work[s].code # work[t].code
      /\ \A s \in Sessions : work[s].at = "changing" => work[s].code \notin redeemed.code
      /\ \A c \in redeemed.code :
           \/ code[c].state = "used"
           \/ \E s \in Sessions : work[s].at = "marking" /\ work[s].code = c
  BY DEF Single
<1>2. \A t \in Sessions : OnCode(t)' => OnCode(t) /\ work'[t] = work[t]
  BY DEF OnCode, CodeSteps
<1>3. \A s, t \in Sessions :
        s # t /\ OnCode(s)' /\ OnCode(t)' => work'[s].code # work'[t].code
  BY <1>1, <1>2
<1>4. \A s \in Sessions : work'[s].at = "changing" => work'[s].code \notin redeemed'.code
  BY <1>1, <1>2 DEF OnCode, CodeSteps
<1>5. ASSUME NEW c \in redeemed'.code
      PROVE  \/ code'[c].state = "used"
             \/ \E s \in Sessions : work'[s].at = "marking" /\ work'[s].code = c
  BY <1>1, <1>5 DEF Held
<1>6. QED BY <1>1, <1>3, <1>4, <1>5 DEF Single

LEMMA CodesSupersededKept ==
  ASSUME CodesSuperseded, slips \subseteq slips',
         DOMAIN code' = DOMAIN code, Open(code') \subseteq Open(code),
         \A c \in DOMAIN code : code[c] = NoRow => code'[c] = NoRow,
         \A t \in Sessions : work'[t].at \in {"changing", "insertingCode"} =>
           work'[t] = work[t]
  PROVE  CodesSuperseded'
BY DEF CodesSuperseded, Newest, At, Others

LEMMA ChangesSupersededKept ==
  ASSUME ChangesSuperseded, slips \subseteq slips',
         DOMAIN change' = DOMAIN change, Open(change') \subseteq Open(change),
         \A r \in DOMAIN change : change[r] = NoRow => change'[r] = NoRow,
         \A t \in Sessions : work'[t].at \in {"moving", "insertingChange"} =>
           work'[t] = work[t]
  PROVE  ChangesSuperseded'
BY DEF ChangesSuperseded, Newest, At, Others

LEMMA CopyingKept ==
  ASSUME Held, Copying, UNCHANGED account, slips \subseteq slips',
         \A r \in Changes : change[r] # NoRow => change'[r].to = change[r].to,
         \A t \in Sessions : work'[t].at = "copying" => work'[t] = work[t],
         "address" \notin slips' =>
           \A t \in Sessions : work[t].at = "copying" => work'[t] = work[t]
  PROVE  Copying'
BY DEF Copying, account, At, Held, OnChange, ChangeSteps

-----------------------------------------------------------------------------
(* The steps.                                                              *)

LEMMA InitSecurity == Init => SecurityInv
<1> SUFFICES ASSUME Init PROVE SecurityInv
  OBVIOUS
<1>1. /\ DOMAIN code = Codes /\ \A c \in Codes : code[c] = NoRow
      /\ DOMAIN change = Changes /\ \A r \in Changes : change[r] = NoRow
      /\ \A s \in Sessions : work[s].at = "idle"
  BY DEF Init, Idle
<1>2. Open(code) = {} /\ Open(change) = {}
  BY <1>1 DEF Open, NoRow
<1>3. Shape
  <2>1. TypeOK
    BY DEF Init, TypeOK
  <2>2. Held
    BY <1>1 DEF Init, Held, OnCode, OnChange, OnAddress,
       CodeSteps, ChangeSteps, AddressSteps
  <2>3. QED BY <1>1, <2>1, <2>2 DEF Shape, Filled
<1>4. Single
  BY <1>1 DEF Init, Single, OnCode, CodeSteps
<1>5. CodesSuperseded /\ ChangesSuperseded
  BY <1>1, <1>2 DEF CodesSuperseded, ChangesSuperseded
<1>6. Copying
  BY <1>1 DEF Init, Copying
<1>7. QED BY <1>3, <1>4, <1>5, <1>6 DEF SecurityInv

LEMMA InvalidateCodesSecurity ==
  ASSUME SecurityInv, NEW s \in Sessions, InvalidateCodes(s)
  PROVE  SecurityInv'
<1> USE DEF SecurityInv
<1>1. /\ work' = [t \in Sessions |-> work'[t]]
      /\ work'[s] = [at |-> "insertingCode"] /\ work[s].at = "idle"
      /\ \A t \in Sessions \ {s} : work'[t] = work[t]
  BY OneMoves DEF InvalidateCodes, Shape, Idle
<1>2. /\ UNCHANGED <<login, profile, change, redeemed, again>>
      /\ slips \subseteq slips'
      /\ slips' = IF Open(code') # {} \/ At(Others(s), {"insertingCode"})
                  THEN slips \cup {"superseded"} ELSE slips
  BY DEF InvalidateCodes, account, Slip
<1>3. /\ code' \in [Codes -> CodeRow] /\ Open(code') \subseteq Open(code)
      /\ \A c \in Codes : /\ code'[c] = NoRow <=> code[c] = NoRow
                          /\ code[c].state = "used" => code'[c].state = "used"
  <2>1. CASE code' = Used(code, Open(code))
    <3>1. code \in [Codes -> CodeRow]
      BY DEF Shape, TypeOK, CodeRow
    <3>2. Open(code) \in SUBSET Codes /\ \A c \in Open(code) : code[c] # NoRow
      BY <3>1 DEF Open, NoRow
    <3>3. QED BY <2>1, <3>1, <3>2, UsedCodes
  <2>2. CASE UNCHANGED code
    BY <2>2 DEF Shape, TypeOK, CodeRow
  <2>3. QED BY <2>1, <2>2 DEF InvalidateCodes
<1>4. Shape'
  <2>1. TypeOK'
    BY <1>2, <1>3 DEF Shape, TypeOK, CodeRow
  <2>2. Held'
    BY <1>1, <1>2, <1>3 DEF Shape, Held, OnCode, OnChange, OnAddress,
       CodeSteps, ChangeSteps, AddressSteps
  <2>3. QED BY <1>2, <1>3, <2>1, <2>2 DEF Shape, Filled, TypeOK
<1>5. Single'
  BY <1>1, <1>2, <1>3, SingleKept DEF Shape, OnCode, CodeSteps
<1>6. CodesSuperseded'
  BY <1>1, <1>2, <1>3 DEF CodesSuperseded, At, Others, Newest, Shape, TypeOK
<1>7. ChangesSuperseded'
  BY <1>1, <1>2, ChangesSupersededKept
<1>8. Copying'
  BY <1>1, <1>2, CopyingKept DEF Shape, account
<1>9. QED BY <1>4, <1>5, <1>6, <1>7, <1>8

LEMMA InsertCodeSecurity ==
  ASSUME SecurityInv, NEW s \in Sessions, NEW c \in Codes, InsertCode(s, c)
  PROVE  SecurityInv'
<1> USE DEF SecurityInv
<1>1. /\ work' = [t \in Sessions |-> work'[t]]
      /\ work'[s].at = "idle" /\ work[s].at = "insertingCode"
      /\ \A t \in Sessions \ {s} : work'[t] = work[t]
  BY OneMoves DEF InsertCode, Shape, Idle
<1>2. /\ UNCHANGED <<login, profile, change, redeemed, again>>
      /\ slips' = IF At(Others(s), {"changing"}) THEN slips \cup {"superseded"} ELSE slips
  BY DEF InsertCode, account, Slip
<1>3. code[c] = NoRow /\ Newest(code, c)
  BY SecurityAssumption, InsertedLast DEF InsertCode, Shape, TypeOK, Codes
<1>4. /\ code' \in [Codes -> CodeRow] /\ Open(code') \subseteq Open(code) \cup {c}
      /\ code'[c] # NoRow /\ \A d \in Codes \ {c} : code'[d] = code[d]
  BY DEF InsertCode, Shape, TypeOK, CodeRow, NoRow, Open
<1>5. Shape'
  <2>1. TypeOK'
    BY <1>2, <1>4 DEF Shape, TypeOK, CodeRow
  <2>2. Held'
    BY <1>1, <1>2, <1>4 DEF Shape, Held, OnCode, OnChange, OnAddress,
       CodeSteps, ChangeSteps, AddressSteps
  <2>3. Filled(code)'
    BY <1>3, <1>4, SecurityAssumption DEF InsertCode, NextRow, Shape, Filled, TypeOK, Codes
  <2>4. QED BY <1>2, <2>1, <2>2, <2>3 DEF Shape, Filled
<1>6. Single'
  BY <1>1, <1>2, <1>3, <1>4, SingleKept DEF Shape, OnCode, CodeSteps, NoRow, Held
<1>7. CodesSuperseded'
  <2> SUFFICES ASSUME "superseded" \notin slips'
               PROVE  CodesSuperseded'
    BY DEF CodesSuperseded
  <2>1. /\ Open(code') \subseteq {c}
        /\ \A t \in Sessions : work'[t].at \notin {"insertingCode", "changing"}
    BY <1>1, <1>2, <1>4 DEF CodesSuperseded, At, Others
  <2>2. Newest(code', c)
    BY <1>3, <1>4, SecurityAssumption DEF Newest, Shape, TypeOK, Codes
  <2>3. QED BY <2>1, <2>2 DEF CodesSuperseded
<1>8. ChangesSuperseded'
  BY <1>1, <1>2, ChangesSupersededKept
<1>9. Copying'
  BY <1>1, <1>2, CopyingKept DEF Shape, account
<1>10. QED BY <1>5, <1>6, <1>7, <1>8, <1>9

LEMMA ReadCodeSecurity ==
  ASSUME SecurityInv, NEW s \in Sessions, NEW c \in Codes, ReadCode(s, c)
  PROVE  SecurityInv'
<1> USE DEF SecurityInv
<1>1. /\ work' = [t \in Sessions |-> work'[t]] /\ work[s].at = "idle"
      /\ work'[s] \in [at : CodeSteps, code : {c}]
      /\ \A t \in Sessions \ {s} : work'[t] = work[t]
  BY OneMoves DEF ReadCode, Shape, Idle, CodeSteps
<1>2. /\ UNCHANGED <<login, profile, code, change, redeemed, again>>
      /\ slips' = IF \E t \in Others(s) :
                       work[t].at \in {"changing", "marking"} /\ work[t].code = c
                  THEN slips \cup {"again"} ELSE slips
  BY DEF ReadCode, account, tables, Slip
<1>3. code[c].state \in {"code", "link"} /\ c \in Open(code)
  BY DEF ReadCode, Latest, Open
<1>4. Shape'
  <2>1. TypeOK'
    BY <1>2 DEF Shape, TypeOK
  <2>2. Held'
    BY <1>1, <1>2, <1>3 DEF Shape, Held, OnCode, OnChange, OnAddress,
       CodeSteps, ChangeSteps, AddressSteps, NoRow
  <2>3. QED BY <1>2, <2>1, <2>2 DEF Shape, Filled
<1>5. Single'
  BY <1>1, <1>2, <1>3 DEF Single, OnCode, CodeSteps, Others
<1>6. CodesSuperseded'
  BY <1>1, <1>2, <1>3 DEF CodesSuperseded, At, Others, Newest, CodeSteps
<1>7. ChangesSuperseded'
  BY <1>1, <1>2, ChangesSupersededKept DEF CodeSteps
<1>8. Copying'
  BY <1>1, <1>2, CopyingKept DEF Shape, account, CodeSteps
<1>9. QED BY <1>4, <1>5, <1>6, <1>7, <1>8

LEMMA ChangePasswordSecurity ==
  ASSUME SecurityInv, NEW s \in Sessions, ChangePassword(s)
  PROVE  SecurityInv'
<1> USE DEF SecurityInv
<1> DEFINE c == work[s].code
<1>1. /\ work' = [t \in Sessions |-> work'[t]] /\ work[s].at = "changing"
      /\ \A t \in Sessions \ {s} : work'[t] = work[t]
      /\ UNCHANGED <<login, profile, code, change, slips>>
      /\ c \in Codes /\ code[c] # NoRow
  BY OneMoves DEF ChangePassword, Shape, Held, OnCode, CodeSteps, account, tables
<1>2. CASE /\ redeemed' = [redeemed EXCEPT !.code = @ \cup {c}]
           /\ again' = again \cup ({c} \cap redeemed.code)
           /\ Goto(s, [work[s] EXCEPT !.at = "marking"])
  <2>1. /\ work'[s] \in [at : {"marking"}, code : {c}]
        /\ redeemed'.code = redeemed.code \cup {c} /\ redeemed'.change = redeemed.change
        /\ redeemed' \in [code : SUBSET Codes, change : SUBSET Changes]
    BY <1>1, <1>2, OneMoves DEF Shape, Held, OnCode, CodeSteps
  <2>2. Shape'
    BY <1>1, <1>2, <2>1 DEF Shape, TypeOK, Filled, Held, OnCode, OnChange, OnAddress,
       CodeSteps, ChangeSteps, AddressSteps
  <2>3. Single'
    BY <1>1, <1>2, <2>1 DEF Single, OnCode, CodeSteps
  <2>4. CodesSuperseded' /\ ChangesSuperseded'
    BY <1>1, <2>1, CodesSupersededKept, ChangesSupersededKept
  <2>5. Copying'
    BY <1>1, <2>1, CopyingKept DEF Shape, account
  <2>6. QED BY <2>2, <2>3, <2>4, <2>5
<1>3. CASE Goto(s, Idle) /\ UNCHANGED <<redeemed, again>>
  <2>1. work'[s].at = "idle"
    BY <1>3, OneMoves DEF Shape, Idle
  <2>2. Shape'
    BY <1>1, <1>3, <2>1 DEF Shape, TypeOK, Filled, Held, OnCode, OnChange, OnAddress,
       CodeSteps, ChangeSteps, AddressSteps
  <2>3. Single'
    BY <1>1, <1>3, <2>1, SingleKept DEF Shape, OnCode, CodeSteps
  <2>4. CodesSuperseded' /\ ChangesSuperseded'
    BY <1>1, <2>1, CodesSupersededKept, ChangesSupersededKept
  <2>5. Copying'
    BY <1>1, <2>1, CopyingKept DEF Shape, account
  <2>6. QED BY <2>2, <2>3, <2>4, <2>5
<1>4. QED BY <1>2, <1>3 DEF ChangePassword

LEMMA MarkCodeSecurity ==
  ASSUME SecurityInv, NEW s \in Sessions, MarkCode(s)
  PROVE  SecurityInv'
<1> USE DEF SecurityInv
<1> DEFINE c == work[s].code
<1>1. /\ work' = [t \in Sessions |-> work'[t]] /\ work[s].at = "marking"
      /\ work'[s].at = "idle" /\ \A t \in Sessions \ {s} : work'[t] = work[t]
      /\ UNCHANGED <<login, profile, change, redeemed, again>>
      /\ c \in Codes /\ code[c] # NoRow
  BY OneMoves DEF MarkCode, Shape, Held, OnCode, CodeSteps, account, Idle
<1>2. /\ code' \in [Codes -> CodeRow] /\ Open(code') \subseteq Open(code)
      /\ \A d \in Codes : /\ code'[d] = NoRow <=> code[d] = NoRow
                          /\ code[d].state = "used" => code'[d].state = "used"
      /\ slips \subseteq slips' /\ slips' \subseteq slips \cup {"again"}
      /\ "again" \notin slips' => code'[c].state = "used"
  <2>1. code \in [Codes -> CodeRow]
    BY DEF Shape, TypeOK, CodeRow
  <2>2. CASE code' = Used(code, {c}) /\ UNCHANGED slips
    BY <1>1, <2>1, <2>2, UsedCodes
  <2>3. CASE Slip("again", TRUE) /\ UNCHANGED code
    BY <2>1, <2>3 DEF Slip
  <2>4. QED BY <2>2, <2>3 DEF MarkCode
<1>3. Shape'
  <2>1. TypeOK'
    BY <1>1, <1>2 DEF Shape, TypeOK, CodeRow
  <2>2. Held'
    BY <1>1, <1>2 DEF Shape, Held, OnCode, OnChange, OnAddress,
       CodeSteps, ChangeSteps, AddressSteps
  <2>3. QED BY <1>1, <1>2, <2>1, <2>2 DEF Shape, Filled, TypeOK
<1>4. Single'
  BY <1>1, <1>2, SingleKept DEF Shape, OnCode, CodeSteps
<1>5. CodesSuperseded' /\ ChangesSuperseded'
  BY <1>1, <1>2, CodesSupersededKept, ChangesSupersededKept DEF Shape, TypeOK
<1>6. Copying'
  BY <1>1, <1>2, CopyingKept DEF Shape, account
<1>7. QED BY <1>3, <1>4, <1>5, <1>6

LEMMA StartChangeSecurity ==
  ASSUME SecurityInv, NEW s \in Sessions, NEW to \in Addresses, StartChange(s, to)
  PROVE  SecurityInv'
<1> USE DEF SecurityInv
<1>1. /\ work' = [t \in Sessions |-> work'[t]] /\ work[s].at = "idle"
      /\ work'[s] \in [at : {"invalidating"}, to : Addresses]
      /\ \A t \in Sessions \ {s} : work'[t] = work[t]
  BY OneMoves DEF StartChange, Shape, Idle
<1>2. UNCHANGED <<login, profile, code, change, redeemed, again, slips>>
  BY DEF StartChange, account, tables, history
<1>3. Shape'
  BY <1>1, <1>2 DEF Shape, TypeOK, Filled, Held, OnCode, OnChange, OnAddress,
       CodeSteps, ChangeSteps, AddressSteps
<1>4. Single'
  BY <1>1, <1>2, SingleKept DEF Shape, OnCode, CodeSteps
<1>5. CodesSuperseded' /\ ChangesSuperseded'
  BY <1>1, <1>2, CodesSupersededKept, ChangesSupersededKept
<1>6. Copying'
  BY <1>1, <1>2, CopyingKept DEF Shape, account
<1>7. QED BY <1>3, <1>4, <1>5, <1>6

LEMMA InvalidateChangesSecurity ==
  ASSUME SecurityInv, NEW s \in Sessions, InvalidateChanges(s)
  PROVE  SecurityInv'
<1> USE DEF SecurityInv
<1>1. /\ work' = [t \in Sessions |-> work'[t]]
      /\ work[s].at = "invalidating"
      /\ work'[s] \in [at : {"insertingChange"}, to : Addresses]
      /\ \A t \in Sessions \ {s} : work'[t] = work[t]
  BY OneMoves DEF InvalidateChanges, Shape, Held, OnAddress, AddressSteps
<1>2. /\ UNCHANGED <<login, profile, code, redeemed, again>>
      /\ slips' = IF Open(change') # {} \/ At(Others(s), {"insertingChange"})
                  THEN slips \cup {"superseded"} ELSE slips
  BY DEF InvalidateChanges, account, Slip
<1>3. /\ change' \in [Changes -> ChangeRow] /\ Open(change') \subseteq Open(change)
      /\ \A r \in Changes : /\ change'[r] = NoRow <=> change[r] = NoRow
                            /\ change[r] # NoRow => change'[r].to = change[r].to
  <2>1. CASE change' = Used(change, Open(change))
    <3>1. change \in [Changes -> ChangeRow]
      BY DEF Shape, TypeOK, ChangeRow
    <3>2. Open(change) \in SUBSET Changes /\ \A r \in Open(change) : change[r] # NoRow
      BY <3>1 DEF Open, NoRow
    <3>3. QED BY <2>1, <3>1, <3>2, UsedChanges
  <2>2. CASE UNCHANGED change
    BY <2>2 DEF Shape, TypeOK, ChangeRow
  <2>3. QED BY <2>1, <2>2 DEF InvalidateChanges
<1>4. Shape'
  <2>1. TypeOK'
    BY <1>2, <1>3 DEF Shape, TypeOK, ChangeRow
  <2>2. Held'
    BY <1>1, <1>2, <1>3 DEF Shape, Held, OnCode, OnChange, OnAddress,
       CodeSteps, ChangeSteps, AddressSteps
  <2>3. QED BY <1>2, <1>3, <2>1, <2>2 DEF Shape, Filled, TypeOK
<1>5. Single'
  BY <1>1, <1>2, SingleKept DEF Shape, OnCode, CodeSteps
<1>6. CodesSuperseded'
  BY <1>1, <1>2, CodesSupersededKept
<1>7. ChangesSuperseded'
  BY <1>1, <1>2, <1>3 DEF ChangesSuperseded, At, Others, Newest, Shape, TypeOK
<1>8. Copying'
  BY <1>1, <1>2, <1>3, CopyingKept DEF Shape, account
<1>9. QED BY <1>4, <1>5, <1>6, <1>7, <1>8

LEMMA InsertChangeSecurity ==
  ASSUME SecurityInv, NEW s \in Sessions, NEW r \in Changes, InsertChange(s, r)
  PROVE  SecurityInv'
<1> USE DEF SecurityInv
<1>1. /\ work' = [t \in Sessions |-> work'[t]]
      /\ work'[s].at = "idle" /\ work[s].at = "insertingChange"
      /\ \A t \in Sessions \ {s} : work'[t] = work[t]
      /\ work[s].to \in Addresses
  BY OneMoves DEF InsertChange, Shape, Held, OnAddress, AddressSteps, Idle
<1>2. /\ UNCHANGED <<login, profile, code, redeemed, again>>
      /\ slips' = IF At(Others(s), {"moving"}) THEN slips \cup {"superseded"} ELSE slips
  BY DEF InsertChange, account, Slip
<1>3. change[r] = NoRow /\ Newest(change, r)
  BY SecurityAssumption, InsertedLast DEF InsertChange, Shape, TypeOK, Changes
<1>4. /\ change' \in [Changes -> ChangeRow] /\ Open(change') \subseteq Open(change) \cup {r}
      /\ change'[r] # NoRow /\ \A q \in Changes \ {r} : change'[q] = change[q]
  BY <1>1 DEF InsertChange, Shape, TypeOK, ChangeRow, NoRow, Open
<1>5. Shape'
  <2>1. TypeOK'
    BY <1>2, <1>4 DEF Shape, TypeOK, ChangeRow
  <2>2. Held'
    BY <1>1, <1>2, <1>4 DEF Shape, Held, OnCode, OnChange, OnAddress,
       CodeSteps, ChangeSteps, AddressSteps
  <2>3. Filled(change)'
    BY <1>3, <1>4, SecurityAssumption
       DEF InsertChange, NextRow, Shape, Filled, TypeOK, Changes
  <2>4. QED BY <1>2, <2>1, <2>2, <2>3 DEF Shape, Filled
<1>6. Single'
  BY <1>1, <1>2, SingleKept DEF Shape, OnCode, CodeSteps
<1>7. CodesSuperseded'
  BY <1>1, <1>2, CodesSupersededKept
<1>8. ChangesSuperseded'
  <2> SUFFICES ASSUME "superseded" \notin slips'
               PROVE  ChangesSuperseded'
    BY DEF ChangesSuperseded
  <2>1. /\ Open(change') \subseteq {r}
        /\ \A t \in Sessions : work'[t].at \notin {"insertingChange", "moving"}
    BY <1>1, <1>2, <1>4 DEF ChangesSuperseded, At, Others
  <2>2. Newest(change', r)
    BY <1>3, <1>4, SecurityAssumption DEF Newest, Shape, TypeOK, Changes
  <2>3. QED BY <2>1, <2>2 DEF ChangesSuperseded
<1>9. Copying'
  BY <1>1, <1>2, <1>3, <1>4, CopyingKept DEF Shape, account
<1>10. QED BY <1>5, <1>6, <1>7, <1>8, <1>9

\* verifyEmailChangeOtp and confirmEmailChange take an open request.
LEMMA TakeChangeSecurity ==
  ASSUME SecurityInv, NEW s \in Sessions, NEW r \in Changes,
         ReadChange(s, r) \/ ReadLink(s, r)
  PROVE  SecurityInv'
<1> USE DEF SecurityInv
<1>1. /\ work' = [t \in Sessions |-> work'[t]] /\ work[s].at = "idle"
      /\ work'[s] \in [at : {"linking", "closing", "moving"}, change : {r}]
      /\ \A t \in Sessions \ {s} : work'[t] = work[t]
  BY OneMoves DEF ReadChange, ReadLink, Shape, Idle
<1>2. UNCHANGED <<login, profile, code, change, redeemed, again, slips>>
  BY DEF ReadChange, ReadLink, account, tables, history
<1>3. r \in Open(change) /\ change[r] # NoRow
  BY DEF ReadChange, ReadLink, Latest, Open, NoRow, Shape, TypeOK
<1>4. Shape'
  BY <1>1, <1>2, <1>3 DEF Shape, TypeOK, Filled, Held, OnCode, OnChange, OnAddress,
       CodeSteps, ChangeSteps, AddressSteps
<1>5. Single'
  BY <1>1, <1>2, SingleKept DEF Shape, OnCode, CodeSteps
<1>6. CodesSuperseded'
  BY <1>1, <1>2, CodesSupersededKept
<1>7. ChangesSuperseded'
  BY <1>1, <1>2, <1>3 DEF ChangesSuperseded, At, Others, Newest
<1>8. Copying'
  BY <1>1, <1>2, CopyingKept DEF Shape, account
<1>9. QED BY <1>4, <1>5, <1>6, <1>7, <1>8

\* A handler that rewrites its request and is done.
LEMMA RewriteChangeSecurity ==
  ASSUME SecurityInv, NEW s \in Sessions, LinkChange(s) \/ CloseChange(s)
  PROVE  SecurityInv'
<1> USE DEF SecurityInv
<1> DEFINE r == work[s].change
<1>1. /\ work' = [t \in Sessions |-> work'[t]] /\ work[s].at \in {"linking", "closing"}
      /\ work'[s].at = "idle" /\ \A t \in Sessions \ {s} : work'[t] = work[t]
      /\ UNCHANGED <<login, profile, code, redeemed, again, slips>>
      /\ r \in Changes /\ change[r] # NoRow
  BY OneMoves DEF LinkChange, CloseChange, Shape, Held, OnChange, ChangeSteps, Idle,
       account, history
<1>2. change \in [Changes -> ChangeRow]
  BY DEF Shape, TypeOK, ChangeRow
<1>3. /\ change' \in [Changes -> ChangeRow] /\ Open(change') \subseteq Open(change)
      /\ \A q \in Changes : /\ change'[q] = NoRow <=> change[q] = NoRow
                            /\ change[q] # NoRow => change'[q].to = change[q].to
  <2>1. CASE change' = [change EXCEPT ![r].state = IF @ = "used" THEN @ ELSE "link"]
    <3> DEFINE linked == [change[r] EXCEPT
                            !.state = IF change[r].state = "used" THEN "used" ELSE "link"]
    <3>1. linked \in ChangeRow /\ linked # NoRow /\ linked.to = change[r].to
      BY <1>1, <1>2 DEF ChangeRow, NoRow
    <3>2. linked.state \in {"code", "link"} => change[r].state \in {"code", "link"}
      BY <1>1, <1>2 DEF ChangeRow, NoRow
    <3>3. change' = [change EXCEPT ![r] = linked]
      BY <1>1, <1>2, <2>1
    <3> HIDE DEF linked, r
    <3>4. /\ change' \in [Changes -> ChangeRow] /\ change'[r] = linked
          /\ \A q \in Changes \ {r} : change'[q] = change[q]
      BY <1>1, <1>2, <3>1, <3>3
    <3>5. Open(change') \subseteq Open(change)
      BY <1>1, <1>2, <3>2, <3>4 DEF Open
    <3>6. QED BY <1>1, <3>1, <3>4, <3>5
  <2>2. CASE change' = Used(change, {r})
    BY <1>1, <1>2, <2>2, UsedChanges
  <2>3. CASE UNCHANGED change
    BY <1>2, <2>3
  <2>4. QED BY <2>1, <2>2, <2>3 DEF LinkChange, CloseChange
<1>4. Shape'
  <2>1. TypeOK'
    BY <1>1, <1>3 DEF Shape, TypeOK, ChangeRow
  <2>2. Held'
    BY <1>1, <1>3 DEF Shape, Held, OnCode, OnChange, OnAddress,
       CodeSteps, ChangeSteps, AddressSteps
  <2>3. QED BY <1>1, <1>3, <2>1, <2>2 DEF Shape, Filled, TypeOK
<1>5. Single'
  BY <1>1, SingleKept DEF Shape, OnCode, CodeSteps
<1>6. CodesSuperseded' /\ ChangesSuperseded'
  BY <1>1, <1>3, CodesSupersededKept, ChangesSupersededKept DEF Shape, TypeOK
<1>7. Copying'
  BY <1>1, <1>3, CopyingKept DEF Shape, account
<1>8. QED BY <1>4, <1>5, <1>6, <1>7

\* A step of a handler on a request that leaves both tables alone.
LEMMA LeavesTables ==
  ASSUME SecurityInv, NEW s \in Sessions, NEW step, Goto(s, step),
         step = Idle \/ step \in [at : {"copying", "closing"}, change : {work[s].change}],
         OnChange(s), UNCHANGED <<code, change, again>>, slips \subseteq slips',
         login' \in Addresses, profile' \in Addresses, slips' \subseteq slips \cup {"address"},
         redeemed'.code = redeemed.code,
         redeemed' \in [code : SUBSET Codes, change : SUBSET Changes]
  PROVE  Shape' /\ Single' /\ CodesSuperseded' /\ ChangesSuperseded'
<1> USE DEF SecurityInv
<1>1. /\ work' = [t \in Sessions |-> work'[t]]
      /\ work'[s] = step /\ \A t \in Sessions \ {s} : work'[t] = work[t]
  BY OneMoves DEF Shape
<1>2. step.at \in {"idle", "copying", "closing"}
  BY DEF Idle
<1>3. Shape'
  <2>1. TypeOK'
    BY DEF Shape, TypeOK
  <2>2. Held'
    BY <1>1, <1>2 DEF Idle, Shape, Held, OnCode, OnChange, OnAddress,
       CodeSteps, ChangeSteps, AddressSteps
  <2>3. QED BY <2>1, <2>2 DEF Shape, Filled
<1>4. ~OnCode(s) /\ ~OnCode(s)'
  BY <1>1, <1>2 DEF OnCode, OnChange, CodeSteps, ChangeSteps
<1>5. Single'
  BY <1>1, <1>4 DEF Single, OnCode, CodeSteps
<1>6. CodesSuperseded' /\ ChangesSuperseded'
  BY <1>1, <1>2, CodesSupersededKept, ChangesSupersededKept
<1>7. QED BY <1>3, <1>5, <1>6

LEMMA MoveLoginSecurity ==
  ASSUME SecurityInv, NEW s \in Sessions, MoveLogin(s)
  PROVE  SecurityInv'
<1> USE DEF SecurityInv
<1> DEFINE r == work[s].change
<1>1. /\ work[s].at = "moving" /\ OnChange(s) /\ Held
      /\ work[s] \in [at : ChangeSteps, change : Changes]
      /\ change[r] # NoRow /\ change[r].to \in Addresses
      /\ UNCHANGED <<profile, code, change, again>>
  BY DEF MoveLogin, Shape, TypeOK, Held, OnChange, ChangeSteps, tables, NoRow
<1>2. CASE /\ login' = change[r].to
           /\ redeemed' = [redeemed EXCEPT !.change = @ \cup {r}]
           /\ Slip("address", \E t \in Others(s) :
                     work[t].at = "copying" /\ change[work[t].change].to # change[r].to)
           /\ Goto(s, [work[s] EXCEPT !.at = "copying"])
  <2> DEFINE step == [work[s] EXCEPT !.at = "copying"]
  <2>1. step \in [at : {"copying", "closing"}, change : {r}] /\ step.at = "copying"
    BY <1>1
  <2>2. redeemed'.code = redeemed.code
        /\ redeemed' \in [code : SUBSET Codes, change : SUBSET Changes]
    BY <1>1, <1>2 DEF Held
  <2>3. slips \subseteq slips' /\ slips' \subseteq slips \cup {"address"}
        /\ ("address" \notin slips' => \A t \in Others(s) : work[t].at = "copying" =>
                                          change[work[t].change].to = change[r].to)
    BY <1>2 DEF Slip
  <2>4. login' \in Addresses /\ profile' \in Addresses
    BY <1>1, <1>2 DEF Shape, TypeOK
  <2> HIDE DEF step
  <2>5. Goto(s, step)
    BY <1>2 DEF step
  <2>6. Shape' /\ Single' /\ CodesSuperseded' /\ ChangesSuperseded'
    BY <1>1, <2>1, <2>2, <2>3, <2>4, <2>5, LeavesTables
  <2>7. Copying'
    <3>1. work'[s] = step /\ \A t \in Sessions \ {s} : work'[t] = work[t]
      BY <1>1, <2>5, OneMoves
    <3>2. QED BY <1>1, <1>2, <2>1, <2>3, <3>1 DEF Copying, At, Others
  <2>8. QED BY <2>6, <2>7
<1>3. CASE Goto(s, Idle) /\ UNCHANGED <<login, redeemed, slips>>
  <2>1. Shape' /\ Single' /\ CodesSuperseded' /\ ChangesSuperseded'
    BY <1>1, <1>3, LeavesTables DEF Shape, TypeOK, Held
  <2>2. work'[s].at = "idle" /\ \A t \in Sessions \ {s} : work'[t] = work[t]
    BY <1>1, <1>3, OneMoves DEF Idle
  <2>3. Copying'
    BY <1>1, <1>3, <2>2, CopyingKept DEF account
  <2>4. QED BY <2>1, <2>3
<1>4. QED BY <1>2, <1>3 DEF MoveLogin

LEMMA CopyToProfileSecurity ==
  ASSUME SecurityInv, NEW s \in Sessions, CopyToProfile(s)
  PROVE  SecurityInv'
<1> USE DEF SecurityInv
<1> DEFINE r == work[s].change
           step == [work[s] EXCEPT !.at = "closing"]
<1>1. /\ work[s].at = "copying" /\ OnChange(s) /\ Held
      /\ work[s] \in [at : ChangeSteps, change : Changes]
      /\ change[r] # NoRow /\ change[r].to \in Addresses
      /\ UNCHANGED <<login, code, change, redeemed, again>>
      /\ Goto(s, step)
  BY DEF CopyToProfile, Shape, TypeOK, Held, OnChange, ChangeSteps, tables, NoRow
<1>2. step \in [at : {"copying", "closing"}, change : {r}] /\ step.at = "closing"
  BY <1>1
<1>3. /\ slips \subseteq slips' /\ slips' \subseteq slips \cup {"address"}
      /\ profile' \in Addresses
      /\ "address" \notin slips' => profile' = change[r].to
  BY <1>1 DEF CopyToProfile, Slip, Shape, TypeOK
<1> HIDE DEF step
<1>4. Shape' /\ Single' /\ CodesSuperseded' /\ ChangesSuperseded'
  BY <1>1, <1>2, <1>3, LeavesTables DEF Shape, TypeOK, Held
<1>5. Copying'
  <2>1. work'[s] = step /\ \A t \in Sessions \ {s} : work'[t] = work[t]
    BY <1>1, OneMoves
  <2>2. QED BY <1>1, <1>2, <1>3, <2>1 DEF Copying, At
<1>6. QED BY <1>4, <1>5

LEMMA DieSecurity ==
  ASSUME SecurityInv, NEW s \in Sessions, Die(s)
  PROVE  SecurityInv'
<1> USE DEF SecurityInv
<1>1. /\ work' = [t \in Sessions |-> work'[t]] /\ work'[s].at = "idle"
      /\ \A t \in Sessions \ {s} : work'[t] = work[t]
      /\ UNCHANGED <<login, profile, code, change, redeemed, again>>
  BY OneMoves DEF Die, Shape, Idle, account, tables
<1>2. /\ slips \subseteq slips' /\ slips' \subseteq slips \cup {"again", "address"}
      /\ work[s].at = "marking" => "again" \in slips'
      /\ work[s].at = "copying" => "address" \in slips'
  BY DEF Die
<1>3. Shape'
  <2>1. TypeOK'
    BY <1>1, <1>2 DEF Shape, TypeOK
  <2>2. Held'
    BY <1>1 DEF Shape, Held, OnCode, OnChange, OnAddress,
       CodeSteps, ChangeSteps, AddressSteps
  <2>3. QED BY <1>1, <2>1, <2>2 DEF Shape, Filled
<1>4. Single'
  BY <1>1, <1>2, SingleKept DEF Shape, OnCode, CodeSteps
<1>5. CodesSuperseded' /\ ChangesSuperseded'
  BY <1>1, <1>2, CodesSupersededKept, ChangesSupersededKept
<1>6. Copying'
  BY <1>1, <1>2, CopyingKept DEF Shape, account
<1>7. QED BY <1>3, <1>4, <1>5, <1>6

LEMMA LapseSecurity ==
  ASSUME SecurityInv, Lapse
  PROVE  SecurityInv'
<1> USE DEF SecurityInv
<1>1. UNCHANGED <<login, profile, work, redeemed, again, slips>>
  BY DEF Lapse, account, history
<1>2. /\ code \in [Codes -> CodeRow] /\ change \in [Changes -> ChangeRow]
      /\ Open(code) \subseteq Codes /\ Open(change) \subseteq Changes
  BY DEF Shape, TypeOK, CodeRow, ChangeRow, Open
<1>3. /\ code' \in [Codes -> CodeRow] /\ Open(code') = Open(code)
      /\ \A c \in Codes : code'[c].state = code[c].state
                          /\ (code'[c] = NoRow <=> code[c] = NoRow)
  <2>1. CASE UNCHANGED code
    BY <1>2, <2>1
  <2>2. CASE \E c \in Open(code) : code' = [code EXCEPT ![c].fresh = FALSE]
    <3>1. PICK c \in Open(code) : code' = [code EXCEPT ![c].fresh = FALSE]
      BY <2>2
    <3> DEFINE aged == [code[c] EXCEPT !.fresh = FALSE]
    <3>2. /\ c \in Codes /\ code[c] # NoRow
          /\ aged \in CodeRow /\ aged # NoRow /\ aged.state = code[c].state
      <4>1. c \in Codes /\ code[c].state \in {"code", "link"}
        BY <1>2 DEF Open
      <4>2. code[c] \in CodeRow \ {NoRow}
        BY <1>2, <4>1 DEF NoRow
      <4>3. QED BY <4>1, <4>2 DEF CodeRow, NoRow
    <3>3. code' = [code EXCEPT ![c] = aged]
      BY <3>1
    <3> HIDE DEF aged
    <3>4. QED BY <1>2, <3>2, <3>3 DEF Open
  <2>3. QED BY <2>1, <2>2 DEF Lapse
<1>4. /\ change' \in [Changes -> ChangeRow] /\ Open(change') = Open(change)
      /\ \A r \in Changes : /\ change'[r] = NoRow <=> change[r] = NoRow
                            /\ change[r] # NoRow => change'[r].to = change[r].to
  <2>1. CASE UNCHANGED change
    BY <1>2, <2>1
  <2>2. CASE \E r \in Open(change) : change' = [change EXCEPT ![r].fresh = FALSE]
    <3>1. PICK r \in Open(change) : change' = [change EXCEPT ![r].fresh = FALSE]
      BY <2>2
    <3> DEFINE aged == [change[r] EXCEPT !.fresh = FALSE]
    <3>2. /\ r \in Changes /\ change[r] # NoRow
          /\ aged \in ChangeRow /\ aged # NoRow /\ aged.state = change[r].state /\ aged.to = change[r].to
      <4>1. r \in Changes /\ change[r].state \in {"code", "link"}
        BY <1>2 DEF Open
      <4>2. change[r] \in ChangeRow \ {NoRow}
        BY <1>2, <4>1 DEF NoRow
      <4>3. QED BY <4>1, <4>2 DEF ChangeRow, NoRow
    <3>3. change' = [change EXCEPT ![r] = aged]
      BY <3>1
    <3> HIDE DEF aged
    <3>4. QED BY <1>2, <3>2, <3>3 DEF Open
  <2>3. QED BY <2>1, <2>2 DEF Lapse
<1>5. Shape'
  <2>1. TypeOK'
    BY <1>1, <1>3, <1>4 DEF Shape, TypeOK, CodeRow, ChangeRow
  <2>2. Held'
    BY <1>1, <1>3, <1>4 DEF Shape, Held, OnCode, OnChange, OnAddress
  <2>3. QED BY <1>3, <1>4, <2>1, <2>2 DEF Shape, Filled, TypeOK
<1>6. Single'
  BY <1>1, <1>3, SingleKept DEF Shape, OnCode
<1>7. CodesSuperseded' /\ ChangesSuperseded'
  BY <1>1, <1>3, <1>4, CodesSupersededKept, ChangesSupersededKept DEF Shape, TypeOK
<1>8. Copying'
  BY <1>1, <1>4, CopyingKept DEF Shape, account
<1>9. QED BY <1>5, <1>6, <1>7, <1>8

LEMMA NextSecurity == SecurityInv /\ [Next]_vars => SecurityInv'
<1> SUFFICES ASSUME SecurityInv, [Next]_vars PROVE SecurityInv'
  OBVIOUS
<1>1. ASSUME NEW s \in Sessions, PasswordStep(s) PROVE SecurityInv'
  BY <1>1, InsertCodeSecurity, ReadCodeSecurity, InvalidateCodesSecurity,
     ChangePasswordSecurity, MarkCodeSecurity DEF PasswordStep
<1>2. ASSUME NEW s \in Sessions, AddressStep(s) PROVE SecurityInv'
  BY <1>2, StartChangeSecurity, InsertChangeSecurity, TakeChangeSecurity,
     InvalidateChangesSecurity, RewriteChangeSecurity, MoveLoginSecurity,
     CopyToProfileSecurity DEF AddressStep
<1>3. CASE UNCHANGED vars
  BY <1>3 DEF vars, account, tables, SecurityInv, Shape, TypeOK, Held, Filled, OnCode,
       OnChange, OnAddress, Single, CodesSuperseded, ChangesSuperseded, Copying,
       Open, Newest, At, Others
<1>4. QED BY <1>1, <1>2, <1>3, DieSecurity, LapseSecurity DEF Next

LEMMA Security == Spec => []SecurityInv
BY InitSecurity, NextSecurity, PTL DEF Spec

-----------------------------------------------------------------------------
\* The rows of both tables, the addresses and the slips keep their shape.
THEOREM SecurityTyped == Spec => []TypeOK
<1>1. SecurityInv => TypeOK
  BY DEF SecurityInv, Shape
<1>2. QED BY <1>1, Security, PTL

\* verifyOtpAndChangePassword changes the password once for a code, however many
\* handlers run, unless two had the code in hand or marking it failed.
THEOREM CodeChangesOnce == Spec => []OneChangePerCode
<1>1. SecurityInv => OneChangePerCode
  BY DEF SecurityInv, Single, OneChangePerCode
<1>2. QED BY <1>1, Security, PTL

\* auth.users and profiles name the same address whenever no handler is between the
\* two, unless a copy failed, was cut off, or two links moved the login at once.
THEOREM AddressesKept == Spec => []AddressesAgree
<1>1. SecurityInv => AddressesAgree
  BY DEF SecurityInv, Copying, AddressesAgree
<1>2. QED BY <1>1, Security, PTL

\* What requestPasswordChangeOtp and requestEmailChangeOtp replaced is never redeemed
\* later: the handler that changes the password or the login works on the newest row.
THEOREM Superseded == Spec => SupersededIsVoid
<1> DEFINE Void ==
      /\ \A c \in redeemed'.code \ redeemed.code :
           (\E d \in Codes : d > c /\ code[d] # NoRow) => "superseded" \in slips
      /\ \A r \in redeemed'.change \ redeemed.change :
           (\E q \in Changes : q > r /\ change[q] # NoRow) => "superseded" \in slips
<1>1. ASSUME SecurityInv, [Next]_vars PROVE [Void]_vars
  <2>1. CASE UNCHANGED redeemed
    BY <2>1
  <2>2. ASSUME NEW s \in Sessions, ChangePassword(s) PROVE Void
    BY <1>1, <2>2 DEF ChangePassword, SecurityInv, Shape, TypeOK, Held, CodesSuperseded,
         Newest
  <2>3. ASSUME NEW s \in Sessions, MoveLogin(s) PROVE Void
    <3>1. /\ work[s].at = "moving" /\ DOMAIN change = Changes
          /\ redeemed'.code = redeemed.code
          /\ redeemed'.change \subseteq redeemed.change \cup {work[s].change}
      BY <1>1, <2>3 DEF MoveLogin, SecurityInv, Shape, TypeOK, Held
    <3>2. QED BY <1>1, <3>1 DEF SecurityInv, ChangesSuperseded, Newest
  <2>4. UNCHANGED redeemed \/ \E s \in Sessions : ChangePassword(s) \/ MoveLogin(s)
    BY <1>1 DEF Next, vars, PasswordStep, AddressStep, InsertCode, ReadCode, InvalidateCodes,
         MarkCode, StartChange, InsertChange, ReadChange, ReadLink, InvalidateChanges,
         LinkChange, CopyToProfile, CloseChange, Lapse, Die, history
  <2>5. QED BY <2>1, <2>2, <2>3, <2>4
<1>2. QED BY <1>1, Security, PTL DEF SupersededIsVoid, Spec
-----------------------------------------------------------------------------
(* Payout accounts.                                                        *)

SavedRow == [state : {"saved"}, number : Numbers, readable : BOOLEAN, default : BOOLEAN]

\* What a handler carries along.
Proper(step) ==
  /\ step.at \in {"idle", "matching", "clearing", "writing", "removing", "promoting",
                  "unsetting", "choosing"}
  /\ step.at = "matching" =>
       step \in [at : {"matching"}, number : Numbers,
                      target : {NoMatch} \cup Rows,
                 found : {NoMatch} \cup Rows, first : BOOLEAN]
  /\ step.at \in {"clearing", "writing"} =>
       step \in [at : {"clearing", "writing"}, number : Numbers,
                 match : {NoMatch} \cup Rows, first : BOOLEAN, named : BOOLEAN]
  /\ step.at = "clearing" => step.first
  /\ step.at = "removing" => step \in [at : {"removing"}, row : Rows, default : BOOLEAN]
  /\ step.at = "promoting" => step \in [at : {"promoting"}, next : {NoMatch} \cup Rows]
  /\ step.at \in {"unsetting", "choosing"} =>
       step \in [at : {"unsetting", "choosing"}, row : Rows]

\* The row a handler is about to flag, if any.
Chosen(step) ==
  IF step.at \in {"unsetting", "choosing"} THEN {step.row}
  ELSE IF step.at = "promoting" /\ step.next # NoMatch THEN {step.next} ELSE {}

Table ==
  /\ row \in [Rows -> {Free, Gone} \cup SavedRow]
  /\ \A a, b \in Saved(row) : row[a].number = row[b].number => a = b
  /\ noted \subseteq {"overlap", "unreadable"}

Carried ==
  /\ handling = [s \in Handlers |-> handling[s]]
  /\ \A s \in Handlers : /\ Proper(handling[s])
                         /\ \A a \in Chosen(handling[s]) : row[a] # Free

\* What a handler has read or done of the default is still so.
OwnStep(step) ==
  /\ step.at \in {"promoting", "choosing"} => Defaults(row) = {}
  /\ step.at = "writing" /\ step.first => Defaults(row) \subseteq {step.match}
  /\ step.at = "removing" => (step.row \in Defaults(row) <=> step.default)
  /\ Chosen(step) \subseteq Saved(row)

\* Unless two overlapped: one default, one handler that has taken it away, and every
\* handler is right about it.
Alone ==
  "overlap" \notin noted =>
    /\ \A a, b \in Defaults(row) : a = b
    /\ \A s, t \in Handlers : HalfWay(s) /\ HalfWay(t) => s = t
    /\ \A s \in Handlers : OwnStep(handling[s])

\* A handler that may insert a row that is not the default.
Inserting(step) ==
  /\ step.at = "matching" \/ (step.at = "writing" /\ step.match = NoMatch)
  /\ ~step.first

\* There is a default, or somebody is about to set one.
Provided == Defaults(row) # {} \/ \E s \in Handlers : HalfWay(s)

\* Whoever inserts one that is not has seen accounts before.
Flagged ==
  noted = {} =>
    /\ Saved(row) # {} => Provided
    /\ \A s \in Handlers : Inserting(handling[s]) => Saved(row) # {} /\ Provided

AccountInv == Table /\ Carried /\ Alone /\ Flagged

-----------------------------------------------------------------------------
(* What the statements do to the table.                                    *)

\* The table after a statement: saved rows keep their account, but for the row
\* written; which rows are saved and which are defaults.
Becomes(saved, defaults) ==
  /\ Saved(row)' = saved /\ Defaults(row)' = defaults
  /\ \A a \in Rows : row[a] # Free => row'[a] # Free

LEMMA Parts ==
  ASSUME Table, NEW a \in Rows
  PROVE  /\ row[a] \in SavedRow <=> a \in Saved(row)
         /\ row[a] \notin SavedRow => row[a] = Free \/ row[a] = Gone
         /\ a \in Defaults(row) <=> row[a] \in SavedRow /\ row[a].default
         /\ Free \notin SavedRow /\ Gone \notin SavedRow
         /\ Free # Gone
BY DEF Table, Saved, Defaults, SavedRow, Free, Gone

LEMMA Flag ==
  ASSUME NEW r \in SavedRow, NEW d \in BOOLEAN
  PROVE  /\ [r EXCEPT !.default = d] \in SavedRow
         /\ [r EXCEPT !.default = d].number = r.number
         /\ [r EXCEPT !.default = d].default = d
BY DEF SavedRow

\* Rows that change only in their flags.
LEMMA FlagsOnly ==
  ASSUME Table, NEW D \in SUBSET Saved(row),
         row' \in [Rows -> {Free, Gone} \cup SavedRow],
         noted' \subseteq {"overlap", "unreadable"},
         \A a \in Rows : row[a] \notin SavedRow => row'[a] = row[a],
         \A a \in Saved(row) : /\ row'[a] \in SavedRow /\ row'[a].number = row[a].number
                               /\ row'[a].default <=> a \in D
  PROVE  Table' /\ Becomes(Saved(row), D)
<1>1. \A a \in Rows : row'[a].state = "saved" <=> row[a].state = "saved"
  BY DEF Saved, SavedRow, Table
<1>2. Saved(row)' = Saved(row)
  BY <1>1 DEF Saved
<1>3. Defaults(row)' = D
  BY <1>2, D \subseteq Saved(row) DEF Defaults
<1>4. \A a \in Rows : row[a] # Free => row'[a] # Free
  BY Parts DEF SavedRow, Free
<1>5. Table'
  BY <1>2 DEF Table
<1> QED
  BY <1>2, <1>3, <1>4, <1>5 DEF Becomes

LEMMA ClearedDefaults ==
  ASSUME Table, NEW except, ClearDefaults(except),
         noted' \subseteq {"overlap", "unreadable"}
  PROVE  Table' /\ Becomes(Saved(row), Defaults(row) \cap except)
<1> DEFINE D == Defaults(row) \cap except
<1>1. \A a \in Rows : row'[a] = IF a \in Defaults(row) \ except
                                THEN [row[a] EXCEPT !.default = FALSE] ELSE row[a]
  BY DEF ClearDefaults
<1>2. row' = [a \in Rows |-> row'[a]]
  BY DEF ClearDefaults
<1>3. \A a \in Defaults(row) \ except : /\ row'[a] \in SavedRow
                                        /\ row'[a].number = row[a].number
                                        /\ row'[a].default = FALSE
  <2> SUFFICES ASSUME NEW a \in Defaults(row) \ except
               PROVE  /\ row'[a] \in SavedRow /\ row'[a].number = row[a].number
                      /\ row'[a].default = FALSE
    OBVIOUS
  <2>1. a \in Rows
    BY DEF Defaults, Saved
  <2>2. row[a] \in SavedRow
    BY <2>1, Parts
  <2>3. row'[a] = [row[a] EXCEPT !.default = FALSE]
    BY <1>1, <2>1
  <2> QED
    BY <2>2, <2>3, Flag
<1>4. \A a \in Rows : a \notin Defaults(row) \ except => row'[a] = row[a]
  BY <1>1
<1>5. row' \in [Rows -> {Free, Gone} \cup SavedRow]
  BY <1>2, <1>3, <1>4 DEF Table
<1>6. D \in SUBSET Saved(row)
  BY DEF Defaults
<1>7. \A a \in Rows : row[a] \notin SavedRow => row'[a] = row[a]
  BY <1>4, Parts
<1>8. \A a \in Saved(row) : /\ row'[a] \in SavedRow /\ row'[a].number = row[a].number
                            /\ row'[a].default <=> a \in D
  <2> SUFFICES ASSUME NEW a \in Saved(row)
               PROVE  /\ row'[a] \in SavedRow /\ row'[a].number = row[a].number
                      /\ row'[a].default <=> a \in D
    OBVIOUS
  <2>1. a \in Rows /\ row[a] \in SavedRow
    BY Parts DEF Saved
  <2>2. CASE a \in Defaults(row) \ except
    BY <1>3, <2>2
  <2>3. CASE a \notin Defaults(row) \ except
    BY <1>4, <2>1, <2>3, Parts
  <2> QED
    BY <2>2, <2>3
<1> HIDE DEF D
<1>9. Table' /\ Becomes(Saved(row), D)
  BY <1>5, <1>6, <1>7, <1>8, FlagsOnly
<1> QED
  BY <1>9 DEF D

\* Promote and ChooseDefault.
LEMMA MadeDefault ==
  ASSUME Table, NEW a \in Rows, row[a] # Free,
         noted' \subseteq {"overlap", "unreadable"},
         row' = [row EXCEPT ![a] =
                   IF row[a] = Gone THEN Gone ELSE [row[a] EXCEPT !.default = TRUE]]
  PROVE  /\ Table'
         /\ Becomes(Saved(row), Defaults(row) \cup ({a} \cap Saved(row)))
<1> DEFINE D == Defaults(row) \cup ({a} \cap Saved(row))
<1>1. row \in [Rows -> {Free, Gone} \cup SavedRow]
  BY DEF Table
<1>2. \A b \in Rows \ {a} : row'[b] = row[b]
  BY <1>1
<1>3. CASE row[a] = Gone
  <2>1. row' = row
    BY <1>1, <1>3
  <2>2. a \notin Saved(row)
    BY <1>3, Parts
  <2> QED
    BY <2>1, <2>2 DEF Table, Becomes, Saved, Defaults
<1>4. CASE row[a] # Gone
  <2>1. row[a] \in SavedRow
    BY <1>4, Parts
  <2>2. row'[a] = [row[a] EXCEPT !.default = TRUE]
    BY <1>1, <1>4
  <2>3. row'[a] \in SavedRow /\ row'[a].number = row[a].number /\ row'[a].default = TRUE
    BY <2>1, <2>2, Flag
  <2>4. row' = [b \in Rows |-> row'[b]]
    BY <1>1
  <2>5. row' \in [Rows -> {Free, Gone} \cup SavedRow]
    BY <1>1, <1>2, <2>3, <2>4
  <2>6. D \in SUBSET Saved(row)
    BY DEF Defaults
  <2>7. \A b \in Rows : row[b] \notin SavedRow => row'[b] = row[b]
    BY <1>2, <2>1
  <2>8. \A b \in Saved(row) : /\ row'[b] \in SavedRow /\ row'[b].number = row[b].number
                              /\ row'[b].default <=> b \in D
    BY <1>2, <2>1, <2>3, Parts DEF Saved
  <2> HIDE DEF D
  <2>9. Table' /\ Becomes(Saved(row), D)
    BY <2>5, <2>6, <2>7, <2>8, FlagsOnly
  <2> QED
    BY <2>9 DEF D
<1> QED
  BY <1>3, <1>4

\* WriteAccount, whether it updates a row or inserts one.
LEMMA Written ==
  ASSUME Table, NEW a \in Rows, NEW n \in Numbers, NEW d \in BOOLEAN,
         Of(n) \subseteq {a}, noted' \subseteq {"overlap", "unreadable"},
         row' = [row EXCEPT ![a] = Account(n, TRUE, d)]
  PROVE  /\ Table'
         /\ Becomes(Saved(row) \cup {a},
                    IF d THEN Defaults(row) \cup {a} ELSE Defaults(row) \ {a})
<1>1. row \in [Rows -> {Free, Gone} \cup SavedRow]
  BY DEF Table
<1>2. \A b \in Rows \ {a} : row'[b] = row[b]
  BY <1>1
<1> PICK new : new = Account(n, TRUE, d)
  OBVIOUS
<1>3. /\ new \in SavedRow /\ new.state = "saved" /\ new.number = n /\ new.default = d
  BY DEF Account, SavedRow
<1>4. row'[a] = new
  BY <1>1
<1>5. row' \in [Rows -> {Free, Gone} \cup SavedRow]
  BY <1>1, <1>3, <1>4
<1>6. Saved(row)' = Saved(row) \cup {a}
  BY <1>2, <1>3, <1>4 DEF Saved
<1>7. Defaults(row)' = IF d THEN Defaults(row) \cup {a} ELSE Defaults(row) \ {a}
  BY <1>2, <1>3, <1>4, <1>6 DEF Defaults, Saved
<1>8. \A b, c \in Saved(row)' : row'[b].number = row'[c].number => b = c
  <2>1. \A b \in Saved(row) \ {a} : row'[b].number = row[b].number /\ row[b].number # n
    BY <1>2 DEF Of, Saved
  <2>2. row'[a].number = n
    BY <1>3, <1>4
  <2>3. \A b, c \in Saved(row) : row[b].number = row[c].number => b = c
    BY DEF Table
  <2>4. \A b, c \in Saved(row) \cup {a} : row'[b].number = row'[c].number => b = c
    <3> HIDE DEF Saved
    <3> TAKE b, c \in Saved(row) \cup {a}
    <3>1. CASE b = a
      BY <2>1, <2>2, <3>1
    <3>2. CASE c = a
      BY <2>1, <2>2, <3>2
    <3>3. CASE b # a /\ c # a
      BY <2>1, <2>3, <3>3
    <3> QED
      BY <3>1, <3>2, <3>3
  <2> QED
    BY <1>6, <2>4
<1>9. \A b \in Rows : row[b] # Free => row'[b] # Free
  <2> Free.state = "free"
    BY DEF Free
  <2>1. new # Free
    BY <1>3
  <2> QED
    BY <1>2, <1>4, <2>1
<1> QED
  BY <1>5, <1>6, <1>7, <1>8, <1>9 DEF Table, Becomes

LEMMA Deleted ==
  ASSUME Table, NEW a \in Rows, noted' \subseteq {"overlap", "unreadable"},
         row' = [row EXCEPT ![a] = Gone]
  PROVE  Table' /\ Becomes(Saved(row) \ {a}, Defaults(row) \ {a})
<1>1. row \in [Rows -> {Free, Gone} \cup SavedRow]
  BY DEF Table
<1>2. \A b \in Rows \ {a} : row'[b] = row[b]
  BY <1>1
<1>3. row'[a] = Gone
  BY <1>1
<1>4. Saved(row)' = Saved(row) \ {a}
  BY <1>2, <1>3 DEF Saved, Gone
<1>5. Defaults(row)' = Defaults(row) \ {a}
  BY <1>2, <1>4 DEF Defaults, Saved
<1>6. \A b, c \in Saved(row)' : row'[b].number = row'[c].number => b = c
  BY <1>2, <1>4 DEF Table, Saved
<1>7. \A b \in Rows : row[b] # Free => row'[b] # Free
  BY <1>2, <1>3 DEF Free, Gone
<1>8. row' \in [Rows -> {Free, Gone} \cup SavedRow]
  BY <1>1
<1> QED
  BY <1>4, <1>5, <1>6, <1>7, <1>8 DEF Table, Becomes

-----------------------------------------------------------------------------
(* How a step of one handler leaves the others.                            *)

LEMMA InitAccounts == ASSUME PayoutInit PROVE AccountInv
<1>1. PICK k \in 0..Legacy :
        \E number \in [1..k -> Numbers], readable \in [1..k -> BOOLEAN], default \in 0..k :
          /\ \A a, b \in 1..k : number[a] = number[b] => a = b
          /\ default = 0 <=> k = 0
          /\ row = [a \in Rows |-> IF a > k THEN Free
                                   ELSE Account(number[a], readable[a], a = default)]
  BY DEF PayoutInit
<1>2. PICK number \in [1..k -> Numbers], readable \in [1..k -> BOOLEAN], default \in 0..k :
          /\ \A a, b \in 1..k : number[a] = number[b] => a = b
          /\ default = 0 <=> k = 0
          /\ row = [a \in Rows |-> IF a > k THEN Free
                                   ELSE Account(number[a], readable[a], a = default)]
  BY <1>1
<1>3. k \in Nat /\ 1..k \subseteq Rows /\ default \in Nat
  BY PayoutAssumption DEF PayoutAssumption, Rows
<1>4. \A a \in Rows :
        IF a > k THEN row[a] = Free
        ELSE row[a] = Account(number[a], readable[a], a = default)
  BY <1>2
<1>5. \A a \in 1..k : /\ row[a] \in SavedRow
                      /\ row[a].number = number[a] /\ row[a].default = (a = default)
                      /\ row[a].state = "saved"
  <2> SUFFICES ASSUME NEW a \in 1..k
               PROVE  /\ row[a] \in SavedRow
                      /\ row[a].number = number[a] /\ row[a].default = (a = default)
                      /\ row[a].state = "saved"
    OBVIOUS
  <2>1. row[a] = Account(number[a], readable[a], a = default)
    BY <1>3, <1>4
  <2>2. number[a] \in Numbers /\ readable[a] \in BOOLEAN /\ (a = default) \in BOOLEAN
    OBVIOUS
  <2> QED
    BY <2>1, <2>2 DEF Account, SavedRow
<1>6. \A a \in Rows : a \notin 1..k => row[a] = Free
  BY <1>3, <1>4 DEF Rows
<1>7. row \in [Rows -> {Free, Gone} \cup SavedRow]
  BY <1>2, <1>5, <1>6
<1>8. Saved(row) = 1..k
  BY <1>3, <1>5, <1>6 DEF Saved, Free
<1>9. Defaults(row) = {default} \ {0}
  <2>1. default \in (1..k) \cup {0}
    BY <1>2, <1>3
  <2>2. \A a \in 1..k : row[a].default <=> a = default
    BY <1>5
  <2>3. 0 \notin 1..k
    BY <1>3
  <2> QED
    BY <1>8, <2>1, <2>2, <2>3 DEF Defaults
<1>10. Table
  <2>1. \A a, b \in Saved(row) : row[a].number = row[b].number => a = b
    <3>1. \A a, b \in 1..k : number[a] = number[b] => a = b
      BY <1>2
    <3>2. \A a \in 1..k : row[a].number = number[a]
      BY <1>5
    <3> QED
      BY <1>8, <3>1, <3>2
  <2> QED
    BY <1>7, <2>1 DEF Table, PayoutInit
<1>11. handling = [s \in Handlers |-> Waiting] /\ \A s \in Handlers : handling[s].at = "idle"
  BY DEF PayoutInit, Waiting
<1>12. \A s \in Handlers : Proper(handling[s]) /\ Chosen(handling[s]) = {}
  BY <1>11 DEF Proper, Chosen
<1>13. Carried
  BY <1>11, <1>12 DEF Carried
<1>14. \A s \in Handlers : ~HalfWay(s) /\ OwnStep(handling[s]) /\ ~Inserting(handling[s])
  BY <1>11, <1>12 DEF HalfWay, OwnStep, Inserting
<1>15. Alone
  BY <1>9, <1>14 DEF Alone
<1>16. Flagged
  <2>1. Saved(row) # {} => default # 0
    BY <1>2, <1>3, <1>8
  <2> QED
    BY <1>9, <1>14, <2>1 DEF Flagged, Provided
<1> QED
  BY <1>10, <1>13, <1>15, <1>16 DEF AccountInv

\* What a handler is about to do when another writes a default decides the slip.
LEMMA ChangingSteps ==
  ASSUME NEW s \in Handlers, Proper(handling[s])
  PROVE  /\ HalfWay(s) => Changing(s)
         /\ Inserting(handling[s]) => Changing(s)
         /\ handling[s].at \in {"removing", "promoting", "unsetting", "choosing"} =>
              Changing(s)
BY DEF HalfWay, Changing, Inserting, Proper

\* A step that keeps the table's saved rows and defaults, and ends no handler half-way.
Quiet(s) ==
  /\ Table'
  /\ Becomes(Saved(row), Defaults(row))
  /\ HalfWay(s)' = HalfWay(s)
  /\ noted \subseteq noted'

LEMMA OthersStay ==
  ASSUME AccountInv, NEW s \in Handlers, NEW step, Proceed(s, step)
  PROVE  /\ handling' = [t \in Handlers |-> handling'[t]] /\ handling'[s] = step
         /\ \A t \in Handlers \ {s} :
              handling'[t] = handling[t] /\ HalfWay(t)' = HalfWay(t)
<1>1. /\ handling' = [t \in Handlers |-> handling'[t]] /\ handling'[s] = step
      /\ \A t \in Handlers \ {s} : handling'[t] = handling[t]
  BY DEF AccountInv, Carried, Proceed
<1>2. \A t \in Handlers \ {s} : HalfWay(t)' = HalfWay(t)
  BY <1>1 DEF HalfWay
<1> QED
  BY <1>1, <1>2

LEMMA CarriedAfter ==
  ASSUME AccountInv, NEW s \in Handlers, NEW step, Proceed(s, step),
         Proper(step), \A a \in Chosen(step) : row'[a] # Free,
         \A a \in Rows : row[a] # Free => row'[a] # Free
  PROVE  Carried'
<1>1. \A t \in Handlers : Proper(handling'[t])
  BY OthersStay DEF AccountInv, Carried
<1>2. \A t \in Handlers \ {s} : \A a \in Chosen(handling[t]) :
        a \in Rows /\ row[a] # Free
  BY DEF AccountInv, Carried, Proper, Chosen, NoMatch
<1>3. \A t \in Handlers : \A a \in Chosen(handling'[t]) : row'[a] # Free
  BY <1>2, OthersStay
<1> QED
  BY <1>1, <1>3, OthersStay DEF Carried

\* The same defaults, another step: what is left to show is about the new step.
LEMMA QuietKept ==
  ASSUME AccountInv, NEW s \in Handlers, NEW step, Proceed(s, step), Quiet(s),
         Proper(step), \A a \in Chosen(step) : row[a] # Free /\ a \in Rows,
         "overlap" \notin noted => OwnStep(step),
         noted = {} /\ Inserting(step) => Saved(row) # {} /\ Provided
  PROVE  AccountInv'
<1>1. /\ Saved(row)' = Saved(row) /\ Defaults(row)' = Defaults(row)
      /\ noted \subseteq noted'
  BY DEF Quiet, Becomes
<1>2. Carried'
  BY CarriedAfter DEF Quiet, Becomes
<1>3. \A t \in Handlers : HalfWay(t)' = HalfWay(t)
  BY OthersStay DEF Quiet
<1>4. \A c : OwnStep(c)' <=> OwnStep(c)
  BY <1>1 DEF OwnStep
<1>5. Alone'
  BY <1>1, <1>3, <1>4, OthersStay DEF AccountInv, Alone
<1>6. Provided' = Provided
  BY <1>1, <1>3 DEF Provided
<1>7. Flagged'
  BY <1>1, <1>6, OthersStay DEF AccountInv, Flagged
<1> QED
  BY <1>2, <1>5, <1>7 DEF AccountInv, Quiet

\* Nobody else is about to change a default, so a handler may.
Undisturbed(s) == "overlap" \notin noted /\ \A t \in Handlers \ {s} : ~Changing(t)

\* A statement that writes the table: the other handlers have nothing at stake.
LEMMA WriteKept ==
  ASSUME AccountInv, NEW s \in Handlers, NEW step, Proceed(s, step), Overlap(s), Table',
         NEW S, NEW D, Becomes(S, D),
         Proper(step), ~Inserting(step), \A a \in Chosen(step) : row'[a] # Free,
         Undisturbed(s) => (\A a, b \in D : a = b) /\ OwnStep(step)',
         Undisturbed(s) /\ noted = {} => (S # {} => D # {} \/ HalfWay(s)')
  PROVE  AccountInv'
<1>1. Saved(row)' = S /\ Defaults(row)' = D
  BY DEF Becomes
<1>2. Carried'
  BY CarriedAfter DEF Becomes
<1>3. noted \subseteq noted' /\ ("overlap" \notin noted' => Undisturbed(s) /\ noted' = noted)
  BY DEF Overlap, Undisturbed
<1>4. ASSUME Undisturbed(s), NEW t \in Handlers \ {s}
      PROVE  ~HalfWay(t)' /\ ~Inserting(handling'[t]) /\ OwnStep(handling[t])'
  <2>1. /\ handling'[t] = handling[t] /\ HalfWay(t)' = HalfWay(t)
        /\ Proper(handling[t]) /\ ~Changing(t)
    BY <1>4, OthersStay DEF Undisturbed, AccountInv, Carried
  <2>2. /\ ~HalfWay(t) /\ ~Inserting(handling[t])
        /\ handling[t].at \notin {"removing", "promoting", "unsetting", "choosing"}
    BY <2>1, ChangingSteps
  <2> PICK c : c = handling[t]
    OBVIOUS
  <2>3. /\ c.at \notin {"removing", "promoting", "unsetting", "choosing"}
        /\ ~(c.at = "writing" /\ c.first)
    BY <2>2 DEF HalfWay
  <2>4. OwnStep(c)'
    BY <2>3 DEF OwnStep, Chosen
  <2> QED
    BY <2>1, <2>2, <2>4 DEF OwnStep, Chosen
<1>5. Alone'
  <2> SUFFICES ASSUME Undisturbed(s)
               PROVE  /\ \A a, b \in D : a = b
                      /\ \A q, t \in Handlers : HalfWay(q)' /\ HalfWay(t)' => q = t
                      /\ \A t \in Handlers : OwnStep(handling[t])'
    BY <1>1, <1>3 DEF Alone
  <2>1. OwnStep(step)' /\ handling'[s] = step
    BY OthersStay
  <2>2. OwnStep(handling[s])'
    BY <2>1 DEF OwnStep, Chosen
  <2> QED
    BY <1>4, <2>2
<1>6. Flagged'
  <2> SUFFICES ASSUME Undisturbed(s), noted = {}
               PROVE  /\ S # {} => Provided'
                      /\ \A t \in Handlers : ~Inserting(handling'[t])
    BY <1>1, <1>3 DEF Flagged
  <2>1. \A t \in Handlers : ~Inserting(handling'[t])
    BY <1>4, OthersStay
  <2>2. S # {} => Provided'
    BY <1>1 DEF Provided
  <2> QED
    BY <2>1, <2>2
<1> QED
  BY <1>2, <1>5, <1>6 DEF AccountInv

\* A handler that ends without a write.
LEMMA EndKept ==
  ASSUME AccountInv, NEW s \in Handlers, Proceed(s, Waiting), row' = row,
         noted \subseteq noted', noted' \subseteq {"overlap", "unreadable"},
         \/ "overlap" \in noted'
         \/ ~HalfWay(s)
         \/ noted' = {} => Saved(row) = {}
  PROVE  AccountInv'
<1> PICK step : step = Waiting
  OBVIOUS
<1>1. Proceed(s, step) /\ step.at = "idle"
  BY DEF Waiting
<1>2. Proper(step) /\ Chosen(step) = {} /\ ~Inserting(step)
  BY <1>1 DEF Proper, Chosen, Inserting
<1>3. Saved(row)' = Saved(row) /\ Defaults(row)' = Defaults(row)
  BY DEF Saved, Defaults
<1>4. Table'
  BY <1>3 DEF Table, AccountInv
<1>5. Carried'
  BY <1>1, <1>2, CarriedAfter
<1>6. ~HalfWay(s)' /\ OwnStep(step)'
  BY <1>1, <1>2, OthersStay DEF HalfWay, OwnStep
<1>7. \A c : OwnStep(c)' <=> OwnStep(c)
  BY <1>3 DEF OwnStep
<1>8. Alone'
  BY <1>1, <1>3, <1>6, <1>7, OthersStay DEF AccountInv, Alone
<1>9. Flagged'
  <2> SUFFICES ASSUME noted' = {}
               PROVE  /\ Saved(row) # {} => Provided'
                      /\ \A t \in Handlers :
                           Inserting(handling'[t]) => Saved(row) # {} /\ Provided'
    BY <1>3 DEF Flagged
  <2>1. \A t \in Handlers : Inserting(handling'[t]) => t # s /\ Inserting(handling[t])
    BY <1>1, <1>2, OthersStay
  <2>2. CASE ~HalfWay(s)
    <3>1. Provided' = Provided
      BY <1>3, <1>6, <2>2, OthersStay DEF Provided
    <3> QED
      BY <2>1, <3>1 DEF AccountInv, Flagged
  <2>3. CASE Saved(row) = {}
    BY <2>1, <2>3 DEF AccountInv, Flagged
  <2> QED
    BY <2>2, <2>3
<1> QED
  BY <1>4, <1>5, <1>8, <1>9 DEF AccountInv

-----------------------------------------------------------------------------
(* The handlers.                                                           *)

\* A step that reads, and goes on to another one.
LEMMA ReadKept ==
  ASSUME AccountInv, NEW s \in Handlers, NEW step, Proceed(s, step), UNCHANGED <<row, noted>>,
         HalfWay(s)' = HalfWay(s),
         Proper(step), \A a \in Chosen(step) : row[a] # Free /\ a \in Rows,
         "overlap" \notin noted => OwnStep(step),
         noted = {} /\ Inserting(step) => Saved(row) # {} /\ Provided
  PROVE  AccountInv'
<1>1. Becomes(Saved(row), Defaults(row))
  BY DEF Becomes, Saved, Defaults
<1>2. Table'
  BY DEF AccountInv, Table, Saved
<1> QED
  BY <1>1, <1>2, QuietKept DEF Quiet

LEMMA ReadAccountsKept ==
  ASSUME AccountInv, NEW s \in Handlers, NEW n \in Numbers,
         NEW target \in {NoMatch} \cup Saved(row), ReadAccounts(s, n, target)
  PROVE  AccountInv'
<1>0. PICK found \in {NoMatch} \cup Rows :
        Proceed(s, [at |-> "matching", number |-> n, target |-> target, found |-> found,
                 first |-> BecomesDefault])
  BY DEF ReadAccounts, Of, Saved
<1> PICK step : step = [at |-> "matching", number |-> n, target |-> target,
                        found |-> found, first |-> BecomesDefault]
  OBVIOUS
<1>1. handling[s].at = "idle" /\ UNCHANGED <<row, noted>>
  BY DEF ReadAccounts, Waiting
<1>2. target \in {NoMatch} \cup Rows /\ BecomesDefault \in BOOLEAN
  BY DEF Saved, BecomesDefault
<1>3. Proceed(s, step) /\ step.at = "matching" /\ step.first = BecomesDefault
  BY <1>0
<1>4. Proper(step)
  BY <1>2 DEF Proper
<1>5. Chosen(step) = {} /\ OwnStep(step)
  BY <1>3 DEF Chosen, OwnStep
<1>6. HalfWay(s)' = HalfWay(s)
  BY <1>1, <1>3, OthersStay DEF HalfWay
<1>7. noted = {} /\ Inserting(step) => Saved(row) # {} /\ Provided
  BY <1>3 DEF Inserting, BecomesDefault, AccountInv, Flagged
<1> QED
  BY <1>1, <1>3, <1>4, <1>5, <1>6, <1>7, ReadKept

LEMMA MatchKept ==
  ASSUME AccountInv, NEW s \in Handlers, MatchAccount(s)
  PROVE  AccountInv'
<1>1. /\ handling[s].at = "matching" /\ UNCHANGED <<row, noted>>
      /\ handling[s] \in [at : {"matching"}, number : Numbers,
                      target : {NoMatch} \cup Rows,
                      found : {NoMatch} \cup Rows, first : BOOLEAN]
  BY DEF MatchAccount, AccountInv, Carried, Proper
<1>2. PICK match \in {NoMatch} \cup Rows, named \in BOOLEAN :
        Proceed(s, [at |-> IF handling[s].first THEN "clearing" ELSE "writing",
                 number |-> handling[s].number, match |-> match, first |-> handling[s].first,
                 named |-> named])
  <2>1. (handling[s].target \in Saved(row)) \in BOOLEAN /\ Saved(row) \subseteq Rows
    BY DEF Saved
  <2> QED
    BY <1>1, <2>1 DEF MatchAccount
<1> PICK step :
      step = [at |-> IF handling[s].first THEN "clearing" ELSE "writing",
              number |-> handling[s].number, match |-> match, first |-> handling[s].first,
              named |-> named]
  OBVIOUS
<1>3. /\ Proceed(s, step) /\ step.first = handling[s].first
      /\ step.at = IF handling[s].first THEN "clearing" ELSE "writing"
  BY <1>2
<1>4. Proper(step)
  BY <1>1, <1>3 DEF Proper
<1>5. Chosen(step) = {} /\ OwnStep(step)
  BY <1>3 DEF Chosen, OwnStep
<1>6. HalfWay(s)' = HalfWay(s)
  BY <1>1, <1>3, OthersStay DEF HalfWay
<1>7. noted = {} /\ Inserting(step) => Saved(row) # {} /\ Provided
  BY <1>1, <1>3 DEF Inserting, AccountInv, Flagged
<1> QED
  BY <1>1, <1>3, <1>4, <1>5, <1>6, <1>7, ReadKept

LEMMA ClearKept ==
  ASSUME AccountInv, NEW s \in Handlers, ClearOthers(s)
  PROVE  AccountInv'
<1>1. /\ handling[s].at = "clearing" /\ handling[s].first
      /\ handling[s] \in [at : {"clearing", "writing"}, number : Numbers,
                      match : {NoMatch} \cup Rows, first : BOOLEAN, named : BOOLEAN]
  BY DEF ClearOthers, AccountInv, Carried, Proper
<1> PICK step : step = [handling[s] EXCEPT !.at = "writing"]
  OBVIOUS
<1>2. Proceed(s, step) /\ Overlap(s) /\ ClearDefaults({handling[s].match})
  BY DEF ClearOthers
<1>3. step.at = "writing" /\ step.first /\ step.match = handling[s].match
  BY <1>1
<1>4. Proper(step)
  BY <1>1, <1>3 DEF Proper
<1>5. Table' /\ Becomes(Saved(row), Defaults(row) \cap {step.match})
  BY <1>2, <1>3, ClearedDefaults DEF AccountInv, Table, Overlap
<1>6. Chosen(step) = {} /\ ~Inserting(step)
  BY <1>3 DEF Chosen, Inserting
<1>7. OwnStep(step)'
  BY <1>3, <1>5, <1>6 DEF OwnStep, Becomes, Chosen
<1>8. HalfWay(s)'
  BY <1>2, <1>3, OthersStay DEF HalfWay
<1>9. \A a, b \in Defaults(row) \cap {step.match} : a = b
  OBVIOUS
<1> QED
  BY <1>2, <1>4, <1>5, <1>6, <1>7, <1>8, <1>9, WriteKept

\* Statements that leave a handler with nothing more to do.
LEMMA LastWriteKept ==
  ASSUME AccountInv, NEW s \in Handlers, Proceed(s, Waiting), Overlap(s), Table',
         NEW S, NEW D, Becomes(S, D),
         Undisturbed(s) => \A a, b \in D : a = b,
         Undisturbed(s) /\ noted = {} => (S # {} => D # {})
  PROVE  AccountInv'
<1> PICK step : step = Waiting
  OBVIOUS
<1>1. Proceed(s, step) /\ step.at = "idle"
  BY DEF Waiting
<1>2. Proper(step) /\ Chosen(step) = {} /\ ~Inserting(step) /\ OwnStep(step)'
  BY <1>1 DEF Proper, Chosen, Inserting, OwnStep
<1> QED
  BY <1>1, <1>2, WriteKept

\* A handler with the default in its hands has it to itself.
LEMMA Own ==
  ASSUME AccountInv, NEW s \in Handlers, Undisturbed(s)
  PROVE  /\ OwnStep(handling[s]) /\ \A a, b \in Defaults(row) : a = b
         /\ \A t \in Handlers : HalfWay(t) => t = s
         /\ noted = {} =>
              /\ Saved(row) # {} => Defaults(row) # {} \/ HalfWay(s)
              /\ Inserting(handling[s]) => Saved(row) # {} /\ Defaults(row) # {}
<1>1. \A t \in Handlers : HalfWay(t) => t = s
  <2> SUFFICES ASSUME NEW t \in Handlers, HalfWay(t), t # s
               PROVE  FALSE
    OBVIOUS
  <2>1. Proper(handling[t])
    BY DEF AccountInv, Carried
  <2> QED
    BY <2>1, ChangingSteps DEF Undisturbed
<1>2. Inserting(handling[s]) => ~HalfWay(s)
  BY DEF Inserting, HalfWay
<1> QED
  BY <1>1, <1>2 DEF Undisturbed, AccountInv, Alone, Flagged, Provided

LEMMA WriteAccountKept ==
  ASSUME AccountInv, NEW s \in Handlers, WriteAccount(s)
  PROVE  AccountInv'
<1> PICK n, match, first :
      n = handling[s].number /\ match = handling[s].match /\ first = handling[s].first
  OBVIOUS
<1>1. /\ handling[s].at = "writing" /\ Proceed(s, Waiting)
      /\ n \in Numbers /\ match \in {NoMatch} \cup Rows /\ first \in BOOLEAN
  BY DEF WriteAccount, AccountInv, Carried, Proper
<1>2. HalfWay(s) <=> first
  BY <1>1 DEF HalfWay
<1>3. noted \subseteq {"overlap", "unreadable"} /\ Table
  BY DEF AccountInv, Table
<1>4. CASE /\ match # NoMatch /\ row[match].state = "saved" /\ Of(n) \subseteq {match}
           /\ row' = [row EXCEPT ![match] = Account(n, TRUE, first \/ row[match].default)]
           /\ IF first THEN Overlap(s) ELSE UNCHANGED noted
  <2> PICK d : d = (first \/ row[match].default)
    OBVIOUS
  <2>1. match \in Saved(row) /\ match \in Rows /\ row[match] \in SavedRow
    BY <1>1, <1>3, <1>4, Parts DEF Saved
  <2>2. d \in BOOLEAN
    BY <2>1 DEF SavedRow
  <2>3. noted' \subseteq {"overlap", "unreadable"}
    BY <1>3, <1>4 DEF Overlap
  <2> DEFINE D == IF d THEN Defaults(row) \cup {match} ELSE Defaults(row) \ {match}
  <2>4. Table' /\ Becomes(Saved(row) \cup {match}, D)
    BY <1>1, <1>3, <1>4, <2>1, <2>2, <2>3, Written
  <2>5. Saved(row) \cup {match} = Saved(row)
    BY <2>1
  <2>6. CASE first
    <3>1. Overlap(s)
      BY <1>4, <2>6
    <3>2. D = Defaults(row) \cup {match}
      BY <2>6
    <3> HIDE DEF D
    <3>3. Undisturbed(s) => \A a, b \in D : a = b
      BY <1>1, <2>6, <3>2, Own DEF OwnStep
    <3>4. D # {}
      BY <3>2
    <3> QED
      BY <1>1, <2>4, <2>5, <3>1, <3>3, <3>4, LastWriteKept
  <2>7. CASE ~first
    <3>1. D = Defaults(row)
      BY <1>3, <2>1, <2>7, Parts
    <3> HIDE DEF D
    <3> PICK step : step = Waiting
      OBVIOUS
    <3>2. Proceed(s, step) /\ step.at = "idle"
      BY <1>1 DEF Waiting
    <3>3. Proper(step) /\ Chosen(step) = {} /\ ~Inserting(step) /\ OwnStep(step)
      BY <3>2 DEF Proper, Chosen, Inserting, OwnStep
    <3>4. HalfWay(s)' = HalfWay(s)
      BY <1>2, <2>7, <3>2, OthersStay DEF HalfWay
    <3>5. Quiet(s)
      BY <1>4, <2>4, <2>5, <2>7, <3>1, <3>4 DEF Quiet
    <3> QED
      BY <3>2, <3>3, <3>5, QuietKept
  <2> QED
    BY <1>1, <2>6, <2>7
<1>5. CASE /\ match = NoMatch /\ Of(n) = {} /\ Overlap(s)
           /\ \E a \in Rows :
                /\ row[a] = Free /\ \A b \in Rows : b < a => row[b] # Free
                /\ row' = [row EXCEPT ![a] = Account(n, TRUE, first)]
  <2>1. PICK a \in Rows :
          row[a] = Free /\ row' = [row EXCEPT ![a] = Account(n, TRUE, first)]
    BY <1>5
  <2>2. a \notin Saved(row) /\ a \notin Defaults(row)
    BY <1>3, <2>1, Parts
  <2>3. noted' \subseteq {"overlap", "unreadable"}
    BY <1>3, <1>5 DEF Overlap
  <2> DEFINE D == IF first THEN Defaults(row) \cup {a} ELSE Defaults(row) \ {a}
  <2>4. Table' /\ Becomes(Saved(row) \cup {a}, D)
    BY <1>1, <1>3, <1>5, <2>1, <2>3, Written
  <2>5. D = IF first THEN Defaults(row) \cup {a} ELSE Defaults(row)
    BY <2>2
  <2> HIDE DEF D
  <2>6. Undisturbed(s) => \A b, c \in D : b = c
    <3> SUFFICES ASSUME Undisturbed(s) PROVE \A b, c \in D : b = c
      OBVIOUS
    <3>1. first => Defaults(row) = {}
      <4>1. NoMatch \notin Defaults(row)
        BY DEF Defaults, Saved, Rows, NoMatch
      <4>2. OwnStep(handling[s])
        BY Own
      <4>3. handling[s].at = "writing" /\ handling[s].first =>
              Defaults(row) \subseteq {handling[s].match}
        BY <4>2 DEF OwnStep
      <4> QED
        BY <1>1, <1>5, <4>1, <4>3
    <3> QED
      BY <2>5, <3>1, Own
  <2>7. Undisturbed(s) /\ noted = {} => D # {}
    <3>1. ~first => Inserting(handling[s])
      BY <1>1, <1>5 DEF Inserting
    <3> QED
      BY <2>5, <3>1, Own
  <2> QED
    BY <1>1, <1>5, <2>4, <2>6, <2>7, LastWriteKept
<1>6. CASE BrokenOff(s) /\ UNCHANGED row
  <2>1. /\ noted \subseteq noted' /\ noted' \subseteq {"overlap", "unreadable"}
        /\ "overlap" \in noted' \/ ~HalfWay(s)
    BY <1>3, <1>6 DEF BrokenOff
  <2> QED
    BY <1>1, <1>6, <2>1, EndKept
<1> QED
  BY <1>4, <1>5, <1>6 DEF WriteAccount

LEMMA LoadKept ==
  ASSUME AccountInv, NEW s \in Handlers, NEW a \in Rows,
         LoadForDelete(s, a) \/ LoadForDefault(s, a)
  PROVE  AccountInv'
<1>1. handling[s].at = "idle" /\ UNCHANGED <<row, noted>> /\ a \in Saved(row)
  BY DEF LoadForDelete, LoadForDefault, Waiting
<1>2. row[a] \in SavedRow /\ row[a] # Free
  BY <1>1, Parts DEF AccountInv
<1>3. CASE LoadForDelete(s, a)
  <2> PICK step : step = [at |-> "removing", row |-> a, default |-> row[a].default]
    OBVIOUS
  <2>1. /\ Proceed(s, step)
        /\ step.at = "removing" /\ step.row = a /\ step.default = row[a].default
    BY <1>3 DEF LoadForDelete
  <2>2. Proper(step)
    BY <1>2, <2>1 DEF Proper, SavedRow
  <2>3. Chosen(step) = {} /\ ~Inserting(step) /\ OwnStep(step)
    BY <1>1, <2>1 DEF Chosen, Inserting, OwnStep, Defaults
  <2>4. HalfWay(s)' = HalfWay(s)
    BY <1>1, <2>1, OthersStay DEF HalfWay
  <2> QED
    BY <1>1, <2>1, <2>2, <2>3, <2>4, ReadKept
<1>4. CASE LoadForDefault(s, a)
  <2> PICK step : step = [at |-> "unsetting", row |-> a]
    OBVIOUS
  <2>1. Proceed(s, step) /\ step.at = "unsetting" /\ step.row = a
    BY <1>4 DEF LoadForDefault
  <2>2. Proper(step)
    BY <2>1 DEF Proper
  <2>3. Chosen(step) = {a} /\ ~Inserting(step) /\ OwnStep(step)
    BY <1>1, <2>1 DEF Chosen, Inserting, OwnStep
  <2>4. HalfWay(s)' = HalfWay(s)
    BY <1>1, <2>1, OthersStay DEF HalfWay
  <2> QED
    BY <1>1, <1>2, <2>1, <2>2, <2>3, <2>4, ReadKept
<1> QED
  BY <1>3, <1>4

LEMMA DeleteKept ==
  ASSUME AccountInv, NEW s \in Handlers, DeleteAccount(s)
  PROVE  AccountInv'
<1> PICK a : a = handling[s].row
  OBVIOUS
<1>1. /\ handling[s].at = "removing"
      /\ handling[s] \in [at : {"removing"}, row : Rows, default : BOOLEAN]
  BY DEF DeleteAccount, AccountInv, Carried, Proper
<1>2. a \in Rows /\ handling[s].default \in BOOLEAN /\ Overlap(s)
  BY <1>1 DEF DeleteAccount
<1>3. Table' /\ Becomes(Saved(row) \ {a}, Defaults(row) \ {a})
  BY <1>2, Deleted DEF AccountInv, Table, DeleteAccount, Overlap
<1>4. Undisturbed(s) => \A b, c \in Defaults(row) \ {a} : b = c
  BY Own
<1>5. Undisturbed(s) => (a \in Defaults(row) <=> handling[s].default)
  BY <1>1, Own DEF OwnStep
<1>6. CASE handling[s].default
  <2> PICK step : step = [at |-> "promoting", next |-> NoMatch]
    OBVIOUS
  <2>1. Proceed(s, step) /\ step.at = "promoting" /\ step.next = NoMatch
    BY <1>6 DEF DeleteAccount
  <2>2. Proper(step) /\ Chosen(step) = {} /\ ~Inserting(step)
    BY <2>1 DEF Proper, Chosen, Inserting
  <2>3. Undisturbed(s) => Defaults(row) \ {a} = {}
    BY <1>5, <1>6, Own
  <2>4. Undisturbed(s) => OwnStep(step)'
    BY <1>3, <2>1, <2>2, <2>3 DEF OwnStep, Becomes, Chosen
  <2>5. HalfWay(s)'
    BY <2>1, OthersStay DEF HalfWay
  <2> QED
    BY <1>2, <1>3, <1>4, <2>1, <2>2, <2>4, <2>5, WriteKept
<1>7. CASE ~handling[s].default
  <2>1. Proceed(s, Waiting)
    BY <1>7 DEF DeleteAccount
  <2>2. ~HalfWay(s)
    BY <1>1 DEF HalfWay
  <2>3. Undisturbed(s) /\ noted = {} =>
          (Saved(row) \ {a} # {} => Defaults(row) \ {a} # {})
    BY <1>5, <1>7, <2>2, Own
  <2> QED
    BY <1>2, <1>3, <1>4, <2>1, <2>3, LastWriteKept
<1> QED
  BY <1>6, <1>7

LEMMA PickKept ==
  ASSUME AccountInv, NEW s \in Handlers, PickNext(s)
  PROVE  AccountInv'
<1>1. /\ handling[s].at = "promoting" /\ handling[s].next = NoMatch /\ UNCHANGED row
      /\ handling[s] \in [at : {"promoting"}, next : {NoMatch} \cup Rows]
  BY DEF PickNext, AccountInv, Carried, Proper
<1>2. CASE Readable(row) = {}
  <2>1. /\ Proceed(s, Waiting)
        /\ noted' = IF Saved(row) # {} THEN noted \cup {"unreadable"} ELSE noted
    BY <1>2 DEF PickNext
  <2> QED
    BY <1>1, <2>1, EndKept DEF AccountInv, Table
<1>3. CASE Readable(row) # {}
  <2>1. NewestOf(Readable(row)) \in Readable(row)
    <3>1. \A S \in SUBSET Rows : S # {} => \E a \in S : \A b \in S : b <= a
      <4> SUFFICES ASSUME NEW S \in SUBSET Rows, S # {}
                   PROVE  \E a \in S : \A b \in S : b <= a
        OBVIOUS
      <4>1. S \subseteq Nat
        BY DEF Rows
      <4> DEFINE back == {MaxRows - a : a \in S}
      <4>2. back \subseteq Nat /\ back # {}
        <5>1. MaxRows \in Nat
          BY PayoutAssumption DEF PayoutAssumption
        <5>2. \A a \in S : MaxRows - a \in Nat
          BY <5>1 DEF Rows
        <5> QED
          BY <5>2
      <4>3. PICK n \in back : \A m \in back : n <= m
        <5> HIDE DEF back
        <5>1. PICK n \in back : \A m \in back : ~ (<<m, n>> \in OpToRel(<, Nat))
          BY <4>2, NatLessThanWellFounded, WFMin
        <5>2. \A m \in back : ~ (m < n)
          BY <4>2, <5>1 DEF OpToRel
        <5> QED
          BY <4>2, <5>2
      <4>4. PICK a \in S : n = MaxRows - a
        BY <4>3
      <4>5. \A b \in S : MaxRows - a <= MaxRows - b
        BY <4>3, <4>4
      <4> QED
        BY <4>1, <4>5, PayoutAssumption DEF PayoutAssumption
    <3> QED
      BY <1>3, <3>1 DEF NewestOf, Readable, Saved
  <2> PICK a : a = NewestOf(Readable(row))
    OBVIOUS
  <2>2. a \in Saved(row) /\ a \in Rows
    BY <2>1 DEF Readable, Saved
  <2> PICK step : step = [handling[s] EXCEPT !.next = a]
    OBVIOUS
  <2>3. Proceed(s, step) /\ UNCHANGED noted
    BY <1>3 DEF PickNext
  <2>4. step.at = "promoting" /\ step.next = a /\ Proper(step)
    BY <1>1, <2>2 DEF Proper
  <2>5. Chosen(step) = {a} /\ ~Inserting(step)
    BY <2>2, <2>4 DEF Chosen, Inserting, Rows, NoMatch
  <2>6. "overlap" \notin noted => OwnStep(step)
    <3>1. "overlap" \notin noted => OwnStep(handling[s])
      BY DEF AccountInv, Alone
    <3> QED
      BY <1>1, <2>2, <2>4, <2>5, <3>1 DEF OwnStep
  <2>7. row[a] # Free
    BY <2>2, Parts DEF AccountInv
  <2>8. HalfWay(s)' = HalfWay(s)
    BY <1>1, <2>3, <2>4, OthersStay DEF HalfWay
  <2> QED
    BY <1>1, <2>2, <2>3, <2>4, <2>5, <2>6, <2>7, <2>8, ReadKept
<1> QED
  BY <1>2, <1>3

\* The last statement of a deletion and of a choice.
LEMMA FlagKept ==
  ASSUME AccountInv, NEW s \in Handlers, NEW a, Chosen(handling[s]) = {a},
         handling[s].at \in {"promoting", "choosing"}, Overlap(s), Proceed(s, Waiting),
         row' = [row EXCEPT ![a] =
                   IF row[a] = Gone THEN Gone ELSE [@ EXCEPT !.default = TRUE]]
  PROVE  AccountInv'
<1>1. a \in Rows /\ row[a] # Free
  <2>1. Proper(handling[s]) /\ row[a] # Free
    BY DEF AccountInv, Carried
  <2> QED
    BY <2>1 DEF Proper, Chosen
<1> DEFINE D == Defaults(row) \cup ({a} \cap Saved(row))
<1>2. Table' /\ Becomes(Saved(row), D)
  BY <1>1, MadeDefault DEF AccountInv, Table, Overlap
<1>3. Undisturbed(s) => Defaults(row) = {} /\ a \in Saved(row)
  BY Own DEF OwnStep
<1>4. Undisturbed(s) => (\A b, c \in D : b = c) /\ D # {}
  BY <1>3
<1> HIDE DEF D
<1> QED
  BY <1>2, <1>4, LastWriteKept

LEMMA DefaultKept ==
  ASSUME AccountInv, NEW s \in Handlers,
         Promote(s) \/ UnsetDefaults(s) \/ ChooseDefault(s)
  PROVE  AccountInv'
<1>1. CASE Promote(s)
  <2>1. /\ handling[s].at = "promoting" /\ handling[s].next # NoMatch
        /\ Chosen(handling[s]) = {handling[s].next}
    BY <1>1 DEF Promote, Chosen
  <2> PICK a : a = handling[s].next
    OBVIOUS
  <2> QED
    BY <1>1, <2>1, FlagKept DEF Promote
<1>2. CASE ChooseDefault(s)
  <2>1. handling[s].at = "choosing" /\ Chosen(handling[s]) = {handling[s].row}
    BY <1>2 DEF ChooseDefault, Chosen
  <2> PICK a : a = handling[s].row
    OBVIOUS
  <2> QED
    BY <1>2, <2>1, FlagKept DEF ChooseDefault
<1>3. CASE UnsetDefaults(s)
  <2>1. /\ handling[s].at = "unsetting" /\ Overlap(s) /\ ClearDefaults({})
        /\ handling[s] \in [at : {"unsetting", "choosing"}, row : Rows]
        /\ row[handling[s].row] # Free
    BY <1>3 DEF UnsetDefaults, AccountInv, Carried, Proper, Chosen
  <2> PICK step : step = [handling[s] EXCEPT !.at = "choosing"]
    OBVIOUS
  <2>2. Proceed(s, step) /\ step.at = "choosing" /\ step.row = handling[s].row
    BY <1>3, <2>1 DEF UnsetDefaults
  <2>3. Proper(step)
    BY <2>1, <2>2 DEF Proper
  <2>4. Table' /\ Becomes(Saved(row), Defaults(row) \cap {})
    BY <2>1, ClearedDefaults DEF AccountInv, Table, Overlap
  <2>5. Table' /\ Becomes(Saved(row), {})
    BY <2>4
  <2>6. Chosen(step) = {handling[s].row} /\ ~Inserting(step)
    BY <2>2 DEF Chosen, Inserting
  <2>7. Undisturbed(s) => handling[s].row \in Saved(row)
    BY <2>1, Own DEF OwnStep, Chosen
  <2>8. Undisturbed(s) => OwnStep(step)'
    <3> PICK a : a = handling[s].row
      OBVIOUS
    <3> QED
      BY <2>2, <2>5, <2>7 DEF OwnStep, Becomes, Chosen
  <2>9. HalfWay(s)'
    BY <2>2, OthersStay DEF HalfWay
  <2>10. row'[step.row] # Free
    BY <2>1, <2>2, <2>5 DEF Becomes
  <2> QED
    BY <2>1, <2>2, <2>3, <2>5, <2>6, <2>8, <2>9, <2>10, WriteKept
<1> QED
  BY <1>1, <1>2, <1>3

LEMMA BreakKept ==
  ASSUME AccountInv, NEW s \in Handlers, StopShort(s)
  PROVE  AccountInv'
<1>1. /\ Proceed(s, Waiting) /\ UNCHANGED row
      /\ noted \subseteq noted' /\ noted' \subseteq {"overlap", "unreadable"}
      /\ "overlap" \in noted' \/ ~HalfWay(s)
  BY DEF StopShort, BrokenOff, AccountInv, Table
<1> QED
  BY <1>1, EndKept

LEMMA NextAccounts ==
  ASSUME AccountInv, [PayoutNext]_payoutVars
  PROVE  AccountInv'
<1>1. CASE UNCHANGED payoutVars
  <2>1. \A c : OwnStep(c)' <=> OwnStep(c)
    BY <1>1 DEF payoutVars, OwnStep, Saved, Defaults
  <2>2. \A s : HalfWay(s)' <=> HalfWay(s)
    BY <1>1 DEF payoutVars, HalfWay
  <2>3. Saved(row)' = Saved(row) /\ Defaults(row)' = Defaults(row)
    BY <1>1 DEF payoutVars, Saved, Defaults
  <2>4. handling' = handling /\ row' = row /\ noted' = noted
    BY <1>1 DEF payoutVars
  <2>5. Provided' = Provided
    BY <2>2, <2>3 DEF Provided
  <2>6. Table' /\ Carried'
    BY <2>3, <2>4 DEF AccountInv, Table, Carried
  <2>7. Alone'
    BY <2>1, <2>2, <2>3, <2>4 DEF AccountInv, Alone
  <2>8. Flagged'
    BY <2>3, <2>4, <2>5 DEF AccountInv, Flagged
  <2> QED
    BY <2>6, <2>7, <2>8 DEF AccountInv
<1>2. CASE PayoutNext
  <2>1. PICK s \in Handlers : SaveStep(s) \/ DefaultStep(s) \/ StopShort(s)
    BY <1>2 DEF PayoutNext
  <2>2. CASE SaveStep(s)
    BY <2>2, ReadAccountsKept, MatchKept, ClearKept, WriteAccountKept DEF SaveStep
  <2>3. CASE DefaultStep(s)
    BY <2>3, LoadKept, DeleteKept, PickKept, DefaultKept DEF DefaultStep
  <2> QED
    BY <2>1, <2>2, <2>3, BreakKept
<1> QED
  BY <1>1, <1>2 DEF payoutVars

LEMMA AlwaysAccounts == PayoutSpec => []AccountInv
<1>1. PayoutInit => AccountInv
  BY InitAccounts
<1>2. AccountInv /\ [PayoutNext]_payoutVars => AccountInv'
  BY NextAccounts
<1>3. QED
  BY <1>1, <1>2, PTL DEF PayoutSpec, payoutVars

\* The rows of payout_accounts keep their shape and no two hold the same account.
THEOREM PayoutTyped == PayoutSpec => []PayoutTypeOK
<1>1. AccountInv => PayoutTypeOK
  BY DEF AccountInv, Table, PayoutTypeOK, Accounts, SavedRow
<1>2. QED
  BY <1>1, AlwaysAccounts, PTL

\* saveAccount, deletePayoutAccount and setDefaultAccount never leave two defaults, for
\* any accounts and handlers in flight, unless two change defaults at the same time or
\* one stops half-way.
THEOREM DefaultIsOne == PayoutSpec => []OneDefault
<1>1. AccountInv => OneDefault
  BY DEF AccountInv, Alone, OneDefault
<1>2. QED
  BY <1>1, AlwaysAccounts, PTL

\* A user with accounts has a default whenever nobody is changing it, unless it was
\* deleted with no readable row to pass to, or one of the above.
THEOREM AccountsHaveDefault == PayoutSpec => []DefaultWhileAccounts
<1>1. AccountInv => DefaultWhileAccounts
  <2> SUFFICES ASSUME AccountInv, noted = {}, \A s \in Handlers : ~Changing(s)
               PROVE  Saved(row) # {} => Defaults(row) # {}
    BY DEF DefaultWhileAccounts
  <2>1. \A s \in Handlers : ~HalfWay(s)
    BY ChangingSteps DEF AccountInv, Carried
  <2> QED
    BY <2>1 DEF AccountInv, Flagged, Provided
<1>2. QED
  BY <1>1, AlwaysAccounts, PTL
=============================================================================
