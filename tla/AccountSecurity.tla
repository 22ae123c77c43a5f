--------------------------- MODULE AccountSecurity ---------------------------
(***************************************************************************)
(* Changing the password and the e-mail address of one account             *)
(* (controllers/settings/security.js).  A password change needs a code     *)
(* mailed to the user; a change of address a code mailed to the present    *)
(* address and then a link mailed to the new one.                          *)
(*                                                                         *)
(* A new code or request marks the earlier ones used and then inserts its  *)
(* row; whoever redeems one reads the row, calls the authentication        *)
(* service and marks the row used.  Each is a call of its own, and         *)
(* only some look at the error of the call.  The authentication service is *)
(* external: it takes the change or refuses it.                            *)
(***************************************************************************)
EXTENDS Naturals, FiniteSets

CONSTANTS
  Addresses,              \* e-mail addresses the account may have
  MaxCodes, MaxChanges,   \* bounds on the rows of the two tables
  Sessions,               \* handlers in flight at the same time
  Faults                  \* a handler may die, a statement may fail

ASSUME SecurityAssumption ==
  MaxCodes \in Nat /\ MaxChanges \in Nat /\ Faults \in BOOLEAN

VARIABLES
  login,      \* the address in auth.users
  profile,    \* the address in profiles
  code,       \* password_change_otps, in the order of created_at
  change,     \* email_change_requests, in the order of created_at
  work,       \* where each handler in flight stands
  redeemed,   \* history: the codes that changed the password, the requests that
              \* changed the address
  again,      \* history: the codes that changed the password more than once
  slips       \* history: "superseded" once a row was superseded while it was being
              \* redeemed or another one inserted, or was left open by a failed
              \* statement; "again" once a code was redeemed by two handlers or not
              \* marked; "address" once a profile missed a change of the login

vars == <<login, profile, code, change, work, redeemed, again, slips>>
account == <<login, profile>>
tables == <<code, change>>
history == <<redeemed, again, slips>>

Codes == 1..MaxCodes
Changes == 1..MaxChanges
Idle == [at |-> "idle"]
NoRow == [state |-> "none"]

Init ==
  /\ \E a \in Addresses : login = a /\ profile = a
  /\ code = [c \in Codes |-> NoRow]
  /\ change = [r \in Changes |-> NoRow]
  /\ work = [s \in Sessions |-> Idle]
  /\ redeemed = [code |-> {}, change |-> {}]
  /\ again = {} /\ slips = {}

Goto(s, step) == work' = [work EXCEPT ![s] = step]
Slip(kind, when) == slips' = IF when THEN slips \cup {kind} ELSE slips
Others(s) == Sessions \ {s}
At(ss, steps) == \E t \in ss : work[t].at \in steps

\* used_at is still null.  The age of a used row is of no more interest.
Open(table) == {i \in DOMAIN table : table[i].state \in {"code", "link"}}
Used(table, is) ==
  [i \in DOMAIN table |->
     IF i \in is THEN [table[i] EXCEPT !.state = "used", !.fresh = FALSE] ELSE table[i]]
NextRow(table, i) == table[i] = NoRow /\ \A j \in DOMAIN table : j < i => table[j] # NoRow
Latest(table, i) == i \in Open(table) /\ \A j \in Open(table) : j <= i

-----------------------------------------------------------------------------
\* requestPasswordChangeOtp.

\* Mutant: the codes before this one stay good.
KeepCodes(s) ==
  /\ work[s] = Idle
  /\ Goto(s, [at |-> "insertingCode"])
  /\ Slip("superseded", At(Others(s), {"insertingCode"}))
  /\ UNCHANGED <<account, tables, redeemed, again>>

\* The error of the UPDATE is not looked at.
InvalidateCodes(s) ==
  /\ work[s] = Idle
  /\ \/ code' = Used(code, Open(code))
     \/ Faults /\ UNCHANGED code
  /\ Slip("superseded", Open(code') # {} \/ At(Others(s), {"insertingCode"}))
  /\ Goto(s, [at |-> "insertingCode"])
  /\ UNCHANGED <<account, change, redeemed, again>>

\* A code that cannot be mailed is in the table all the same.
InsertCode(s, c) ==
  /\ work[s].at = "insertingCode"
  /\ NextRow(code, c)
  /\ code' = [code EXCEPT ![c] = [state |-> "code", fresh |-> TRUE]]
  /\ Slip("superseded", At(Others(s), {"changing"}))
  /\ Goto(s, Idle)
  /\ UNCHANGED <<account, change, redeemed, again>>

\* verifyOtpAndChangePassword.

ReadCode(s, c) ==
  /\ work[s] = Idle
  /\ Latest(code, c)
  /\ Goto(s, [at |-> IF code[c].fresh THEN "changing" ELSE "marking", code |-> c])
  /\ Slip("again", \E t \in Others(s) :
            work[t].at \in {"changing", "marking"} /\ work[t].code = c)
  /\ UNCHANGED <<account, tables, redeemed, again>>

ChangePassword(s) ==
  LET c == work[s].code IN
  /\ work[s].at = "changing"
  /\ \/ /\ redeemed' = [redeemed EXCEPT !.code = @ \cup {c}]
        /\ again' = again \cup ({c} \cap redeemed.code)
        /\ Goto(s, [work[s] EXCEPT !.at = "marking"])
     \/ Goto(s, Idle) /\ UNCHANGED <<redeemed, again>>
  /\ UNCHANGED <<account, tables, slips>>

\* Mutant: the code is marked used when it has expired only.
MarkExpired(s) ==
  LET c == work[s].code IN
  /\ work[s].at = "marking"
  /\ code' = IF code[c].fresh THEN code ELSE Used(code, {c})
  /\ Goto(s, Idle)
  /\ UNCHANGED <<account, change, history>>

\* The error of this UPDATE is not looked at either.
MarkCode(s) ==
  /\ work[s].at = "marking"
  /\ \/ code' = Used(code, {work[s].code}) /\ UNCHANGED slips
     \/ Faults /\ Slip("again", TRUE) /\ UNCHANGED code
  /\ Goto(s, Idle)
  /\ UNCHANGED <<account, change, redeemed, again>>

-----------------------------------------------------------------------------
\* requestEmailChangeOtp: the address is new to this user and to the profiles
\* (an address another user has is refused here and changes nothing).

StartChange(s, to) ==
  /\ work[s] = Idle
  /\ to # login /\ to # profile
  /\ Goto(s, [at |-> "invalidating", to |-> to])
  /\ UNCHANGED <<account, tables, history>>

InvalidateChanges(s) ==
  /\ work[s].at = "invalidating"
  /\ \/ change' = Used(change, Open(change))
     \/ Faults /\ UNCHANGED change
  /\ Slip("superseded", Open(change') # {} \/ At(Others(s), {"insertingChange"}))
  /\ Goto(s, [work[s] EXCEPT !.at = "insertingChange"])
  /\ UNCHANGED <<account, code, redeemed, again>>

InsertChange(s, r) ==
  /\ work[s].at = "insertingChange"
  /\ NextRow(change, r)
  /\ change' = [change EXCEPT ![r] =
                  [state |-> "code", fresh |-> TRUE, to |-> work[s].to]]
  /\ Slip("superseded", At(Others(s), {"moving"}))
  /\ Goto(s, Idle)
  /\ UNCHANGED <<account, code, redeemed, again>>

\* verifyEmailChangeOtp: asked again it sends a new link in place of the old one;
\* once the code has expired it closes the request, link and all.

ReadChange(s, r) ==
  /\ work[s] = Idle
  /\ Latest(change, r)
  /\ Goto(s, [at |-> IF change[r].fresh THEN "linking" ELSE "closing", change |-> r])
  /\ UNCHANGED <<account, tables, history>>

\* Mutant: the link makes the request good again.
LinkReopened(s) ==
  /\ work[s].at = "linking"
  /\ change' = [change EXCEPT ![work[s].change].state = "link"]
  /\ Goto(s, Idle)
  /\ UNCHANGED <<account, code, history>>

LinkChange(s) ==
  LET r == work[s].change IN
  /\ work[s].at = "linking"
  /\ change' = [change EXCEPT ![r].state = IF @ = "used" THEN @ ELSE "link"]
  /\ Goto(s, Idle)
  /\ UNCHANGED <<account, code, history>>

\* confirmEmailChange, with the last link that was sent; it lapses on its own.
ReadLink(s, r) ==
  /\ work[s] = Idle
  /\ change[r].state = "link"
  /\ Goto(s, [at |-> "moving", change |-> r])
  /\ UNCHANGED <<account, tables, history>>

MoveLogin(s) ==
  LET r == work[s].change IN
  /\ work[s].at = "moving"
  /\ \/ /\ login' = change[r].to
        /\ redeemed' = [redeemed EXCEPT !.change = @ \cup {r}]
        /\ Slip("address", \E t \in Others(s) :
                  work[t].at = "copying" /\ change[work[t].change].to # change[r].to)
        /\ Goto(s, [work[s] EXCEPT !.at = "copying"])
     \/ Goto(s, Idle) /\ UNCHANGED <<login, redeemed, slips>>
  /\ UNCHANGED <<profile, tables, again>>

\* Mutant: only while the request is still open.
CopyIfOpen(s) ==
  LET r == work[s].change IN
  /\ work[s].at = "copying"
  /\ profile' = IF r \in Open(change) THEN change[r].to ELSE profile
  /\ Goto(s, [work[s] EXCEPT !.at = "closing"])
  /\ UNCHANGED <<login, tables, history>>

\* A failure here is logged and the request is closed.
CopyToProfile(s) ==
  /\ work[s].at = "copying"
  /\ \/ profile' = change[work[s].change].to /\ UNCHANGED slips
     \/ Faults /\ Slip("address", TRUE) /\ UNCHANGED profile
  /\ Goto(s, [work[s] EXCEPT !.at = "closing"])
  /\ UNCHANGED <<login, tables, redeemed, again>>

CloseChange(s) ==
  /\ work[s].at = "closing"
  /\ \/ change' = Used(change, {work[s].change})
     \/ Faults /\ UNCHANGED change
  /\ Goto(s, Idle)
  /\ UNCHANGED <<account, code, history>>

-----------------------------------------------------------------------------
\* Ten minutes.
Lapse ==
  /\ \/ \E c \in Open(code) : code' = [code EXCEPT ![c].fresh = FALSE] /\ UNCHANGED change
     \/ \E r \in Open(change) : change' = [change EXCEPT ![r].fresh = FALSE] /\ UNCHANGED code
  /\ UNCHANGED <<account, work, history>>

Die(s) ==
  /\ Faults /\ work[s] # Idle
  /\ slips' = slips \cup (CASE work[s].at = "marking" -> {"again"}
                            [] work[s].at = "copying" -> {"address"}
                            [] OTHER -> {})
  /\ Goto(s, Idle)
  /\ UNCHANGED <<account, tables, redeemed, again>>

PasswordStep(s) ==
  \/ \E c \in Codes : InsertCode(s, c) \/ ReadCode(s, c)
  \/ InvalidateCodes(s) \/ ChangePassword(s) \/ MarkCode(s)

AddressStep(s) ==
  \/ \E a \in Addresses : StartChange(s, a)
  \/ \E r \in Changes : InsertChange(s, r) \/ ReadChange(s, r) \/ ReadLink(s, r)
  \/ InvalidateChanges(s) \/ LinkChange(s) \/ MoveLogin(s)
  \/ CopyToProfile(s) \/ CloseChange(s)

Next ==
  \/ \E s \in Sessions : PasswordStep(s) \/ AddressStep(s) \/ Die(s)
  \/ Lapse

Spec == Init /\ [][Next]_vars

-----------------------------------------------------------------------------
\* Properties.

\* The shape of the rows.
TypeOK ==
  /\ login \in Addresses /\ profile \in Addresses
  /\ code \in [Codes -> {NoRow} \cup [state : {"code", "used"}, fresh : BOOLEAN]]
  /\ change \in [Changes -> {NoRow} \cup
       [state : {"code", "link", "used"}, fresh : BOOLEAN, to : Addresses]]
  /\ slips \subseteq {"superseded", "again", "address"}

\* A code changes the password once, whoever enters it again, unless it is being
\* entered twice at the same time or could not be marked after the change.
OneChangePerCode == "again" \notin slips => again = {}

\* "Invalidate any previous unused OTPs", "requests": what was asked for before is
\* of no use any more: only the newest code changes the password and only the
\* newest request the address, however they were verified, re-sent and left to
\* lapse.  A request made while an older one is being redeemed or inserted, and an
\* UPDATE that failed unseen, break it.
SupersededIsVoid ==
  [][/\ \A c \in redeemed'.code \ redeemed.code :
          (\E d \in Codes : d > c /\ code[d] # NoRow) => "superseded" \in slips
     /\ \A r \in redeemed'.change \ redeemed.change :
          (\E q \in Changes : q > r /\ change[q] # NoRow) => "superseded" \in slips]_vars

\* Login and profile name the same address between handlers: "reconciled manually
\* rather than silently drifting from auth.users" is only needed after a failed
\* or unfinished copy, and after two links confirmed at the same time.
AddressesAgree ==
  "address" \notin slips /\ ~At(Sessions, {"copying"}) => profile = login
=============================================================================
