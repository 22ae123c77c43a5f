--------------------------- MODULE PayoutAccounts ---------------------------
(***************************************************************************)
(* The bank accounts one user is paid on (controllers/settings/profile.js):*)
(* saving an account, deleting one, choosing the default.  A row holds the *)
(* account number encrypted; rows of before the present key cannot be read *)
(* and are repaired when their account is saved again.                     *)
(*                                                                         *)
(* The gates of saveAccount (KYC status, the bank's answer, the likeness   *)
(* of the names) decide whether a request comes this far and nothing else. *)
(* payout_accounts is external: recipient_code, which the provider derives *)
(* from bank and number, is unique.                                        *)
(***************************************************************************)
EXTENDS Naturals

CONSTANTS
  Numbers,      \* account numbers, each with its bank
  Tail,         \* number -> bank, last four digits and holder: what is kept in clear
  MaxRows,      \* a bound on the rows ever inserted
  Legacy,       \* a bound on those that are there at first
  Handlers,     \* handlers in flight at the same time
  MayFail       \* a handler may die, a statement may fail

ASSUME PayoutAssumption ==
  /\ MaxRows \in Nat /\ Legacy \in 0..MaxRows /\ MayFail \in BOOLEAN
  /\ DOMAIN Tail = Numbers

VARIABLES
  row,       \* payout_accounts, in the order of created_at
  handling,  \* where each handler in flight stands
  noted      \* history: "overlap" once two handlers were changing defaults at the
             \* same time or one stopped half-way; "unreadable" once the default was
             \* deleted with only unreadable rows left

payoutVars == <<row, handling, noted>>

Rows == 1..MaxRows
Waiting == [at |-> "idle"]
Free == [state |-> "free"]
Gone == [state |-> "gone"]
NoMatch == 0
Account(n, readable, default) ==
  [state |-> "saved", number |-> n, readable |-> readable, default |-> default]

Saved(rows) == {a \in Rows : rows[a].state = "saved"}
Defaults(rows) == {a \in Saved(rows) : rows[a].default}
Readable(rows) == {a \in Saved(rows) : rows[a].readable}
Of(n) == {a \in Saved(row) : row[a].number = n}

PayoutInit ==
  /\ \E k \in 0..Legacy :
       \E number \in [1..k -> Numbers], readable \in [1..k -> BOOLEAN], default \in 0..k :
         /\ \A a, b \in 1..k : number[a] = number[b] => a = b
         /\ default = 0 <=> k = 0
         /\ row = [a \in Rows |-> IF a > k THEN Free
                                  ELSE Account(number[a], readable[a], a = default)]
  /\ handling = [s \in Handlers |-> Waiting]
  /\ noted = {}

Proceed(s, step) == handling' = [handling EXCEPT ![s] = step]

\* Handlers that have read the accounts and will still write a default, or
\* insert a row that is none.
Changing(s) ==
  \/ handling[s].at \in {"matching", "removing", "promoting", "unsetting", "choosing"}
  \/ /\ handling[s].at \in {"clearing", "writing"}
     /\ handling[s].first \/ handling[s].match = NoMatch

\* Handlers that have cleared or deleted a default and not set the next one.
HalfWay(s) ==
  \/ handling[s].at \in {"promoting", "choosing"}
  \/ handling[s].at = "writing" /\ handling[s].first

Overlap(s) ==
  noted' = IF \E r \in Handlers \ {s} : Changing(r) THEN noted \cup {"overlap"} ELSE noted

BrokenOff(s) == noted' = IF HalfWay(s) THEN noted \cup {"overlap"} ELSE noted

ClearDefaults(except) ==
  row' = [a \in Rows |-> IF a \in Defaults(row) \ except
                         THEN [row[a] EXCEPT !.default = FALSE] ELSE row[a]]

-----------------------------------------------------------------------------
\* saveAccount.

\* Mutant: only a default that cannot be read is replaced.
BecomesDefaultBroken == Defaults(row) # {} /\ ~(Defaults(row) \subseteq Readable(row))

\* The first account, or one saved while the default cannot be read.
BecomesDefault ==
  \/ Saved(row) = {}
  \/ Defaults(row) # {} /\ ~(Defaults(row) \subseteq Readable(row))

\* "target" is the row the request names, if any.
ReadAccounts(s, n, target) ==
  LET same == Of(n) \cap Readable(row) IN
  /\ handling[s] = Waiting
  /\ \E found \in IF same = {} THEN {NoMatch} ELSE same :
       Proceed(s, [at |-> "matching", number |-> n, target |-> target, found |-> found,
                first |-> BecomesDefault])
  /\ UNCHANGED <<row, noted>>

\* The row to write to: the one named, else one with this number, else one that
\* looks like it in clear; the name may have drifted and hide it.
MatchAccount(s) ==
  LET n == handling[s].number
      alike == {a \in Saved(row) : Tail[row[a].number] = Tail[n]}
      named == handling[s].target \in Saved(row)
      choices ==
        IF named THEN {handling[s].target}
        ELSE IF handling[s].found # NoMatch THEN {handling[s].found}
        ELSE {NoMatch} \cup alike
  IN
  /\ handling[s].at = "matching"
  /\ \E match \in choices :
       Proceed(s, [at |-> IF handling[s].first THEN "clearing" ELSE "writing", number |-> n,
                match |-> match, first |-> handling[s].first, named |-> named])
  /\ UNCHANGED <<row, noted>>

\* Mutant: the other defaults stay.
ClearNothing(s) ==
  /\ handling[s].at = "clearing"
  /\ Proceed(s, [handling[s] EXCEPT !.at = "writing"])
  /\ UNCHANGED <<row, noted>>

ClearOthers(s) ==
  /\ handling[s].at = "clearing"
  /\ ClearDefaults({handling[s].match})
  /\ Overlap(s)
  /\ Proceed(s, [handling[s] EXCEPT !.at = "writing"])

\* UPDATE, or INSERT: refused when another row has the recipient code.
WriteAccount(s) ==
  LET n == handling[s].number
      match == handling[s].match
  IN
  /\ handling[s].at = "writing"
  /\ \/ /\ match # NoMatch /\ row[match].state = "saved"
        /\ Of(n) \subseteq {match}
        /\ row' = [row EXCEPT ![match] =
                     Account(n, TRUE, handling[s].first \/ row[match].default)]
        /\ IF handling[s].first THEN Overlap(s) ELSE UNCHANGED noted
     \/ /\ match = NoMatch /\ Of(n) = {}
        /\ \E a \in Rows :
             /\ row[a] = Free /\ \A b \in Rows : b < a => row[b] # Free
             /\ row' = [row EXCEPT ![a] = Account(n, TRUE, handling[s].first)]
        /\ Overlap(s)
     \/ /\ ~(Of(n) \subseteq {match}) \/ (match # NoMatch /\ row[match] = Gone)
        /\ BrokenOff(s)
        /\ UNCHANGED row
  /\ Proceed(s, Waiting)

-----------------------------------------------------------------------------
\* deletePayoutAccount: the default passes to the newest readable row.

LoadForDelete(s, a) ==
  /\ handling[s] = Waiting
  /\ a \in Saved(row)
  /\ Proceed(s, [at |-> "removing", row |-> a, default |-> row[a].default])
  /\ UNCHANGED <<row, noted>>

DeleteAccount(s) ==
  LET a == handling[s].row IN
  /\ handling[s].at = "removing"
  /\ row' = [row EXCEPT ![a] = Gone]
  /\ Overlap(s)
  /\ Proceed(s, IF handling[s].default THEN [at |-> "promoting", next |-> NoMatch]
                ELSE Waiting)

NewestOf(rows) == CHOOSE a \in rows : \A b \in rows : b <= a

PickNext(s) ==
  LET rows == Readable(row) IN
  /\ handling[s].at = "promoting" /\ handling[s].next = NoMatch
  /\ IF rows = {}
     THEN /\ noted' = IF Saved(row) # {} THEN noted \cup {"unreadable"} ELSE noted
          /\ Proceed(s, Waiting)
     ELSE /\ Proceed(s, [handling[s] EXCEPT !.next = NewestOf(rows)])
          /\ UNCHANGED noted
  /\ UNCHANGED row

Promote(s) ==
  LET a == handling[s].next IN
  /\ handling[s].at = "promoting" /\ a # NoMatch
  /\ row' = [row EXCEPT ![a] = IF row[a] = Gone THEN Gone ELSE [@ EXCEPT !.default = TRUE]]
  /\ Overlap(s)
  /\ Proceed(s, Waiting)

\* setDefaultAccount.

LoadForDefault(s, a) ==
  /\ handling[s] = Waiting
  /\ a \in Saved(row)
  /\ Proceed(s, [at |-> "unsetting", row |-> a])
  /\ UNCHANGED <<row, noted>>

UnsetDefaults(s) ==
  /\ handling[s].at = "unsetting"
  /\ ClearDefaults({})
  /\ Overlap(s)
  /\ Proceed(s, [handling[s] EXCEPT !.at = "choosing"])

ChooseDefault(s) ==
  LET a == handling[s].row IN
  /\ handling[s].at = "choosing"
  /\ row' = [row EXCEPT ![a] = IF row[a] = Gone THEN Gone ELSE [@ EXCEPT !.default = TRUE]]
  /\ Overlap(s)
  /\ Proceed(s, Waiting)

StopShort(s) ==
  /\ MayFail /\ handling[s] # Waiting
  /\ BrokenOff(s)
  /\ Proceed(s, Waiting)
  /\ UNCHANGED row

-----------------------------------------------------------------------------
SaveStep(s) ==
  \/ \E n \in Numbers, target \in {NoMatch} \cup Saved(row) : ReadAccounts(s, n, target)
  \/ MatchAccount(s) \/ ClearOthers(s) \/ WriteAccount(s)

DefaultStep(s) ==
  \/ \E a \in Rows : LoadForDelete(s, a) \/ LoadForDefault(s, a)
  \/ DeleteAccount(s) \/ PickNext(s) \/ Promote(s)
  \/ UnsetDefaults(s) \/ ChooseDefault(s)

PayoutNext == \E s \in Handlers : SaveStep(s) \/ DefaultStep(s) \/ StopShort(s)

PayoutSpec == PayoutInit /\ [][PayoutNext]_payoutVars

-----------------------------------------------------------------------------
\* Properties.

Accounts ==
  {Free, Gone} \cup
    [state : {"saved"}, number : Numbers, readable : BOOLEAN, default : BOOLEAN]

\* The shape of the table; no two rows hold the same account.
PayoutTypeOK ==
  /\ row \in [Rows -> Accounts]
  /\ noted \subseteq {"overlap", "unreadable"}
  /\ \A a, b \in Saved(row) : row[a].number = row[b].number => a = b

\* The user has one default account at most, and one as long as there are
\* accounts, whatever is saved, repaired, deleted and chosen in turn.  Two
\* handlers changing defaults at the same time, or one that stops half-way,
\* break it; so does deleting the default when no other row can be read, which
\* leaves the readable account saved next without the flag.
OneDefault ==
  "overlap" \notin noted => \A a, b \in Defaults(row) : a = b

DefaultWhileAccounts ==
  noted = {} /\ (\A s \in Handlers : ~Changing(s)) =>
    (Saved(row) # {} => Defaults(row) # {})

\* "for rows whose cipher is itself broken": a row that can be read is given
\* another account number only if the request names the row.
OnlyBrokenRowsReplaced ==
  [][\A a \in Rows :
       a \in Readable(row) /\ row'[a].state = "saved" /\ row'[a].number # row[a].number
       => \E s \in Handlers : /\ handling[s].at = "writing" /\ handling[s].match = a
                              /\ handling[s].named]_payoutVars
=============================================================================
