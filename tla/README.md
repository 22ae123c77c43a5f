# Kolekto backend: TLA+ specifications and proofs

The repository is the Node/Express backend of Kolekto, which collects group
payments. Organizers publish a *collection* (an event with ticket tiers, a
fundraiser, dues); contributors pay through Paystack; the money settles the
next day and the organizer withdraws it. All state lives in one Postgres
database (Supabase). Every request is handled by code that reads and writes
tables in separate calls, in several processes at once, beside cron jobs,
SQL functions, admin handlers and scripts that write the same rows. These
modules are about that: which orders of calls, failures and restarts keep the
money, the contributor codes, the mails and the notifications right.

- [Inventory](#inventory)
- [Modules and how they match the code](#modules-and-how-they-match-the-code)
- [Runs, bounds and what they show](#runs-bounds-and-what-they-show)
- [Fairness](#fairness)
- [What is proved](#what-is-proved)
- [Only model-checked](#only-model-checked)
- [Where the code and its comments disagree](#where-the-code-and-its-comments-disagree)
- [Not modelled](#not-modelled)
- [Plan](#plan)

`tlc -config X.cfg M` runs a configuration, `tlapm M_proofs.tla` checks the
proofs. `PROJECT.json` lists components, runs, the lines each definition
models, the mutants each property was tried against, hazards and findings.

## Inventory

**Recording a payment.** *State:* `contributions` (unique on collection,
reference, line index, and on contributor code), `contribution_code_counters`,
the cap and tiers in `collections`. *Operations:*
`claim_payment_contributions` (H-2), called by the edge function
`verify-paystack-payment`; `next_contribution_code_number` (C-1), called by the
backfill script; the organizer's `updateCollection`. *Hard:* the webhook, the
browser and admins verify one reference at the same time; capacity and codes
are decided under row locks; a unique violation is caught and answered as a
replay; codes are formatted with `lpad`. *Correct:* codes are unique and never
change, no claim oversells, a caller told "recorded" finds the rows.

**Verification and webhook.** *State:* none of its own; it moves
`contributions` through the edge function, which is not in the repository.
*Operations:* `handleWebhook`, `invokeVerifyEdgeFunction` (25 s),
`sendReceiptNotification`, `verifyPayment` (reads only), `initializePayment`
(checks and prices a request, stores a pending row, asks Paystack for a
checkout). *Hard:* Paystack re-delivers until answered 2xx; a call given up may
still succeed. *Correct:* a payment that is acknowledged is recorded and its
notification taken up.

**Fees** (`utils/fpe/primitives.js`). *State:* none. *Operations:*
`calculateFees`, its inverse `deriveNetContribution`, `normalizeContribution`,
and the amounts `initializePayment`, `createContribution` and `verifyPayment`
pass them. *Hard:* rounding to the kobo, two caps, an inverse that estimates
and refines once. *Correct:* what was charged on top is what is taken off.

**Push and in-app notifications.** *State:* `push_notification_events` (status,
attempts, lease), `notifications`, `push_subscriptions`. *Operations:*
`claim_push_notification_event`, `sendPushToUser`,
`retryUndeliveredNotifications` (every 5 minutes), saving and removing a
subscription. *Hard:* three triggers of one event, a legacy fallback when the
RPC fails, a lease, results written by row id only. *Correct:* one push per
device, a finished event stays finished, none is silently dropped.

**Withdrawals, wallet and settlement.** *State:* `withdrawals`, `wallets`,
`contributions.settled`. *Operations:* `requestWithdrawal`,
`approveWithdrawal`, `rejectWithdrawal`, `refreshWallet`,
`settlement_recompute_wallets()` (daily job), and
`request_withdrawal_atomic` (G-2), which the repository provides for the
controller to call. *Hard:* check, insert and refresh are separate calls;
balances are recomputed from reads made earlier. *Correct:* a payout is made
once, requests stay within what settled, a refresh sees its own approval.

**E-mail campaigns.** *State:* `email_campaigns`,
`email_campaign_recipients`, `email_unsubscribes`. *Operations:* the worker's
tick (claim, load, send, mark, finalize), the scheduler's tick, send now,
schedule, cancel, unsubscribe. *Hard:* several replicas, a worker that dies
with a batch, stale claims, statements whose errors nobody looks at, a status
read early and written late. *Correct:* nobody is mailed twice, everybody is
decided, a cancelled campaign stops, a drained one closes.

**Ownership of collections, and its transfer.** *State:* `collections.user_id`
and `status`, `collection_transfer_requests`, the KYC status as the cap on an
unverified user's collections. *Operations:* `createCollection`,
`updateCollectionStatus`; asking for a transfer, confirming with a code,
accepting or declining over a mailed link, cancelling. *Hard:* every handler
reads the owner, the request and the cap first and writes by id afterwards; a
request is resolved while somebody accepts it; a mail fails and takes the
request back; a handler ends between moving the collection and closing the
request. *Correct:* a collection only goes to the person its present owner is
offering it to, and the cap holds.

**Shared access to collections.** *State:* `collection_access_invites` with
their items, `collection_access_grants`. *Operations:* invite (one UPDATE
supersedes earlier invites), code, link, accept (a grant per collection, merged
into an active one), decline, cancel, revoke; a transfer leaves all of it.
*Hard:* the collections of one acceptance are handled side by side, some may
fail, and a revocation or a second acceptance falls between read and write.
*Correct:* one active grant per person and collection, nobody sees what they
did not accept, who accepted sees what was offered.

**Password and e-mail change** (`settings/security.js`). *State:*
`password_change_otps`, `email_change_requests`, the address in `auth.users`
and its copy in `profiles`. *Operations:* request, verify, follow the link.
*Hard:* superseding, inserting, redeeming and marking used are calls of their
own, and the errors of several are not read. *Correct:* a code works once, a
superseded one not at all, login and profile name one address.

**KYC.** *State:* the row of `kyc_verifications` (status, a flag per kind),
`kyc_documents`. *Operations:* upload with roll-back, saving the NIN, decisions
on one document or on the row, `updateKycOverallStatus`. *Hard:* the status is
computed from flags read earlier, a roll-back writes back an old status.
*Correct:* verified only on the flags, a flag only while its documents carry it.

**Payout accounts** (`settings/profile.js`). *State:* `payout_accounts`, the
number encrypted, some rows no longer readable. *Operations:* save (match,
repair, fall back on the clear columns, insert), delete, choose the default.
*Hard:* the default moves in two calls; a delete promotes the newest readable
row. *Correct:* one default at most, and one while there are accounts.

**Ambassador programme** (`ambassador.js`, `services/ambassadorProgram.js`).
*State:* the application, the profile made from it, the ledger of influenced
organizers and its copy on the organizer's profile, withdrawals of rewards.
*Operations:* submit, interview, accept, reject, suspend, reactivate; sign-up
with a code, an admin's link; request, approve, reject and pay a withdrawal.
*Hard:* application and profile are two writes, so are the two records of a
referral; rewards and reservations are read one after the other. *Correct:*
the profile follows the application, both records name one ambassador, nobody
is paid more than they earned or twice.

**Reports on the books** (`dashboard.js`, `admin/wallet.js`,
`financialReconcile.js`). *State:* none. *Operations:* the figures of a
collection and of an account for host and admin, the activity feed, the live
wallet beside the stored one, drift and impossible states. *Hard:* the stored
row ages without anybody writing it, and the figures of one account are worked
out in more than one place. *Correct:* what is shown is what a request is held
to, and an issue reported is one.

**Payment monitoring** (`admin/paymentMonitoring.js`, `admin/payments.js`).
*State:* `payment_admin_actions`; reads `pending_payment_context`,
`contributions`, `payment_recovery_log`. *Operations:* the panel; retry, retry
all failed, reconcile, mark resolved, note. *Hard:* logs are best effort, "all
failed" is chosen from a load that ages while the retries run. *Correct:* a
recorded payment never looks lost, the counts fit the lists.

**Rest.** Listings of contributions read what the
parts above write; `app.js`, middleware, routes and probes wire them; templates
lay out mails; sign-in, sessions and password reset are calls of Supabase.

How the parts interact: the webhook calls the edge function, which runs the
claim and then asks for a receipt; both handlers notify; the claim's rows are
what settlement sums; settlement and the withdrawal handlers write the same
wallet row; the organizer's edits and the backfill script write the rows the
claim reads; the KYC status is what the cap of unverified users and the payout
accounts ask for; a transfer moves collections that are shared. There are no
messages between processes other than table rows.

## Modules and how they match the code

| module | models | built on |
|---|---|---|
| `PaymentClaim` | the claim as one step, the organizer's edit, the backfill script | |
| `PaymentClaimTx` | the claim statement by statement, in several sessions, under Postgres locks; implements `PaymentClaim` | `PaymentClaim` |
| `Monitoring` | the admin's payment panel: categories, counts, retries, notes | |
| `Payments_proofs` | theorems about `PaymentClaim`, `PaymentClaimTx` (the refinement), `PaymentNotice` and `Monitoring` | those four, `Sums_proofs` |
| `Fees` | what is charged, what the receipt says, what the wallet counts, in kobo | |
| `Withdrawals` | the withdrawal handlers call by call, settlement, payments | |
| `WithdrawalsAtomic` | the same with the G-2 function in place of the check | `Withdrawals` |
| `Wallets` | every report on the books: dashboards, feed, live wallets, reconciliation | |
| `Withdrawals_proofs` | theorems about `Withdrawals`, `WithdrawalsAtomic`, `Fees` and `Wallets` | those four, `Sums_proofs` |
| `Sums_proofs` | lemmas about sums over finite sets | |
| `EmailQueue` | the queue worker, campaign status moves, unsubscribes | |
| `EmailQueue_proofs` | theorems about `EmailQueue` | `EmailQueue` |
| `PushDelivery` | one notification event: claim, bell, sends, result, retry | |
| `PaymentNotice` | webhook, receipt handler and retry job around one payment | `PushDelivery` |
| `Ownership` | what a transfer promises: one owner, one open offer, handed over by that offer only | |
| `CollectionTransfer` | creation, deletion and transfer of collections, call by call; implements `Ownership` | `Ownership` |
| `CollectionAccess` | invites, grants, merging and revocation | |
| `Collections_proofs` | theorems about `CollectionTransfer`, the refinement among them, and `CollectionAccess` | those two |
| `AccountSecurity` | codes and links that change the password and the address | |
| `Kyc` | uploads, decisions, flags and the overall status of one user | |
| `Kyc_proofs` | theorems about `Kyc` | `Kyc` |
| `PayoutAccounts` | saving, deleting and choosing the accounts of one user | |
| `Settings_proofs` | theorems about `AccountSecurity` and `PayoutAccounts` | those two |
| `Ambassadors` | one ambassador's application, referral, rewards and withdrawals | |
| `Ambassadors_proofs` | theorems about `Ambassadors` | `Ambassadors`, `Sums_proofs` |

**PaymentClaim.** A row is named by its reference and line index. `Rows` is the
`p_rows` each verification supplies, `Legacy` the rows that predate the
counters. A code is its prefix and the number after `lpad`: `LPad` is what
`lpad(n::text, 3, '0')` does to numbers that do not fit, in base `Radix`.
`Claim` has one disjunct per way out of the function, in the order of its
checks; `ClaimCollides` is its `unique_violation` handler. A row names its tier
by id or by name and the two are counted apart, as in the function. The script
is `backfill`: a scan, then per row a re-read and a number (`BackfillMint`, or
`BackfillMintLocally` when the RPC errs), then the guarded update; a failed
read or write goes on with the next row (`BackfillSkip`) and a killed script
forgets all (`BackfillStop`). The counters start at any value C-1's seeding
gives, which is 0 for a prefix its regular expression cannot parse.

**PaymentClaimTx.** `tx[s]` is a session's transaction: the values it read with
`FOR UPDATE`, the rows minted so far. Nothing it wrote is in the tables before
`Commit`; what others may not touch meanwhile is `LockFree` (the collection
row), `CounterRowFree` (a counter row that was upserted) and `HoldsCode` (an
index entry not yet committed). `Abort` is any other exception or a lost
connection.

**Withdrawals.** `work[s]` is where a handler stands, with everything it has
read: one action per database call. Amounts are net amounts per payment
(`Net`, which `Fees` derives from what was paid); `AvailableOf` is
`computeWalletBalances`. `Settle` is one statement of SQL, so one action.
`Die` is a handler that throws or whose process stops. A refresh makes its
three reads in any order (`Reads`); with `QueriesMayFail` the error of each is
taken for an answer, as the code does: no payments, no withdrawals, or, when
the collection's own row is missing, the fees of a fixed collection whose
organizer bears them (`NetByDefault` instead of `Net`). The write of the wallet and
the sum of the open requests may fail unseen as well. History: `payouts` counts
approvals; `slips` notes "race" when one of the two windows of a request was
used, "misread" when an error was believed that makes the balance too high, and
"stale" when an approval may be missing in the stored balance for good (a
refresh had read the withdrawals when it landed, its handler ended before the
write, or the write failed).

**Fees.** Pure operators over whole kobo. `roundCurrency` prints a binary
double with two decimals, so at an exact half either neighbour may come out:
what is rounded is a set, and so is everything computed from it.
`Initialized` is what `initializePayment` stores and charges in either format
of the request, empty when it refuses; `ValidAmount` and `LegacyAmounts` are
the checks of the two formats. `FeeCap` is a parameter because the code's
200 000 kobo would take TLC past its 32-bit integers; the theorems hold for
every cap.

**Wallets.** Pure operators on a *ledger*, the rows a report's queries returned.
The queries run side by side without a snapshot, so nothing relates payments
and withdrawals in it. `AccountView` and `AdminAccountView` are the two places
that work out the figures of one account, `HostView` and `AdminView` those of a
collection; `Drift`, `RowIssues` and `FigureIssues` are what the reconciliation
looks for. A state of `Withdrawals` is such a ledger (`LedgerNow`, in
`Withdrawals_proofs`).

**Monitoring.** A payment is one checkout with what the tables hold of its
reference; an operation on it is the set of what it may be afterwards. The edge
function is external (`Verified`): it records the payment or not, its log entry
may be missing, and a replay of a recorded payment is a success. The age of a
payment only enters through the five minutes of grace and the window of seven
days.

**EmailQueue.** `work[w]` is a worker's tick: a batch with the retry counts and
the campaign it read at the claim. A claim is `FOR UPDATE SKIP LOCKED`, so one
action. Statements whose errors are dropped have a failing twin (`MarkFails`,
`DropFails`, an unsubscribe check that reads as empty). One attempt to send is up
to two tries, over HTTP and then over SMTP (`sendMarketingMail`), and a try may be
taken by the server without its answer arriving: `Unheard` is how many of them
may, given what the attempt reports. Each such message is a fault and counted in
`lost`, as is one whose worker dies before it marks the row. `Age` lets a claim go
stale only when no running tick holds the row, which is what the comment at
the setting demands of it; the mutant `AgeEarly` shows what happens otherwise.
The campaign modelled is one whose recipients were added before it starts.

**PushDelivery, PaymentNotice.** One event, from "none" to a final status.
`send[s]` is a call of `sendPushToUser`, `hook[h]` a delivery of the webhook.
`todo` and `outcomes` are the `Promise.all` over the devices; `Status` is the
one status they add up to. A lost answer of the claim RPC, a push that arrives
although its call fails, a result that is not written, a lease that lapses
while its holder still runs, and a crash anywhere are each a `Fault`. The edge
function is external: a 2xx answer means the payment is recorded, any other
outcome leaves that open (`EdgeRecords`), and the first recording asks for a
receipt. An admin's re-run of the verification is the same step.

The other modules share a form. `work[s]` is where the handler of session `s`
stands, with what it has read; there is one action per database call that
matters, and every guard on a row is on the row as read, unless the statement
itself repeats it. `Die` is a handler that throws, times out or whose process
ends. `slips` is a history variable with no effect on the rest: it notes that
one of the windows named at its declaration was used. A property then says what
holds for every order of calls and every modelled failure outside those windows,
and says nothing once one of them was used: the race itself is then excluded, not
ruled out. The windows are the places where the code has neither a lock nor a
repeated predicate, or does not read the error of a statement; each is listed as
a hazard.

**Ownership, CollectionTransfer.** The abstract book has three steps that
change it: `Open`, `Offer`, `HandOver`; and `Withdraw`. `CollectionTransfer` is
mapped to it by reading the pending requests that have not moved their
collection as the open offers. Its windows "owner" are: a request is resolved
under an acceptance; two requests both cancel what is pending before either
inserts; the collection moves under a request or another acceptance in flight;
the UPDATE that cancels what is pending fails, unread, while something is pending
(`Uncancelled`). "cap" is two overlapping checks of the cap, a re-activated
collection, a verification taken back under a check, or a count that failed in a
transfer, which lets the recipient pass (`PassesCap`; at creation the same
error is thrown). A code and a link are "fresh" or
"lapsed": their text and attempts decide nothing else.

**CollectionAccess.** An acceptance holds `unread` (collections whose active
grant it still has to look up) and `found` (what each look-up read); `Promise.all`
is any order of these. `maybeSingle()` errs on two rows. "consent" is an invite
accepted that a handler is about to close, or accepted in part (a close that comes
first is overwritten by "accepted"). An invite may be inserted although the UPDATE
that supersedes the earlier ones failed; "grants" two acceptances, or an
acceptance and a revocation, of one person and collection.

**AccountSecurity.** A row of either table is open as "code" or "link", or
"used"; `fresh` is its age. The authentication service is external: it takes a
change or refuses it. "superseded", "again" and "address" are listed at
`slips`; UPDATEs whose result is not looked at have a failing disjunct.

**Kyc.** The flags that count are those `updateKycOverallStatus` reads; one
kind of document without weight stays in (`bank`) because approving it takes the
same steps. `byHand` notes flags an admin set on the row rather than through
documents. The table itself and the setting of `nin_verified` are external:
no DDL and no code of the repository has them.

**PayoutAccounts.** `Tail` is what a row keeps in clear (bank, last digits,
name), so two numbers may look alike; the table starts with up to `Legacy` rows
that may not decrypt. The gates of `saveAccount` (status, the bank's answer,
likeness of names) are not here: they stop a request before it writes.

**Ambassadors.** `Earned` is `calculateOrganizerReward` over scaled-down
constants. What an organizer's collections take in (`Process`) and
`distribute_ambassador_withdrawal_payment` are database functions that are not
in the repository, so external. "status", "link" and "money" separate the three
parts' windows.

## Runs, bounds and what they show

| run | shows |
|---|---|
| `PaymentClaim.cfg` | Codes are unique and permanent and no claim passes the cap or a tier, with edits, replays, the script and a failing counter RPC. |
| `PaymentClaimTx.cfg` | Interleaved sessions implement `PaymentClaim`; counters lead the codes; "recorded" is only said of recorded payments; every retried payment is decided unless a prefix of its own has run out of codes, as one does. |
| `Withdrawals.cfg` | One payout per withdrawal; a refresh sees its own approval; requests exceed what settled through two windows, or an error read as an answer, only. On the side, TLC evaluates `Fees` over collections of every type and requests of both formats (`CharacterizedFees`, `ChargedIsCredited`, `RefinedOnceDrifts` in `MCWithdrawals`), and `Wallets` on two collections of one account with money and withdrawals of every status (`CharacterizedWallet`, `ViewsCompared`, `Reconciles`, `FeedOfSmallTables`, `ActivityTypes`). |
| `WithdrawalsAtomic.cfg` | With the G-2 function the race of two requests is gone: requests exceed what settled only through a stored balance that is too high. The stored balance is too high only after an approval landed under a refresh in flight, or its write was lost. |
| `EmailQueue.cfg` | A second mail only for a first one the queue could not know of; every recipient decided; closed means drained; a cancellation stops each worker within its batch. |
| `PaymentNotice.cfg` | One push per device and fault; a finished event stays finished; acknowledged means recorded and notified; nothing is lost for good. On the side, TLC evaluates `Monitoring` on a payment of every kind and on what two operations may make of it (`CharacterizedCategories`, `LoadedWindow`, `CharacterizedStats`, `SweepIsNear`, `Reached`, `ChosenIsStale` in `MCPaymentNotice`). |
| `CollectionTransfer.cfg` | The handlers implement `Ownership` outside three windows and a cancellation that fails; an unverified user gains a second collection in the named ways only. |
| `CollectionAccess.cfg` | One active grant per person and collection; every flag seen comes from an accepted invite; accepting gives what was offered. |
| `AccountSecurity.cfg` | A code changes the password once; what was superseded is void; login and profile agree. |
| `Kyc.cfg` | "Verified" rests on the three flags between handlers; a flag rests on its documents. |
| `PayoutAccounts.cfg` | Never two defaults; one while there are accounts. |
| `Ambassadors.cfg` | The profile follows the application; both records of a referral agree; requests and payments stay within the rewards and no withdrawal is paid twice. |

Six definitions state what a comment or a reader would expect, do not hold, and
are therefore in no configuration. TLC gives the counterexample when one is
added to the configuration of its module: `NoEmptyIdempotent` (`PaymentClaim`,
with `CodeSpace = 4`), `WithinSettled` and `CompletedIsIrreversible`
(`Withdrawals`), `NothingBeforeStart` (`EmailQueue`, with `InitialStatus <-
MCAny`), `AtMostOneUnverified` (`CollectionTransfer`),
`OnlyBrokenRowsReplaced` (`PayoutAccounts`).

Every module with a state of its own states its `TypeOK`. It is proved where there are proofs;
elsewhere it was checked while the module was written and can be added to the
configuration.

The bounds, and why they are enough:

- *PaymentClaim:* a payment of two rows, a single row, one that names its tier
  by name, and an old one with a code missing: two compete for a tier, two for
  the cap of 5, two for numbers of one prefix. `Radix` is 2 and `CodeSpace` 8, so
  that `lpad` pads and the numbers stay within the width; `MaxMinted` bounds the numbers the script may burn by being restarted.
- *PaymentClaimTx:* two sessions (the locks are pairwise), `MaxAborts` 1, three
  payments of which two share the tier and the counter of a prefix. `CodeSpace` is 4
  and `MaxMinted` 3, so that the numbers of this prefix run out: a claim past them
  collides with the old codes, is rolled back with its counter and collides again at
  each retry. Without the escape `~Room` TLC shows such a payment stuck for ever.
- *Withdrawals:* two rows of 201 kobo, two handlers, two payments to a fundraising
  collection that credit 400 and 200, and a kobo or two more when the
  collection was not read: both requests fit once everything settled, they race for
  the first payment, and a misread lets one fit that does not. In
  `WithdrawalsAtomic.cfg` payments of 2 and 1, amounts 1 and 2, and no failing
  queries: those are left to the other run and to the theorems. Rows and sessions are
  symmetric; the runs have no liveness properties, so symmetry is sound.
- *EmailQueue:* two recipients, two workers, batches of one, two attempts, one
  fault, one admin handler or scheduler tick in flight. Two handlers in flight
  are not covered.
- *PaymentNotice:* two devices, one webhook delivery in handling beside the
  receipt handler and the retry job (three concurrent senders; a delivery can
  come again any number of times), two attempts, one fault.

- *CollectionTransfer:* two users, two collections, one of them offered, two
  requests, two handlers. Two of each is what a window takes: two requests for
  one collection, two acceptances, a second collection for the cap.
- *CollectionAccess:* one invited person, two collections in every invite, one
  of which changes hands between two owners, two invites, two grants, flags of
  either kind, two handlers. Grants are per person, so a second person adds
  nothing that meets.
- *AccountSecurity:* three addresses (present, next, another), two codes, two
  changes, two handlers.
- *Kyc:* one user, two documents of one type, decisions on three kinds, two
  handlers. A type needs two documents for a flag to outlive one of them.
- *PayoutAccounts:* three rows ever, up to two there at first, three numbers of
  which two look alike, two handlers.
- *Ambassadors:* two withdrawals of 1 or 2, an organizer who takes in up to 3,
  rewards that unlock at 1 and rise to 2, two handlers.

Counters in the models that have no bound of their own are bounded by these
constants; there is no state constraint in any configuration. Symmetry is used
only where all properties are safety.

Deadlock is checked in the runs of the payment, withdrawal, e-mail and
notification modules: some action of the environment (an edit, a payment, a
subscription, a delivery, time) is always possible there, so a stop would mean
a guard is wrong. The six other configurations say `CHECK_DEADLOCK FALSE`: their
tables are bounded and filled for good, and a system whose rows are used up
with no handler under way has nothing left to do. Waiting of sessions on each other in
`PaymentClaimTx` would show in `EveryPaymentDecided`, not as a deadlock, since
edits stay possible.

Each property was tried against a mutant of a mapped definition (a dropped
lock, a missing predicate, an off-by-one, a wrong order) and fails on it; the
mutants stand beside the definitions they distort, marked `Mutant:`.

## Fairness

Only `PaymentClaimTx`, `EmailQueue` and `PaymentNotice` state any. The other
parts are requests of people, who need not come back, and nothing in the code
takes up a handler that stopped; there is no liveness to claim.

- *PaymentClaimTx:* weak fairness of a running transaction's statements; strong
  fairness of getting the collection row, because Postgres queues the waiters
  of a row lock; strong fairness of starting a verification of each reference,
  because an unanswered reference is verified again (webhook re-delivery,
  browser, admin reconciliation). Nothing is assumed of edits, of the script or
  of aborts.
- *EmailQueue:* weak fairness of every worker's tick, which cron starts each
  minute, and of time passing over a stale claim. Nothing is assumed of admins.
- *PaymentNotice:* weak fairness of running handlers and senders, of Paystack's
  delivery while it has no 2xx answer, of the edge function's receipt call and
  of the five-minute job. Crashes and failures are never fair.

## What is proved

TLAPS proves the following for every value of the constants that satisfies the
named assumptions.

`Payments_proofs`, about `PaymentClaim`: `Invariance` shows `Spec => []IInv`, and the theorems
follow from `IInv`. `UniqueCodes` is not inductive on its own when the counters
are to be trusted as well, so `IInv` is a conjunction of: `TypeOK`;
`BackfillRows`, a row without a prefix has no code and is never one the
script holds; every
payment is recorded whole or not at all; finitely many contributions;
`UniqueCodes`; `CountersNeverLag`; `ToldMeansRecorded`.

- `CodesUnique`: no two paid rows share a code, for any seeding, width, RPC
  failure or interruption of the script. The argument: an insert passes
  `CodeCollision`, which compares with all committed codes and the earlier rows
  of the call; the script's update passes the same index.
- `CountersLead`: with counters seeded as C-1 means to and an answering RPC, no
  counter is behind a code in use. The number minted is then above every code
  of its prefix, and `lpad` never makes a number greater.
- `ToldIsRecorded`: within the width the collision handler is unreachable
  (`NoCollision`, which uses `CountersLead` and that `LPad` is the identity
  below `CodeSpace`), so "idempotent" is only said of recorded payments. `Room`
  is a condition on the payment's own prefixes: that those of others ran out does
  not matter.
- `CapRespected`: an action property, from `IInv` and the finiteness of the
  contributions (cardinality of a union with a call's rows).
- `TiersRespected`: an action property, where no tier is named both by id and by
  name (`NamedOneWay`). For one way of naming it holds without that (`KeyFits`): what
  is sold after the insert is what was sold plus what the call claims, by
  `Sums_proofs`.
- `CodesPermanent`: an action property. `CodesOfPaidRows` says that a row
  without a payment carries no code; with it, the claim writes codes only where
  there were none, and the script's update is guarded by the column being empty.
- `TypeCorrectness`.

About `PaymentClaimTx`, for any number of sessions: `TxImplements` is the
refinement of `PaymentClaim`, step by step, with `TxInv` (`TxInvariance`) beside
`IInv`. At most one transaction is past the lock (`OneInTx`), and what it has found
is still so (`Knows`): the cap and tiers it read are the collection's, its reference
is unrecorded and fits, the codes it minted are those a claim in one step would give
them now, and the rows it inserted would pass the unique index now (`Written`). So
each refusal is the claim's refusal, a refused insert is `ClaimCollides`, and the
commit is `ClaimInserts`; everything before is a stutter. Edits wait for the lock.
The script does not take it, and the two locks it meets are what is needed: it
moves no counter the transaction has upserted (`CounterRowFree`), and
writes no code it has inserted (`HoldsCode`); `ScriptKeeps` assumes just these two.
`TxToldIsRecorded` carries unique codes, leading counters and the truth of
"recorded" over to the sessions.

And about `PaymentNotice`, from `NoticeInv`:

- `PushedAtMostOnce`: `PushedOnce` is an account (`Budget`). For each device the
  pushes shown, the calls that may still push without a fault (`MayPush`) and one
  for an event the next call may take (`Takeable`) are at most one more than the
  faults. A claim passes the event's share to the call; a result that leaves the
  event open can give it back only because nothing was sent (`Status`); a lease
  that lapses under a running call, a lost answer and a crash are the faults.
- `AnsweredIsNotified`: a delivery past its verification is of a recorded payment,
  and a call past its claim has left an event (`Noticed`).
- `DoneStaysDone` needs no invariant: only a claim, the fallback's insert and a
  holder's result write the status, and none is possible then.
- `NoticeTyped`, for which an event nobody inserted must have no attempts.

And about `Monitoring`, for every payment and panel:

- `RecordedStays`: whatever is verified, retried, marked or noted, a recorded
  payment is shown as successful or recovered, and recovered stays so. Calls only
  add to rows and logs (`HappensOnward`).
- `ReplayLooksRecovered`: it can turn from successful to recovered, without ever
  having been broken.
- `NoteReopens`: a note on a resolved payment whose recording failed puts it back
  among those that are retried.
- `CountsAgree`: the number and the list of awaiting payments differ by unpaid
  contributions only.

`Withdrawals_proofs` has five arguments, the first three over the controller's handlers (`Spec`)
and those with the database function (`AtomicSpec`).

- `PaidOutAtMostOnce`, by `PayoutInv`. `PaidOutOnce` needs the fact that an open
  row was never approved; with it, the predicate on the status in the UPDATE
  makes the step safe for any number of handlers, rows and payments.
- `StoredStaysCovered` and `AtomicStoredCovered`, by `Stored`: what a refresh will store is
  never more than what settled less what was approved when it read, so it is too
  much only for an approval that landed after that read; and a row approved is
  either in the next refresh's read or still in the hands of its handler
  (`Landing`). With the function, at most one session is inside it and the wallet
  is written only while none is (`LockInv`), so what it locked is still stored
  when it inserts.
- `SettledMoneyCovers`, `AtomicRequestCovered`, `ApprovalIsDeducted` and
  `WithdrawalsTyped`, by `Books`, for any fees `NetByDefault` a failed read may
  bring in. That what is open stays within what settled
  says nothing of a request in flight, so `Covered` follows each from its first
  read to its insert: what it knows of the balance is never more than there is,
  and just before the insert the sum fits with its amount. Every step of another
  handler leaves that alone because it makes the sums no larger (`NoWorse`), is
  excluded by the row lock, or is one of the two windows or an error believed,
  which `slips` notes.
  `Deducted` follows an approval the same way: once it has read the withdrawals,
  its sum holds the amount approved, and nothing takes a decided row back
  (`RowsStay`).
- `CreditWithinPaid` and `FeesComeBack`, about `Fees`, for every amount, type and
  cap: what the wallet counts of a payment lies between nothing and its gross;
  what a contributor pays on top is taken off again to within a kobo, except that
  a cap on one fee alone can add a hundredth of the cap.
- About `Wallets`, for any rows whose net amounts are not negative (`SoundRows`, what
  `CreditWithinPaid` gives): `OnlyOverdraftShows`, of the impossible figures the
  reconciliation looks for only an overdraft can be met. `OnlyTheSplitGoesStale`: a
  stored wallet that only time has passed over differs from the live one in the split
  of pending and available, and shows too little rather than too much unless the
  collection was overdrawn.
  `AccountWithinCollections`: the available figure of an account is at most the sum
  of those of its collections, since a sum floored at 0 is at most the sum of floors.
  `FeedIsNewest`: the newest of both tables are among the newest of each. And two
  that tie the reports to the handlers: in every state of `Spec` the figure shown as
  withdrawable is the cap of a request (`ShownIsTheCap`), and while `slips` holds
  neither "race" nor "misread" the reconciliation has nothing to report of the figures (`NothingToReport`), both
  from `Books`.

`Sums_proofs` is the library under `Books`, `KeyFits` and `AmbassadorInv`: a fold over a
finite set starts with any element, is monotone in the set, splits over disjoint
sets and depends on the function's values there only. Each induction takes a
smallest counterexample among the subsets of the set, ordered by cardinality, for
which no induction rule with an operator for a parameter is needed.

`EmailQueue_proofs`: `MailedAtMostOnce` follows from
`QueueInvariance`, `Spec => []QueueInv`. `MailedOnce` alone is not inductive: a
second worker could hold a row that was mailed already. `Owned` excludes that (a
row in a worker's hands is processing, not stale and in no other worker's hands;
`Age` is what it rests on), and `Accounted` says that a message the server took
is recorded as sent, about to be marked, or counted in `lost`, the two that one
attempt can lose included. `ClosedIsDrained`
and `CancelStops` follow from `CampaignInv`, which adds: nothing is open once a
worker has counted so (`Drained`, which covers the worker between the count and
the closing write), and a batch holds no more rows than it may, the mails sent
since a cancellation included (`Bounded`).

`Settings_proofs`, about `AccountSecurity`: `CodeChangesOnce`, `AddressesKept`, `Superseded` and
`SecurityTyped`. A code is in one handler's hands and, once redeemed, is used or
about to be marked (`Single`); only the newest row of a table is open or being
redeemed, and none is while the next is being inserted (`CodesSuperseded`,
`ChangesSuperseded`), for which the tables have to fill in order; a copy under
way copies the login of now (`Copying`).
And about `PayoutAccounts`: `DefaultIsOne`, `AccountsHaveDefault` and `PayoutTyped`,
by `AccountInv`. The lemmas say what a statement does to two sets, the saved rows and
the defaults among them; the rest argues about those. One handler at a time has taken
a default away (`Alone`), and one that will insert a row without the flag has seen
accounts, of which one is the default or about to be (`Flagged`). The windows are
what makes every statement's writer the only one with a default at stake
(`WriteKept`).

`Kyc_proofs`: `VerifiedIsBacked`, `FlagIsDocumented` and `KycTyped`. `Backed` must
speak of the rows that uploads have read as well, since a roll-back writes them
back. `Followed` says that a flag rests on its documents or somebody is about to
set it, and that the last of several handlers of a type sets it by what it
counted.

`Ambassadors_proofs`: `ProfileFollows`, `OneReferrer`, `NeverOverdrawn`, `PaidOnce`
and `AmbassadorsTyped`, from three independent parts: while one decision is under
way the application already says what the profile will say (`OneDecision`), the
same for ledger and profile (`OneReferral`), and what is paid and asked for stays
within the rewards together with the request in flight (`Reckoned`; rewards only
grow with what is processed, `Earned` being monotone).

`Collections_proofs`, about `CollectionTransfer`: `TransferImplementsOwnership` is the refinement, step
by step. Each action is shown to keep `TransferInv` and to be, under the mapping
of `Book`, one named step of `Ownership` or a stutter, or to have slipped
(`BookStep`); the one action with two cases is the acceptance, which hands over or
finds the collection handed over already. `Orderly` is what the mapping needs: one
pending request per collection, made by its owner of now, also while a handler
cancels and inserts. `CapIsKept` is an action property: `Capped` says that whoever
passed the check of the cap still owns nothing. `TransferTyped`.
And about `CollectionAccess`: `OneGrant`, `OnlyWithConsent` and the action property
`AcceptedIsSeen`, by `AccessInv`. `Unmixed` follows an acceptance from its look-up to
its write: what it found is still the person's only grant (or there is none), what
it wrote is seen, and nobody else has looked. `Flagged` and `Carried` say that
each flag, in a row or in what a handler is about to write, comes from an invite
the row names; `Consented`, that such an invite is accepted or being accepted and
that no handler is about to close an accepted one.

The properties about slips are proved as they are checked: "unless one of the named
windows was used", and each window is a step the model takes, in runs too.

Assumptions are the `ASSUME`s of the modules: typing of the constants; finite sets
of rows, payments, collections and workers; legacy codes already under the unique
index (`LegacyAssumption`); the NIN being a flag without documents
(`KycAssumption`). Every configuration evaluates those of its modules.

## Only model-checked

Liveness (`EveryPaymentDecided`, `EveryRecipientDecided`, `CampaignFinishes`,
`PaymentGetsNotice`, `EventDecided`), and so all of the fairness above: TLAPS does
not handle it here. Every other property of a run is a theorem.

What a recursive definition computes for every input is out of reach; no
property here is about one.

## Where the code and its comments disagree

- `lpad` cuts the 1000th number of a prefix (H2:215). The function then
  answers "idempotent" with no rows.
- The "atomic balance check" of `requestWithdrawal` is not.
- "Completed withdrawals (irreversible)" can be rejected.
- "Recompute wallet balances from source of truth" also when a read failed: the
  errors of all three are dropped, and two of them make the balance too high.
- A mail whose HTTP request timed out is sent again by SMTP, or retried, although
  the claim was written against sending "the same email twice to real users".
- A transfer whose cancelling UPDATE fails is offered beside the open one.
- "Same rule enforced at creation time": at creation a failed count is an error, in
  a transfer it lets the recipient pass.
- The queue mails recipients of a draft or scheduled campaign.
- The notifier's fallback inserts an event whose status already reads "sent".
- The header of the event table calls events without subscription retryable;
  the claim, and its own comment, make them final.
- Delivery events: a late "delivered" overwrites "bounced", which the comment
  says always wins.
- "Unverified users may own at most one" collection: re-activation asks for no
  cap, and two checks may overlap.
- Approving a whole verification is taken back by the recomputation that
  follows, because nothing sets the NIN flag; and a rejection may be overwritten
  as verified.
- `deriveNetContribution` refines once, which is not enough where only the
  gateway fee is capped: a net of 300 000 naira is counted as 300 012.25.
- The payout fallback meant for undecryptable rows overwrites readable ones.
- A failed update of an ambassador's profile answers success and leaves the
  rejected or suspended ambassador in.
- A second sign-up with another ambassador's code leaves ledger and profile
  apart.
- A code whose "used" mark fails to be written can be used again; so can a
  request whose invalidation failed.
- "This was recovered, not a clean first-try success": a retry of a payment that
  was recorded at once counts it as recovered.

`PROJECT.json` has the lines and the quotations.

A caveat found on the way: the tier count keeps rows with a tier id and rows
with only a tier name apart. `ClaimsFitTiers` is checked and proved with every tier named
one way; a collection whose tiers gained ids after sales can oversell.

## Not modelled

- Listings of contributions and the console log of the financial audit: they read.
  Of `verifyPayment` only the figures of its receipt are modelled; of the
  monitoring panel the detail page and the average duration of a call are not.
- `allocateAmounts`, `buildTierAvailability` and `updateWalletStats`, which
  nothing in the repository calls, and the `fpe` types.
- Texts, templates, layout of mails and pushes, logs.
- HTTP wiring, CORS, token checks, probes: no state.
- The scheduler's materialization of a filtered audience and the mail
  provider's delivery events: the first happens before the queue sees a
  recipient, the second moves rows among statuses the queue counts alike. In
  one state space with the queue they would take the liveness run out of reach.
- Ambassadors: the PIN and its session, payout accounts, resources, badges,
  leaderboard, mails.
- Payout accounts: the bank look-up, the encryption and the two re-encryption
  scripts, which write the same number under another key.
- KYC: the mirror on `profiles`, the history rows, the unused flags;
  `update_kyc_verification_flags.sql`, whose assignments name a column and a
  variable alike, and `kyc-database-backend.sql`, a design the code does not
  use.
- The wallet and campaign rows written best effort after a collection is
  created; contributions' listing, check-in and export.
- Sign-in, sessions, password reset, magic links: calls of Supabase.
- `handlePaystackWebhook` in `withdrawal.js`: no route leads to it.

## Plan

Modelled, in this order, by weight for the system: the claim and its
transaction; withdrawals and settlement; the G-2 function; the e-mail queue;
the payment's notification; ownership and shared access; account security, KYC
and payout accounts; the ambassador programme; the reports and the monitoring.

Proved since: the safety properties of withdrawals, of the queue, of account
security, KYC, payout accounts and the ambassador programme; how often a payment is
notified; the refinement of `Ownership`; shared access; the fees; the reports.

And the refinement of `PaymentClaim` by its transactions. Left is liveness, which
stays with TLC.
