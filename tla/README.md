# Verification of the crowdfunding backend

TLA+ models of the Truden/Keibo crowdfunding backend (NestJS over MongoDB, two
payment gateways, EVM contracts), TLC configurations that check them on small
instances, and TLAPS proofs of their most important properties for every
instance. Source paths below are relative to `src/src/modules/` unless they
begin with `contracts/` or `scripts/`.

## 1. How the code runs, and how it is modelled

One Node process serves all requests. A handler runs alone until it awaits; then
any other handler may run. The database is MongoDB through Mongoose. A document
that was read is a copy; `save()` sends the paths the handler changed and, for
most of them, compares nothing (no schema enables `optimisticConcurrency`, no
session or transaction is ever opened). Two exceptions matter and are modelled:
`$inc` and single `updateOne`/`findByIdAndUpdate` calls are atomic, and saving an
array that was assigned as a whole requires the version that was read. Events go
through an in-process EventEmitter2 that stores nothing.

So an action of a model is one handler's way from an await to the next, what the
handler has read is kept in a record of its own (and may be stale when it is
used), and a crash loses exactly those records. Two things are cut everywhere:

* the number of requests in progress at a time is a constant (`Workers`,
  `Parallel`, `Together`). It is a bound for TLC and a parameter of the theorems:
  several properties say that a fault is no worse than the number of requests
  that overlap, and that it cannot happen without overlap;
* a request refused before its first write is not a step, since it changes
  nothing.

## 2. Inventory

| part | state | operations | hard behaviour | what makes it correct |
| --- | --- | --- | --- | --- |
| Payment handlers (`payments/payments.service.ts`) | `PaymentTransaction` | initialise, verify, webhook (Flutterwave, DPO), wallet investment | late, repeated, unauthenticated notices; polls and webhooks over stale documents | success only with money taken; no success without its investment |
| Payment listener (`investments/listeners/`) | `Investment`, project totals, donors, custodial keys | one handler of `payment.successful` | two events of one payment; a throw between any two of ten steps; events lost in a crash | one payment, one investment; totals never ahead of records |
| In-app wallets (`payments/payments.service.ts`) | `Wallet` with its withdrawal methods | open, credit, invest, withdraw with fee, add a method | balances read, changed and saved across a payout; methods named by index | no more leaves than came in; the fee arrives; the chosen account is paid |
| Escrow deposits (`escrow/`) | `Escrow`, `Deposit`, `EscrowEvent` | deposit, dispute, refund, release | four writes without a transaction; unique hash and escrow | totals never ahead of deposits |
| Investments (`investments/services/investments.service.ts`) | `Investment` | create, change status, refund | deposit first, project last; two administrators | invested is deposited; refunded once; final stays final |
| Milestone approvals (`escrow/`) | `MilestoneLock` | approve | find, create and save are three operations | an approval is never lost |
| InvestmentNFT (`contracts/InvestmentNFT.sol`) | ERC721 owners and the contract's own lists | mint, transfer, update, deactivate | callbacks into receivers before the bookkeeping | the holder is listed, the recorded investor is the owner |
| Sessions (`auth/auth.service.ts`) | `refresh_tokens`, password hash, block | register, sign in, refresh, sign out, reset, block | tokens stored after what they rest on was read | revocations and blocks end sessions |
| E-mail codes, MFA (`auth/auth.service.ts`) | fields of `User`, in-memory limits | register, verify, resend, mail a link; set up, enable, disable | counters read and saved; mail before hash; clocks, restarts | guesses and mails per window bounded; MFA can be passed |
| KYC (`kyc/kyc.service.ts`) | `KycProfile` | draft, upload, submit, provider webhook, override, sync | profile and user are two documents and two writes | profile and user agree |
| Users (`users/users.service.ts`) | `User` | create, link wallets, Smile ID sessions, creator verification, decisions, block | answers before questions are stored; wallets looked up, then stored | verified only on a positive verdict; who waits in vain was answered too early; a wallet has few owners |
| Projects (`projects/projects.service.ts`) | `Project`, `Milestone`, verification logs, attachments | create, update, submit, decide, require, upload, fund, deploy | status read before it is set; milestones deleted, then inserted | only complete projects are submitted; decisions stand |
| Treasury (`treasury/`) | balances, transactions, the chain | fee, donation, withdraw, distribute | the chain pays before the balance is checked; balances read and saved | the balance is what the transactions say |
| Deal room (`deal-room/`) | document, access list, log | open, grant, revoke, delete | the list is read and written as a whole | who was revoked stays out |
| NFT service (`nfts/nft.service.ts`) | `Nft` | mint, change value | a row written off a receipt after a chain call | a document names the token its own mint made |
| Roles and audit | roles; log | upsert, append, read | none | - |
| Statistics | none of its own | read | none | - |
| Guards, configuration, scripts | none | - | none | - |

Interactions: a payment handler emits `payment.successful`; the listener calls
projects (`incrementFunding`, `incrementCharityDonation`), the custodial wallets,
the NFT contract and the creator's wallet. `createInvestment` calls the escrow and
then projects. Wallet withdrawals call Flutterwave. `KycService` writes its verdict
into the user's document, which Smile ID's webhook, the status endpoint, sign-in and
blocking write too; submitting a project reads it. Everything that funds a project
reads its `status`, which `decide` changes. No model says who calls an operation: where the
code checks the caller, the model has the calls it lets through; where it does not
(section 10), anybody's. The payment notices pass the global JWT guard in the code; the models let
them come from anywhere, which only adds behaviours.

The hazards in `PROJECT.json` list, line by line, where these behaviours bite.

| modules | code | run | proofs |
| --- | --- | --- | --- |
| `PaymentEvents`, `Payments`, `PaymentListener`, `Settlement`; abstract `PaymentLedger` | payments, listener and what it calls | `settlement`, `settlement_live`, `settlement_twice` | `SettlementProofs` |
| `Wallet`; abstract `Account` | wallet operations | `wallet_serial`, `wallet_races`, `wallet_overdrawn` | `WalletProofs` |
| `Escrow`, `Investments` | escrow and investments | `investments` | `InvestmentsProofs` |
| `InvestmentNFT` | the contract | `investment_nft` | `InvestmentNFTProofs` |
| `Sessions`, `Credentials` | auth | `auth` | `SessionsProofs` |
| `UserVerification`, `KycProfiles`, `Verification` | users and KYC | `verification` | `VerificationProofs` |
| `Projects` | projects | `projects` | `ProjectsProofs` |
| `MilestoneLocks`, `Treasury`, `DealRoom`, `UserWallets`, `WithdrawalMethods`, `NftRecords` | six collections that share nothing | `back_office` | `BackOfficeProofs` |

Some MC modules choose a *scene* at the start: a constraint on which of the
module's requests a behaviour may have, so that one run looks at several
instances of the same specification. A scene only removes behaviours; it changes
no step.

## 3. Settlement: from a payment to an investment

State: `status` (the transaction), `gateway` (what the gateway knows, external),
`notices` (webhooks on their way; they are never used up, so they may be late,
repeated and reordered), `req` and `run` (handlers and listener runs, one per
worker), and per transaction how often it was invested, raised, recorded for a
donor, credited, minted and recorded as NFT. These are counts and not flags,
because the code can do each of them twice. `Payments` is `PaymentsService`
(initialise, verify, webhooks, wallet investment), `PaymentListener` the handler
and the services it calls, one action per await, and `Settlement` runs both over
one database and adds crashes.

Runs:

* `settlement`: three scenes (`MCSettlementScenes`), two workers each: a Flutterwave
  payment; a donation to a charity paid through DPO; and two payments of one investor, from the
  wallet and through DPO. Throws, crashes and repeated notices in each.
  `MoneyBehindEverything`: no success and no investment without money taken.
  `BooksAgree`: donors, credits, mints and NFT records never run ahead of what they rest on.
  `CopiesBounded`: no payment becomes more investments than workers. `MeetsLedger`: the
  refinement of `PaymentLedger` with `Copies` = the number of workers. The history `met`
  remembers whether two runs for one payment have stood between the duplicate check and the
  creation, or two runs at the custodial key. Until they have, a payment becomes one investment
  (`InvestedOnceApart`), also when a DPO answer takes the settled payment back and it is
  settled again (`DpoVerifyOther` looks at no stored status), and the holder of the NFTs keeps the
  key (`KeyKeptApart`), over both payments. One transaction is enough for the races of a payment because no action
  reads two transactions; the key is the investor's, hence the third scene. Two workers
  are what every race in the code needs.
* `settlement_live`: without faults, `SuccessIsInvested`. Fairness is weak and on
  the steps of handlers and listener runs only, since Node runs every promise on while
  the process is up and a call that does not throw returns; clients, gateways
  and administrators owe nothing. `FairSpec` has no crash (`Serving` is `Next`
  without it): an event lost in a crash is never sent again unless a client polls,
  so with crashes the property fails by design of the code.
* `settlement_twice` shows a disagreement: the listener's "Check for existing
  investment to avoid duplicates" does not, as soon as two events of one payment
  overlap. Neither a throw nor a crash is needed.

Constants: `IsCharity`, `CreatorIdReadable` (whether the populated creator yields
an id) and `TestMode` select paths that do not change during a run.

## 4. In-app wallets

`Wallet` has one action per await of opening, crediting, investing and
withdrawing with the platform fee; `credited`, `spent` and `charged` record what
really happened. `Account` is the abstract account: money comes in, no more goes
out than is there. Runs:

* `wallet_serial`: one request at a time, nothing failing: `BalancesExact`,
  `FeesArrive`, and the refinement `MeetsAccount`.
* `wallet_races`: three requests in progress, lost payouts and throws:
  `HeldWasCredited`. Balances may be lost, never invented.
* `wallet_overdrawn` shows a disagreement: a withdrawal awaiting its payout and an
  investment spend one balance.

Amounts are small numbers for which the fee, rounded up to whole units, differs
between amounts; the treasury is one of the owners, so that its wallet is
opened, credited and read by the same races.

`WithdrawalMethods` is the array of one wallet: additions over the document's
version (a push alone is sent as `$push` and advances the version; a push next to a changed
element sends the whole array and requires the version that was read) and
withdrawals, which name a method by the index the user saw. `ChosenIsPaid` says
that no addition in between moves the index to another account.

## 5. Escrow and investments

`Escrow` models `createDeposit` (find or create the escrow, insert, attach, add to
the total, log), and `raiseDispute`, `refundDeposit` and `requestRelease` (the *marks*);
`Investments` extends it with `createInvestment` and `updateStatus` with its
refund. Run `investments`: two investments, a direct deposit, two status changes
and a mark, two at a time, the project closed and reopened, any call throwing.
`RecordsInOrder` chains the counts: each is written after the one before it and
never runs ahead of it. `InvestedIsDeposited`, `RefundedOnce` (unless two calls
about one investment overlapped, which `shared` remembers) and `FinalStays`
complete it. Two status changes are what it takes to reach a final status and try to
leave it; requests of one kind are symmetric.

## 6. InvestmentNFT

`InvestmentNFT` models the contract over ERC721. A transaction is atomic, but
receivers are called back from within it, so the calls that wait are a stack, and
holders may transfer again from inside. Run `investment_nft`: two tokens, two
transfers, callbacks two deep; receiver `vault` is a contract. Two tokens are
needed for lists to be reordered by removal, two nested transfers for the
bookkeeping to run in reverse order. Between transactions (`stack` empty)
`HolderIsListed` (a holder's list has its tokens), `IndexesExact` (each token once
in its project's list and in no other, an investment id leads to its newest
token) and `InvestorIsOwner` (the recorded investor is the owner, unless a contract
was recorded) hold. That no step reactivates a deactivated investment or changes its value is proved only.

## 7. Accounts

`Sessions` models the refresh tokens of one account from its registration on:
`register`, `login`, `oauthLogin` (which finds the same account by its address),
`refreshToken` (find,
revoke, read the user, store the successor, answer), `logout`, `resetPassword`
(find, write the hash, revoke) and `blockUser`. A request stores at most one
token, which is named after it. Observers that no step reads record what is
needed to say "unless it was in progress": `upto`, the last revocation a session
got past, and `crossed`. Expiry only refuses (it is the case "refused, changes
nothing"), and so do rate limits, MFA and IP checks in `login`. `updateMany` is
one step: a token stored while it runs is missed or caught, which are the two
orders the model has.

`Credentials` models what proves that a client owns the account: the code mailed
by `register` and `resendVerificationEmail` and guessed in `verifyEmail`, the link
of `forgotPassword`, both limits on mails (one in the document, one in memory,
which a restart clears), and the three MFA handlers. Times are what is left of them,
and `Tick` takes a unit off.

Run `auth`, three scenes: four session requests, two at a time (four are the
fewest with which a token could get a third successor); codes and links with one
request at a time, restarts and passing time; overlapping MFA handlers.
`SuccessorsBounded` is about rotation, `SessionsEnd` and `OldPasswordsEnd` about
revocation, `BlockedIsEnd` about an account blocked while requests are on their way,
`GuessesBounded` and `MailsBounded` about the limits (only while requests do not overlap,
`calmly`: overlapping ones count once, and are left out here), `MfaCanBePassed` about an account that asks for a
code nobody can compute. Units: a block lasts 2, a code 3, a window 3; the code has 10 and
15 minutes and an hour. What the argument needs is that a code lives shorter than
two blocks, which is an assumption of the module; attempts and mails are limited to
2 instead of 5 and 3.

`UserVerification` models what `UsersService` does to a user's KYC status (documents
uploaded, Smile ID sessions and webhook, decisions), `KycProfiles` the
profiles of `KycService` and the copy of each verdict into the user, and
`Verification` runs both. A callback in Smile ID's name (`HandleSmileWebhook`) may name any job
that was posted, any user and any result, at any time and repeatedly: the code verifies a
signature over the job and a time stamp and nothing else of it. Run `verification`: scene `calm`, one
user and one request at a time with every operation; scene `races`, requests to
`KycService` that overlap and fail; scene `smile`, two users and two sessions that
overlap and fail, with callbacks that mix up jobs and users. `VerifiedWasCleared` holds in all: nobody is verified
for whom no call ever brought a positive verdict, be it a provider's answer, an override,
a signed callback or the status endpoint. Who may call is not part of it, since the code does not check
it for the last two. `WaitsOnlyIfEarly` holds in all as well: a user shown as waiting for a job was marked by his own
session, and no callback for it has named him since the mark; so only an answer that came before the
mark leaves him waiting in vain. That does happen, as the mark comes after the job
was posted. `MirrorsProfile` (profile and user agree as long as `KycService` wrote last, for the
statuses it copies) holds while nothing overlaps or fails, and fails otherwise.

`UserWallets` models creation and `linkWallet`: `OwnersBounded` says how many
users a wallet gets at most, one per request that overlapped.

## 8. Projects and the back office

`Projects` models creating, updating, submitting, deciding, milestones,
attachment requirements and uploads, verification logs and the deployment script.
Run `projects`, three scenes: one request at a time with every operation; overlapping
changes of the milestones; and submissions, decisions and a deployment that overlap.
`SubmittedIsComplete`: a stored project goes back to review only with every required attachment and from an eligible
creator (calm; a creation enters review without these checks). `DecisionsStand` (always): an
approval or rejection is taken back only by another call of `decide`, whoever makes it, or
by a submission that had read the project before its status changed, which `overtaken` remembers;
an edit, an upload or a submission that read it afterwards leaves it. `MilestonesOfOnePlan`
(calm; a failure between deletion and insertion leaves no milestones) and `PlansBounded` (always): a
replaced plan of milestones leaves nothing behind, and plans pile up only by overlapping requests.

Run `back_office` has six scenes, one collection each:

* `MilestoneLocks`, four approvals, three at a time: `ApprovalsKept` depends on
  the version check of a whole-array save; `LocksBounded` says how many locks a
  milestone can get;
* `Treasury`, three bookings, two at a time: `ShownWasBooked` (no document shows
  more than what is booked, however bookings overwrite each other) and
  `BalancesMatchRows` (one document, and exact, as long as nothing overlaps or fails);
* `DealRoom`, three visits, two at a time: `RevokedStayOut`, unless somebody else was about
  to write the list when the entry was taken out;
* `UserWallets`, four forms, two at a time; `WithdrawalMethods`, four additions, three at a time, and two
  withdrawals;
* `NftRecords`, three mints, two at a time: `DocumentsOfMints`. The contract and its
  receipts are external; the transaction may revert, its answer may be lost, and
  the receiver may move other tokens in it.

But for the methods, no step tells requests apart, so they arrive in their order.

## 9. What is proved

All theorems hold for every value of the constants that satisfies the named
ASSUMEs (finite sets of requests or workers, sentinels outside their sets,
amounts positive), for any number of requests in progress.

| module | theorems about properties of the runs | others |
| --- | --- | --- |
| `SettlementProofs` | `MoneyIsBehind`, `BooksAlwaysAgree`, `CopiesAreBounded`, `ImplementsLedger`, `ScenesInvestOnce`, `ScenesKeepTheKey` | `Invariance`, `TypeCorrect`, `NoneIsForgotten`; if the runs or requests concerned stay apart `ApartInvestsOnce`, `ApartKeepsTheKey`, and with one worker both (`SerialIsSafe`) |
| `WalletProofs` | `HeldIsCredited`; if requests stay apart at the wallets `ApartBalancesExact`, `ApartFeesArrive` (both without faults), `ApartMeetsAccount` (without faults or without withdrawals) | `WalletTypeCorrect`, `ApartNeverOverdrawn`; with `Parallel = 1` and no faults all four (`SerialIsSafe`) |
| `InvestmentsProofs` | `RecordsStayInOrder`, `InvestmentsAreDeposited`, `RefundsAreSentOnce`, `FinalStatusStays` | `InvestmentsInvariant`, `InvestmentsTyped` |
| `InvestmentNFTProofs` | `HoldersAreListed`, `InvestorsAreOwners`, `IndexesAreExact` | `ContractInvariance`, `RecordsInvariance`, `ContractTyped`, `DeactivatedStaysFrozen` |
| `SessionsProofs` | `SuccessorsAreBounded`, `SessionsAreEnded`, `OldPasswordsAreEnded`, `BlockedAccountsEnd`, `GuessesAreBounded`, `MailsAreBounded`, `MfaCanAlwaysBePassed` | `SessionInvariance`, `TypeCorrectness`, `TokensRotateFirst`, `CredentialsInvariance` |
| `VerificationProofs` | `VerifiedWereCleared`, `StatusMirrorsProfile`, `WaitersWereEarly` | `TypesOK` |
| `ProjectsProofs` | `PlansStayFew`, `MilestonesAreOfOnePlan`, `SubmissionsAreComplete`, `DecisionsAreKept` | `Invariant`, `ProjectsTypes` |
| `BackOfficeProofs` | `ApprovalsAreKept`, `LocksAreBounded`, `RevokedAreOut`, `OwnersStayFew`, `ChosenArePaid`, `DocumentsNameTheirMint`, `ShownIsBooked`, `BalancesAreRows` | `LockInvariance`, `TreasuryInvariance`, `UserWalletsTypes`, `DealRoomTypes` |

Why the invariants are stronger than the properties:

* Settlement. `raised <= investments` is not inductive: a run that has created an
  investment is about to raise. `CountsAgree` adds to each count the runs that
  stand at the steps before it; moving a run from one step to the next keeps the
  sum. `Backed` carries "the money was taken" from the gateway through the
  handlers' records, the notices and the runs, and `OpenedOnce` keeps two
  handlers from opening one gateway entry.
* What must stay apart. Single investment and kept keys fail when requests overlap
  (section 10), so their theorems name the one overlap that breaks each: `RunsApart`
  (no two runs for one payment between check and creation) and `KeysApart` (no two runs generating a
  key). As long as it does not happen, and whatever else overlaps, crashes or throws, what a run
  has read is what is stored (`ChecksOK`, `KeyOK`). A remedy in the code has to exclude just
  these. `SceneInv` says the same of the scenes, where `met` remembers the overlap; one worker is a case.
* Forgotten payments. `NoneForgotten` is the safety half of `SuccessIsInvested`: a
  payment stored as successful is invested or in the hands of a handler or run about to do it.
  `EmitsOnce` makes it inductive: a handler emits last, or just before its save.
* Wallet. What a request has read was once stored, hence credited
  (`ReadWasCredited`). While requests stay apart (`WalletsApart`: no two in progress
  are at one wallet, or pay a fee to the treasury's), what one has read is what is
  stored, and a payout made but not yet debited belongs to the one request at its wallet.
  `Exact` adds that amount to the balance, and `FeesOK` the fees of all requests that
  have charged one and not yet credited it, a sum over any number of them.
* Investments. To each count are added the requests about to raise it (`Recorded`,
  `Locking`, `Raising`), as in the settlement. For refunds `ChangesOK` and
  `OneChange` say what a request that has read an investment may still do to it while it is the
  only one.
* InvestmentNFT. A token missing from its holder's list has a waiting call that
  will put it there; only the first call of a mint may lack data. `RecordsInv`
  adds that calls wait for contracts only (`FramesOK`), that an investor other
  than the owner is a contract or about to be corrected, that a recorded token is at exactly one
  place of its project's list, and that an id leads to its newest recorded token.
* Sessions. Requests that carry a session have got past every revocation, because
  a revocation advances all of them together. The heirs of a token (its
  successors and the requests that hold it) only become fewer once it is revoked,
  and so do those served or about to be served while the account is blocked:
  bounds on sets that shrink, in place of counting steps.
* Credentials. `GuessesOK` relates the guesses at a code to the attempts stored and the time
  that is left: after a block, too little is left of the code for a second round,
  since `CodeLife < 2 * BlockTime`. `MailsOK` relates the mails to both counts, and
  `SavesOK` says what an MFA handler will save.
* Verification. `TracesOK` follows a verdict from where it was given to where it is stored;
  `MirrorOK` says what the one request in progress still owes; `WaitsOK` adds to
  `WaitsOnlyIfEarly` that nothing counts against a job whose session may still mark its user.
* Projects. Stored plans plus requests about to insert one are bounded; in calm
  times what the one request read is what is stored. `LateOK`: a submission past its check
  that nothing overtook still finds the status it has read, so it takes no decision back.
* Back office. A lock that was read is current or outdated by its version, so
  a save that succeeds extends what is stored. A wallet's owners and the requests that
  found it free are one set (`Claimants`) that a finished request leaves as it was. A list that
  a deal-room request holds has nobody revoked in it who is not in `late` (`ListsOK`). A
  copy of the methods is a beginning of the stored array or outdated (`CopiesOK`). A
  mint's receipt has its own token and no other mint's (`MintsOK`).
* Treasury. What a document shows, and what was read of one, is at most what the fees and
  donations saved so far add up to (`BalancesSaved`), for a save overwrites and never adds
  to another's. While nothing overlaps, the balances are exact at each step (`SmoothOK`).
* Sums. A total over bookings or fees is the number of their units, the cardinality of a union of disjoint
  sets, so the library's theorems on finite sets prove what a fold would need an induction for.

Each inductive invariant was checked by TLC before it was proved.

Several properties say what holds only while requests do not overlap, and in part while nothing fails:
`BalancesExact`, `FeesArrive`, `MeetsAccount`, `GuessesBounded`, `MailsBounded`, `BalancesMatchRows`, `MirrorsProfile`,
`MilestonesOfOnePlan` and `SubmittedIsComplete`; `RevokedStayOut` leaves out who was about to write
the list. The overlap itself breaks them in the code (section 10). What the code still
guarantees under it is said by others: `HeldWasCredited`, `ShownWasBooked`,
`VerifiedWasCleared`, `PlansBounded` and `DecisionsStand`.

Only model-checked: `SuccessIsInvested`, since fairness and ENABLED are beyond the
proof system's backends. Its safety half is `NoneIsForgotten`.

The proofs cite finite-set theorems of the library and nothing else is taken on trust.

## 10. Where the code does not do what it says or seems to intend

Shown by runs: `settlement_twice`, `wallet_overdrawn` (section 3 and 4).

Met while modelling, and built into the models as the code has them.

Payments, wallets, investments:

* any answer of DPO but '000' and pending marks the payment failed
  (`payments/payments.service.ts`:529; `payments/dpo.service.ts`:216-224 hands the result through),
  without a look at the stored status: one later poll takes a settled payment back, and the
  next one settles and announces it again;
* two listener runs for one investor can generate a custodial key each, and one is lost;
* overlapping withdrawals can lose the treasury's fee;
* outside test mode the simulated deposit answers one constant hash, and
  deposits are unique by hash, so only the first `createInvestment` succeeds
  (`InvestedIsDeposited` checks what follows);
* a refund lowers neither the project's nor the escrow's total; a refund that
  fails after the status was saved is never tried again; two administrators can
  send it twice; a refunded or disputed deposit lowers no total, and a dispute may overwrite a refund;
* two overlapping additions of a default withdrawal method can leave two defaults;
* `payments.controller.ts` (45, 150, 173, 181, 191) reads `req.user.userId`, while the JWT
  strategy answers `sub` only; `new Types.ObjectId(undefined)` is a fresh id, so each HTTP
  wallet request opens another empty wallet. The modules model the service with a proper id.

Accounts:

* a sign-in or refresh in progress at a sign-out or reset leaves a live token; a
  reset link works until it expires; a reset whose revocation throws has changed
  the password and reports an invalid link;
* starting the MFA setup while MFA is enabled drops the stored secret: nobody can
  sign in, and only `enableMfa` with a new secret, from a session that is still live, helps;
* overlapping guesses of a code count once; `blockedUntil: undefined` is stripped from the
  update, so a block survives a resend; mails are sent before anything is stored;
* overriding a profile to EXPIRED or NEEDS_MORE_INFO leaves the user VERIFIED; the
  dummy provider approves every complete submission; the administrators' sync
  replays the stored answer of the provider and undoes an override; a stale draft
  can set an approved profile back to DRAFT;
* `AdminUsersController` passes the actor `'admin'`, which is no id: `AuditService` throws
  after the change is stored, so the caller is told of a failure that was a success;
* the result and the user named in a Smile ID callback are neither covered by its signature nor
  compared with the job (`users/users.service.ts`:276-302); the callback and the status
  endpoint (`users/controllers/admin-users.controller.ts`:49) are public and check no caller;
* a Smile ID answer that comes before the session has marked the user as waiting is overwritten by the mark;
* overlapping links give a wallet several owners.

Projects and the back office:

* `project.creatorId !== creatorId` compares a populated document with an id, so an
  owner's update, submission or upload is refused (`plainIds` is the other case);
* attachments have no `fileId` in the schema, so an upload never satisfies a requirement;
* `createProject` sets PENDING_REVIEW without the eligibility `submitProject` asks for;
  `decide` works from any status and for any caller (`projects/controllers/admin-projects.controller.ts`:26
  is public); approved projects may be edited. `projects.service.spec.ts` (289) expects a check
  `decide` does not have; a submission in progress takes back a decision made meanwhile;
* the public `POST projects/:id/donate` adds to a charity's total without a payment;
* `getMilestonesPublic` may read between deletion and insertion and show no milestones;
* the treasury pays on the chain before it checks its balance, so a refused
  withdrawal may have been paid and has no row; the status of the receipt is not
  looked at; a second treasury document made by a race is never found again;
  overlapping bookings overwrite balances, and `available` may exceed `total`;
* in the deal room, `revokeAll` removes the uploader's own entry, so that only
  administrators remain; revoking a person keeps the entry of the person's role; a
  list changes without a log entry if the log throws;
* an NFT minted whose answer or row is lost stays without a document; the receipt's
  status is not looked at, but a reverted receipt has no events; `parseMintEvent` does not
  look at the address of a log;
* the contract's `getInvestmentMetrics` computes an unsigned gain and reverts for an
  investment worth less than at first;
* the overview of the statistics shows raised totals, which refunds never lower, next to
  investments without the refunded ones.

## 11. Not modelled, and why

* Roles and audit: roles are upserted at start-up and read; the log is
  append-only and read by no other operation.
* Statistics: read-only aggregations.
* Guards, configuration and scripts: filters without state, constants and
  one-off scripts (the deployment script appears as `OpenFunding` in `PaymentListener` and
  `Deploy` in `Projects`).
* In Sessions, accounts that `oauthLogin` creates: they have no password, and their tokens
  are those of any other account. In Users, `updateProfile`, `updateRole` and
  `recordLogin` are single updates of fields no other operation decides on, except
  that `updateProfile` keeps `emailVerifiedAt` when the address changes. In Projects,
  generic files and agreement templates are stored and read back. The contract's
  roles and views, and the read operations of all services, change nothing.
* DTO validation, formatting, mails' texts and logs everywhere; money is in whole
  small units except where the fee's rounding is the point.

## 12. What could come next

* One account across `Sessions`, `Credentials` and `Verification`: blocking, a changed address
  and a reset meet in the user document. Each run is small enough for one more actor.
* A project across `Projects`, `Settlement` and `Investments`: they meet in `status` and the totals, which
  each has now in its own abstraction.
