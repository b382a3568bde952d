# Formal models of the crypto exchange platform

TLA+ models of this platform: the withdrawals, deposits, addresses, hot wallets and
balances of `services/wallet-service`, the accounts, tokens, second factors, rate limits
and KYC of `services/auth-service`, the web client's state, and the matching engine
prototype of `Inputs/TradeEngine`. TLC checks each model on small instances; TLAPS
proves their safety properties for every value of the constants, and that both
withdrawal services implement one abstract reservation of funds: the TRY service always,
the crypto service up to the first write that rests on an overtaken read.

Paths are relative to `src/`. File names stand for `services/wallet-service/src/...`
where nothing else is said.

## 1. Inventory of the system

| Component | State it keeps | Operations | Talks to |
|---|---|---|---|
| TRY withdrawal (`withdrawal/withdrawal.service.ts`) | rows of `withdrawal_requests`; the TRY row of `user_wallets`; `ledger_entries` | create (2FA, bank account, row lock, reserve), cancel (refund), approve, daily limit | auth service (2FA over HTTP), PostgreSQL |
| Crypto withdrawal (`withdrawal/services/withdrawal-request`, `-processing`) | rows of `crypto_withdrawal_requests`, wallet row, ledger | create, cancel, process, admin-approved process, failure handling, finalization | PostgreSQL, hot wallets, Redis |
| Hot wallets (`withdrawal/services/address-validation`, `fee-calculation`, `transaction-signing`, `blockchain-broadcasting`) | keys in the environment; nothing stored | check addresses and amounts, sign, broadcast with retries, look up a status | Bitcoin, Ethereum and Tron nodes |
| Crypto deposit (`deposit/crypto`) | `blockchain_transactions` | webhook, confirmation update, credit | BlockCypher (webhooks and queries), wallet service |
| Deposit addresses (`crypto-deposit.service.ts`, `hd-wallet.service.ts`) | `blockchain_addresses`; the seed in the environment | next index, derivation, registration of a webhook | auth service (KYC status), BlockCypher |
| Wallet service (`wallet/wallet.service.ts`) | `user_wallets`, Redis cache of balances | credit, balances, invalidation | PostgreSQL, Redis; called by the deposit service |
| Ledger service (`ledger/ledger.service.ts`) | `ledger_entries` (append only) | paged queries, the balance as a sum | read by users and audits, written by the other services |
| TRY deposit and bank accounts (`deposit/deposit.service.ts`) | `fiat_accounts`, `deposit_requests` | add and delete accounts, request and approve deposits | PostgreSQL |
| 2FA of withdrawals (`two-factor-verification.service.ts`) | attempts per user, in memory | verify, lock out | auth service |
| Matching engine (`Inputs/TradeEngine/matching_engine.go`) | per symbol: price levels, their map, two heaps, the map of orders | place (market, limit; GTC, IOC, FOK), cancel, depth, statistics | callbacks OnTrade and OnOrderUpdate |
| Auth (`services/auth-service/src/auth`) | users, sessions, reset tokens, failed attempts; blacklist in Redis | register, verify e-mail, resend, login, refresh, logout, request and confirm a password reset | PostgreSQL, Redis, e-mail, RabbitMQ |
| 2FA (`auth/two-factor`) | secrets, backup codes; challenges, attempts and lockouts in Redis | set up, verify, challenge, regenerate, disable | PostgreSQL, Redis |
| Rate limiter and reCAPTCHA (`common`) | sliding windows and a whitelist in Redis | admit or deny | Redis, Google |
| KYC (`kyc`) | submissions, documents | validate, scan, upload, submit, verify with MKS | PostgreSQL, scanner, storage, MKS |
| Frontend (`frontend`) | two Redux slices per tab, the access token in localStorage | the pages' requests, the sign-out on a 401, mocked APIs | the two services |
| Schema, deployment, QA | migrations, compose and Kubernetes files, test plans | | |

What is hard. Every HTTP handler is a coroutine that is suspended at each `await`;
several of them, in one or in several processes, work on the same rows. Transactions run
at READ COMMITTED. Some reads are `FOR UPDATE`, most are not, and `repository.save`
writes back an entity read earlier. Calls out of the process (2FA, BlockCypher, nodes,
Redis, MKS) fail, time out, answer late or are repeated, and the process may die between
two commits. Redis pipelines are not transactions. Browser tabs share localStorage and
nothing else. The matching engine keeps one fact in three structures (queues, map,
heaps).

What makes each part correct, in a sentence each:

- *Withdrawals*: the locked balance is what open requests hold; nothing is overdrawn; a
  request's funds come back at most once, and never when the money has left; the ledger
  explains the balance; every call is answered.
- *Crypto withdrawal*, besides: what is booked as paid was sent.
- *Hot wallets*: what is shown as sent is on the network, once, to the address and for
  the amount that was asked for.
- *Crypto deposit*: no credit before enough confirmations, none lost, none twice, and
  one in the end.
- *Deposit addresses*: no two users are shown one address or get its payments.
- *Wallet cache*: what is served is neither older than the cache keeps it nor, after an
  invalidation, older than that.
- *TRY deposit*: a pending deposit keeps its bank account.
- *KYC*: a bounded number of pending submissions, each with scanned files and a number
  that is one.
- *Matching engine*: price-time priority, no overfilling, no order lost in the book, no
  trade with a cancelled order, matching ends.
- *Auth*: a revoked token is refused; sessions end with a logout or a reset; the row of
  an account is its history; failed attempts lead to a lockout that ends; a challenge
  and a backup code are good once (of the backup code it is false, section 3); a window
  admits no more than its limit.
- *Web client*: no spinner outlives its request; a tab that shows itself signed in is.

`PROJECT.json` lists the components with their status, and under `hazards` every place
where the code is exposed, with the properties that cover it.

## 2. Modules

| Module | Models | Composes / extends |
|---|---|---|
| `RunningTotal` | the sum of a function over `1..n` (SUM over a table) | |
| `FundsReservation` | abstract: reserve, release, settle, credit, each in one step | `RunningTotal` |
| `TryWithdrawal` | `withdrawal.service.ts` | `RunningTotal`; refines `FundsReservation` |
| `CryptoWithdrawal` | the crypto withdrawal services, wallet rows and network | `RunningTotal`; refines `FundsReservation` (up to the first overtaken write) |
| `HotWallet` | address and amount checks, signing and broadcasting | |
| `CryptoDeposit` | webhooks, records, confirmations, `creditUserWallet`, BlockCypher and the chain | `RunningTotal` |
| `DepositAddress` | indices, derivation, rows, webhooks of deposit addresses | |
| `BalanceCache` | the two cached keys of a balance and who deletes which | |
| `FiatDeposit` | bank accounts, TRY deposit requests and their approval | |
| `WithdrawalTwoFactor` | the wallet service's count of wrong 2FA codes | |
| `AuthService` | `auth.service.ts`, the token blacklist and the JWT guard of the auth service, for one account | |
| `TwoFactor` | the second factor of one user: rows and Redis keys | |
| `RateLimiter` | the reCAPTCHA and rate limit guards for one key | |
| `Kyc` | submissions of one user, with scanner, bucket and MKS | |
| `WebClient` | the store of every tab, localStorage, pages and API clients | |
| `BinaryHeap` | `container/heap` (external) with `PriceQueue.Swap`: the array after each exchange of Push and Pop | |
| `MatchingEngine` | `matching_engine.go` | `BinaryHeap`, `RunningTotal` |
| `Auth` | the auth service and everything that counts codes, side by side | `AuthService`, `TwoFactor`, `RateLimiter`, `WithdrawalTwoFactor` |
| `Platform` | the deposits, the smaller services and the client, side by side | `CryptoDeposit`, `BalanceCache`, `FiatDeposit`, `Kyc`, `DepositAddress`, `HotWallet`, `WebClient` |
| `RunningTotalProofs`, `FundsReservationProofs`, `TryWithdrawalProofs`, `CryptoWithdrawalProofs`, `CryptoDepositProofs`, `AuthProofs`, `PlatformProofs`, `MatchingEngineProofs` | the proofs | the modules they are named for |
| `MCTryWithdrawal`, `MCCryptoWithdrawal`, `MCCryptoDeposit`, `MCAuth`, `MCTwoFactor`, `MCPlatform`, `MCMatchingEngine` | instances for TLC | the modules they are named for |

The parts that `Auth` and `Platform` put together share no state that the properties
look at, so a behaviour runs one of them, chosen at the start. Where they do depend on
each other, the dependence is in the module: an auth challenge in `AuthService` is
passed or not, which `TwoFactor` decides; the wallet row of `CryptoDeposit` is a version
number in `BalanceCache`; what `CryptoWithdrawal` calls a broadcast is looked at more
closely in `HotWallet`.

Operators introduced by a comment `Fault:` are not part of a model: each is a definition
with a plausible programming error, kept to show which property would notice it.

### How a handler becomes actions

A *call* is one HTTP request (or one run of the processing service) being served.
`pc[c]` says which `await` it is suspended at, further per-call variables are what it
has in memory, and one action is what happens from one `await` to the next. A call
answers by `Return`, which forgets its memory. Calls that a check rejects before
anything is written leave no trace, so they are not shown; the ones that fail later end
in an action of their own (`InsufficientBalance`, `CancelConflict`) or in `Fail`.

A transaction's writes become visible in the action that commits, and its row locks
(`walletLock`, `requestLock`) are released in the same action. A `SELECT ... FOR UPDATE`
takes the lock and reads; a plain `SELECT` reads; an `UPDATE` waits for the lock. Where
one transaction writes two rows, the locks it takes on the way are steps, so that
transactions can wait for each other. `repository.save` outside a transaction is one
step that overwrites its row; TypeORM's own re-read just before that write is part of
the step, which makes the interleavings a subset of what could happen and removes none
of the ones reported below.

`Fail` ends a call at any await, with the rollback of an open transaction: it stands for
every exception that leads to no further write and for the death of the process. In
`CryptoWithdrawal`, `ProcessingThrows` is the `catch` of `processWithdrawal`, and in
`CryptoDeposit`, `CreditThrows` is the one of `creditUserWallet`, because these do
write.

In the modules of the auth service and the smaller services, `Break(c)` is what `Fail`
is here, and `Return(c)` the answer. A `scenario` says which requests a behaviour
consists of, how many there are, and how many run at a time; the state is otherwise the
same. Times are counted in ticks, a bounded number of them.

- **TryWithdrawal**: `BeginCreate` (validation and daily count), `Verify2FA`,
  `VerifyFiatAccount` (the transaction begins, and with it `created_at`), `LockWallet`,
  `Reserve`; `BeginCancel`, `LockRequest`, `LockWalletForRefund`, `Refund`;
  `BeginApprove`, `SaveApproval`; `NewDay`. Ledger entries have `before` and `after` as
  the code computes them.
- **CryptoWithdrawal**: creation as above; a cancellation reads the request and the
  wallet without a lock (`BeginCancel`, `ReadForCancel`, `SaveWallet`, `Cancel`);
  processing is one save per status (`Approve`, `MarkSigning`, `Sign`,
  `MarkBroadcasting`), then up to `MaxRetries` attempts (`BroadcastAccepted`,
  `BroadcastAnswerLost`, `BroadcastRefused`), then `MarkBroadcasted` or the release
  (`RecordFailure`, `ReadForRelease`, `Release`); finalization is `RecordCompletion`,
  `ReadForSettlement`, `Settle`. `onChain` is what the network has: it takes a
  transaction once. `connected` says whether a node or its API token is configured; where
  none is, broadcasting answers success with a hash of zeroes and sends nothing
  (`BroadcastSimulated`, `blockchain-broadcasting.service.ts:88-94` and `:162-168`). Two
  history variables, which no guard looks at, record when a plain read goes wrong:
  `read[c]` is the status that call `c` takes its row to have, and `overtaken` is set by a
  write of a row that is no longer as its call has read it.
- **CryptoDeposit**: `Confirm` is a block, `Webhook` one delivery of the event. A
  transaction with no record goes through `FetchNew`, `Insert`, `Count`, `ReadAddress`,
  `SaveAddress`; one with a record through `Load`, `Fetch`, `SaveRecord`; both end in
  `LoadForCredit`, `LockWallet` (there may be no row to lock), `Credit`, `SaveCredited`,
  `Report`, or in `SaveFailed`.
- **HotWallet**: `Create` passes `validateAddress` and the amount checks; `Sign` makes
  the transaction that the currency's signer makes; `Simulate`, `BroadcastEthereum` and
  `AttemptFails` are the attempts; `Mine` is a block. A transaction is its content:
  every account transaction has nonce 0, a Bitcoin transaction has no inputs and is
  always refused, the USDT contract's amounts are floored, USDT is always signed for
  ERC20, and an unconfigured provider answers with a hash of zeroes.
- **DepositAddress**: `GenerateDepositAddress`, `FindMax`, `Insert` (the unique address
  decides a race), `RegisterWebhook`; `Webhook` records a payment under the currency
  that `crypto-deposit.controller.ts` takes from the chain.
- **BalanceCache**: a read is `Hit` or `Miss`, `Find`, `Store`; a write is `Commit` and
  then what its service deletes: a credit both keys (`DeleteAll`, `ListKeys`,
  `DeleteOne`), a crypto withdrawal the list of balances only, a TRY withdrawal neither.
- **FiatDeposit**: `AddBankAccount` and `InsertAccount`; `RemoveBankAccount`,
  `CountPending`, `RemoveAccount`; `CreateDepositRequest` and `InsertDeposit`;
  `ApproveDeposit` and `SaveApproval`, which credits nothing.
- **AuthService**: `Account` is registration, verification and resending of the mail;
  `LoginStep` the password check, the count and lock, the session and its tokens;
  `TokenStep` refresh, logout and a guarded request (`mem[c].dead` remembers that its
  token was revoked before it came, `failedOpen` that Redis failed a check, which the
  code then lets pass); `ResetStep` the writes of a password reset in their order.
  `save` writes the whole row as the call read it. `Serve` is a guarded endpoint of the
  auth service itself.
- **TwoFactor**: `SetupStep` and `ChallengeStep`, one action per Redis command or query;
  `ExpireKey` is a key's time to live. `FindCode` compares the code with every backup
  code of the user: TypeORM 0.3, which `package.json` asks for, leaves a condition
  `usedAt: null` out of the query (the tests mock the repository and do not see it).
  `UseCode` is `save` of the entity that was found, and inserts its row again, as used,
  when a setup has deleted it meanwhile. Regenerating codes and disabling compare an
  Argon2 hash with bcrypt, never match, and so change nothing.
- **RateLimiter**: `RecaptchaGuard` and `Verify`; then `RemoveOld`, `Add`, `Count`, the
  commands of one pipeline, which interleave with those of another.
- **WithdrawalTwoFactor**: `Ask` looks at the count, `Valid`, `Invalid` and
  `Unavailable` are the auth service's answers, `Restart` loses the count.
- **Kyc**: `SubmitKyc` (with the number's checksum computed digit by digit),
  `FindApproved`, `Scan` and `UploadFile` per file, `Insert`; `VerifyWithMks` outlives
  the call and dies with the process (`Restart`). `Review` is external.
- **WebClient**: `Navigate` and `Load` move a tab, one action per form sends a request
  with the token localStorage has then, `Settle` is the reducer of its answer, `SignOut`
  the interceptor's 401.
- **MatchingEngine**: `Place` takes an order; `EnterLevel`, `Fill` and `LeaveLevel` are
  the two nested loops that the market and the limit version share; `EndMatching` and
  `Finish` decide what happens to the rest of the order; `Cancel` is `CancelOrder` with
  `RemoveOrder`. The loops are steps because the engine calls back after each trade.
  `levels` holds every price level ever allocated, so that an index is a pointer: a
  level can be in a heap and not in the map, and that is where the engine goes wrong.
  Heaps are modelled to the array position, because the order of equal levels depends on
  it.

## 3. What is checked

| Run | Question and result |
|---|---|
| `try_withdrawal` | Three concurrent calls, two requests, two days. `LockedIsHeld`, `FundsConserved`, `LedgerExplainsAvailable`, `LedgerMatchesStatus`, `RefundIsCancellation` hold, every call returns, and the service implements `FundsReservation`. |
| `approve_race` | `ApprovedIsHeld` is **violated**: an approval that read PENDING overwrites a cancellation. |
| `daily_limit` | `DailyLimitHolds` is **violated**: the count is taken outside the transaction that inserts. |
| `crypto` | Two concurrent calls, two requests, failures and crashes anywhere, a node configured or not. Up to the first write that rests on an overtaken read, whatever calls interleave: `LockedIsHeld`, `FundsConserved`, a withdrawal holds its funds exactly while it is under way (`OpenIsHeld`), the ledger's sum is short of the balance by exactly the completed withdrawals (`LedgerCountsPaidTwice`), and every step is one of the abstract reservation (`ImplementsReservation`). After such a write too: what is booked as paid was sent, where there is a node to send it to (`PaidIsSent`), and while calls are under way one of them can go on, although locks are taken in opposite orders (`SomeCallGoesOn`). |
| `cancel_race` | `CancelledIsNotSent` is **violated**: a cancellation and the processing of one request pass each other. |
| `auth` | One account, one second factor, one rate limited key, one count of withdrawal codes; up to two calls at a time. `AuthTypeOK`: the types, one row per backup code, and unused codes of one setup only. `RevokedIsRefused`: the auth service does not serve a revoked token. `SessionsAreRevoked`: logins leave at most one live session per concurrent call, and none is left after a logout or a reset. `RowIsHistory`: password, verification, count and lock are what happened to them. `GuessesBounded`, `PassedOnce`: a race adds one guess, or one more passing of a login challenge, per concurrent call and no more, and a lockout ends. `LimitsHold`: no window lets more than its limit through. |
| `backup_code` | `BackupCodesAreSingleUse` is **violated**: two logins, one after the other, take the same backup code. |
| `platform` | Seven parts. *Deposits* (two transactions, one announced twice, two calls): `NoEarlyCredit`, `LedgerExplainsBalance` (even when both calls find no wallet row), `CreditedIsPaid`. *Cache*: `ServedIsRecent`. *Bank accounts*: `PendingHasAccount`, but for one race, which it names. *KYC*: `SubmissionsAreSound`. *Addresses*: `AddressHasOneOwner`, although two calls read one maximum. *Hot wallets*: `SentIsOwed`. *Client*: `SpinnersEnd`, `SignedInIsStored`. |
| `double_credit` | `CreditedOnce` is **violated**: two webhooks pass the CREDITED check before either credits. |
| `never_credited` | `ConfirmedIsCredited` is **violated** although nothing fails: the only event comes before the confirmations do, and nothing looks again. |
| `matching` | Any five orders of eight kinds with cancellations in between: `RestingIsBooked`, `NeverOverfilled`, `PriceTimePriority`, `NothingLeftToMatch` hold and matching ends. |
| `cancelled_trades` | `CancelledNeverTrades` is **violated**: a stale level makes the book lose the map entry of a newer one, and an order cancelled in that level trades later. |

The violations are described with their lines and the sentences they contradict in
`PROJECT.json` under `findings`.

*Overtaken writes.* Only the creation of a crypto withdrawal reads the wallet under its
lock. Every other transaction of these services reads wallet and request plainly and
writes back what it computed, so that two of them can lose an update; `cancel_race` shows
one such behaviour. The properties of the funds therefore say how far the code can be
relied on: calls may overlap, wait for each other, fail and die in any order, and until a
write changes a row that is not as its call read it, nothing is wrong, and it takes such a
write for a step to depart from the reservation. They say nothing of the time after it;
`overtaken` marks the very commits and saves that a lock, or a condition on the status in
the UPDATE, would exclude. `PaidIsSent` and `SomeCallGoesOn` hold there too. That is the
difference between the two withdrawal services: the TRY one reads under the lock, and its
properties have no such condition (but for approvals, `approve_race`).

*The sum of the ledger.* `calculateBalanceFromLedger` (`ledger/ledger.service.ts:140`)
adds up all entries, and its comment and the wallet service's documentation call that
the balance. A completed withdrawal is in the ledger twice, by the entry of its lock and
again by that of its completion (`withdrawal-processing.service.ts:218-231`). So the sum
is not the balance as soon as one withdrawal is completed. `LedgerCountsPaidTwice`
states over all entries what the sum is: the available balance less every completed
withdrawal. That it holds refutes the comment, in every state with a completed
withdrawal.

`PriceTimePriority` and `NothingLeftToMatch` are weaker after a cancellation, and
deliberately so: price priority always holds; age decides between orders of one price
only while no order has been cancelled, since duplicates of a price level may then be in
the heap in any order; and a market order may stop in front of a stale level.
Fill-or-kill is not stated as a property because the code does not have it (a market
order keeps its trades, a limit order that was filled in part rests).

### Bounds, and why they are enough

- *TRY withdrawal*: three calls are the least at which one waits for a lock while the
  holder and a third call change what it will read; two requests are the least at which
  sums differ from single rows. Amounts lie on both sides of the limits, and the balance
  is such that after one request another is covered without its fee. A daily limit of 1
  and a second day make the limit and its reset happen.
- *Crypto withdrawal*: two calls are what it takes for one to come between another's
  read and write, and for the lock conflict between a request and the wallet; two
  requests, so that one call changes the wallet another has read for a different request;
  two tries, so that an answer is lost and the attempt repeated. One amount is below and
  one at the admin threshold. The balance of 31 covers two of the small one or one of the
  large one with the fee of 1, and after a small one the large one only without its fee.
- *Crypto deposit*: one confirmation stands for all required ones (the code compares
  with a threshold, and deliveries come before, at and after it); two calls, two
  transactions of different amounts, up to two deliveries of one.
- *Auth*: two passwords, two attempts before the lock, lives of one tick, so that every
  expiry can pass within `MaxTime` = 2; four or five requests, alone or two at a time,
  from five menus (registration, sessions, concurrent resets, all of it alone, with a
  second factor). The 30 days of a reset's cut-off (`Month` = 9) do not pass within the
  bound, as they outlive every token. Two calls at a time are what it takes for one to
  come between another's read and write.
- *Second factor*: one backup code, two failed attempts; five requests of setups, logins
  and verifications, four where the factor is set up already, alone and two at a time
  (one setup verified by two calls at once, a login and its verification: a code is used
  across a setup). In `backup_code` four requests, alone: two logins and their
  verifications. *Rate limiter*: a limit and a window of 2, five requests in four ticks,
  so that windows overlap and the limit is passed in more than one. *Withdrawal codes*:
  two attempts, windows of one tick in four.
- *Cache*: entries live two ticks of four and a read takes up to one; four requests
  alone, three two at a time: a read around a commit and a read after it.
- *Bank accounts*: two IBANs, five requests (four when three run at a time), the least
  for account, deposit, removal and a second account. *KYC*: a valid and an invalid
  number, at most three submissions, the scanner working, switched off and skipped; the
  checksum's property tries every digit of the valid number. *Addresses*: two users, two
  calls at a time, four in all: a race and one address after it.
- *Hot wallets*: two withdrawals, amounts on both sides of the limits and of the USDT
  unit, three tries, and four deployments: complete, USDT with the key of ETH, without a
  provider, and with only ETH's key.
- *Client*: two accounts; three or four requests; one tab for the flags of the pages,
  two tabs for localStorage; each API mocked and real.
- *Matching engine*: two prices and quantities 1 and 2 give better and worse levels,
  partial and complete fills; five orders suffice for a stale level, a new one at its
  price, and a taker (the violation needs four).

`CHECK_DEADLOCK FALSE` is set where the system may rest: when the bounded number of
requests are all in final states (or left half-way by a crash, which nothing resumes),
when all events are delivered, when no order may be placed and none rests. The TRY runs
check deadlock: a call can always begin there.

### Properties that hold with one call at a time

`RowIsHistory` and the second halves of `SessionsAreRevoked` and `ServedIsRecent` say
something of scenarios in which requests follow each other only. With two at a time they
are false, and nothing in the repository promises otherwise: `userRepository.save`
writes back every column as it was read, so a login that fails during a password reset
brings the old password hash back; a login that is under way when a logout or a reset
revokes the sessions adds its own afterwards; a read that missed the cache may store
what it found before a commit's invalidation. The hazards in `PROJECT.json` list these
races, and the first halves of the properties bound what they can do.

### What the models show of the code besides

Reading for the models settled some questions that no property states:

- A login with a second factor is answered without `user`; `authSlice` throws on it, and
  the spinner of the login page stays (`SpinnersEnd` leaves it out). No page renders the
  modal that would verify the factor, nor the logout button. `registerUser` sends an
  e-mail address and a password only, which the real API refuses for the missing
  consents.
- The wallet service's 2FA client sends `{userId, code}` and expects `valid`; the auth
  service's endpoint takes a challenge token and answers with tokens. Its KYC check
  expects `submissionId`, and the auth service answers `id`. Both fail against this auth
  service, and are modelled as answers of an external one.
- `blacklistAllUserTokens` stores a date 30 days ahead as the date before which tokens are
  invalid (`auth/services/token-blacklist.service.ts:103`). After a confirmed password
  reset, the tokens of later logins are therefore refused too, for 30 days.
  `RevokedIsRefused` is about the other direction, that no old token is served.
- The wallet service has a JWT strategy of its own
  (`common/strategies/jwt.strategy.ts:36-47`), which checks signature and expiry and never
  asks for the blacklist. It serves a token that was logged out, or revoked by a password
  reset, until the token expires. `RevokedIsRefused` is about the auth service's guard
  and says nothing of the wallet service.
- The 2FA controllers read `sub` or `id` of a request's user, where the JWT strategy
  puts `userId`; `TwoFactor` is about the service behind them.
- `processWithdrawal` and `finalizeWithdrawal` are called by no controller, nothing
  reviews a KYC submission, and `approveDeposit` credits nothing; their callers are
  external in the models.

### Fairness

- TRY withdrawals: strong fairness of `Proceed(c)` for each call. The event loop resumes
  a call whose await is settled; 2FA requests have a timeout; PostgreSQL queues waiters
  for a row lock, so a lock freed again and again is granted. No fairness of `Fail`: calls
  return without the help of a failure. Nothing obliges users to call.
- Crypto withdrawals: none. `SomeCallGoesOn` is a safety property: in every reachable
  state with a call under way some `Proceed(c)` is enabled, without the help of `Fail`.
  PostgreSQL aborts one of two transactions in a deadlock (`DeadlockVictim`).
- Deposits: `ConfirmedIsCredited` is checked under `FairNoFailure`, where nothing fails
  at all, blocks are found and events delivered, so the counterexample is not a
  failure's fault.
- Matching: weak fairness of the running call.
- Auth and platform: none. Their properties are safety properties; a client, a Redis or
  an MKS that never answers is a behaviour like any other.

## 4. What is proved

For every number of calls, requests, users, tokens, tabs, orders, prices, amounts and
times, and every menu of requests:

| Theorem | Statement |
|---|---|
| `FundsReservationProofs!ReservationIsSound` | the abstract reservation keeps: locked = what is held, nothing negative, nothing lost |
| `TryWithdrawalProofs!TypeCorrect` | `TryWithdrawal` keeps its type invariant |
| `TryWithdrawalProofs!ServiceImplementsReservation` | `TryWithdrawal` implements `FundsReservation` |
| `TryWithdrawalProofs!FundsAreSafe`, `FundsAreConserved` | `LockedIsHeld` and `FundsConserved` |
| `TryWithdrawalProofs!LedgerIsBalance`, `StatusIsInLedger` | `LedgerExplainsAvailable` and `LedgerMatchesStatus` |
| `TryWithdrawalProofs!RefundOnlyByCancellation` | `RefundIsCancellation` |
| `CryptoWithdrawalProofs!TypeCorrect`, `PaidWasSent` | `TypeOK` and `PaidIsSent`, with any number of concurrent calls |
| `CryptoWithdrawalProofs!ImplementsUntilOvertaken` | every step of `CryptoWithdrawal` is a step of `FundsReservation`, or follows or makes an overtaken write |
| `CryptoWithdrawalProofs!FundsAreSafe`, `FundsAreConserved`, `LedgerIsShort`, `OpenHoldsFunds` | `LockedIsHeld`, `FundsConserved`, `LedgerCountsPaidTwice` and `OpenIsHeld`, with any number of concurrent calls |
| `CryptoDepositProofs!TypeCorrect` | `CryptoDeposit` keeps its type invariant |
| `CryptoDepositProofs!NothingIsCreditedEarly` | `NoEarlyCredit` |
| `CryptoDepositProofs!NoCreditIsLost` | `LedgerExplainsBalance` |
| `CryptoDepositProofs!CreditedWasPaid` | `CreditedIsPaid` |
| `PlatformProofs!TypesAreKept` | `PlatformTypeOK`: every part keeps its types, and no two rows share an address or an IBAN |
| `PlatformProofs!BalancesAreRecent` | `ServedIsRecent` |
| `PlatformProofs!PendingKeepsAccount` | `PendingHasAccount` |
| `PlatformProofs!SubmissionsStaySound` | `SubmissionsAreSound`, the checksum of KYC's numbers included |
| `PlatformProofs!AddressesAreOwned` | `AddressHasOneOwner` |
| `PlatformProofs!WhatIsSentIsOwed` | `SentIsOwed` |
| `PlatformProofs!SpinnersStop`, `SessionsAgree` | `SpinnersEnd` and `SignedInIsStored` |
| `AuthProofs!AuthTypesAreKept` | `AuthTypeOK` |
| `AuthProofs!RevokedStaysRevoked` | `RevokedIsRefused` |
| `AuthProofs!SessionsAreEnded` | `SessionsAreRevoked` |
| `AuthProofs!RowTellsHistory` | `RowIsHistory` |
| `AuthProofs!GuessesAreBounded`, `ChallengesPassOnce` | `GuessesBounded` and `PassedOnce` |
| `AuthProofs!LimitsAreKept` | `LimitsHold` |
| `MatchingEngineProofs!HeapPushKeeps`, `HeapPopKeeps` | `heap.Push` and `heap.Pop`, on arrays of any length, keep the elements and the order of the heap |
| `MatchingEngineProofs!BookStaysSound` | the book keeps `BookInv`: queues, map and heaps agree as far as they do |
| `MatchingEngineProofs!EngineTypes` | `TypeOK` |
| `MatchingEngineProofs!RestingStaysBooked` | `RestingIsBooked` |
| `MatchingEngineProofs!NothingIsOverfilled` | `NeverOverfilled` |
| `MatchingEngineProofs!PriceThenTime` | `PriceTimePriority` |
| `MatchingEngineProofs!MatchingIsExhaustive` | `NothingLeftToMatch` |

*Assumptions.* Each module that declares constants names what it assumes of them, and
TLC evaluates it in the runs: `TryAssumption`, `CryptoAssumption`, `DepositAssumption`,
`AuthAssumption`, `FactorAssumption`, `RateAssumption`, `WithdrawalAssumption`,
`CacheAssumption`, `FiatAssumption` and `HotWalletAssumption` say that the numbers among
the constants are naturals (those that count something, positive), that a "none" is not
a value, and that the USDT contract's unit is not above the smallest amount;
`ScenarioAssumption` that the calls are a finite set and that an account starts with a
password; `KycAssumption` that identity numbers are typed as digits, in any number;
`AddressAssumption` and `ClientAssumption` that there is a user and an account;
`EngineAssumption` what `validateOrder` lets pass: prices and quantities are positive,
and exactly the market orders have no price.

*TRY withdrawal.* The invariants are not inductive: a commit writes what the call read
earlier. `IInv` adds the reason why this is safe: `WalletLockOK`, a call is between its
`SELECT FOR UPDATE` and its commit exactly when it holds the wallet's lock, and what it
read is then still what the row holds; `RequestLockOK`, the same for request rows, whose
status is PENDING under a cancellation's lock; `AskedOK`, amounts in flight passed
validation; `RowOK`, how rows and ledger entries go together. `NextIInv` has a step per
action. With it each commit is a step of `FundsReservation` and every other action a
stutter, and the funds invariants are those of the abstract module, brought back through
the refinement mapping. `StatusIsInLedger` needs one more conjunct, that entries of one
kind and request are one entry, which is inductive given `RowOK`.

*Crypto withdrawal.* All of it is for any number of concurrent calls. `IInv` says that,
where a node is configured, a call past its broadcast works on a request whose
transaction the network has, which is all that `PaidIsSent` needs: no lock, and no
status, is behind it. The funds need three more invariants. `ReadsInv` is about what
calls have read: a creation that is to reserve holds the lock of the wallet and has read
what it holds, and every call on a request takes it to be under way. `RowsInv`, while
nothing is `overtaken`: a row has its lock entry, and is under way exactly until it has
an entry of its end. A commit then either finds request and wallet as its call has read
them, and so ends a request that still holds its funds, or sets `overtaken`; in the
first case it is a step of `FundsReservation`, and every other action is a stutter.
`SoundInv` brings the invariant of the abstract module back through the refinement
mapping, `LedgerExact` adds the sum of the ledger. A failure may leave a request under
way for ever, and never half a reservation.

*Crypto deposit.* What a call remembers is about the record it works on and was true
when it was read; since a block never takes confirmations away, it is still a lower
bound. A call on its way to the credit has seen enough of them (`CallsOK`). The wallet's
lock is held by the one call that has a row to write back, so its sum is the ledger's.
Rows with status CONFIRMED or CREDITED are true of the chain, and CREDITED ones of the
ledger (`RecordsOK`).

*Platform.* The parts share no variable but `part`, so a step of the platform is a step
of each part or leaves it alone (`PartSteps`), and each part has an inductive invariant
of its own.

- *Deposit addresses* (`AddressesIInv`): rows are unique by address, the call that
  registers a webhook has inserted its row, and what was shown or recorded comes from a
  row. How the index was chosen does not matter: the unique column alone carries the
  proof, which is what the code relies on in a race.
- *Bank accounts* (`FiatIInv`): while no removal has overlapped a creation, pending
  deposits and calls about to insert one have their account, and a call about to remove
  an account has seen no pending deposit of it.
- *Cache* (`CacheIInv`): a version that a key holds, or that a call is about to store,
  was still the balance when it was read, and what a key holds expires one lifetime
  later at most. With one request at a time, what is cached is as new as the last change
  that was invalidated.
- *KYC* (`KycIInv`): the files of a submission that a call has passed are scanned and
  stored, and a submission under way counts as the PENDING row it may become. That the
  checksum notices one wrong digit (`DigitsAreChecked`) is arithmetic on eleven digits.
- *Hot wallets* (`HotIInv`): a signed transaction pays what was asked for less the
  rounding, and hashes of two withdrawals that name transactions name different ones,
  because the network refuses what it has seen.
- *Client* (`ClientIInv`): a flag is up only while the tab has an operation in flight
  that lowers it. One lemma about the reducers and one about the pages serve all
  actions.

*Auth.* `AuthIInv` has a conjunct per part.

- *Tokens* (`TokensIInv`): a dead token is on the blacklist, before the user's cut-off,
  or expired; token identifiers are unique, and the tokens of logins in progress are of
  no earlier one; a call that carries a dead token will be refused by a check it has yet
  to make, or Redis has failed it; a logout that has answered has listed its token.
- *Account* (`AccountIInv`): a login that has deleted the sessions counts as the session
  it will insert. With one request at a time, a logout has found all that is live, and
  the row that a call will save is the row as it is but for what the call is about.
- *Second factor* (`FactorIInv`): a call past the lock check counts as the wrong guess
  it may add; one that has a challenge as the passing it may come to. A challenge that
  was passed is not the current one any more. A code that is saved as used replaces its
  row or adds one that is used, so unused codes stay those of one setup.
- *Withdrawal codes* (`WithdrawalIInv`): likewise, a call that waits for the auth
  service's answer counts as the wrong code it may be.
- *Rate limiter* (`RateIInv`): every entry of the current window is in the sorted set
  until it leaves the window, so what a pipeline counts after its own addition is at
  least what the window will have let through.

*Matching engine* (`BookInv`). The heaps come first. A Push or a Pop is an iteration of
rounds; while an element rises, the heap is in order but for that element and its
parent, while it sinks, but for it and its children, and in both cases the elements
around the gap are in order with each other. Every round that changes something at least
halves or doubles the position, so the rounds suffice. That an iteration exists, keeps
such an invariant and comes to rest is proved by the least counterexample.

The book is harder, because its three structures do *not* always agree: `RemoveOrder`
takes an emptied level out of the map and leaves it in the heap (section 3), so a heap
may hold two levels of one price. The invariant says what is still true:

- `HeapsOK`: a heap holds a level once, is in order, and shares no level with the other
  side's; `MapOK`: the map leads to a level of that price which one of the heaps holds.
- `QueuesOK`: a level's queue is in order of arrival; who waits there has this price and
  side and something left to trade, and waits nowhere else. `RestingOK`: who is listed
  waits somewhere.
- `FillOK`, `FinishOK` and `CallOK` say where a call is. `FinishOK` carries the most:
  when matching has ended, no level of the other side has an acceptable price. So the
  level that the map gives for the rest of the order is one of the order's own side
  (`OwnLevel`), which `AddOrder` does not check.
- `CleanOK`: before the first cancellation the map knows every level of the heaps, and
  no level is empty but the one being emptied; after it, some cancelled order is out of
  the book for good. The "until one is cancelled" parts of `PriceTimePriority` and
  `NothingLeftToMatch` rest on this.

The two action properties are then read off a `Fill` and a `Finish` in a state with
`BookInv`: the root of a heap has the least rank (`FirstIsLeast`), the head of a queue
the least number. Before it was proved, TLC found `BookInv` to hold on four orders.

Sums are `RunningTotal`'s, a recursive function. What the proofs need of it
(`TotalUpdate`, `TotalExtend`, `TotalBounds`, ...) is proved in `RunningTotalProofs`
from the existence and uniqueness of the running total, by the least counterexample
rather than by an induction rule.

*Only model-checked*: everything about fairness and liveness, which is outside TLAPS's
reach here (`EveryCallReturns` of the TRY service, `EveryOrderIsAnswered`),
`SomeCallGoesOn`, which is stated with ENABLED, and the counterexamples of the runs that
look for one.

## 5. What is left out, and why

- Amounts are integers in the smallest unit; decimal columns and `number` arithmetic are
  exact at the sizes used. One user, one wallet and one address per model where no
  handler relates two users; different currencies share no rows. Fees are a constant (in
  the code they depend on the network, not on the state).
- `ledger_entries.balance_before/after` are modelled for TRY as the code computes them,
  and no property is about them: a refund's `balanceAfter` adds the sum to a total that
  already has it (`withdrawal.service.ts:273`). Crypto entries carry the sum only. The
  paged ledger queries only read.
- The cache invalidation after a commit can fail and then turns the answer into an
  error; in the withdrawal services nothing else depends on it. In `CryptoDeposit` it is
  `CreditThrows`; what a stale cache serves is `BalanceCache`'s.
- The development schema (`synchronize: true`) is assumed. The migrations allow neither
  the status CANCELLED of a TRY request (`006_create_wallet_tables.sql:223`) nor the
  crypto services' ledger types (`:72`).
- What `CryptoWithdrawal` signs and sends is looked at in `HotWallet`. It knows no
  credits: deposits and withdrawals on one wallet row are not composed. The bound
  `MaxRequests` is kept by `BeginCreate`, which counts creations in flight.
- A transaction that pays two addresses of the platform is recorded for one of them,
  since records are looked up by hash alone; `CryptoDeposit` has one address. BIP-32
  derivation is an injective function of chain and index.
- The matching engine is called one call at a time: the architecture document asks for
  "Single goroutine per symbol", `main.go` does not place orders yet, and two concurrent
  calls on one symbol are a data race, after which nothing can be said. Order ids are
  unique (they are UUIDs). Invalid and STOP orders are refused and leave no trace. Fees,
  depth, statistics and the last price are left out.
- The status of an account is always ACTIVE, because nothing in the repository writes
  another; the branches that refuse other states are not reachable and have no action.
- RabbitMQ, e-mail templates and transport, notifications, the object storage's own
  state, blockchain status queries and the entries of the whitelist have no state that a
  property could relate to the rest. What a mail carries (a token) is part of
  `AuthService`.
- In the client: rendering, form validation, and components that no page renders. In the
  schema and deployment: the constraints the code relies on are part of the modules that
  use them; the rest is configuration.

## 6. Plan

Done, in this order: `RunningTotal`, `FundsReservation`, `TryWithdrawal` with proofs;
`CryptoWithdrawal`; `CryptoDeposit`; `BinaryHeap`, `MatchingEngine`; `AuthService`,
`TwoFactor`, `RateLimiter`, `WithdrawalTwoFactor`; `BalanceCache`, `FiatDeposit`, `Kyc`,
`DepositAddress`, `HotWallet`, `WebClient`; the proofs of `CryptoDeposit`,
`CryptoWithdrawal`, `Platform`, `Auth` and `MatchingEngine`.

Left, most important first:

1. Deposits and withdrawals composed on one wallet row, against `FundsReservation` with
   credits: a credit that falls between the plain read and the save of a crypto
   cancellation is lost.
2. An abstract specification of the tokens that may be used, and `AuthService` shown to
   implement it.
3. Two deposit addresses paid by one transaction.

## 7. Running it

    tlc -config <run>.cfg <MC module>      # the cfg and module of a run are in PROJECT.json
    tlapm TryWithdrawalProofs.tla          # likewise the other *Proofs modules
