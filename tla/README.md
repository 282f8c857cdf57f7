# A verification of SpendSense

TLA+ models of SpendSense: its backend (`src/backend`, a NestJS application on one PostgreSQL
database) and the pages of its frontend (`src/frontend`) whose state races the server. TLC checks
small instances. TLAPS proves for instances of any size every safety property and refinement that the
passing runs check; what is left to TLC alone is liveness.

## 1. The system

| Component | State it keeps | Operations | Interacts with | What is hard, and what makes it correct |
| --- | --- | --- | --- | --- |
| Payment contributions (`payments/payment-contributions.service.ts`) | `PaymentContribution`, the balance and status of `PaymentOccurrence` | create (with idempotency key), list, void | receipts, credit score, rewards, badges, inside one transaction | Retries, concurrent posts and voids, rows read before their lock. Balance within the amount due and backed by contributions; status agrees with balance; settlement effects when settled |
| Legacy and one-off payments (`payments/payments.service.ts`) | `PaymentRecord`, occurrence status | `logPayment`, `createOneOffPayment` | contributions, obligations, rewards | Validation outside the transaction that writes. Settled once |
| Occurrence transitions (`payment-occurrences`) | occurrence status, `overdueAt` | overdue pass, missed pass, reads | scheduler, credit score | Lists that are stale when used, overlapping runs, restarts. Nobody missed before the grace period; everything past due noticed |
| Receipts (`receipts`) | `ReceiptScan` | scan (OCR), confirm, expire | contributions, OCR service | One scan, one contribution |
| Obligations (`obligations`) | `FinancialObligation`, `PaymentSchedule`, future occurrences | create, update and regenerate, archive | occurrences, reminders | Regenerations and archives that take no common lock, cancelling what is being paid. Each closes what it could see |
| Reminders (`reminders`) | `Reminder`, the notifications of them | send due ones | obligations, scheduler | Lists that are stale, runs that overlap or crash. Sent, once |
| Scheduler (`scheduler`) | only in memory: the lists of a run | cron each minute, `POST /scheduler/run` | transitions, reminders, wagers, mascot mood | One failure ends a run; runs overlap |
| Wagers (`wagers`, and the resolution in `scheduler`) | `Wager` | create, accept, decline, cancel, expire, resolve | friends, rewards, accounts | Races for one wager, half-done transfers, crossed locks. Coins conserved, one end per wager, every wager ends |
| Rewards (`rewards`) | `GamificationProfile`, `RewardTransaction` | grant, spend and adjust coins, XP, streaks, mood | payments, quiz, wagers, cosmetics, simulation | Guarded decrement for coins, read-then-write for XP and streaks. The balance is the sum of the ledger |
| Cosmetics (`cosmetics`) | `UserInventoryItem` | purchase, equip, unequip | rewards | Statements that lock different rows. Sold once, one item per slot |
| Badges (`gamification`) | `UserBadge` | award | rewards | Awarded beside the settlement, once |
| Credit score (`credit-score`) | `CreditProfile`, `CreditScoreEvent` | recalculate after payments, overdue and missed passes | occurrences, budget | A formula with caps by windows of days; concurrent recalculations. It explains itself and moves the right way |
| Quiz (`quiz`) | `QuizSession`, answers | daily, create or resume, answer, settle | rewards, badges, its page | Concurrent answers, lost replies, the day of a streak. Finished when all is answered rightly, paid once |
| Friends (`friends`) | `FriendRequest`, `Friendship` | request, accept, reject, cancel, remove | wagers, leaderboard, its pages | Crossing requests, two rows per friendship. Both rows or none |
| Simulation (`simulations`) | `SimulationSession` with its bills, events and score entries | create, set up, poll, pay, decide, continue, advance, pause, resume, discard | rewards, the board | A clock that catches up when asked, requests that read before they lock. One question at a time, score and money explained, the month ends |
| Users (`users`) | `User` | find or create, deactivate, delete, export | everything, through foreign keys | First sign-in twice; deletion over all tables |
| Pages of the frontend | copies of server rows, idempotency keys, requests under way | load, mutate, poll, retry | the services above | Answers out of order or lost. A page shows what its user was told is done; a retry does not do it twice |
| Guidance (`guidance`, and its provider in the frontend) | `GuidanceState`: switches, the tour, the tips hidden today | read, patch; show a choice at once and save it, retry, guide the tour over the pages | session, routes | Choices shown before they are saved, answers late or lost, midnight, changes of account. The page shows what the account has, the account what was chosen |
| Notifications, insights, dashboard, wrapped, categories, health | derived rows, reads | | | No state another component decides on |
| Scenario builder (`simulations/simulation-scenario-builder.ts`, seeded catalogue) | templates | draw a month | simulation | Random choices under constraints that depend on each other. Every month can be built and paid |
| OCR (`src/ai`) | none | | | |

`PROJECT.json` lists every component with its status, and every place of the code that is hard to
test, with the properties that watch it.

All state is in PostgreSQL, at READ COMMITTED. A statement sees what is committed when it starts;
an `UPDATE ... WHERE` waits for the lock of a row and evaluates its condition again. This makes
three shapes of handler, and the models use them throughout:

- a transaction that starts by locking the row it is about is **one action**;
- a handler that reads first and locks or writes later is **two actions**, with what it read kept
  in between (`VoidRead`/`VoidCommit`, `LogRead`/`LogCommit`, `AdvanceRead`/`AdvanceCommit`, the
  lists of a scheduler run, the submissions of a quiz, the recalculations of the credit score);
- a transaction that updates several rows others update in another order is modelled **statement
  by statement**, with its locks (`Wagers`, `Friends`, `Rewards`); so is one whose first update may set
  nothing, because Prisma sends no `UPDATE` for empty data and no row is locked (`Obligations`).

An exception rolls a transaction back, so a refused request is an action that is not enabled, or one
that only forgets what it had read. A page is modelled as what it remembers, the requests it has under
way, and the answers it may get in any order, late or never.

## 2. Modules

| Module | Models | Role |
| --- | --- | --- |
| `Payments` | contributions, voids, `logPayment`, one-off payments, scans, cancellation, the overdue and missed passes | state machine |
| `PaymentsProps`, `ContributionLedger` | | its properties; what the contribution API promises of money |
| `PayDesk`, `PayDeskProps` | the payment form, the scan page and the review of a receipt, over `Payments` | pages over a service; their properties |
| `Wagers`, `WagersProps`, `WagerBook` | wager requests, resolution, coin primitives, row locks, deadlocks, account closure | state machine; properties; the wager as its players see it |
| `Friends`, `FriendBook` | requests and friendships, statement by statement | state machine; the friendships users see |
| `Social`, `SocialProps` | the pages of friends, requests and leaderboard, over `Friends` | pages over a service; properties of both |
| `Rewards`, `RewardsProps` | coins, XP, streaks, badges, the shop, mood decay | state machine; properties |
| `CreditScore`, `CreditScoreProps` | the formula, and the transactions that recalculate it | algorithm and state machine; properties |
| `Quiz`, `QuizPage`, `QuizProps` | quizzes, their settlement and streak; the page that plays one | state machine; page over a service; properties |
| `Obligations`, `ObligationsProps` | first sign-in and deletion, obligations with their schedules, reminders, the scheduler pass over them | state machine; properties |
| `SimulationCatalogue`, `Scenario` | the seeded catalogue; how a month is drawn from it | data; state machine with its property |
| `Simulation`, `SimulationProps`, `SimulationMonth` | one session: the day transition and every request on it | state machine; properties; the month as its player sees it |
| `MonthBoard`, `BoardProps` | the board of a month, its commands and their keys | page over a service; properties |
| `Guidance`, `GuidanceProps` | the row of a user's guidance, and the provider around the pages | service and page; properties |
| `PaymentsProofs`, `PayDeskProofs`, `WagersProofs`, `ObligationsProofs` | | TLAPS proofs about the module of that name and its properties |
| `PagesProofs` | | TLAPS proofs about `Friends`, `Social`, `Guidance` and `MCPages` |
| `ProfilesProofs` | | TLAPS proofs about `Rewards`, `CreditScore`, `Quiz`, `QuizPage` and `MCProfiles` |
| `MonthsProofs` | | TLAPS proofs about `MonthBoard`, `Simulation`, `Scenario` and `MCMonths` |
| `SumTheorems` | | sums over finite sets, for the proofs about ledgers |
| `MCPayments`, `MCWagers`, `MCSimulation`, `MCObligations` | | constants for TLC, shared by the `.cfg` files of the family |
| `MCPages`, `MCProfiles`, `MCMonths` | | features that share no rows, checked in one run |

`MCPages` (`Social`, `PayDesk` and `Guidance`), `MCProfiles` (`Rewards`, `CreditScore` and `QuizPage`) and
`MCMonths` (`Scenario`, `Simulation` and `MonthBoard`) put features beside each other that touch no
common rows: a behaviour is of one of them and the others stay as they begin, so the run explores
each and not their product. Where features do share rows they are one module or one extends the
other: settlements and the shop share the profile (`Rewards`), pages share the service they call.

Where a module keeps a definition beside one of the same name with a suffix (`AmountFits` and
`AmountFitsBefore`), the second is a plausible wrong version that nothing uses: putting it in place
of the first must make a property fail, which shows that the property watches that code.

### Payments

Variables are the columns the handlers read: `status`, `amountPaid`, `overdueAt` by occurrence;
`row`, the contribution of each idempotency key; `scan`; `records`, the occurrences with a legacy
record; and `settledBy`, the sources of the payment events of an occurrence, which stand for
everything `runSettlementEffects` does (event, score, coins, XP, streak, badges, notification), because all of
it happens once per call and in the same transaction. `voiding` and `logging` are what requests have
read; `run` is the phase, clock reading and list of each scheduler run.

One key is one distinct request. A retry with the key of an existing contribution is answered by
`getIdempotentReplay` without a write, so it is the absence of a step. Amounts are small integers in
place of decimals with two places: the code compares exact decimals, and only order and sums matter.
`DueAt[o] < now` is the comparison the scheduler and the void make; whether a payment is late
compares the user's paid date, which is free, so `late` is free as well. `CreateContribution` is one
action although it looks up key and scan before it locks the occurrence: unique indexes on the key
and on `receiptScanId` and the conditional `consumeReceiptScan` decide the race.

### The pages that pay

`PayDesk` extends `Payments` with one page at a time: `OpenForm` (`PaymentForm`) or `ScanReceipt` and
`OpenReview` (`ReceiptScanPage`, `ReceiptReviewPage`). `AddPayment` and `ConfirmPayment` are presses
of the button: guard, key (drawn, or kept in `attempt` for the same amount and date), request. A
request in `send` is served by the action of `Payments` it asks for (`ServeContribution`,
`ServeConfirm`, `ServeNew`), or answered from its key (`Replayed`), at any time, also after its
answer was given up (`GiveUp`) or its page left (`LeavePage`). `TakeOutcome` is the page's treatment
of an answer, success or a refusal that may reload the balance; `GiveUp` that of none. A page that pays a bill then keeps the
attempt and says that it could not confirm it; of something new it says what it says of a refusal. `denied` has
every payment a page said was not made, and `lost` those of them it had no answer about. `MeanwhileStep` is what others
do to the bill: payments from elsewhere, voids, cancellation, scheduler passes.

### Wagers

A transaction is the list of rows it has locked so far; its writes take effect in the action that
commits, so the variables are always the committed rows. `Claim` is the conditional update every
request begins with; `Refused` is a claim or spend that matches no row. `Deadlocked` finds a cycle of
waiting transactions, of which PostgreSQL aborts one (`Victim`). `Crash` loses a transaction or a run.
`net` sums the reward transactions of each wager by side, `other` those of everything else. Which
of a wager's tasks is fulfilled is left open (`TaskResults`) except for closed accounts, which the
code decides without looking at payments. `WagerBook` keeps the three ways in which an invitation
closes apart, so the refinement also says that a wager that was declined is not cancelled or expired afterwards.

### Friends and their pages

`Friends` has the calls of `FriendsService` in their steps: what a call checked before its
transaction, the claim of the request, and the two rows of a friendship, one after the other, with the
uncommitted one in `holder`. Users may close or delete their account between any two steps.
`FriendBook` is what users see; `ImplementsFriendBook` says that every commit is one of its steps.
`Social` is one user's pages: the hooks that are mounted, their numbered loads, the answers that
apply only to the newest number, and the mutations whose success invalidates what is shown
(`invalidateSocial`). `version` counts the changes of what a resource lists, so that "shows at least
what I did" is a comparison of numbers.

### Profile, shop and quiz

In `Rewards` a transaction is a record of what it has read of the profile and which rows it has
locked: `settleAction` with coins takes the lock before it reads, without coins after. Purchases
insert, spend and commit; equips update two sets of rows. The decay of moods has the list of a run.
`Quiz` keeps, for a submission under way, what it read of the session; `Queue` is
`getNextQuestionId`, with wrong answers requeued; `Streak` the knowledge streak by days. `QuizPage`
adds the page: loading, the reply shown in a pause, the next question, leaving and coming back.

### Credit score

`Score` is `getCreditScore`: points by record, recency and priority, penalties, the budget, and the caps with
their windows, over the occurrences of one user and with the numbers of
`credit-score.constants.ts`. The transactions of `recalculateAfterPayment` and of the passes read
the occurrences they see, calculate and store. `ScoreFollowsConduct` compares the score of every
reachable state with what it would be after every possible payment or delay, on both sides of each limit.

### Obligations and reminders

`rows` is the list of occurrences of one obligation in the order of creation, with their reminder.
`Dates` is the schedule by frequency. An update or an archive has read the obligation before its
transaction (`Regenerate`, `Archive`), and then goes statement by statement (`tx`). `Begin` is the update of the
obligation, with its row lock if a field is set, and the snapshot in which `updateMany` finds open
occurrences. `RegenerateCancel` has waited for those that another transaction holds, looked at each again,
cancelled what is still open and read the highest number; `RegenerateCommit` creates the new round; `ArchiveCommit`
cancels and archives. A PATCH with `regenerateFutureOccurrences` alone reaches
`obligations.service.ts:393` with empty data and begins without the lock, so that two of them, or one and an
archive, may overlap; one
that changes only the schedule locks the schedule's row, which is among the behaviours without a lock. `round`, `after` and
`locked` of a row record this history, and `closed` what an archive could see.

A scheduler run lists reminders and then, for each, writes the notification and `SENT` in one
transaction, without a claim and without looking again (`reminders.service.ts:59`). `doubled` records that two runs have listed
one reminder, which is then sent twice. The account can be deleted and come into being again (`lives`).

### Scenario

One action per group of draws of `buildSimulationScenario`; a weighted draw is any draw, as all
weights are positive. `SimulationCatalogue` is the seeded data in rands and days. `Drawn` refuses the
month (`SIMULATION_CATALOGUE_UNAVAILABLE`) when there is nothing to draw from.

### Simulation

`session` is the row and its children. Deadlines are kept as the ticks left until they pass, from
`-MaxLag` on, which is what comparisons with the clock tell apart. `Resolve` is the transition, with
the order of the code: reward a completed month, stop at a new bill, expire a decision, stop for the
day (missed bills, then new bills, then an event, then bills that fall due), start the clock, catch
up. `MaxLag` of two ticks is two days of a board that was closed, so the catch-up loop goes round
more than once. The session is one user's; sessions share nothing but the XP they pay into. What
`Simulation` assumes of its constants is what `MonthIsPlayable` and the guards of `Scenario` establish.

### The board of a month

`MonthBoard` has a month reduced to status, day and whether a new bill waits, and around it the
commands: key kept until a press succeeds, answer recorded under the key (`SimulationAction`), replay,
commands that arrive late, answers that never come, refetches that are numbered. `unsure` and
`overtaken` name the situations in which the board may be wrong.

### Guidance

`guideRow` is the row of each account; `saves` the PATCH requests, each with what `updateState` read
before its upsert (`SaveRead`/`SaveCommit`: it writes back the tour and the hidden tips it read, but
only the switches it was asked for). The provider is `guide` (what is shown), `unsynced` and
`pendingPatch` (the notice and what its button sends again), and the tour: `tourVisible`, `tourStop`,
the route that is rendered (`path`) and the one a click asked for (`going`), which React Router renders
later than the click's other effects (`Navigate`/`Arrive`). Every action that calls `save` has
`SaveGuide` in it. `alone`, `blurred`, `strayed` and `meant` are history: the code loses choices
when saves overlap or when two of them fail, so the properties speak of the moments after an exchange
that had nothing beside it, and of what the user has chosen since.

## 3. Runs

| Run | Bounds | Question |
| --- | --- | --- |
| `payments_one` | 1 occurrence of 3 units, 2 keys, 1 scan, 2 voids, 1 legacy request, 2 scheduler runs, 1 crash, 3 instants | Do balance, contributions, status and effects agree after any interleaving? Is nobody missed early? |
| `payments_pair` | 2 occurrences of 2 units, 2 keys, 1 scan, 1 void, 1 run | Does a scan back one contribution although requests for different occurrences lock different rows? Is the contribution ledger implemented? Is every pending occurrence past its date noticed? |
| `payments_stale`, `payments_void_twice` | the smallest instances that show them | Two promises the code breaks, section 5 |
| `wagers` | 1 wager, 2 requests, 2 runs, 1 coin each, 1 earned, 1 crash, one player who may leave | Do coins reconcile? Is the wager its players see implemented? |
| `wagers_live` | 2 crossed wagers, 1 request, 1 run, 1 crash | Do stakes follow the status through deadlocks? Does every wager end? |
| `pages` | 2 users, 2 calls, one who may leave, 2 loads and 2 visits of the pages, while other calls all send or all accept; and 1 page opened to pay a bill of 2 units, 3 keys, 1 scan, 2 requests, 2 other things meanwhile; and the guidance of 1 account, 2 saves, over a tour of two pages or with a midnight and changes of the session | Are friendships as users see them, and do pages show what was done? Does a page pay once, and tell the truth? Does the guidance keep what was chosen? |
| `profiles` | 2 items of one slot, 3 transactions, two at a time; 2 occurrences and 2 recalculations; 3 days with a daily quiz, or a quiz of 2 questions on a topic, with 3 submissions, two at a time | Do coins, XP, badges and shop add up? Does the score explain itself and follow conduct? Are quizzes fair? Do moods last? |
| `household` | 2 fixed instalments: 2 requests at a time and 2 regenerations, 2 contributions to the first generation, 1 pass; or 1 request at a time and 1 regeneration, 2 runs, 1 crash | What stays open, or is numbered twice, when regenerations and archives overlap? Does every reminder go out, and once? |
| `simulation` | months drawn from the catalogue with budgets 4000 and 7000; 3 days, 3 bills, 2 events, timed and untimed, 2 two-step requests at once; and a board with 2 commands, 2 keys, 2 reads | Can every month be built and paid? Are score, money and questions right, and is the abstract month implemented? Is a command done once, and a paused board right? |
| `simulation_live` | the same month with 1 two-step request at once | Do clocks follow what the session holds for? Does a timed month end? |
| `simulation_pending` | untimed, 1 two-step request | A promise the code breaks, section 5 |

Why the bounds are enough. Handlers act on one occurrence, wager, request, session or profile and
conflict in pairs, so two of each kind of actor show the races; three units of amount tell "none,
some, most, all" apart and allow a partial payment beside one that fills the rest. The clock of
`Payments` has an instant before the due date has passed, one after it and one after the grace period.
One wager is enough for races for it; two crossed ones are what it takes to lock profiles in opposite
order. The month has a new bill and an event on one day (the first), an event that introduces a bill
due the day after, an event on the last day whose cost can exceed what is left, a bill due on the last
day, and one that is known from the start. A page that pays needs three keys: the attempt, one after
it was given up or refused, and one of somebody else. Two loads of a list are what it takes for
answers to come out of order. A save that fails, and one that is answered after it or in place of it,
are the two saves of the guidance; its tour has a page with two stops and a last one with a single stop,
so that next and back cross a page and a stop. The credit score is checked at days on both sides of its windows. Of the
budgets of a month the lowest has the tightest cap and from 6000 on the cap binds nothing; of the
trigger days the first and the last are the extremes. Requests, runs and keys are interchangeable and
are symmetry sets in the runs without liveness properties; in `pages`, where most behaviours have no
keys, a constraint keeps one order in which they are first used instead.

The two kinds of behaviour of `household` (`focus` in `MCObligations`) keep apart what does not
meet: rounds that overlap, and runs that overlap. Two contributions are in it because a number is given
twice only if all of the first generation is paid: otherwise one regeneration waits for the rows of the other.

Deadlock is checked for payments, wagers and the simulated month (`simulation_live`). In `pages`,
`profiles`, `household` and `simulation` it is not: users may stop at any time, a month that is built
is built, and the bounds run out.

## 4. Fairness

- `Payments`, `Wagers`: time passes and the cron job, which `SchedulerService` starts each minute,
  goes on to the end of a run. Nothing is assumed of users. In `Wagers` a transaction in progress
  goes on, PostgreSQL breaks deadlocks, and a step of a run that is possible again and again is
  taken (strong fairness), because waiters for a row lock are served in order.
- `WagersEnd` assumes that deadlocks do not go on for ever. A deadlock aborts a whole run, the code
  does not retry, and the next run can meet another; without the assumption TLC shows that.
- `Obligations` (`FairObligations`): time passes; the cron job begins runs and each run goes on, also past
  rows it has to wait for (strong fairness: waiters for a row lock are served in order); a transaction ends,
  as Prisma gives an interactive one five seconds. Requests need not be made.
- `Simulation`: time passes, and the board polls while `shouldPoll` (`SimulationBoard.tsx:45`) says
  so. `PollFair` is weak fairness of `Poll` at these moments. `TimedMonthEnds` assumes in addition that the player
  acknowledges results and new bills, does not pause for ever, and that the single refetch the board
  sends at a decision's deadline gets through. The server expires nothing by itself, so without the
  last assumption the property fails.
- Pages promise nothing about progress: their user may leave.

## 5. Where the code and its promises part

Each of these is a run that expects a violation.

- `payments_stale` (`SettledStaysSettled`). The overdue pass lists `PENDING` rows and later updates
  them by id alone (`payment-occurrences.service.ts:210`). An occurrence paid in between turns
  from `PAID` to `OVERDUE`, and to `MISSED` after the grace period. The user manual says that logging
  a payment stops further score damage.
- `payments_void_twice` (`BalanceIsPostedTotal`). `voidContribution` checks that the contribution is
  `POSTED` before it locks the occurrence, and not again: two voids at once take its amount off
  twice. The balance stays at or above zero and below what is posted (`PaidWithinDue`,
  `PaidBackedByPosted` hold), so the user is asked to pay again.
- `simulation_pending` (`PendingHoldsTheDay`). A manual advance asserts that nothing is pending on a
  session it has read without a lock. A payment that commits before the advance takes the lock leaves
  its result on the board, and the day passes over it.

Seen while modelling, without a run of their own. Payments and obligations:

- `logPayment` checks the status outside its transaction; a contribution that settles the occurrence
  in between makes the settlement effects run twice.
- Two scheduler runs that overlap apply an overdue transition twice: two notifications, two score
  changes, and `overdueAt` moves.
- A `PARTIALLY_PAID` occurrence never becomes overdue or missed, and one that a void makes `OVERDUE`
  has no `overdueAt` and never becomes missed. `PastDueNoticed` is therefore about pending ones.
- Regenerating fixed instalments creates `totalOccurrences` more, and regenerated rows have no reminders;
  reminders of paid or cancelled occurrences are still sent; partly paid occurrences are not cancelled.
- An update that only regenerates locks nothing (`obligations.service.ts:393` with empty data). Two at once leave two
  rounds open, since neither cancels (`:428`) what the other creates, and number theirs alike (`:453`) if
  nothing was open before. One beside an archive leaves open occurrences in an archived obligation, as does any update
  that read `deletedAt` before the archive. `EachRoundClosesTheLast` says that nothing else does.
- Two runs that list one reminder send it twice: `reminders.service.ts:59` writes without a claim.
- `addMonths` (`obligations.service.ts:604`) drifts for schedules that start on day 29 to 31 without a `dayOfMonth`.
- An identity that was deleted is created anew at its next request; two first requests race.

The pages that pay:

- `HttpExceptionFilter` (`http-exception.filter.ts:60`) answers with status, message, time and path: the
  `code` of an error (`SCAN_EXPIRED`, `OCR_BUSY`, ...) never reaches the page, so the receipt pages take their generic branch.
- A one-off payment draws a fresh key with every press (`PaymentForm.tsx:240`) and a lost answer reads
  "Unable to create the payment", as a refusal does (`:252`): the payment may have been made, and a second press makes
  a second one. On a receipt it is "Unable to record this receipt" (`ReceiptReviewPage.tsx:130`), and the second is
  refused, because the scan is consumed. `TellsTheTruth` names this exception (`lost`).
- A refusal of one copy of a request forgets the attempt although an earlier copy may still post
  (`strays`); an attempt whose balance was reloaded may be impossible to repeat until the page is left,
  because the amount is checked before the attempt.
- The same photo scanned twice is two scans, each of which can back a payment.
- The cursor of the eligible occurrences is rejected once its row is paid (`payment-queries.service.ts:82`);
  the picker of the form lists pending and overdue bills only, so partly paid ones are missing.

Wagers, friends, rewards, quiz, score:

- Deleting a player's data deletes active wagers by cascade, and the other player's stake with them.
  The deletion fails for anybody who has a contribution or receipt scan: their foreign keys
  restrict it and the service does not delete them.
- A stake of zero is accepted at creation and refused by the coin primitives at acceptance.
- Friends who part can never be friends again, as the accepted request stays and forbids a new one;
  `FriendProfilePage` says that a new request can be sent later.
- Two answers that commit at once settle a quiz twice and advance its streak twice
  (`quiz.service.spec.ts:982` expects once).
- Of two rewards at once, one without coins can overwrite the XP of the other (`stale`).
- Paying 15 to 30 days late has a cap of 680, below the 700 of an overdue bill, so paying can lower
  the score; beyond 30 days there is no cap. Going overdue can raise the score when it is the first
  record of its month. A payment later on its due day counts as one day late. Voids, the budget and
  archiving do not recalculate.
- The task `ALL_PAYMENTS_ON_TIME` looks at the legacy `PaymentRecord` only.

Guidance:

- Any answer clears the notice and the patch kept for a retry, also when another save has failed: that
  choice is lost, silently. Of two failed saves only the last is kept.
- Two saves at once lose the tour or the hidden tips of one, as `updateState` reads and writes without a
  lock. Resuming a tour from the dashboard sends two: it first follows the page that is still rendered.
- A reload that fails shows the defaults without a notice.
- An answer to a save of the account before is applied after the account has changed, and one that fails
  late is retried for the new account.
- The markers of "opened today" are cleared when the session arrives after a start of the page
  (`GuidanceProvider.tsx:70`), so the guide of the dashboard opens at every reload, not once a day as
  `GuidanceLocalDate.test.ts` has it.

The simulation:

- With two resumes in flight, the later can reactivate a month that was paused on a surprise event
  meanwhile without restoring its deadline (`ClocksFollowHold` fails with two requests, which is why
  its run has one). With two continues in flight, the later can dismiss a bill the player has not seen.
- A pause answered slowly, after the resume that followed it, leaves a board that shows `PAUSED` and
  does not poll while the month runs. A lost pause keeps its key, which later replays; a lost resume
  does the same as the slow answer. A poll slower than its five seconds is always superseded.
  A copy of a creation that arrives after the month was discarded creates another.
- The documentation of the endpoint says that a decision that comes too late commits the expiry outcome
  (`simulations.controller.ts:232`). The code throws `EVENT_DECISION_EXPIRED` and rolls it back; the next poll commits
  it. `Simulation` has what the code does.
- A copy of a continue that runs beside the first finds no bill waiting and is refused
  (`simulations.service.ts:1295`), where `MonthBoard` replays the recorded answer. The board keeps the key after a refusal,
  so the next press is answered with the record.
- One obligation template that is inactive makes creation fail for every draw with an event that
  introduces it. One template can be in a month twice: from the start and through an event, or through two events.

## 6. Proofs

Every theorem below is proved for all values of the constants that satisfy the module's assumptions: any
number of occurrences, keys, users, wagers, items, requests, runs and pages, where a run has two or
three. TLC checked each inductive invariant on the run of its module before it was proved.

| Theorem | Says | Of |
| --- | --- | --- |
| `TypeCorrect`, `BalanceBounded`, `StatusAgreesWithBalance`, `EffectsFollowSettlement`, `NoEarlyMiss` | `TypeOK`, `PaidWithinDue`, `StatusMatchesBalance`, `EffectsMatchSettlement`, `MissedAfterGrace` | `Payments!Spec` |
| `ContributionsStay`, `OnlyVoidsTakeMoney`, `ScansAreSpentOnce` | `ContributionsAreFinal`, `MoneyLeavesByVoid`, `ScanBacksOneContribution` | `Payments!Spec` |
| `MoneyIsBacked`, `Implementation` | `PaidBackedByPosted`, `ImplementsLedger` | `Payments!Spec` |
| `SingleVoidsKeepBalance`, `FreshListsKeepSettled` | `BalanceIsPostedTotal`, while no two voids work on one contribution (`OneVoid`); `SettledStaysSettled`, while no run lists what was paid since (`ListsAreFresh`) | `Payments!Spec` |
| `PagesPayAsPaymentsDo` | the pages and the service behind them implement `Payments!Spec`, so that all of the above holds with them | `DeskSpec` |
| `DeskTyped`, `PagesTellTheTruth`, `PagesPayOnce` | `DeskTypeOK`, `TellsTheTruth`, `PaysOnce` | `DeskSpec` |
| `WagersTyped`, `ClaimsLast`, `CoinsFollowWagers` | `TypeOK`; row locks exclude and what a transaction found under its claim lasts until its end; `StakesFollowStatus` | `Wagers!Spec` |
| `WagersImplementBook`, `LedgerReconciles` | `ImplementsBook`, `CoinsReconcile` | `Wagers!Spec` |
| `RewardsTyped`, `ShopSellsOnce`, `SettlementsAddUp`, `MoodsLastTheirTime` | `RewardsTypeOK`, `ShopIsFair`, `RewardsAddUp`, `MoodsLast` | `RewardsSpec` |
| `SchedulesTyped`, `RoundsCloseTheLast`, `RemindersOnce` | `ObligationsTypeOK`, `EachRoundClosesTheLast`, `RemindedOnce` | `ObligationsSpec` |
| `PagesTyped`, `FriendshipsAreWhole`, `PagesShowWhatWasDone` | `SocialTypeOK`, `ImplementsFriendBook`, `OwnActionsShow` | `SocialSpec` |
| `BoardTyped`, `BoardTellsTheTruth` | `BoardTypeOK`, `BoardIsTrue` | `BoardSpec` |
| `SessionTyped`, `AsksOneQuestion`, `MonthsAddUp` | `TypeOK`, `OneQuestion`, `MonthAddsUp` | `Simulation!Spec` |
| `SessionsImplementMonth` | `ImplementsMonth` | `Simulation!Spec` |
| `ClocksFollow` | `ClocksFollowHold`, while no two resumes are in flight at once (`OneResume`) | `Simulation!Spec` |
| `CurrentAdvancesHoldTheDay` | `PendingHoldsTheDay`, while no result is on the board an advance in flight will move (`AdvancesAreCurrent`) | `Simulation!Spec` |
| `ScenarioTyped`, `MonthsArePlayable` | `ScenarioTypeOK`, `MonthIsPlayable` | `ScenarioSpec` |
| `CreditTyped`, `EventsExplain`, `ScoreFollowsAlways` | `CreditTypeOK`, `EventsExplainScore`, `ScoreFollowsConduct` | `CreditSpec` |
| `PageTyped`, `QuizIsFairAlways` | `PageTypeOK`, `QuizIsFair` | `PlaySpec` |
| `GuidanceTyped`, `GuidanceKept` | `GuidanceTypeOK`, `GuidanceIsKept` | `GuidanceSpec` |
| `PagesAreEach`, `PagesKeepTypes` | a behaviour of the run is one of `Social`, of `PayDesk` and of `Guidance`; `PagesTypeOK` | `PagesSpec` |
| `ProfilesAreEach`, `ProfilesTyped` | a behaviour of the run is one of `Rewards`, of `CreditScore` and of `QuizPage`; `ProfilesTypeOK` | `ProfilesSpec` |
| `MonthsAreEach`, `MonthsTyped` | a behaviour of the run is one of `Scenario`, of `Simulation` and of `MonthBoard`; `MonthsTypeOK` | `MonthsSpec` |

Most theorems are of a module by itself; the runs `pages`, `profiles` and `simulation` put several side by
side (section 2). The three `...AreEach` theorems carry over to what these runs explore whatever is proved of a part.

The proofs have one shape. An inductive invariant is a conjunction of named parts; each action, or each
kind of step with the same effect on what the invariant speaks of, has its lemma, with one step for
each part it can disturb; the theorems follow from the invariant by propositional temporal logic.

**What the broken promises lack.** The three promises of section 5 fail, each at one check that the code makes
too early. `SingleVoidsKeepBalance`, `FreshListsKeepSettled` and `CurrentAdvancesHoldTheDay` prove that
nothing else is wrong with them: in every behaviour in which what that check has read is still so when it is used, the
promise holds, whatever else overlaps. The conditions are about requests and runs in flight (`OneVoid`,
`ListsAreFresh`, `AdvancesAreCurrent`), true of any behaviour without that one race and false in the counterexamples TLC
finds; a check repeated under the lock would refuse the request that brings about each of these.

**Assumptions on constants.** Types, and: amounts due and prices are positive, `None` is no row, key or
attempt, sums run over finite sets (`Wagers`, `Items`, `Keys`), there is a wager, an obligation is generated at least once
(`MaxRounds`), a page is opened at least once (`MaxVisits`), and
`Nothing` is not a month; a quiz has questions, each once (`QuizConstants`: the selection takes distinct rows
and refuses to make an empty one); the tour has a stop, and what stands for no account, patch, load or route is none
(`NothingIsNoGuide`); budgets to draw are those of `randomStartingBudget`, and there are two days at
least on which a bill can turn up (`ScenarioConstants`); and for a month (`SimulationConstants`,
`RowsOfTheirOwn`): bills and events are rows of
their own, and an outcome brings bills that nothing else brings, since `resolveEvent` and the expiry create
the rows they name. TLC evaluates the assumptions of a module in every run that extends it.

**Payments** (`PaymentsProofs`). Types need `VoidingHasRow`: a void in flight names an existing
contribution. `StatusMatchesBalance` is carried beside most parts, because `CreateSettled` starts from an
absent occurrence, whose balance must be known to be zero. `NoEarlyMiss` needs `GraceInv`: `overdueAt`
is after the due date and every row on a run's list was rightly listed, however long ago; a list is
stale about the status but never about time. `ScanUsers` counts the contributions of a scan by its
status. `MoneyIsBacked` needs the sum over posted contributions: a post adds its amount, a void takes it
off the sum at once but off the balance at least as much. `SingleVoidsKeepBalance` makes it an equality: a contribution that one
void works on is posted until that void commits (`VoidsArePosted`), so both go down by its amount.

**Sums** (`SumTheorems`). `SumFunctionOnSet` is a fold, and the induction theorems of the library cannot
be instantiated here, so the laws of sums (`SumTake`, `SumAdd`, `SumChange`, ...) are proved by least
counterexample: among the subsets of a finite set for which the law fails one has the least
cardinality, and taking an element away from it gives a smaller one.

**Wagers** (`WagersProofs`, invariant `Safe`). `LocksExclude` and `LocksInOrder` say what a transaction has
locked by where it is; `ClaimsHold` that the wager it has claimed is as it was found; `CreationsAlone`
that a wager is created by one request, before anything else happens to it; `StakesThere` that a stake found in an account
cannot be spent by others; `ResultsKnown` what a resolution will pay. With these, the commit of each
request changes wager and coins as `WagerBook` does, and everything before it is a stutter.
`LedgerReconciles` adds the laws of sums.

**Profile and shop** (`ProfilesProofs`, invariant `ProfileSafe`). `LockKeeps` says what the holder of the profile's
lock has found and may rely on; `OwnsWhatItMoves` that what is put on is in the bag; `EquipsKnow`,
`AloneSeesAll` and `OneOn` that an equip without a rival in its slot takes off everything that is on;
`DecaysDue` that a mood read by the scheduler has passed unless it was set since.

**Obligations** (`ObligationsProofs`, invariant `ScheduleSafe`). Occurrences are bounded by generation
(`RowsFit`, `RoundsUpTo`), one of them has the highest number (`HasHighest`), and a transaction knows no generation and
no row that is not there (`TxKnown`). An open row of a generation a transaction could see is among
what it is about to cancel (`OpenSeen`), so what is open at the end is of the last generation, overlooked by it, or newer than an
archive could see (`OpenAreLast`); in the same way the number it counts on from is the highest of what it
could see (`NumbersSeen`),
so that only a generation it overlooked can have its numbers (`NumbersApart`). Two transactions never hold the
obligation's row together (`LocksExclude`), and one that holds it has overlooked no
round of one that held it (`LockedUnseen`, `LockedApart`). What a run has listed of the account that exists is still there
(`ListsKnown`), due and not reminded of (`ListsDue`), and listed by no other run (`ListsApart`) unless two listed at once.

**Friends and their pages** (`PagesProofs`). `FriendsSafe`: a claimed request waits and is claimed
once, friendships have both rows, and a row is held by the call that inserts or deletes it, in the step it is in.
`SocialSafe`: loads are numbered up to the latest and the latest has read at least what was acknowledged
(`LoadsInTime`), acknowledged changes are counted (`ChangesCounted`), and what a mutation has changed is among
what its success invalidates (`OwedIsInvalidated`), which is the list in `invalidateSocial`.

**Pages that pay** (`PayDeskProofs`, invariant `DeskSafe`). `Asks`: each key was drawn for what its
requests ask, by the visit that may send it again, and a page waits for one payment at a time, which is its attempt.
`Tells`: a success names a payment that was made; a refusal names one that was not and that no request on
its way asks for, unless it is one of `strays`; what a page said was not made is not asked for again, and what
it said so of without an
answer is something new (`LostAreNew`). `Draws`: a
visit draws a new key only when all it has drawn were refused. The second key of a visit is
therefore drawn after the first can no longer be made, which is `PaysOnce`. The proof goes by kinds of steps
(`DeskKinds`), which forget everything of a step but what this argument needs.

**The board of a month** (`MonthsProofs`, invariant `BoardSafe`). `KeysOwned`: each key drawn belongs to one
button, `meant` counts the keys drawn for it and `done` those of them that are recorded, so nothing is done that was not
meant, however often a key is sent. `SnapshotsPast`: whatever the board, a record, an answer or a load has
seen of the month is no newer than it, and if a month seen paused runs again, there is evidence of the
resumption: an answer on its way or given, or a command whose answer never came (`CommandsAre`). `ShowsTold` and
`ReadsSince`: what is shown, and what the last load has read, is no older than the last answer, unless
one answer overtook another. Together they leave a board that shows a pause only a month that is paused.

**Sessions** (`MonthsProofs`, invariant `SessionSafe`). A session is `Sound`: what waits has its day ahead, what is
revealed has it today, and the bills of an undecided event are not there (`Calendar`); no open bill is
overdue (`Timely`); the hold asks for the one event that is revealed (`Asked`); a month is rewarded when
it is completed (`Prized`); the score entries are those of what is settled, each once, and add up (`Booked`);
the accounts are what bills and events have left of the budget (`Funded`); a briefing is untouched (`Fresh`).
`OneQuestion` is not inductive without `Calendar`: a day that begins must find no earlier event still open. `MonthAddsUp` is
not without `Calendar` and `Timely`: an outcome may only bring bills that are absent, and a day may only
miss bills that were open. A request may come late or twice, so nothing is assumed of what it has read but its
type: each is proved to leave a sound session from every sound one. `Resolve` is proved branch by branch,
each with what it does to the month (`Passes`, `Runs`, `Closes`); the catch-up loop is a recursive
function on the days that were slept through, and goes through `Dawn`, a session whose overdue bills are not yet missed. It
is reasoned about by least counterexample over the number of days, as sums are. `Moves` says of
each request which step of `SimulationMonth` it is, and `SessionsImplementMonth` follows. `RequestIs` gathers
both: every action leaves a sound session and a move.

`ClocksFollow` adds two parts. `Clocked` is the property with what it needs of a briefing, and `ResumesKnow` that a
resume in flight has read the hold and the clock of the pause it will end: nothing but a resume, or a discard, moves
a paused session (`StoppedStays`), so one resume at a time finds the pause it has read. Two do not (section 5), and
TLC breaks the property with two requests, so the theorem needs `OneResume`. `Ready`, that the clock of a
timed day runs, is shown of what `Resolve` returns, which is what a pause reads.

`CurrentAdvancesHoldTheDay` needs only `Quiet`: no deadline runs behind a result. Every step keeps it, overlapping
resumes too (`RequestQuiet`), so the catch-up loop passes no day there (`CatchUpStill`), and what
is left to move the day is the advance.

**The drawing of a month** (`MonthsProofs`, invariant `ScenarioInv`). What has been drawn is of the step it is in: the
bills are a choice for the budget, and those that turn up are candidates beside them. The rest is about the
catalogue, by evaluation: `FiveAre` gives five affordable bills for every budget, `OneRemains` that these leave a
candidate (or creation would be refused), `LateTakeLittle` and `BudgetsAre` that what turns up fits in
what the cap leaves, and `EventsArePassable` that every event has a free way out.

**Credit score** (`ProfilesProofs`, invariant `CreditInv`). The profile is what the events say, and what a
recalculation has read is the profile unless another has stored since (`late`). `ScoreFollowsConduct` is about the formula: two
histories that differ in one payment are compared part by part. The average is a quotient of two sums, so it is compared
crosswise (`AverageGrows`); the points for months and kinds of payment follow the sets they count
(`MonthsFollow`, `DiversityFollows`); the rounded sum follows its parts (`RawFollows`); and a cap that the better
history has and the other has not must be no lower than the worse score (`ScoreFollows`). This is where the
exceptions in the property come from: 15 to 30 days late is the cap that fails it.

**Quiz** (`ProfilesProofs`, invariant `PlayInv`). `SessionFits`: answers are told apart by their order, and score, settlement
and a queue that is not empty follow from them unless a submission has committed over one it had not seen. `CallFits`: a
submission answers a question that was queued, and has seen answers that are still there; with the queue being
what was asked less what was answered rightly, the last question is answered when the queue is
empty. `PageFits`: the page waits for a submission to its own session. `StreaksFit`: the
streak is of days before today.

**Guidance** (`PagesProofs`, invariant `GuideInv`). `OneAtATime`: an exchange that found no other is the only one, and
about the account on the page; any other blurs the page until one is alone again. `AloneSees`: such an exchange has
read what the account has. `ChoicesReached`: what the user chose is what the account has once the save
under way, or the patch kept for a retry, is applied; applying one twice is applying it once (`SwitchedIs`,
`OptimisticIs`), so a retry of a save that did arrive does no harm. `TourKnown`: the step of the tour on the page is
that of the row except while a move is on its way.

**The runs** (`ProfilesAreEach`, `PagesAreEach`, `MonthsAreEach`). A step of the composition is a step of one part
and leaves the variables of the others unchanged, so it is a step or a stutter of each.

**Only model-checked.** Every liveness property (`PastDueNoticed`, `WagersEnd`, `RemindersGoOut`,
`TimedMonthEnds`), as fairness and `ENABLED` are out of TLAPS's reach; and that the promises of section 5 are broken.

## 7. Not modelled

- OCR, parsing, formatting, authentication, the text of notifications: input and output.
- Read-only services: payment queries, insights, dashboard, wrapped, catalogues, summaries. They read
  committed rows and no other component decides on what they return.
- Categories and health: reference data and a probe. Which tip the guidance picks, and its facts of the day.
- Rows that one statement writes and nothing else reads: notification reads, profile fields, preferences.
- Which criteria earn which badge, and whether friends are friends when they wager.
- Frontend pages that load once and show what they got.
- Payments outside the shapes of the pages: two pages open at once are covered by `Payments`, whose
  requests come from anywhere, not by `PayDesk`.

## 8. Plan

Done, in the order of what matters most to users: payments with their proofs, wagers, the simulated month,
friends, rewards with shop and quiz, the credit score, obligations with reminders, the pages that race
these services, the drawing of a month, and the guidance around the pages; then the proofs of section 6.

Left:

1. Two boards of one month, and two pages that pay at once.
2. The evaluation of wager tasks over payments, and badge criteria.

## 9. Running it

    tlc -config MCPages.cfg MCPages
    tlapm PaymentsProofs.tla

and `tlapm` for each of the other `*Proofs` modules and `SumTheorems`.

`PROJECT.json` gives, for every definition, the lines of the source it translates, and for every run
its module and configuration.
