# Corporate Lawyers backend: a TLA+ model

A TLA+ development kept beside the NestJS/Prisma backend of a law firm (cases, billing, documents, CRM).
It models the services whose correctness depends on what happens *between* two `await`s: every handler
runs interleaved with the others on one Node process (or several), and most of them read a row, decide,
and write it back with no transaction. Paths below are relative to the repository; the services are
under `src/modules`.

## 1. The system

| Component | State | Operations | What is hard | What makes it correct |
|---|---|---|---|---|
| Invoices (`billing/invoice.service.ts`) | invoice rows (status, totals, rate, deletedAt), items, `invoiceId` of time entries and expenses | create, update (status and metadata), remove, add/update/removeItem, recalculateTotals, getSummary | check-then-act without locks; side effects before the row is written; create reads itself back over another connection | statuses follow the table, totals match the lines, a bill that is gone holds no entries, nothing is due unannounced |
| Payments (`billing/payment.service.ts`) | payment rows, invoice status | create: one Serializable transaction that also notifies, audits and dispatches | snapshot conflicts, the row lock, a second connection taken inside the transaction, Prisma's 5 s timer | no overpayment; status agrees with the balance |
| Time entries, expenses (`billing/*.service.ts`) | entries, isBilled | create (needs an open case), update, remove | the case's status comes from a cache | none is added to a closed case, none is billed twice |
| Cases (`case/case.service.ts`) | case row, cached detail | create, findOne, update, remove, updateStatus | read-through cache filled late and not invalidated by updateStatus | statuses follow the table, a closed case is frozen, a deleted one is gone |
| A case's team and work (`case/case.service.ts`, `case.controller.ts`) | assignments, parties, notes, tasks, timeline | assignLawyer, removeAssignment; add, update, remove, completeTask; getTimeline | demote, find and write of a lead in separate statements; the caller's assignment is looked up before all of them; a row and its timeline entry too; a timestamp as cursor | one lead, unseated by nobody else; the timeline tells what happened |
| Cache (`common/cache/cache.service.ts`) | in-memory entries with a TTL (300 s) | get, set, del, getOrSet | a fill races an invalidation | answers were true once; the entry is the row but for known overlaps |
| Numbering (`generateCaseNumber`, `generateInvoiceNumber`) | numbers of a year, unique | read the last live number in string order, add one | concurrent creations, soft-deleted rows, the padding's width | unique, no holes, never stuck |
| Soft delete (`core/database/prisma.extension.ts`) | deletedAt of nine models | filters findMany/findFirst/count; checks findUnique after the query | writes are not filtered; findUnique asks twice; a findUnique whose `select` lacks deletedAt always finds null | deleted rows are invisible, others are not |
| Auth (`auth/auth.service.ts`) | users, sessions, reset tokens, lockout counters, second factor and recovery codes | login, refresh, logout(All), reset, register; setup, enable, disable, recover | double use of one-shot tokens, refresh racing revoke-all, one JSON column written back whole | one-shot tokens and codes are used once; what is enabled was verified |
| Users (`user/user.service.ts`, `client-portal/portal-profile.service.ts`) | users, client profiles, cached detail | create, update, remove, createClientProfile, completeOnboarding | two ways to a profile, the name in the same transaction | onboarded once and whole |
| CRM (`crm/*.service.ts`) | leads, intakes, conflict checks, accounts | create, update, remove, convert, conflictCheck, submit | conversion checked outside its transaction; a score from an old read | a lead becomes one account; the score is current |
| Documents (`document/document.service.ts`), signatures (`integrations/signatures`) | document, versions, files, links, signature rows | upload, new version, link, remove; request, cancel, provider webhook | version-number races, orphan files, webhooks beside requests and cancels | versions are a sequence; what was signed is signed and has its copy |
| Webhooks (`integrations/webhooks`) | endpoints, BullMQ jobs, delivery records | configure, dispatch, process with 5 attempts | lost answers, records that fail, dying workers, endpoints that change meanwhile | at least once, or attempts used up; twice only after a loss |
| CFDI (`integrations/cfdi`), circuit breaker (`common/resilience`) | cfdiUuid, the provider's stamps, breaker state | stampInvoice, cancelCfdi, execute | a crash or another stamp between the provider's answer and the row | row and provider agree; the breaker's state follows its count |
| Calendar (`calendar/event.service.ts`) | events, attendees | create, update, remove, attendees | conflicts are looked for after the insert, person by person | nobody is booked twice unawares |
| Notifications (`services/notification`, `notifications`) | rows, readAt | send, mark read (three ways), paged lists | rows and count are two queries; offsets move | who pages to the end has seen all |
| Lists, details, summaries, statistics (all services, `client-portal`, `stats`) | none | findAll, findOne, getSummary | two queries with no snapshot; the portal's conditions differ from the firm's | an answer is of one moment; what is listed opens; the accounts agree |
| Messaging, settings, health, HTTP shell | single rows | CRUD | - | - |

Interactions: services call each other in process (`TimeEntryService` -> `CaseService.findOne`,
`InvoiceService`/`PaymentService`/`CaseService` -> `WebhookDispatcherService.dispatch`,
`NotificationService.send`, `AuditService.log`), share rows in PostgreSQL and entries in the in-memory cache,
and hand deliveries to BullMQ.

Every hazard found, at its line, is in `PROJECT.json` under `hazards`, with the property that would
catch it or the reason none does.

## 2. Plan

Written: all modules of section 3, and a theorem for every safety property that a run checks.

Next, in proof: the parts of `office` and `outside` once more of the sums that run them, where only the
type invariants and three properties are stated so far. In the model: the step of `login` that asks for the second factor, and
messaging once its access check can succeed. The modules are written to be proved about: no RECURSIVE operator, `req` shared
through `Handlers`, histories in place of temporal formulas.

## 3. Modules

| Module | Models | Notes |
|---|---|---|
| `InvoiceLedger` | what a payment promises: an atomic step within the balance of a collectable invoice; everything else receives no money | abstract specification |
| `Billing` | `InvoiceService.update`, `remove`, items, `recalculateTotals`; `PaymentService.create` | refines `InvoiceLedger` (`Ledger == INSTANCE InvoiceLedger`, same variables) |
| `CaseLifecycle` | `CaseService.findOne`, `update`, `remove`, `updateStatus`, creation of time entries and expenses, `AppCacheService.getOrSet` and `del`, TTL, restart | one case; cases share nothing |
| `Sessions` | `AuthService`: login and lockout, refresh, logout, logoutAll, revokeSession, forgotPassword, resetPassword; `UserService.adminResetPassword` | one user |
| `Handlers` | the requests in flight, `req`, shared by the modules below that have handlers | |
| `CaseTeam` | `assignLawyer`, `removeAssignment` | one case |
| `CaseAccess` | `assertCaseAccess` before each endpoint of `CaseController` | extends `CaseTeam`, whose handlers are what the calls let in do |
| `CaseWork` | parties, notes, tasks, the timeline and its reader | one case |
| `Creation` | `CaseService.create`, `InvoiceService.create`, both number generators, soft deletes | two tables of numbers |
| `TwoFactor` | `setupTwoFactor`, `verifyAndEnableTwoFactor`, `disableTwoFactor`, `recoverTwoFactor` | one user |
| `Accounts` | `register`, `UserService.create`/`findOne`/`update`/`remove`/`createClientProfile`, `completeOnboarding` | one address |
| `Calendar` | `EventService`: create with its conflict check, update, remove, attendees | |
| `Leads` | `LeadService` create, update, remove, convert, conflictCheck, score; `IntakeService.submit` | |
| `Documents` | `DocumentService` upload, new version, links, remove; `SignatureService` request, cancel, webhook | one document |
| `CircuitBreaker`, `Stamping` | the breaker as functions on its state; `CfdiService.stampInvoice`, `cancelCfdi` | one invoice |
| `DeliveryPromise` | what the queue promises a subscriber, with its liveness | abstract specification |
| `Webhooks` | `WebhookService`, the dispatcher, the processor; BullMQ as external actions | refines `DeliveryPromise` (`Promise == INSTANCE DeliveryPromise WITH phase <- ...`) |
| `Inbox` | notifications, marking, a reader who pages | stands for every list paged by offset |
| `Statements` | the summaries of a case, a client, the portal's dashboard and the statistics | beside payments, and edits that write on a row read at any earlier moment |
| `Views` | list and detail endpoints of seven kinds of rows, for a client and a lawyer | beside the writes they depend on |
| `SoftDelete` | the lookups of the Prisma extension | one row |
| `MC*` | instances for TLC | constants, symmetry, sums of modules (section 4) |
| `BillingProofs`, `CaseProofs`, `SessionProofs`, `CreationProofs`, `WebhookProofs` | theorems about the module of that name | extend it and TLAPS |
| `TeamProofs` | theorems about `CaseTeam`, `CaseAccess` and `CaseWork` | |
| `OutsideProofs` | theorems about `Documents`, `Leads`, `Stamping` and the breaker, and about `MCOutside`, which runs them side by side | |
| `OfficeProofs` | theorems about `Calendar`, `TwoFactor`, `Accounts`, `Views`, `SoftDelete`, `Inbox`, `Statements`, and about `MCOffice`, which runs them beside the team's and `Creation` | extends `TeamProofs` and `CreationProofs` |

How code becomes actions. A request is a record in `req`: `pc` names the await it stands at and the other fields are the
method's locals. Every await that reaches the database, the cache or another service is a step; guards are
the early returns and thrown exceptions; a request that is rejected without having changed
anything does not start (or goes back to idle). Values are abstracted to what guards and properties compare:
amounts are small naturals, tax rates whole multiples (`WithTax`), descriptions, dates and notes are
left out, as are audit records, which nothing reads back. A module's `...Fail` action is a statement that fails or
the death of the process at any await: what the handler has written stays, the rest does not happen.

History variables are marked "history" where they are declared and no guard reads them. In `moved`, `overtaken`, `crowded`, `moot`, `entangled`,
`unsettled`, `excused`, `missed`, `refused`, `dropped`, `lost` and the like they record which handlers overlapped or died. The
properties of those modules then say: *this holds, unless exactly this kind of overlap happened*. They do not excuse the overlap;
they delimit it, since the code has nothing to prevent it, and everything outside the named cases is claimed to be right.

`Billing`. `lock[i]` is PostgreSQL's row lock of invoice `i`, held by a payment from its update to its commit; `stale`
in a payment says that the row was rewritten by somebody else after the payment's snapshot, which under Serializable makes its own
update fail (`PayConflict`). `open` is the interactive transaction: `PayExpire` is Prisma's timer, after which the callback runs on,
may still announce the payment, and fails at its next use of the transaction (`PayClosed`). `ConnectionFree` is the pool: an open
transaction keeps a connection, any other statement borrows one for one step. `Init` has drafts as `InvoiceService.create` is
written to leave them. The finding on `Creation` is that it does not get that far today; rows come from imports,
and every statement about `Billing`, `Statements` and `Stamping` is about rows once they are there. `told` are the invoices whose `invoice.sent`
went out. Two histories say of an invoice what overlaps and deaths did to it: it `drifted` when its totals were last written from lines, a rate or a
subtotal that were no longer there, or a handler died between a line and its totals, and it came `loosed` from its entries when a handler died between
letting them go and writing the row, or a PATCH that had read it before took it back from CANCELLED. Both are taken back when the row is made right.

`CaseLifecycle`. `getOrSet` is `Lookup` (hit or miss), `Query` and `CacheSet`, three steps, so a fill may land after a `del`. A handler that
goes on re-uses what it got (`Accepts`), and the writes go by the id alone, as Prisma's `update` does: they succeed on a
soft-deleted row. `updateStatus` has no `CacheDel`. `entered` is a history variable of the statuses the row has had; `overtaken` are the
handlers whose answer another one's write to the row has left behind (`Overtake`), and `aged` says whether the cached entry was (`"left"`: it was there at the write;
`"late"`: an overtaken fill has stored it since).

`CaseTeam`. `madeBy` is a history variable: who last wrote a lawyer's row.

`CaseAccess`. A call that is let in carries its caller's standings since then (`was`), so that the properties can tell a caller who never was entitled
from one who lost it on the way. Roles other than the lead's count alike, and `CO_COUNSEL` stands for them. An author is anyone who is or was on
the team. `Exempt` is an administrator or the case's own client: `assertCaseAccess` returns before it asks either for a role on the team. Deleting a case is the administrators' alone and is in `CaseLifecycle`.

`CaseWork`. The entries of the timeline carry the millisecond they were written in, and several may share one; the reader
asks for one entry more than a page holds, as the code does, and goes on from the last one's timestamp. `reading` keeps what was there
when the reader began, what was shown and what was shown twice.

`Creation`. The insert waits for another uncommitted insert of the same number and fails on a committed one, deleted or not
(the unique index), while the search for the last number skips deleted rows (the soft-delete extension) and uses the
order of the padded *strings*: `StringOrder` is that order for numbers in base `Base` padded to `Width`, exact up to
`Width + 1` digits. The code's values are 10 and 5.

`Sessions`. A refresh token is a JWT over the user's id, e-mail and role with `iat` and `exp` in whole seconds, so the
tokens of a user are as many as the seconds: `session[t]` is the row whose hash is that of the token of second `t`, and
`Issue` fails if there is one. An expired session and a revoked one are both `"ended"`, since every check treats them
alike. A password is compared with the hash of the row just read, so it is right or wrong as of `LoginRead`; passwords are numbered in
the order they are set. `origin`, `shared`, `setBy`, `disputed` and `halted` are history variables: what a session rests on
and descends from, and which handlers overlapped or died half done.

`TwoFactor`. The secret and its codes are one column and are read and written as one value (`Stored`); whether a code typed in is right is
decided at the read. `Accounts`. A user found through the cache may be gone; `Locks` is the row lock that `completeOnboarding`'s
transaction holds between its two writes, and the profile's unique `userId` is what a second onboarding fails on.

`Calendar`. Times are moments 1 to `Horizon`; attendees are inserted in parallel (`todo`), then the conflict check asks for one person after another
(`asked`). `Leads`. Of the score only the two facts kept in other tables are modelled. The unique address of a
user is the only thing a second conversion can fail on. A conversion also numbers a case, in the default isolation; numbering is `Creation`'s.

`Documents`. File keys are new each time (`stored` counts them), so a file without a row is an orphan and never a wrong one.
`Report` is the provider's word of an envelope, one final word each; `handleWebhook` may process words in any order, and may
be called again with the same one. `missed` are the rows that missed a signing: inserted after its webhook, or cancelled by a request that
had read them before it.

`CircuitBreaker` has no variables: `Entered`, `Succeeded` and `Failed` map the breaker's record to the next one, as the methods do.
`Stamping` applies them; `Rest` is the recovery timeout; a failed provider call may have done its work.

`Webhooks`. A job is queued per subscribed endpoint with the address and secret of that moment. `Take`, `PostAccepted`/`PostRejected`/`PostUnanswered`,
`Record`/`RecordFails`/`Note`, `Complete` are the processor; `Retry` is BullMQ's handling of a failed job, `WorkerDies` a stalled one.
`accepted` counts what the endpoint took. The refinement mapping reads a delivery's phase off the job: queued or in work is
"promised", done is "kept", failed is "abandoned".

`Views`. One row is followed; `facts` is the set of what holds of it (its case is not deleted, the lawyer is on the team, it is
linked, a draft, confidential...). Each endpoint is a pair of operators, `...Listed` and `...Found`, translated from its `where` clauses; `OpenList`
and `OpenDetail` run them in the two queries the code makes, with the writes in between. `truths` are the answers that one moment
would have given. `SoftDelete` looks below them, at a single lookup: `was` is what the row was since the call began.

`Statements`. A payment is one step, which `Billing` shows its transaction to be (`PaymentsAreAtomic`). A PATCH or an edit of the items is not: it reads
the row, awaits, and writes by the id. Its read changes nothing here, and handlers are unbounded in number, so what matters of the edits under way is only what
they may have read: any status the bill has `held`. `PatchBill` and `RetaxBill` are the late writes: `seen` is the status that was read and guarded on, and the row
they land on is today's. `forced` are the bills written on a reading left behind, set PAID by hand, or retaxed when no longer a draft. A draft deleted leaves every account
as a cancelled one does, and is not told apart.

## 4. Runs

| Run | Instance | Shows |
|---|---|---|
| `billing_concurrent` | 1 invoice, 2 requests of any kind, 1 line, 1 time entry, rates {0, 1}, pool of 3, failures | payments are atomic; no receivable unannounced; cancelled and deleted bills hold no entries; `HandlersSound`, the inductive invariant of the proofs; which overlaps and deaths, and no others, leave totals beside their lines (`TotalsMatchLines`), entries free under a standing bill (`EntriesHeld`) and a transition beside the table (`StatusFollowsReading`) |
| `billing_overlap` (violation) | 2 requests, no failures | an overtaken PATCH breaks the status table |
| `queues` | 2 requests on a sent invoice (`SentInit`), pool of 2; 1 event, 2 endpoints, 2 attempts, 1 stall | every request ends, though two payments take the whole pool; the webhook queue keeps its promise (refinement, with liveness), and duplicates and records are explained |
| `billing_tax_freeze` (violation) | 1 request | a PATCH that repeats the status edits the tax of a sent invoice |
| `case_lifecycle` | 2 requests | statuses justified, deleted is gone; a guard decides wrongly only on an answer that was overtaken (`WritesAreCurrent`), and the cached detail is the row but for a status written while it was there and for late fills (`CacheExplained`) |
| `case_closed` (violation) | 1 request | a closed case is billed from the cache |
| `creation_invoice` (violation) | 2 creations, base 2, width 2, numbers to 5 | an invoice never survives its own creation |
| `sessions` | 2 requests, 3 seconds, 2 resets, 1 reset token, locked at the first failure | how far overlapping logins, refreshes and resets fork sessions, reuse reset tokens, outlive a password or lose a lock |
| `sessions_same_second` (violation) | same, no failures | a refresh signs the token it replaces |
| `outside` | 2 requests; 2 signers, versions to 3, 3 files; 1 lead, 2 addresses; 3 stamps, threshold 2 | versions and signatures, conversions and scores, stamps and the breaker |
| `office` | 2 requests; 2 events, 2 people, 3 moments; 2 secrets with 2 codes; 2 lawyers; 1 item, 4 entries, pages of 2; numbers to 5; 1 bill to 2; 3 notifications, pages of 1 | the calendar, second factor, accounts, team and access, timeline, numbering, views, lookups, statements and lists |
| `portal_case` (violation) | `Views` alone | a client's own case never opens |

Sums. `MCQueue`, `MCOutside` and `MCOffice` put modules that share no state (but the requests) into one run: `part` is chosen in the
initial state and never changes, each behaviour is one of that module's own specification, and the others rest in an initial
state. Every property speaks of one module's variables, so it is checked exactly on the behaviours of that module.

Symmetry. Requests, and people, lawyers, codes, signers and addresses are interchangeable (no operator chooses among them), so
their permutations are sound; no run with a liveness property uses symmetry.

Bounds. Invoices share no state but the pool and cases none at all, so one of each suffices for the per-row properties; a race on a
row needs two requests, and pool starvation as many payments as the pool has connections. One line amount and two rates tell stale
totals from fresh ones; one payment amount makes partial payment, full payment and a rejected overpayment all reachable (totals are 1 or 2,
payments are 1). Width 2 in base 2 puts the end of the padding (3) and the first longer number (4) inside
the instance; `MaxNumber` caps it. A fork takes three tokens (a token and its two heirs), the reuse of a reset token two passwords: `LastSecond`,
`MaxPassword` and `AttemptCap` are 2, 2 and 1, and the state constraint `WithinBudget` lets their sum reach 2, so the clock, the
resets and the failures are exhausted in turn and in every mixture of two. `MaxSecrets` 2 has a setup replace a secret under a verification or a recovery;
three moments give intervals that meet, touch and are apart; `Calendar` also starts no change of an event after another one is done. A version
collides at 2 and is stuck behind a dead handler's at 3 (`MaxVersion`, `MaxFiles`); three stamps are a stamp, its duplicate and the
next after a cancellation. Pages of one with three notifications, and pages of two with four entries, end inside, at and past the list.
One bill of up to two, which a payment settles in part or whole, has every edit land on every status; two bills with all the statuses they have held are beyond TLC, and
the sums over any number of them are what `AccountsDoAgree` proves.
`MaxAttempts` 2 and `MaxStalls` 1 have a job that is retried, exhausted, stalled back and stalled out (the code's five attempts only repeat the first).

Deadlock checking is off where the system may stop: in billing, when the invoice is deleted or final and every request has ended, in the webhook queue
when every job is over, and in `outside` and `office` when a part's bounds are used up or its rows are gone.
In the other runs some step is always possible.

Fairness. `Billing!Fairness`: a handler's next step is strongly fair, because row locks and pool connections are granted in queue order
(PostgreSQL's lock queue, Prisma's FIFO pool), and the transaction timer is weakly fair, because it is a timer. Requests need not start and
nothing is assumed about failures. `Webhooks!WebhooksFairness`: workers keep taking jobs, a post is answered or times out (the processor sets a timeout), statements
end; nothing makes anybody dispatch, configure or die. `Webhooks` refines the fairness of `DeliveryPromise` with it.

## 5. Findings

1. `billing_tax_freeze`: "Can only edit dueDate/taxRate on DRAFT invoices" is skipped whenever the body has a status, even the current one
   (`invoice.service.ts:286`).
2. `case_closed`: `updateStatus` leaves the old status in the cache, so a closed case accepts time entries, expenses and edits for
   up to 300 s (`case.service.ts:317`), and the response of `updateStatus` itself shows the old status.
3. `creation_invoice`: `InvoiceService.create` reads the invoice back with `this.findOne` inside the transaction, over another
   connection: 404, rollback, with `invoice.created` already dispatched (`invoice.service.ts:153`).
4. `sessions_same_second`: a refresh in the second its token was issued (right after login, say) revokes the old session, signs the same token again
   and fails on the unique hash: the user has no session left (`auth.service.ts:184`).
5. `portal_case`: the portal's access check selects only `clientProfileId`, the soft-delete extension compares the missing `deletedAt`
   with null and answers null: a client's own case, its timeline, notes and documents are 404 (`portal-cases.service.ts:252`,
   `prisma.extension.ts:52`). The unit tests mock the client without the extension.
6. `billing_overlap`: `update` checks `STATUS_TRANSITIONS` against a row read without a lock and writes by id after its side effects: with another PATCH or a payment in between,
   the invoice takes a transition the table forbids, against "Status changes follow validated transitions" (`API-ENDPOINTS.md:1817`, `invoice.service.ts:244`).

Known from the models without a run of their own:
- Billing: overlapping edits of the items, or of the rate, leave totals that are not those of the lines (`drifted` says which); a handler that dies between letting the
  entries go and cancelling, or a PATCH to SENT beside one to CANCELLED, leaves a standing bill whose entries can be billed again (`loosed`); a PATCH beside a payment can undo the
  payment's status; an invoice paid in full by a payment never dispatches `invoice.paid`. The client's and the firm's summaries disagree with the statistics once a bill was set PAID by
  hand, and so do a bill sent anew by a PATCH that had read it as a draft after it was paid on, and one whose items were edited by a request that had read it as a draft (`forced`).
- Cases: deleting the newest case blocks case numbering for the rest of the year; two overlapping assignments leave two
  leads, and a failed one none; a lead who is unseated during a call may still unseat its successor (`CaseDealings` says when), and the case's client is let into
  the endpoints that ask others for the lead's role; the timeline skips entries that share a millisecond with the end of a page.
- Accounts: a refresh or login that a reset overtakes leaves a session on the old password, and overlapping refreshes fork
  a session: `OldPasswordShutOut` and `ForksFromOverlap` say exactly when. Refresh checks neither the user's status nor its deletion. Overlapping
  recoveries give a code back; a setup that lands inside a verification is enabled unseen.
- Documents: a handler that dies between a version's row and the document's blocks every later upload of that document; a cancel beside
  the webhook marks a signed document expired. A lead converted while a PATCH had read it is reopened and may be converted
  again. Two stamps of one invoice overlap into two fiscal documents, one of them on no invoice.
- The narrow `select` of finding 5 also hits `MessageService.assertMessageAccess` and the portal's receivers (no message can be sent), the portal's
  profile operations, and `NotificationService.send` (no e-mail is queued).
- Lists: a lawyer sees documents of cases that are not theirs in the list and gets 403 on the detail (`ListedOpens` names it).

## 6. Proofs

All theorems hold for every value of the constants that satisfies the modules' assumptions. These say that the constants that are
numbers are numbers (`BoundsOK`, `DocumentBoundsOK`, `QueueOK`, `StampsOK`, `ThresholdOK`, `InboxBoundsOK`, `TwoFactorOK`, `CalendarOK`,
`CaseWorkOK`), that `None` and other markers are none of the values they stand beside (`NoneOK`, `LeadNoneOK`, `AccountsOK`,
`ExemptOK`), and twice a little more: `StatementsOK` has a case's bills finite in number, without which they have no sum, and
`PowerOK` says that a power of naturals is a natural, which the prover does not know of `^`. The sets of requests, people, events, codes and the
like are arbitrary, infinite ones included.

In every module the property is too weak to be inductive, because a handler writes what it decided on an older state. The
invariant that is inductive adds what each handler in flight still knows to be so, and the proof has a lemma per action.

`BillingProofs`. `Inductive` proves `TypeOK /\ HandlersSound` and the two row invariants inductive. `TypeOK` alone says nothing of what a handler still
intends to do, so it is strengthened by three facts about every handler in flight: a payment that can still commit has seen the
invoice as it is, and holds its row lock once it has written (`SnapshotOK`); a status about to be written was announced (`AnnouncedFirst`); a bill
about to be cancelled or deleted has let its entries go (`ReleasedFirst`). From it: `ReceivablesAnnounced`, `CancelledHoldsNothing`,
and `BillingImplementsLedger`, the refinement: `PayCommit` is the atomic `Pay` because of `SnapshotOK`, every other step
is `Edit` or a stutter.

Nothing in the code serialises the requests for an invoice, so none of these theorems assumes it, nor that requests live. `TotalsAreKept` and `EntriesAreHeld` are inductive together
(`Books`) over `IInv`: every step that writes a line has a handler on the way to the totals, every step that frees an entry one on the way to the row, and each of the
ways in which these fail to make the books right enters `drifted` or `loosed`. That payments disturb neither is part of it, and rests on `SnapshotOK`: the total a payment puts back
is the one that stands. `TransitionsAreExplained` adds that an update under way was allowed by the status it had read (`StatusChecked`); a payment's moves are in the table because its
snapshot is current.

`CaseProofs`. The properties are inductive once one knows that a status about to be written follows a status the case has *had* (`PendingJustified`),
not the one it has. `OnlyOvertakenWritesAreWrong` and `CacheIsExplained` need the same of a fill about to be stored (`FillsAreCurrent`): what is in flight and not overtaken is the row. `DeletedStaysGone` is an action property: with no entry in the cache and no handler past its query,
no step leaves that situation.

`TeamProofs`. `LeadsOverlapped` needs `HandoverClear`: while a request stands between its demotion and its write, whoever leads was made lead by
another request since. `DoorsAreKept` (`AccessInv`): the standing a caller has now
is among those noted since it was let in, one of which sufficed, and the call that left the case leaderless is on
record. `TimelineHolds` (`CaseWorkInv`): what a reader at a page has not seen lies before its cursor or shares its time with something seen.

`SessionProofs`. Four invariants over `TypeOK`. `OldPasswordShutOut` needs the same of the handlers about to create a session
(`MakersKnowPassword`). `LockFollowsFailures` is inductive. `ForksFromOverlap` needs that a token is ended before its heir is inserted
(`EndedBeforeHeir`) and that whoever else holds it is known to (`HeldByOne`). `ResetOnce` needs that a token that set a password and is
still open has its handler between the two writes (`HeldOrSpent`).

`CreationProofs`. `NumberingSound` rests on `CreationHeld`: the number before the one a creation holds has been given out, its own row is not in
the table before the commit, and a case is announced only after it. That the search for the last number finds one, and that the next is not live before
the padding runs out, are lemmas about `StringOrder` (`LastExists`, `NextNumbers`).

`WebhookProofs`. `DeliveriesExplained` needs to know where an acceptance is on its way to the delivery log (`Traced`), and that a job is queued
once (`QueuedOnce`). `QueueKeepsPromise` is the safety part of the refinement in `PromisesKept`: each step of the queue is one of
`DeliveryPromise`'s, or a stutter.

`OutsideProofs`. `Stamping`: a handler noted as alone is the only one at work, and a stamp only its handler knows is valid (`StampsHeld`);
`BreakerConsistent` is inductive by a lemma about the breaker's functions (`BreakerSteps`). `Leads`: a lead that became an account keeps its status
because every handler with a status to write has read that one (`ConvertedSettled`), conversions go by the lead's address
(`ConvertersAgree`), and a handler that is alone has read the facts its row will hold (`FactsHeld`). `Documents`: a version in the making has
the next number and a file of its own (`MakingOf`, `FilesApart`), rows follow one another but for the one being
linked (`RowsInOrder`), and a signed copy is made, refused, dropped or on its way (`CopyComing`).

`OfficeProofs`. `Calendar` (`PairNoticed`): of two overlapping events for which a person they share has been checked by both creations, one has
noticed the other; the creations that go on have checked everybody in the end. `TwoFactor` (`UsedUp`): a code that was good for a session
is on no list that is stored or about to be. `Accounts` (`CommitsAlone`): an onboarding about to commit has the only profile.
`Views` (`VisitHeld`): between its two queries a call has read the facts as they are, or as they were before the one
write since. `SoftDelete` (`LookupHeld`): a row that was not refused can only be there if it was live since.
`Inbox` (`WalkHeld`): the rows a walk has not seen rank at or beyond its next offset; adding a row shifts ranks
by one and needs the library's facts on cardinality. `Statements` (`ReadStands`, `Balanced`): what the first query read PAID is
PAID still, and uncounted bills stay uncounted; bills not forced, whatever edits are under way, have nothing paid before they are sent (`UnsentUnpaid`), because an edit that
lands on the status it read keeps to the table (`EditBillHolds`); the sums are `SumFunctionOnSet`, a fold in an order it chooses, so that it is defined on
every finite set, is a natural, splits over disjoint sets and adds pointwise is proved first (`LeastSubset` to `SumPart`), from a least
counterexample among the subsets. `OfficeInv` then puts the parts side by side: the one that runs holds its own invariant, the others rest. From it come
`OfficeTypeCorrect`, `ReadsAreOfOneMoment` and `DealingsAreInOrder`, whose properties speak of several parts (`ReadsAreOfOneMoment` claims one moment for answers
with fewer than two writes between their queries; a lookup's row was live at some moment of the call though `findUnique` may return it deleted since, and of the denials of
a select without `deletedAt` it says nothing); the other properties of
`office` are proved of the part's own specification.

Model-checked only: liveness (`RequestsEnd`, and that a promise is kept or abandoned in the end, in
`PromisesKept`), since what is strongly or weakly fair asks for ENABLED, which is beyond the prover; and that the six findings
are reachable, which is what a counterexample shows. What `MapThenSumSet` computes of an invoice's lines
is used only as a function of them (`LinesTotal`), and no theorem depends on its being a sum.

## 7. Not modelled

- Messaging: no message can be sent (finding 5), so there is no behaviour to check. Settings are single-row edits, health checks pure I/O, the HTTP shell
  framework wiring: access control by role runs before the handlers, access by row is in `Views`.
- Edits of unbilled time entries and expenses, which change no column that a guard reads, and the sums of a case's time entries. Nothing in the code bills an entry
  today (finding 3); `Views` removes unbilled ones.
- In modelled services: profiles of lawyers and `UserService.findAll`; `resendRequest` and the queries of signatures; document search and downloads; the update of an
  intake form; an event attendee's answer, reminders and availability; `getStatus` and `downloadXml` of a CFDI; the list of deliveries; the dashboard's counts and latest rows;
  e-mail templates. They read only, or write a column that no guard and no property reads. The step of `login` that asks for the second
  factor's code.
- The second query of `findUnique` is in `SoftDelete`; the other modules take both as one read. The extension's conversions of `delete` and `deleteMany`
  into updates are never reached: no service deletes a row of those models.
- Two open reset tokens after two overlapping `forgotPassword` are in `Sessions` as behaviour, but nothing promises a single one.
- Due dates, notes and formatting; rounding of decimals to two places.

The database is external: its row locks, snapshots and unique indexes are modelled as the code uses them, and false-positive
serialization failures are covered by the failure actions. BullMQ, the signature and stamping providers and the subscribers' endpoints are external too.
