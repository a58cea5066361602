# Verification of Global Freight Solutions

The repository is a Go web site for a freight company: a server-rendered home
page and one form, the quote request, which stores a lead in PostgreSQL and
tells the sales team by mail. This directory holds TLA+ models of the parts of
it that are hard to test, the TLC configurations that check them on small
instances, and theorems about them that TLAPS proves for every value of the
constants.

    tlc -workers 2 -config quote_faults.cfg MCQuoteHandler   # one run of the table below
    tlapm QuoteHandlerProofs.tla                             # one module of proofs

Line numbers are those of the repository; `PROJECT.json` maps every definition
that models code to the lines it stands for.

## 1. The system

| Part | State | Operations | Talks to |
|---|---|---|---|
| Quote endpoint, `internal/handlers/quote.go`, `handlers.go` | none of its own; one goroutine per request | `QuoteHandler`: origin check, form parsing, honeypot, `validateQuote`, rate limit, `saveQuote` with up to three references, `notifySales` with the mail and its event, one response | store, email provider, templates |
| Lead store, `internal/db/store.go`, `postgres.go`, `memory.go` | `quote_requests`, `quote_email_events` (or two slices under a mutex) | `CreateQuoteRequest`, `CountQuoteRequestsSince`, `RecordEmailEvent`, `Ping` | PostgreSQL |
| Brevo provider, `internal/email/brevo.go` | none | `send`: two attempts, `Retry-After`, the deadline of its context; `post` | Brevo API |
| SES and log providers, `ses.go`, `log.go` | none | one SDK call; one log line | AWS SDK |
| Provider registry, `factory.go` | a map filled by `init` | `Register`, `NewProvider` | |
| Mail rendering, `render.go` | none | subject, text and HTML bodies, MIME, `headerSafe` | |
| Migrations, `cmd/migrate`, `db.Migrate` | `schema_migrations`, a session advisory lock | lock, create the table, for each file: check, apply and record in one transaction, unlock | PostgreSQL, perhaps through a pooler |
| Connection pool, `db.NewPool` | pgxpool's | configuration only | pgx |
| HTTP server, `internal/server` | none | routes, headers, cache control, request log, recovery | all handlers |
| Process lifecycle, `cmd/server`, `gfs.go` | listener, pool, `sync.Once` | start from `.env` or from the first request, signal, `Shutdown` within fifteen seconds, clean-up | configuration, providers, pool |
| Templates, `internal/templates` | parsed templates, a map of asset URLs | render; fingerprint assets | embedded files |
| Tracking, home and health, `track.go`, `home.go` | none | answer from the request, the configuration or one ping | store (ping) |
| Configuration, `internal/config` | the `Config` value | read the environment and `.env` once | |
| Phone numbers, `internal/phone` | none | `Normalize`, the browser pattern | |
| Content, scripts, styles | constants; the browser's form | send the form, give up after twenty seconds | the endpoint |

Requests may run in two goroutines of one process or on two serverless
instances. They meet in the database, and inside one process in one more place:
the map of asset URLs, which every rendering reads and may write. So the models
put one action on each call that leaves the process and on each access to that
map, and let every other actor move between two of them.

The hard behaviours, in the order of what they can cost:

* A lead is lost, stored twice, or announced without being stored. The insert,
  the mail, the outcome and the response are four effects with no transaction
  around them; each may fail, time out with its effect still to come, or be cut
  off by the process dying. `saveQuote` retries, `send` retries, the visitor may
  have left.
* Sales gets one lead twice. Brevo has no idempotency key, so `send` may retry
  only after an answer that excludes acceptance, and within its deadline.
* A deployment applies a migration twice, or out of order. Deployments overlap,
  lose their connections, and may reach the database through a pooler that
  makes a session lock meaningless.
* The rate limit counts in one statement and inserts in another.
* A release stops the process while runs that may take 29 seconds are at work,
  in fifteen, and closes the pool under those that remain.
* Guards in a fixed order of early returns decide what is stored at all, and
  field rules that are not those of the columns decide what is refused late.
* The browser gives up after twenty seconds on a handler that may need thirty,
  and offers the form again.
* Two renders that fill the asset map at once end the process; a file is cached
  for a year under the fingerprint of whichever release named it, with the bytes
  of whichever answered.
* A start that fails on a serverless instance stays failed.

What makes each part correct:

* Endpoint and store: a reference names one lead; one submission is at most one
  lead; a reference given to a visitor is on record; only forms that pass every
  guard are stored; sales hears only of stored leads, and never of a submission
  whose visitor was told to try again; the event log tells the truth; a run that
  was admitted ends, whoever leaves.
* Rate limit: how far it can be overrun is bounded by the runs that race.
* Forms and data: what validates is stored, complete and under one spelling of its
  phone number, and its mail says whom to answer.
* Browser: a form is on record twice only after its visitor was told it may have
  failed; no page waits for ever.
* Start and site: the environment wins over `.env`; what is up in production has a
  database, a provider, an inbox, an origin and a salt; a page comes with its own
  assets; everyone who comes is answered.
* Provider: at most one mail per call, "sent" only of an accepted one, an end by
  the deadline, a retry neither early nor without room.
* Server process: a stop gives every run its grace, says so when it could not,
  and ends; an answer is in time unless its form was not.
* Migrations: a file takes effect exactly when it is recorded, once, after its
  predecessors; what is printed as applied is; nobody waits for ever.

## 2. The modules

### Quote endpoint

`RequestGuards` — `sameOrigin`, `clientIP` and the guards of `QuoteHandler` as
operators on a `Submission`, the part of a request the decisions depend on. A
missing header is `Absent`, as `Header.Get` returns `""`. Whether the fields
validate is the component `valid`; `LeadTable` ties it to a form.

`QuoteHandler` — the runs of the handler. `pc` is where a run is: `idle`, then
`rate` (the count), `save` (the loop of `saveQuote`), `send` (`SendQuoteNotification`),
`record` (`RecordEmailEvent`), `respond`, and `done` or `killed`.

| Action | Code |
|---|---|
| `Refuse`, `Admit` | the guards, 403/413/400/200/422, quote.go:93-126 |
| `RefuseOverLimit`, `PassLimit`, `FailOpen` | the count and its three outcomes, quote.go:132-147 |
| `InsertCommits`, `InsertCollides`, `InsertFails`, `InsertTimesOut` | one turn of `saveQuote`; a duplicate is retried, anything else ends in the 503 form |
| `SendSucceeds`, `SendFails` | `notifySales` |
| `RecordEvent`, `RecordFails` | `RecordEmailEvent`, whose error is only logged |
| `Respond` | the success fragment or page; any rendering may fail into a bare 500 |
| `Leave` | the visitor goes; the calls run under `context.WithoutCancel` |
| `Kill` | the process dies, in or between calls |
| `LateCommit`, `LateDrop` | the server finishes an insert whose caller has given up |
| `LateDelivery` | the provider delivers a mail whose send failed |

`Faults` is the set of things that may go wrong, so that a run, or a property
with a precondition on `Faults`, can say which world it speaks of. The two
stores differ in nothing the model shows: each enforces the unique reference.
A row's reference stands for its id too, which the unique constraint allows.

`LeadLedger` — what the endpoint promises without handler, database or
provider: a ledger, announcements, a log and one answer for each submission.
`QuoteHandler!ImplementsLedger` is the refinement. The ledger lets a submission
enter after its submitter was told "unavailable", because the code does; it
forbids announcing that one.

`QuoteRate` — `QuoteHandler` with two history variables: the most runs of an
address that were ever between count and insert at once (`peak`), and the runs
the limit did not judge (`slipped`: their count failed, or their insert outlived
them).

`QuoteInvariant` — the inductive invariant the proofs use.

### The data of a lead

A text is the lengths in runes of its parts, which of the runes between them are
control characters (the others are blanks), and whether it is text to PostgreSQL;
a weight is in thousandths of a kilogram; a phone number is its digits, its plus,
its separators and its extension. That is all the rules look at. Control characters
matter because the form and the mail see them differently: `collapseSpace` takes
one for part of a word, `headerSafe` for a blank. A name of nothing else is a name
to `validateQuote` and prints as nothing.

`PhoneNumber` — `Normalize` with its errors, and `InputPattern`, the `pattern`
attribute a browser enforces. `QuoteForm` — both variants of the form, the rules
of `validateQuote` (`Errors`), the record it makes (`QuoteRecord`), and what the
columns take of it (`Storable`: sound text, a weight that is still positive in
hundredths). `LeadMail` — `headerSafe` (`Printed`, what is left of a text without
control characters and with single blanks, and `Cut`, its limit), the subject, the
sender's name and the reply address of `BuildMessage`; where nothing of a name
prints, the sender is the bare address. `LeadTable` joins them with `QuoteHandler`: the
database is up, so an insert fails exactly when a column refuses its value
(`RowFits`, the User-Agent after `truncateBytes` included), and the outcome of a
mail goes unrecorded exactly when `truncate` has cut its error message inside a
rune (`EventFits`).

### The browser

`QuoteSession` — the page and its two forms around `QuoteHandler`. `Submit` sends
what the button allows, `Swap` shows an answer whatever its status, `GiveUp` is
the timer of base.html or a lost connection, after which the form can be sent
again while the first request is still on its way or at work. The timer may ring
at any time: nothing depends on twenty being less than twenty-nine.

### Mail provider

`BrevoSend` — one call of `send` and the API. `Post`, `ReceiveAccepted`,
`StartWait`, `GiveUp`, `LosePost`, `Wake`, `WaitCancelled` are the client;
`Accept(i)` and `Refuse(i)` are the API dealing with request `i`, at once or
long after the client has lost interest, and a 500 may follow an acceptance.
Durations are machine integers of a small width and wrap. `EmailContract` is
what the handler relies on; `BrevoSend` implements it, and `SendSucceeds`,
`SendFails` and `LateDelivery` of `QuoteHandler` are its steps seen from the
other side. `BrevoInvariant` is the inductive invariant.

### Migrations

`Migrate` — concurrent runs of `cmd/migrate`, each with its release's files.
`Acquire`, `CreateTable`, `Check`, `Apply`, `InsertVersion`, `InsertConflicts`,
`Commit`, `NoneLeft`, `Unlock` are its statements; `AcquireFails`,
`StatementFails`, `ConnectionLost` and `Kill` its failures; `SessionEnds` is the
server ending what a run left behind, which carries out a commit it has
received, rolls back anything else and releases the session's lock. Through a
pooler (`Pooled`) a statement outside a transaction may run in any server
session, the lock and its release included. `SchemaLedger` is the promise,
`MigrateInvariant` the two inductive invariants: one for the tables, which needs
no lock, and one for the lock.

### The server process

`ServerProcess` — one process of `cmd/server` with the runs it is working on,
seen as time spent and connections held. What the calls do to the tables is
`QuoteHandler`'s matter.

| Action | Code |
|---|---|
| `Arrive` | a request comes on a kept-alive connection and starts the handler, main.go:47-63 |
| `Connect`, `HeadersArrive`, `HeadersFail` | a new connection is accepted; its first headers come within `ReadHeaderTimeout`, also while the server drains, since `Shutdown` leaves new connections open that long; or it is closed |
| `CallSucceeds`, `CallFails`, `TurnedAway`, `Collides` | what the call of a stage returns and how `QuoteHandler` goes on: the body, the count (3 s, fails open), each insert (5 s, three attempts), the mail (`EmailSendTimeout`), the event (3 s) |
| `Signal`, `BeginShutdown` | `NotifyContext` and the `select` of `run`; a second signal does nothing |
| `ListenerFails` | `ListenAndServe` returns an error: `run` returns without `Shutdown` |
| `Drained`, `GraceEnds` | the two ways `Shutdown` returns, and with them the exit status |
| `Drained`, `GraceEnds` and `ListenerFails` by `ClosePool` | the deferred `cleanup` begins: `pool.Close` refuses new calls at once, and may still be at the destruction of connections |
| `Destroyed`, `Exit` | `pool.Close` waits for the connections in use and for the destruction of each, `CloseTimeout` at most for one whose call hit its deadline; then the process ends under whatever still runs |
| `Tick` | the clock, which waits for what is due |

`Timeout(s)` is the deadline of a stage, `Budget` the sum over a run. `head`, `body`
and `used` are the parts of a run's time: what the first headers of its connection
took, what its form took to arrive, which the read timeout bounds, and what came
after. `RunsHaveTheirGrace` counts the grace from the accept of the connection: a
run whose headers came during the drain has that much less of it, ten of the
fifteen seconds at worst. `ServerInvariant` is the
inductive invariant.

### Start and site

`Configuration` — `.env` line by line (`SetFromFile`; `LineValue` is what a line
reads as, where a note behind a quoted or an empty value is no note) and `LoadFrom`: `Checks` is
what it asks of each variable, `Errors` what it reports, `LoadFrom` the `Config`
of an environment without errors, with the conversions that wrap. `EmailProviders` —
the registry and the factories of the three providers. `Startup` — an instance
that starts: a server (`main`: `ReadLine`, `EndOfFile`, `Load`, `Build`) or a
function (`ServeServerless`: the same without a file, once, when its first
request comes, and with the failure kept).

`Site` — two releases, one instance each, and visitors of the home page.

| Action | Code |
|---|---|
| `PageFromEdge`, `RequestPage`, `Serve` | the page from the shared cache (home.go), or an instance: the once-only start and its 503 (gfs.go:57-76) |
| `BeginLookup`, `EndLookup`, `EndWrite`, `EndRender` | the rendering of base.html; each `asset` reads the map and, when the entry is missing, writes it (components.go:22-35). An access begins and ends in two steps |
| `FatalError` | the runtime notices a write during another access and ends the process; no `recover` stops it |
| `AssetFromCache`, `RequestAsset`, `SendAsset`, `AssetRefused` | the browser loads what the page names; `staticHandler` sends the bytes it has and lets them be cached for a year |
| `StartInstance`, `Starts` | the platform starts a server, a request starts a function |
| `Deploy`, `Overlap`, `Switch`, `PageExpires` | the platform, external: a release comes up, both are in rotation, the old one leaves; a cached page expires |

`SiteInvariant` is the inductive invariant of all of it.

In every module the definitions marked "Fault" are the definition after them
with a plausible bug. Nothing in the specifications uses them; putting one in
place of the real one breaks the property it belongs to (`mutants` in
`PROJECT.json`).

## 3. The runs

| Run | Instance | Shows |
|---|---|---|
| `quote_faults` | two runs of one address, a clean form or a honeypot, two references, every fault, the clock moving past the window; 250 thousand states | the safety properties of section 1 and the refinement of `LeadLedger` |
| `quote_screen` | one run on every combination of headers and body the guards tell apart, every field at and around its limits, names with control characters or of nothing else, 150 spellings of phone numbers, every User-Agent and error message `truncate` tells apart; 40 thousand states | only clean forms are stored; without a trusted proxy a row is filed under its peer; what validates is stored complete, save the two kinds of data the columns refuse; one spelling per number; outcomes are logged unless their message was torn; mails name their lead, or show the bare address of one whose name does not print |
| `quote_rate` | three forms of one address, limit two, three references, failing counts, late inserts, three ticks; a million states up to symmetry | the overrun is bounded by the race |
| `quote_live` | two visitors, one of whom may send twice, so three runs; two references (so collisions exhaust the three attempts), failing counts and mails, fairness | a form is doubled only after bad news; a lead past the limit is saved with its outcome on record or not saved at all, its visitor present or gone; no page waits for ever |
| `brevo_send` | two attempts, eight seconds of two ticks, `Retry-After` from nothing to nine seconds, or the longest there is | the contract, the deadline, the room for a retry, refusals are final |
| `migrate_direct` | three runs of two releases (the second adds a file between two of the first), every fault, direct connections, fairness | order, no stale check, every run ends, the refinement |
| `migrate_pooled` | two runs of two releases through a pooler with two sessions, every fault | without the lock's help: once each, truthful claims, the refinement |
| `server` | two runs of any pace, two attempts, a grace shorter than a run may take, a read timeout long enough for a slow form to lose its answer, one tick of about five seconds for each deadline and three for the grace and for a destruction; 960 thousand states | connections get their grace, headers that come during the drain included; a clean exit is clean; the stop is bounded by the grace, one call and one destruction; only a slow form loses its answer; the process ends after a signal |
| `site` | a quiet start in every environment two variables away from an empty one or from one that works with Brevo or SES, and with every `.env` of two lines out of quoted, unquoted, empty and noted ones, in three environments, one of which lacks only a salt; three visitors of one release, two of a rollout of servers and of functions whose new release cannot start; 125 thousand states, fairness | the environment wins; production is real; limits are positive; only cold renders crash; pages are whole without an overlap; everyone is answered |

The bounds are where the interesting cases start: two runs are enough for each
pairwise race of count, insert and late commit, three for an overrun by two and
for a lock queue in which the first waiter dies; as many references as runs lets
all of them be stored, one fewer makes collisions that never end; a window of
one tick and a horizon of one or two lets a lead drop out of the hour between
two counts. Two renders are enough for a fatal error and three for one that
cuts a third; two assets, one of which the release changes, tell a page that is
whole from one that is not. Two variables at a time reach every rule of
`LoadFrom`, none of which looks at more than two (a variable and what makes the
environment production). `Horizon` is the bound of the clocks; in `quote_live` it
is zero, as no property there depends on the window. With inserts that time out,
lost acknowledgements and killed processes the sessions have 650 thousand states,
and `DuplicatesOnlyAfterBadNews` holds there too.
What the proofs of section 5 cover no longer depends on the bounds.

What is proved as well as checkable is not always in a run: the type invariants,
the inductive invariants, `UniqueReferences`, `LockInv` hold for every value of
the constants (section 5), so the runs spend their time on the rest.

Three runs show the code doing something else than a text of the repository
says:

| Run | Text | What the code does |
|---|---|---|
| `quote_hourly_limit` | README.md:303, a "per-IP-hash hourly limit" | two simultaneous submissions both count zero and both insert: two leads under a limit of one. `RateBound` says how far this goes. |
| `quote_unavailable_stored` | quote.go:152, "We couldn't submit your request right now" | an insert that timed out commits afterwards: the visitor is told to try again and the lead is on record, unannounced and without an event. |
| `brevo_date` | README.md:189, retries "honouring `Retry-After`" | the header's date form is not parsed; the retry follows after the default backoff, before the date. |

## 4. Fairness

`QuoteHandler!Fairness` is weak fairness of each admitted run's own steps: each
call has a deadline of its own (three, five, `EmailSendTimeout` and three
seconds), so it returns or
times out, and Go's scheduler and the HTTP server run every goroutine. Nothing
is assumed of visitors leaving, of late commits or deliveries, of the clock, or
of failures: none is ever forced to happen.

`Migrate!Fairness` is weak fairness of the server ending abandoned sessions (its
keep-alive, or the close of the connection) and strong fairness of each run's
statements: PostgreSQL grants an advisory lock, and lets an insert that waits
for another go on, in the order of the queue, so a run that waits is not passed
over for ever. On a direct connection only: through a pooler the lock may stay
with a session that nobody's statement returns to, until later runs give up on
their context. That is why `EveryRunEnds` belongs to `migrate_direct` alone.

`QuoteSession!SessionFairness` adds that a request that was sent arrives and that a
page shows the answer it got. The browser's timer is not counted on.

`Site!Fairness` is weak fairness of each visitor's request, whose steps are those of
goroutines and of a browser, and of a start that has begun. Deployments, cache
expiry and fatal errors are never forced. A visitor whose process dies is cut off,
which counts as an answer; that the platform starts a server again is its part.

`ServerProcess!Fairness` is weak fairness of the return of each call whose
deadline has come (`context.WithTimeout`, `ReadTimeout`), or that the closed
pool has refused; of the steps `run` takes without waiting; and of time. A
signal, a request and a failing listener are never forced. A connection whose
header timeout has come is closed, and a destruction ends: pgx gives the database
fifteen seconds to close its side.

`BrevoSend` needs none: "ends by the deadline" is a safety property about a
clock that waits for what is due. The client's own steps are taken to be quicker
than a tick.

## 5. The proofs

| Module | Main theorems |
|---|---|
| `QuoteHandlerProofs` | `Typing`, `Invariance`, and from it `ReferencesUnique`, `OneLead`, `AnswersAreTrue`, `AnnouncementsAreSaved`, `RefusalsAreSilent`, `OutcomesAreTrue`, `OnlyCleanStored`; beside it `DirectRowsFiled`, `UnavailableIsUnstored`, and `Refinement`: `Spec => ImplementsLedger` |
| `QuoteSessionProofs` | `DuplicatesHaveACause`: `SessionSpec => []DuplicatesOnlyAfterBadNews`; `DuplicatesAreUnheard`; `SessionImplementsLedger`: `SessionSpec => ImplementsLedger` |
| `QuoteRateProofs` | `LimitOverrunBounded`: `RateSpec => []RateBound`; `LimitHoldsUnraced`: when the hourly limit does hold |
| `LeadTableProofs` | `TableRefines`: `TableSpec => Spec`; `TableInvariance`, and from it `LeadsComplete`, `OnePhonePerNumber`, `StoredUnlessBadData`, `AnswersLogged`, `MailsAreAddressed`; about the operators `HeaderFits`, `NormalizeIdempotent` |
| `BrevoSendProofs` | `Invariance`, `RefusalsAreFinal`, `CallEndsByDeadline`, `RetriesHaveRoom`, `RetriesAreNotEarly`, `Refinement`: `Spec => ImplementsContract` |
| `ServerProcessProofs` | `Invariance`, `RunsGetGrace`, `CleanExit`, `BoundedStop`, `ResponsesInTime` |
| `SiteProofs` | `Invariance`, `FirstSettingAlwaysWins`, `ProductionIsAlwaysReal`, `OnlyColdRendersCrash`, `PagesAreWhole`, `LimitsAlwaysPositive` |
| `MigrateProofs` | `Invariance`, `FilesAppliedOnce`, `ClaimsAreTrue`, `FilesInOrder`, `ChecksHold`, `Refinement`: `Spec => ImplementsSchema` |

The assumptions are the named ASSUMEs of the models: the constants have the
types the code gives them, own, allowed and foreign origins are told apart, a
timeout is in the range of a duration, the stopwatches of `ServerProcess` reach
past every deadline, for the rate limit there are finitely many requests. A line
of `.env` cannot unset a variable, and a variable that is read as a number holds
one, or text that `Atoi` refuses; left to itself, the driver opens at least one
connection. For the data of a lead the database answers in time, the inputs are
forms (`QuoteForm!Form`: any texts, numbers and weights), and a reference has
between 1 and 181 runes, so that it fits the mail's subject (it has seventeen).
They hold for any number of requests, references, attempts, files, runs, sessions,
visitors and assets, and any set of faults; for the sessions, no request is sent
twice.

Five theorems carry a hypothesis of their own, because without it they are false:
`RetriesHaveRoom` and `RetriesAreNotEarly` that the durations involved do not wrap
(`HeadersFit`, `DeadlineFits`), the second also that the API sends no date
(`brevo_date`); `LimitHoldsUnraced`, `UnavailableIsUnstored` and
`DuplicatesAreUnheard` that what the two other violation runs show does not happen.
TLC finds the counterexample when one is dropped.

**The endpoint.** None of the safety properties is inductive alone.
`AnnouncedOnlyIfSaved` needs that a run which may send holds a reference of a
stored row of its own; that, in turn, needs that rows are never shared.
`OneLeadPerSubmission` needs that a run that may insert has left nothing in the
table, among the inserts the server still has, or in the inbox. So `IInv` says,
for each phase of a run, what it has left behind (`Phase`), and adds what ties
responses, rows and events together. The step that carries the weight is the
timeout: a run whose insert is in the server's hands must never come back to
`save`, which holds because only a duplicate is retried and a duplicate excludes
a late commit of the same attempt. The refinement reads the ledger off the
tables, and its only delicate steps are the late ones: a late commit enters the
ledger after "unavailable", and no late delivery can follow it, since the run
never got to `send`.

**The browser.** `SInv` joins the two sides of a form. On the page, every request
but a visitor's last has shown something that left the form in place (`MovedOn`),
which holds because the button waits for the answer; and a refusal on the page is
one the handler gave (`DeclinedTruly`), which holds because an answer, once given,
stands. In the handler, a run that has left a row answers with success, "try again"
or a bare 500, never with a refusal (`RowReplies`): refusals come before the insert,
when `Phase` says there is no row. So a first request on record did not show a
refusal, and what else leaves the form on the page is bad news: "unavailable", or no
answer at all. `DuplicatesAreUnheard` tells the two apart: without insert timeouts a
page that says "unavailable" is right (`UnavailableTruly`, `UnavailableShownTruly`),
and only a browser that gave up leads to a second lead.

**The rate limit.** A run that passes the count with `Recent < Limit` joins the
runs on their way; each insert turns one of those into a recent lead. The sum of
the two grows only when a run passes, and then it is below `Limit` plus the
number already racing. `RateInv` adds to the bound that `peak` covers the race
and that late inserts belong to runs the limit no longer answers for.

`LimitHoldsUnraced` reads the same bound the other way round: where every run was
judged and the race never had two, `Counted` is `Recent` and the bound is the
limit. Together with `quote_hourly_limit` it says that the README's limit fails by
that race, and by the faults it names, alone.

**What the visitor was told.** `UnavailableIsUnstored` is inductive with `IInv`:
a 503 is given from `save` only, where the run has left nothing, and without a
timeout nothing of an answered run is in the server's hands. A process that dies in
its insert leaves one there, but its visitor has no answer.

**The data of a lead.** `LeadTable` fixes what the handler leaves open, so its runs
are runs of the handler (`TableRefines`) and `IInv` holds in it; `FormsInv` adds
that a submission counts as valid exactly when its form has no `Errors`. A row is
then of a form without errors, and the rest is about operators on its data:

* A text that validates is parts of at most so many runes with what is between them.
  What prints of it are its parts that are not empty, in their order
  (`PrintedShape`), so cutting a name in two loses nothing (`CutAtFirst`); a name
  that prints nothing leaves the address (`SenderIsProspect`). The runes up to a
  word are a recursive function (`Through`), about which only its equation is known;
  what is true of every prefix is proved through the least number at which it fails
  (`LeastNatural`, `BoundedInduction`). This gives `HeaderFits`, and that a subject
  cut to its limit still holds the reference whole.
* What `Normalize` returns is canonical (`NormalizeCanonical`) and a canonical
  number is its own outcome, so two spellings of one number meet in one phone.
* A 503 means that no column took the row or that the references ran out, since
  the database is up: the two kinds of data of `UnavailableOnlyForBadData` are what
  is left when the rules of the form are compared with the columns one by one.
* An outcome is lost only with a message `truncate` has torn; so a run that has
  answered has its event on record, which needs `EventInv` to tell whose it is.

**The provider.** The attempt before the current one was refused, so whatever is
accepted is accepted in the last attempt: that is `InTurn` and `Current`, and it
makes "at most one mail" a count of a set with at most one element. A wait is
begun with the room it needs or, where the added second wraps, beyond the
deadline, which ends it (`RoomInv`); and it lasts as long as the API asked
(`PatienceInv`).

**The migrations.** `effects` and `recorded` move together because the record is
in the transaction of its file; two transactions cannot both decide one version
because of the primary key, lock or no lock (`InsertsDiffer`). What the lock adds
is `LockInv`: its holder is the only run past the lock or with a transaction
left behind, so the answer of `SELECT EXISTS` is still true at the commit.

**The server process.** What a run has used is at most what the calls before its
stage may take (`SpentBefore`) and the time in the stage, and the tick that
would pass a deadline waits for the call to return. So the sum over the stages,
the attempts made times the insert's deadline among them, never exceeds
`Budget`: that is the only place where multiplication is needed, and the
counting of attempts. While `Shutdown` waits, every run at work has been at work
at least as long (`Course`), counted from the accept of its connection, because
nothing is accepted once the listener is closed; that is the grace at its end, and
of it no more than the header timeout went to headers. After it only connections
matter: each call that holds one began before the pool closed, so main has waited no
longer than the grace and what that call has spent; its connection is destroyed
after it, which adds `CloseTimeout` (`Destruction`).

`LostOnlyAfterSlowBody` has two parts. That a run takes no longer than its deadlines
add up to holds for any deadlines. That a response is lost only after a slow body
follows while `Budget` is at most `WriteTimeout`, as it is by default (29 of 30
seconds). `LoadFrom` accepts any `EMAIL_SEND_TIMEOUT_SECONDS`; from ten on the sum
reaches past the write timeout, and the second part then excuses every response.

**The start and the site.** `FirstSettingWins` follows from an invariant about the
lines read so far (`FileInv`): the first line for a variable is found once, and
whatever it set is not nothing, so that no later line can set it again.
`ProductionIsReal` is about a value the start carries along (`StartInv`: past its
load an instance has the `Config` of an environment without errors); the rest is
the lemma `NoErrors` about the rules alone. A render that found the map complete
when it began never writes (`MapInv`), because a map only grows in the life of a
process and a process that dies takes its renders with it: that is
`ColdRendersOnlyCrash`. `LimitsPositive` is again about the rules (`NumbersPositive`:
what `LoadFrom` accepts is positive), and about the conversions after them: a
wrapped `DB_MAX_CONNS` falls to the driver's default, a number of seconds below
`SecondsLimit` does not wrap. `PagesWhole` needs that before the switch everything is of
the old release, copies included, and that after it whoever fetches for a new page
is a new instance; copies of old URLs may then hold anything, so what is kept of
them (`ReleaseInv`) is only that New's URLs name New's bytes.

Only model-checked: the five liveness properties (`EveryRunEnds`, `AllOrNothing`,
`PageSettles`, `EndsAfterSignal`, `EveryVisitorAnswered`), which are out of the
prover's reach. Every safety property of a passing run is a theorem, and so is every
refinement. `Through` is the one recursive definition proved about: `ThroughDef` shows
first that there is a function its equation describes. `Bound`, `SecondsLimit` and the
other widths are parameters: the theorems hold for the ones of the code as for the
small ones of the runs.

## 6. Abstractions

* Time is one clock. In the code there are two: `created_at` is the database's
  (the column's `DEFAULT now()`), and the cutoff it is compared with is the
  application's (quote.go:134). Clocks that differ by d shift the window by d, so
  `RateBound` speaks of leads that are recent by the application's reckoning.
* An event insert that fails leaves no event. One that timed out may still commit,
  which the model takes for `RecordEvent`: no step of the code reads the events.
* Hashing an address is one-to-one. The first entry of `X-Forwarded-For` is not
  blank, which holds of the platforms the README names.
* A transaction of the database is atomic and isolated as PostgreSQL's are; the
  memory store's operations are atomic under its mutex.
* In `brevo_send` a `Retry-After` stays in the range of a duration, up to its
  last value, where the room check's added second wraps: the wait is begun, and
  only the deadline ends it (`WaitCancelled` happens in no other way). Beyond it
  `time.Duration(secs) * time.Second` (brevo.go:227) itself wraps and the retry
  comes at once, room or no room; that takes 292 years in seconds, so it is
  recorded as a hazard and not checked.
* `Migrate` counts statements of a file as one effect: a file is one
  transaction.
* A migration run that dies while it waits for the lock takes it in no model;
  the server drops a dead waiter from the queue.

* `ServerProcess` counts in ticks of about five seconds, and its stopwatches stop
  at `Cap`, which its assumption puts past every deadline; the proofs show none
  gets there early. `Shutdown` notices an idle server at once (its poll
  waits half a second at most); every
  call on the database gets a connection at once (a wait for one counts as time
  in its call, but the order of those waiting is not there); without a limit the
  count takes no time. Pages, probes and static files are not among the runs. A
  process that is killed outright is in `QuoteHandler`.

* `LeadTable` leaves out the layout of a text: its parts and their lengths decide
  every limit, and blanks are collapsed before anything counts them. A weight below
  a thousandth of a kilogram is not there; it goes the way of those below five.
  A tab in a phone number passes the browser pattern's `\s`; in the model it is a
  character like any other that `Normalize` refuses, so the pattern is stricter
  there, of numbers that are never stored. The cargo details
  are trimmed and not collapsed; their limit is counted as if they were.
* In `Site` an instance stands for a release; a fingerprint stands for the bytes it
  is a digest of. The browser's own cache is the shared one. A write of the map
  that meets another access may end the process, lose an entry or go unnoticed:
  the choice is open, as the data race leaves it.
* The fields of `Config` that change no decision (port, sender's name) are left out.

What the models made visible and no property states as a promise:

* phone_test.go:47 says "Every number the server accepts must also pass the browser
  pre-check". What is stored does (`PhonesCanonical`); what is typed need not: the
  server accepts more than twenty characters with their separators, and blanks
  before the plus, and the pattern refuses both.
* quote.go:327 asks for "a weight in kilograms between 1 and 1,000,000"; 0.5 passes,
  so does NaN, which is stored, and 0.001 passes and is then refused by the column
  with a 503 (`UnavailableOnlyForBadData`).
* brevo.go:57 and ses.go check the sender with `mail.ParseAddress` and then use it as
  it was typed: "Name <a@b>" passes and is sent as an address.
* server.go:124 calls fingerprinted files safe to cache for ever. With two releases in
  rotation an instance of the old one sends its bytes under the new fingerprint, and
  the shared copy outlives the rollout by a year; `PagesWhole` has that case as its
  exception. What becomes of copies when a release is rolled back is not modelled.
* dotenv.go:42 says that inline comments of unquoted values are stripped. Behind an
  empty value none is: the value is trimmed before ` #` is looked for, so
  `IP_HASH_SALT= # at least 16 characters` sets a salt of the text of the note, and
  a file of the kind passes the rule that production needs one.
* `ServeServerless` has no caller in the repository: README.md:73 names api/index.go
  and vercel.json, which are absent. It is modelled as the README describes it.
* A duration beyond 292 years (`EMAIL_SEND_TIMEOUT_SECONDS`) wraps into a timeout that
  is over before it begins; `LimitsPositive` has it as its exception. A wrapped
  `DB_MAX_CONNS` is left to the driver, so there are connections all the same.

Not modelled, and why:

* Site content, styles, the markup of the templates, the theme and the hero slides:
  constants and presentation; nothing in them depends on an earlier step.
* The layout of the mail's bodies and the MIME encoding: text without state, whose
  correctness is a comparison with an expected string.
* Tracking and health: each answers from the request and one setting, or one ping.
* Security headers and the request log: written per response and never read.
* Sends through SES and the log provider: one call into the AWS SDK, whose retries are
  outside the repository, and one log line. `EmailContract` is what the handler needs.
* The queue for a database connection is pgxpool's. It shows as a call that times out.

## 7. Plan

Done: the endpoint with its ledger, rate limit and proofs; the provider; the
migrations; the life of a server process; the data of a lead; the browser's session;
configuration, start, templates and cached files under a rollout.

Left: the order of those who wait for a connection, added to `ServerProcess`; the
copies of an old release's assets, about which `ReleaseInv` says only that New's URLs
name New's bytes.
