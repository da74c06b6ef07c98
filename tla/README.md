# A verification of firewall-automation

This directory holds TLA+ models of the firewall automation service, TLC
configurations that check them on small instances, and proofs, checked by TLAPS,
that the most important properties hold for every value of the constants. The
models are translated from the code under `src/`; `PROJECT.json` maps each
definition to the lines it stands for.

The service reads alert mails from an IMAP folder, decides which of the two
endpoints of an alert (origin and impacted) may be blocked, adds them to one or
several rules of a Sophos firewall, and keeps retrying what failed. A dashboard
shows and administers all of it. State that survives a restart is in SQLite (and
on the firewall); everything else is in threads of one process.

## 1. Inventory

| Component | State | Operations | What makes it correct |
|---|---|---|---|
| Retry queue (`database.py`, `email_monitor.py`, `retry_actions.py`, `api.py`) | `pending_blocks`, outcome columns of `alerts`, the in-memory set `_retrying_ips` | reserve, record attempt, resolve, recovery from alerts, cancel, pause, resume, retry now, delete alerts | no failed block is forgotten; a row goes only when its address is settled or an administrator removes it; an alert turns final only when all its candidates are settled; failed alerts settle in the end |
| Alert pipeline (`_process_message`) | one row of `alerts` per message | look up, skip, record, filter, decide, block, reserve, save | what it leaves in the database at any crash point is picked up again |
| Startup scan and UID polling (`email_monitor.py`, `email_client.py`) | `imap_uid_checkpoints`, `stored_emails` | select, search, fetch, store, move the checkpoint | what is at or below a checkpoint was processed, apart from what the code passes over and one message per crash; other mail is processed in the end |
| Endpoint decision (`endpoint_registry.py`) | none of its own; reads the registry | classify both sides, look the pair up in the decision table | protected addresses are never targets, unprotected ones always are, no registry means no block |
| Rule updater (`rule_updater.py`, `xml_handler.py`, `firewall_client.py`) | one login and `_HostCreator` per call; the firewall's rules and host objects | trust guard, login, and per rule fetch, host object, upload, verify | success means every rule; only overlapping calls lose entries; nothing is listed twice |
| Protected endpoints (`database.py`, `allowed_ips.py`) | `protected_endpoints`, `protected_endpoint_audit` | add, edit, enable, disable, delete, import, export, classify | values are unique; the changes in the audit trail explain every row; imports pass over nothing |
| Legacy endpoint migration (`legacy_endpoint_migration.py`) | `app_migrations` | import of `.env` and text files, once | complete although it may be cut short; never brings back what was removed |
| Event bus and SSE feed (`event_bus.py`, `logger.py`, `api.py`) | bounded queue per subscriber, the `logs` table | record and publish, subscribe, unsubscribe, wait in the executor | a stream shows the log in order without gaps unless its queue was full; streams end when browsers leave or the server stops |
| Connectivity monitors (`firewall_monitor.py`, `email_connectivity_monitor.py`, `*_status.py`, `email_client.py`) | cached status of each service | periodic check, check on demand, write by the mail client | each change of status is announced; the status becomes right |
| Settings (`settings_service.py`, `env_file.py`, `config.py`) | the `.env` file | show, save, load at start | a field that was left alone keeps its value or gets back the one the page showed, and a masked password its own; the program starts again |
| Formatting and rotation of logs, error texts, authentication, pages, export | none, or written and never read | formatting, rendering | not state machines; not modelled |

How they interact. `main.py` imports the legacy endpoints, then starts the
email-monitor thread, two connectivity threads and the dashboard, whose requests
run in a thread pool. The monitor scans the latest mails once, then loops: retry
worker, poll, sleep. Both it and the dashboard (`retry_now`) call
`rule_updater.block_ip`; both write `pending_blocks` and `alerts`. Every write
transaction of `database.py` holds one process-wide lock, so a transaction is
atomic, and everything between two transactions interleaves. The pipeline and the
trust guard of `block_ip` read the registry that administrators change. The
firewall has no transactions: `block_ip` reads, edits and writes back whole rules.

What is hard. Lists read once and worked through while others change the table;
results that arrive after their row was removed; an alert with two candidates of
which one fails; exceptions and crashes between blocking, reserving and saving; a
recovery step that infers the queue from alerts; requests to the firewall that
fail after they took effect, and two calls that write back the same rule; new
generations of a mail folder; checkpoints and stored mails in separate
transactions; checks and writes of the dashboard in separate transactions; a
status with several writers around slow probes; streams that share the threads of
one executor; forms that are older than the file they change. `PROJECT.json` lists the hazards, each at its line.

## 2. Modules

| Module | Models | Used by |
|---|---|---|
| `RetryQueue` | the retry queue with everything that writes to it, and the pipeline | `MCRetryQueue`, `RetryQueueProofs` |
| `RuleUpdate` | `block_ip`, request by request | `MCRuleUpdate`, `RuleUpdateProofs` |
| `BlockService` | what callers of `block_ip` rely on | refined by `RuleUpdate` (`RuleUpdateProofs`) |
| `EmailIngest` | startup scan, polling, checkpoints, folder by folder | `MCEmailIngest`, `EmailIngestProofs` |
| `EndpointDecision` | classification and decision | `MCEndpointDecision`, `EndpointDecisionProofs` |
| `ProtectedEndpoints` | registry, audit trail, import of the legacy sources, dashboard requests, classifications | `MCProtectedEndpoints`, `ProtectedEndpointsProofs` |
| `LiveFeed` | event handler, event bus, `/api/events` streams, executor, shutdown | `MCLiveFeed`, `LiveFeedProofs` |
| `Connectivity` | cached statuses and everything that writes them | `MCConnectivity`, `ConnectivityProofs` |
| `Settings` | settings page, rewrite of `.env`, `load_config` at the next start | `MCSettings`, `SettingsProofs` |

Each `MC` module gives small values to the constants; each `Proofs` module extends
its component with the inductive invariant and the theorems. Definitions that
start with a comment "Mistake:" are not part of the models: each is a variant of
the definition below it, with a bug one could well have written, against which a
property is tried.

### RetryQueue

`alert[m]` is the row of a message: status and candidate column. `action_taken` is
not a variable: it is `failed` exactly when the status is `processing_failed`.
The candidate column names addresses or texts: a rejected alert without candidates
falls back to its origin field, which may be a host name or anything else
(`Fallback`, `Texts`), the recovery step queues what it finds there, and `block_ip`
refuses it.
`pending[a]` is the queue row of an address. `pc`, `msg`, `todo`, `ip`, `results`
are the local variables of the monitor thread, `web[o]` those of a dashboard
thread in `retry_now`. Each transaction is an operator with its Python name. One
call of `block_ip` is one step with four results; a failure may have reached every
rule all the same. `inRules` remembers what `block_ip` has verified; that
concurrent uploads may undo it is the subject of `RuleUpdate`. `reachable` stands
for the firewall and the registry answering: the code treats the failure of
either alike, as a failed block in the retry paths and a rejected alert in the
pipeline.

Abstracted: retry history and attempt numbers shown to users (of an entry only
whether it was tried); notifications; the
search for a legacy alert without message id; parsing. Statuses with the same
transitions are one (`ignored`, `rejected`). `failures` is a history variable: the
candidates of each message whose block failed and whose retry was not cancelled.
When the process dies, or the pipeline raises, `ForgetUnreserved` takes out those
that had not been written to the queue, but only if the row of the alert leads
back to them (it is missing or one that the next start processes again) or another
thread has settled the alert meanwhile. Deleting alerts takes nothing out: the
queue keeps what it was told. A text with several addresses is queued as one entry
here; the code splits it at commas.
Addresses only ever become protected here; removal from the registry is in
`ProtectedEndpoints` and `RuleUpdate`.

### RuleUpdate and BlockService

A rule is the sequence of its source networks, each a host object's name or, on
old firmware, the address itself. Guard, login, fetch, host object, upload and
verification are steps of a call; each may fail before or after it took effect,
and an upload may be dropped although it is reported as done. The trust guard's
answer is a free choice: the registry it reads is in `ProtectedEndpoints`. An
administrator of the firewall may take entries out by hand.

`before`, `added` and `taken` are history variables of a call: whether its address
was in every rule when it began, and what others have put into or taken out of
some rule since. With them `BlockService` says what callers may rely on although
calls overlap: a call puts its own address in, undoes at most what was done since
it began, and its result tells the truth unless somebody interfered. `RuleUpdate`
implements it (`ImplementsBlockService`) with `inAllRules` mapped to the addresses
that every rule lists and a call reduced to whether it is busy, its address, its
result and its history. `RetryQueue` uses the same contract in its operator
`block_ip`.

### EmailIngest

A message is its UID in a generation (UIDVALIDITY) of its folder. `pc` names the
exchanges with the mail server and the transactions of the scan and of a poll; a
cycle visits the folders in order, and an error ends it. The server is up or down
as a whole, and some messages (`Refused`) are listed and never handed out; a folder
may get a new generation unless a session has it selected. `leftOut`, `unread` and
`cut` are history variables: messages that the latest-N rule left out, those the
startup scan failed to fetch and passed over, and those that were at hand, after
the checkpoint had moved, when the process died. `_process_message` is one step
here.

### LiveFeed

A logging thread enters the handler (`Handle`, under the handler's lock), records
the event, copies the set of subscribers and puts the event into their queues one
by one. A stream subscribes, then checks whether to go on, hands a blocking `get`
to the executor, whose threads are fewer than the streams, and sends what it got.
Browsers leave at any time, and the server may be told to stop. `received`, `since`
and `full` are history: what a browser was sent, where in the log a stream began,
and whether its queue ever overflowed. The keep-alive of an empty wait is the step
`Timeout`.

### Connectivity

`status[s]` is the cached status. A check reads it, probes, and writes and logs the
outcome; a check of IMAP or SMTP goes through the mail client, which writes the
status itself first. The email monitor uses the mail client too. `touched` says
that another thread wrote the status between the beginning of a check and its
first write, and `replaced` what that write replaced. Cycles of the loops, their
order of services, and exceptions the checks do not catch are kept. The firewall's
check is that of SMTP without the client's own write.

### Settings

The file is a sequence of lines, each a key with a value or no key. A save holds
the event loop from reading `.env` to writing it; a page is rendered in a worker
thread and may read the file while a save has truncated it, so that it shows
blanks and defaults. A form is what the page showed with some fields changed,
submitted whenever the administrator likes. `save` keeps, besides the lines to be
written, the history of the save: the file before, the form, and the page it was
made from. `Effective` is what `load_config` makes of the file, `Accepts` that it
does not refuse it. `Stored` is what a save writes for a value (addresses of
`NOTIFICATION_EMAIL` are joined again), `Parsed` what the loader makes of one (a
blank `ORG_NAME` and a startup limit that is no positive number become the
default); `Malformed` and `Unusable` say for each key which values the form and the
loader refuse. Other keys that stand in for a missing one (`SMTP_USERNAME`,
`SMTP_PASSWORD`, `SMTP_FROM`) are left out, and so is `SMTP_USE_TLS` being off
while `SMTP_USE_SSL` is on.

### EndpointDecision

A field of an alert is what the classifier's tests see of its text: blank,
masked, malformed, a range, several addresses, a host name, one address. The two
sides are classified in two steps, each with its own read of the registry, which
administrators change and the database may refuse to give. `coveredAt` and
`openAt` remember which addresses some registry of the decision covered, or some
available one did not.

### ProtectedEndpoints

`row[i]` and `audit[i]` are the row and the audit rows of an id. The import at
start handles one legacy value per step and nothing else runs until it is
recorded; a crash between any two steps starts it again. Requests check and write
in separate steps. A thread that classifies an endpoint reads the table in one step
(`match_endpoint`) and writes the `CLASSIFIED` audit row of the entry it matched in
a later one, when the entry may have changed or gone. `AuditRow.action` tells the
rows of changes from those of classifications, which hold no row of the table;
`TrailExplainsRow` is about the former. Audit rows that name no entry (summaries of
imports, exports and migrations) are left out.

## 3. Runs

Bounds are chosen so that each hazard can happen: two candidates, two alerts that
share an address, two threads, one crash.

| Run | Question | Instance |
|---|---|---|
| `retry_pair` | Is every failed block kept until it is settled, and is an alert final only then? | one alert with two candidates whose rows may be deleted, monitor and one dashboard thread, administrator, one crash or exception |
| `retry_shared` | Does one row serve two alerts, and is "Retrying" always cleared? | two alerts, both naming an address that may become protected, one of them with a host name to fall back to, one crash or exception |
| `retry_live` | Does every failed alert settle? | one alert with two candidates (or, when one is settled, one), one crash or exception, fairness |
| `rules` | Do concurrent calls do what `BlockService` promises? | two callers, two rules, two addresses, one entry taken out by hand |
| `ingest` | Is no mail lost over generations and crashes, and all processed? | two folders, the first in two generations with one message each, the second with three messages of which the last is never handed out, N = 1, one crash |
| `decision` | Who becomes a target while the registry changes? | all pairs of fields, all subsets of four entries |
| `protected` | Do trails, imports and the migration stay complete? | two dashboard threads, one that classifies, two values, three ids with two changes and one classification each, one crash |
| `feed` | Do streams show the log in order, and end? | two threads, two events, two streams with queues of one that share one executor thread, a shutdown |
| `connectivity` | Are changes announced, and does the status become right? | IMAP and SMTP, the email loop, the mail client, one dashboard thread, one flip, one exception or refused message |
| `settings` | Does a save leave alone what the form left alone, and does the program start again? | eight fields, two browsers, two saves, three files, one crash |
| `claim_CancelledNotResurrected`, `claim_EntriesPreserved` | Statements of the repository that the code does not meet | section 5 |

The bounds are named in the constants: `MaxFaults` caps crashes and exceptions (a second crash only repeats the first,
since all that survives is the database, whose states the interleavings reach
anyway; the proofs need no such argument); `MaxRemovals` caps hand edits of rules,
of which one is enough to come between any two steps of a call; `MaxUid`,
`Volume` and `MaxValidity` cap the mail, `MaxId`, `MaxChanges` and `MaxMatches` the
registry's table and its trails (an entry is added, classified and changed or
deleted, in any order the code allows); `QueueSize` 1 with two events overflows a queue; `MaxFlips` 1 lets a service
change under every step of a check; `MaxSaves` 2 lets a form be older than a save.
`Remembered` names the alerts the history `failures` is kept of, which only
`retry_pair` reads.

Every property of a passing run is tried against a bug in the model (`mutants` in
`PROJECT.json`) that it must catch.

### Fairness

`retry_live` assumes weak fairness of the monitor thread and of a `retry_now`
request that has started: `run_forever` catches every exception and sleeps for a
bounded time, and all network calls have timeouts. Nothing is assumed of
administrators, who need do nothing. That the firewall and the registry answer
from some time on, and that no row stays paused, are premises of
`FailedAlertSettles`, since the code can promise nothing otherwise.

`ingest` assumes weak fairness of the monitor; `MailIsProcessed` has the premise
that the server stays up from some time on, and promises nothing of a message that
is never handed out, nor of what comes after it in a cycle, since the error ends
the cycle there. `feed` assumes that the event loop runs every stream that is
ready, that the executor starts what waits when a thread is free, and that every
wait ends, by an item or by its timeout of two seconds; nothing is assumed of
browsers, of the threads that log or of cancellation. `connectivity` assumes that the loops
never end (they catch every exception) and that checks return, because their
requests have timeouts; nothing makes anyone ask for a check, and
`StatusConverges` has the premise that the service stays as it is. Exceptions the
checks do not catch are bounded (`MaxFaults`): an IMAP check that raised in every
cycle would keep the SMTP check after it from ever running.

## 4. Theorems

All are of the form "the specification implies ..." for every value of the
constants that satisfies the module's named assumption: any number of alerts,
addresses, threads, folders, crashes.

- `RetryQueueProofs`: `TypeCorrect`, `RetryingShown`, `NothingForgotten`,
  `LeavesSettled`, `FinalSettled`. The type invariant is strengthened by what the
  local variables of each thread mean (`Threads`): that the address at hand is in
  `ip` at the locations of a retry, that a thread past an accepted result has a
  settled address, that `results` agree with the location, and by `LeadsBack`
  (theorem `AlwaysLeadsBack`): while the pipeline is at work on an alert and has not
  saved it, its row is one the next start processes again or another thread has
  settled it, so that a crash may forget what was not reserved. Since addresses never
  become unsettled, a thread that resolves late, after another did, is harmless.
  `RetriesLeaveQueue` is the action property: the lemma `QueueChanges` says for
  every step of `Next` what it may do to a row, and by the invariant a retry only
  ever reports on the address it holds.
- `EndpointDecisionProofs`: `TypeCorrect`, `TargetsOpen`, `OpenTargeted`,
  `ApprovalUsable`. The invariant says that the history variables cover the
  present registry while a decision is under way, and that the classification of
  the first side stays faithful to its field and to a registry that has been there.
- `EmailIngestProofs`: `TypeCorrect`, `CheckpointNeverAhead`, `OnlyTheCutIsLost`,
  `OnlyNewerPolled`. The invariant says what is covered at each location of the
  scan and of a poll: everything before the message at hand, in the session's
  generation, which is the checkpoint's, and that of what is covered only the
  message at hand may still wait for its processing.
- `RuleUpdateProofs`: `TypeCorrect`, `NeverTwice`, `NoDanglingReference`,
  `SuccessIsHonest`, `LossNeedsOverlap`. The properties are not inductive, because
  what an upload writes was read earlier: the invariant adds that the copy a call
  holds is without duplicates and lacks its address, that the rule has gained
  nothing since that `added` does not name, that the creator's host object exists,
  and that a rule marked as done still has the address unless `taken` names it.
  Every step that replaces a rule has to keep this for all calls under way
  (`NoticedHolds`).
- In the same module `Implements`, the refinement. The invariant is extended by
  what the history of a call says of its address: an address that was everywhere
  still is unless it was taken out; whatever gets as far as an upload was needed;
  and unless the address was complete before or others put it in, some rule will
  not be found to have it (`Lacking`), so that "duplicate" is true. Each step is
  then one of `BlockService`, or one it does not see.
- `ProtectedEndpointsProofs`: `TypeCorrect`, `TrailExplains`,
  `MigrationCompletes`, `RemovedStays`, `ImportPasses`. The invariant says that
  ids not given out have no row, that requests and classifications run only after
  the import was recorded, that until then every row comes from its first source and none has
  gone, and that the import has handled the values before the one at hand. That a
  change or a classification appended to a trail keeps it a chain are lemmas about
  sequences (`ChangeAppended`, `OtherAppended`).
- `LiveFeedProofs`: `TypeCorrect`, `FeedInOrder`, `NothingMissed`. The feed of a
  stream (shown, in hand, in its queue) is kept as one sequence: increasing, a part
  of the log, and, while an event is on its way to it, older than that event. The
  invariant adds what makes this inductive: under the handler's lock one thread at
  a time has the youngest event (`EmitHolds`), a stream has at most one call in the
  executor, and one that was cancelled may leave a call behind that takes an item
  with it (`PoolHolds`), and a closed stream holds nothing (`ClosedHolds`).
- `ConnectivityProofs`: `TypeCorrect`, `ChangesAreAnnounced`. The invariant says
  that a check no other thread came between has, until its first write, read the
  status as it is, and afterwards replaced what it had read.
- `SettingsProofs`: `TypeCorrect`, `Untouched`, `Restarts`, `SavedPairs`. First the
  algorithms: `NewKeysListed` (each updated key the file lacks is listed once, by
  its rank in the form), `RewrittenLines` and `WrittenLines` (which lines
  `write_env_pairs` changes and adds), `LastCounts` (which line is read), and from
  them `SavedPairs`: `read_env_pairs` of a file that was written gives the updates
  and every other key as before, unless an updated key was assigned twice.
  `EffectiveAfter` lifts it to the settings in effect, through defaults, older
  keys and boxes. The invariant says that the lines at hand are those of the form
  and of the file before the save (`SaveHolds`) and that a page, whenever it was
  rendered, is one a browser can submit (`PagesHold`). From the constants the
  proofs take that keys are listed once, that a secret has neither a default nor
  an older key, that a box is on or off by default, that the loader makes of a
  stored value what it makes of the typed one, and that nothing but a blank of a
  key with an older one is stored as a blank; all are read off `_FIELDS`,
  `_DEFAULTS`, `save_settings` and `load_config`, and TLC evaluates them on the
  instance.

Only model-checked: liveness (`FailedAlertSettles`, `MailIsProcessed`,
`StreamsEnd`, `QueuedIsShown`, `StatusConverges`), which TLAPS does not reach. All
other properties of the passing runs are theorems.

## 5. Divergences

Checked by a run of its own:

1. **A cancelled retry comes back** (`claim_CancelledNotResurrected`). If an
   administrator removes a row while the pipeline is between reserving it and
   saving its alert, `cancel_pending_block` finds no failed alert to mark; the
   alert is then saved as failed and the recovery step queues the address again.
   `database.py:1121` says it cannot be resurrected.
2. **Entries get lost** (`claim_EntriesPreserved`). Two overlapping calls of
   `block_ip` fetch the same rule; the later upload writes back a copy without the
   entry the earlier one has put in, be it before or after that one has verified it.
   `README.md:329` says all existing entries
   are preserved.

Also met while modelling; the models contain this behaviour, and no property here
denies it:

- An alert saved as `partially_blocked` is not matched by the update in
  `resolve_pending_block` (`database.py:1212`), so it stays partial when its last
  candidate is accepted (`README.md:344` says it is updated).
- While one of two failed candidates is still queued, the recovery step queues the
  accepted one again each cycle (`database.py:1287`).
- The worker retries an address whose row was removed after the list was read
  (`email_monitor.py:1407`, against the comment at `database.py:1003`).
- Two threads that retry one address share its mark; the first to finish clears it
  (`database.py:1023`).
- A fetch that fails in the startup scan turns a final alert into a failed one
  (`email_monitor.py:1327`).
- An alert that was rejected because its origin field is a host name or no address
  keeps that text as its candidate (`email_monitor.py:822`). When a fetch that fails
  in the startup scan turns it into a failed one, the recovery step queues the text
  (`database.py:1285`), `block_ip` refuses it at every retry
  (`rule_updater.py:399`), and the alert never settles; `FailedAlertSettles`
  therefore promises nothing of an alert with such a candidate. A text that names
  several addresses is split at its commas, and the addresses in it are queued and
  blocked although the decision refused them.
- An alert that the next start processes again because its row was paused, and that
  an administrator cancels meanwhile, is forgotten if the process dies before it
  reserves the address again (`email_monitor.py:621`).
- A reservation resumes a paused row (`database.py:1051`).
- The trust guard runs before login and uploads, not "at the moment of the actual
  firewall call" (`rule_updater.py:376`).
- The startup scan moves the checkpoint beyond messages it could not fetch
  (`email_monitor.py:1374`); a checkpoint with UID 0 is taken for a missing one
  (`email_monitor.py:1528`). A message the server lists and never hands out ends
  every polling cycle, so newer mail of its folder and all mail of later folders
  waits for ever (`email_monitor.py:1536`). A process that dies between checkpoint
  and processing loses the message at hand unless the next startup scan still
  finds it among the latest.
- A host name of hexadecimal digits and dots counts as malformed before the
  registry is asked (`endpoint_registry.py:283`).
- An edit in the dashboard writes the whole row as its form showed it and may
  enable an entry that was disabled meanwhile; an import counts a row as imported
  although another request added the value first (`allowed_ips.py:207`).

- A box of the settings page whose key is missing in `.env` and whose default is on
  in `load_config` (`IMAP_USE_SSL`, `SMTP_USE_TLS`, `DASHBOARD_AUTO_OPEN_BROWSER`),
  or whose value is "yes", "1" or "on", is shown unticked, and a save of the
  unchanged page writes "false" (`settings_service.py:145`).
- The page accepts values that `load_config` refuses at the next start: ports out
  of range, SSL and STARTTLS at once, and lists without an entry (","), which for
  `NOTIFICATION_EMAIL` are written as an empty value (`settings_service.py:204`)
  although a blank is to leave the value untouched (`settings_service.py:178`).
- A key that occurs twice: the first line is rewritten, the last one counts
  (`env_file.py:36`), so a changed value takes no effect.
- The page says of a password "Leave as-is to keep the current value unchanged"
  (`settings.html:21`), but a form that showed no password yet clears one that was
  saved meanwhile from another browser: its blank counts as an explicit one
  (`settings_service.py:184`). `UntouchedStays` therefore says that a save
  may bring back what the page showed, except for a password shown masked; the
  instance has a password that is missing at the start, so that this happens
  within two saves.
- A form that is older than another save writes the old values back. A page
  rendered while a save has truncated the file shows blanks and defaults; a save of
  it clears secrets and unticks boxes. A crash between truncating and writing
  leaves `.env` empty (`env_file.py:56`).
- A check that began before the last one and ends after it overwrites the newer
  status until the next check. Overlapping checks may announce a change twice or
  not at all, and a loss that the mail client notices first is never announced by
  the check (`email_connectivity_monitor.py:38`). A message the server refuses sets
  SMTP offline until the next check (`email_client.py:357`).

## 6. Plan

The order follows what the service must never get wrong.

1. Done: `RetryQueue`, `RuleUpdate` with `BlockService`, `EmailIngest`,
   `EndpointDecision`, `ProtectedEndpoints`, `LiveFeed`, `Connectivity` and
   `Settings`, with proofs.
2. A composition of `RetryQueue` with `BlockService`, so that `block_ip` of the
   queue is the abstract service, and of `EmailIngest` with the pipeline.
3. `RuleXml`: search for the container of source networks and structural
   validation, as operators checked against reference definitions.

## 7. Not modelled

Formatting and rotation of logs, error texts, pages, export and authentication
keep no state or only render it. Schema migrations other than the endpoint import
are SQL run once before any thread starts. Configuration values that are not on
the settings page are parsed once at start. Login variants, status codes and the
XML of the firewall are in `RuleUpdate` only as requests that succeed or fail.
