# Formal models of sunbird-devops

The repository installs and operates the Sunbird platform. Most of it is
configuration (Ansible roles, Helm charts, Jenkins jobs); the programs it adds
of its own are few and small, and they are where states, failures and
interleavings live. This directory holds TLA+ modules of those programs, TLC
configurations that check them on small instances, and proofs that TLAPS checks
for every instance.

Paths below are relative to the repository's root. `PROJECT.json` lists, for
every definition that stands for code, the lines it stands for.

## Inventory

| Part | State it keeps | Operations | Status |
|------|----------------|------------|--------|
| Login pages, `ansible/artifacts/sunbird/login/`: the second half of `resources/js/telemetry_service.js`, and the templates | `sessionStorage` of the tab, `localStorage` of the browser, the shown elements, timers | evaluation of the script, `onload`, the handlers of the forms | modelled but for one form, proved |
| Update password form, the same script and `login-update-password.ftl` | two fields, a button, waiting handlers | keys, pastes, `validatePassword`, `matchPassword` | modelled, proved |
| Telemetry library, the first half of that script (from line 1661) | configuration, context, the shared envelope, fingerprints awaited, the queue and the posts | the calls of `EkTelemetry`, the listener, posts and their answers | modelled, proved |
| Earlier login script, `resources/js/login.js` | the same storages and elements | the same pages | modelled but for its `validatePassword` and `matchPassword`, as the specification of a page; the refinement is proved |
| Kafka topic exporter, `exporters/Go/kafka-topic-exporter/main.go` | reader positions, goroutines and their contexts, the shared channel, `lastReadMessage` per request; committed offsets in Kafka | `serve`, `metricsCreation`, `pushMetrics`, `Store`, `commitMessage` | modelled, proved |
| Kong API onboarding, `ansible/static-files/kong-api-scripts/kong_apis.py`, `common.py` | APIs and plugins in Kong; requests still to send | `save_apis`, `_save_plugins_for_api`, `retrying_urlopen` | modelled, proved |
| Kong consumer onboarding, `kong_consumers.py` | consumers, groups, JWT credentials, rate limits in Kong | `save_consumers` and its four helpers | modelled, proved |
| Cassandra backup, `ansible/cassandra-backup.yml`, role `cassandra-backup`, `deploy/cassandra_backup.py`, upload tasks of three cloud providers | snapshots on the nodes, backup directories, the copies in cloud storage | two plays, the copy pool, clearing, upload | nightly job modelled, proved |
| Cassandra restore, `deploy/cassandra_restore*.py` | the data directory | copy or stream every table | planned |
| TCP logger, `exporters/Go/tcp-logger/main.go` | two connections and two copying goroutines per client | accept, dial, copy, close | planned |
| Ambari collector, `images/azure-ambari-prometheus-exporter/collector.py` | `prom_metrics`, an expiring cache | `collect` and one collector per source | planned |
| OPA decision log plugin, `kubernetes/opa-plugins` | plugin status, configuration under a mutex | `Start`, `Stop`, `Reconfigure`, `Log` | planned |
| OPA policies, `kubernetes/opa` | none | decisions about one request | planned, as operators |
| Kong plugin patches, pipelines, roles, charts, install scripts, vendored code | that of the products they configure | | not modelled |

How they meet: the exporter stands between Kafka and Prometheus, and concurrent
scrapes meet in its one channel. The two onboarding scripts know nothing of each
other and meet in Kong, where a consumer's rate limit is a plugin of an API. The
backup job meets the database's writers and the clock. Between these groups
there is no shared state, which is why there is no module that composes all.
The login page and its telemetry library are one script, yet meet in few places:
the page starts the library when it knows the organisation, writes an event per
click (`logInteractEvent`), and sets the batch size. What the page needs of the
library is that a click logs before it leaves, and that is where it fails while the
organisation is not known (`Logs` in `LoginPage`); what the library needs of the page is in
`SetBatchsize`. They are therefore modelled apart.

What is hard in them:

* telemetry: every call writes into one object, and a fingerprint dispatches that
  object in a later timer; posts that end in any order, or fail;
* login pages: storages that outlive the page, in two scopes; parameters that only
  some pages have; handlers that throw half way; timers after clicks; one script
  for three forms, which must do what the script before it did;
* update password: two handlers, each of which sees half of the rule;
* exporter: a goroutine per message, so samples arrive in any order; goroutines
  that outlive their request; a client that leaves; commits that are not tied to
  delivery; a process that restarts at committed offsets;
* onboarding: scripts that stop between any two requests, answers that are lost
  after the request took effect, retries of requests that are not idempotent,
  and two scripts that compare lists while the other changes them;
* backup: names derived from a clock that is read more than once, workers whose
  exceptions are printed, tasks that wait for all nodes, leftovers of a job
  that failed under the names the next job uses, and nodes that upload to one place.

## Modules

| Module | Models | Uses |
|--------|--------|------|
| `Telemetry` | the telemetry library and its sync manager | |
| `TelemetryProofs` | its theorems | `Telemetry` |
| `LoginForms` | what both login scripts share: the forms, the items of the storages, the destinations | |
| `LoginPlain` | `login.js`, the specification of a page | extends `LoginForms` |
| `PasswordForm` | the form of the update page and its two handlers | |
| `LoginPage` | a tab with the login pages, by `telemetry_service.js` | extends `LoginForms`, `PasswordForm`; `LoginPlain`, through the refinement mapping |
| `LoginPageProofs` | its theorems, the refinement among them | `LoginPage` |
| `Consumer` | what the exporter promises to Kafka (abstract) | |
| `TopicExporter` | the exporter | `Consumer`, through the refinement mapping |
| `TopicExporterProofs` | its theorems | `TopicExporter` |
| `KongAdmin` | Kong's Admin API (external) and the retrying client `common.py` | |
| `KongAdminProofs` | what a key, a request and its effect are | `KongAdmin` |
| `KongApis` | `kong_apis.py` | extends `KongAdmin` |
| `KongApisProofs` | its theorems | `KongApis`, `KongAdminProofs` |
| `KongConsumers` | `kong_consumers.py` | extends `KongAdmin` |
| `KongConsumersProofs` | its theorems | `KongConsumers`, `KongAdminProofs` |
| `KongOnboarding` | both scripts on one Kong | instances of `KongApis` and `KongConsumers` |
| `KongOnboardingProofs` | its theorems | `KongOnboarding`; instances of the two modules of theorems |
| `CassandraBackup` | the backup job | |
| `CassandraBackupProofs` | its theorems | `CassandraBackup` |
| `MC...` | small instances for TLC | the module they are named after |

### Telemetry

An event is the number of its call: `log[n]` is what call `n` wrote into the one
`telemetryEnvelop`, and the envelope is always `log[Len(log)]`. `Write` is the way
each of the eighteen calls takes (`updateValues`, `getEvent`, `_dispatch`); `start`,
`end` and `event` are the three kinds that differ in state. `_dispatch` ends in one of
three ways: validation drops the event, the event is handed to the listener
(`sendTelemetry`) at once, or it waits for a fingerprint (`getFingerPrint`).
`FingerprintResumes` fires the oldest timer. Fingerprint2 collects 32 components and
pauses before some of them; `chainComponents` computes from the list and the exclusions
that one pause is left, before the fonts. The completed fingerprint dispatches
the envelope *as it is then*, which need not be the event that asked for it.

The sync manager holds copies, numbered in `copies` as they are dispatched.
`syncEvents` moves the first `batchsize` of the queue into a post; `PostDone` and
`PostFails` answer any post, in any order. A failed post puts its copies behind the
queue (`updateEventStack`); the server may have taken them, so delivery is not
exactly once, and no property says so. The payload of an event is left out, but for what
`_dispatch` decides on: kind, environment, device, actor, valid or not.
`env`, `dropped` and `amid` in a log entry, `acked` and `retried` are history.

### PasswordForm

`Key` is a key in one of the fields: the handler is scheduled by a `setTimeout`,
then the field changes; `Handle` runs the oldest one. `Paste` is a change that calls
no handler (both hang on `onkeyup` and the like), and what it may break is left
to the server: `PasswordGate` speaks of forms filled by keys. A password is the empty one,
one that `specRegex` accepts, or one that it does not.

### LoginForms, LoginPlain, LoginPage

A page is a request: the parameters of its URL, the form the server rendered and the
message in it (`Requests`). One value stands for the five of the account that is
migrated (`identifierValue`), which are looked up and stored together; the label of
the user name stands for the labels of the fields. `Open` evaluates the script
(`initialize`), `Onload` is `window.onload`, cut where it can throw
(`Unless`); a handler that throws leaves the rest undone. A page whose script
was not evaluated (no client id; a `pdata` that is not JSON) has no handlers. `OrgAnswered` is the
answer to the page's search for its organisation. A click may start a timer:
`doLogin` then `Submit` 500 ms later, `ForgotKeycloak` then `LeaveForgot`; other clicks
may come between. `NewTab` has a session of its own and the browser's `localStorage`.

`LoginPlain` is the script this one replaced (`theme.properties` still names
both), written as one step per effect: what a page does to the storages, which
elements it shows, where a click may lead. `LoginPage` implements it (`ImplementsPlain`) with `PlainSession` and
`PlainPage` as the mapping: the timers, counters and the item `renderingType` are
hidden. Two steps are allowed on top. `LostClick`: before the answer about the organisation, or
without one, a click throws in `logInteractEvent` and leads nowhere.
`DockClick`: a dock portal has no page to select an organisation, so the new script
goes back to the entry's host instead. The button that iOS hides exists in the new
script only and is outside of the mapping.

Left out: the form for one-time passwords, the handlers of elements that no template
has (`.loginButton`, `backToApplication`), the branch of `onload` for a page without
a version (2749-2755), which asks for a version too and so is dead. `unClickable` is
kept as the class it sets; no style sheet gives that class a rule, so it stops no click.

### TopicExporter

`Serve`, `Silence`, `ContextDone`, `CommitNext`, `CommitFails` and `Return` are
`serve` and `commitMessage` cut where the handler can be overtaken: at its
select, and between two commits. `Fetch`, `FetchCancelled` and `FetchFails` are the
loop around `FetchMessage`; `Create` is a message's goroutine up to its first
send. A send over an unbuffered channel happens together with its receive, so
`Deliver` is both, with the write to the response and `Store`. Of a message the
model keeps partition, offset and the number of samples; 0 samples stands for a
message that is not JSON as well as for one without metrics, which take the same
way out. `Cancelled` replaces the context of a request that has ended, since
nothing can tell two cancelled contexts apart. `Silence`, the one-second timer,
needs that nobody is blocked in a send: such a sender would have been received.
Rebalancing of the consumer group is not modelled: one process consumes.
`Crash` keeps what Kafka and Prometheus have and resets the rest.

### KongAdmin, KongApis, KongConsumers, KongOnboarding

An entity of Kong is a key; its value is the release whose input wrote it last.
That tells apart all that the properties need: there or not, and by whom. A
request creates, patches or deletes a key. Kong rejects what has a missing owner
or a name that is taken, and deletes what hangs on a deleted entity; this much
of Kong is assumed, as the scripts rely on it. The client retries every failure,
rejections included (`HTTPError` is a `URLError`), and then the script
ends. A fault makes a request fail before it takes effect (`Refused`), after it
(`Lost`), or stops the script (`Abort`). A script reads a list, decides on all
requests that follow from it (`pending`) and sends them, creations before updates
before deletions, as the three loops do; within a loop any order is allowed,
which is more than the code does. `Start` starts a script again after a failure
with the same input, and after a success with any release's input: an upgrade or
a rollback.

`KongOnboarding` puts the steps of both scripts side by side over the same
variable `kong`. Their Jenkins jobs each disable concurrent builds, so one run of
each is all there can be; nothing keeps the two jobs apart from each other. The
PATCH of a plugin names a wrong id in its URL and the right one in its body
(`kong_apis.py:62-63`); the model takes Kong to let the body win, and a Kong that
did not would break `DoneMeansConverged`.

### CassandraBackup

A node's data is a version number, so that a table copied too late, too early or
from the wrong snapshot is seen. The first play (`TakeSnapshot`,
`SnapshotKeepingOld`, `SnapshotFails`) handles one node at a time, and its failure
ends the playbook. The second handles all nodes, each task on every node before
the next (`InStep`, Ansible's linear strategy); a node that fails leaves.
The comment above the second play says it runs serially; only the first play has
`serial`, and the model follows the plays.
`Prepare`, `Walk`, `CopyTable`, `CopyFails`, `ClearSnapshot`, `StartUpload`, `Upload` and
`Cleanup` are the role's tasks and the script between them. Workers may finish in any order.
`ScriptFails` is the script's exits before and after the copies, and its end after the four hours the
role gives it, with copies pending.
`taken`, `takenOn`, `lost` and `opening` are history: no action reads them.

Where an upload goes is decided when it starts (`Destination`), and differs by
`cloud_service_provider`. The folder's name holds the node and the day (`UploadAs`); all nodes
and days share the path it is sent to (`SharedPath`).

* Azure: `azcopy copy <folder> <container> --recursive` makes a folder of that name.
* AWS: `aws s3 cp <folder> s3://<bucket>/<path> --recursive` copies the files of the folder straight
  under the path.
* Google: `gsutil cp -r <folder> gs://<bucket>/<path>` makes a folder of that name if there
  is something under the path already, and renames the folder to the path if there is not. All nodes start at
  about the same time, so that each may find nothing (`pathExists`).

`cloud` is the set of copies of tables with where they are. Files are added to what is
there; those of two nodes may have the same name (SSTables are numbered from one on every node), and
then one overwrites the other: `Uploaded` leaves open which copies are hit, of those another node has sent
to the same place before (`Beside`) or is sending at the same time (`Rivalled`), and a copy
that is hit is `Incomplete`. Two jobs of one node on one day send to one folder, where their files add up.

So on S3 all nodes and all nights share one path, and a job without any fault ends well although
a node's tables are overwritten. It is the third case of `DoneMeansBackedUp`, and all that can be
said of a copy there is that it arrived, whole or with files of another node in place of its own. To see it, set `Providers = {"aws"}` (or
`{"gcloud"}`) and `MaxDay = 0` in `backup_midnight.cfg`: `SnapshotIsUploaded` is then violated within one day, by two
nodes that upload one after the other; with `{"azure"}` it holds there. The restore role
(`roles/cassandra-restore/tasks/main.yml:32`) asks S3 for one file under the path, so it does not say what the
path was meant to hold.

## Runs

| Run | Question | Instance |
|-----|----------|----------|
| `telemetry_events` | does the sync manager keep what it is given, is an event lost or repeated only when overtaken, do starts and ends nest, is everything dispatched in the end? | 3 events of any kind, 3 options, 2 configurations, 1 change, 1 failed post, fair |
| `login_pages` | do the pages of a tab keep entry, merging and failures apart, does the button of the new password stay a gate, and does the script do what `login.js` did? | 11 kinds of pages, 3 pages per tab, 4 steps, 3 edits |
| `exporter_overlap` | do offsets, samples and `lrm` stay right when scrapes overlap and everything fails, and is the promise to Kafka kept? | 1 partition, 3 messages of 1, 0 and 2 samples, 2 requests |
| `exporter_live` | do scrapes end and goroutines drain? | 2 messages, 2 requests, fair |
| `exporter_eventually` | is everything exported in the end? **no** | 1 request, no failures, fair |
| `kong_apis` | does a run converge, without an outage, from any half-done state, even when Kong holds more than a page? | 4 APIs, 2 plugins, 3 releases, pages of 3, 3 faults |
| `kong_consumers` | the same for consumers, their groups, tokens and limits | 2 consumers, 2 groups, 3 releases, one of them without consumers, 2 faults |
| `kong_wrong_delete` | is the plugin deleted the rate limit? **no** | a release takes a limit away |
| `kong_onboarding` | do the two scripts disturb each other? | 2 APIs, 1 consumer, limits on both |
| `backup_days` | is what is copied one snapshot, is what is stored under a node and a day of them, and complete? does a job end when nodes drop out? | 2 nodes, 1 table and an ignored one, 3 providers, 2 days, 2 jobs, 1 fault, fair |
| `backup_cleared` | is a snapshot cleared only when copied? **no** | 2 tables, Azure, one day, a failing copy |
| `backup_midnight` | does a job without failures upload what it took? **no** | 2 tables, Azure, two days, no fault |

The runs marked **no** check a sentence of the repository (a comment, a README, a
log line), quoted at the property, and end in a counterexample; `PROJECT.json`
lists them under "findings". All others pass.

What the passing runs say, in short:

* a copy the sync manager was given is queued, in one post, or acknowledged, and never in two
  of them. But not every event becomes a copy: one that is written while the device
  has no id is lost if another call writes the envelope before the fingerprint is complete, and
  the other one is then dispatched once more (`LostOnlyIfOvertaken`, `RepeatedOnlyAmid`:
  this and nothing else). A click that leaves a page before its first fingerprint is
  complete writes such a pair: its INTERACT, then the IMPRESSION of the exit;
* the redirects of a tab go back to its entry whatever was opened in between; merge mode stays
  for all tabs of a browser until a page ends it; a third wrong password cannot
  happen, unless the browser merges accounts both ways at once; a form is submitted
  twice when it is clicked twice within 500 ms;
* the new login script does what the earlier one did, but for the two steps above,
  of which the lost click is one that users would notice;
* the exporter keeps at-most-once: within one process a sample is written once,
  and a commit names a message that was fetched and of which something was
  written. It does not keep at-least-once: nothing ties a commit to delivery,
  and a commit covers lower offsets that were never served;
* the onboarding scripts converge from anything an earlier run may leave, and
  once the faults stop a repeated run does end well, unless what is left over is
  more APIs than a page holds: then every run fails until somebody deletes some
  or raises `max_page_size`. Lost answers show up as additional JWT credentials only, and do not invalidate a token;
* the deletion of a rate limit is the exception: `DoneMeansConverged` of
  `kong_consumers` is checked with inputs that take no limit away, because with
  them line 97 deletes another plugin (`kong_wrong_delete`), and is proved for inputs that do not take away
  and set limits on one API (`LimitsApart`);
* a node never copies tables of two moments, and a folder in the cloud that is named after a
  node and a day holds data of that node and that day only. Under the path that S3 shares
  among all nodes and nights, nothing keeps them apart, neither nodes nor days;
* a backup job that reports success may still lack tables, in three cases: a copy failed; the day changed
  between the plays; another node sent its files to the same place. On Azure, in the first two only.

## Bounds, and why they are enough

`LogEnd` 2 or 3: offset 0 (never committed), an offset that is committed, and one
in between. Two requests: two contexts, a handler that receives what another's
goroutine sends; a third adds no kind of overlap. Two samples in a message: one
sent, one held. One cluster is enough: that the promise holds over several, with the
early return past the rest of them, is proved (`RefinesConsumer`) for any number.

Three events (`MaxCalls`): two that wait for fingerprints and one between or after
them. A batch of two, with a page that sets it to one, cuts a queue in the middle; one failed post
makes one order of events wrong; `MaxChanges` 1 is one reset, explicit sync or change of the batch size
at any point. One kind of `event` stands for fifteen.

Three pages in a tab: an entry, a retry and what follows; two tabs and more may follow
each other with any `localStorage` between them. `MaxSteps` 4 bounds pages, clicks and
changes of focus together, so that two clicks are possible on the second page. Passwords are
edited on the first page only (`EditPages`), since a page starts with an empty form,
three times (`MaxEdits`): fill both, and change one. Versions 2, 3, 4 and 10
are one on each side of the comparisons, and the one for which the comparison as a
text differs from that as a number.

`Tries` is 2 instead of 5: one attempt that is repeated and one that is the last.
`MaxFaults` 2 or 3 lets a run fail and its successor fail as well. The consumers' third release is empty.
Among the releases there is an API (a consumer) that only the first has, one that only the second has, and
one in both. Pages of three APIs hold what two neighbouring releases leave together, and
not what the first and the third do. `MaxCredentials` leaves room for one credential per fault and more,
so that the bound is never what stops a POST.

Two nodes make one wait for the other, and overwrite the other's files. `backup_days` has one table that is
copied and one that is ignored, because three providers with a second table take TLC too long:
each table is compared with the snapshot, not with another table, so a second one adds orders of copies and
no kind of step, and the theorems hold for any set of them. The two violations are found with two tables. `MaxDay` 1 gives one midnight, anywhere in two jobs; `MaxWrites` 1 lets
the live data differ from a snapshot; `MaxJobs` 2 lets a job find the leftovers
of another, and one fault is enough to make them. `CHECK_DEADLOCK FALSE` is set for the backup, which stops after
`MaxJobs` jobs, and for the two browser modules: a page that nobody clicks stands still.

Symmetry is used in `exporter_overlap` only, over requests, which no definition tells apart;
what is checked there is safety.

## Fairness

* Exporter (`Fairness` in `TopicExporter`): Prometheus goes on scraping, and fetches,
  timers and commits that can happen do. A client's departure, a crash, an
  error and a new message are never forced. `Deliver` is strongly fair per message: Go queues senders
  blocked on a channel in order of arrival, and a select with several ready cases
  chooses among them at random, so a sender that is offered a receiver again
  and again is received. `exporter_eventually` drops the failures (`CalmNext`) and keeps
  the fairness, so its counterexample is not a stop and not a crash.
* Telemetry: a timer that was set fires, and the browser ends every request with
  some answer. Calls are not fair: nobody has to write an event.
* Login pages: none; what is checked there is safety.
* Onboarding: a request that is due is answered in the end, and the operator
  starts a failed job again. Faults are bounded, never forced and never excluded.
* Backup: Ansible drives its tasks. `StartJob` is not fair: nobody has to start one.

## Proofs

`TopicExporterProofs` proves, for every finite or infinite set of clusters,
partitions and requests, every `LogEnd` and every `Size` (the assumptions named in
`TopicExporter`):

* `TypeCorrect`: `Spec => []TypeOK`. `TypeOK` is not inductive alone: `Deliver`
  subtracts one from `left`, and `lrm` and `written` must stay in range. `TypeInv`
  adds that a goroutine has at most the samples of its message left, and at
  least one when it is sending.
* `CommitsStayBehind`: `Spec => []CommittedWithinFetched`. An offset reaches Kafka by
  way of a goroutine and `lrm`, so the strengthening `OffsetInv` says the same of every
  station: goroutines hold fetched messages (`BehindReader`), what is stored in `lrm` was
  served by this process and is behind the reader (`StoredServed`). A restart
  moves the readers back to the committed offsets; it keeps the invariant because it
  empties all the stations at the same time.
* `WrittenAtMostOnce`: `Spec => []SampleWrittenOnce`, by `OnceInv`: every written or
  held sample belongs to a message behind the reader, so a new goroutine, whose message is at the
  reader's position, can hold none of them.
* `StoresLatest`: `Spec => []StoredIsLatest`. `LatestGrows` is the reason: `Store` keeps the greatest
  of what a response has samples of when one more arrives; only a delivery stores, and a
  return and a crash forget the response together with `lrm`.
* `RefinesConsumer`: `Spec => ImplementsConsumer`, with `served` mapped to the messages of the
  samples in `written`. `Deliver` maps to `Serve`, `CommitNext` to `Commit` or a
  stutter, `Crash` to `Restart`; the proof uses `OffsetInv` to show that a
  commit is of a served message behind the reader.

`CassandraBackupProofs` proves, for any set of nodes and tables, any of the three providers and any `MaxDay`,
`MaxWrites`, `MaxJobs` and `MaxFaults`:

* `TypeCorrect`: `Spec => []TypeOK`. A snapshot is looked up under `name[n]`, which
  is `None` until the folder is named; `TypeInv` adds which tasks a node can be at
  while the playbook stands somewhere (`Staged`), that a folder that is worked on
  has a name (`Named`), and where an upload may go (`Directed`).
* `CopiesOfOneSnapshot`: `Spec => []CopiesAreTheSnapshot`. A copy reads whatever bears
  the folder's name, and old snapshots may still be there when a clearing failed.
  `CopyInv` says why none of them is found: the snapshot this job took is the latest
  the node has (`LatestTaken`), none is named after a day to come (`NoneAhead`), and
  the folder is named no earlier than the snapshot (`NamedLater`).
* `CloudIsFresh`: `Spec => []FreshForItsDay`. `FreshInv` says of all three stations,
  snapshots, folders and cloud, that what is under a day is data of that day (`OfDay`).
  `OfDayStep` shows that writes and midnight keep it, `StationStep` that a
  station takes only what the station before it has. In the cloud, `CloudOfDay` says it of the copies in
  a folder that bears a node's name, and `UploadedCopies` that only that node's upload puts or hits any there.
* `DoneIsBackedUp`: `Spec => []DoneMeansBackedUp`. `Progress` says for each task how far
  the snapshot has come, with the same three excuses; `LatestTaken` shows that a snapshot
  there is, so that `Submitted` is every table. An upload hits copies of other nodes only, in its own destination,
  so it spoils those of nodes that share it.
* `AzureKeepsNodesApart`: on Azure the third excuse is void. `Directed` says that azcopy's destination
  bears the node's name, and a pair with another node's is another folder.

`TelemetryProofs` proves, for any configurations, options, batch sizes and bounds
(the assumptions named in `Telemetry`), with one invariant, `IInv`:

* `TypeCorrect`: `Spec => []TypeOK`. A callback names the event of `log[Len(log)]`; that there is
  one follows from the timers' calls being calls. A timer stops at a component only if
  `chainComponents` does; `ChainPauses` computes it for every component.
* `KeepsCopies`: `Spec => []NothingLost`. The queue, the set of posts and the
  acknowledged copies are parameters of `Kept`, and a lemma each says what appending, cutting,
  an answer and a failure do to it. `SyncCuts` reduces every batch size, one that is
  undefined included, to some beginning of the queue.
* `NamesDevice`: `Spec => []DeviceNamed`. An event may be dispatched by its own call or by a
  callback; both name the device before they dispatch, and no later step takes a name away.
* `LosesOvertaken`: `Spec => []LostOnlyIfOvertaken`. Not inductive alone: when a timer fires it is
  gone, and the event of its call may be another than the one dispatched. `Known`
  supplies that the event of the timer's call is then the last, or was awaited when the last was
  written.

Three more properties have a strengthening each, on top of `IInv`. `Steps` reduces a step to what
they tell apart: a call (`Writes`, `Remembers`), a timer, a post or its answer.

* `RepeatsAmid`: `Spec => []RepeatedOnlyAmid`. `Once` says that a call dispatches one copy at most: one that waits
  has dispatched none, was accepted, and waits once. `ByDispatcher` says that whoever dispatched a copy
  wrote its event, or waited when that was written. `OnceBounds` then maps the copies of
  an event one to one to these calls.
* `EndsNest`: `Spec => []NestedEnds`. The formula alone does not say how deep a START lies, and an END
  closes the last one only: `Deep` says that from the i-th START held to the last call, STARTs exceed ENDs by
  one for the last held, by two for the one before it, and so on. `CountAppend` counts on.
* `LeavesInOrder`: `Spec => []OutOfOrderOnlyRetried`. `Ordered` says it of any queue, of the copies that have left it and of
  those put back; a lemma each shows that appending the greatest copy, cutting at any place and
  a failed post keep it.

The Kong modules are proved for any APIs, plugins, consumers, groups, releases of the
input, page size, number of attempts and number of faults, from the assumptions `KongAdmin` and
the two scripts name. The one that is about a bound is `CredentialsAssumption`, `MaxFaults <
MaxCredentials`: a consumer has one credential, and one more for each lost answer, so the bound on
credentials never stops a POST. `KongAdminProofs` says what the keys of each kind
are, and what an accepted request does to a key (`EffectOn`), to the types and to owners.

`KongApisProofs`:

* `TypeCorrect`: `Spec => []TypeOK`; `RunsConverge`: `Spec => []DoneMeansConverged`. Each entity
  the script manages has a `Goal`: this release, or absence. `PendingRightful` says that
  every request still to be sent brings its key to its goal, `Settled` that what the loops have
  visited has its goal or a request on its way. Deleting an API takes its plugins along, so
  that what is there has its owner (`Owned`) is part of the invariant.
* `KeepsServing`: `Spec => NoOutage`, from `PendingRightful` alone: a DELETE is of what no input of
  the release wants.

`KongConsumersProofs`:

* `TypeCorrect` and `CredentialsBounded`: `Spec => []TypeOK`, `Spec => []CredentialsPerFault`. `BaseInv`
  says which requests each stage of the two loops may have pending (`PendingRightful`), and that a credential
  that is about to be created is not one too many (`RoomForOne`): that request is decided on when the
  consumer has none, and only an attempt of it whose answer was lost, a fault, can have made one since.
* `TokensStay`: `Spec => TokensStayValid`. Only a deletion of a consumer reaches a credential.
* `RunsConverge`: `LimitsApart` implies `Spec => []DoneMeansConverged`. `ConvergeInv` says it of the consumers marked absent
  (`AbsentGone`), of those the loop has been through (`Dealt`), and of the one at hand as far as its
  stage goes (`CurrentRight`). The hypothesis `LimitsApart` is about the input: no release
  takes away a rate limit of one consumer and sets one of another on the same API. Without it the
  formula is false, because line 97 deletes another plugin than the one it means, which may be the limit
  of a consumer the loop has been through; TLC finds that in a scratch run whose release mixes
  the two, and none where the release only takes away. `DoneMeansConverged` says nothing of limits that are to go.

`KongOnboardingProofs` proves of both scripts on one Kong:

* `LimitsSurvive`: `Spec => OverridesSurvive`, without a hypothesis on the input;
* `ApisStay`: `KeepsLimits` implies `Spec => []ApisConverged`. `KeepsLimits`: no release takes a rate limit
  away; line 97 may delete a plugin of the API's own, and then `ApisConverged` is false.

The composition is proved from the proofs of its parts: `P` and `Q` are instances of the two modules of
theorems, the lemmas `Same...` show that the scripts' actions mean the same in them, and then each script's invariant has to
survive the other's steps. What survives is the part about its own requests, `P!RequestsInv` and
`Q!BaseInv` (together `Undisturbed`), which is why they are stated apart; `Settled` survives because no step of the
consumers' script changes what the other manages (`ConsumersElsewhere`). `ConvergeInv` does not survive: the deletion of an API
takes its rate limits along, and no theorem says it does.

`LoginPageProofs` proves, for any pages, passwords and bounds (the assumptions named in
`LoginForms`, `PasswordForm` and `LoginPage`):

* `GateHolds`: `Spec => []PasswordGate`, for any rule that does not accept the empty password. The formula speaks of a
  form whose handlers have run; `FormInv` says what holds before that: the handlers that wait
  are all of one field (`OneField`), and with none waiting, or once they have run, the button
  is enabled for good pairs only (`Guarded`).
* `TypeCorrect` and `SubmitsAreEarly`: `Spec => []TypeOK`, `Spec => []NoLateSubmit`, from `TabInv`: what the storages
  may hold, what a page looks like before its onload (`AsRendered`), that each submit so far or
  still waiting is an early click (`TimersType`), and that a page counts one wrong password at
  most, so that the count is bounded by the pages (`CountInv`).
* `UrlIsEntry` and `RedirectsAreOfEntry`: `Spec => []SessionUrlIsEntry`, `Spec => RedirectsOfEntry`, from `UrlInv`, which has the page
  that `session_url` (`EntryInv`) and `redirect_uri` (`UriInv`) come from at hand.
* `OneLinkShown`: `Spec => []OneForgotLink`. `ForgotInv`: which of the two links a loaded page hides
  depends on the version the tab has stored, and a later click stores no other.
* `MergesWhenAsked`: `Spec => []MergingIsAsked`, if only the login form is opened to merge accounts
  (`MergesOnLogin`, as the portal's links do). `MergeInv` relates the two storages to the pages that last set
  them (`AutoInv`, `AskedInv`) and what a page offers to both (`OfferInv`).
* `FailuresAreCounted`: `Spec => []FailuresCounted`, under `MergesOnLogin` and `RetriesBare`: a page with the
  message of a wrong password, which Keycloak renders on its own URL, brings no account to be merged without
  the link back. `FailedInv` adds to `MergeInv` that only a second failure leads to the status page.
* `RefinesPlain`: `Spec => ImplementsPlain`. Its steps are `onload`, for which `OnloadPlain` shows that the script's
  chain of functions stores, shows and links what `login.js` does in one step, and the clicks
  (`HandledPlain`). `PlainInv` is needed where the steps of one click are apart, or where `login.js`
  looks a value up again: while the link to a new password waits for its timer, `session.url` is still the page and the
  link still shown (`WaitInv`); a page not loaded yet hides only what it was rendered with, and its own
  `redirect_uri` is stored (`ReadyInv`).

The first half of that module evaluates the script: a lemma per function says what it reads, stores and hides, up
to `OnloadIs`; `StepIs` says that a step opens a page or a tab, loads, or is `Handled`, which is all that most invariants
need to know of a click. All theorems but the first have the hypothesis `PageApart`, the last `PlainApart` as well: the
value `None` is not a record with the fields of a page. It stands for a null pointer, and every instance
has it so; it is a hypothesis because TLC cannot evaluate the domain of a model value.
`MergesOnLogin` and `RetriesBare` are about the pages that are opened; `MCLogin` assumes both of its pages, so TLC
checks them, and scratch runs with other pages do violate the two properties.

Each theorem is laid out with one lemma or step per action and closed with PTL. TLC checked
the strengthenings, as it did the properties, on the instances of the runs first, or in scratch runs of them.

Only model-checked: liveness (`RequestEnds`, `GoroutinesDrain`, `RunsComplete`, `JobEnds`,
`EventuallyDispatched`), which needs fairness and ENABLED and is out of the prover's reach. Every
invariant, action property and refinement that a passing run checks is also proved.

## Plan

Done: the login pages with their refinement of the earlier script, the password form
and their proofs; the telemetry library and its proofs; exporter with its refinement and
proofs; onboarding scripts and their composition; the nightly backup and its proofs.
What could follow, most valuable first:

1. `CassandraBackup`: the script run by hand (own snapshot, `--workers`, tar
   and removal of the directory), then `CassandraRestore` reading what the
   backup stored, and their composition: what is restored is one snapshot.
2. `AmbariCollector`: metrics that stay in `prom_metrics` after their source is
   gone or changed, scrapes that raise half way, the expiring cache.
3. `TcpLogger`: a connection's two directions, the first to end closing both;
   what each side receives is a prefix of what the other sent; no goroutine stays.
4. `DecisionLogs`: the plugin's status under `Reconfigure` and concurrent `Log`.
5. `OpaPolicies`: the rules as operators over small requests, against a
   reference table of grants.
6. Proofs: that the consumers converge on one Kong with the other script, for which a theorem has to say which
   rate limits the deletion of an API takes along; and of the modules above as they are written.

## Not modelled, and why

Roles, charts and pipelines are declarative or one linear sequence of commands;
what could go wrong in them is in the products they drive. Vendored programs
(`prometheus.lua`, the MongoDB module, python-keycloak, the Kong plugins besides
the patch) belong to their projects. So does the beginning of `telemetry_service.js` (ajv, CryptoJS,
uuid, ua-parser, the components of Fingerprint2), of which `Telemetry` has the order and the pauses of the components;
`mongodb_replication_params.js` is a template that lists hosts. The installation menus are shell input and output.
The text of a metric, of a log line or of a JSON document is nowhere part of a model.
