# Formal model of the UrraHosting web panel

TLA+ modules, TLC runs and TLAPS proofs for the panel in this repository: a
Flask dashboard that deploys one user application per instance through an
orchestrator, which alone talks to Docker.  Paths below are relative to the
repository; `services/` and `blueprints/` stand for `dashboard/app/services/`
and `dashboard/app/blueprints/`.

## 1. The system

The dashboard is one gunicorn process with one worker and eight threads
(`dashboard/Dockerfile`).  Each thread serves one request at a time, blocking
on files, on git and on HTTP calls to the orchestrator.  The orchestrator is a
second process whose handlers run in threads and act on containers by fixed
names.  Neither process has a lock that covers a whole operation.

| Component | State | Operations | Interacts with | What is hard | What makes it correct |
|---|---|---|---|---|---|
| Deploy cycle: `services/deployment.py`, `blueprints/deployment.py`, the deploy endpoint of `blueprints/repository.py` | `_git_clone`, `_upload_stage`, `source/` | deploy from git, deploy from upload, rollback | manifest, tracker, orchestrator | several threads at once, every step can fail, the process can die | only a version that answered its health check is routed to; a reported success is what runs; every request is answered |
| Deployment manifest: `services/deploy_manifest.py` | `state/deploy.json` | read, record success, record failure, roll back | written by the deploy cycle, read by several pages | a load that fails looks like an empty document; the history is capped | current, rollback target and history agree |
| Progress tracker: `services/deploy_progress.py` | one object in memory | start, set stage, append log, finish | admits deploys; read by the stream | two deploys write it | it is lowered again; the bar does not go back |
| Orchestrator, deploy part: `orchestrator/app.py` | images, app and candidate containers | build, start / probe / discard candidate, activate | Docker | handlers overlap, outlive their caller, fail between two Docker calls | the rollback target has an image |
| Orchestrator client: `services/orchestrator_client.py` | none | one blocking call each | orchestrator | 300 s timeout while the handler goes on | what goes on alone harms no later deploy |
| Progress stream: `blueprints/deployment.py`, `blueprints/console.py`, `static/app.js` | position in the tracker's versions, the threads that streams hold | open, poll, end, reconnect | tracker, thread pool | holds one of eight threads; may miss states; the page reconnects for ever | ends with the deploy; shows the last state; a deploy still gets a thread |
| Managed database: `services/database.py`, `blueprints/database.py`, `db_*` handlers | encrypted state file, database container and volume, backup files | provision, rotate, backup, restore, deprovision | orchestrator, environment of the app | three places hold the credentials and change one after the other; helpers outlive their caller | the record opens the database; data is not forgotten; a reported backup is whole |
| Repository configuration: `services/repository_state.py`, `services/git_repository.py`, `blueprints/repository.py` | `repository.json`, `deploy_key`, `known_hosts` | set, generate key, scan and trust host, list, check | git | load, modify, save without a lock, with the network in between | ssh is only used with a confirmed host key; the key shown is the key in use |
| Users: `services/users.py`, `blueprints/users.py`, `blueprints/auth.py` | SQLite table, session cookies | create, update, log in and out | every endpoint | check and update are apart; a cookie outlives the role it names | nobody but the last administrator ends administration; changes are made by administrators |
| Staging storage: `services/storage.py`, `blueprints/files.py` | `staging/` with its `.part` files | list, upload, rename, delete, quota | none | uploads of one name share a temporary file; the quota is checked before or after the copy | quota; no mixed or cut file under a name |
| Source policy: `services/source_validator.py`, `services/dockerfile_validator.py`, `services/archive_extract.py` | none | validate tree, Dockerfile, archive | deploy cycle | parsing at boundaries | nothing outside the policy is accepted |
| Application environment: `services/env_store.py`, `config/reserved_env.py`, `blueprints/environment.py`, `static/app.js` | encrypted `app.env`, the page's copy | load, edit, save | deploy cycle, managed database | the page saves redacted values back; a deploy reads minutes before it applies | what is saved reaches the application |
| Platform configuration: `config/platform_config.py`, `config/runtime_profiles.py` | none | validate | everything, at start | numeric edges | bad settings are refused |
| Console: `blueprints/console.py`, `services/docker_client.py` | none | start, stop, restart, logs | Docker | acts on the app while a deploy swaps it | harmless to the manifest |
| Activity log, overview pages, application factory, page script, compose files | log file | append, read | | errors are swallowed by design | |

The hazards of this code, each at its line and with the properties that watch
it, are listed under `hazards` in `PROJECT.json`.

## 2. Modules

| Module | Models |
|---|---|
| `Revisions` | the names of revisions, shared by the others |
| `DeployManifest` | the manifest: one action per operation |
| `DeployProgress` | the tracker: one operator per method |
| `Orchestrator` | the handlers of the deploy cycle, one action per Docker call, the containers and images, and the client's side of a call |
| `Deployment` | the request threads; composes the three above, and is the system that is checked |
| `DeploymentProperties` | what is stated of it |
| `ReleaseSwap` | the abstract specification: a version is trusted, accepted, placed |
| `Workers` | the threads of the dashboard: entering, leaving, and the crash that ends all |
| `ManagedDatabase` | record, container, volume and backups; service, client and `/db` handlers, one action per Docker call or file operation |
| `RepositoryConfig` | the Repository tab: one action per load, save, file write and git run |
| `PanelUsers` | accounts, cookies, the check and the write of each change |
| `StagingStorage` | files of the staging area and their directories, the temporary files and the uploads |
| `AppEnvironment` | `app.env`, the pages that edit it, the deploys that read it |
| `PanelServices` | composes the four services that use `Workers` |
| `ProgressStream` | the tracker with its version counter, streams, tabs and the queue for threads |
| `MCDeployManifest`, `MCDeployment`, `MCManagedDatabase`, `MCPanelServices` | small instances for TLC |
| `DeployManifest_proof`, `Deployment_proof`, `ManagedDatabase_proof`, `RepositoryConfig_proof`, `StagingStorage_proof`, `ProgressStream_proof` | theorems and proofs about one module |
| `DeploymentSerial_proof` | about the deploy cycle with requests one at a time, and about `ReleaseSwap` |
| `PanelServices_proof` | about `PanelUsers`, `AppEnvironment` and their composition with the other two |

`Deployment` has its own thread program counter, since its steps are those of
calls to the orchestrator; `ManagedDatabase` needs none, since an operation
there is one call.

Operators named "Mutant of ..." are faulty variants of the definition they
stand next to; they are used by nothing in the specifications, and each serves
to see a property fail when the code is wrong in that way (`mutants` in
`PROJECT.json`).

### How the state corresponds to the code

The deploy cycle:

- `pc[r]` is the place of request thread `r` in the endpoint and in
  `deploy_from_staging` or `rollback`.  A step ends where other threads can
  come in with an effect: after each file operation on a shared directory,
  each write of the tracker or the manifest, each call to the orchestrator.
  `Admit` is the `is_active()` test; `BeginProgress` is `progress.start`, two
  steps later.  That gap is in the code.
- `stage` holds the content of `state/_git_clone` and `state/_upload_stage`,
  `source` that of `source/`.  Content is named after the revision it belongs
  to; `Torn` stands for a mixture or a part of a tree.
  `shutil.rmtree(ignore_errors=True)` may leave anything behind (`Leftovers`);
  emptying and filling `source/` can stop half way.
- `call[r]` is the call thread `r` has in flight.  `at` is the next Docker
  call of its handler, or its answer; `open` says that the client still waits.
  `GiveUp` is the timeout or a broken connection: the handler goes on alone.
  `DockerFails` is any exception in the handler.  HTTP errors, connection
  errors and timeouts all raise `OrchestratorError`, hence one `Broken`.
- `/build` is two steps: the context is packed from `source/` when the build
  begins (`context[r]`), the tag is set when it ends.
- `app` and `candidate` are the containers by their fixed names, each with the
  request that created it, since a handler starts the container object it
  created while every other access is by name.
- `images` maps a tag to a tree.  Nothing in the code removes an image.
- `proved` is a history variable: trees that answered a probe.  An image is
  identified with its tree: two builds of one tree are not told apart, so that
  a revision that answered once and is built again without answering still
  counts as proved.
- `manifest` is the JSON document.  `Reads` says that a load may yield the
  empty state (`OSError`, `ValueError`); a write that fails changes nothing,
  and the exception follows the path it takes in `deploy_from_staging`.
- `tracker` leaves out labels; log lines and the version counter are in
  `ProgressStream`, which uses the same operators.
- `DashboardCrash` loses threads, tracker and client sides; files, containers
  and handlers in flight stay.

The managed database:

- `stored` is the encrypted record, `server` the container with the environment
  it was created with, `volume` the account the data directory was set up with
  (an image initialises an empty volume only; one volume serves both engines).
- `call[r]` is an operation from its read of the record to its write: `record`
  is the copy read at the start, `new` and `file` what was drawn, `at` the next
  step of the handler or its answer, `open` whether the dashboard still waits.
- A secret is what one `_random_token` call returns, never drawn twice.  The
  database name depends on the instance only and is left out.  `Rotate` keeps a
  consequence of the code that is easy to miss: `psql` without a database name
  asks for one named after the user, so a rotation of postgres is refused.
- `made` holds the accounts a database was given: those an empty volume was
  initialised with when its container started, and those a password change set.
  A volume with data keeps its own account whatever the environment of the
  container says, and the provision is answered "ok"; `leftover` remembers the
  users of such provisions.
- A backup file is named after the second, and nothing looks whether it exists:
  `BackupBegin` takes any name.  `vouched` are the names reported as done,
  `retaken` those taken while another backup had them.  Two dumps into one
  open file make it "mixed".
- `everStored`, `made`, `leftover`, `vouched`, `retaken`, `overlapped` are
  history variables.

The services of the panel:

- `pc[r]`, of `Workers`, is what thread `r` does next.  `overlapped` remembers
  that two requests were ever under way at once; properties that need requests
  one at a time say `~overlapped` and are checked in the same run as those that
  do not.
- `RepositoryConfig`: `config` is `repository.json`, `held[r]` the object a
  thread loaded and changed; `privateKey` and `knownHosts` are the two files,
  `Cut` one whose writing was interrupted; `transport[r]` is what
  `_ssh_paths` makes of them for git.  A load that fails yields the defaults.
- `PanelUsers`: `account` is the table, `cookie[r]` the session a request
  carries, `grant[r]` the change that passed the checks and is not yet written.
  A change says "true", "false" or "zero" of `active`: the check looks for the
  literal `False`, the table gets `int(active)`, so that a zero passes as
  something else and is stored like `False`.
- `StagingStorage`: `files` and `parts` are the names in the directory and what
  is under them; `upload[r].place` says under which name the bytes of a writer
  are found, since a rename or an unlink moves the file and not the descriptor.
  `folders` are the paths that are directories: an upload makes the one it
  writes to, and one that stands where another upload puts its file makes the
  rename fail.  `cut` are the names whose last upload ended where nothing
  cleans up (crash, late quota check, failed rename), until the next upload of
  the name or a deletion.  A directory deleted and made again is not told from
  the first, which lets an open succeed that would fail: it adds behaviours.
- `AppEnvironment`: `page[t]` is `currentEnvVars` of a tab, `read[r]` what a
  deploy has loaded, `swap[r]` what the orchestrator activates for it, `app`
  the environment of the container.  A value carries a flag "redacted".

`ProgressStream`: `queue` holds the accepted requests, `serving` the clients a
thread works for, `stream[w]` the generator's `last_version` and `saw_active`,
`shown[w]` what the tab displays.  Time is left out: the forty minutes of a
stream are a step that comes in the end, the half second of its loop a step
that can come at any moment.

Abstractions that a reader should know: copying a tree (clone, extraction, one
loop of the promotion, packing the context) is one step each, with a torn
result as one of the outcomes where another tree was in the way; the verdict
of the source policy, of the profile lookup and of reading `app.env` is a
choice; the 90 s deadline of the health check is the bound `MaxProbes`.

## 3. Runs

| Run | Module, configuration | Question |
|---|---|---|
| `manifest` | `MCDeployManifest`, `DeployManifest.cfg` | do current, rollback target and capped history agree after any sequence of operations and failed loads |
| `overlap_safe` | `MCDeployment`, `DeploymentConcurrent.cfg` | what survives two overlapping deploys or rollbacks |
| `serial_deploys` | `MCDeployment`, `DeploymentSerial.cfg` | what holds when requests come one at a time, with every failure, timeout and crash still possible |
| `deploys_end` | `MCDeployment`, `DeploymentLive.cfg` | is every request answered and the tracker lowered |
| `database` | `MCManagedDatabase`, `ManagedDatabase.cfg` | what do record, data and backups still say of each other when operations overlap, fail half way, outlive their caller or lose their answer |
| `panel_services` | `MCPanelServices`, `PanelServices.cfg` | what do the panel's own files and tables keep true under two threads without a lock, failing writes and crashes |
| `progress_stream` | `ProgressStream`, `ProgressStream.cfg` | do streams let go of their threads, do deploys get one, do tabs catch up |
| `overlapping_deploys` | `MCDeployment`, `OverlappingDeploys.cfg` | violated: an image that was never probed is served |
| `manifest_after_failure` | `MCDeployment`, `ManifestAfterFailure.cfg` | violated: the manifest names a version that does not run |
| `rollback_during_deploy` | `MCDeployment`, `RollbackDuringDeploy.cfg` | violated: a rollback records another version than it activated |
| `database_password` | `MCManagedDatabase`, `DatabasePassword.cfg` | violated: the record no longer opens the database, operations one at a time |
| `environment_editor` | `AppEnvironment`, `EnvironmentEditor.cfg` | violated: `app.env` holds redacted values |

What they show.

- `manifest`: `CurrentIsLastActive`, `PreviousIsActiveBefore` and
  `TargetsAreActive` hold, a rollback after a rollback and a silently empty
  load included.  This is consistency of the document only: a load that
  silently came out empty loses data, and whether the document tells the truth
  is asked by the runs of the deploy cycle.
- `overlap_safe`: even without a lock, whatever the manifest names has an
  image (`RollbackTargetBuilt`), and the tracker is raised only while some
  deploy runs (`TrackerSettles`).
- `serial_deploys`: what is reported as deployed, or recorded as rolled back
  to, is what the container holds, and its tree answered a health check
  (`SuccessMeansServed`, of the step that reports; whether the application goes
  on running is Docker's); a tag holds the revision it names, except for an
  upload extracted over leftovers (`TagNamesItsTree`); the probe looks at the
  right container (`OwnCandidateProbed`); a rollback goes back to a version
  that was healthy (`RollbackTargetProved`); the bar does not go back
  (`BarNeverGoesBack`); and the whole implements `ReleaseSwap`
  (`ImplementsSwap`, mapping `placed` to the tree of the app container,
  `incoming` to the image of the activation in progress and `trusted` to
  `proved`).
- `database`: whatever overlaps, the record names an account that some database
  was really given, except after a provision that found data in the volume
  (`RecordedAccountWasMade`). With operations one at a time a refused or lost
  rotation never puts the record ahead of the data (`RecordNotAhead`), and a
  failed deprovision never leaves data without a record (`NoForgottenDatabase`).
  Neither of the two holds with overlap, which is why they say so. A backup that
  was reported stays whole, whatever overlaps, times out or crashes, unless
  another backup takes its name (`ReportedBackupsComplete`).
- `panel_services`: without any restriction on overlap, a configuration marked
  as confirmed has a `known_hosts` file behind it (`ConfirmedHasKnownHosts`) and
  git over ssh with a deploy key is never left to ssh's own policy
  (`SshIsStrict`); a file is whole and replaced on purpose only, except where
  two uploads of its name overlapped (`FilesAreWhole`, `ReplacedOnPurpose`);
  with lengths declared, the quota is exceeded by at most what the other threads
  were admitted with (`QuotaBounded`); unless uploads of its name overlapped, a
  temporary file is left only by a crash, the late quota check or a failed
  rename, until the next upload of the name (`NoTemporaryLeft`); a deploy that
  began after the last change applies it (`SavedChangesReachTheApp`, unless
  deploys overlap). With requests one at a time, the host key shown as confirmed
  is the one trusted (`ShownKeyIsTrusted`), the public key shown belongs to the
  private key (`PublicKeyMatches`), the last administrator only loses the rights
  by their own zero (`LastAdministratorByOwnHand`; blueprints/users.py:36 says
  that nobody can disable themselves, and the zero is the one way in which they
  can), and accounts are changed for administrators only
  (`ChangesByAdministrators`).
- `progress_stream`: a stream that showed a deploy lets go of its thread with
  the end it shows (`NoThreadAfterTheEnd`); a deploy that waits for a thread
  gets one (`DeployGetsThread`), because progress streams have a deadline, as
  long as log streams, which have none, leave a thread; every tab shows the
  current state again and again (`TabsCatchUp`), states missed between two
  polls, reconnections and a restart included.
- The properties that say `~overlapped` or leave out `clash` do not watch the
  hazards of overlap themselves (two administrators who demote each other, two
  scans of a host key, two uploads of one name): the model does those things,
  and `hazards` in `PROJECT.json` says for each what is not promised.
- `rollback_during_deploy`: a rollback activates the target it read at its
  start and records that of a second read; a deploy that finishes in between
  makes the two differ (`RollbackRecordsItsTarget`).
- The five violated runs are disagreements between what the repository says
  and what it does; they are written up under `findings` in `PROJECT.json`.

### Bounds

- Two requests: every race found needs two threads, and the code treats all
  threads alike.  Three uploads in `overlap_safe` give current, previous and
  one more; one git commit and one upload elsewhere give two revisions, of
  which the commit can be deployed again and again.
- `MaxProbes` is 1 or 2: one probe that decides, or one retry before it.
- `MaxHistory` is 4 in `manifest`, more than the longest pattern its
  properties look at (two successes with a failure between them), and 1 where
  the history is not looked at.
- `ControlView` (`overlap_safe`, `deploys_end`) identifies states that differ
  only in what no guard and no property of these runs reads when every tree is
  sound.  The symmetry sets are used in safety runs only.
- `LiveSpec` lets in uploads and rollbacks only; the threads themselves are
  those of `Deployment`.
- `database`: two requests, both engines, and three secrets, which bound the
  operations that draw one: a provision, its retry and a rotation, or a
  provision and two rotations.  There are two backup names, so that one can be
  spoiled while another is not; the second is used only while one secret is
  (`NamesOrSecrets`).  About two million states.
  `database_password` needs one request and two secrets.
- `panel_services` is one run for four services that share no state but the
  program counters: `part`, chosen at the start, says which of them is used, so
  that the state space is the sum of four and not their product. Two threads;
  two names, of which one is the directory of the other; two keys of each kind,
  so that a stale one can be told from the current one; three users, so that two
  can change a third or each other; a quota of two chunks and uploads of one, so
  that the quota is reached by two files and a repeated upload goes over; one
  tab, one variable, one value and one password beside their absence, enough for
  stale and current to differ. `PanelView` drops the content of a file whose
  name uploads clashed over (no guard and no property reads it) and the accounts
  where they are not the service in use.
- `progress_stream`: two threads and four clients stand for eight threads and
  the tabs that fill them; what matters is that streams can hold all threads
  but the one that log streams leave.  That they leave one (`LogReaders` fewer
  than `Threads`) is an assumption on the use of the panel, not a promise of
  the code: eight open log tabs stop it, as the hazard at
  `blueprints/deployment.py:55` says.  `MaxDeploys`, `MaxLogs` and `MaxCrashes`
  are 1: a deploy with a log line, and one restart at any moment.
- `rollback_during_deploy` has the instance of `overlap_safe`, and finds its
  trace, some eighty steps long, after about a million states.
- Deadlock checking is on everywhere.

### Fairness

`Fairness` asks that the request and its handler, taken together, do not stop
for good while a step of either is enabled.  The code justifies it: threads do
not wait for each other, git has a timeout, the probe loop has a deadline,
docker-py has a timeout of its own and the build one of 1800 s; a handler
either makes its next Docker call or raises.  It does not ask that anybody
deploys, that the client gives up, that Docker succeeds, or that the dashboard
dies or stays up.

`StreamFairness` asks that a free thread takes the next request, that a deploy
with a thread takes its next step (each is bounded as above), and of each
progress tab that its stream polls, reaches its deadline and is opened again
(`connectDeployProgressWatcher` retries for ever).  It does not ask that
anybody deploys, that a log ends, or that the dashboard restarts.

Liveness is checked on the small instances only.

## 4. Proofs

| Theorem | States |
|---|---|
| `ManifestStaysCoherent` (`DeployManifest_proof`) | the four properties of the manifest, for every cap and every set of revisions |
| `ManifestStaysTyped`, `TargetsStayActive` | its types, and `TargetsAreActive` |
| `DeploymentTyped` (`Deployment_proof`) | `Spec => []TypeOK` |
| `ManifestCoherentUnderDeploys` | the manifest's properties, with the deploy cycle as its writer |
| `RollbackTargetsAreBuilt` | `Spec => []RollbackTargetBuilt` |
| `TrackerDoesNotStick` | `Spec => []TrackerSettles` |
| `SuccessIsServed` (`DeploymentSerial_proof`) | the action property `SuccessMeansServed`, of deploys and rollbacks |
| `TagsNameTheirTree` | `TagNamesItsTree` |
| `CandidateIsOwn`, `RollbackTargetsAreProved`, `BarGoesForward` | `OwnCandidateProbed`, `RollbackTargetProved`, the action property `BarNeverGoesBack` |
| `DeploysSwapReleases` | `SerialSpec => ImplementsSwap`: the deploy cycle implements `ReleaseSwap` |
| `SwapServesTrusted`, `HealthyServedAlone` | `SwapSpec => []OnlyTrustedPlaced`, and with it `SerialSpec => []OnlyHealthyServed` |
| `DatabaseStaysTyped`, `RecordsNameRealAccounts` (`ManagedDatabase_proof`) | `Spec => []DatabaseTypeOK`, `Spec => []RecordedAccountWasMade` |
| `RecordKeepsPace`, `DatabasesAreRemembered`, `BackupsStayComplete` | `RecordNotAhead`, `NoForgottenDatabase`, `ReportedBackupsComplete` |
| `RepositoryStaysTyped`, `ConfirmedStaysTrue`, `SshStaysStrict` (`RepositoryConfig_proof`) | types, `ConfirmedHasKnownHosts`, `SshIsStrict` |
| `ConfirmedKeyIsTrusted`, `ShownKeyBelongs` | `ShownKeyIsTrusted`, `PublicKeyMatches` |
| `FilesStayWhole`, `TemporariesGo` (`StagingStorage_proof`) | `FilesAreWhole`, `NoTemporaryLeft` |
| `UploadsAskBeforeReplacing`, `QuotaHolds` | the action property `ReplacedOnPurpose`, and `QuotaBounded` |
| `OnlyOneselfEndsAdministration`, `OnlyAdministratorsChange` (`PanelServices_proof`) | the action properties `LastAdministratorByOwnHand` and `ChangesByAdministrators` |
| `EnvironmentStaysTyped`, `DeploysApplyChanges` | types, `SavedChangesReachTheApp` |
| `PanelStaysTyped` | `PanelSpec => []PanelTypeOK` |
| `StreamsEndWithTheDeploy`, `StreamStaysTyped` (`ProgressStream_proof`) | `NoThreadAfterTheEnd`, `StreamTypeOK` |

They hold for every value of the constants (any number of requests, revisions,
probes, secrets, backups, users, tabs, threads), under every interleaving,
failure and crash of the specification; the assumptions are the named
`ASSUME`s of the modules (revisions, requests, keys, the torn tree, the cut file
and the null value differ; the bounds are natural numbers, positive where the
code needs it).  The staging area also takes its threads and names to be finite
sets, as they are, since the usage is a sum over them.  The services of the
panel are proved about on their own specifications (`RepositorySpec`,
`UsersSpec`, `StorageSpec`, `EnvironmentSpec`); the run checks them inside
`PanelServices`, which is built so that only one of them moves.

The arguments:

- *Manifest.* `Coherent(state)` is inductive.  The lemma `RememberProperties`
  says what an append to a capped sequence keeps; each operation is then one
  lemma.  Coherence is stated of a state, not of the variable, because a load
  can yield the empty state.
- *Types.* `TypeInv` adds to `TypeOK` the coherence of the manifest (a tag of
  a record that may be rolled back to is a revision) and `JobOK` (a request
  past its fetch knows its revision).  Without them a rollback or a
  `record_success` could write something that is not a record.
- *Rollback target.* `RollbackTargetBuilt` is not inductive: when
  `record_success` runs, one must know that the image exists. `Built` says that
  it does from the moment the build was answered; that needs `AnswersMatchCalls`
  (the "ok" a request sees in `building` answers a build of its own revision, an
  auxiliary fact of the model) and `ContextRead` (a build that read its context
  has one). `ImagesKept` says that no step takes an image away.
- *Tracker.* Every step of a request stays inside `InsideDeploy` except
  `EndProgress`, which lowers the tracker.
- *Deploys, one at a time.* `SerialInv` follows the one request (`Alone`) and
  its handler: the tree of its revision from the staging directory to `source/`
  (`Staged`, `Sourced`), into the image (`OfOneUpload`: an upload is built once,
  so that its tag is not written a second time with another tree), the candidate
  until the verdict (`Probed`), and what was placed until it is reported
  (`Swapped`; `RolledBack` for a rollback, whose target stays the recorded one
  because nobody writes the manifest meanwhile). A request whose client gave up
  counts as long as its handler runs. TLC checked it first, on 1,432,633
  distinct states.
- *Refinement of `ReleaseSwap`.* One lemma per kind of step: a probe that
  succeeds trusts a tree, `/activate` accepts one, `app_create` places
  it, everything else stutters.  `SerialInv` supplies that the image accepted is
  the one that was trusted, and that its tag is not built over in between.

- *Database, any overlap.* A record is written from what a request remembers.
  `DatabaseInv` adds that the handler that works is the one that was asked for,
  that a call carries what it needs, and that an answer "ok" means that the
  account it speaks of was made (`AnswersAreTrue`).
- *Database, one at a time.* `SerialInv` describes the one operation under way
  (`Work`): the record is still the one it read, its new password is not yet
  known to anybody.  Without the freshness of
  passwords a late rotation could restore an old one that the record once had.
- *Backups, any overlap.* `BackupInv` says of every name nobody took twice that
  it has one backup under way at most, whose file is torn while its dump runs
  and complete once that was answered "ok", and that a name reported as done has
  none.
- *Repository.* `HeldConfirmed` says of every copy in memory what
  `ConfirmedHasKnownHosts` says of the file, so that it survives any stale save;
  `TrustOrdered` that `known_hosts` is written before the confirmation;
  `GitConfirmed` that git over ssh was let through with a confirmed one.
  `SerialInv`, for requests one at a time, says that a copy in memory agrees
  with the two files as the configuration does; while a confirmation runs it
  *is* the configuration, since the defaults have no key to confirm.
- *Staging area, files.* `Sound` says for every upload, overlapping or not,
  where its bytes go: to a file that is there under its name or to one that is
  gone.  `Whole` says for a name no two uploads clashed over that the temporary
  file is the upload's own and complete before it is renamed, that the answer to
  "does it exist" still stands at the rename, and that nobody's temporary file
  is left, unless the name is `cut`.
- *Staging area, quota.* The usage alone is not inductive: an upload is admitted
  before its bytes are there, and one that was cut off by another upload of the
  name makes the file jump to its own length with the next chunk. `QuotaInv`
  bounds what the files may yet become: there is a share for every name and
  every upload that has no file yet, no file is larger than its share, every
  upload under way fits the share of the file it writes, and the shares together
  are within what is allowed. A step moves a share from one place to another
  (`TotalMoves`). That the usage, a fold over the names, is a sum is proved by
  well-founded induction on the set of counterexamples (`SubsetInduct`), which
  needs no operator parameter.
- *Users.* `GrantsSound` says what was checked of a change that waits,
  `StillAdministrator` that whoever was let in still is an administrator when it
  is written.  A change of somebody else leaves its author an administrator; a
  change of oneself that passed the check gives up the rights only by a zero.
- *Environment.* `ReadsFresh`: what a deploy carries is what the panel holds,
  for deploys that began after the last change.  `OneDeploy` counts a deploy
  whose request gave up but whose activation still runs.
- *Streams.* `SeenWasRaised` (a stream that saw a deploy lives in a process that
  had one) and that the tracker is active exactly while its status is "running":
  whenever such a stream finds the tracker lowered, it finds how the deploy
  ended, and ends.
- *Versions.* That the version stays below `MaxVersion`, which the run uses as a
  bound of the type, is an account (`Accounted`): every deploy and every log
  line still allowed, and every step the deploy under way still has, raises it
  at most once. Checked first on 1,604,111 distinct states.

What is only model-checked: liveness (`EveryRequestAnswered`, `ProgressEnds`,
`DeployGetsThread`, `TabsCatchUp`), which is out of the prover's reach with the
fairness it rests on.  The five violated runs are counterexamples on small
instances, and need no proof.

## 5. Not modelled

See `components` in `PROJECT.json` for each part.

- *Source policy* (`source_validator`, `dockerfile_validator`) and *platform
  configuration*: pure functions of a text, evaluated before anything changes.
  The deploy cycle takes their verdict as a choice.  What they accept is a
  matter of characters and lines, without states to explore.
- *Archive extraction* is one step of the deploy cycle, with a torn result.
- *Walking a path* in the staging area without following links, listings,
  downloads, previews and all read-only endpoints: nothing changes.
- *Activity log, overview, application factory, page*: presentation, wiring, or
  appends whose errors are swallowed by design.
- *Compose files and networks*: static; the models take from them the number of
  processes and threads and the fixed container names.
- Log lines, wording, HTTP details and cryptography.  The orchestrator's token
  check and the rate limits only make fewer requests reach the modelled code.
- What `source/` shows after a deploy that failed past the promotion: the model
  replaces it before the build and does not put it back, as the code does, so
  that it is then not the mirror of the active deployment that
  `services/storage.py:1-2` speaks of.
- The data a restore brings back: only accounts and the completeness of backups
  are modelled, so nothing is said of a `psql` that ignores failed statements.

## 6. Plan

1. Core: manifest, tracker, orchestrator, deploy cycle, their proofs. *Done.*
2. `ManagedDatabase`, with the proofs of all its invariants. *Done.*
3. `RepositoryConfig`, `PanelUsers`, `StagingStorage`, `AppEnvironment`,
   composed in `PanelServices`, with the proofs of all its invariants. *Done.*
4. `ProgressStream` with its liveness. *Done.*
5. The serial deploys, the refinement of `ReleaseSwap`, the staging area with
   its quota, and the types of all modules, proved. *Done.*
6. Next: what overlap leaves of the serial results that can still be stated
   (an image served without a probe needs two requests with one candidate
   name), and an abstract specification of the staging area (a name holds one
   whole upload or nothing) for `StagingStorage` to implement.
