# workshell in TLA+

TLA+ models of the programs in this repository, the TLC runs that check them on
small instances, and TLAPS proofs of the properties that matter most.

The repository holds two bodies of code:

* the author's own **operations scripts**: consoles that release game servers
  and web code to machines, consoles that roll them back, log and backup
  retention, password rotation, monitors, and the configuration of the servers;
* a full copy of **certbot** (`src/config/certbot-master`), which the servers
  use for their certificates. It edits web server configurations, runs unattended from
  cron, and is the part where crashes, signals and concurrent processes count.

Both are modelled, certbot in full breadth. The rest (packaged archives, `php.ini`, `my.cnf`, nginx and
zabbix configuration, certbot's tests, docs and generated bootstrap scripts) has
no behaviour of its own to check.

## 1. Inventory

### Operations scripts

| component | state | operations | hard behaviour | what makes it correct |
|---|---|---|---|---|
| game release console, `gamedep/gamedep.sh`, `update/postpush/*.sh` | working copy, `<game>-<TIME>` directories on the machine, `<game>.time` files, the link, the running process | pull, push, stamp, send, run the postpush script (stop, link, start) | failing rsync, several releases from one console, two consoles, stale time files | a release that reports success serves what was pulled; a running game can be stopped |
| game rollback console, `Rollback/rollback-game/roll-game.sh` | the same machine | list the last three versions, stop, link, start | a rollback beside a release; a backend that is not stopped | the message is true; a version keeps its code |
| retention, `cleanlog/cleanlog.sh`, `clear_bakfile` | dated log files; backups of all games in one directory | compute a date, delete; count, delete | decimal subtraction on dates, days missed; names found by grep | what is young, and the newest backups, stay |
| code release console, `update/deploy.sh` | as above, several machines per project | pull, push, relink every machine in each turn | relinking before the version has arrived; failing rsync | not modelled, see 5 |
| cdn release, cdn and code rollback | version directories, link | push, link | relink to a backup directory instead of the version | not modelled, see 5 |
| password rotation, `config/changePass` | passwords in use, the record of them | generate, record, set | dying between the two | not modelled, see 5 |
| monitors, `config/gameMonitor`, `config/cron_dep` | none | poll, alarm, restart | none beyond repetition | - |

The consoles and the machine interact only through files: a time file is how a
postpush script learns what to link, and the link is how both consoles, the
stop script and the start script find the game. Nobody locks anything.

### certbot

| component | state | operations | hard behaviour | what makes it correct |
|---|---|---|---|---|
| `reverter.py` | `temp_checkpoint`, `IN_PROGRESS`, backups; FILEPATHS, NEW_FILES, COMMANDS in each | register files and commands, finalize, roll back, recover | death at any point, also in the recovery; two open checkpoints that overlap | recovery brings back the last finalized configuration, rollback the one before |
| `lock.py` | the file at a path, open descriptors, kernel locks | acquire, release | deletion against creation, inode numbers used again, death | one process at a time; nobody is kept out for ever |
| `error_handler.py` | OS handler, remembered handlers, received signals | enter, leave, clean up, call signals | signals at any time, nesting | cleanup once and whole; a signal is not lost |
| `storage.py` | renewal files, archives, live and previous links | save, link, repair, check; create, rename, delete lineages | death between any two files; names and directories that part ways | live links name one whole version, and only newer ones; no lineage harms another |
| `renewal.py`, `hooks.py` | parameters per lineage, hooks that have run | renew all, restore and save parameters, run hooks | one of several failing, interrupts, test servers | every lineage treated, each with its own parameters; hooks paired |
| `main.py`, `cert_manager.py` | - | run, certonly, revoke, rename, delete | reinstall, renew, extend or anew; kills | the certificate asked for, nothing else lost |
| `account.py`, `client.py` | account files and the CA's accounts | register, update, unregister | lost answers, kills between files | one account per machine, its key kept |
| `cli.py`, `plugins/selection.py` | options given, defaults, what the renewal file adds | parse, restore, pick, record | options that change others; plugins that break between runs | a renewal uses what the certificate was issued with |
| `log.py`, `util.py`, `reporter.py` | handlers, temporary log, locks, functions at exit | set up, lock, report, shut down | interrupts between any two steps | nothing is lost, nothing left, nobody else at work |
| `auth_handler.py` | authorizations, challenges | choose, perform, answer, poll, clean up | rounds of polling against a CA that decides at any time | everything exposed is taken down, nothing too early |
| authenticator plugins | files, listeners, records | perform, cleanup | failing in the middle of a batch; concurrent clients of one name | the rest is cleaned up; another's record stays |
| `acme/client.py` | nonces, polling heap | post, poll, fetch | bad nonces, lost answers, Retry-After | carried out once, asked again not too early |
| nginx and apache plugins | parsed configuration, checkpoints, what runs | challenge, deploy, enhance, roll back | which block answers a request; caches across steps | the site is served by the certificate; failures are undone |

An installer (the nginx or apache configurator) recovers through `reverter.py`
when it is prepared, registers and writes files through it, and finalizes;
`client.py` wraps this in an `ErrorHandler` whose functions call the reverter
again, and so does `auth_handler.py` around its challenges. `storage.py` uses an
`ErrorHandler` for its links. `lock.py` keeps two certbot processes from
doing any of it at once, which is why everything but `LockFile`, `Session` and the
DNS providers, who do not know of the lock, is modelled with one process.

`PROJECT.json` lists every component with its status, and the hazards the properties are
for, each with the line where it bites. Section 7 has the rest of them.

## 2. Modules

| module | models | role |
|---|---|---|
| `ConfigStore` | what the reverter promises | abstract: one committed configuration, a stack of undo records |
| `Reverter`, `MCReverter` | `reverter.py`, and how installers call it | detailed |
| `ReverterProofs` | | proofs |
| `CheckpointNames` | `_checkpoint_timestamp`, `_timestamp_progress_dir`, the choice of `rollback_checkpoints` | the one detail `Reverter` leaves out: that names sort in the order of finalization |
| `LockFile` | `lock.py` and the kernel's inodes and locks | detailed |
| `LockFileProofs` | | proofs |
| `LineageStore` | what `storage.py` promises of a lineage | abstract: versions saved, one deployed |
| `Lineage` | `save_successor`, `update_all_links_to`, `_fix_symlinks`, `_check_symlinks`, `ensure_deployed` | detailed |
| `LineageProofs` | | proofs |
| `ErrorHandler` | `error_handler.py` | detailed |
| `ErrorHandlerProofs` | | proofs |
| `Authorization` | `auth_handler.py`, `obtain_certificate`, what the authenticator plugins do | client and CA side by side |
| `DnsRecords` | the ten DNS plugins and `dns_common*.py` | several clients at one provider |
| `AcmeNetwork` | `acme/client.py` | client and server, with lost messages |
| `NginxInstall`, `ApacheInstall` | the two configurators under `client.py` | configurations, and which block answers a request |
| `Renewal` | `renewal.py`, `hooks.py`, `renew_cert` | commands in sequence over several lineages |
| `Certificates` | `new_lineage`, rename, delete, and the commands that call them | files made and deleted one by one |
| `Accounts` | `account.py`, `client.register`, the account commands | the disk and the CA |
| `Options` | `cli.py`, `plugins/selection.py`, restoring and storing of parameters | commands in sequence for one certificate |
| `Session` | `log.py`, the locks of `util.py`, `reporter.py`, `main()` | one invocation, others beside it |
| `Retention` | `cleanlog.sh`, `clear_bakfile` | two cron jobs |
| `GameRelease` | `gamedep.sh`, the postpush scripts, `roll-game.sh` | both consoles composed on one machine |
| `GameReleaseProofs` | | proofs about `GameRelease` and `Retention` |
| `MCIssuance` | `Authorization`, `DnsRecords`, `AcmeNetwork` | model checking |
| `IssuanceProofs` | | proofs about all three |
| `MCClient` | `Accounts`, `NginxInstall`, `ApacheInstall` | model checking |
| `ClientProofs` | | proofs about all three |
| `MCCommands` | `Renewal`, `Certificates`, `Options`, `Session`, `CheckpointNames` | model checking |
| `CommandsProofs` | | proofs about all five |
| `MCGameRelease` | `GameRelease`, `Retention` | model checking |

The four `MC` modules from `MCIssuance` on compose several specifications that share no state (the two
installers: no state of one run). Each extends one of its parts (`AcmeNetwork`, `Accounts`, `Session`,
`GameRelease`) and instantiates the others. A variable `part`, set at the beginning, picks the one that
moves; this is the sum of their state spaces, not the product. The theorems about an instantiated part
are about the composition, `MCSpec`, and its properties, those the runs check; in a state of another
part they hold trivially, as the invariants behind them do.

### How state and actions correspond to the code

**Reverter.** `saved[d][f]` is the copy of `f` that FILEPATHS of directory `d`
lists (`None`: not listed, `Lost`: listed, its copy deleted), `new[d]` is
NEW_FILES; directories -1, 0 and 1.. are `temp_checkpoint`, `IN_PROGRESS` and the
backups in the order they sort. Registration, its failure and its death are an
action each, because `op_fd` is a buffered file. Recovery is taken apart: one
action per `copy2`, per `os.remove`, and per entry `shutil.rmtree` deletes, in
any order. The process can die between any two. What installers do is an
assumption of the model where the code does not check it: they register a new file only when it does
not exist, do not create for good what a pending challenge has registered, write
only registered files, and roll back with no checkpoint open (`nginx` and
`apache` configurators).

**CheckpointNames.** Times in hundredths of a second; "+ 1" second is `Second`.
Names are compared as strings: `SortsBefore` is the order of numbers except
around `Wrap`, where the integer part gains a digit.

**LockFile.** `path` is the inode that the lock file's path names, `fd` and
`owner` are the descriptors and locks. Open, lock, the comparison of inodes,
remove and close are steps of their own.

**Lineage.** `cur[k]` and `prev[k]` are the version that the live and the
previous link of kind `k` name. Each `unlink` and `symlink` is a step; `i` is the
position of the loop. An interruption runs the error handler, whose
`_fix_symlinks` may itself be cut by a kill. After it the run ends for this
lineage, or goes on, because `ErrorHandler` shows that a signal may be swallowed.

**ErrorHandler.** `stack` holds the `with` statements the process is in,
`installed` what `signal.getsignal` would return, `prev`, `executed`, `received` and
`funcs` the attributes of each handler. One signal number stands for all of
`_SIGNALS`. With `Windows = TRUE` a signal may also fall at the start of
`__enter__` and `__exit__`, before the statement that takes effect.

**Authorization.** `achalls`, `resp`, `sent`, `update`, `toCheck`, `comp`, `failed` are
the variables of `AuthHandler` and of `_poll_challenges`, `chosen` is how far the loop over the domains
in `_choose_challenges` has come; `status` and `verdict` are
the CA's, which decides an answered challenge at any time, and finds valid only what
is `exposed` when it looks. The plugin is one of six, with what `get_chall_pref` says
and how its `perform` and `cleanup` go through a batch. `Outsiders` lets another
client spoil a shared authorization.

**DnsRecords.** `rec[z][c]` counts the records with client `c`'s content in zone `z`.
Each plugin is a record of the answers that its search for the zone takes for a wrong guess,
and its rules of adding and deleting. A call may fail before or after it took effect. Some zones are `hidden`, somebody
else's or a private network's; the account may have none at all, and then cleaning up raises what `CleanupRaises` says.

**AcmeNetwork.** `pool` is `_nonces`; a post takes one, the response brings one or does not.
Times are microseconds: a poll and its answer take one of `Trips`, `now` jumps in `Sleep` as far as the code's sleep
does, `.seconds` of a difference dropping the days and the fraction (`Day` is short, so that there can be days), and a
`Retry-After` is a number or a date; `named` is the time it stands for, `wake` what the code makes of it where
local time is `UtcOffset` ahead of GMT. `heap` holds the authorizations of `poll_and_request_issuance`.

**NginxInstall.** A configuration is a sequence of server blocks with the kinds of names and
addresses that nginx tells apart; `Serve` is nginx's own choice of a block (external), to be compared with
`choose_vhost` and `choose_redirect_vhost`; `Valid` is what it loads (external): no two default
blocks of an address, no address twice in a block. `mem`, `disk` and
`running` are what the parser holds, the files, and the last good reload;
checkpoints are whole configurations here, because `Reverter` has them in detail.

**ApacheInstall.** The same, with the modules and sites that Debian's plugin enables at
once, the copies made by `make_vhost_ssl`, and the plugin's caches (`assoc`, `_enhanced_vhosts`,
`ancestor`, `modules`). The code does not reset them when it recovers; the invocation is over then,
and the model empties those that nothing reads any more. Enabling a module fails for a module out of `able`, enabling a
site wherever it can; that link is registered before it is made, so that a recovery removes whatever has its name
(`other`: another site's). The undo commands of a recovery, `a2dismod`, are taken to succeed.

**Renewal.** One action per step of `handle_renewal_request` and `renew_cert`: read, restore
the parameters into a copy of the configuration, check, obtain, save, run hooks, reload.
Interrupts and kills fall between any two, while post-hooks are saved up or run as well; `aborted` tells which it was.
A dry run, too, begins with `ensure_deployed` (`Reconstitute`) and may reload the server. `owed` is a ghost.

**Certificates.** `conf`, `live` and `names` are the renewal file, the live directory
and the archive under each name; `dir` of an operation may differ from its name after a rename
or a copy by the administrator (`Copy`). With `fewer`, `--allow-subset-of-names`, a certificate is for some of the names
(`Obtained`).

**Accounts.** Three files per account, written one after the other, each open, then
complete; a request changes the CA and its answer may be lost. With `--account` only that account's files are read; without,
all of them, and a torn one ends the command.

**Options.** `config` goes through defaults, command line, `restore_required_config_elements`
and the picking of plugins; `file` is what `relevant_values` writes back; `wanted`, a
ghost, is what was in force when the certificate was issued.

**Session.** Log records are early, late or last; each handler has those it holds.
`path` and `holders` are the lock files of the four directories. Functions at exit are a stack. An interrupt may fall anywhere
in `main()`; none falls in the excepthook or in the functions at exit, where it would cut off the rest of them.

**Retention.** `logs` are pairs of the date in a file's name and its real age;
`Delday` is the script's arithmetic, `NextDay` the calendar. A backup is a game and a
number; `Contains` says whose name grep finds in whose.

**GameRelease.** Revisions of the source are numbers; a version directory holds
one, or `Torn`, a mixture. `dep` and `roll` are the consoles, with the step
each has reached; `said` is what the last success message claimed. `StampOf` is the game whose time file a script reads,
as the scripts are written: `sybphd.sh` reads that of `sdmjhd`. Games in `StopsFirst` are stopped before a rollback, those of
`gamed_server_roll` are not. Read from the
scripts and their use: start and stop scripts and logs survive `rsync
--delete` because `exclude.list` names them; starting a game whose port is taken
leaves the old process serving, and a start may fail. A game named `sdmj` in
`gamedep/game.resource` is `sdmjhd` in the rollback's resource file; the model has one
name. `rm` and `ln -s`, sent as one remote command, are one step. The two lines
of `gamedep.sh` that only stop and start without releasing (96-97) are left out.

## 3. Runs

| run | instance | shows |
|---|---|---|
| `reverter` | 2 files, 2 contents, 1 backup, 1 crash | `IInv`, and `ImplementsConfigStore`: registering, failing, writing, dying and recovering never change the committed configuration; a finalized checkpoint is undone to exactly what it replaced |
| `reverter_rmtree` | 1 file, 2 backups, 2 crashes, also inside rmtree; fair | `OriginalsSurvive`: no file of the committed configuration is lost or changed; `RecoveryCompletes`: a run gets past `recovery_routine`, unless copies are missing |
| `lock` | 3 processes, 4 inode numbers, 2 deaths; fair | `MutualExclusion`, `Ownership`, `SomeoneGetsIn` |
| `lineage` | 4 versions, 3 kills, torn files; fair | `OpenedClean`: work begins on sound, agreeing links; `ImplementsLineageStore`: a version goes live whole or not at all, and only forward; `NewestGetsDeployed`: in the end it does |
| `handler` | 3 statements, 3 signals, 2 functions each; fair | `CleanupIsWhole`: no function is called twice or cut short; `CleansUp`: a body that fails is cleaned up, one that ends well is not; `SignalEnds`: a signal that stops a body ends the process, unless a statement ended well before |
| `issuance` | 2 domains, 2 rounds, 6 plugins; 10 DNS providers, 2 clients, 2 zones or none; 2 authorizations, 2 attempts, polls that take no time or 0.3 s; fair | certificates are issued as asked, and what was exposed for them is taken down |
| `client` | 3 account keys, 3 commands, 1 kill or lost answer; every pair of 12 server blocks and of 9 virtual hosts that a server would load, 2 domains, 2 types of challenge, enhancements in any order | disk and CA agree on the accounts; what the two plugins edit agrees with how the server picks the block that answers |
| `commands` | 2 lineages and 2 commands; 2 domains, 1 suffix, 4 commands, 1 kill; 3 plugins, 3 machines, 3 commands; 2 other invocations; clock 0..7, 4 backups | sequences of commands leave what they were asked for, and nothing else |
| `release` | 2 consoles at a backend and a front of `roll-game.sh`, or at two backends of `gamed_server_roll`; 2 versions, 2 revisions, pushes that fail; 15 months of days, 3 missed in a row at most; 9 releases of two games | success messages are true as far as the scripts can know, and only what is old is deleted |

Each module states its types in `TypeOK`. What the proofs need of them is part of
the inductive invariants of section 4; the whole holds in every run to which it is added as an INVARIANT, while the runs spend
their time on the properties below.

The last four runs check specifications side by side. A property of such a run is a conjunction of
properties of the modules it composes, one line each in the MC module, where a comment says what they have in common:

| run | property | parts, in their modules |
|---|---|---|
| `issuance` | `NothingLeftBehind` | `Authorization`: no challenge stays exposed when the client is done, except where the plugin could not take it down |
| | `IssuedAsAsked` | `CertIsAuthorized`, `AllOrNothing`, `PathSuffices`: every name authorized, all names or no certificate, every combination of challenges chosen is enough and supported |
| | `KeptUntilDecided` | nothing is taken down while its authorization is open, unless the rounds are used up or the run fails |
| | `RecordStays`, `Restored` | `DnsRecords`: nobody's record disappears under another client; in the end the zone is as before, and it is the account's closest to the name |
| | `OnceAndWhole` | `AcmeNetwork`: `NonceOnce`, `CarriedOutOnce`, `IssuedWhenAllValid`, `ChainIsWhole` |
| | `RespectsRetryAfter`, `Ends` | no poll a second before its time, numbers and dates, with delays below a day; each of the three comes to an end |
| `client` | `ChallengeReachable` | the block or host that answers for a domain carries its challenge as long as that is open, whichever others are cleaned up before |
| | `Served` | after a deployment the domain's https is answered with its certificate; enhancements are where requests arrive |
| | `NoPageLost` | no redirect leads to itself; what was served before still is |
| | `ServerLoads` | what is on disk, the server loads: no directive without its module, no duplicate default or address |
| | `Undone` | a failed challenge, deployment or restart leaves the configuration from before, and other sites' links |
| | `InStep`, `KeyKept` | `Accounts`: the terms agreed, the file says what the CA has (unless an answer was lost or the command killed); no account in use loses its key or is made twice |
| `commands` | `HooksPaired` | `Renewal`: pre-hooks before an attempt, its post-hooks after it, once per command, through errors and interrupts but those that hit the saved post-hooks themselves |
| | `ReportIsTrue` | every lineage is accounted for, and as what happened to it |
| | `RenewsAsAsked` | dry runs that save nothing and put in place only what was saved before, valid certificates not replaced by test ones, each lineage's own parameters |
| | `LineagesApart`, `OthersSurvive` | `Certificates`: no two lineages in one archive; the names asked for, or some of them under `--allow-subset-of-names`, of a command that gets or keeps a certificate; nothing of a deleted lineage left; no step takes from a lineage that nobody named, or names from one unasked |
| | `RenewsAsIssued` | `Options`: plugins, key size and server of the issue; no false conflict, no account of another server |
| | `NothingLost`, `Exclusive` | `Session`: records, temporary log and messages; locks (of any command but `plugins`) |
| | `NamesInOrder` | `CheckpointNames`: names are free and sort in the order of finalization, whatever the clock does |
| `release` | `Stoppable` | `GameRelease`: a running backend can be stopped through its link |
| | `MessagesAreTrue` | `ReleaseIsTrue`: the game is restarted, and the version that arrived is linked if the script reads its own time file; `RollbackIsTrue`: the version picked is linked, and the game restarted if it was stopped first; whichever operations went wrong before |
| | `OnlyOldIsDeleted` | `Retention`: `LogsKept`, `LogsGone`, `SixKept` |

Three runs end in a violation, each a disagreement between the code and what its comments or
documents say; `PROJECT.json` quotes them.

| run | what it shows |
|---|---|
| `lineage_torn` | a kill while `fullchain.pem` is written: a version with an empty file is deployed |
| `handler_ignored` | a handler whose body ended well stays installed and swallows a signal that has stopped a later body; the program goes on behind it |
| `installer_dropped` | a renewal while the web server's configuration is broken drops the installer, for this renewal and all later ones |

### Disagreements and hazards without a run of their own

These are in the models too; each makes a property fail when the cfg is changed as said.

| change | then |
|---|---|
| `reverter_rmtree`: PROPERTY `RecoveryAlwaysCompletes` | death inside rmtree with a copy gone and FILEPATHS left: every later recovery fails |
| `release`: INVARIANT `FailureExits` | `(...; exit 1)` (gamedep.sh:89) leaves only a subshell: a failed push is released |
| `release`: PROPERTY `AllMessagesAreTrue` | sybphd.sh:2 reads the time file of `sdmjhd` and reports success for a version that is not the one released; `gamed_server_roll` does not stop the game (roll-game.sh:58), the old process goes on serving, and success is reported |
| `release`: `Together = TRUE` | `Stoppable` and `MessagesAreTrue`: a release beside a rollback |
| `client`: `Parts = {"nginx"}`, `Odd = TRUE` | `NoPageLost`: `ssl` said once for a port, in another block (configurator.py:606); the redirect leads to itself |
| `client`: `Parts = {"nginx"}`, `Configs <- SameKind` | `NoPageLost`: "there shouldn't be conflicting plaintextish servers listening on 80" (configurator.py:432-434), but two blocks may be found for a domain by one kind of name, `*.long` and `*.short`: the rank among them leaves the length out, the redirects of two domains go into two blocks, and one page is lost |
| `client`: `Parts = {"apache"}`, `Odd = TRUE`, INVARIANT `RedirectedAll` | a nameless plain host shared by two ssl hosts is redirected for one of them |
| `client`: `Parts = {"nginx"}`, `Configs <- PlainAt443` | `ServerLoads`: a block with a plain `listen 443` gets a second one with `ssl` (configurator.py:497-535), which nginx refuses |
| `client`: `Parts = {"apache"}`, `Servers <- NameTaken` | `Undone`: the link that enables a new site is registered before it is made (override_debian.py:63); its name is another site's, and the recovery removes that |
| `issuance`: INVARIANT `Quiet` | "Failures are logged, but not raised" (dns_digitalocean.py:108), but an account without a zone for the name gets a PluginError (162) out of the cleanup |
| `issuance`: PROPERTY `NeverEarly` | `(when - now).seconds` (client.py:381) drops the fraction of a second: a poll comes up to a second early |
| `issuance`: `UtcOffset = 2` | `RespectsRetryAfter`: a date is taken for local time (client.py:266-268) |
| `commands`: INVARIANT `PostHooksAnyway` | an interrupt while the saved post-hooks run (hooks.py:146-150) leaves the rest of them out |
| `issuance`: `Outsiders = TRUE` | `IssuedAsAsked`: another client of the account spoils an authorization, and a certificate for fewer names is issued |
| `handler`: `Windows = TRUE` | `CleansUp`: a signal before the first statement of `__exit__` |
| `commands`: `Wrap = 6`, `MaxTime = 6`, `MaxName = 11` | `NamesInOrder`: names with a digit more |

Others that the models allow for and that properties therefore except by name: an invocation of
`plugins` registers the release of its locks twice, and the second call removes what others have
locked (util.py:134; `Exclusive`); a command that finds a version saved and not deployed puts that in place and ends, though it may
have other names than those asked for (main.py:191; `RequestMet`); two clients of one name at Route 53 replace each other's records
(`RecordStays`); a game whose name is part of another's, `sdmj` of `sdmjht`, may lose every backup
(`SixKept`).

### Bounds, and why they are enough

* **Reverter**: two files tell "the file at hand" from "another one", which is
  all the code distinguishes; two contents tell old from new. With two backups
  and two crashes a rollback through both is interrupted and taken up again, and
  the recovery from the first crash is cut by the second. `IInv` and the
  refinement are proved without these bounds, so that the run with two files can
  do with one backup.
* **CheckpointNames**: `MaxTime` and `MaxName` let the clock jump back behind,
  onto and beyond every name, and let the names run ahead of the clock. `Wrap`
  is above every name, as for all times from 2001 to 2286.
* **LockFile**: three processes are one that holds, one that removes and one
  that creates. There is one inode number more than processes, so that a free one
  always exists; numbers do get used again. The theorems hold without these bounds.
* **Lineage** (bounds the theorems do not have): four versions are the deployed one, a partly written one, its
  successor, and one more renewal; three kills fall into saving, linking
  and the repair of the linking.
* **ErrorHandler** (the same): three statements give "one after another inside a third" and
  three nested; three signals give one for a body and two for the cleanups.
* **GameRelease** (the same): each of two consoles may release each of two games until two versions
  have been made, so that there is one to roll back to and one to roll forward to; two
  revisions tell new code from old. The pairs of games are one backend and one front that are rolled back like `hbhd` and
  `hbqd`, and two backends of gamed, one reading the other's time file; a backend that is stopped first and one that is not share
  nothing but the time, and do not meet. A list of more than three versions, of which
  a rollback shows the last three, is not reached.
* **Retention**: the days run from December over a February of 28 and one of 29
  days, so that every length of month and both ends of a year are crossed; nine releases are two more than
  the seven at which the loop begins to delete.
* **Authorization** (bounds the theorems do not have): two domains tell "this one" from "the others"; two rounds are
  one that goes on and the last one. **DnsRecords**: two clients collide, two guesses are the wrong
  and the right zone; two polls for "not yet" and "too late". **AcmeNetwork**: two authorizations in
  a heap, two attempts, a chain of two: at the bound and below.
* **Client**: two domains and two blocks give every relation between a certificate and a pair of
  blocks: both in one, one each, one in none. Three hosts are tried once (`Shared`). Three account keys are one held, one lost and one new.
* **Commands**: two lineages with different hooks, servers and installers show what leaks from one into
  the other; two runs, what the first has written. Four commands are issue, rename or copy,
  extend, and revoke or delete. Three
  commands of `Options` are issue, renew with something given or broken, and renew again.
  Two other invocations at two of the four directories give every order of their locks against ours.

### Deadlock, symmetry, fairness

Deadlock is checked except for `ErrorHandler` (the process ends) and
`GameRelease` with `Retention` (both consoles may be closed and the bound on TIME be used
up; the last day may have come). `client` and `commands` state no
fairness: their steps are a program's own, and an action `Over` (in `Session`
the other invocations) is enabled where it has ended; that nothing else can stop is what the
check for deadlocks shows, and their graphs have no cycles but repeated commands. Symmetry is used in `reverter` only, for files and for contents: no action
compares them except for equality.

Fairness is weak and only on what goes on by itself. `Reverter`: a running recovery
proceeds, and certbot is started again (cron, a systemd timer); not
that anybody registers or finalizes anything. `LockFile`: a process that is running
proceeds; not that it starts. `Lineage`: a running process proceeds and certbot is
started again; not that a renewal succeeds. `ErrorHandler`: cleanup functions
return; not that bodies end. `Authorization`, `DnsRecords`, `AcmeNetwork`:
the client goes on; not that the CA decides, the provider spreads a change or the server answers well, since
the client's own bounds have to end it. Kills are bounded in each case: with a kill in
every run nothing would ever complete.

## 4. Proofs

`ReverterProofs`, for any files, contents, number of backups and of crashes:

* `TypeCorrect`: `Spec => []TypeOK`. `TypeOK` is not inductive, because `more`
  and `target` stay in range only with `LoopSound`; the two are proved together.
* `IInvInvariant`: `RmtreeCrash = FALSE => (Spec => []IInv)`. `IInv` says that
  no listed copy is lost outside rmtree, that what does not exist lists nothing,
  that what the loops have passed is back in its old state, and that a file saved in
  `IN_PROGRESS` was not registered as new by a challenge. The last two are what makes an
  interrupted recovery repeatable: restoring again starts from a disk that agrees with the copies
  wherever the first attempt had come.
* `Refinement`: `RmtreeCrash = FALSE => (Spec => Store!Spec)`. The mapping
  takes `cfg` to what `recovery_routine` would leave on disk if it ran now. Per action, either
  this does not change (`QuietRefines`, `LoopRefines`, `DeletingRefines`), or it is a commit
  (`FinalizeRefines`), a step or the end of a rollback (`LoopRefines`, `RemoveDoneRefines`,
  `RemoveDirectoryRefines`) or an edit by hand (`UserEditRefines`).
* `Survival`: `Spec => OriginalsSurvive`, without a premise: also when the process dies inside rmtree. Its invariant,
  `KeptInv`, is what is left of `IInv` then: copies of the directories that are not being deleted are
  all there, and while one is being deleted what is left of it agrees with the disk (`RmtreeSoFar`).

The premise of the other two is needed: when the process dies inside rmtree with NEW_FILES gone and
FILEPATHS left, the next recovery brings back a file that the interrupted run had
created and then saved, and `ImplementsConfigStore` fails.
The constants' assumptions used are that the marks `Absent`, `None` and `Lost`
are no contents, and that the bounds are natural numbers.

`LockFileProofs`, for any processes, inode numbers and deaths:

* `OwnershipInvariant`: `Spec => [](TypeOK /\ Ownership)`, which is inductive;
* `Exclusion`: `Spec => []MutualExclusion`. Two holders would both own the lock
  on the inode that the path names. `MutualExclusion` alone is not inductive, since nothing
  in it says that a process past `lockf` owns what it has open.

`LineageProofs`, for any number of versions and kills:

* `LinksInvariant`: `Spec => []IInv`. `Recoverable` says that what `_fix_symlinks` would make of the links
  is one whole version; `Progress` says, for every position of the three loops (repair, mark and
  move, unmark), which links and marks they have reached. Without it `Recoverable` is not
  inductive: whether a link may be moved depends on whether all marks are set. `Saving` keeps a version under way
  above all that any kind has a file of.
* `Opened`: `Spec => []OpenedClean`, and `Refinement`: `Spec => ImplementsLineageStore`. The deployed version of the
  abstract store is the one the links can be repaired to. Unlinking, linking and repairing leave it alone,
  except the one link that completes a move, which is the abstract deployment. The step in which a whole version
  comes into being is the abstract saving (`LatestCommonIsNewest`, from the greatest element of a bounded set of numbers).

`ErrorHandlerProofs`, for any nesting, functions and signals, under `Windows = FALSE`:

* `HandlersInvariant`: `Spec => []IInv`. The statements the process is in were entered one after the other, each
  remembers a handler from outside itself, every statement that was left is marked `executed`, and the handler that is installed is that of
  the innermost statement, or of one left since, which then ignores signals. `CleanupIsWhole` alone is
  not inductive: a signal in a cleanup is harmless only because of whose handler receives it.
* `WholeCleanup`: `Spec => []CleanupIsWhole`; `LeavesClean`: `Spec => CleansUp`.

The premise is needed: in the two windows, between the call of `__enter__` or `__exit__` and its first statement,
a signal finds a handler installed whose statement has not begun, or leaves `__exit__` before anything is cleaned up.

`IssuanceProofs`, of `AcmeNetwork`, for any authorizations, attempts, length of the chain, and losses:

* `CarriedOut`: `Spec => []OnceAndWhole`. Besides its four parts the invariant says that nonces in the pool have signed nothing,
  that the request under way has not been carried out as long as it may be sent again, and that no later one has.
* `RetryAfterIsKept`: `RetryBelowDay /\ AtGreenwich => (Spec => RespectsRetryAfter)`, whatever messages take: no poll is a second early.
  `Sleep` waits for the whole seconds of a difference without its days, so that a `Retry-After` of a day or more is not kept, and any may be
  missed by a fraction of a second; below a day, no authorization sleeps for as long as one (`WithinDay`), and the fraction is all that is
  dropped. Both premises are needed: section 3 has the runs.

`IssuanceProofs`, of `DnsRecords`, for any clients, zones and records of before (zones are numbers from 1, `DnsAssumption`):

* `RecordsStay`: `MCSpec => []RecordStays`, and `RecordsGo`: `MCSpec => []Restored`. Neither says what a cleanup raises. `Search` says that no client has passed the closest zone
  by, so that all of them work in the same one; `Held`, that a record put up is there until its own client's cleanup;
  `Owed`, that a record too many belongs to a client that is still to clean up, or was in trouble when it did. `Restored` alone says
  nothing until everybody is done; and where a provider deletes whole sets, as google does, it holds only because
  the set then is the one that the client made, which `Owed` says too.

`IssuanceProofs`, of `Authorization`, for any number of domains and polling rounds. What the CA offers for a domain
is any of the three offers of the model, of one to three types:

* `NothingStays`: `MCSpec => []NothingLeftBehind`. `Exposure` says that between perform and the clean-up what the world can see is
  some first part of the challenges, and that the plugin knows of it; no cleanup leaves any of such a part (`Cleaned`). For `webroot` and `manual`,
  whose cleanups stop at the first entry they do not find, it matters that the part is the first one; for `manual`, which keeps
  its records by domain, also that a domain has only one challenge (`Choice`).
* `Warranted`: `MCSpec => [](A!CertIsAuthorized /\ A!PathSuffices)`. `Choice` follows the loop over the domains: the path found for one
  suffices for the CA and costs less than anything that cannot be solved would (`Costs`, `Paths`).
* `AsAsked`: `~Outsiders => (MCSpec => []IssuedAsAsked)`. `Failing` traces an authorization that is invalid to a challenge of our
  own that was found so, which polling reports. Section 3 shows why the premise is needed.
* `KeptForTheCA`: `MCSpec => KeptUntilDecided`. `Checking`: a challenge that was answered was seen decided, or its domain is still on the
  list to check.

`ClientProofs`, of `Accounts`, for any keys (numbers, as `KeysAssumption` says), addresses, commands, kills and lost answers:

* `DiskAndCAInStep`: `Spec => []InStep`. Between commands this is plain; what is inductive also says how far `_save` has come with
  the three files, that a new account is made only where no other can be loaded, and that only the account
  under way may be out of step.
* `KeysAreKept`: `Spec => KeyKept`.

`ClientProofs`, of the installers:

* `AllUndone`: `NameFree => (MCSpec => []Undone)`, for any configurations of nginx and Apache, whichever steps fail and in
  whichever portions the challenges are cleaned up. The inductive invariant, `InstallersInv`, says where the configuration
  that was found is at each point: on disk, in the temporary checkpoint, in the checkpoint in progress, or at the bottom of those
  finalized. For nginx it counts the open challenges (`challOut`), because the last of them reverts; for Apache, whose
  checkpoints hold only files that changed, it says that nothing has changed as long as there is none. No step
  of the proof looks into a configuration, so it holds whatever the edits make of it. The premise, that no other site has the
  name of the link a new one is enabled by, is needed: section 3 has the run without it.
* `AlwaysLoads`: `Complete /\ SslAt443 => (MCSpec => []ServerLoads)`, for any number of blocks and hosts. Here each edit is looked into. For nginx
  every configuration there is, in memory, on disk or in a checkpoint, is `Good`: one block at most has a
  default address at a port, and no block an address twice. A block that speaks plain text at port 443 would get a second address
  there, which nginx refuses; `SslAt443` says that there is none, and each edit keeps it so (`Fine`); section 3 has the run without it. The two edits that could make a second one are the copy of the default block, which drops
  the word, and the split for a redirect, which moves the plain addresses: the default address of a block at a
  port must be one, or a half of it would stay (`Tame`). `ConfigsAssumption` asks that nginx loads what it starts with, which
  `prepare` tests.
  For Apache, from the clean-up of the challenges on no host on disk waits for a module
  (`Tidy`), and the plugin knows which modules are enabled. An edit that uses a directive enables its module before
  (`ModNeeded`). `Complete` asks that of the server found, and more than that Apache loads it: a host that stands within
  `<IfModule mod_ssl.c>` and lacks some other module is not read as long as ssl is off, and breaks the
  server when the plugin enables ssl. TLC finds that run when such a server is among those it starts with.
  `ServersAssumption` gives the types.
* `PagesKept`: `NoLoopYet /\ OrdinaryBlocks => (MCSpec => []NoPageLost)`, for any number of blocks and hosts. For Apache, a rule that the plugin
  writes goes into a host at port 80, since it was found by its port or is where the ssl host was copied from (`ApacheStraight`). For nginx
  (`NginxSteady`) every configuration on disk, in a checkpoint or in service has no redirect at port 443 and keeps the `Wanted` pages, those
  of the domains that a block in plain text was named for. What is inductive is about the memory
  (`SteadyMem`): while certificates are deployed nothing is redirected and each domain treated is `Covered`, the best block for it is an ssl block; so stapling
  finds that block again and makes no other one, and a redirect goes into the block that answers in plain text
  (`Handled`), whose addresses there move to a new block. That the plugin and nginx find one block rests on
  `Answers` and `Selected`: both go by the kind of name first (`Kind`). The premises: no host of Apache at port 443 leads
  to https already; and the blocks of nginx are `Untouched` by an earlier run, say `ssl` where they listen at 443 (`SaysSsl`), and no two
  of them are found for a domain in plain text by one kind of name (`OneOfAKind`). The last two are needed: section 3 has a
  run without each. Of the 126 configurations of the run 124 are ordinary; the other two `NoPageLost` holds of, too.
* `ChallengesAnswered`: `Answerable => (MCSpec => []ChallengeReachable)`. The plugin looks for a block or host before it marks it, and the server
  looks for one among all, those of the challenge's own file too. For http-01 with nginx the block chosen is the only one found for the
  domain by so good a name (`Heard`), stays it while the next domain adds a name or a block (`HttpWork`), and where there is none to choose
  no block answers by name but the challenge's own. For tls-sni-01 that one listens where the chosen block speaks ssl, which
  is 443, and has a name nobody else has (`SniWork`). With Apache every host at port 80 that may be asked for the domain
  carries the answer (`Replies`), also if the plugin's `_find_best_vhost` finds none. Afterwards `_chall_out` counts the challenges that are open
  (`NginxFound`), so that no clean-up but the last takes the answers away. The premises: a site that is asked for http-01 speaks plain text at port 80
  (`PlainAt80`), where no two blocks or hosts match a domain equally well (`OneOfAKind`, `OneMatch`) and hosts are enabled, as those
  that Apache serves are; every address at port 443 says `ssl` (`SaysSsl`); and the names that the CA makes up for tls-sni-01, digests under `.acme.invalid`, are no site's
  (`NoZname`). All servers of the run and 124 of its 126 nginx configurations are so; TLC finds the property true of the other two as well.

`CommandsProofs`, of `Session`, for any other invocations, with names of their own (`OthersAssumption`):

* `NothingIsLost`: `Spec => []NothingLost`. The invariant follows the handlers of the root logger through the steps that rewire them:
  each record is in one of the three places, and `logging.shutdown` is the first function registered and so the last called.
* `DirectoriesAreExclusive`: `Spec => []Exclusive`. A directory is held by the one whose file is at its path, and the
  release of the locks is registered once: except for `plugins`, the first lock that is refused ends the command.

`CommandsProofs`, of what commands do to the machine's files:

* `NamesAscend`: `OneLength => (MCSpec => []NamesInOrder)`, for any number of checkpoints and any jumps of the clock. `Ascending`: the names
  are in the order of their finalization, so that the last is the greatest, and a new one is above it. The premise says that all
  names have one number of digits, as all times between 2001 and 2286 do. Section 3 has the run without it.
* `HooksInPairs`: `MCSpec => []HooksPaired`; `NoneIsForgotten`: `MCSpec => []ReportIsTrue`; `ChangesAsAsked`: `MCSpec => RenewsAsAsked`; for
  any lineages, parameters and command lines (files have different names, none of them `all`). The inductive invariant has a part for
  each kind of hook, because they are kept apart in different ways: pre-hooks by the set `already` (`PreRun`), deploy hooks by the
  lineage they are run for, which is treated once (`DeployRun`), post-hooks by the list they are saved up in (`PostRun`: what an attempt owes was
  run, is saved up, or is about to be, unless the command was killed or an interrupt came while they were saved up or run). A dry run
  may put in place, and the server load, what an earlier command saved: `ChangesAsAsked` says nothing more is changed. `InUse` says whose parameters are in force, `Treated` which files are left in the queue.
* `EachInItsPlace`: `MCSpec => []LineagesApart`; `NoneIsHarmed`: `MCSpec => OthersSurvive`; for any domains (none of which is one of the
  marks), suffixes, commands and kills. The name of a new lineage is free of files and of directories (`SuffixIsFree`, by the least free
  number); `Apart` follows from that as long as nobody copies a renewal file, and `Alone` says that a revocation which has begun
  to delete had asked whether the archive is another lineage's, the case in which it was copied.
* `SameAgain`: `MCSpec => RenewsAsIssued`, for any plugins (none is named like a mark), machines and command lines. `Recorded` says that a renewal file has
  what was in force at the issuance or leaves out a default; `Settled` and `Chosen` follow a command's options from the
  file and the command line to the plugins picked.

`GameReleaseProofs`, for any games, consoles started, revisions and failing pushes, as long as the consoles do not work at once (`~Together`):

* `AlwaysStoppable`: `Spec => []Stoppable`, whichever time files the scripts read and whichever rollbacks do not stop their game.
* `TrueMessages`: `Spec => MessagesAreTrue`, the same. What `MessagesAreTrue` excepts, the version linked by a script that reads another game's
  time file and the process after a rollback that stops nothing, is false of `AllMessagesAreTrue` (section 3).
* `OldIsDeleted`: `MCSpec => []OnlyOldIsDeleted`, for any days, any bounds on the runs missed and on the releases; the
  two consoles play no part in it. `LogsInv` says what date a log of a given age bears: `today - age` in the
  month of today, counted back from the last day of the month before (`EndBefore`) for the next 28 ages, and
  some number below that for older ones. `Following` is the calendar: a day follows in its month or is the first of the
  next. From these `Delday` keeps age 5 and deletes age 9 in every month. `FewAfter`
  counts backups: at most six are not before one of the second game's six newest, so none of them is
  among those that `head -n` names. The list of the two games, one name part of the other, is fixed.
  `RetentionAssumption` asks that the first day is a day of the calendar and has the eight before it in its month.

Only model-checked: everything about liveness, which the prover cannot handle
(`RecoveryCompletes`, `SomeoneGetsIn`, `NewestGetsDeployed`, `SignalEnds`, `Ends`), and,
of the two installers, `Served`. What folds and filtered
sequences compute for every list needs an induction that the prover does not have;
in `Renewal`, `PostHooks` is therefore written without a fold: the directories hold at most one
post-hook in the model.

## 5. Not modelled

* *Reverter*: COMMANDS (the installers' models take them to succeed), CHANGES_SINCE, torn lines of FILEPATHS, the listing of checkpoints.
* *Lineages*: autodeployment, OCSP, the listing of certificates.
* *Configurators*: the grammars of the configuration files, the Augeas tree, includes, the
  overrides for distributions other than Debian, the upgrade of option files. A block or host
  is what its directives mean.
* *acme*: message formats, signatures, ACME v2 orders, and cryptography; *plugins*: sockets,
  file modes, prompts.
* *log, util*: an interrupt while the excepthook or the functions at exit run.
* *cli*: help texts, the parsing of each of the options; only those that interact.
* *letshelp, compatibility tests, certbot-auto*: bootstrap, one-shot and test code.
* *Code release* (`deploy.sh`): in every row of `project.resource` the link ends in
  a slash, so that `rm link/ -fr` (line 83) empties the directory of the version that is live, and the
  `ln -s` behind it fails or makes a link inside. Nothing one would want of a release holds then.
* *Cdn and code rollback*: `roll-cdn.sh` links the directory of all versions whichever is chosen, and reads
  a fourth field where `cdn.resource` has three; `roll-code.sh` runs `tar; rm; mv` on each machine
  with no condition between. A model would repeat three lines of shell, and no property of a failing
  step would hold.
* *The database in `cleanlog.sh`* (line 51): `today - 7` without a case for the first days of a month;
  rows of the day before are deleted. *Game logs* are treated as logs are, with six digits more.
* *Password rotation*: three commands in a row, whose effect hangs on how two shells and sed
  expand the special characters of a password. *Monitors*: no state.

## 6. Plan

What is left is proof, of the installers: `Served`.

Of the code, COMMANDS and torn lines in `Reverter` are the largest part worth adding.
Theorems take over from runs where they can, so that the number of runs stays small: a
run stays when it asks something no theorem answers.

## 7. Further hazards

Of the same kind as those in `PROJECT.json`. Where a property is named it covers the hazard; else the text says why none does.

* `certbot/reverter.py:120`: A rollback of several checkpoints is interrupted between two of them or inside one. `ImplementsConfigStore`
* `certbot/reverter.py:236`: A copy of one of several files fails; those recorded before it stay recorded and the caller goes on. `ImplementsConfigStore`
* `certbot/reverter.py:238`: FILEPATHS is written through a buffer: a kill may cut its last line, a path that the next recovery would copy to. The model keeps any subset of the whole lines. A torn last line names no file or another one; the recovery then fails in copy2 like one with a missing copy.
* `certbot/reverter.py:552`: The integer part of a name gains a digit, and names sort as strings: the newest checkpoint no longer sorts last. SortsBefore has it, at the constant Wrap. It is out of reach in the run, as between 2001 and 2286; with Wrap within reach RollbackTakesNewest fails.
* `certbot/reverter.py:359`: register_file_creation makes no check against the temporary checkpoint, on which the order of recovery relies (comment in recovery_routine). Reverter assumes what the installers do: they do not register for good what a pending challenge has registered.
* `certbot/reverter.py:290`: The administrator edits a file after a crash and before the next run; the recovery overwrites the edit without a word. ConfigStore allows the administrator to change the committed configuration only through files no open checkpoint covers; the loss of such an edit is documented behaviour, not an error.
* `certbot/lock.py:58`: The loop of acquire goes round as long as the file it locked is not the one at the path. `SomeoneGetsIn`
* `certbot/lock.py:77`: fcntl locks belong to the process: opening and closing the same lock file twice in one process drops the first lock. Session has the locks of one process by directory, each a different path; two directories of one process that are the same path are not in the model.
* `gamedep/gamedep.sh:3`: One console releases the same game twice; both releases have one time stamp, and rsync --delete overwrites the version released first, which cannot be rolled back to any more. The model has it (Pull may follow ScriptSucceeds under one TIME); no property says that versions keep their code, because the scripts do not provide it and no document promises it in so many words.
* `update/postpush/nmwqd.sh:5`: The link is made in the directory the script was started in, not in the game's directory from which the old link has just been removed (also pdkqd.sh:5 and sybpqd.sh:5). A matter of the directory ansible starts the script in, which no file of the repository says.
* `certbot/error_handler.py:70`: A signal falls between the call of __exit__ and the assignment that tells the handler that the body is over: SignalExit leaves __exit__ and nothing is cleaned up. A window of one bytecode: the constant Windows opens it, and CleansUp and CleanupIsWhole then fail; no run does, since the passing run needs it closed.
* `certbot/auth_handler.py:285`: Challenges are removed from self.achalls while the list itself is iterated over, when cleanup is called without a list: every other one stays registered. It happens only on the way out of an exception that ends the command, so that what stays registered is never looked at again; Removed has both ways, and no property tells them apart.
* `update/deploy.sh:81`: Every machine of the group is relinked in each turn of the loop, before the later machines have received the version, and when rsync fails as well. Not modelled: the rm of deploy.sh:83 empties the version that is live, and no property of a release holds.
* `certbot/auth_handler.py:84`: A pending authorization is shared with another client of the account, whose failed attempt makes it invalid although every challenge solved here succeeded: get_authorizations returns the rest without a word, and a certificate for fewer names than asked for is issued without --allow-subset-of-names. The constant Outsiders lets it happen, and AllOrNothing fails then; the passing run keeps the other client away. The docstring (auth_handler.py:58-59) promises an error when not all authorizations are retrieved.
* `certbot/plugins/webroot.py:216`: The cleanup of a batch stops at the first validation file that is missing; the files behind it stay. `NothingLeftBehind`
* `certbot/plugins/manual.py:218`: The environment of a domain is popped: a second challenge of the same domain raises KeyError in cleanup, and one whose hook never ran as well. Two challenges of one domain come with combinations of two only, which Start excludes for the manual plugin; without the exclusion NothingLeftBehind fails.
* `certbot-dns-route53/certbot_dns_route53/dns_route53.py:93`: UPSERT replaces all TXT values of the name: the record of a concurrent client, which the CA may be about to read, is gone. RecordStays names route53 as its exception: two clients of one name at route53 violate it. The plugin says nothing of concurrent use; those of cloudflare and digitalocean promise to cope with it.
* `certbot-dns-digitalocean/certbot_dns_digitalocean/dns_digitalocean.py:118`: _find_domain raises PluginError for an unknown domain, and del_txt_record, documented as logging failures and not raising them, catches digitalocean.Error only: the names behind it in the batch are not cleaned up. Route53 has the same gap. No property a run checks covers it: Quiet states the promise, and digitalocean breaks it (section 3).
* `certbot-dns-google/certbot_dns_google/dns_google.py:135`: The wait for a change to leave the state pending has no bound and no pause. `Ends`
* `certbot-dns-cloudflare/certbot_dns_cloudflare/dns_cloudflare.py:158`: The zone is searched from the name towards the root: an error or a private zone on the way must not send the record to a parent that has delegated the name. `Restored`
* `acme/acme/client.py:721`: The nonce of a response is looked for before its status: a request that was carried out raises MissingNonce when the header is absent, and the caller takes it for failed. `OnceAndWhole`
* `acme/acme/client.py:376`: Authorizations are polled in the order of the times their responses name, and pushed back with a new time; one is given up on while others are still pending. `OnceAndWhole`, `RespectsRetryAfter`
* `acme/acme/client.py:444`: The server controls how long a chain is; ten links are followed. `OnceAndWhole`, `Ends`
* `certbot-nginx/certbot_nginx/configurator.py:308`: Among wildcard names of one rank the longest must win, as in nginx; ties and regular expressions go by the order of blocks. `Served`, `ChallengeReachable`
* `certbot-nginx/certbot_nginx/configurator.py:493`: A block without a listen line listens at port 80; as soon as 443 is added the implied address has to be written out, or plain requests lose their block. `NoPageLost`
* `certbot-nginx/certbot_nginx/parser.py:366`: A default block may be there once for an address: a duplicate that keeps the word makes every later reload fail. `ServerLoads`
* `certbot/client.py:551`: Rollback after a failed restart takes back one checkpoint; with two enhancements the first and the deployment stay. What is left is a configuration that nginx has accepted or not yet seen. Undone covers the deployment; after enhancements the code takes back one checkpoint by intent, and no text says how far it should go.
* `certbot-apache/certbot_apache/configurator.py:1553`: A virtual host already given a redirect in this run is skipped for the next domain, although the first rule names only the first domain's host names. RedirectedAll of MCClient states the docstring (configurator.py:1513). With Parts = {apache}, Odd = TRUE TLC finds it violated: a nameless plain host shared by two ssl hosts is redirected for the first of the two domains only.
* `certbot-apache/certbot_apache/configurator.py:1740`: The virtual host written for a redirect goes to vhost_root, which is sites-available on Debian; nothing enables it, and the run still reports the redirect. RedirectedByName asks only for redirects of names some plain host has; there the vhost made from scratch is never needed.
* `certbot-apache/certbot_apache/http_01.py:96`: When no virtual host is best for a domain any may answer in its place: all of them have to carry the challenge. `ChallengeReachable`
* `certbot-apache/certbot_apache/configurator.py:1124`: The ssl copy of a plain host must not copy the rules that lead to https, or the site loops. `NoPageLost`
* `certbot-apache/certbot_apache/configurator.py:1776`: The plain host of an ssl host is its ancestor if it was made in this run, else one with the same names; a nameless one comes last. `Served`
* `certbot-apache/certbot_apache/override_debian.py:144`: a2enmod fails after the undo command is registered: the edit ends with an error, and the recovery has to take back what the other modules and files have become. `Undone`, `ServerLoads`
* `certbot-apache/certbot_apache/augeas_configurator.py:176`: After a recovery the plugin's cached associations and module set describe a configuration that is gone. `Undone`
* `certbot/log.py:71`: Functions registered at exit run last first: messages, locks, then the log; an exception's records must be flushed before, and an unused temporary file must go. `NothingLost`
* `certbot/main.py:1214`: Only plugins_cmd may go on without its directories; what it could not lock it must not be taken to have. `Exclusive`
* `certbot/log.py:109`: An interrupt after the temporary file is closed and before the excepthook is replaced tells the user of a log file that has just been deleted. NothingLost asks where the records are, which is the log by then; the wording of the message is not in the model.
* `certbot/reporter.py:71`: print_messages asks sys.exc_info() for an exception, but runs at exit, when there is none any more: on_crash=False has no effect, though interfaces.py:587 says it has. Reported asks only that nothing meant to be seen is lost; the one message marked so is put at the end of a dry run (main.py:79).
* `certbot/main.py:107`: An interrupt in a pre-hook, or a kill anywhere, leaves a service stopped that the pre-hook has stopped: the post-hook is registered behind it. Balanced asks for the post-hooks of attempts that began, of commands that were not killed and whose saved post-hooks were not interrupted; section 3 has the run without the last.
* `certbot/main.py:1075`: A reload that fails or a kill before it comes after the new version is saved: the lineage is no longer due, and nothing reloads the server until the next renewal. ReportIsTrue checks that such a renewal is not called a success. That some later command reloads the server is not promised and does not hold.
* `certbot/renewal.py:282`: A lineage begun on a test server may hold a valid certificate by now: the server of its file and the issuer of the certificate both have to be looked at. `RenewsAsAsked`
* `certbot/storage.py:1000`: new_lineage claims an empty renewal file before it looks at the directories; a failure or kill behind that leaves a file that makes every renew fail, and of which delete fails at os.remove(None). The model has the empty file (Empty, Unlist); that it goes away by itself is not promised. TLC's NothingShared and NothingLeft hold in spite of it.
* `certbot/main.py:191`: A version that waits is put in place by the command that finds the lineage by its old names, and is reported as nothing to do: names of a killed extension take effect unannounced. RequestMet leaves out commands that end so (ended = deployed; section 3): there the certificate in place has other names than those asked for.
* `certbot/cert_manager.py:89`: The plain delete command does not ask whether another lineage leads to the same archive. OthersSurvive is about revoke, the one command that checks; delete violates it by design.
* `certbot/main.py:312`: With --cert-name the domains of a lineage may shrink: only after the user has seen the change. `OthersSurvive`, `LineagesApart`
* `certbot/account.py:181`: The three files of an account are written one after the other; a kill leaves a torn one, whose DeserializationError find_all does not catch: every later command fails (interfaces.py:29 promises AccountStorageError). KeyKept and InStep are checked with such files about (Crashes); that the machine recovers by itself is not so.
* `certbot/client.py:163`: The answer to a registration is lost: the CA has an account whose key nobody has saved. The next command registers another. `KeyKept`, `InStep`
* `certbot/eff.py:61`: The subscription is posted after the account is saved; an exception of requests is caught by nobody, and the command fails though it has registered. `InStep`
* `certbot/main.py:491`: A user who chooses no account makes _determine_account fail on None. Modelled (Determine ends as failed); the command changes nothing by then.
* `certbot/storage.py:233`: Options that equal the default are not saved unless given; after an upgrade with other defaults the certificate's renewals change. One version of the program is modelled; within it SameOptions holds.
* `certbot/renewal.py:108`: _restore_webroot_config takes webroot_path from the file even where the command line gave one. The web root's path is not in the model; none of the options modelled is restored in this way.
* `clear_bakfile/clear_bakfile:12`: A game whose name is part of another's (sdmj, sdmjht) may lose all of its backups: fourteen are found, eight deleted, its own first. SixKept leaves such a game out, because the code does not keep its backups; without the exception TLC finds the six newest deleted.
* `cleanlog/cleanlog.sh:51`: For the database the month is not treated at all: on the first days of a month `today - 7` lies behind every date of the month before, and rows of yesterday are deleted. No property of the rows younger than seven days holds; Retention has the log files only, for which the month is treated.
* `Rollback/rollback-code/roll-code.sh:58`: The live directory is removed whether or not the tarball was unpacked, and a directory left by an interrupted rollback is mixed with the next version's; the message asks only whether a directory is there. The list of versions is read from one machine of several. Not modelled: `tar; rm; mv` is one line per machine without a condition, so that no property of a failing step holds.
* `Rollback/rollback-cdn/roll-cdn.sh:47`: The link is made to the directory of all versions, not to the one chosen; and cdn.resource has three fields a row, where the script reads the backup directory from a fourth. Not modelled: the chosen version does not occur in what is executed.
* `config/changePass/change.sh:25`: The new password is recorded before it is set, and merge.txt is edited by replacing the old password wherever it occurs, also for other hosts. Not modelled: whether the password set is the one recorded hangs on how two shells expand its special characters.
