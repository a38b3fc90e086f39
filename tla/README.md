# Specifications of homelab-agent

homelab-agent runs in a container on every Docker host of a home network. A
dashboard calls its HTTP routes; the agent drives the Docker daemon of its host,
keeps jobs in memory, starts helper containers for the work that has to outlive
a request, and now and then restarts, because it can rebuild itself.

These modules specify the parts of it whose correctness depends on the order in
which things happen: threads, helpers, other hosts, restarts and power losses.
They are checked with TLC on small instances and, where that is possible, proved
for all instances with TLAPS. `PROJECT.json` maps each definition to the lines it
models.

    tlc -config VolumeBackup.cfg MCVolumeBackup     # a run
    tlapm VolumeBackup_proofs.tla                   # the proofs

`WhatIsKept_proofs` and `HostServices_proofs` hold the proofs of twenty
components between them and take `tlapm` about a quarter of an hour each from
nothing; the other proof modules take a few minutes.

## 1. The system

| Component | State | Operations | What is hard |
|---|---|---|---|
| Volume backup (`volume_backup.py`) | `_jobs`, at most MAX_JOBS; the locals of one thread per job; containers up or down | `start`, `_quiesce`, helper, `_resume`, `_finish` | stops other people's containers: every path has to bring them back; the operator, the containers and the agent move meanwhile |
| Archive transfer (`backup_helper.py`, `Receiver`, `/backup/receive`) | `<name>.part` and `<name>` in a directory; a connection; two digests | stream, write, fsync, rename, abort; delete | lost connections, killed processes, power loss, two writers of one name |
| Rebuild (`rebuild.py`) | `_jobs`; helpers; the checkout | `start`, hand-off, wait, pull, build | the agent's own rebuild replaces the agent; helpers outlive the thread that waits for them |
| Repository status (`repo_status.py`) | `_tracked`, `_state`, `_remotes` | `lookup`, `invalidate`, polling worker | slow git calls outside the lock; two schedules; a tip shared by several checkouts |
| Network watch (`netwatch.py`, `netwatch_worker.py`) | `_enabled`, detector tables, a state file, one helper | enable, disable, supervisor loop, save | enable and disable during a launch, restart with back-off, encode under the lock but write outside it |
| Packet capture (`capture.py`, `capture_filter.py`, `capture_worker.py`) | `_job`, `_container`, `_starting`; the helper's counters and TCP states | start, stop, reader thread, snapshot; parse; count, sample, flag | a late end of an old stream, a stop during a start; a parser in two processes; numbers that wrap around |
| Stack backup (`stack_backup.py`) | a clone, the last result | timer or trigger, collect, commit, push | other hosts push to the same branch; bounded retries |
| Image updates (`updates.py`) | `_jobs`, known digests, `_wake`, the day of the last nightly update | check, pull, recreate, watch, roll back, nightly loop | partial failure, roll-back tags, the same project as a Compose edit, a wake during a check, a clock that is put back |
| Compose edits (`compose_edit.py`) | `_jobs`, the Compose file | write, up, watch, roll back | partial failure between write and roll-back |
| Settings (`config.py`) | a JSON file and a cache | `get`, `update` | unlocked read, merge and write |
| Sessions (`terminal.py`, `container_logs.py`) | open sessions, helpers, queues | open, pump, close | two pumps, a viewer that leaves, a lock held over an await |
| LAN scan (`lan_scan.py`) | one job | start, sweep, neighbours, ports | check-then-act; a scan that dies |
| Disk usage (`disk_usage.py`, `disk_delete.py`) | scans, kept by folder | scan, delete, correct the kept scans | a delete during a scan, two deletes |
| Files (`files.py`) | the host's files; the queue of a download | list, read, write, move, delete, download | the file changes between check and write; a download that is broken off |
| Containers (inventory in `main.py`) | the published rows, the counters read before | list, read, publish; control routes | counters that start again or are missing |
| Web links (`web_links.py`) | a cache of answers | refresh, probe, choose | a container that is started again while it is asked |
| Deployment (`deploy.py`, `stack_deploy.py`) | a folder for each project | policy checks; write the files, then `up`; `down`, then delete the folder | nothing keeps two requests off one project; commands that fail or take too long |
| Host control (`host_control.py`) | `_facts`; a systemd unit and its log on the host | one command each; upgrade of the packages and its status | the upgrade outlives helpers and agent; facts that are old or absent |
| Probes (`probes.py`) | none | one request, or a burst of echoes | late, lost, doubled and foreign answers |
| Connections (`connections.py`) | a short cache | read the kernel's flows, attribute, gather | bytes that are not counted, addresses that Docker rewrites |
| Other observation (`sockets.py`, `networks.py`, `gpu.py`, `smart.py`) | short caches | read | I/O and parsing |
| Version, registration (`version.py`, `register.py`) | none | one command or request | – |

How they meet. Jobs (backup, rebuild, update, Compose edit) each have their own
table and lock and meet only in the Docker daemon, in a project's checkout and in
its containers. A backup's helper on one host calls the `/backup/receive` route
of another. A rebuild that has finished calls `repo_status.invalidate`. Everything shares
one process: a restart of it ends every daemon thread and every table at once and
leaves helpers, containers and files as they are.

What each component owes its user, and where it is stated:

| Component | Property | Where |
|---|---|---|
| Backup | one backup at a time has containers down | `OneOutage`, proved |
| | an archive made under a running writer says so | `QuietOrNamed`, proved |
| | success means that the containers are back | `BackOnSuccess`, proved |
| | they are started again however the copy ends | `OutageEnds` |
| | recent jobs can be read | `NewestKept`, proved |
| | no job blocks the next for ever | `JobsEnd` |
| Transfer | only whole archives have a final name, and they do not change | `StoreSpec` (refinement), proved |
| | a backup that is reported good is stored | `GoodIsStored`, proved |
| | failed uploads leave nothing, and end if their sender did not just vanish | `NoLitter`, proved; `UploadsEnd` |
| Rebuild | no rebuild is accepted beside one that is waited for | `WaitedAlone`, proved |
| | done means pulled | `DoneIsPulled`, proved |
| | no job blocks the next for ever | `JobsEnd` |
| Repository status | "behind" is about commits in that order, if git could compare them | `BehindIsBehind`, proved |
| | a wrong answer does not stay | `TruthReturns` |
| Stack backup | no push undoes another host's | `OthersKept`, proved |
| | what is reported pushed is on the branch | `ReportedIsThere`, proved |
| | a host that cannot read the files of its projects does not empty its folder | `NeverEmptied`, proved |
| | the branch gets to what is on the disks, unless a git hangs | `Settles` |
| Network watch | only the newest supervisor is not told to stop | `OneLive`, proved for one request at a time |
| | what was learnt is in the file, or marked as to be saved | `SavedOrDirty`, proved |
| | off ends without a helper, on with exactly one, but for those Docker would not remove | `OffIsOff`, `OnIsOn` |
| | a warning is not pushed out of the findings by lesser ones | `AlertsKept` (`Detector`), proved |
| Capture | one sniffer on the host; what is shown as capturing is followed | `OneAtATime` (`Capture!OneSniffer`), proved |
| | a filter means what it says, also behind a host | `ComputedRight` (`CaptureFilter`) |
| | totals and polls agree with the packets; TCP flags are deserved | `FiguresSane` (`CapturePackets`, `TcpHealth`), proved |
| | the flows of a capture count its packets | `FiguresSane` (`CapturePackets!FlowsAgree`), proved |
| Updates and edits | a quiet project runs its file and its tag; a roll-back brings back the old file, or the image the tag had | `QuietIsApplied`, proved |
| | the bar goes forward | `FiguresSane` (`UpdateProgress!BarForward`), proved |
| | no wake is lost; one nightly update a day, and one more for a restart in its hour | `FiguresSane` (`UpdateClock!WakeKept`), `OneAtATime` (`NightlyOnce`), proved |
| Deployment | after a request that was alone and succeeded the project runs what it sent, whatever was left there before | `QuietIsApplied` (`StackDeploy!StackAsAsked`), proved |
| Host control | an exit code is of no upgrade before the newest that came to its log; upgrades are not refused for ever while none runs | `FiguresSane` (`HostUpgrade!ExitIsOfNewest`), proved; `SlotsReturn` |
| Probes | a loss counts echoes that were sent and whose answers were not read in time, a round trip is to the first answer | `FiguresSane` (`PingBurst!BurstTrue`), proved |
| Connections | each flow counts once, the right way round for its container; the loudest are shown | `FiguresSane` (`Connections!RowsTrue`), proved |
| Settings | a setting that was saved keeps its value, also across failures and restarts | `SettingsKept`, proved |
| Sessions | places are counted; shells, threads and helpers end with their viewer, as far as Docker lets them | `OneAtATime` (`Terminal!PlacesCounted`), proved; `FollowersEnd` |
| Files | what is reported done is done; a text that was sent exists whole; one the check found is only replaced if asked | `TextsKept`, proved |
| | the thread of a download ends with it; a download that finishes is complete | `FollowersEnd`; `FolderArchive!AllSent`, proved |
| Disk usage | a scan that is shown again is true of the disk, whatever was deleted | `ScanHonest`, proved |
| LAN scan | one sweep at a time; a finished one has missed nobody | `OneAtATime` (`LanScan!OneSweep`), proved |
| Containers | rates are those of the time between two readings | `FiguresSane` (`ContainerCache!RatesSane`), proved |
| Web links | what is kept under a container's present start was found in it; a refresh is complete | `FiguresSane` (`WebLinks`), proved |
| All of these | what refuses the next request ends, unless a call without a time limit hangs | `SlotsReturn` |

## 2. The modules

**`VolumeBackup`**: the jobs of one host. `Start` is `start()` past its
validation, with the decision and the record under one lock, as in the code.
The job's thread is the program counter `pc`: "list" and "stopping" are
`_quiesce`, one Docker call per step; "launch", "wait" and "remove" are `_backup`
around its helper; "salvage" is the `except` branch, which resumes and finishes before
`finally` removes the helper ("discard"); "resume" is `_resume` on the normal
path and `Verdict` the end of `_backup`. `list` and `rest` are the local `stopped` and what its loops
have still to do. Docker calls can raise wherever the code lets them;
`QuiesceFails` is a stop that raises, which reaches `_run_job` and leaves the containers
that were stopped before as they are. The environment is every control route
(`Control`, `Delete`, refused for protected containers) and the restart of the
agent. `touched` is a history variable: who was changed from outside since the
job listed it. Containers are numbered in the order of their creation, newest
lowest, because Docker lists them so and the two loops depend on it.

**`ArchiveStore`** is what the archive directory promises: an archive appears whole, never changes,
and disappears only when it is deleted (or with a loss of power that took its directory entry).
**`ArchiveTransfer`** implements it: helpers that stream (`Remote`) through a
`Receiver`, helpers that write locally with `_to_file`, inodes apart from
directory entries because a writer keeps writing to the file it opened, `fsync` apart
from `rename`. A helper that fails breaks its connection off, or vanishes without a word: then the receiver waits
(`Vanished`), because nothing limits `request.stream()`. A power loss keeps a prefix of what was not synced, and may undo
the last change of a directory entry, which the code never syncs.

**`Rebuild`**: the job table, the thread of each job, its helper (`git pull`, then
`docker compose up --build`), and the commits of checkouts and remotes.
The project in `Own` is the agent's: its job is handed off, and a
successful build of it restarts the agent (`MemoryLost`).

**`RepoStatus`**: the tables and the single worker. One pass (`run_once`) is
split where the code lets go of the lock or runs git: `StartPass`, `Read`
(`local_info`), `FindTip` (`remote_tip`), `Answer` (`compare`), `Stamp`. git may fail in `Answer` too: `compare`
then says "behind" of whatever is not equal, and `guessed` remembers that. Time is
replaced by the sets of entries whose stamps are old (`localDue`, `remoteDue`,
`unseen`); the three ageing actions may put an entry there at any time.
`Invalidate`, `Pull` and `Push` come from an environment that can do them at any moment, which
includes everything `Rebuild` does: the two modules are not composed.

**`StackBackup`**: the agents of several hosts and the one branch they push to.
`Wake` is the loop's timer or its trigger; `Collect` is `_discover` and `_collect`
into the staging directory; `EnsureClone` and `Identify` are `_ensure_clone`; `Fetch`, `Stage`,
`Commit` and `Push` are one round of `_sync`, with `Retry` for the next. `clone` says how usable the
`.git` on the agent's volume is: `EnsureClone` takes any directory with a `.git` in it for
a finished clone, and `AgentStops` may leave one without a remote, without an identity or with a
lock of the git that was killed. `branch` is the list of the trees of its commits, so that "no push undoes"
can be said of its growth; `head` is the tree of HEAD and the commit it was made on.
A push has three outcomes (accepted, rejected, and accepted without the answer arriving). A clone, fetch or push may also
`Hang`, for `_git` has no timeout. The files of a project are a version number, 0 for "not readable"; `Unseen` is a project that `_discover` does not find. `bare` remembers
the hosts of which a collection found no project. Redaction is left out.

**`NetWatch`**: requests, one supervisor thread per run with its helper container, and
the state file. `Enable` is one step because the code holds its lock throughout;
`Disable`, `SetFlag`, `Kill` and the save are four, because `disable` lets go of
it in between. The supervisor's steps are the Docker calls of `_supervise` and `_launch`
and the lines of `_consume`. `_save` is `Encode` (under the lock) and `Write` (outside).
`pointer` is `_container` and `target` the local that `disable` copies it to, so a kill can hit the
helper of the wrong time. `Restart` is a restart of the process with `resume`: threads go, helpers stay as `orphan`.
A removal may fail unheard, in `RemoveHelper` and in `ClearStale`, and an exception out of `_consume`
(`StreamBreaks`) backs off without one: `left` remembers such helpers until they are gone.
`crossed` is a history variable: two saves overlapped.
The detector is a number that grows; the status that `snapshot` reports is left out, because nothing reads it back.

Each of these components has an `MC` module with its instance. `MCRepoInvalidate` adds a history
variable, the invalidates that no later look has honoured.

The services of one host share nothing with each other and are in modules of their own. `HostServices` is their sum: a behaviour is
one of a single service (`which`), whose variables are the first of v1, v2, ... It says of the constants of each what the proofs need (`SettingsAssumption`
and so on), and states the properties that the services owe together. `MCHostServices` gives the bounds and adds the filter, whose parser is
recursive and which nothing is proved about.

- **`Settings`**: `config.update` step by step (validate, read, merge, open the temporary file, fill it, rename,
  set the cache), for several requests at once, with failing writes and restarts. All requests open one `.tmp`, so
  the model follows inodes and not names. The table of settings has one of each kind that has a rule of its own (`Clean`).
- **`ProjectChange`**: `updates._update_project` and `compose_edit._run` on projects with a file and an image tag.
  `ups` are the `docker compose up`s under way; they read file and tag when they begin and change the containers when
  they end. A prune, a save by hand and a restart come from outside. `excused` marks a project for which the code makes no promise
  until it runs its file and its tag again: its job was told to have failed, the `up` that puts things back failed, two `up`s
  crossed, the agent restarted in the middle, or somebody else changed the file or the tag. `was` is what a project ran when the job came to it, and
`astray` says that this need not be what its tag named. A streamed pull may hang (`Hung`).
- **`UpdateProgress`**: the bar of an update: `PullProgress` layer by layer, the projects' shares, the fall-back to Compose.
- **`UpdateClock`**: the loop of the updates with its wakes, failing checks, restarts, and a clock that
  is put back an hour. The updates of each night, and the restarts in it, are history that no restart clears.
- **`Capture`**: `start` (reserve, validate, clear, create, launch, publish, thread), `stop`, the reader thread, the end of a
  helper, a restart. `leftBehind` says that Docker refused to remove a helper.
- **`CaptureFilter`**: the recursive-descent parser over a list of tokens, compared with
  the grammar, which tries all ways to cut the list (`AsOr`). A predicate is the set of sample packets it holds of.
- **`CapturePackets`**: the helper's loop with its ticks and its sampling, the pipe, `_apply`, `snapshot` and a polling viewer.
- **`TcpHealth`**: `TcpHealth.check` with numbers modulo `Modulus`; the true positions are history.
- **`Detector`**: the tables and the findings of the network watch, with their limits; of several entries alike
  any may go.
- **`HostFiles`**: reading, saving, uploading, moving, copying and deleting, each a check in the agent and then a
  helper, command by command and with the look at the result; people on the host come in between. A shell that writes has its file open (`writing`),
  wherever that is moved; `others` remembers that somebody else was at a request's files.
- **`FolderArchive`**: the thread that packs a folder, its bounded queue, and the generator that empties it.
- **`DiskUsage`**: scans that walk child by child, the kept ones, and deletes with the correction after them.
- **`LanScan`**: `start` in its two critical sections, and the job's three phases, the second of which may hang.
- **`Terminal`**: the sessions of one event loop: count, open, pump, hang up, tear down; `stuck` is the loop blocked on
  the lock that one of its own coroutines holds. Docker may refuse to remove a helper ("left").
- **`LogStream`**: the thread that reads a log, its queue, the sender, and the viewer that leaves.
- **`ContainerCache`**: the worker of `/containers`: list, one reading per container, rates, publish.
- **`WebLinks`**: a refresh with the containers asked side by side, port by port, and started again meanwhile.
- **`StackDeploy`**: `deploy_stack` and `remove_stack` file by file and command by command; a file is known by its text, and `promised` is what the
  last request left if none overlapped it.
- **`HostUpgrade`**: the scripts of `start_upgrade` and `upgrade_status` line by line, the unit they start, the facts and the loop that gathers them.
  After a restart of the agent a script goes on (`orphan`) and nobody reads its answer. The unit can be killed before its shell has come
  to the log; `worked` is the newest that did.
- **`PingBurst`**: the loop of `_probe_ping_burst`, in which each step may take its time, and a socket into which anything may arrive. `heard` is when an answer
  arrived, which may be long before it is read.
- **`Connections`**: `build_index`, `attribute` and `aggregate` over a table of flows, read one by one in any order.

## 3. The runs

| Run | States | Shows |
|---|---|---|
| `backup_jobs` | 104 144 | the seven backup properties, with two backups, three containers (one protected), a restart and a change from outside |
| `archive_transfer` | 12 198 | refinement of `ArchiveStore` and the four transfer properties, one remote and one local helper, with a deletion, a restart and a power loss |
| `rebuild` | 58 596 | the rebuild properties: an ordinary project and the agent's own, two jobs, a table of one, a push and a restart |
| `repo_status` | 397 588 | two checkouts of one remote, one failing `ls-remote` |
| `stack_backup` | 260 233 | two hosts with two projects, one edit, one network fault, one stop of an agent |
| `netwatch` | 275 947 | three requests one after the other, two runs, a fault, a restart |
| `host_services` | 438 909 | the properties of the twenty-one modules above, a behaviour being one of a single component (`which`) |
| `archive_same_name` | – | violated: see finding 1 |
| `rebuild_overlap` | – | violated: see finding 2 |
| `invalidate_lost` | – | violated: see finding 3 |
| `stack_backup_stopped` | – | violated: see finding 4 |
| `netwatch_overlap` | – | violated: see finding 5 |

`host_services` is one run because its components have no step in common (see `HostServices`): every reachable state is one
of a single component, so the product of their states, which would show nothing, is never built. Its properties
put those of the components together by what they are about (figures, slots, followers); a conjunct or a disjunct for
each component keeps the module's own definition, and the properties of a component hold by themselves.

Every property of a passing run has a mutant: a variant of one definition (named
after it, `Outcome_ErrorsIgnored` for example) with a plausible bug, under which
the same run finds the property violated.

### What the code does differently from what it says

1. **One name, one `.part`** (`archive_same_name`). `backup_helper.py:450` says that
   the receiver "hashed the bytes it actually stored". It hashes
   the bytes it received. Two hosts that back up a volume of the same name in the same
   second send the same archive name (`archive_name` has no host in it); both
   receivers open the same `.part`, write over each other, and answer with
   digests that agree with their senders. In the run the first has sent and synced everything when the second opens, and
   truncates, the file; the first rename then gives the truncated file the final name, and the first backup is reported
   good although what is stored is not what it built. The second receiver's rename finds no `.part` and fails.
2. **Rebuilds overlap** (`rebuild_overlap`). `README.md:1431` promises one at a time per
   host. A handed-off rebuild, one whose `container.wait` raised, and one from
   before a restart still build while the next is accepted. What does hold is `WaitedAlone`.
3. **A lost invalidate** (`invalidate_lost`). `invalidate` promises a look "at
   the next tick". One that arrives between the worker's read and its stamp
   is overwritten by the stamp: the answer from before the pull stays
   until REPO_LOCAL_SECONDS have passed. `TruthReturns` shows that it does not stay for ever.

4. **A stopped agent's clone** (`stack_backup_stopped`). The clone is on a volume that outlives the
   agent, and `_ensure_clone` takes whatever has a `.git` for a finished one.
   An agent that is stopped between `git clone` and `git config`, or while git holds a
   lock, fails at the same place in every later run; nothing removes the
   directory, and the host is not backed up again. `AlwaysSettles` is `Settles` without its proviso
   that no such clone is left.
5. **Off and on at the same time** (`netwatch_overlap`). A test is named
   `test_turning_it_off_and_on_again_never_leaves_two_watchers`. `disable` switches off under the lock, and sets
   `_stop` after it has let go of the lock. An `enable` in between replaces `_stop`, the disable then stops the run that was
   just started, and the old supervisor's flag is never set: after a last disable it still
   keeps a helper alive. Taking the flag under the lock would do.

### Seen while modelling, not stated as properties

- A stop that raises in `_quiesce` (`volume_backup.py:902`) leaves the containers stopped before
  it down, and the job names none of them. `OutageEnds` therefore starts at
  "launch".
- After a deadline the `except` branch resumes the containers before `finally`
  removes the helper, so a helper that finishes in between can leave an archive copied from
  under running containers; its job says failed.
- A restart of the agent during a backup leaves the containers down.
- `_resume` starts what `_quiesce` stopped, even if an operator stopped it again in
  between.
- `compare` takes equality from the commit that was read and ancestry from the
  checkout as it is now, so a pull in between gives "ahead" for a commit that
  was behind; "behind" cannot be wrong in that way, and that is what `BehindIsBehind` says.
- `compare` says "behind" for every outcome of `merge-base` but 0, also for one that timed out or could not be run (`repo_status.py:168`),
  although its comment is about exit codes 1 and 128 only: a checkout that is ahead is then called behind (`guessed`).
- A host where no project is discovered (no containers, and the extra directories not mounted) pushes a folder with `inventory.json`
  alone, because `_collect` raises only if there were projects (`stack_backup.py:429`). `NeverEmptied` names that case (`bare`).
- A clone is of one branch: after a change of `BACKUP_BRANCH` an existing clone has no
  `origin/<new>` to reset to, and every run fails.
- A project none of whose files can be read any more is dropped from the host's folder without a word, as
  long as another project can be read.
- Two saves of the network watch share one `.tmp` file and can be renamed in the
  wrong order: the file may say "enabled" after a disable, until the next save. `SavedOrDirty` excepts that (`crossed`).
- A supervisor that winds down late can overwrite the newer one's status with "watching" or "error".
- A helper of the network watch stays for ever if the agent restarts while a disable is under way in the
  middle of a launch: it carries the label, but only a supervisor clears labels. `OffIsOff` speaks of the helpers of
  this process. The same goes for one whose removal Docker refused, or whose stream broke, and that is not replaced because the watch went
  off (`left`, `netwatch.py:371-377` and `395-400`).
- A sender of an upload that vanishes without a word leaves its receiver, and the open `.part`, until the agent ends
  (`main.py:1944`).
- A local helper that fails, or a receiver that is killed, leaves its `.part`, which
  no listing shows and no code deletes.
- *Settings.* A switch that the dashboard turns off is stored as "", which means unset: one that is on in the environment
  cannot be turned off from there, against `config.py:409`. Two updates at once can lose one of the two, and with a full disk or a
  crash leave the file unreadable (`overlapped`).
- *Filters.* An expression of exactly the greatest length or depth passes validation and is refused in the helper,
  because `combine` adds parentheses around it; the helper dies of it, although `capture.py:29` says that a mistake is answered to the user.
  `CaptureFilter!MeansWhatItSays`, in `ComputedRight`, therefore asks for a level to spare.
- *Capture.* The last part of a second is never put in a tick, and a tick leaves out the flows beyond its limit, although
  `capture_worker.py:14` says that totals and flows count every packet. A segment that arrives out of order is flagged as a
  retransmission. The test `test_duplicate_acks_need_three_identical_acks_and_data_resets_the_count` says more than it tests: data does not reset
  the count. A stop that comes while a start is still creating its helper does nothing (`capture.py:407`).
- *Updates.* `old` is the image the tag names at that moment and not the one the container runs. When two projects share a tag,
  the second's roll-back keeps the first's new image, against `updates.py:19-24`; `QuietIsApplied` promises what the tag had and, unless `astray`, what the
  project ran. The exit code of the `up` after a roll-back is not looked at. A nightly
  update that is refused or cannot check has used its day up, and one whose turn comes after its hour is left out, against
  "once a day" in `updates.py:27`; a restart within the hour can start a second one, as the day is remembered in the process (`NightlyOnce` counts the restarts). `PullProgress` does not read 100 % at the end
  when every layer was there already (`updates.py:260`).
- *Edits.* A roll-back writes the old text without looking at the file again, over a save made by hand meanwhile. An exception
  after the new file was written leaves it there.
- *LAN scan.* The container that reads the neighbours has no time limit (`lan_scan.py:106`; HELPER_TIMEOUT is not used): one that hangs refuses every later scan. `start` looks and publishes in two critical sections: two scans can start (`tied`).
- *Container rates.* A failed reading, or one of a paused container, counts as 0 bytes and is kept: the next rate is a spike (`blind`).
- *Files.* A save whose last step fails leaves half a file, and the new text only in its `.hl-` temporary. `mv -n` that finds a file at its
  destination, and the rename of a new text, do nothing and are reported as success; the text then stays in its temporary. A text written between the check
  of the modification time (`files.py:434`) and the helper (454) is overwritten: `TextsKept` says nothing of it. Two saves that cross can leave
  a mixture of both.
- *Disk usage.* Two overlapping deletes, one within the other, are subtracted twice, and a delete that fails half-way leaves the kept scans as
  they were (`crossed`).
- *Terminal.* A refusal is sent while the thread lock is held (`terminal.py:248`). If the send has to wait, the next session blocks the loop that would
  finish it, for ever (`stuck`). A privileged helper that Docker does not remove is not tried again before the agent restarts (`terminal.py:212`).
- *Logs.* `container_logs.py:9` says that closing the stream ends the thread; it does not end one that waits to put into a full queue
  (`Abandoned`, which `FollowersEnd` excepts).
- *Folder download.* A response that is never iterated leaves its thread at the full queue for ever ("never run").
- *Web links.* A container that cannot be inspected in one refresh loses its entry until the next. The link of a container that was started again is
  served until the next refresh, as `lookup` does not compare (`web_links.py:328`).
- *Deployment.* `remove_stack` deletes the folder even if `down` failed, so that the containers stay and their file does not. A folder that is removed
  between a deploy's writing and its `up` is reported as "docker compose is not installed". Requests that cross leave what the last step of each made.
- *Host control.* While the facts are absent or old a second upgrade is accepted: its script removes the log of the running one before systemd refuses
  the unit. The status then has no exit code, but never an earlier one's, unless the second is killed before its shell comes to the log.
- *Probes.* On a raw socket the "unreachable" that another program is sent ends this program's burst. An answer that is in the socket when the time is over is counted as lost (`probes.py:359`).
- *Connections.* `connections.py:261` says that the attribution depends only on the key. The address that the answers come from, which
  `attribute` looks at first, is not in the key: when a port of the host was given to another container while a connection to the first is still
  in the kernel's table, flows of both are in one row, which names the container of the first. `RowsTrue` is about conversations with one container (`OfOne`).

## 4. Bounds, and why they are enough

- *Two jobs* (`MaxStarts = 2`) with a table of one: the hazards are of a job and the next
  one, and the second start already evicts. That the table holds for more is part of
  what is proved.
- *Three containers*, one protected: two to be stopped, so that a loop can fail or be
  interrupted between them, and one to be skipped. All three use the one source, the worst case
  for sharing.
- *One change from outside and one restart*: each property is about one interruption
  at an arbitrary point; more only repeat it.
- *Two chunks* in an archive: a first, a last, and a proper prefix.
- *One new commit* per remote: behind, equal and, with a checkout that starts ahead,
  ahead. Divergence is not modelled: commits are a line.
- *One failed* `ls-remote`: an answer without a tip, then one with.
- *Two hosts, two projects, two rounds* of `_sync` (five in the code): another host can get in between a
  fetch and a push once and twice, and the last round differs from the others. Two projects, so
  that one can be unreadable, or not be discovered, while the other is. One edit, fault (or hanging git) and stop each; `stack_backup_stopped` has no fault, so that its counterexample is about the stop.
- *Two runs, three requests* of the network watch: on, off and on again is the shortest history with an old
  supervisor beside a new one; a second run after a restart is one too. `netwatch` has one caller because
  `OneLive` is false with two, which is what `netwatch_overlap` shows with four requests.

- *`host_services`*: two of everything that can race (editors of the settings, viewers and captures, users of files, deleters,
  sessions, projects, askers of a scan), one failure and one restart of each kind, and the smallest limits that are reached: one shell, a queue of two
  with three chunks, one entry beyond each limit of the detector's lists, one flow beyond a tick's. Expressions have up to six tokens of twelve classes
  and two levels: every pair of operators, with parentheses around either and behind a host. Numbers of TCP segments are taken modulo 8, with
  positions up to 10, so that they wrap around; a segment begins less than half of that from what is due, beyond which the code's comparison means nothing.
  The clock of the updates has days of two hours of two moments; it sees two days, one hour twice. Containers of the web links are
  started twice and have two ports. A project is asked for three times (one request leaves something, two cross) with one fault; the host is upgraded
  twice with one mishap; a burst has two echoes and two messages in the socket; a table has three flows of eight, two rows of which are shown.

`CHECK_DEADLOCK FALSE` is in every configuration because the bounds let a behaviour
end: when starts, restarts and changes are used up and all threads are done, nothing is left to
happen.

## 5. Fairness

A job's thread is weakly fair: each of its Docker calls returns or raises
(docker-py has a timeout), the follow loop has a deadline, and `container.wait` has
REBUILD_TIMEOUT; the thread is then free to take the branch that this makes
possible. Helpers, requests, operators, restarts and pushes are never
fair: a helper may hang, a user may never come back. In `ArchiveTransfer` helpers
are fair because a socket of theirs gives up after ten minutes and their job removes
them at its deadline; whether the other end hears of it is not fair, and `UploadsEnd` excepts a sender that vanished. In `RepoStatus` the worker is fair (git is run with
timeouts, and the loop sleeps a fixed time), and so is the ageing of the local and remote stamps,
which is the passage of time; an entry that nobody asks about any more need not be kept.
In `StackBackup` an agent's loop is fair: the interval passes, and a git command that does not hang returns; edits,
faults and stops are not. `_git` has no timeout (`stack_backup.py:519-524`), so a git that hangs never returns, and `Settles` excepts it. In `NetWatch` a request that was accepted goes on, and a supervisor is fair: its Docker calls
return, and a helper that runs sends a beat every few seconds, which is what wakes `_consume`; requests, deaths
of helpers and restarts are not.

In `host_services` what is fair are the threads and coroutines of the agent, whose calls return or raise: the walk of a disk, a caller of
the capture between its reservation and its job, the reader, the teardown of a session, the pump and the coroutines of a log, the
packing of a folder, the sweep, and the steps of an update or an edit (`up` has a timeout). A capture's helper is fair too, because it
ends by its own deadline; that a cancelled sender gives its thread back (`Close`) is the event loop's part. The loop that gathers the host's facts is fair, as its helper has a timeout. Requests,
viewers, people on the host, failures and restarts are not. 
Two calls have no time limit in the code, the streamed pull of an image (`updates.py:389`) and the container that reads the neighbours (`lan_scan.py:106`).
They have a step of their own to hang, after which nothing happens to the job; `SlotsReturn` says that a place is free again and again, or hangs in
one of these two. `Fair1` to `Fair3` are disjunctions over components; as a behaviour is
one of a single component, each says the same as a condition for every component.

## 6. What is proved

For every value of the constants, from the assumptions that the modules name and no others but
those in the last column:

| Module | Theorem | States | Assumes |
|---|---|---|---|
| `VolumeBackup_proofs` | `TypeCorrect`, `OutagesExclusive`, `CopiesQuietOrNamed`, `NewestStay` | `[]TypeOK`, `[]OneOutage`, `[]QuietOrNamed`, `[]NewestKept` | |
| | `SuccessBringsBack` | `BackOnSuccess` | |
| `ArchiveTransfer_proofs` | `TypeCorrect`, `NothingLeft` | `[]TypeOK`, `[]NoLitter` | `Distinct` |
| | `SuccessIsStored`, `ImplementsStore` | `GoodIsStored`, `StoreSpec` | `Distinct` |
| `Rebuild_proofs` | `TypeCorrect`, `WaitsAlone` | `[]TypeOK`, `[]WaitedAlone` | |
| | `DoneHasTheCommit` | `DoneIsPulled` | |
| `RepoStatus_proofs` | `TypeCorrect`, `BehindIsRight` | `[]TypeOK`, `[]BehindIsBehind` | |
| `StackBackup_proofs` | `TypeCorrect`, `FoldersNeverEmptied` | `[]TypeOK`, `[]NeverEmptied` | |
| | `PushesKeepOthers`, `ReportsAreTrue` | `OthersKept`, `ReportedIsThere` | |
| `NetWatch_proofs` | `TypeCorrect`, `SavedIsCurrent` | `[]TypeOK`, `[]SavedOrDirty` | |
| | `NeverTwo` | `[]OneLive` | one caller |
| `WhatIsKept_proofs` | `SavedSettingsStay`, `TextsStay`, `AlertsStay` | `SettingsKept`, `TextsKept`, `AlertsKept` | as below |
| | `WhatIsWrittenRuns`, `KeptScansAreTrue` | `[]QuietIsApplied`, `[]ScanHonest` | as below |
| | `DownloadsAreWhole` | `[]AllSent` of `FolderArchive` | as below |
| `HostServices_proofs` | `OneOfEach`, `FiguresAreTrue` | `[]OneAtATime`, `[]FiguresSane` | as below |
| | `NoWakeLost`, `LinksAreOfThisStart` | `[]WakeKept` of `UpdateClock`, `[]LinksOfThisStart` of `WebLinks` | as below |
| | `TypesHold` | `[]TypeOK` of all the services | as below |

The theorems about the services assume what `HostServices` says of their constants (`<Module>Sane` in each module): bounds and limits are
natural numbers, a limit that is divided by or counted down to is not 0, the tree of the disk has the folders of its paths, hosts that answer are
hosts, half the sequence numbers are half of them, layers have sizes that are natural numbers, and bytes of a flow are one or not counted. These are of the kind that holds for every host and every setting of the agent, and
TLC evaluates them in `host_services`.

Every module of proofs first shows `Spec => []Inductive`, with one lemma per action or group of actions; the
conjuncts of `Inductive` are defined, and commented, in the module it is about.

*Backup.* That outages exclude each other cannot be read
off one step: `start()` only looks at the states in the table, so one has to know
that a thread with containers down belongs to a job of the table that is running
(`WorkingIsRunning`: `_finish` comes last on every path, and `_record` never evicts
a running job) and that the table has at most one such (`OneRunning`). That a copy
is quiet or named needs what the stop loop has done so far (`Quieting`) and that
the job's fields agree with the thread's locals (`Named`); that success brings
containers back needs the same of the resume loop (`Resuming`). `NoLeftovers` says that a thread not at work holds
no list.

*Transfer.* `Distinct` says that no two helpers send one name; without it the theorems are false (finding 1).
The heart is that only a writer that is through has given its file a final name (`Unpublished`), and that this file
is whole and synced (`Published`), because what was written is a prefix of what was sent (`WrittenInOrder`) into a file of its own
(`OwnFile`, `OwnEntries`) and the end of a body comes only after all of it (`EndIsEnd`). The refinement mapping
reads the store off the final names; a power loss may take back an entry that was never synced, which the abstract store allows.

*Rebuild.* `WaitedAlone` needs that a running job has no successor (`NothingLater`), from `OneRunning` as above. `DoneIsPulled`
needs that remotes are never behind the commit a job asked for (`RemotesLead`) and that a helper past its pull has put it in the checkout (`PastPull`).

*Repository status.* Pulls only move a checkout forward, so the commit that was read is an ancestor of the
checkout when it is compared (`ReadIsOld`).

*Stack backup.* What is pushed is the fetched tree with this host's folder replaced by what was collected
(`Building`), and only a collection with something in it, or one that discovered nothing, gets that far (`Collected`). A push is accepted only on the tip, so
it keeps what the others pushed.

*Network watch.* With a clean flag, the memory is in the file, or in exactly one text on its way there, or a
disable is about to mark it (`OnItsWay`), because a thread waits for its save (`SavesThere`). `OneLive` is
inductive by itself once only one request is served at a time: an enable that starts a run then finds no
disable between its switch and its flag, so the older supervisor has been told.

The services. A step of `HostServices` is a step of the service at work or changes nothing (`OneAtWork`), so that an invariant of a service, proved from
its own `Init` and `Next`, is one of the sum as long as the service is the one at work (the lemmas `...Runs`). `WhatIsKept_proofs` has the services in
which something has to stay, and the invariants of the capture and of the LAN scan; `HostServices_proofs` has the others, and what is said of all.

Three of the properties of figures are about sums over a set that grows. The community modules define such a sum (`MapThenSumSet`) as the last value of a
function over the subsets of the set, and the fact needed of it, that a sum is the sum without an element plus that element
(`SumPlus`, `SumWithout`), is not theirs. `SumOn` is that function with its set as a parameter. The lemmas about it show first that it exists and
that those of two sets agree on their common subsets (`SumsExist`, `SumsAgree`), for one
element more at a time (`OneByOne`, which rests on the smallest subset at which something fails: `AllSubsets`, `HasLeast`). The library's induction over finite sets takes an operator as a parameter, which no prover here can
instantiate; these lemmas take a set of subsets instead.

- *Settings.* Without requests that overlap, the cache is what the file says or somebody is about to set it (`Agreed`), and what will replace
  the file is the cache with the changes of one request (`Follows`).
- *Files.* What a request passed as its check it was allowed to replace (`Checked`), and a text on its way is in the temporary file
  of its own (`Staged`). While nobody else is at its files, each command finds what the one before it left (`Alone`); that is what makes a reported success true.
- *Detector.* Its tables are finite, so that the order of eviction has a first (`Before` is total and well-founded on them): this is all
  `AlertKept` needs, as what goes first is what informs.
- *Projects.* `Honest` says that a project runs its file and its tag, or an `up` that will make it so is under way, or a job is about to begin one; and
  that no two are. What a job has done so far goes by its program counter (`UpdateSoFar`, `ChangeSoFar`): the roll-back works because the image
  it goes back to is still there under its roll-back tag, which a prune spares. `RanTheTag` says that this is the image the project ran, unless it had gone astray.
- *Stacks.* What a request that is alone has written (`SoFar`), and that no other is at work while something is promised.
- *Disk usage.* Each row of a scan is true of the disk; once a helper has removed a path, true but for that path, of which the delete knows how much it
  took (`RowsTrue`, `RowsBehind`, `Owed`). Deletes near a scan that is running, and two at a time near a kept one, are what `crossed` excepts:
  otherwise at most one delete owes a scan a correction (`KeptTrue`).
- *Folder download.* What was packed is sent or in the queue, and the end comes after the last chunk (`Conserved`, `InOrder`).
- *Capture.* The reservation is that of the one request that begins (`Reserved`), and once the helpers from before are removed the
  only one there is its own (`Alone`), unless Docker refused to remove one.
- *LAN scan.* No one is between its look and its job while a scan runs, unless two starts crossed (`Apart`); whom a job has found goes by
  its phase (`JobsTrue`).
- *Terminal.* The property is inductive: places are taken and given back in the same step as the session gets or loses its own.
- *Updates' loop.* A cache that an update has made stale comes with a wake, or with a process that has not checked yet (`WakeComes`); the turn that clears the
  wake begins the check in the same step, so a wake that comes during a check is still there afterwards. `NightlyOnce` needs that the hour of the
  last update has come, however often the clock was put back since (`HourCame`), and that a day that has had as many as it may (`UsedUp`) is remembered
  or over.
- *Web links.* Starts are numbered upwards and a stopped container has number 0, so a listing's number is never met again
  (`Numbered`). An answer that was begun in the start that was listed has its number (`AnswersOfListed`), and the entry made of it is
  signed with what was listed and not with what runs now (`EntriesOfSig`); with the present start as its signature, a
  container that was started again meanwhile would pass off the old answer as fresh. A container that was listed is due or has such an
  entry (`ListedOrDue`).
- *Container rates.* A counter has grown by no more than was done since it was read (`Grown`); it is not so for bytes after a
  failed reading (`blind`), which the property excepts.
- *Packets of a capture.* Along the pipe, what was said of packets is never less than what was counted of them, and the same after each tick
  (`Books`: two sequences of sums, one entry for each line in the pipe). The flows of the helper, of each tick on its way and of the
  job count the packets that come with them, unless some were left out (`Tally`), which is then said.
- *Bar of an update.* What the bar may show goes by the stage of the project it is at, and while layers are loaded by the best fraction so far
  (`UpdateProgress!Inductive`). The fraction itself falls when Docker announces another layer; `peak` does not, and the bar is made of it. It is not full before the job is over, because the shares of a project that is not up yet do not add up to a project.
- *Conversations.* A row totals the figures of its flows, those that were counted, and names the container of one of them (`RowTrue`). Of two rows
  the louder one has fewer before it, so the cut leaves it if it leaves the other: the order by bytes, flows and first appearance is transitive
  and total on finitely many rows.
- *TCP.* The number that is due is the position after the bytes seen, modulo 2^32 (`Remembered`). That the sign of a difference modulo 2^32
  is that of the difference of positions less than half apart is a lemma about division (`HealthSpanIs`, `HealthCompares`).
- *Pings.* An echo has a round trip when the first answer to it has been read (`RoundTrips`), one that was answered and has none has its answer in the socket, and a message of one's own is about an echo that
  was sent (`Messages`). Since the last echo is due before the time is over, all are sent when a verdict comes (`BurstDueInTime`).
- *Upgrades.* An exit code in the log is of the newest upgrade that came to the log and emptied it (`LogOfNewest`), and who saw no unit at work
  reads none that is older (`SeenFirst`).

Only model-checked:

- what is under fairness, which is out of the prover's reach, as is ENABLED: `OutageEnds`, `JobsEnd`, `UploadsEnd`,
  `TruthReturns`, `Settles`, `OffIsOff`, `OnIsOn`, `SlotsReturn`, `FollowersEnd`;
- `ComputedRight`: the parser of filters is recursive, and that it agrees with the grammar for every expression is an induction over
  expressions. It goes over every expression within the bounds instead.

No module proved about has a RECURSIVE operator.

## 7. Not modelled

Reading and parsing, whose state is a short cache: sockets, networks, hardware, the decoding
of frames and the pcap file, the answers of registries, the names and ports of the LAN, the probes of one request, the kernel's table of flows.
The deployment of single containers, the policy for projects, and services, journal and power of the host: a check
followed by one command. Version, registration, authentication, formatting, logs, the HTTP routes beyond the calls
they make, and the installation scripts.

Of the components that are modelled: progress, passphrases, destinations and restore commands of backups;
discovery from labels; redaction and the choice of files in stack backups; the status of the network watch and which addresses count for
its detector; previews of edits and the adoption of containers that Compose did not start; listings, folders and the rules about who
may write where in the file manager; hard links, other devices and the history of sizes of disk usage; what is typed in a
terminal and the download of a whole log; how candidates for web links are found.

Not covered by any property: containers left stopped by a stop that raises in `_quiesce`, or by a restart during a backup. The code
does nothing about them, so there is nothing that holds; they are in the hazards of `PROJECT.json` with that note.

## 8. Plan

Done: the jobs (`VolumeBackup`, `ArchiveStore` and `ArchiveTransfer`, `Rebuild`, `RepoStatus`, `StackBackup`, `NetWatch`) and
the services of one host (`host_services`), with every safety property of theirs proved but `ComputedRight`, which is about a recursive parser. The map covers about a third of the source by lines.
Most of the rest is routes, reading, parsing and text. Next:

1. Composition: `Rebuild` with `RepoStatus` (its `invalidate` after a pull), `VolumeBackup` with `ArchiveTransfer` (a job's verdict
   from a helper's exit), `Rebuild` with `ProjectChange` (a third kind of job on a project).
2. Pure algorithms: the deployment policy and the retention of archives.
