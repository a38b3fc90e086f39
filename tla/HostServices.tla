---------------------------- MODULE HostServices ----------------------------
(***************************************************************************)
(* The agent's services that share nothing: each behaviour is one of a     *)
(* single component, which is chosen at the start.  Its variables are the  *)
(* first of v1, v2, ...; the ones it does not need stay as they are.       *)
(*                                                                         *)
(* The constants are those of the components, in their order.              *)
(***************************************************************************)
EXTENDS Integers, FiniteSets, Sequences

CONSTANTS
  Editors, SettingsCap,
  Tree, Folders, BindMounts, Deleters, ScanSlots, MaxScans,
  Viewers, MaxCaptures, MaxDockerFaults, MaxDeaths,
  Paths, Users, MaxTexts, MaxRequests, MaxHelperFaults,
  Addresses, Gateway, Macs, Servers, LearnTime, IdleTime, MaxInfo, MaxFindings, MaxKnown,
  LastMoment,
  Sessions, HostSessions, MaxSessions, MaxRestarts,
  QueueSize, QueueLimit, MaxChunks,
  Projects, ImageOf, Editable, Texts, Release, MaxJobs, MaxMishaps,
  Askers, Hosts, Own, Answers, Neighbours, MaxSweeps,
  Containers, MostWork,
  Flows, MaxTracked, Modulus, MaxPosition, Markers,
  Conversations, MAX_PPS, TickFlows, JobFlows, MAX_PACKETS, Second, Deadline, Pipe, MaxFrames,
  HourLength, DayLength, At, CheckAfter, ClockEnd, MaxWakes, MaxFailures, MaxBoots,
  Ports, TtlUnknown, TtlNone, TtlFound, LinksEnd, MaxStarts,
  Envs, StackRequests, MaxFaults,
  Loop, MaxRuns,
  Asked, Gap, Timeout, PingEnd, MaxInbox,
  Layers, LayerSizes, ProjectsOfJob, Units,
  Listed, KernelTable, FlowsRead, RowsShown

VARIABLES which, v1, v2, v3, v4, v5, v6, v7, v8, v9, v10, v11, v12
vars == <<which, v1, v2, v3, v4, v5, v6, v7, v8, v9, v10, v11, v12>>

S == INSTANCE Settings WITH names <- v1, cache <- v2, edit <- v3, changes <- v4, merged
       <- v5, open <- v6, asked <- v7, reboots <- v8, overlapped <- v9
D == INSTANCE DiskUsage WITH disk <- v1, table <- v2, scan <- v3, scans <- v4, delete <-
       v5, crossed <- v6
C == INSTANCE Capture WITH job <- v1, state <- v2, starting <- v3, caller <- v4,
       captures <- v5, sniffer <- v6, said <- v7, reader <- v8, dockerFaults <- v9,
       deaths <- v10, leftBehind <- v11
H == INSTANCE HostFiles WITH file <- v1, tmp <- v2, texts <- v3, opened <- v4, op <- v5,
       requests <- v6, helperFaults <- v7, others <- v8, writing <- v9
W == INSTANCE Detector WITH now <- v1, bindings <- v2, devices <- v3, servers <- v4,
       findings <- v5
T == INSTANCE Terminal WITH active <- v1, lock <- v2, stuck <- v3, at <- v4, shell <-
       v5, pid <- v6, helper <- v7, reading <- v8, viewer <- v9, missed <- v10, restarts
       <- v11
L == INSTANCE LogStream WITH printing <- v1, stream <- v2, pump <- v3, queued <- v4,
       last <- v5, sender <- v6, watching <- v7
F == INSTANCE FolderArchive WITH producer <- v1, packed <- v2, fifo <- v3, none <- v4,
       aborted <- v5, generator <- v6, taken <- v7
P == INSTANCE ProjectChange WITH tag <- v1, images <- v2, kept <- v3, text <- v4,
       running <- v5, update <- v6, change <- v7, ups <- v8, jobs <- v9, mishaps <- v10,
       excused <- v11
N == INSTANCE LanScan WITH newest <- v1, sweep <- v2, sweeps <- v3, asker <- v4, tied <-
       v5
A == INSTANCE ContainerCache WITH status <- v1, work <- v2, previousIo <- v3,
       previousCpu <- v4, toRead <- v5, sampled <- v6, rows <- v7, round <- v8, shown <-
       v9, sinceIo <- v10, sinceCpu <- v11, blind <- v12
K == INSTANCE TcpHealth WITH state <- v1, highest <- v2, bare <- v3, verdict <- v4
O == INSTANCE CapturePackets WITH mono <- v1, helper <- v2, wire <- v3, job <- v4,
       viewer <- v5, frames <- v6, cut <- v7, Flows <- Conversations
B == INSTANCE UpdateClock WITH time <- v1, back <- v2, pc <- v3, lastCheck <- v4,
       lastAutoDay <- v5, wake <- v6, stale <- v7, nightly <- v8, wakes <- v9, failures <-
       v10, boots <- v11, restarted <- v12, LastTime <- ClockEnd
G == INSTANCE WebLinks WITH now <- v1, starts <- v2, serves <- v3, lately <- v4, listed
       <- v5, due <- v6, answers <- v7, at <- v8, cache <- v9, LastTime <- LinksEnd
Q == INSTANCE StackDeploy WITH folder <- v1, running <- v2, op <- v3, requests <- v4,
       faults <- v5, promised <- v6, MaxRequests <- StackRequests
X == INSTANCE HostUpgrade WITH unit <- v1, newest <- v2, log <- v3, facts <- v4, pc <- v5,
       saw <- v6, orphan <- v7, mishaps <- v8, worked <- v9
Y == INSTANCE PingBurst WITH clock <- v1, now <- v2, pc <- v3, raw <- v4, sent <- v5,
       rtt <- v6, inbox <- v7, verdict <- v8, heard <- v9, LastTime <- PingEnd
U == INSTANCE UpdateProgress WITH layers <- v1, peak <- v2, stage <- v3, index <- v4,
       percent <- v5, lowered <- v6, Sizes <- LayerSizes, Projects <- ProjectsOfJob
V == INSTANCE Connections WITH grouped <- v1, seen <- v2, Containers <- Listed, Table <- KernelTable,
       MaxFlows <- FlowsRead, Limit <- RowsShown

\* What the components need of their constants.
ASSUME NetworkAssumption == N!NetworkSane
ASSUME ClockAssumption == B!ClockSane
ASSUME CaptureAssumption == C!CaptureSane
ASSUME TerminalAssumption == T!TerminalSane
ASSUME SettingsAssumption == S!SettingsSane
ASSUME FilesAssumption == H!FilesSane
ASSUME DetectorAssumption == W!DetectorSane
ASSUME StackAssumption == Q!StackSane
ASSUME ProjectsAssumption == P!ProjectsSane
ASSUME DiskAssumption == D!DiskSane
ASSUME LogAssumption == L!LogSane
ASSUME FolderAssumption == F!FolderSane
ASSUME CacheAssumption == A!CacheSane
ASSUME HealthAssumption == K!HealthSane
ASSUME PacketsAssumption == O!PacketsSane
ASSUME LinksAssumption == G!LinksSane
ASSUME UpgradeAssumption == X!UpgradeSane
ASSUME BurstAssumption == Y!BurstSane
ASSUME ProgressAssumption == U!ProgressSane
ASSUME ConnectionsAssumption == V!ConnectionsSane

\* The component at work, with what it leaves alone.
SRest == which = "settings" /\ UNCHANGED <<which, v10, v11, v12>>
DRest == which = "disk" /\ UNCHANGED <<which, v7, v8, v9, v10, v11, v12>>
CRest == which = "capture" /\ UNCHANGED <<which, v12>>
HRest == which = "files" /\ UNCHANGED <<which, v10, v11, v12>>
WRest == which = "detector" /\ UNCHANGED <<which, v6, v7, v8, v9, v10, v11, v12>>
TRest == which = "terminal" /\ UNCHANGED <<which, v12>>
LRest == which = "log" /\ UNCHANGED <<which, v8, v9, v10, v11, v12>>
FRest == which = "folder" /\ UNCHANGED <<which, v8, v9, v10, v11, v12>>
PRest == which = "projects" /\ UNCHANGED <<which, v12>>
NRest == which = "lan" /\ UNCHANGED <<which, v6, v7, v8, v9, v10, v11, v12>>
ARest == which = "cache" /\ UNCHANGED <<which>>
KRest == which = "health" /\ UNCHANGED <<which, v5, v6, v7, v8, v9, v10, v11, v12>>
ORest == which = "packets" /\ UNCHANGED <<which, v8, v9, v10, v11, v12>>
BRest == which = "clock" /\ UNCHANGED <<which>>
GRest == which = "links" /\ UNCHANGED <<which, v10, v11, v12>>
QRest == which = "stack" /\ UNCHANGED <<which, v7, v8, v9, v10, v11, v12>>
XRest == which = "upgrade" /\ UNCHANGED <<which, v10, v11, v12>>
YRest == which = "ping" /\ UNCHANGED <<which, v10, v11, v12>>
URest == which = "bar" /\ UNCHANGED <<which, v7, v8, v9, v10, v11, v12>>
VRest == which = "connections" /\ UNCHANGED <<which, v3, v4, v5, v6, v7, v8, v9, v10, v11, v12>>

Init ==
  \/ which = "settings" /\ S!Init /\ v10 = 0 /\ v11 = 0 /\ v12 = 0
  \/ which = "disk" /\ D!Init /\ v7 = 0 /\ v8 = 0 /\ v9 = 0 /\ v10 = 0 /\ v11 = 0
       /\ v12 = 0
  \/ which = "capture" /\ C!Init /\ v12 = 0
  \/ which = "files" /\ H!Init /\ v10 = 0 /\ v11 = 0 /\ v12 = 0
  \/ which = "detector" /\ W!Init /\ v6 = 0 /\ v7 = 0 /\ v8 = 0 /\ v9 = 0 /\ v10 = 0
       /\ v11 = 0 /\ v12 = 0
  \/ which = "terminal" /\ T!Init /\ v12 = 0
  \/ which = "log" /\ L!Init /\ v8 = 0 /\ v9 = 0 /\ v10 = 0 /\ v11 = 0 /\ v12 = 0
  \/ which = "folder" /\ F!Init /\ v8 = 0 /\ v9 = 0 /\ v10 = 0 /\ v11 = 0 /\ v12 = 0
  \/ which = "projects" /\ P!Init /\ v12 = 0
  \/ which = "lan" /\ N!Init /\ v6 = 0 /\ v7 = 0 /\ v8 = 0 /\ v9 = 0 /\ v10 = 0
       /\ v11 = 0 /\ v12 = 0
  \/ which = "cache" /\ A!Init
  \/ which = "health" /\ K!Init /\ v5 = 0 /\ v6 = 0 /\ v7 = 0 /\ v8 = 0 /\ v9 = 0
       /\ v10 = 0 /\ v11 = 0 /\ v12 = 0
  \/ which = "packets" /\ O!Init /\ v8 = 0 /\ v9 = 0 /\ v10 = 0 /\ v11 = 0 /\ v12 = 0
  \/ which = "clock" /\ B!Init
  \/ which = "links" /\ G!Init /\ v10 = 0 /\ v11 = 0 /\ v12 = 0
  \/ which = "stack" /\ Q!Init /\ v7 = 0 /\ v8 = 0 /\ v9 = 0 /\ v10 = 0 /\ v11 = 0
       /\ v12 = 0
  \/ which = "upgrade" /\ X!Init /\ v10 = 0 /\ v11 = 0 /\ v12 = 0
  \/ which = "ping" /\ Y!Init /\ v10 = 0 /\ v11 = 0 /\ v12 = 0
  \/ which = "bar" /\ U!Init /\ v7 = 0 /\ v8 = 0 /\ v9 = 0 /\ v10 = 0 /\ v11 = 0
       /\ v12 = 0
  \/ which = "connections" /\ V!Init /\ v3 = 0 /\ v4 = 0 /\ v5 = 0 /\ v6 = 0 /\ v7 = 0
       /\ v8 = 0 /\ v9 = 0 /\ v10 = 0 /\ v11 = 0 /\ v12 = 0

Next ==
  \/ SRest /\ S!Next
  \/ DRest /\ D!Next
  \/ CRest /\ C!Next
  \/ HRest /\ H!Next
  \/ WRest /\ W!Next
  \/ TRest /\ T!Next
  \/ LRest /\ L!Next
  \/ FRest /\ F!Next
  \/ PRest /\ P!Next
  \/ NRest /\ N!Next
  \/ ARest /\ A!Next
  \/ KRest /\ K!Next
  \/ ORest /\ O!Next
  \/ BRest /\ B!Next
  \/ GRest /\ G!Next
  \/ QRest /\ Q!Next
  \/ XRest /\ X!Next
  \/ YRest /\ Y!Next
  \/ URest /\ U!Next
  \/ VRest /\ V!Next

Fair1 == \/ DRest /\ D!ScanSteps
         \/ CRest /\ C!CallerSteps
         \/ TRest /\ T!ServeSteps
         \/ LRest /\ L!PumpSteps
         \/ FRest /\ F!ProducerSteps
         \/ PRest /\ P!UpdateSteps
         \/ NRest /\ N!SweepSteps
         \/ XRest /\ X!LoopSteps
Fair2 == \/ CRest /\ C!ReaderSteps
         \/ LRest /\ L!LogSteps
         \/ PRest /\ P!EditSteps
Fair3 == \/ CRest /\ C!HelperSteps
         \/ LRest /\ L!Close
Spec == Init /\ [][Next]_vars /\ WF_vars(Fair1) /\ WF_vars(Fair2) /\ WF_vars(Fair3)

(* All the type invariants.                                                *)
TypeOK ==
  /\ which = "settings" => S!TypeOK
  /\ which = "disk" => D!TypeOK
  /\ which = "capture" => C!TypeOK
  /\ which = "files" => H!TypeOK
  /\ which = "detector" => W!TypeOK
  /\ which = "terminal" => T!TypeOK
  /\ which = "log" => L!TypeOK
  /\ which = "folder" => F!TypeOK
  /\ which = "projects" => P!TypeOK
  /\ which = "lan" => N!TypeOK
  /\ which = "cache" => A!TypeOK
  /\ which = "health" => K!TypeOK
  /\ which = "packets" => O!TypeOK
  /\ which = "clock" => B!TypeOK
  /\ which = "links" => G!TypeOK
  /\ which = "stack" => Q!TypeOK
  /\ which = "upgrade" => X!TypeOK
  /\ which = "ping" => Y!TypeOK
  /\ which = "bar" => U!TypeOK
  /\ which = "connections" => V!TypeOK

(* A setting that was saved keeps its value until somebody saves another   *)
(* one, also across a restart of the agent (config.py).                    *)
SettingsKept == [][which = "settings" => S!SettingKept]_vars

(* A finished scan that is shown again is true of the disk, whatever was   *)
(* deleted meanwhile (disk_usage.py, disk_delete.py).                      *)
ScanHonest == which = "disk" => D!ScanHonest

(* A file request that is reported as done has done what it was asked, if  *)
(* nobody else was at its files since it was checked; what one that fails  *)
(* had sent is still there whole; and a text that was there when it was    *)
(* checked is lost only if it was to be replaced or deleted (files.py).    *)
TextsKept == [][which = "files" => H!TextKept]_vars

(* A warning about an address or a DHCP server is not pushed out by        *)
(* findings that matter less (netwatch.py).                                *)
AlertsKept == [][which = "detector" => W!AlertKept]_vars

(* A project that no job is at work on runs its file and its tag, and a    *)
(* roll-back brings the old file back, or the image the tag had when the   *)
(* job came to the project, unless jobs crossed or a helper was stopped    *)
(* (updates.py, compose_edit.py); one the dashboard deployed runs what it  *)
(* sent (stack_deploy.py).                                                 *)
QuietIsApplied == /\ which = "projects" => P!QuietIsApplied
                  /\ which = "stack" => Q!StackAsAsked

(* The figures on the dashboard are true: the rates of a container are of  *)
(* the time between two readings, also after a restart, those of its bytes *)
(* unless the reading before had failed unnoticed (main.py); the totals of *)
(* a capture and its flows agree with its packets and a poll misses none   *)
(* (capture.py); a TCP segment is flagged as what it is, also where the    *)
(* numbers wrap around (capture_worker.py); the rows of conversations      *)
(* count each flow once (connections.py); no wake for a check of the       *)
(* images is lost, and the bar of an update goes back only when Compose    *)
(* starts it over (updates.py); a link that is kept for the present start  *)
(* of a container was found in it (web_links.py); a loss of echoes is of   *)
(* echoes that were sent and whose answers had not come or were not read   *)
(* in time (probes.py); and an exit code is not of an upgrade of the host  *)
(* before the newest that came to its log (host_control.py).               *)
FiguresSane ==
  /\ which = "cache" => A!RatesSane
  /\ which = "packets" => O!TotalsAgree /\ O!PollsMissNothing /\ O!FlowsAgree
  /\ which = "health" => K!FlagsDeserved
  /\ which = "links" => G!LinksOfThisStart /\ G!RefreshComplete
  /\ which = "clock" => B!WakeKept
  /\ which = "ping" => Y!BurstTrue
  /\ which = "upgrade" => X!ExitIsOfNewest
  /\ which = "bar" => U!BarForward
  /\ which = "connections" => V!RowsTrue

(* The host runs one packet capture and one sweep of its network at a      *)
(* time, as far as the agent can see to it (not if two starts of a sweep   *)
(* crossed), no more shells than there are places for, and one nightly     *)
(* update a day, or one more for each restart of the agent in the very     *)
(* hour.                                                                   *)
OneAtATime == /\ which = "capture" => C!OneSniffer
              /\ which = "lan" => N!OneSweep
              /\ which = "terminal" => T!PlacesCounted
              /\ which = "clock" => B!NightlyOnce

(* Whatever refuses the next request while it is at work ends: scans of a  *)
(* disk, captures, sweeps of the network, updates and edits; an upgrade    *)
(* of the host is not refused for ever when none runs.  Two calls have no  *)
(* time limit, and may keep the place until the agent restarts: the pull   *)
(* of an image (updates.py:389) and the helper that reads the neighbours   *)
(* (lan_scan.py:106).                                                      *)
Occupied(k) == \/ which = "disk" /\ D!AtWork(k)
               \/ which = "lan" /\ N!Busy(k)
               \/ which = "capture" /\ k = 1 /\ C!Refusing
               \/ which = "upgrade" /\ k = 1 /\ X!RefusedForNothing
               \/ which = "projects" /\ IF k = 1 THEN P!Updating ELSE P!Editing
Hanging(k) == \/ which = "lan" /\ N!Hung(k)
              \/ which = "projects" /\ k = 1 /\ P!Hung
SlotsReturn == \A k \in 1..2 : []<>(~Occupied(k) \/ Hanging(k))

(* The threads, helpers and shells that follow a viewer or a download end  *)
(* with it, and a download that finishes is complete.  Left behind are a   *)
(* thread that waits to put into a full queue (container_logs.py:67), a    *)
(* helper that Docker did not remove and a shell that could not be told to *)
(* hang up (terminal.py), and all of it by a loop that waits for its lock. *)
Left(s) == \/ which = "terminal" /\ T!Over(s)
           \/ which = "log" /\ L!ViewerGone
           \/ which = "folder" /\ F!DownloadOver
Followed(s) == \/ which = "terminal" /\ (T!Clean(s))
               \/ which = "log" /\ L!PumpOver
               \/ which = "folder" /\ F!ProducerOver
FollowersEnd == /\ \A s \in Sessions : []<>(Left(s) => Followed(s))
                /\ [](which = "folder" => F!AllSent)
=============================================================================
