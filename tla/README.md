# PiBuddyCam: a TLA+ verification project

PiBuddyCam turns a Raspberry Pi Zero 2 W into a Prusa Connect camera. This
directory holds TLA+ models of its stateful parts, the TLC configurations that
check them, and TLAPS proofs of the safety properties that matter most. All paths
below are relative to the repository root.

## The system

| Process | Code | Modelled by |
|---|---|---|
| updater units (check, install) and launcher | `app/updater_install.py`, `image/assets/launcher.sh` | `ReleaseInstall`, `ActiveRelease` |
| who starts an update (console, MQTT, timer) | `app/update_control.py`, `app/privileged.py`, `app/mqtt_service.py` | `UpdateControl` |
| timelapse builds in runtime and console | `app/media_build.py`, `app/main.py` | `MediaBuild` |
| GPIO trigger, print sessions, frame loop | `app/gpio_trigger.py`, `app/timelapse.py`, `app/main.py` | `GpioSessions` |
| setup wizard, boot selector, factory reset | `app/setup_wizard.py`, `app/provisioning.py`, `app/boot_mode.py`, `app/factory_reset.py`, `app/recovery.py` | `Provisioning` |
| network change and network watchdog | `app/network_settings.py`, `app/network_apply.py`, `app/network_watchdog.py` | `NetworkFallback` |
| discovery and verification of updates | `app/updater.py`, `app/updater_install.py`, `app/app_version.py` | `UpdateDiscovery` |
| settings, their files | `app/settings_coordinator.py`, `app/state.py`, `app/quality_control.py`, ... | `Settings` |
| boot: migrations, restore, TLS pair, pruning | `app/persist_restore.py`, `app/migrations.py`, `app/admin_tls.py` | `BootRestore` |
| configuration documents and the handlers that save them | `app/config_schema.py`, `app/admin_http_settings.py`, `app/expert_config.py` | `ConfigDocs` |
| console sessions, re-authentication, login limits | `app/admin_auth.py`, `app/admin_http.py` | `Console` |
| console live views | `app/live_monitor.py`, `app/local_webrtc.py`, `app/admin_app.py` | `LiveView` |
| Prusa Connect session, triggers, `/c/info` | `app/signaling.py`, `app/trigger.py`, `app/info_service.py`, `app/main.py` | `CloudLink`, `MCCloudLink` |
| Prusa Connect live view | `app/webrtc.py`, `app/main.py` | `WebRtcSession` |
| MQTT service and settings dispatch | `app/mqtt_service.py`, `app/mqtt_state.py`, `app/settings_dispatch.py` | `Mqtt`, `MCMqtt` |
| camera source and stream multiplexer | `app/stream_mux.py`, `app/camera_source.py`, `app/camera.py` | `StreamMux` |

The processes meet in files on `/data` (release links, `state.json`,
`provisioning.json`, result and lock files), in systemd units, and, inside the
runtime, in one shared `CameraState`. Power may be cut at any time: the device
is expected to lose power with the printer (`docs/architecture.md`).
`PROJECT.json` lists every component, also those without a model, the source
lines each definition stands for, and the hazards the properties aim at.

## Modules

Action names follow the functions they model; each action is the whole handler,
or the part of it between two points where another actor or a power cut can act.

- **ReleaseInstall**: the release tree (`tree`, `staging`, `current`,
  `previous`, `bad`), what runs (`running`), and for each of the two units a
  program counter over `install_update` and `recover_interrupted`. Every rename,
  link swap and deletion is a step of its own; `PowerCycle` may follow any of
  them. Which releases pass the health probe (`serves`) is chosen at the start.
- **ActiveRelease**: the promise to the launcher: one active release, one
  fallback, an atomic switch that may be taken back during probation.
- **UpdateControl**: worker threads, busy flags and the time budget of each
  privileged call, in ticks that keep the order of the code's deadlines. A unit
  may never end.
- **MediaBuild**: the two build managers with their threads, the lock file
  (create, stat, unlink and create again are separate steps), the queue of
  closed sessions with its retry timer, and the direct build of the Prusa
  trigger.
- **GpioSessions**: printer, kernel edge queue, armed lines, the marker file of
  the open session and the capture loop. A frame carries the print that asked
  for it, so a frame in the wrong folder is visible.
- **Provisioning**: the files on the card, the wizard's steps, the console's setup
  gate, the boot decision and the steps of a reset, with failures and power cuts
  between them.
- **NetworkFallback**: `wlan0`, the stored profile, the result file, the root
  transaction, the console's pending change and the watchdog's pass. Networks
  come and go.
- **Settings**: one setting in up to four places: memory, `state.json`, the
  environment files, and what a unit was started with. Mutations run on one
  event loop and are atomic; restarts and power cuts come between them.
- **WebRtcSession**: the handler on the event loop, timers on the GLib thread
  and ICE notifications. A timer callback that has been dispatched survives the
  cancelling of its timer.

- **UpdateDiscovery**: the check and the install unit around the update-state
  document, with what can be wrong with a manifest, a bundle or an unpacked tree as
  a set of flaws, one per check of the code. The server may publish between the
  manifest and the bundle. Links and restarts, the subject of `ReleaseInstall`, are
  one step each here.
- **BootRestore**: `persist_restore.main` step by step: the read-write remount and
  the migrations, whose edits may be torn by a cut; host name, key and certificate;
  the console's environment; the pruning of frames.
- **ConfigDocs**: `device.toml` and `secrets.toml` with their temporary files, the
  save of a pair and its rollback, the handlers that rewrite one section of them, the
  expert editor, and the camera, which reads them one after the other.
- **Console**: the session table and the map of re-auth times, which are two
  structures that can disagree, and the limiter with its failures and lockouts.
- **LiveView**: the monitor's producer thread by generation, leases and the frame
  pages poll; the viewers' handlers, slots, ICE states and timers.
- **CloudLink**: the supervisor, one Socket.IO client after another, trigger
  handlers that outlive the client they came from, and the info loop with its
  countdown. A behaviour looks at the session or at `/c/info`, which share nothing.
- **Mqtt**: the broker's retained documents and last will, the service's start and
  stop, the network thread, the worker that expires an error, and the event loop on
  which commands and console changes run in order of submission.
- **StreamMux**: chunks as kinds (`key`, `edge`, `cut`, `slice`), the cached
  bootstrap, a queue per client, and the frame a capture takes from what it decodes.
- **Appliance**, **Services**: `BootRestore`, `ConfigDocs`, `Settings` and
  `StreamMux`; `UpdateControl`, `WebRtcSession` and `LiveView`, put side by side with
  `INSTANCE`. Within each of the two, the models have no variable in common, so
  nothing is gained by interleaving them: `part` picks the one a behaviour follows and
  the others stay in their initial state. This is a way to check them in one run, not
  a claim about their interaction. The fairness conditions are those of the modules,
  each restricted to the behaviours that follow it.
- **ApplianceBoot**, **ApplianceDocs**, **ApplianceSettings**, **ApplianceMux**,
  **ServicesView**: one part each, as an instance over variables of its own, with the
  properties checked of it under the names they have in the component's module.
  `Appliance` and `Services` extend them, and so do the proof modules: a run and a
  theorem speak of one definition.
- **...Proofs**: the theorems; see Proofs.

## Runs

| Run | Bounds | States | What it shows |
|---|---|---|---|
| `release_switch` | 3 versions, 2 power cuts, disk errors, no overlap | 116,288 | links name complete releases, an installed release serves, the switch is atomic, the runtime returns, orphaned releases are reclaimed |
| `update_discovery` | 2 releases, 1 publication, 1 check, 2 installs, 1 cut | 2,050,109 | a release directory holds what its name says; the device only moves forward, or back to where it was |
| `media_build` | 1 session, 2 retries, 1 crash, direct builds | 47,332 | the lock protects a build, the session is settled unless a drain is spent |
| `gpio_sessions` | 2 prints, 1 restart, 1 change | 56,927 | closed sessions are built and stay complete, recordings end |
| `provisioning` | 2 cuts, 1 uninterrupted reset, 2 errors | 92,006 | the camera needs a claim, a failed finish returns to the portal |
| `network_fallback` | 2 networks, 3 flips, 2 changes, 1 failure | 287,823 | the camera stays reachable and returns home |
| `mqtt` | 2 values, 1 birth, 2 errors, four budgets of commands, console changes, drops and restarts | 147,991 | a retained `online` has a will behind it, submissions win in order, errors expire, documents return |
| `cloud_link` | 2 handlers, 3 triggers, 3 faults, 1 hang, 3 changes | 502,385 | the session returns; every change is told or given up |
| `console` | 2 peers, 3 logins, table of 2, limiter of 1, clock to 3 | 478,716 | what needs a fresh password has one, from its own session |
| `appliance` | boot: 3 migrations, 3 cuts, 1 failure; documents: 3 changes, 2 failing writes, 2 cuts; settings: 4 changes, 2 cuts; mux: 1 client, 4 chunks, queue of 2, 1 restart | 1,736,362 | no half certificate is served, no edit recorded that was not made, nothing acknowledged is lost, the reported tier is the encoder's, a gap takes an overflow |
| `services` | update: budgets 1 < 2 < 3 < 4; Connect view: 2 offers, 1 relay, 2 mode changes, 1 drop; console views: 2 pollers, 3 watchers, caps 1 and 2, 2 faults | 62,982 | workers return, paused snapshots resume, one producer serves every page, lost sessions end |
| `release_overlap` | 2 versions, overlap | violation | recovery deletes a release that is being switched in; the factory application passes the probe and the install is reported as installed |

The bounds admit what the hazards need: a release, its fallback and a newer one;
a second power cut during recovery from the first; a second peer while a callback
of the first is pending; a second install after the first one's release was marked
bad; a session table and a limiter that are full; a second change while the first is
uploading. `media_build` has one session only, because two sessions together with a
crash and ageing locks exceed a few minutes of checking.

Further configurations that pass are kept beside these runs. `BootRestore`,
`ConfigDocs`, `Settings`, `StreamMux`, `UpdateControl`, `WebRtcSession` (with three
offers) and `LiveView` check the modules inside the two composed runs on their own,
with their type invariants and secondary properties. `ReleaseRollback` (no cuts, no
disk errors) checks that an unhealthy release is left again, and `SettingsFaulty` the
encoder's settings under every fault and live-only changes. The type invariants and
secondary properties of the other modules (`BadReleaseStaysOut`, `StaleNeedsRestart`,
`LockoutIsEarned`, `NewSessionSurvives`, and `StaleNeedsFault`, which is also proved)
hold with the constants of the runs: add them to the `.cfg` to check them.

Several passing runs leave out, by a constant, a circumstance under which one of
their properties fails: `release_switch` has no overlapping units, `ReleaseRollback`
no power cuts and no disk errors, `provisioning` no interrupted reset, the settings
in `appliance` no failing file write and no live-only change, `SettingsFaulty` no
restart of the runtime alone, `mqtt` no stop during a start. Others name it in the
property: `SessionReturns` excuses an attempt that never returns, `InfoMatches` a
change during an upload, `StoredIsAcked` a cut between two renames. Their results
hold under those restrictions only, and the failures are listed in the next section.

Deadlock is checked in `release_switch`, `media_build`, `provisioning` and
`network_fallback`, and, outside the composed runs, in `BootRestore`, `ConfigDocs`,
`Settings` and `UpdateControl`. Elsewhere users, printers, viewers or servers that ask
for nothing more leave the system at rest, or a bounded clock stops.

## Further disagreements

Each row is one sentence of the documentation, a docstring or a comment, quoted above
the property, and the behaviour TLC finds against it. Where the first column names a
`.cfg` of its own, it is kept beside the runs of `PROJECT.json`; where it says "with",
the property takes the place of the properties of that configuration, with the
constants given.

| Configuration | Property | What the code does |
|---|---|---|
| `ReleasePowerCut` | `UnhealthyReleaseIsLeft` | power lost before the health verdict leaves an unhealthy release active |
| `UpdateControl` with the property | `OutcomeIsHeard` | the install call gives up after 60 s while the unit still works |
| `MediaBuild` with `MaxCrashes = 0, WebTargets = {"root"}, DirectBuilds = FALSE, LockAgesLive = FALSE` | `ManagersExclude` | a lock released between create and stat counts as stale, and the next holder's lock is unlinked |
| the same with `Sessions = {s1, s2}` | `SessionIsSettled` | a spent drain leaves the sessions behind it without a timer |
| `MediaBuild` with `MaxCrashes = 0, WebTargets = {"root"}, LockAgesLive = FALSE` | `OnlyOneBuild` | the Prusa trigger's build takes no lock |
| `GpioSessions` with `MaxPrints = 3, MaxEvents = 3, MaxShots = 2, MaxRestarts = 0, MaxChanges = 0` | `OwnFolder` | a late capture is stored in the next print's folder |
| `GpioSessions` with `MaxPrints = 3, MaxEvents = 3, MaxShots = 2, MaxChanges = 0` | `NoStaleSession` | after a restart a new print resumes a cancelled print's session |
| `Provisioning` with `MaxCuts = 1, MaxResets = 0, MaxErrors = 1` | `FinishedBootsCamera` | a finish without a camera probe boots into setup again |
| `Provisioning` with the property | `SentinelBootsSetup` | nothing reads the recovery sentinel at boot |
| `Provisioning` with the property | `BackupIsRemoved` | nothing removes the backup of a reset |
| `NetworkFallback` with the property | `NotDisturbed` | the watchdog looks once and acts later, during a change |
| `NetworkFallback` with `UnitMinutes = 1` | `SavedWasApplied` | the watchdog's `applied` is taken for the console's |
| `NetworkFallback` with the property | `HotspotAfterThreshold` | a stale hotspot flag skips the ten minutes |
| `Settings` with `Faults = {"env"}` | `RejectedIsInert` | a rejected quality change has already moved the pipeline |
| `Settings` with `LiveOnly = TRUE` | `LiveStaysOut` | a live-only tier is saved with the next setting |
| `Settings` with `LiveOnly = TRUE` | `EncoderFollowsState` | after a runtime restart the reported tier is not the encoder's |
| `Settings` with the property | `DisabledRefusesOffers` | a disabled WebRTC accepts offers after a restart |
| `WebRtcSession` with the property | `StreamingWhilePeer` | a connection after the watchdog streams while snapshots run |
| `WebRtcSession` with the property | `DisabledHasNoPeer` | a peer is built after the service was switched off |
| `WebRtcSession` with the property | `OwnEndReported` | an old timer callback uses up the new peer's end report |
| `WebRtcSession` with the property | `QualityUnlocks` | a late relay candidate locks the quality until the next live view |
| `Provisioning` with `ResetBreaks = TRUE` | `CameraNeedsClaim` | an interrupted reset boots the camera without configuration |
| `Provisioning` with the property | `SetupServesWizard` | a cut between the documents and the state file leaves a setup that refuses its own wizard |
| `Provisioning` with `SetupResets = TRUE` | `CameraNeedsClaim` | after a reset a finish relies on an in-memory flag and claims a device without configuration |
| `UpdateDiscovery` with `MaxChecks = 2, MaxInstalls = 1, MaxCuts = 0` | `FactoryShowsImage` | a factory device shows the version of the release it has left |
| `UpdateDiscovery` with `MaxChecks = 2, MaxInstalls = 1` | `NotDueIsQuiet` | a check that is not due has downloaded the manifest before it looks |
| `BootRestore` with the property | `MigrationsRunOnce` | a cut before the list is written runs migrations again |
| `BootRestore` with the property | `RecordedStaysDone` | a torn file loses an edit that is recorded as done |
| `ConfigDocs` with the property | `NeverHalfApplied` | a cut between the renames leaves a new device document with old secrets |
| `ConfigDocs` with the property | `CameraRunsOnePair` | the camera reads one document before and one after a save |
| `MCMqtt` with `Budgets <- MCFaults` | `OnlineReturns` | after a reconnect `offline` stays retained |
| `MCMqtt` with the property | `RetainedFollowsState` | a console change is not published |
| `MCMqtt` with `Budgets <- MCErrors` | `RetainedErrorClears` | the worker clears a newer error than it read and publishes first: the error stays retained |
| `MCMqtt` with `StopDuringStart = TRUE` | `OnlineIsBacked` | a stop during a start: `online` is published after `offline`, and the will is gone |
| `MCMqtt` with the property | `StartedIsConnected` | a refused connection counts as started |
| `StreamMuxFresh` | `FreshFrame` | the bootstrap decodes to several frames and one is skipped, so a capture may be old |
| `StreamMuxFresh` with the property | `PatchedStream` | an SPS across a chunk boundary is not patched |
| `StreamMuxFresh` with the property | `StartsClean` | chunks between bootstrap and registration are lost to the client |
| `LiveView` with the property | `SlotIsReturned` | an upgrade that fails early keeps its viewer slot |
| `MCCloudLink` with the property | `InfoIsTold` | a change during an upload is cleared with it and never told |
| `MCCloudLink` with the property | `NoRebootLoop` | the reboot limit is in memory and does not survive the reboot |
| `MCCloudLink` with the property | `RepliesToMembers` | a late handler answers on a client that is not authenticated yet |
| `MCCloudLink` with the property | `SupervisorReturns` | a connect that never returns stops the supervisor |

All of these are behaviours of the models, which were written from the source;
none has been reproduced on a device.

## Fairness

Liveness is checked under weak fairness of what the platform schedules: a started
oneshot unit runs on and the daily timer keeps starting the check unit; threads,
the event loop, the GLib loop and armed timers run; builds and captures end;
systemd starts queued units; NetworkManager retries a profile it may connect.
`UpdateControl` needs strong fairness of its clock tick, because other steps can
disable it for a moment again and again. Nothing is assumed of users, printers,
viewers, Prusa Connect, networks, or the end of an update unit.

## Proofs

The theorems below hold for every value of the constants that satisfies the named
assumption of the module (`ConstantsAssumption`, `MediaAssumption`, `MqttAssumption`
and so on: the bounds are natural numbers, a queue or a table has room for one entry,
the absent value differs from the present ones). Where a circumstance is excluded it
is a hypothesis of the theorem, named in the table; the rows of "Further
disagreements" and `release_overlap` show what happens without it.

| Module | Theorem | What it establishes | Hypothesis |
|---|---|---|---|
| `ReleaseInstallProofs` | `TypeCorrect`, `RuntimeDownOnlyWhileInstalling` | types; the runtime is down only inside an install that stopped it | |
| | `LinksStayIntact`, `InstalledServes`, `LinkedNeverDismantled`, `SwitchIsAtomic` | links name complete releases, `installed` is what runs, no linked release is taken apart, the installer implements `ActiveRelease` | `Overlap = FALSE` |
| `UpdateDiscoveryProofs` | `ReleasesMatchNames`, `SwitchesUpgrade`, `DocumentIsCurrent` | `ReleaseMatchesName`, `UpgradesOnly`, `StaleNeedsFault` | |
| | `PairIsWhole`, `MigrationsAreDone` | `ServedPairIsWhole` and `RecordedWasDone` of the boot | |
| `MediaBuildProofs` | `LockProtects` | `LockProtectsBuild`: until a lock of a running build is broken, one manager builds | |
| `GpioSessionsProofs` | `EveryClosedSessionIsBuilt`, `BuiltSessionsStayComplete` | `ClosedIsBuilt`, `BuiltStaysComplete` | |
| | `NoSilentGap` | `GapNeedsOverflow` of the multiplexer | |
| `ProvisioningProofs` | `PortalReturns` | `NotStranded` | |
| | `CameraIsClaimed` | `CameraNeedsClaim` | `ResetBreaks = FALSE`, `SetupResets = FALSE` |
| | `RevertRestores` | `RevertedKeepsProfile` of `NetworkFallback`, which `network_fallback` checks | |
| `MqttProofs` | `LastSubmittedWins` | `SubmitOrderWins` | |
| | `OnlineHasWill` | `OnlineIsBacked` | `StopDuringStart = FALSE` |
| | `EncoderFollows`, `AcceptedIsInForce`, `RejectionsAreInert` | `EncoderFollowsState`, `AcceptedSurvives`, `RejectedIsInert` of the settings | `Careful`: writes of `state.json` and the environment files succeed, no live-only changes |
| `CloudLinkProofs` | `ConnectIsTold` | `InfoMatches` | |
| `ConsoleProofs` | `OwnProofNeeded` | `PrivilegedNeedsOwnProof` | |
| | `SingleProducer` | `OneProducer` of the live view | |
| | `DocumentsAreAcknowledged` | `StoredIsAcked` of the configuration documents | |

Only `InfoMatches` is inductive as it stands. The others need to know what a thread,
a unit or a request carries from one of its steps to the next:

- *Installer* (`IInv`): deletions are guarded by values read several steps earlier. So
  at most one unit works (`Separate`), a recovery's scan still covers the links
  (`ScanCovers`), the release being switched in is complete, newer and unlinked and
  `saved` is the active one (`SwitchReady`), pruning keeps what is linked
  (`PruneKeeps`), and the release on trial is the linked and running one (`OnTrial`).
  `SwitchIsAtomic` maps `active` and `fallback` to the releases the links can run and
  `probation` to the labels between switch and verdict. `DownInv` ties the `quiesced`
  and `activated` flags to the labels.
- *Discovery* (`IInv`, `DocInv`): the staged tree is the admitted manifest's release,
  and what `_install_update` admitted is still newer and allowed when it switches; each
  unit's view of the installed release is the serving one until it writes the document.
- *Boot* (`BootInv`, `MigInv`): at the point where `admin.env` is written the key and
  the certificate fit each other and the name of this boot, whatever an earlier boot
  left; what `run_pending` has noted and not yet recorded is in its file.
- *Builds* (`IInv`): `_lock_held` and the job of a manager come and go together, and a
  thread that works on the lock file does so under `_lock`, with no job.
- *Sessions* (`IInv`): the session the marker names is not among those given to the
  build manager, and no folder that does not exist yet has frames.
- *Multiplexer* (`MuxInv`): the queue of a live client is a run of consecutive chunks
  that ends with the last one its channel was given and, if it never overflowed, starts
  behind the last one sent.
- *Provisioning* (`PortalInv`, `ClaimInv`): the hotspot is up, or given up, or a finish
  is on its way; the card has both documents whenever the stored state or the wizard's
  memory says so.
- *Network change* (`RevertInv`): while the unit waits for the restored connection, the
  profile is its snapshot, since nobody else writes the profile.
- *MQTT* (`OrderInv`, `AvailInv`): the last accepted value is that of the last accepted
  job in the queue, or the setting if there is none; a link has its will until `stop`,
  and after `stop`'s `offline` no `online` is retained or queued.
- *Settings* (`CamInv`): the accepted setting, `state.json`, the environment files, the
  units and the runtime's memory agree, each from the point of the boot where it is set.
- *Console* (`Tables`): a token is used once, and a token with a session and a window
  has its proof at the time the window says; so the two tables may disagree on which
  tokens they hold and still never lend one session's proof to another.
- *Live view* (`ProducerInv`): a thread that lives is of the current generation and the
  flag is up.
- *Documents* (`DocsInv`): what the worker of a save holds as backup is what is stored,
  and between the two renames the device document is new and the rest acknowledged.

So every safety property that a passing run checks is also proved. Model-checked only:
all liveness (fairness and `ENABLED` are beyond the prover), the secondary properties
other than `StaleNeedsFault`, all of `UpdateControl` and `WebRtcSession` (their checked
promises are liveness), and the type invariants as such but for the installer's (the
proofs carry the part they need).

A proof module about several components joins parts that belong together in the system;
its sections share nothing but the file.

## Not modelled

- Text and bytes: SDP, protobuf and MQTT payloads, AVI layout, page rendering,
  command wording, field validation. Signatures, archives and certificates are
  reduced to whether a check accepts them.
- The console's routing, dashboard, diagnostics archive, media library handlers and
  SSH switch; the ONVIF and local HTTP servers, which answer from shared state; the
  socket of the runtime IPC. They read, or change one file or unit, and keep no
  protocol state, except that deleting a session is not excluded from a build that
  starts meanwhile, which remains to be modelled.
- The snapshot loop's deadlines and the status heartbeat.
- File writes are durable when they return, except the in-place edits of the
  migrations: there is no write-back cache. The network watchdog's clock never jumps.
- Whole parts without a model, with the reason, are in `PROJECT.json`; the web front
  end has not been read in detail.

About a third of the implementation's lines are mapped. What is left is mostly
rendering, validation, encoding and wording.

## Next

Abstract specifications: a mutual-exclusion specification for `MediaBuild` without
lock breaking, and a register of accepted values for `Settings` and `ConfigDocs`.
Compositions: `ReleaseInstall` with `UpdateControl`, and `Mqtt` with `Settings`.
Proofs: `FlagFollowsWorker` of `UpdateControl`, the safety of `WebRtcSession`, and
`NewSessionSurvives` and `LockoutIsEarned` of `Console`.
