--------------------------- MODULE UpdateDiscovery ---------------------------
(***************************************************************************)
(* How the camera learns of a release, and what it lets itself install:    *)
(* the report-only check unit and the install unit of updater_install.py,  *)
(* the manifest and bundle validation of updater.py, the last-check        *)
(* record, the update-state document both units write, and app_version,    *)
(* which reads that document back.  The two are separate systemd units, so *)
(* their steps interleave; the release server may publish between any two. *)
(*                                                                         *)
(* Abstraction.  A version is a number, 0 the factory application; the     *)
(* SHA-256 of a bundle is the version whose files it holds.  What is wrong *)
(* with a downloaded file is a member of a set of flaws, one per check of  *)
(* the code.  ReleaseInstall models the links and the restarts in detail;  *)
(* here the switch and the rollback are one step each.                     *)
(***************************************************************************)
EXTENDS Naturals

CONSTANTS MaxVersion,   \* the newest release ever published
          Image,        \* the installed image version; 0 = unknown
          Interval,     \* CHECK_INTERVAL_SECONDS, in ticks
          Jitter,       \* CHECK_JITTER_SECONDS, in ticks
          MaxTime,      \* bound on the clock
          MaxPublish,   \* bound on publications
          MaxChecks,    \* bound on check units
          MaxInstalls,  \* bound on install units
          MaxCuts       \* bound on power cuts

ASSUME DiscoveryAssumption ==
    /\ {MaxVersion, Image, Interval, Jitter, MaxTime} \subseteq Nat
    /\ {MaxPublish, MaxChecks, MaxInstalls, MaxCuts} \subseteq Nat
    /\ MaxVersion > 0 /\ Interval > 0 /\ Jitter <= Interval

VARIABLES now,         \* the wall clock
          last,        \* the last_check record; 0 = none usable
          server,      \* the published manifest: version and min_image_version
          active,      \* the version `current` names; 0 = the factory app
          previous,    \* what `previous` names
          content,     \* version directory -> version of the files in it, 0 = absent
          bad,         \* versions with a .bad marker
          doc,         \* update-state.json
          chk,         \* the check unit
          ins,         \* the install unit
          excused,     \* history: the units overlapped, were cut, or could not write the document
          used         \* units started, publications and cuts so far
vars == <<now, last, server, active, previous, content, bad, doc, chk, ins, excused, used>>

Versions == 1..MaxVersion
Releases == 0..MaxVersion
Manifest == [version: Versions, image: Releases]

\* What minisign or the parser may find wrong with a downloaded manifest.
ManifestFlaws == {"none", "unsigned", "malformed"}
\* What a check of the bundle, of its archive or of the unpacked tree rejects.
BundleFlaws == {"none", "space", "short", "unsigned", "size", "zstd", "members", "tar", "venv",
                "main", "compile", "import", "migrate"}

ChkIdle == [step |-> "idle", force |-> FALSE, shown |-> 0, flaw |-> "none",
            manifest |-> [version |-> 1, image |-> 0], latest |-> 0]
InsIdle == [step |-> "idle", force |-> FALSE, shown |-> 0, flaw |-> "none",
            manifest |-> [version |-> 1, image |-> 0], latest |-> 0,
            bundle |-> 0, staged |-> 0, result |-> 0]

Init ==
    /\ now = 1 /\ last = 0
    /\ server \in {m \in Manifest : m.version = 1}
    /\ active \in {0, 1} /\ previous = 0
    /\ content = [v \in Versions |-> IF v = active THEN v ELSE 0]
    /\ bad = {}
    /\ doc = [installed |-> active, latest |-> 0]
    /\ chk = ChkIdle /\ ins = InsIdle
    /\ excused = FALSE
    /\ used = [publish |-> 0, check |-> 0, install |-> 0, cut |-> 0]

-----------------------------------------------------------------------------
(* Versions and manifests *)

\* is_newer: strictly newer by SemVer precedence.
is_newer(candidate, current) == candidate > current

\* default_image_version: the strict version of the image; 0 skips the comparison.
default_image_version == Image

\* classify_manifest: the image is compared first, then the installed version.
classify_manifest(m, current) ==
    IF default_image_version > 0 /\ is_newer(m.image, default_image_version)
    THEN "incompatible_image"
    ELSE IF current > 0 /\ is_newer(current, m.version) THEN "downgrade"
    ELSE IF current > 0 /\ current = m.version THEN "up_to_date"
    ELSE "available"

\* verify_file: minisign accepts the file.
verify_file(flaw) == flaw # "unsigned"

\* parse_manifest: every field is present and well formed.
parse_manifest(flaw) == flaw # "malformed"

\* read_bad_versions: the versions with a well-formed marker.
read_bad_versions == bad
_is_bad_version(m) == m.version \in read_bad_versions

\* installed_release_version: what the update state last recorded.
installed_release_version == doc.installed

\* active_release_metadata: the version in the active release's release.json.
active_release_metadata == active

\* application_version, and build_identity with the same precedence: the active
\* release, else the recorded version, else (0) the image's own build info.
application_version ==
    IF active_release_metadata > 0 THEN active_release_metadata ELSE installed_release_version

\* _resolve_versions without --current-version: the active release, else what
\* application_version reports.
_resolve_versions == IF active > 0 THEN active ELSE application_version

\* _jittered_interval: clamped to half and one and a half of the base.
_jittered_interval ==
    {i \in (Interval - Jitter)..(Interval + Jitter) :
        2 * i >= Interval /\ 2 * i <= 3 * Interval}

\* Not due: a record that is younger than the interval, or lies in the future.
NotDue(interval) == last > 0 /\ (now < last \/ now - last < interval)

-----------------------------------------------------------------------------
(* The update-state document *)

\* _install_state_document: the offered version comes from the manifest.
_install_state_document(installed, latest) == [installed |-> installed, latest |-> latest]

\* _write_state: write_update_state replaces the file whole, or fails and leaves it.
_write_state(installed, latest) ==
    \/ doc' = _install_state_document(installed, latest) /\ UNCHANGED excused
    \/ doc' = doc /\ excused' = TRUE

\* read_update_state: the document the console and the MQTT publisher show, with
\* an update on offer when its latest version is the newer one.
read_update_state == [doc EXCEPT !.latest = IF is_newer(@, doc.installed) THEN @ ELSE 0]

-----------------------------------------------------------------------------
(* The check unit *)

\* recover_interrupted, in ExecStartPre and again at the start of both units:
\* releases no link names go, and every staging tree, a running install's included.
recover_interrupted ==
    content' = [v \in Versions |-> IF v \in {active, previous} THEN content[v] ELSE 0]

Start(unit, other) ==
    /\ used[unit] < (IF unit = "check" THEN MaxChecks ELSE MaxInstalls)
    /\ used' = [used EXCEPT ![unit] = @ + 1]
    /\ excused' = (excused \/ other.step # "idle")

CheckBegin(force) ==
    /\ chk.step = "idle" /\ Start("check", ins)
    /\ chk' = [ChkIdle EXCEPT !.step = "fetch", !.force = force, !.shown = _resolve_versions]
    /\ recover_interrupted /\ ins' = [ins EXCEPT !.staged = 0, !.bundle = 0]
    /\ UNCHANGED <<now, last, server, active, previous, bad, doc>>

\* _download_to for the manifest and its signature; any failure ends the check.
CheckFetch ==
    /\ chk.step = "fetch"
    /\ \/ \E f \in ManifestFlaws :
            chk' = [chk EXCEPT !.step = "decide", !.flaw = f, !.manifest = server]
       \/ chk' = [chk EXCEPT !.step = "write"]
    /\ UNCHANGED <<now, last, server, active, previous, content, bad, doc, ins, excused, used>>

\* _write_last_check is best effort.
_write_last_check == last' \in {last, now}

\* The verdict of a check that is due: what goes into the document as latest.
CheckVerdict ==
    IF \/ ~verify_file(chk.flaw) \/ ~parse_manifest(chk.flaw) \/ _is_bad_version(chk.manifest)
       \/ classify_manifest(chk.manifest, chk.shown) \in {"downgrade", "incompatible_image"}
    THEN 0 ELSE chk.manifest.version

_check_for_update ==
    /\ chk.step = "decide"
    /\ \E interval \in _jittered_interval :
          IF ~chk.force /\ NotDue(interval)
          THEN chk' = [chk EXCEPT !.step = "write"] /\ UNCHANGED last
          ELSE chk' = [chk EXCEPT !.step = "write", !.latest = CheckVerdict] /\ _write_last_check
    /\ UNCHANGED <<now, server, active, previous, content, bad, doc, ins, excused, used>>

CheckEnd ==
    /\ chk.step = "write"
    /\ _write_state(chk.shown, chk.latest)
    /\ chk' = ChkIdle
    /\ UNCHANGED <<now, last, server, active, previous, content, bad, ins, used>>

-----------------------------------------------------------------------------
(* The install unit *)

InstallBegin(force) ==
    /\ ins.step = "idle" /\ Start("install", chk)
    /\ ins' = [InsIdle EXCEPT !.step = "manifest", !.force = force, !.shown = _resolve_versions]
    /\ recover_interrupted
    /\ UNCHANGED <<now, last, server, active, previous, bad, doc, chk>>

\* Leave through `finally`: staging is removed, then the document is written.
Leave(result, latest) ==
    ins' = [ins EXCEPT !.step = "write", !.staged = 0, !.bundle = 0,
                       !.result = result, !.latest = latest]

\* Mutant: a manifest is admitted without the look at the .bad markers.
AdmitBad(m, force, installed) == classify_manifest(m, installed) = "available"

\* The refusals of _install_update before any staging work.
Admit(m, force, installed) ==
    /\ force \/ ~_is_bad_version(m)
    /\ classify_manifest(m, installed) = "available"

InstallManifest ==
    /\ ins.step = "manifest"
    /\ \/ Leave(0, 0)   \* no URL, or the download failed
       \/ \E f \in ManifestFlaws :
            IF ~verify_file(f) \/ ~parse_manifest(f) THEN Leave(0, 0)
            ELSE IF Admit(server, ins.force, ins.shown)
            THEN ins' = [ins EXCEPT !.step = "download", !.manifest = server]
            ELSE Leave(active, server.version)
    /\ UNCHANGED <<now, last, server, active, previous, content, bad, doc, chk, excused, used>>

\* required_free_space: the free bytes are known and cover the reservation.
required_free_space(flaw) == flaw # "space"
\* default_download: the bundle and its signature arrive within their limits.
default_download(flaw) == flaw # "short"

\* The bundle is the one published by now; a flaw of the file is met at the step
\* that checks it.
Download ==
    /\ ins.step = "download"
    /\ \E f \in BundleFlaws :
          IF /\ required_free_space(f) /\ default_download(f)
             /\ verify_file(f) /\ f # "size"
          THEN ins' = [ins EXCEPT !.step = "extract", !.flaw = f, !.bundle = server.version]
          ELSE Leave(active, ins.manifest.version)
    /\ UNCHANGED <<now, last, server, active, previous, content, bad, doc, chk, excused, used>>

\* validate_archive_members: no member is refused and the caps hold.
validate_archive_members(flaw) == flaw # "members"

\* Mutant: the bundle is unpacked without comparing its SHA-256 with the manifest's.
ExtractUnchecked(b, m, flaw) ==
    b > 0 /\ flaw # "zstd" /\ validate_archive_members(flaw) /\ flaw # "tar"

\* extract_bundle: the digest, the archive, the members, then the extraction.
extract_bundle(b, m, flaw) ==
    /\ b > 0 /\ b = m.version
    /\ flaw # "zstd" /\ validate_archive_members(flaw) /\ flaw # "tar"

Extract ==
    /\ ins.step = "extract"
    /\ IF extract_bundle(ins.bundle, ins.manifest, ins.flaw)
       THEN ins' = [ins EXCEPT !.step = "build", !.staged = ins.bundle, !.bundle = 0]
       ELSE Leave(active, ins.manifest.version)
    /\ UNCHANGED <<now, last, server, active, previous, content, bad, doc, chk, excused, used>>

\* default_build_venv: the venv and its hash-pinned wheels.
default_build_venv(flaw) == flaw # "venv"
\* default_preflight: main.py, compileall, the import check, the migration dry run.
default_preflight(staged, flaw) ==
    staged > 0 /\ flaw \notin {"main", "compile", "import", "migrate"}

\* _systemctl_units: the command on the launcher units succeeds or fails.
_systemctl_units == BOOLEAN

\* Quiesce, venv, preflight.
Build ==
    /\ ins.step = "build"
    /\ \E stopped \in _systemctl_units :
          IF stopped /\ default_build_venv(ins.flaw) /\ default_preflight(ins.staged, ins.flaw)
          THEN ins' = [ins EXCEPT !.step = "switch"]
          ELSE Leave(active, ins.manifest.version)
    /\ UNCHANGED <<now, last, server, active, previous, content, bad, doc, chk, excused, used>>

\* switch_release: refused for a directory that exists or a staging tree that is gone.
Switch ==
    LET v == ins.manifest.version IN
    /\ ins.step = "switch"
    /\ IF content[v] = 0 /\ ins.staged > 0
       THEN /\ content' = [content EXCEPT ![v] = ins.staged]
            /\ previous' = active /\ active' = v
            /\ ins' = [ins EXCEPT !.step = "health", !.staged = 0]
       ELSE Leave(active, v) /\ UNCHANGED <<active, previous, content>>
    /\ UNCHANGED <<now, last, server, bad, doc, chk, excused, used>>

\* Restart and health: the release stays and the others are pruned, or _roll_back.
Health ==
    LET v == ins.manifest.version IN
    /\ ins.step = "health"
    /\ \/ /\ content' = [w \in Versions |-> IF w \in {v, previous} THEN content[w] ELSE 0]
          /\ Leave(v, v) /\ UNCHANGED <<active, bad>>
       \/ /\ active' = previous /\ bad' \in {bad, bad \cup {v}}
          /\ Leave(previous, v) /\ UNCHANGED content
    /\ UNCHANGED <<now, last, server, previous, doc, chk, excused, used>>

InstallEnd ==
    /\ ins.step = "write"
    /\ _write_state(IF ins.result > 0 THEN ins.result ELSE ins.shown, ins.latest)
    /\ ins' = InsIdle
    /\ UNCHANGED <<now, last, server, active, previous, content, bad, chk, used>>

-----------------------------------------------------------------------------
(* The environment *)

Publish ==
    /\ used.publish < MaxPublish
    /\ used' = [used EXCEPT !.publish = @ + 1]
    /\ server' \in Manifest
    /\ UNCHANGED <<now, last, active, previous, content, bad, doc, chk, ins, excused>>

\* Time passes; without a clock battery a boot may also set it back.
Tick ==
    /\ now < MaxTime /\ now' = now + 1
    /\ UNCHANGED <<last, server, active, previous, content, bad, doc, chk, ins, excused, used>>

PowerCut ==
    /\ used.cut < MaxCuts /\ (chk.step # "idle" \/ ins.step # "idle")
    /\ used' = [used EXCEPT !.cut = @ + 1]
    /\ now' \in 1..now
    /\ chk' = ChkIdle /\ ins' = InsIdle /\ excused' = TRUE
    /\ UNCHANGED <<last, server, active, previous, content, bad, doc>>

Next ==
    \/ \E force \in BOOLEAN : CheckBegin(force) \/ InstallBegin(force)
    \/ CheckFetch \/ _check_for_update \/ CheckEnd
    \/ InstallManifest \/ Download \/ Extract \/ Build \/ Switch \/ Health \/ InstallEnd
    \/ Publish \/ Tick \/ PowerCut

Spec == Init /\ [][Next]_vars

-----------------------------------------------------------------------------
(* Properties *)

\* The variables keep their types; a unit holds a staged tree only between
\* extraction and switch.
TypeOK ==
    /\ now \in 1..MaxTime /\ last \in 0..MaxTime
    /\ server \in Manifest /\ active \in Releases /\ previous \in Releases
    /\ content \in [Versions -> Releases] /\ bad \subseteq Versions
    /\ doc \in [installed: Releases, latest: Releases]
    /\ chk.step \in {"idle", "fetch", "decide", "write"}
    /\ ins.staged > 0 => ins.step \in {"build", "switch"}
    /\ excused \in BOOLEAN

\* A release directory holds the files of the release it is named for, although
\* the server may publish a new bundle between the manifest and the download.
ReleaseMatchesName == \A v \in Versions : content[v] \in {0, v}

\* The serving release only changes to a newer one that the image can run and
\* that has not failed here before (unless forced), or back to the one before.
UpgradesOnly ==
    [][active' # active =>
         \/ /\ is_newer(active', active)
            /\ Image = 0 \/ ~is_newer(ins.manifest.image, Image)
            /\ ins.force \/ active' \notin bad
         \/ ins.step = "health" /\ active' = previous]_vars

\* The document names another release than the serving one only when a unit is
\* still running, was cut or failed to write it, or the two units overlapped.
StaleNeedsFault ==
    (chk.step = "idle" /\ ins.step = "idle" /\ ~excused) =>
        read_update_state.installed = active

\* On a factory device the image application version is the installed version: a
\* check that resolves its versions there, no install running, shows that application.
FactoryShowsImage ==
    [][chk.step = "idle" /\ chk'.step = "fetch" /\ ins.step = "idle" /\ active = 0
         => chk'.shown = 0]_vars

\* The scheduled check enforces its interval: one that cannot be due downloads nothing.
NotDueIsQuiet ==
    [][chk.step = "fetch" /\ chk'.step = "decide" /\ ~chk.force =>
         \E i \in _jittered_interval : ~NotDue(i)]_vars
=============================================================================
