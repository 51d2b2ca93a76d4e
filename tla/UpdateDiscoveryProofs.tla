----------------------- MODULE UpdateDiscoveryProofs ------------------------
(***************************************************************************)
(* Proofs about what changes the software on the card: what the install    *)
(* unit lets into the release tree, for any releases, image version and    *)
(* clock and any number of publications, check units, install units and    *)
(* power cuts (UpdateDiscovery); the migrations and the certificate a boot *)
(* leaves, for any migrations, cuts and failures (BootRestore, through     *)
(* ApplianceBoot).                                                         *)
(***************************************************************************)
EXTENDS UpdateDiscovery, ApplianceBoot, TLAPS

USE DiscoveryAssumption

ChkSteps == {"idle", "fetch", "decide", "write"}
InsSteps == {"idle", "manifest", "download", "extract", "build", "switch", "health", "write"}
Check == [step: ChkSteps, force: BOOLEAN, shown: Releases, flaw: ManifestFlaws,
          manifest: Manifest, latest: Releases]
Install == [step: InsSteps, force: BOOLEAN, shown: Releases, flaw: BundleFlaws,
            manifest: Manifest, latest: Releases, bundle: Releases, staged: Releases,
            result: Releases]

\* What the proofs need of the types.
Typed ==
    /\ server \in Manifest /\ active \in Releases /\ previous \in Releases
    /\ content \in [Versions -> Releases]
    /\ doc \in [installed: Releases, latest: Releases]
    /\ chk \in Check /\ ins \in Install
    /\ excused \in BOOLEAN

\* A staged tree exists between extraction and switch, and is the manifest's release.
StagedIsAdmitted ==
    ins.staged # 0 => ins.step \in {"build", "switch"} /\ ins.staged = ins.manifest.version

\* Until the switch, the unit compares with the release that serves, and past the manifest
\* the refusals of _install_update would still let it through.
Admitted ==
    /\ ins.step \in {"manifest", "download", "extract", "build", "switch"} =>
         (active > 0 => ins.shown = active)
    /\ ins.step \in {"download", "extract", "build", "switch"} =>
         Admit(ins.manifest, ins.force, ins.shown)

IInv == Typed /\ ReleaseMatchesName /\ StagedIsAdmitted /\ Admitted

-----------------------------------------------------------------------------
\* Both units start from an idle record.
LEMMA IdleTyped == ChkIdle \in Check /\ InsIdle \in Install
<1>1. [version |-> 1, image |-> 0] \in Manifest
  BY DEF Manifest, Versions, Releases
<1>2. 0 \in Releases
  BY DEF Releases
<1> QED
  BY <1>1, <1>2 DEF ChkIdle, InsIdle, Check, Install, ChkSteps, InsSteps, ManifestFlaws, BundleFlaws

\* A version is a release, and the manifest of a unit names one.
LEMMA VersionTyped ==
  ASSUME NEW m \in Manifest
  PROVE  m.version \in Versions /\ m.version \in Releases /\ m.version # 0 /\ m.image \in Releases
BY DEF Manifest, Versions, Releases

\* What a unit shows is a release.
LEMMA ResolveTyped == Typed => _resolve_versions \in Releases /\ (active > 0 => _resolve_versions = active)
BY DEF Typed, _resolve_versions, application_version, active_release_metadata,
       installed_release_version, Releases

\* Leave only writes results, and drops what is staged.
LEMMA LeaveLeaves ==
  ASSUME Typed, NEW r \in Releases, NEW l \in Releases, Leave(r, l)
  PROVE  ins' \in Install /\ ins'.step = "write" /\ ins'.staged = 0 /\ ins'.result = r
         /\ ins'.shown = ins.shown
<1>1. 0 \in Releases
  BY DEF Releases
<1>2. "write" \in InsSteps
  BY DEF InsSteps
<1> QED
  BY <1>1, <1>2 DEF Typed, Leave, Install

\* The document is replaced whole, or the failure is remembered.
LEMMA WriteTyped ==
  ASSUME Typed, NEW i \in Releases, NEW l \in Releases, _write_state(i, l)
  PROVE  doc' \in [installed: Releases, latest: Releases] /\ excused' \in BOOLEAN
         /\ (~excused' => ~excused /\ doc'.installed = i)
<1>1. CASE doc' = [installed |-> i, latest |-> l] /\ excused' = excused
  BY <1>1 DEF Typed
<1>2. CASE doc' = doc /\ excused' = TRUE
  BY <1>2 DEF Typed
<1> QED
  BY <1>1, <1>2 DEF _write_state, _install_state_document

\* Pruning keeps the name of what it leaves.
LEMMA PruneKeeps ==
  ASSUME Typed, ReleaseMatchesName, NEW S,
         content' = [v \in Versions |-> IF v \in S THEN content[v] ELSE 0]
  PROVE  content' \in [Versions -> Releases] /\ ReleaseMatchesName'
BY DEF Typed, ReleaseMatchesName, Releases

\* A device starts on the factory application or on its first release.
LEMMA IInvInit == Init => IInv
<1> SUFFICES ASSUME Init PROVE IInv
  OBVIOUS
<1>1. active \in Releases /\ previous \in Releases /\ 0 \in Releases
  BY DEF Init, Releases
<1>2. content \in [Versions -> Releases] /\ ReleaseMatchesName
  BY DEF Init, ReleaseMatchesName, Versions, Releases
<1>3. Typed
  BY <1>1, <1>2, IdleTyped DEF Init, Typed
<1> QED
  BY <1>2, <1>3 DEF Init, IInv, StagedIsAdmitted, Admitted, InsIdle

-----------------------------------------------------------------------------
\* The steps of both units, of the server and of the clock.
LEMMA IInvStep == IInv /\ [Next]_vars => IInv'
<1> SUFFICES ASSUME IInv, [Next]_vars PROVE IInv'
  OBVIOUS
<1>a. Typed /\ ReleaseMatchesName /\ StagedIsAdmitted /\ Admitted
  BY DEF IInv
<1>b. 0 \in Releases
  BY DEF Releases
<1>c. ins.manifest \in Manifest /\ ins.step \in InsSteps
  BY <1>a DEF Typed, Install
<1>1. ASSUME NEW force \in BOOLEAN, CheckBegin(force) PROVE IInv'
  <2>1. UNCHANGED <<server, active, previous, bad, doc>> /\ excused' \in BOOLEAN
    BY <1>1 DEF CheckBegin, Start
  <2>2. chk' \in Check
    BY <1>1, <1>a, IdleTyped, ResolveTyped DEF CheckBegin, Check, ChkSteps
  <2>3. /\ ins' \in Install /\ ins'.staged = 0 /\ ins'.step = ins.step /\ ins'.shown = ins.shown
        /\ ins'.manifest = ins.manifest /\ ins'.force = ins.force
    BY <1>1, <1>a, <1>b DEF CheckBegin, Typed, Install
  <2>4. content' \in [Versions -> Releases] /\ ReleaseMatchesName'
    BY <1>1, <1>a, PruneKeeps DEF CheckBegin, recover_interrupted
  <2> QED
    BY <1>a, <2>1, <2>2, <2>3, <2>4 DEF IInv, Typed, StagedIsAdmitted, Admitted, Admit,
       _is_bad_version, read_bad_versions
<1>2. ASSUME NEW force \in BOOLEAN, InstallBegin(force) PROVE IInv'
  <2>1. UNCHANGED <<server, active, previous, bad, doc, chk>> /\ excused' \in BOOLEAN
    BY <1>2 DEF InstallBegin, Start
  <2>2. /\ ins' \in Install /\ ins'.staged = 0 /\ ins'.step = "manifest"
        /\ active > 0 => ins'.shown = active
    BY <1>2, <1>a, IdleTyped, ResolveTyped DEF InstallBegin, Install, InsSteps, InsIdle
  <2>3. content' \in [Versions -> Releases] /\ ReleaseMatchesName'
    BY <1>2, <1>a, PruneKeeps DEF InstallBegin, recover_interrupted
  <2> QED
    BY <1>a, <2>1, <2>2, <2>3 DEF IInv, Typed, StagedIsAdmitted, Admitted
\* What a step that leaves the install unit, the tree and the markers alone keeps.
<1>3. ASSUME UNCHANGED <<active, previous, content, bad, ins>>, server' \in Manifest,
             doc' \in [installed: Releases, latest: Releases], chk' \in Check, excused' \in BOOLEAN
      PROVE  IInv'
  BY <1>3, <1>a DEF IInv, Typed, ReleaseMatchesName, StagedIsAdmitted, Admitted, Admit,
     _is_bad_version, read_bad_versions
<1>4. CASE CheckFetch
  <2>1. chk' \in Check
    BY <1>4, <1>a DEF CheckFetch, Typed, Check, ChkSteps
  <2> QED
    BY <1>4, <1>3, <1>a, <2>1 DEF CheckFetch, Typed
<1>5. CASE _check_for_update
  <2>1. CheckVerdict \in Releases
    BY <1>a, <1>b, VersionTyped DEF CheckVerdict, Typed, Check
  <2>2. chk' \in Check
    BY <1>5, <1>a, <2>1 DEF _check_for_update, Typed, Check, ChkSteps
  <2> QED
    BY <1>5, <1>3, <1>a, <2>2 DEF _check_for_update, Typed
<1>6. CASE CheckEnd
  <2>1. doc' \in [installed: Releases, latest: Releases] /\ excused' \in BOOLEAN
    BY <1>6, <1>a, WriteTyped DEF CheckEnd, Typed, Check
  <2> QED
    BY <1>6, <1>3, <1>a, <2>1, IdleTyped DEF CheckEnd, Typed
\* What a step that ends the install's work without touching the tree keeps.
<1>7. ASSUME NEW r \in Releases, NEW l \in Releases, Leave(r, l),
             UNCHANGED <<server, active, previous, content, bad, doc, chk, excused>>
      PROVE  IInv'
  <2>1. ins' \in Install /\ ins'.step = "write" /\ ins'.staged = 0
    BY <1>7, <1>a, LeaveLeaves
  <2> QED
    BY <1>7, <1>a, <2>1 DEF IInv, Typed, ReleaseMatchesName, StagedIsAdmitted, Admitted
<1>8. CASE InstallManifest
  <2>1. UNCHANGED <<server, active, previous, content, bad, doc, chk, excused>>
    BY <1>8 DEF InstallManifest
  <2>2. CASE Leave(0, 0) \/ Leave(active, server.version)
    BY <1>7, <1>a, <1>b, <2>1, <2>2, VersionTyped DEF Typed
  <2>3. CASE /\ Admit(server, ins.force, ins.shown) /\ ins.step = "manifest"
             /\ ins' = [ins EXCEPT !.step = "download", !.manifest = server]
    <3>1. /\ ins' \in Install /\ ins'.staged = ins.staged /\ ins'.step = "download"
          /\ ins'.shown = ins.shown /\ ins'.manifest = server /\ ins'.force = ins.force
      BY <1>a, <2>3 DEF Typed, Install, InsSteps
    <3> QED
      BY <1>a, <2>1, <2>3, <3>1 DEF IInv, Typed, ReleaseMatchesName, StagedIsAdmitted, Admitted,
         Admit, _is_bad_version, read_bad_versions
  <2> QED
    BY <1>8, <2>2, <2>3 DEF InstallManifest
\* What a step on the way to the switch keeps.
<1>9. ASSUME NEW s \in {"extract", "build", "switch"}, ins' \in Install, ins'.step = s,
             ins.step \in {"download", "extract", "build"},
             ins'.shown = ins.shown /\ ins'.manifest = ins.manifest /\ ins'.force = ins.force,
             ins'.staged # 0 => s # "extract" /\ ins'.staged = ins.manifest.version,
             UNCHANGED <<server, active, previous, content, bad, doc, chk, excused>>
      PROVE  IInv'
  BY <1>9, <1>a DEF IInv, Typed, ReleaseMatchesName, StagedIsAdmitted, Admitted, Admit,
     _is_bad_version, read_bad_versions
<1>10. CASE Download
  <2>1. UNCHANGED <<server, active, previous, content, bad, doc, chk, excused>> /\ ins.step = "download"
    BY <1>10 DEF Download
  <2>2. CASE Leave(active, ins.manifest.version)
    BY <1>7, <1>a, <1>c, <2>1, <2>2, VersionTyped DEF Typed
  <2>3. ASSUME NEW f \in BundleFlaws,
               ins' = [ins EXCEPT !.step = "extract", !.flaw = f, !.bundle = server.version]
        PROVE  IInv'
    <3>1. server.version \in Releases
      BY <1>a, VersionTyped DEF Typed
    <3>2. /\ ins' \in Install /\ ins'.step = "extract" /\ ins'.staged = ins.staged
          /\ ins'.shown = ins.shown /\ ins'.manifest = ins.manifest /\ ins'.force = ins.force
      BY <1>a, <2>3, <3>1 DEF Typed, Install, InsSteps
    <3> QED
      BY <1>9, <1>a, <2>1, <3>2 DEF StagedIsAdmitted
  <2> QED
    BY <1>10, <2>2, <2>3 DEF Download
<1>11. CASE Extract
  <2>1. UNCHANGED <<server, active, previous, content, bad, doc, chk, excused>> /\ ins.step = "extract"
    BY <1>11 DEF Extract
  <2>2. CASE Leave(active, ins.manifest.version)
    BY <1>7, <1>a, <1>c, <2>1, <2>2, VersionTyped DEF Typed
  <2>3. CASE /\ extract_bundle(ins.bundle, ins.manifest, ins.flaw)
             /\ ins' = [ins EXCEPT !.step = "build", !.staged = ins.bundle, !.bundle = 0]
    <3>1. /\ ins' \in Install /\ ins'.step = "build" /\ ins'.staged = ins.bundle
          /\ ins'.shown = ins.shown /\ ins'.manifest = ins.manifest /\ ins'.force = ins.force
      BY <1>a, <1>b, <2>3 DEF Typed, Install, InsSteps
    <3>2. ins.bundle = ins.manifest.version
      BY <2>3 DEF extract_bundle
    <3> QED
      BY <1>9, <2>1, <3>1, <3>2
  <2> QED
    BY <1>11, <2>2, <2>3 DEF Extract
<1>12. CASE Build
  <2>1. UNCHANGED <<server, active, previous, content, bad, doc, chk, excused>> /\ ins.step = "build"
    BY <1>12 DEF Build
  <2>2. CASE Leave(active, ins.manifest.version)
    BY <1>7, <1>a, <1>c, <2>1, <2>2, VersionTyped DEF Typed
  <2>3. CASE ins' = [ins EXCEPT !.step = "switch"]
    <3>1. /\ ins' \in Install /\ ins'.step = "switch" /\ ins'.staged = ins.staged
          /\ ins'.shown = ins.shown /\ ins'.manifest = ins.manifest /\ ins'.force = ins.force
      BY <1>a, <2>3 DEF Typed, Install, InsSteps
    <3> QED
      BY <1>9, <1>a, <2>1, <3>1 DEF StagedIsAdmitted
  <2> QED
    BY <1>12, <2>2, <2>3 DEF Build
<1>13. CASE Switch
  <2>1. UNCHANGED <<server, bad, doc, chk, excused>> /\ ins.step = "switch"
    BY <1>13 DEF Switch
  <2>2. CASE Leave(active, ins.manifest.version) /\ UNCHANGED <<active, previous, content>>
    BY <1>7, <1>a, <1>c, <2>1, <2>2, VersionTyped DEF Typed
  <2>3. CASE /\ ins.staged > 0
             /\ content' = [content EXCEPT ![ins.manifest.version] = ins.staged]
             /\ previous' = active /\ active' = ins.manifest.version
             /\ ins' = [ins EXCEPT !.step = "health", !.staged = 0]
    <3>1. ins.staged = ins.manifest.version /\ ins.manifest.version \in Versions
          /\ ins.manifest.version \in Releases
      BY <1>a, <1>c, <2>3, VersionTyped DEF StagedIsAdmitted
    <3>2. content' \in [Versions -> Releases] /\ ReleaseMatchesName'
      BY <1>a, <2>3, <3>1 DEF Typed, ReleaseMatchesName
    <3>3. ins' \in Install /\ ins'.step = "health" /\ ins'.staged = 0
      BY <1>a, <1>b, <2>3 DEF Typed, Install, InsSteps
    <3> QED
      BY <1>a, <2>1, <2>3, <3>1, <3>2, <3>3 DEF IInv, Typed, StagedIsAdmitted, Admitted
  <2> QED
    BY <1>13, <2>2, <2>3 DEF Switch
<1>14. CASE Health
  <2>1. UNCHANGED <<server, previous, doc, chk, excused>>
    BY <1>14 DEF Health
  <2>2. ins.manifest.version \in Releases
    BY <1>c, VersionTyped
  <2>3. active' \in Releases /\ ins' \in Install /\ ins'.step = "write" /\ ins'.staged = 0
    BY <1>14, <1>a, <2>2, LeaveLeaves DEF Health, Typed
  <2>4. content' \in [Versions -> Releases] /\ ReleaseMatchesName'
    <3>1. CASE UNCHANGED content
      BY <1>a, <3>1 DEF Typed, ReleaseMatchesName
    <3>2. CASE content' = [w \in Versions |-> IF w \in {ins.manifest.version, previous}
                                              THEN content[w] ELSE 0]
      BY <1>a, <3>2, PruneKeeps
    <3> QED
      BY <1>14, <3>1, <3>2 DEF Health
  <2> QED
    BY <1>a, <2>1, <2>3, <2>4 DEF IInv, Typed, StagedIsAdmitted, Admitted
<1>15. CASE InstallEnd
  <2>1. doc' \in [installed: Releases, latest: Releases] /\ excused' \in BOOLEAN
    BY <1>15, <1>a, WriteTyped DEF InstallEnd, Typed, Install
  <2>2. ins' \in Install /\ ins'.step = "idle" /\ ins'.staged = 0
    BY <1>15, IdleTyped DEF InstallEnd, InsIdle
  <2>3. UNCHANGED <<server, active, previous, content, bad, chk>>
    BY <1>15 DEF InstallEnd
  <2> QED
    BY <1>a, <2>1, <2>2, <2>3 DEF IInv, Typed, ReleaseMatchesName, StagedIsAdmitted, Admitted
<1>16. CASE Publish \/ Tick
  BY <1>16, <1>3, <1>a DEF Publish, Tick, Typed
<1>17. CASE PowerCut
  <2>1. ins' \in Install /\ ins'.step = "idle" /\ ins'.staged = 0 /\ chk' \in Check
    BY <1>17, IdleTyped DEF PowerCut, InsIdle
  <2>2. UNCHANGED <<server, active, previous, content, bad, doc>> /\ excused' = TRUE
    BY <1>17 DEF PowerCut
  <2> QED
    BY <1>a, <2>1, <2>2 DEF IInv, Typed, ReleaseMatchesName, StagedIsAdmitted, Admitted
<1>18. CASE UNCHANGED vars
  BY <1>18, <1>3, <1>a DEF vars, Typed
<1> QED
  BY <1>1, <1>2, <1>4, <1>5, <1>6, <1>8, <1>10, <1>11, <1>12, <1>13, <1>14, <1>15, <1>16, <1>17,
     <1>18 DEF Next

\* A release directory only ever holds the files of the release it is named for: the digest of
\* the bundle is compared with the manifest that was admitted (extract_bundle in updater.py),
\* whatever the server publishes between the two downloads.
THEOREM ReleasesMatchNames == Spec => []ReleaseMatchesName
<1>1. IInv => ReleaseMatchesName
  BY DEF IInv
<1> QED
  BY <1>1, IInvInit, IInvStep, PTL DEF Spec

-----------------------------------------------------------------------------
\* What the switch makes current is newer than what served, fits the image and has no marker.
LEMMA SwitchUpgrades ==
  ASSUME IInv, ins.step = "switch", active' = ins.manifest.version
  PROVE  /\ is_newer(active', active)
         /\ Image = 0 \/ ~is_newer(ins.manifest.image, Image)
         /\ ins.force \/ active' \notin bad
<1>1. Admit(ins.manifest, ins.force, ins.shown) /\ (active > 0 => ins.shown = active)
  BY DEF IInv, Admitted
<1>2. /\ ins.manifest.version \in Nat /\ ins.manifest.version > 0 /\ ins.manifest.image \in Nat
      /\ active \in Nat /\ ins.shown \in Nat /\ Image \in Nat
  <2>1. ins.manifest \in Manifest /\ active \in Releases /\ ins.shown \in Releases
    BY DEF IInv, Typed, Install
  <2>2. ins.manifest.version \in Versions /\ ins.manifest.image \in Releases
    BY <2>1, VersionTyped
  <2> QED
    BY <2>1, <2>2 DEF Releases, Versions
<1>3. ins.force \/ active' \notin bad
  BY <1>1 DEF Admit, _is_bad_version, read_bad_versions
<1>4. /\ ~(Image > 0 /\ ins.manifest.image > Image)
      /\ ins.shown > 0 => ~(ins.shown > ins.manifest.version) /\ ins.shown # ins.manifest.version
  BY <1>1 DEF Admit, classify_manifest, default_image_version, is_newer
<1> QED
  BY <1>1, <1>2, <1>3, <1>4 DEF is_newer

\* Only the switch and the rollback move `current`.
LEMMA MovesUpgrade ==
  ASSUME IInv, [Next]_vars, active' # active
  PROVE  \/ /\ is_newer(active', active)
            /\ Image = 0 \/ ~is_newer(ins.manifest.image, Image)
            /\ ins.force \/ active' \notin bad
         \/ ins.step = "health" /\ active' = previous
<1>1. CASE Switch
  <2>1. ins.step = "switch" /\ active' = ins.manifest.version
    BY <1>1 DEF Switch
  <2> QED
    BY <2>1, SwitchUpgrades
<1>2. CASE Health
  BY <1>2 DEF Health
<1> QED
  BY <1>1, <1>2 DEF Next, vars, CheckBegin, InstallBegin, CheckFetch, _check_for_update, CheckEnd,
     InstallManifest, Download, Extract, Build, InstallEnd, Publish, Tick, PowerCut

\* The serving release only changes to a newer one that the image can run and that has no .bad
\* marker (unless forced), or back: what _install_update admitted still holds when it switches,
\* although the check unit, the server and the clock go on in between.
THEOREM SwitchesUpgrade == Spec => UpgradesOnly
<1>1. IInv /\ [Next]_vars =>
        [active' # active =>
           \/ /\ is_newer(active', active)
              /\ Image = 0 \/ ~is_newer(ins.manifest.image, Image)
              /\ ins.force \/ active' \notin bad
           \/ ins.step = "health" /\ active' = previous]_vars
  BY MovesUpgrade
<1> QED
  BY <1>1, IInvInit, IInvStep, PTL DEF Spec, UpgradesOnly

-----------------------------------------------------------------------------
\* What the install unit will write as installed.
Outcome == IF ins.result > 0 THEN ins.result ELSE ins.shown

\* While nothing has gone wrong, one unit runs at a time and knows the serving release, or
\* what was serving before it switched.
UnitsKnow ==
    /\ chk.step = "idle" \/ ins.step = "idle"
    /\ chk.step # "idle" => chk.shown = active
    /\ chk.step = "idle" /\ ins.step = "idle" => doc.installed = active
    /\ ins.step \in {"manifest", "download", "extract", "build", "switch"} => ins.shown = active
    /\ ins.step = "health" => ins.shown = previous /\ active = ins.manifest.version
    /\ ins.step = "write" => Outcome = active

DocInv == IInv /\ (~excused => UnitsKnow)

\* Every write of the document names the serving release, unless something went wrong.
LEMMA DocStep == DocInv /\ [Next]_vars => DocInv'
<1> SUFFICES ASSUME DocInv, [Next]_vars, ~excused' PROVE UnitsKnow'
  BY IInvStep DEF DocInv
<1>a. Typed
  BY DEF DocInv, IInv
<1>b. active \in Nat /\ previous \in Nat /\ ins.manifest.version \in Nat /\ ins.manifest.version > 0
  <2>1. ins.manifest \in Manifest
    BY <1>a DEF Typed, Install
  <2>2. ins.manifest.version \in Versions
    BY <2>1, VersionTyped
  <2> QED
    <3>1. \A r \in Releases : r \in Nat
      BY DEF Releases
    <3>2. \A v \in Versions : v \in Nat /\ v > 0
      BY DEF Versions
    <3> QED
      BY <1>a, <2>2, <3>1, <3>2 DEF Typed
<1>1. ASSUME NEW force \in BOOLEAN, CheckBegin(force) PROVE UnitsKnow'
  <2>1. ~excused /\ ins.step = "idle" /\ chk.step = "idle" /\ UNCHANGED active
    BY <1>1 DEF CheckBegin, Start
  <2>2. _resolve_versions = active
    BY <2>1 DEF DocInv, UnitsKnow, _resolve_versions, application_version, active_release_metadata,
       installed_release_version
  <2>3. ins'.step = "idle"
    BY <1>1, <1>a, <2>1 DEF CheckBegin, Typed, Install
  <2>4. chk'.step = "fetch" /\ chk'.shown = active
    BY <1>1, <2>2 DEF CheckBegin, ChkIdle
  <2> QED
    BY <2>1, <2>3, <2>4 DEF UnitsKnow
<1>2. ASSUME NEW force \in BOOLEAN, InstallBegin(force) PROVE UnitsKnow'
  <2>1. ~excused /\ ins.step = "idle" /\ chk.step = "idle" /\ UNCHANGED <<active, chk>>
    BY <1>2 DEF InstallBegin, Start
  <2>2. _resolve_versions = active
    BY <2>1 DEF DocInv, UnitsKnow, _resolve_versions, application_version, active_release_metadata,
       installed_release_version
  <2>3. ins'.step = "manifest" /\ ins'.shown = active
    BY <1>2, <2>2 DEF InstallBegin, InsIdle
  <2> QED
    BY <2>1, <2>3 DEF UnitsKnow
<1>3. CASE CheckFetch \/ _check_for_update
  <2>1. ~excused /\ chk.step # "idle" /\ UNCHANGED <<active, previous, doc, ins>>
    <3>1. CASE CheckFetch
      BY <1>a, <3>1 DEF CheckFetch, Typed, Check
    <3>2. CASE _check_for_update
      BY <1>a, <3>2 DEF _check_for_update, Typed, Check
    <3> QED
      BY <1>3, <3>1, <3>2
  <2>2. chk'.step # "idle" /\ chk'.shown = chk.shown
    <3>1. CASE CheckFetch
      BY <1>a, <3>1 DEF CheckFetch, Typed, Check
    <3>2. CASE _check_for_update
      BY <1>a, <3>2 DEF _check_for_update, Typed, Check
    <3> QED
      BY <1>3, <3>1, <3>2
  <2> QED
    BY <2>1, <2>2 DEF DocInv, UnitsKnow, Outcome
<1>4. CASE CheckEnd
  <2>1. ~excused /\ doc'.installed = chk.shown
    BY <1>4, <1>a, WriteTyped DEF CheckEnd, Typed, Check
  <2>2. chk.step # "idle" /\ chk'.step = "idle" /\ UNCHANGED <<active, previous, ins>>
    BY <1>4 DEF CheckEnd, ChkIdle
  <2> QED
    BY <2>1, <2>2 DEF DocInv, UnitsKnow, Outcome
\* An install that has not switched leaves with what it found, or with nothing to report.
<1>5. ASSUME NEW r \in {0, active}, NEW l \in Releases, Leave(r, l), ~excused,
             ins.step \in {"manifest", "download", "extract", "build", "switch"},
             UNCHANGED <<active, chk>>
      PROVE  UnitsKnow'
  <2>1. ins'.step = "write" /\ ins'.result = r /\ ins'.shown = ins.shown
    BY <1>5, <1>a, LeaveLeaves DEF Typed, Releases
  <2> QED
    BY <1>5, <1>b, <2>1, SMTT(20) DEF DocInv, UnitsKnow, Outcome
\* One that goes on keeps what it found.
<1>6. ASSUME ~excused, UNCHANGED <<active, chk>>, ins'.shown = ins.shown,
             ins.step \in {"manifest", "download", "extract", "build"},
             ins'.step \in {"download", "extract", "build", "switch"}
      PROVE  UnitsKnow'
  BY <1>6 DEF DocInv, UnitsKnow
<1>7. CASE InstallManifest \/ Download \/ Extract \/ Build
  <2>1. /\ ~excused /\ UNCHANGED <<active, chk>>
        /\ ins.step \in {"manifest", "download", "extract", "build"}
    <3>1. CASE InstallManifest
      BY <1>a, <3>1 DEF InstallManifest, Typed, Install
    <3>2. CASE Download
      BY <1>a, <3>2 DEF Download, Typed, Install
    <3>3. CASE Extract
      BY <1>a, <3>3 DEF Extract, Typed, Install
    <3>4. CASE Build
      BY <1>a, <3>4 DEF Build, Typed, Install
    <3> QED
      BY <1>7, <3>1, <3>2, <3>3, <3>4
  <2>2. server.version \in Releases /\ ins.manifest.version \in Releases /\ 0 \in Releases
    BY <1>a, VersionTyped DEF Typed, Install, Releases
  <2>3. \/ Leave(0, 0) \/ Leave(active, server.version) \/ Leave(active, ins.manifest.version)
        \/ /\ ins'.step \in {"download", "extract", "build", "switch"}
           /\ ins'.shown = ins.shown
    <3>1. CASE InstallManifest
      BY <1>a, <3>1 DEF InstallManifest, Typed, Install
    <3>2. CASE Download
      BY <1>a, <3>2 DEF Download, Typed, Install
    <3>3. CASE Extract
      BY <1>a, <3>3 DEF Extract, Typed, Install
    <3>4. CASE Build
      BY <1>a, <3>4 DEF Build, Typed, Install
    <3> QED
      BY <1>7, <3>1, <3>2, <3>3, <3>4
  <2> QED
    BY <1>5, <1>6, <2>1, <2>2, <2>3
<1>8. CASE Switch
  <2>1. ~excused /\ ins.step = "switch" /\ UNCHANGED chk
    BY <1>8 DEF Switch
  <2>2. CASE Leave(active, ins.manifest.version) /\ UNCHANGED active
    BY <1>5, <1>a, <2>1, <2>2, VersionTyped DEF Typed, Install
  <2>3. CASE /\ previous' = active /\ active' = ins.manifest.version
             /\ ins' = [ins EXCEPT !.step = "health", !.staged = 0]
    <3>1. ins'.step = "health" /\ ins'.shown = ins.shown /\ ins'.manifest = ins.manifest
      BY <1>a, <2>3 DEF Typed, Install
    <3> QED
      BY <2>1, <2>3, <3>1 DEF DocInv, UnitsKnow
  <2> QED
    BY <1>8, <2>2, <2>3 DEF Switch
<1>9. CASE Health
  <2>1. ~excused /\ ins.step = "health" /\ UNCHANGED <<chk, previous>>
    BY <1>9 DEF Health
  <2>2. ins.manifest.version \in Releases /\ previous \in Releases
    BY <1>a, VersionTyped DEF Typed, Install
  <2>3. CASE Leave(ins.manifest.version, ins.manifest.version) /\ UNCHANGED active
    <3>1. ins'.step = "write" /\ ins'.result = ins.manifest.version
      BY <1>a, <2>2, <2>3, LeaveLeaves
    <3> QED
      BY <1>b, <2>1, <2>3, <3>1 DEF DocInv, UnitsKnow, Outcome
  <2>4. CASE Leave(previous, ins.manifest.version) /\ active' = previous
    <3>1. ins'.step = "write" /\ ins'.result = previous /\ ins'.shown = ins.shown
      BY <1>a, <2>2, <2>4, LeaveLeaves
    <3> QED
      BY <1>b, <2>1, <2>4, <3>1 DEF DocInv, UnitsKnow, Outcome
  <2> QED
    BY <1>9, <2>3, <2>4 DEF Health
<1>10. CASE InstallEnd
  <2>1. ~excused /\ doc'.installed = Outcome
    BY <1>10, <1>a, WriteTyped DEF InstallEnd, Typed, Install, Outcome
  <2>2. ins.step = "write" /\ ins'.step = "idle" /\ UNCHANGED <<active, chk>>
    BY <1>10 DEF InstallEnd, InsIdle
  <2> QED
    BY <2>1, <2>2 DEF DocInv, UnitsKnow
<1>11. CASE Publish \/ Tick \/ UNCHANGED vars
  BY <1>11 DEF Publish, Tick, vars, DocInv, UnitsKnow, Outcome
<1>12. CASE PowerCut
  BY <1>12 DEF PowerCut
<1> QED
  BY <1>1, <1>2, <1>3, <1>4, <1>7, <1>8, <1>9, <1>10, <1>11, <1>12 DEF Next

\* The update-state document names the serving release whenever no unit runs, unless the units
\* have overlapped, were cut or could not write it: every way through run_install and the check
\* ends in a _write_state of what is then active, a rollback to the factory application included.
THEOREM DocumentIsCurrent == Spec => []StaleNeedsFault
<1>1. Init => DocInv
  <2> SUFFICES ASSUME Init PROVE UnitsKnow
    BY IInvInit DEF DocInv
  <2> QED
    BY DEF Init, UnitsKnow, ChkIdle, InsIdle
<1>2. DocInv => StaleNeedsFault
  <2> SUFFICES ASSUME DocInv, chk.step = "idle", ins.step = "idle", ~excused
               PROVE  read_update_state.installed = active
    BY DEF StaleNeedsFault
  <2>1. doc \in [installed: Releases, latest: Releases] /\ doc.installed = active
    BY DEF DocInv, UnitsKnow, IInv, Typed
  <2> QED
    BY <2>1 DEF read_update_state
<1> QED
  BY <1>1, <1>2, DocStep, PTL DEF Spec

-----------------------------------------------------------------------------
(* What runs at the boot of a release: its migrations and the console's key pair *)

HIDE DiscoveryAssumption

\* Counting up stays among the natural numbers.
LEMMA Succ == \A n \in Nat : n + 1 \in Nat
OBVIOUS

\* Before admin.env can be written, while the key pair is looked after, and after that.
EarlyBoot == {"off", "load", "migrate", "edit", "save", "layout"}
PairBoot == {"tls", "crt", "env"}
LateBoot == {"bind", "zone", "settings", "prune", "up"}

Names == Hosts \cup {""}
BootRecord == [mounted: BOOLEAN, host: Names, env: BOOLEAN, binds: SUBSET {"sdcard", "nm"},
               zone: {"image", "day", "night"}, tuned: {"image", "day", "night"}, named: Names,
               failed: BOOLEAN]

BootTyped ==
  /\ b_pc \in EarlyBoot \cup PairBoot \cup LateBoot
  /\ b_device \in Names
  /\ b_pair \in [key: Nat, crt: Nat, host: Names, made: Nat]
  /\ b_boot \in BootRecord
  /\ b_settings \in {"image", "day", "night", "corrupt"}

\* The name in force is the stored one until the console changes it, and the pair fits it
\* when admin.env is about to name it.
PairInv ==
  /\ b_pc \in EarlyBoot => ~b_boot.env /\ b_boot.named = ""
  /\ b_pc \in PairBoot => ~b_boot.env /\ b_boot.named \in {"", b_device}
  /\ b_pc = "env" => b_pair.key = b_pair.crt /\ b_pair.host = b_device
  /\ b_pc \in LateBoot =>
       /\ b_boot.env => b_pair.key = b_pair.crt /\ b_boot.named \in {"", b_pair.host}
       /\ b_boot.mounted /\ ~b_boot.failed => b_boot.env

BootInv == BootTyped /\ PairInv

\* The record of a boot that has set up nothing yet.
LEMMA NoBootTyped ==
  /\ Boot!NoBoot \in BootRecord
  /\ ~Boot!NoBoot.env /\ Boot!NoBoot.named = "" /\ ~Boot!NoBoot.mounted
BY DEF Boot!NoBoot, BootRecord, Names

\* A device that was never switched on has no pair and no name.
LEMMA BootInit == Boot!Init => BootInv
<1> SUFFICES ASSUME Boot!Init PROVE BootInv
  OBVIOUS
<1>1. b_pc = "off" /\ b_boot = Boot!NoBoot /\ b_device = "" /\ b_settings = "image"
  BY DEF Boot!Init
<1>2. b_pair \in [key: Nat, crt: Nat, host: Names, made: Nat]
  BY DEF Boot!Init, Names
<1>3. BootTyped
  BY <1>1, <1>2, NoBootTyped DEF BootTyped, EarlyBoot, Names
<1> QED
  BY <1>1, <1>3, NoBootTyped DEF BootInv, PairInv, EarlyBoot, PairBoot, LateBoot

\* Every step of the boot script, of the console and a power cut.
LEMMA BootStep == BootInv /\ (Boot!Next \/ UNCHANGED Boot!vars) => BootInv'
<1> SUFFICES ASSUME BootInv, Boot!Next \/ UNCHANGED Boot!vars PROVE BootInv'
  OBVIOUS
<1> USE DEF BootInv, PairInv, EarlyBoot, PairBoot, LateBoot
<1>1. CASE Boot!PowerOn
  BY <1>1, NoBootTyped DEF Boot!PowerOn, BootTyped, BootRecord
<1>2. CASE Boot!run_pending
  BY <1>2 DEF Boot!run_pending, BootTyped
<1>3. CASE Boot!Migrate \/ Boot!Edit
  BY <1>3 DEF Boot!Migrate, Boot!Edit, BootTyped
<1>4. CASE Boot!Seal \/ Boot!_save_state
  BY <1>4 DEF Boot!Seal, Boot!_save_state, BootTyped
<1>5. CASE Boot!_apply_hostname
  <2>1. b_pc = "layout" /\ b_pc' = "tls" /\ UNCHANGED <<b_device, b_pair, b_settings>>
    BY <1>5 DEF Boot!_apply_hostname
  <2>2. /\ b_boot' \in BootRecord /\ b_boot'.env = b_boot.env
        /\ b_boot'.named \in {b_boot.named, b_device}
    BY <1>5 DEF Boot!_apply_hostname, BootTyped, BootRecord
  <2> QED
    BY <2>1, <2>2 DEF BootTyped
<1>6. CASE Boot!_provision_admin_tls
  <2>1. b_pc = "tls" /\ UNCHANGED <<b_device, b_settings>>
    BY <1>6 DEF Boot!_provision_admin_tls
  <2>2. CASE b_pc' = "env" /\ Boot!_keypair_reusable /\ UNCHANGED <<b_pair, b_boot>>
    BY <2>1, <2>2 DEF Boot!_keypair_reusable, BootTyped
  <2>3. CASE /\ b_pc' = "crt" /\ UNCHANGED b_boot
             /\ b_pair' = [b_pair EXCEPT !.key = b_pair.made + 1, !.made = @ + 1]
    <3>1. b_pair' \in [key: Nat, crt: Nat, host: Names, made: Nat]
      <4>0. b_pair.made \in Nat
        BY DEF BootTyped
      <4>1. b_pair.made + 1 \in Nat
        BY <4>0, Succ, Zenon
      <4>2. b_pair' = [key |-> b_pair.made + 1, crt |-> b_pair.crt,
                       host |-> b_pair.host, made |-> b_pair.made + 1]
        BY <2>3, <4>1 DEF BootTyped
      <4> QED
        BY <4>1, <4>2 DEF BootTyped
    <3> QED
      BY <2>1, <2>3, <3>1 DEF BootTyped
  <2>4. CASE /\ b_pc' = "bind" /\ UNCHANGED b_pair
             /\ b_boot' = [b_boot EXCEPT !.failed = TRUE]
    <3>1. /\ b_boot' \in BootRecord /\ b_boot'.failed
          /\ b_boot'.env = b_boot.env /\ b_boot'.named = b_boot.named
      BY <2>4 DEF BootTyped, BootRecord
    <3> QED
      BY <2>1, <2>4, <3>1 DEF BootTyped
  <2> QED
    BY <1>6, <2>2, <2>3, <2>4 DEF Boot!_provision_admin_tls
<1>7. CASE Boot!ReplaceCertificate
  <2>1. b_pc = "crt" /\ b_pc' = "env" /\ UNCHANGED <<b_device, b_boot, b_settings>>
    BY <1>7 DEF Boot!ReplaceCertificate
  <2>2. /\ b_pair' \in [key: Nat, crt: Nat, host: Names, made: Nat]
        /\ b_pair'.key = b_pair'.crt /\ b_pair'.host = b_device
    BY <1>7 DEF Boot!ReplaceCertificate, BootTyped
  <2> QED
    BY <2>1, <2>2 DEF BootTyped
<1>8. CASE Boot!_write_admin_env
  BY <1>8 DEF Boot!_write_admin_env, BootTyped, BootRecord
<1>9. CASE Boot!_bind_mounts
  <2>1. b_pc = "bind" /\ b_pc' = "zone" /\ UNCHANGED <<b_device, b_pair, b_settings>>
    BY <1>9 DEF Boot!_bind_mounts
  <2>2. \E b \in SUBSET {"sdcard", "nm"} : b_boot' = [b_boot EXCEPT !.binds = b]
    BY <1>9 DEF Boot!_bind_mounts
  <2>3. /\ b_boot' \in BootRecord /\ b_boot'.env = b_boot.env /\ b_boot'.named = b_boot.named
        /\ b_boot'.mounted = b_boot.mounted /\ b_boot'.failed = b_boot.failed
    BY <2>2 DEF BootTyped, BootRecord
  <2> QED
    BY <2>1, <2>3 DEF BootTyped
<1>10. CASE Boot!_apply_timezone \/ Boot!_restore_settings
  <2>1. /\ b_pc \in {"zone", "settings"} /\ b_pc' \in {"settings", "prune"}
        /\ UNCHANGED <<b_device, b_pair>>
    BY <1>10 DEF Boot!_apply_timezone, Boot!_restore_settings
  <2>2. b_settings' \in {"image", "day", "night", "corrupt"}
    BY <1>10 DEF Boot!_apply_timezone, Boot!_restore_settings, Boot!Quarantine, Boot!Loaded, BootTyped
  <2>3. \/ UNCHANGED b_boot
        \/ b_boot' = [b_boot EXCEPT !.zone = Boot!Loaded]
        \/ b_boot' = [b_boot EXCEPT !.tuned = Boot!Loaded]
    BY <1>10 DEF Boot!_apply_timezone, Boot!_restore_settings
  <2>4. /\ b_boot' \in BootRecord /\ b_boot'.env = b_boot.env /\ b_boot'.named = b_boot.named
        /\ b_boot'.mounted = b_boot.mounted /\ b_boot'.failed = b_boot.failed
    <3>1. Boot!Loaded \in {"image", "day", "night"}
      BY DEF BootTyped, Boot!Loaded
    <3>2. CASE UNCHANGED b_boot
      BY <3>2 DEF BootTyped
    <3>3. CASE b_boot' = [b_boot EXCEPT !.zone = Boot!Loaded]
      BY <3>1, <3>3 DEF BootTyped, BootRecord
    <3>4. CASE b_boot' = [b_boot EXCEPT !.tuned = Boot!Loaded]
      BY <3>1, <3>4 DEF BootTyped, BootRecord
    <3> QED
      BY <2>3, <3>2, <3>3, <3>4
  <2> QED
    BY <2>1, <2>2, <2>4 DEF BootTyped
<1>11. CASE Boot!_prune_timelapse
  BY <1>11 DEF Boot!_prune_timelapse, BootTyped
<1>12. CASE Boot!Capture \/ Boot!Stay \/ UNCHANGED Boot!vars
  BY <1>12 DEF Boot!Capture, Boot!Stay, Boot!vars, Boot!vars, BootTyped
<1>13. CASE Boot!Configure
  <2>1. b_pc = "up" /\ UNCHANGED <<b_pc, b_pair>>
    BY <1>13 DEF Boot!Configure
  <2>2. b_device' \in Names /\ b_settings' \in {"image", "day", "night", "corrupt"}
    BY <1>13 DEF Boot!Configure, Boot!Images, BootTyped, Names
  <2>3. \/ UNCHANGED b_boot
        \/ \E h \in Hosts : b_boot' = [b_boot EXCEPT !.host = h]
    BY <1>13 DEF Boot!Configure
  <2>4. /\ b_boot' \in BootRecord /\ b_boot'.env = b_boot.env /\ b_boot'.named = b_boot.named
        /\ b_boot'.mounted = b_boot.mounted /\ b_boot'.failed = b_boot.failed
    BY <2>3 DEF BootTyped, BootRecord, Names
  <2> QED
    BY <2>1, <2>2, <2>4 DEF BootTyped
<1>14. CASE Boot!PowerCut
  BY <1>14, NoBootTyped DEF Boot!PowerCut, BootTyped
<1> QED
  BY <1>1, <1>2, <1>3, <1>4, <1>5, <1>6, <1>7, <1>8, <1>9, <1>10, <1>11, <1>12, <1>13, <1>14
     DEF Boot!Next, Boot!BootStep

\* A console with its admin.env serves a certificate that belongs to its key and covers the
\* name this boot put in force, and a boot without a failed command has one: wherever
\* ensure_certificate (admin_tls.py) was cut short, the next boot sees that the pair does not
\* fit and makes a new one before admin.env is written.
THEOREM PairIsWhole == Boot!Spec => []ServedPairIsWhole
<1>1. Boot!Init => BootInv
  BY BootInit
<1>2. BootInv /\ [Boot!Next]_(Boot!vars) => BootInv'
  BY BootStep
<1>3. BootInv => ServedPairIsWhole
  BY DEF BootInv, PairInv, LateBoot, ServedPairIsWhole, Boot!ServedPairIsWhole
<1> QED
  BY <1>1, <1>2, <1>3, PTL DEF Boot!Spec

\* What run_pending works on: the files of the read-only root and the migrations it goes
\* through.
MigTyped ==
  /\ b_rootFs \in [Boot!Files -> [whole: BOOLEAN, edits: SUBSET Shipped]]
  /\ b_run \in [left: SUBSET Shipped, applied: SUBSET Shipped]
  /\ b_recorded \subseteq Shipped

\* While run_pending works, what it has noted as applied and migrations.json does not name yet
\* is in its file.
MigInv ==
  /\ MigTyped
  /\ b_pc \in {"migrate", "edit", "save"} =>
       \A m \in b_run.applied : m \in b_recorded \/ Boot!Done(m)

\* The image a device is shipped with.
LEMMA MigInit == Boot!Init => MigInv
<1> SUFFICES ASSUME Boot!Init PROVE MigInv
  OBVIOUS
<1>1. b_pc = "off" /\ b_recorded = {}
  BY DEF Boot!Init
<1>2. b_rootFs \in [Boot!Files -> [whole: BOOLEAN, edits: SUBSET Shipped]]
  BY DEF Boot!Init
<1>3. b_run \in [left: SUBSET Shipped, applied: SUBSET Shipped]
  BY DEF Boot!Init, Boot!Idle
<1> QED
  BY <1>1, <1>2, <1>3 DEF MigInv, MigTyped

\* A migration noted as applied leaves the others where they were.
LEMMA AppliedKeeps ==
  ASSUME MigInv, NEW m \in Shipped, Boot!Applied(m)
  PROVE  /\ b_run' \in [left: SUBSET Shipped, applied: SUBSET Shipped]
         /\ b_run'.applied = b_run.applied \cup {m}
BY DEF MigInv, MigTyped, Boot!Applied

\* Every step of run_pending, and the steps that leave it alone.
LEMMA MigStep == MigInv /\ (Boot!Next \/ UNCHANGED Boot!vars) => MigInv'
<1> SUFFICES ASSUME MigInv, Boot!Next \/ UNCHANGED Boot!vars PROVE MigInv'
  OBVIOUS
<1>1. CASE UNCHANGED <<b_rootFs, b_run, b_recorded>> /\ b_pc' \notin {"migrate", "edit", "save"}
  BY <1>1 DEF MigInv, MigTyped
<1>2. CASE Boot!run_pending
  <2>1. UNCHANGED <<b_rootFs, b_recorded>>
    BY <1>2 DEF Boot!run_pending
  <2>2. CASE b_pc' = "layout" /\ UNCHANGED b_run
    BY <2>1, <2>2, <1>1
  <2>3. CASE b_run' = [left |-> Shipped \ b_recorded, applied |-> b_recorded]
    BY <2>1, <2>3 DEF MigInv, MigTyped
  <2> QED
    BY <1>2, <2>2, <2>3 DEF Boot!run_pending
<1>3. CASE Boot!Migrate
  <2>1. b_pc = "migrate" /\ b_pc' \in {"migrate", "edit"} /\ UNCHANGED <<b_rootFs, b_recorded>>
    BY <1>3 DEF Boot!Migrate
  <2>2. PICK m \in b_run.left :
          (Boot!Present(m) /\ Boot!Applied(m)) \/ UNCHANGED b_run \/ Boot!Skipped(m)
    BY <1>3 DEF Boot!Migrate
  <2>3. m \in Shipped
    BY <2>2 DEF MigInv, MigTyped
  <2>4. CASE Boot!Present(m) /\ Boot!Applied(m)
    BY <2>1, <2>3, <2>4, AppliedKeeps DEF Boot!Present, Boot!Done, MigInv, MigTyped
  <2>5. CASE UNCHANGED b_run
    BY <2>1, <2>5 DEF MigInv, MigTyped, Boot!Done
  <2>6. CASE Boot!Skipped(m)
    BY <2>1, <2>6 DEF MigInv, MigTyped, Boot!Skipped, Boot!Done
  <2> QED
    BY <2>2, <2>4, <2>5, <2>6
<1>4. CASE Boot!Edit
  <2>1. b_pc = "edit" /\ b_pc' = "migrate" /\ UNCHANGED b_recorded
    BY <1>4 DEF Boot!Edit
  <2>2. PICK m \in b_run.left :
          /\ Boot!Applied(m)
          /\ b_rootFs' = [b_rootFs EXCEPT ![Boot!Target[m]] =
                            [whole |-> TRUE, edits |-> @.edits \cup {m}]]
    BY <1>4 DEF Boot!Edit
  <2>3. m \in Shipped /\ Boot!Target[m] \in Boot!Files
    BY <2>2 DEF MigInv, MigTyped, Boot!Files
  <2>4. b_rootFs' \in [Boot!Files -> [whole: BOOLEAN, edits: SUBSET Shipped]]
    BY <2>2, <2>3 DEF MigInv, MigTyped
  <2>5. \A k \in Shipped : Boot!Done(k) \/ k = m => Boot!Done(k)'
    BY <2>2, <2>3 DEF MigInv, MigTyped, Boot!Files, Boot!Done
  <2> QED
    BY <2>1, <2>2, <2>3, <2>4, <2>5, AppliedKeeps DEF MigInv, MigTyped
<1>5. CASE Boot!Seal
  BY <1>5 DEF Boot!Seal, MigInv, MigTyped, Boot!Done
<1>6. CASE Boot!_save_state
  BY <1>6 DEF Boot!_save_state, Boot!Idle, MigInv, MigTyped
<1>7. CASE Boot!PowerCut
  <2>1. b_pc' = "off" /\ b_run' = Boot!Idle /\ b_recorded' \in {b_recorded, {}}
    BY <1>7 DEF Boot!PowerCut
  <2>2. b_rootFs' \in {b_rootFs} \cup
          (IF b_pc = "edit" /\ TornEdits
           THEN {[b_rootFs EXCEPT ![Boot!Target[m]] = [whole |-> FALSE, edits |-> {}]] :
                   m \in {k \in b_run.left : Boot!IsNext(k)}}
           ELSE {})
    BY <1>7, Zenon DEF Boot!PowerCut
  <2>3. \/ UNCHANGED b_rootFs
        \/ \E m \in b_run.left :
             b_rootFs' = [b_rootFs EXCEPT ![Boot!Target[m]] = [whole |-> FALSE, edits |-> {}]]
    BY <2>2, Zenon
  <2>4. b_rootFs' \in [Boot!Files -> [whole: BOOLEAN, edits: SUBSET Shipped]]
    <3>1. CASE UNCHANGED b_rootFs
      BY <3>1 DEF MigInv, MigTyped
    <3>2. ASSUME NEW f, b_rootFs' = [b_rootFs EXCEPT ![f] = [whole |-> FALSE, edits |-> {}]]
          PROVE  b_rootFs' \in [Boot!Files -> [whole: BOOLEAN, edits: SUBSET Shipped]]
      BY <3>2 DEF MigInv, MigTyped
    <3> QED
      BY <2>3, <3>1, <3>2
  <2> QED
    BY <2>1, <2>4 DEF MigInv, MigTyped, Boot!Idle
<1>8. CASE \/ Boot!PowerOn \/ Boot!_apply_hostname \/ Boot!_provision_admin_tls
           \/ Boot!ReplaceCertificate \/ Boot!_write_admin_env \/ Boot!_bind_mounts
           \/ Boot!_apply_timezone \/ Boot!_restore_settings \/ Boot!_prune_timelapse
  BY <1>1, <1>8 DEF Boot!PowerOn, Boot!_apply_hostname, Boot!_provision_admin_tls,
     Boot!ReplaceCertificate, Boot!_write_admin_env, Boot!_bind_mounts, Boot!_apply_timezone,
     Boot!_restore_settings, Boot!_prune_timelapse
<1>9. CASE Boot!Capture \/ Boot!Configure \/ Boot!Stay \/ UNCHANGED Boot!vars
  <2>1. UNCHANGED <<b_pc, b_rootFs, b_run, b_recorded>>
    BY <1>9 DEF Boot!Capture, Boot!Configure, Boot!Stay, Boot!vars, Boot!vars
  <2> QED
    BY <2>1 DEF MigInv, MigTyped, Boot!Done
<1> QED
  BY <1>2, <1>3, <1>4, <1>5, <1>6, <1>7, <1>8, <1>9 DEF Boot!Next, Boot!BootStep

\* run_pending (migrations.py) records a migration only while its edit is in its file, whatever
\* ran before, failed, or was cut short.
THEOREM MigrationsAreDone == Boot!Spec => RecordedWasDone
<1>1. Boot!Init => MigInv
  BY MigInit
<1>2. MigInv /\ [Boot!Next]_(Boot!vars) => MigInv'
  BY MigStep
<1>3. MigInv /\ [Boot!Next]_(Boot!vars) => [\A m \in b_recorded' \ b_recorded : Boot!Done(m)]_(Boot!vars)
  <2> SUFFICES ASSUME MigInv, Boot!Next
               PROVE  \A m \in b_recorded' \ b_recorded : Boot!Done(m)
    BY DEF Boot!vars
  <2>1. CASE Boot!_save_state
    BY <2>1 DEF Boot!_save_state, MigInv
  <2>2. CASE Boot!PowerCut
    BY <2>2 DEF Boot!PowerCut
  <2>3. CASE UNCHANGED b_recorded
    BY <2>3
  <2> QED
    BY <2>1, <2>2, <2>3 DEF Boot!Next, Boot!BootStep, Boot!PowerOn, Boot!run_pending, Boot!Migrate,
       Boot!Edit, Boot!Seal, Boot!_apply_hostname, Boot!_provision_admin_tls,
       Boot!ReplaceCertificate, Boot!_write_admin_env, Boot!_bind_mounts, Boot!_apply_timezone,
       Boot!_restore_settings, Boot!_prune_timelapse, Boot!Capture, Boot!Configure, Boot!Stay,
       Boot!vars
<1> QED
  BY <1>1, <1>2, <1>3, PTL DEF Boot!Spec, RecordedWasDone, Boot!RecordedWasDone
=============================================================================
