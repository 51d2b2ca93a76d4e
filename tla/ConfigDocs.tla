----------------------------- MODULE ConfigDocs ------------------------------
(***************************************************************************)
(* The two configuration documents, device.toml and secrets.toml, the       *)
(* console's handlers that rewrite them and the camera that loads them.     *)
(* A document maps sections to versions; a change gives its sections one    *)
(* new version. The console's handlers run on one worker, so at most one    *)
(* save is in progress; the camera loads at any moment. Every write goes    *)
(* through write_atomic: a fixed temporary name, created exclusively, then  *)
(* a rename. Writes fail and the power is cut anywhere.                     *)
(***************************************************************************)
EXTENDS Naturals, FiniteSets

CONSTANTS MaxChanges, MaxFaults, MaxCuts

VARIABLES
    docs,      \* the documents on the card
    temps,     \* the documents whose temporary file exists
    op,        \* the worker's save: kind, step, new documents, device backup
    draft,     \* what an open expert editor was given, or NoDraft
    camera,    \* the camera's loading step and what it has loaded; ghost `active`:
               \* the Prusa change the console last reported as active
    changes,   \* changes requested so far
    faults,    \* failed writes and power cuts so far
    acked,     \* ghost: the documents as the acknowledged requests made them
    excused    \* ghost: a cut or a failed rollback fell between two documents

vars == <<docs, temps, op, draft, camera, changes, faults, acked, excused>>

Device == {"mqtt", "prusa", "admin"}
Secrets == {"mqtt", "prusa", "wifi"}
Versions == 0 .. MaxChanges
\* A device document this release cannot read: written by a newer schema.
Broken == [s \in Device |-> MaxChanges + 1]
Defaults == [dev |-> [s \in Device |-> 0], sec |-> [s \in Secrets |-> 0]]
NoDraft == [open |-> FALSE, docs |-> Defaults]
Idle == [kind |-> "none", step |-> "idle", new |-> Defaults, old |-> Defaults.dev]

Init ==
    /\ docs = Defaults /\ acked = Defaults /\ temps = {} /\ op = Idle
    /\ draft = NoDraft /\ changes = 0 /\ faults = [writes |-> 0, cuts |-> 0]
    /\ camera = [step |-> "up", dev |-> Defaults.dev, sec |-> Defaults.sec,
                 active |-> 0]
    /\ excused = FALSE

Kinds == {"mqtt", "prusa", "hostname", "psk", "expert", "expert_device"}

TypeOK ==
    /\ docs.dev \in [Device -> 0 .. MaxChanges + 1]
    /\ docs.sec \in [Secrets -> Versions]
    /\ temps \subseteq {"dev", "sec"} /\ Cardinality(temps) <= 2
    /\ op.kind \in Kinds \cup {"none"}
    /\ op.step \in {"idle", "dev", "dev_rename", "sec", "sec_rename", "undo",
                    "undo_rename", "restart"}
    /\ camera.step \in {"up", "device", "secrets"}

Faulty == faults.writes < MaxFaults
Fault == faults' = [faults EXCEPT !.writes = @ + 1]

------------------------------------------------------------------------------
(* Requests. A handler reads both documents, changes its sections and saves  *)
(* the pair; a device document it cannot read stops it.                     *)

Readable(d) == d # Broken
Changed(doc, sections, v) == [s \in DOMAIN doc |-> IF s \in sections THEN v ELSE doc[s]]
Save(kind, dev, sec) ==
    /\ changes' = changes + 1
    /\ op' = [kind |-> kind, step |-> "dev", new |-> [dev |-> dev, sec |-> sec],
              old |-> docs.dev]
    /\ camera' = [camera EXCEPT !.active = IF dev["prusa"] = docs.dev["prusa"] THEN @
                                           ELSE 0]

\* The PUT handlers of the integrations, and the two callers that change one
\* document only but save both: the host name, and the key of a Wi-Fi change
\* the root unit has applied.
Put(kind, devSections, secSections) ==
    /\ op = Idle /\ changes < MaxChanges /\ Readable(docs.dev)
    /\ Save(kind, Changed(docs.dev, devSections, changes + 1),
                  Changed(docs.sec, secSections, changes + 1))
    /\ UNCHANGED <<docs, temps, draft, faults, acked, excused>>

_handle_integrations_mqtt_put == Put("mqtt", {"mqtt"}, {"mqtt"})
_handle_integrations_prusa_put == Put("prusa", {"prusa"}, {"prusa"})
set_hostname == Put("hostname", {"admin"}, {})
_finalize == Put("psk", {}, {"wifi"})

\* The expert editor is opened on the live documents (an unreadable one shows
\* the defaults), and later puts whole documents back, the secrets optionally.
current_config ==
    /\ op = Idle /\ ~draft.open
    /\ draft' = [open |-> TRUE,
                 docs |-> [docs EXCEPT !.dev = IF Readable(@) THEN @ ELSE Defaults.dev]]
    /\ UNCHANGED <<docs, temps, op, camera, changes, faults, acked, excused>>

apply_candidate ==
    /\ op = Idle /\ draft.open /\ changes < MaxChanges
    /\ \/ Save("expert", Changed(draft.docs.dev, Device, changes + 1),
                         Changed(draft.docs.sec, Secrets, changes + 1))
       \/ Save("expert_device", Changed(draft.docs.dev, {"mqtt"}, changes + 1), docs.sec)
    /\ draft' = NoDraft
    /\ UNCHANGED <<docs, temps, faults, acked, excused>>

------------------------------------------------------------------------------
(* save_pair and apply_candidate, write by write                            *)

Answer(ok) ==
    /\ acked' = IF ok THEN op.new ELSE acked
    /\ op' = IF ok /\ op.kind = "prusa" THEN [op EXCEPT !.step = "restart"] ELSE Idle

\* After a failed write of the secrets the device document is put back.
Rollback == op' = [op EXCEPT !.step = "undo"] /\ UNCHANGED acked

\* Mutant: the failure of the second write is only reported.
NoRollback == Answer(FALSE)

SecretsFailed == Rollback

Renaming == [dev |-> "dev_rename", sec |-> "sec_rename", undo |-> "undo_rename"]

\* write_atomic's first half: the exclusive create fails on a left-over file,
\* and every failure removes the temporary file.
Create(doc, step, Failed) ==
    /\ op.step = step
    /\ \/ /\ doc \notin temps /\ temps' = temps \cup {doc}
          /\ op' = [op EXCEPT !.step = Renaming[step]] /\ UNCHANGED <<faults, acked>>
       \/ doc \in temps /\ temps' = temps \ {doc} /\ Failed /\ UNCHANGED faults
       \/ Faulty /\ Fault /\ temps' = temps \ {doc} /\ Failed
    /\ UNCHANGED <<docs, draft, camera, changes>>

CreateDevice == Create("dev", "dev", Answer(FALSE)) /\ UNCHANGED excused
CreateSecrets == Create("sec", "sec", SecretsFailed) /\ UNCHANGED excused

\* Its second half: the new text is complete on the card and takes the name.
RenameDevice ==
    /\ op.step = "dev_rename" /\ temps' = temps \ {"dev"}
    /\ \/ /\ docs' = [docs EXCEPT !.dev = op.new.dev]
          /\ \/ op.kind = "expert_device" /\ Answer(TRUE)
             \/ /\ op.kind # "expert_device" /\ UNCHANGED acked
                /\ op' = [op EXCEPT !.step = "sec"]
          /\ UNCHANGED faults
       \/ Faulty /\ Fault /\ Answer(FALSE) /\ UNCHANGED docs
    /\ UNCHANGED <<draft, camera, changes, excused>>

RenameSecrets ==
    /\ op.step = "sec_rename" /\ temps' = temps \ {"sec"}
    /\ \/ docs' = [docs EXCEPT !.sec = op.new.sec] /\ Answer(TRUE) /\ UNCHANGED faults
       \/ Faulty /\ Fault /\ SecretsFailed /\ UNCHANGED docs
    /\ UNCHANGED <<draft, camera, changes, excused>>

\* _restore_text and _restore: best-effort, through write_atomic as well.
_restore_text ==
    \/ /\ Create("dev", "undo", Answer(FALSE))
       /\ excused' = (excused \/ op'.step = "idle")
    \/ /\ op.step = "undo_rename" /\ temps' = temps \ {"dev"} /\ Answer(FALSE)
       /\ \/ docs' = [docs EXCEPT !.dev = op.old] /\ UNCHANGED <<faults, excused>>
          \/ Faulty /\ Fault /\ excused' = TRUE /\ UNCHANGED docs
       /\ UNCHANGED <<draft, camera, changes>>

\* A changed token, server or fingerprint restarts the camera before the
\* handler answers; the answer says "active" only if the restart was done.
_restart_camera ==
    /\ op.step = "restart" /\ op' = Idle
    /\ \/ camera' = [camera EXCEPT !.step = "device", !.active = docs.dev["prusa"]]
          /\ UNCHANGED faults
       \/ Faulty /\ Fault /\ UNCHANGED camera
    /\ UNCHANGED <<docs, temps, draft, changes, acked, excused>>

------------------------------------------------------------------------------
(* The camera, the power and an older release                               *)

\* load_appliance_config reads one document after the other, with defaults
\* for the device document it cannot read.
load_appliance_config ==
    /\ \/ /\ camera.step = "device"
          /\ camera' = [camera EXCEPT !.step = "secrets",
                          !.dev = IF Readable(docs.dev) THEN docs.dev ELSE Defaults.dev]
       \/ /\ camera.step = "secrets"
          /\ camera' = [camera EXCEPT !.step = "up", !.sec = docs.sec]
    /\ UNCHANGED <<docs, temps, op, draft, changes, faults, acked, excused>>

\* systemd restarts the camera on its own.
CameraRestarts ==
    /\ camera.step = "up" /\ camera' = [camera EXCEPT !.step = "device"]
    /\ UNCHANGED <<docs, temps, op, draft, changes, faults, acked, excused>>

\* A cut between the two renames leaves one new and one old document.
PowerCut ==
    /\ faults.cuts < MaxCuts /\ faults' = [faults EXCEPT !.cuts = @ + 1]
    /\ excused' = (excused \/ op.step \in {"sec", "sec_rename", "undo", "undo_rename"})
    /\ acked' = docs /\ op' = Idle /\ draft' = NoDraft
    /\ camera' = [camera EXCEPT !.step = "device", !.active = 0]
    /\ UNCHANGED <<docs, temps, changes>>

\* A rolled-back release finds a device document with a newer schema.
Downgrade ==
    /\ op = Idle /\ Readable(docs.dev) /\ faults.cuts < MaxCuts
    /\ docs' = [docs EXCEPT !.dev = Broken] /\ acked' = [acked EXCEPT !.dev = Broken]
    /\ camera' = [camera EXCEPT !.step = "device", !.active = 0]
    /\ faults' = [faults EXCEPT !.cuts = @ + 1]
    /\ UNCHANGED <<temps, op, draft, changes, excused>>

Next ==
    \/ _handle_integrations_mqtt_put \/ _handle_integrations_prusa_put
    \/ set_hostname \/ _finalize \/ current_config \/ apply_candidate
    \/ CreateDevice \/ CreateSecrets \/ RenameDevice \/ RenameSecrets
    \/ _restore_text \/ _restart_camera \/ load_appliance_config
    \/ CameraRestarts \/ PowerCut \/ Downgrade

Spec == Init /\ [][Next]_vars

------------------------------------------------------------------------------
(* Properties                                                               *)

\* Between requests the documents are what the acknowledged requests made
\* them, section by section: a refused or failed request changes neither, and
\* no handler loses what another one saved. Only a power cut between the two
\* renames or a rollback that fails itself can leave a half-applied pair.
StoredIsAcked == op.step \in {"idle", "restart"} /\ ~excused => docs = acked

\* A Prusa change the console reported active is the one the camera runs, or
\* is loading, until a request to change the section again.
ActiveIsLoaded ==
    camera.active # 0 /\ camera.step = "up" =>
      camera.dev["prusa"] = camera.active /\ camera.sec["prusa"] = camera.active

\* "Invalid or too-new files propagate ConfigError so the caller can enter
\* recovery with the original file untouched": only the expert editor replaces
\* a device document this release cannot read.
BrokenNeedsExpert ==
    [][docs.dev = Broken /\ docs'.dev # Broken =>
         op.kind \in {"expert", "expert_device"}]_vars

\* The camera runs a server and a token that belong together, unless the
\* documents themselves were left half-applied.
CameraRunsOnePair ==
    camera.step = "up" /\ ~excused => camera.dev["prusa"] = camera.sec["prusa"]

\* "... so the live configuration is never left half-applied": between requests
\* the Prusa server and its token, which always change together, belong together.
NeverHalfApplied ==
    op.step = "idle" /\ Readable(docs.dev) => docs.dev["prusa"] = docs.sec["prusa"]
=============================================================================
