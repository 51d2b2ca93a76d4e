----------------------------- MODULE BootRestore -----------------------------
(***************************************************************************)
(* pi-persist, the root script that runs once at every boot before any      *)
(* other unit of the appliance (persist_restore.main): pending migrations   *)
(* of the read-only root (migrations.run_pending), the durable layout, the  *)
(* host name, the console's TLS key pair (admin_tls.ensure), the bind       *)
(* mounts, the time zone, the settings and the pruning of stored frames.    *)
(* Then the console starts, and serves only with a provisioned key pair.    *)
(* The power may be cut between any two steps.                              *)
(***************************************************************************)
EXTENDS Naturals, Sequences, Functions, FiniteSetsExt

CONSTANTS Shipped,      \* the migrations of MIGRATIONS a device has pending
          Hosts,        \* host names the console can store
          FrameSizes,   \* sizes of a stored frame
          Space,        \* bytes frames and free space share
          FreeFloor,    \* PRUNE_FREE_THRESHOLD_BYTES
          MaxFrames, MaxCuts, MaxFaults, MaxPairs,
          TornEdits     \* a power cut can leave an in-place edit half written

VARIABLES
    pc,        \* the step of main() that runs next, "off", or "up"
    rootFs,    \* what the root file system holds: edits per file, whole or torn
    rw,        \* the root file system is mounted read-write
    recorded,  \* migrations.json
    run,       \* run_pending's locals: what is left, and `applied`
    device,    \* device.toml [admin].hostname ("" when unset)
    pair,      \* the key and the certificate under /data/pibuddycam/config/tls
    boot,      \* what this boot has set up in volatile storage
    settings,  \* state.json: a value, or "corrupt"
    frames,    \* stored frames
    faults     \* power cuts and failed commands so far

vars == <<pc, rootFs, rw, recorded, run, device, pair, boot, settings, frames,
          faults>>

MIGRATIONS == <<"001_create_mnt_sdcard", "002_install_samba_config",
                "003_mask_console_setup", "004_pi_persist_use_launcher",
                "005_pibuddycam_priv_no_block", "006_runtime_directory",
                "007_pibuddycam_priv_system_verbs">>

\* 001 to 003 write their target afresh whatever it holds.
Rebuilds == {MIGRATIONS[1], MIGRATIONS[2], MIGRATIONS[3]}
Target == [m \in Range(MIGRATIONS) |->
             CASE m = MIGRATIONS[1] -> "mnt_sdcard" [] m = MIGRATIONS[2] -> "samba"
               [] m = MIGRATIONS[3] -> "console_setup"
               [] m = MIGRATIONS[4] -> "pi_persist_unit"
               [] m = MIGRATIONS[6] -> "camera_unit" [] OTHER -> "pibuddycam_priv"]
Files == {Target[m] : m \in Shipped}

Images == {"image", "day", "night"}
NoBoot == [mounted |-> FALSE, host |-> "", env |-> FALSE, binds |-> {},
           zone |-> "image", tuned |-> "image", named |-> "", failed |-> FALSE]
Idle == [left |-> {}, applied |-> {}]
PowerFaults == faults.cuts < MaxCuts
CommandFaults == faults.failed < MaxFaults
Fault == faults' = [faults EXCEPT !.failed = @ + 1]

Init ==
    /\ pc = "off" /\ rw = FALSE /\ recorded = {} /\ run = Idle
    /\ rootFs = [f \in Files |-> [whole |-> TRUE, edits |-> {}]]
    /\ device = "" /\ settings = "image" /\ frames = <<>>
    /\ pair = [key |-> 0, crt |-> 0, host |-> "", made |-> 0]
    /\ boot = NoBoot /\ faults = [cuts |-> 0, failed |-> 0]

TypeOK ==
    /\ pc \in {"off", "load", "migrate", "edit", "seal", "save", "layout", "host",
               "tls", "crt", "env", "bind", "zone", "settings", "prune", "up"}
    /\ rw \in BOOLEAN /\ recorded \subseteq Shipped
    /\ \A f \in Files : rootFs[f].edits \subseteq Shipped
    /\ run.applied \subseteq Shipped /\ device \in Hosts \cup {""}
    /\ pair.key \in 0 .. MaxPairs /\ pair.crt \in 0 .. pair.key
    /\ boot.zone \in Images /\ boot.tuned \in Images
    /\ Len(frames) <= MaxFrames

------------------------------------------------------------------------------
(* The boot script                                                          *)

\* The kernel starts, and systemd runs pi-persist: with /data not mounted the
\* script returns at once and every later unit finds the image's defaults.
PowerOn ==
    /\ pc = "off"
    /\ \/ /\ boot' = [NoBoot EXCEPT !.mounted = TRUE]
          /\ pc' = "load" /\ UNCHANGED faults
       \/ /\ CommandFaults /\ Fault
          /\ boot' = [NoBoot EXCEPT !.failed = TRUE] /\ pc' = "up"
    /\ UNCHANGED <<rootFs, rw, recorded, run, device, pair, settings, frames>>

\* run_pending up to its loop: read the record, pick what is pending, remount.
run_pending ==
    LET pending == Shipped \ recorded IN
    /\ pc = "load"
    /\ \/ pending = {} /\ pc' = "layout" /\ UNCHANGED <<rw, run, faults>>
       \/ /\ pending # {} /\ pc' = "migrate"
          /\ run' = [left |-> pending, applied |-> recorded]
          /\ \/ rw' = TRUE /\ UNCHANGED faults
             \/ CommandFaults /\ Fault /\ rw' = FALSE
    /\ UNCHANGED <<rootFs, recorded, device, pair, boot, settings, frames>>

Done(m) == m \in rootFs[Target[m]].edits
\* 002 writes its files again without looking; the others find their edit.
Present(m) == Done(m) /\ m # MIGRATIONS[2]
\* An in-place edit looks for the text it replaces and gives up without it.
Editable(m) == rw /\ (m \in Rebuilds \/ rootFs[Target[m]].whole)
Index(m) == CHOOSE i \in DOMAIN MIGRATIONS : MIGRATIONS[i] = m
\* The loop goes through what is pending in the order of MIGRATIONS.
IsNext(m) == m \in run.left /\ \A k \in run.left : Index(m) <= Index(k)
Skipped(m) == run' = [run EXCEPT !.left = @ \ {m}]
Applied(m) == run' = [left |-> run.left \ {m}, applied |-> run.applied \cup {m}]

\* Mutant: a migration that returned False is recorded with the others.
MigrateRecordsAll ==
    /\ pc = "migrate"
    /\ \E m \in run.left :
         /\ IsNext(m)
         /\ \/ Present(m) /\ Applied(m) /\ UNCHANGED <<pc, rootFs>>
            \/ ~Present(m) /\ Editable(m) /\ pc' = "edit" /\ UNCHANGED <<run, rootFs>>
            \/ ~Present(m) /\ ~Editable(m) /\ Applied(m) /\ UNCHANGED <<pc, rootFs>>
    /\ UNCHANGED <<rw, recorded, device, pair, boot, settings, frames, faults>>

\* One migration: already there, about to write its file in place (the edited
\* text is in memory), or not possible (text not found, read-only root).
Migrate ==
    /\ pc = "migrate"
    /\ \E m \in run.left :
         /\ IsNext(m)
         /\ \/ Present(m) /\ Applied(m) /\ UNCHANGED <<pc, rootFs>>
            \/ ~Present(m) /\ Editable(m) /\ pc' = "edit" /\ UNCHANGED <<run, rootFs>>
            \/ ~Present(m) /\ ~Editable(m) /\ Skipped(m) /\ UNCHANGED <<pc, rootFs>>
    /\ UNCHANGED <<rw, recorded, device, pair, boot, settings, frames, faults>>

\* open(.., 'w') truncates the file and the edited text is written to it.
Edit ==
    /\ pc = "edit" /\ pc' = "migrate"
    /\ \E m \in run.left :
         /\ IsNext(m) /\ Applied(m)
         /\ rootFs' = [rootFs EXCEPT ![Target[m]] =
                         [whole |-> TRUE, edits |-> @.edits \cup {m}]]
    /\ UNCHANGED <<rw, recorded, device, pair, boot, settings, frames, faults>>

\* After the loop the root is sealed again, but only if it was opened.
Seal ==
    /\ pc = "migrate" /\ run.left = {} /\ pc' = "save"
    /\ \/ rw' = FALSE /\ UNCHANGED faults
       \/ rw /\ CommandFaults /\ Fault /\ UNCHANGED rw
    /\ UNCHANGED <<rootFs, recorded, run, device, pair, boot, settings, frames>>

\* migrations.json is replaced; main catches a failed write.
_save_state ==
    /\ pc = "save" /\ pc' = "layout" /\ run' = Idle
    /\ \/ recorded' = run.applied /\ UNCHANGED faults
       \/ CommandFaults /\ Fault /\ UNCHANGED recorded
    /\ UNCHANGED <<rootFs, rw, device, pair, boot, settings, frames>>

\* ensure_durable_layout is best-effort and idempotent; _apply_hostname puts
\* back the stored name, or leaves the image's.
_apply_hostname ==
    /\ pc = "layout" /\ pc' = "tls"
    /\ \/ boot' = [boot EXCEPT !.host = device, !.named = device] /\ UNCHANGED faults
       \/ device # "" /\ CommandFaults /\ Fault /\ UNCHANGED boot
    /\ UNCHANGED <<rootFs, rw, recorded, run, device, pair, settings, frames>>

\* Mutant: an existing pair is taken as it is.
ReusableIfPresent == pair.key > 0 /\ pair.crt > 0

\* The certificate must cover the configured name: device.toml decides, not the
\* name hostnamectl took.
_keypair_reusable == pair.key > 0 /\ pair.key = pair.crt /\ pair.host = device

\* admin_tls.ensure: reuse the pair, or make one; the key is moved in first.
_provision_admin_tls ==
    /\ pc = "tls"
    /\ \/ _keypair_reusable /\ pc' = "env" /\ UNCHANGED <<pair, boot, faults>>
       \/ /\ ~_keypair_reusable /\ pair.made < MaxPairs /\ pc' = "crt"
          /\ pair' = [pair EXCEPT !.key = pair.made + 1, !.made = @ + 1]
          /\ UNCHANGED <<boot, faults>>
       \/ /\ CommandFaults /\ Fault /\ pc' = "bind"   \* TlsError: openssl, disk
          /\ boot' = [boot EXCEPT !.failed = TRUE] /\ UNCHANGED pair
    /\ UNCHANGED <<rootFs, rw, recorded, run, device, settings, frames>>

\* The certificate follows its key.
ReplaceCertificate ==
    /\ pc = "crt" /\ pc' = "env"
    /\ pair' = [pair EXCEPT !.crt = pair.key, !.host = device]
    /\ UNCHANGED <<rootFs, rw, recorded, run, device, boot, settings, frames, faults>>

\* admin.env is written last, so it never names a pair that is not in place.
_write_admin_env ==
    /\ pc = "env" /\ pc' = "bind"
    /\ \/ boot' = [boot EXCEPT !.env = TRUE] /\ UNCHANGED faults
       \/ CommandFaults /\ Fault /\ boot' = [boot EXCEPT !.failed = TRUE]
    /\ UNCHANGED <<rootFs, rw, recorded, run, device, pair, settings, frames>>

\* The SD card and the NetworkManager store are mounted onto the image, each
\* best-effort.
_bind_mounts ==
    /\ pc = "bind" /\ pc' = "zone"
    /\ \/ boot' = [boot EXCEPT !.binds = {"sdcard", "nm"}] /\ UNCHANGED faults
       \/ /\ CommandFaults /\ Fault
          /\ \E b \in {{"sdcard"}, {"nm"}} : boot' = [boot EXCEPT !.binds = b]
    /\ UNCHANGED <<rootFs, rw, recorded, run, device, pair, settings, frames>>

\* settings_store.load: a corrupt document is set aside and reads as empty.
Loaded == IF settings = "corrupt" THEN "image" ELSE settings
Quarantine == settings' = Loaded

\* The time zone and the clock (_restore_time_sync touches no modelled state).
_apply_timezone ==
    /\ pc = "zone" /\ pc' = "settings" /\ Quarantine
    /\ \/ boot' = [boot EXCEPT !.zone = Loaded] /\ UNCHANGED faults
       \/ Loaded # "image" /\ CommandFaults /\ Fault /\ UNCHANGED boot
    /\ UNCHANGED <<rootFs, rw, recorded, run, device, pair, frames>>

\* quality.env, rotation.env and rtsp.mode from the same document.
_restore_settings ==
    /\ pc = "settings" /\ pc' = "prune" /\ Quarantine
    /\ \/ boot' = [boot EXCEPT !.tuned = Loaded] /\ UNCHANGED faults
       \/ Loaded # "image" /\ CommandFaults /\ Fault /\ UNCHANGED boot
    /\ UNCHANGED <<rootFs, rw, recorded, run, device, pair, frames>>

------------------------------------------------------------------------------
(* Pruning. Frames are stored in the order of their times; `frames` is the   *)
(* inventory sorted by (mtime, name).                                       *)

Sum(sizes) == SumFunction(sizes)
Free == Space - Sum(frames)

\* The shortest prefix of the sorted frames whose removal brings the rest to
\* the limit, as the loop of frames_to_prune selects it: the number of frames.
frames_to_prune(ordered, total, limit) ==
    IF total <= limit THEN 0
    ELSE LET Enough(n) == total - Sum(SubSeq(ordered, 1, n)) <= limit
             stops == {n \in 0 .. Len(ordered) : n = Len(ordered) \/ Enough(n)}
         IN Min(stops)

\* Below the floor the oldest frames go; a frame that cannot be removed stays.
_prune_timelapse ==
    /\ pc = "prune" /\ pc' = "up"
    /\ LET total == Sum(frames)
           need == FreeFloor - Free
           limit == IF total > need THEN total - need ELSE 0
           n == IF Free >= FreeFloor \/ frames = <<>> THEN 0
                ELSE frames_to_prune(frames, total, limit)
       IN \/ /\ frames' = SubSeq(frames, n + 1, Len(frames))
             /\ UNCHANGED faults
          \/ /\ n > 0 /\ CommandFaults /\ Fault
             /\ \E i \in 1 .. n :
                  frames' = <<frames[i]>> \o SubSeq(frames, n + 1, Len(frames))
    /\ UNCHANGED <<rootFs, rw, recorded, run, device, pair, boot, settings>>

------------------------------------------------------------------------------
(* The running appliance, as far as the next boot depends on it              *)

\* A frame is stored (the capture itself stops at a full card).
Capture ==
    /\ pc = "up" /\ boot.mounted /\ Len(frames) < MaxFrames
    /\ \E s \in FrameSizes : s <= Free /\ frames' = Append(frames, s)
    /\ UNCHANGED <<pc, rootFs, rw, recorded, run, device, pair, boot, settings,
                   faults>>

\* The console applies and stores a host name, or stores a setting; both
\* documents are replaced atomically.
Configure ==
    /\ pc = "up" /\ boot.mounted
    /\ \/ \E h \in Hosts : /\ device' = h /\ boot' = [boot EXCEPT !.host = h]
                             /\ UNCHANGED settings
       \/ settings' \in Images /\ UNCHANGED <<device, boot>>
    /\ UNCHANGED <<pc, rootFs, rw, recorded, run, pair, frames, faults>>

\* The power goes, or the device is rebooted. What is volatile is lost; a file
\* that was being written in place may be torn, and migrations.json, replaced
\* without fsync, may be unreadable and then reads as empty.
PowerCut ==
    /\ pc # "off" /\ PowerFaults
    /\ pc' = "off" /\ rw' = FALSE /\ run' = Idle /\ boot' = NoBoot
    /\ faults' = [faults EXCEPT !.cuts = @ + 1]
    /\ recorded' \in {recorded} \cup (IF pc = "layout" THEN {{}} ELSE {})
    /\ settings' \in {settings} \cup (IF pc = "up" THEN {"corrupt"} ELSE {})
    /\ rootFs' \in {rootFs} \cup
         (IF pc = "edit" /\ TornEdits
          THEN {[rootFs EXCEPT ![Target[m]] = [whole |-> FALSE, edits |-> {}]] :
                  m \in {k \in run.left : IsNext(k)}}
          ELSE {})
    /\ UNCHANGED <<device, pair, frames>>

Stay == pc = "up" /\ ~PowerFaults /\ UNCHANGED vars

BootStep ==
    \/ run_pending \/ Migrate \/ Edit \/ Seal \/ _save_state \/ _apply_hostname
    \/ _provision_admin_tls \/ ReplaceCertificate \/ _write_admin_env
    \/ _bind_mounts \/ _apply_timezone \/ _restore_settings \/ _prune_timelapse

Next == PowerOn \/ BootStep \/ Capture \/ Configure \/ PowerCut \/ Stay

Spec == Init /\ [][Next]_vars

------------------------------------------------------------------------------
(* Properties                                                               *)

\* Whatever boot was cut short before, a console that has its admin.env serves
\* a certificate that belongs to its key and covers the host name this boot put
\* in force, and a boot in which no command failed always gets that far ("if the
\* process dies between the two renames the next boot sees a mismatched pair
\* and regenerates").
ServedPairIsWhole ==
    pc = "up" =>
      /\ boot.env => pair.key = pair.crt /\ boot.named \in {"", pair.host}
      /\ boot.mounted /\ ~boot.failed => boot.env

\* A migration enters migrations.json only while its edit is in its file:
\* neither a failed run, a read-only root nor a torn file is recorded as done.
RecordedWasDone == [][\A m \in recorded' \ recorded : Done(m)]_vars

\* A boot whose removals all succeed leaves the free space at the floor or no
\* frame at all, keeps the newest frames, and removes no frame it could keep.
PruneIsExact ==
    [][pc = "prune" /\ pc' = "up" /\ faults' = faults =>
         LET gone == Len(frames) - Len(frames') IN
           /\ Free' >= FreeFloor \/ frames' = <<>>
           /\ frames' = SubSeq(frames, gone + 1, Len(frames))
           /\ gone > 0 => Space - Sum(SubSeq(frames, gone, Len(frames))) < FreeFloor]_vars

\* "Completed migrations are tracked ... so they run exactly once": no migration
\* is entered again once its edit is made.
MigrationsRunOnce ==
    pc = "migrate" => \A m \in run.left : IsNext(m) => ~Done(m)

\* A migration recorded as done stays done: nothing later undoes its edit.
RecordedStaysDone == \A m \in recorded : Done(m)
=============================================================================
