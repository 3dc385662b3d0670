------------------------------- MODULE Update -------------------------------
(***************************************************************************)
(* Which binary runs: the over-the-air update, rollback and removal of     *)
(* src/src/server/api/system.rs, and the bootloader of main() in           *)
(* src/src/main.rs that chooses between /amardns and /data/amardns.        *)
(*                                                                         *)
(* The container starts /amardns (Dockerfile); its root file system may    *)
(* come back as the image made it, /data does not change.  A file is       *)
(* written by steps: in between it is Torn.  Downloads that fail, checksums *)
(* and signatures that do not match end an install before it has touched a *)
(* file and are left out; so are the answers to the administrator.         *)
(***************************************************************************)
EXTENDS Naturals, FiniteSets

CONSTANTS
    Newest,      \* releases are 1..Newest
    Image,       \* the release in the container image
    Host,        \* when the root file system is put back: always, never or either
    Updater,     \* administrators' requests in hand at a time
    Requests,    \* what they ask: install, rollback, remove, bare, drop, prune
    Hasty,       \* whether they ask again before a scheduled restart (0.8 s)
    CrashIn      \* steps a crash may cut short

Release == 1..Newest

ASSUME UpdateAssumption ==
    /\ Newest \in Nat /\ Image \in Release
    /\ Host \subseteq {"always", "never", "either"} /\ Hasty \in BOOLEAN

Missing == 0
Torn == Newest + 1
Complete(b) == b \in Release

VARIABLES
    host,        \* which host this is
    volume,      \* whether /data is there
    writable,    \* whether the root file system is
    file,        \* /amardns (active), its .bak and .download, and those of /data
    archive,     \* /amardns-<version>, by the version in the name
    proc,        \* the process: down, boot or serving; its release; where it was started
    op,          \* what an administrator's request is at
    due,         \* the restart that was scheduled: a path, or none
    wanted       \* history: the last release installed, while it has to stay

updateVars == <<host, volume, writable, file, archive, proc, op, due, wanted>>

Location == {"active", "bak", "tmp", "data", "dbak", "dtmp"}
\* What a restoration reads: .bak, /data/amardns, or else the archive of a release.
FromBak == Missing
FromVolume == Torn
NoRequest == [pc |-> "idle", release |-> Missing, target |-> "active", tmp |-> "tmp", bak |-> "bak", source |-> FromBak]
Down == [pc |-> "down", release |-> Missing, exe |-> "active"]
Shipped == [p \in Location |-> IF p = "active" THEN Image ELSE Missing]
NoArchive == [v \in Release |-> Missing]

UpdateInit ==
    /\ host \in Host /\ volume \in BOOLEAN /\ writable \in BOOLEAN
    /\ file = Shipped
    /\ archive = NoArchive
    /\ proc = Down
    /\ op = [a \in Updater |-> NoRequest]
    /\ due = "none"
    /\ wanted = Missing

---------------------------------------------------------------------------
\* main(): /data/amardns answers --version with something strictly newer.
HandsOver(d, running) == Complete(d) /\ d > running

\* The container starts /amardns, which hands over or prunes, and then serves.
Bootload(reset) ==
    LET base == IF reset THEN Image ELSE file["active"]
        d == file["data"]
    IN  /\ reset => host # "never"
        /\ ~reset => host # "always"
        /\ proc.pc = "down" /\ Complete(base)
        /\ archive' = IF reset THEN NoArchive ELSE archive
        /\ proc' = IF HandsOver(d, base) THEN [pc |-> "serving", release |-> d, exe |-> "data"]
                     ELSE [pc |-> "serving", release |-> base, exe |-> "active"]
        /\ file' = [p \in Location |->
               IF p = "data" THEN (IF Complete(d) /\ ~HandsOver(d, base) THEN Missing ELSE d)
               ELSE IF reset /\ p \in {"active", "bak", "tmp"} THEN Shipped[p] ELSE file[p]]
        /\ UNCHANGED <<host, volume, writable, op, due, wanted>>

\* The process ends: killed, restarted by its host, or by handle_system_reboot.
Exit ==
    /\ proc.pc = "serving"
    /\ \A a \in Updater : op[a].pc = "idle" \/ op[a].pc \in CrashIn
    /\ proc' = Down
    /\ op' = [a \in Updater |-> NoRequest]
    /\ due' = "none"
    /\ UNCHANGED <<host, volume, writable, file, archive, wanted>>

\* The scheduled execve, with AMARDNS_EXEC_GUARD: no bootloader, and the requests that
\* are still in hand end with the old image.
Exec ==
    /\ due # "none" /\ proc.pc = "serving"
    /\ proc' = IF Complete(file[due]) THEN [pc |-> "serving", release |-> file[due], exe |-> due] ELSE Down
    /\ op' = [a \in Updater |-> NoRequest]
    /\ due' = "none"
    /\ UNCHANGED <<host, volume, writable, file, archive, wanted>>

---------------------------------------------------------------------------
Serves(a, pc) == proc.pc = "serving" /\ op[a].pc = pc
Goes(a, pc) == op' = [op EXCEPT ![a].pc = pc]
Asks(a, what) == Serves(a, "idle") /\ what \in Requests /\ (Hasty \/ due = "none")
Ends(a) == op' = [op EXCEPT ![a] = NoRequest]
Puts(p, b) == file' = [file EXCEPT ![p] = b]

\* perform_download_and_install, once the download has been checked: the root file
\* system if it can be written, else the volume.
Install(a, v) ==
    /\ Asks(a, "install") /\ (writable \/ volume)
    /\ op' = [op EXCEPT ![a] =
           IF writable THEN [NoRequest EXCEPT !.pc = "stage", !.release = v]
           ELSE [pc |-> "stage", release |-> v, target |-> "data", tmp |-> "dtmp", bak |-> "dbak", source |-> FromBak]]
    /\ UNCHANGED <<host, volume, writable, file, archive, proc, due, wanted>>

\* fs::write truncates and writes.
Stage(a) ==
    /\ Serves(a, "stage") /\ Puts(op[a].tmp, Torn) /\ Goes(a, "staging")
    /\ UNCHANGED <<host, volume, writable, archive, proc, due, wanted>>

Staged(a) ==
    /\ Serves(a, "staging") /\ Puts(op[a].tmp, op[a].release) /\ Goes(a, "verify")
    /\ UNCHANGED <<host, volume, writable, archive, proc, due, wanted>>

\* --verify: what does not run is removed and the install refused.
Verify(a) ==
    /\ Serves(a, "verify")
    /\ IF Complete(file[op[a].tmp]) THEN Goes(a, "backup") /\ UNCHANGED file
         ELSE Ends(a) /\ Puts(op[a].tmp, Missing)
    /\ UNCHANGED <<host, volume, writable, archive, proc, due, wanted>>

Backup(a) ==
    /\ Serves(a, "backup")
    /\ IF file[op[a].target] = Missing THEN Goes(a, "swap") /\ UNCHANGED file
         ELSE Goes(a, "saving") /\ Puts(op[a].bak, Torn)
    /\ UNCHANGED <<host, volume, writable, archive, proc, due, wanted>>

Saved(a) ==
    /\ Serves(a, "saving") /\ Puts(op[a].bak, file[op[a].target]) /\ Goes(a, "swap")
    /\ UNCHANGED <<host, volume, writable, archive, proc, due, wanted>>

\* Mutant: the download is copied over the binary, a step of its own away from whole.
Swapped_Copied(a) == IF file[op[a].target] = Torn THEN [file EXCEPT ![op[a].target] = op[a].release, ![op[a].tmp] = Missing]
                       ELSE [file EXCEPT ![op[a].target] = Torn]
\* The files after the rename; without a download it fails, and nothing is said.
Swapped(a) == IF file[op[a].tmp] = Missing THEN file
                ELSE [file EXCEPT ![op[a].target] = file[op[a].tmp], ![op[a].tmp] = Missing]

Swap(a) ==
    /\ Serves(a, "swap")
    /\ file' = Swapped(a)
    /\ IF file'[op[a].target] = Torn THEN UNCHANGED op
         ELSE Goes(a, IF op[a].target = "active" /\ volume THEN "mirror" ELSE "installed")
    /\ wanted' = Missing
    /\ UNCHANGED <<host, volume, writable, archive, proc, due>>

\* The volume's copy is written over, and gone if the process dies meanwhile.
Mirror(a) ==
    /\ Serves(a, "mirror") /\ Puts("data", Torn) /\ Goes(a, "mirroring")
    /\ UNCHANGED <<host, volume, writable, archive, proc, due, wanted>>

Mirrored(a) ==
    /\ Serves(a, "mirroring") /\ Puts("data", file["active"]) /\ Goes(a, "installed")
    /\ UNCHANGED <<host, volume, writable, archive, proc, due, wanted>>

\* A release not newer than the image is given up by the bootloader when the root file
\* system comes back.
Installed(a) ==
    /\ Serves(a, "installed") /\ Ends(a)
    /\ due' = op[a].target
    /\ wanted' = IF volume /\ op[a].release > Image THEN op[a].release ELSE Missing
    /\ UNCHANGED <<host, volume, writable, file, archive, proc>>

---------------------------------------------------------------------------
Archived == {v \in Release : archive[v] # Missing}
\* The binary an operation restores from: .bak, or one of the archives, the newest by
\* its time of change, which is left open.
Content(source) == IF source = FromBak THEN file["bak"]
                   ELSE IF source = FromVolume THEN file["data"] ELSE archive[source]

\* perform_rollback: what it restores is chosen first, then the active binary moved to
\* the name of the release that runs.
Rollback(a) ==
    /\ Asks(a, "rollback") /\ writable
    /\ \E source \in IF file["bak"] # Missing THEN {FromBak} ELSE Archived :
          op' = [op EXCEPT ![a] = [NoRequest EXCEPT !.pc = "restore", !.source = source]]
    /\ archive' = IF file["active"] = Missing THEN archive ELSE [archive EXCEPT ![proc.release] = file["active"]]
    /\ Puts("active", Missing)
    /\ wanted' = Missing
    /\ UNCHANGED <<host, volume, writable, proc, due>>

\* remove_software_binary("/amardns"): restored from the newest archive, else from .bak.
RemoveBinary(a) ==
    /\ Asks(a, "remove") /\ writable /\ file["active"] # Missing
    /\ \E source \in IF Archived # {} THEN Archived ELSE {FromBak} :
          /\ Content(source) # Missing
          /\ op' = [op EXCEPT ![a] = [NoRequest EXCEPT !.pc = "regain", !.source = source]]
    /\ Puts("active", Missing)
    /\ wanted' = Missing
    /\ UNCHANGED <<host, volume, writable, archive, proc, due>>

\* With neither it is to come from the image of the running process, whose path is gone
\* when that is /amardns itself: the file stays removed.
RemoveLast(a) ==
    /\ writable /\ file["active"] # Missing /\ Archived = {} /\ file["bak"] = Missing
    /\ IF proc.exe = "data" /\ file["data"] # Missing
         THEN /\ Asks(a, "remove")
              /\ op' = [op EXCEPT ![a] = [NoRequest EXCEPT !.pc = "regain", !.source = FromVolume]]
         ELSE Asks(a, "bare") /\ UNCHANGED op
    /\ Puts("active", Missing)
    /\ wanted' = Missing
    /\ UNCHANGED <<host, volume, writable, archive, proc, due>>

\* fs::copy onto /amardns.
Restore(a) ==
    /\ op[a].pc \in {"restore", "regain"} /\ proc.pc = "serving"
    /\ Puts("active", Torn)
    /\ Goes(a, IF op[a].pc = "restore" THEN "restoring" ELSE "regaining")
    /\ UNCHANGED <<host, volume, writable, archive, proc, due, wanted>>

\* A rollback drops the volume's copy; a removal leaves it.
Restored(a) ==
    /\ op[a].pc \in {"restoring", "regaining"} /\ proc.pc = "serving"
    /\ file' = [file EXCEPT !["active"] = Content(op[a].source),
                            !["data"] = IF op[a].pc = "restoring" THEN Missing ELSE @]
    /\ due' = "active"
    /\ Ends(a)
    /\ UNCHANGED <<host, volume, writable, archive, proc, wanted>>

\* remove_software_binary of another file.
Drop(a) ==
    /\ Asks(a, "drop")
    /\ \/ \E p \in Location \ {"active"} : file[p] # Missing /\ (p \in {"bak", "tmp"} => writable) /\ Puts(p, Missing)
                                   /\ wanted' = (IF p = "data" THEN Missing ELSE wanted) /\ UNCHANGED archive
       \/ \E v \in Archived : archive' = [archive EXCEPT ![v] = Missing] /\ UNCHANGED <<file, wanted>>
    /\ UNCHANGED <<host, volume, writable, proc, op, due>>

\* prune_software_binaries takes a download in progress along.
PruneBinaries(a) ==
    /\ Asks(a, "prune") /\ writable
    /\ archive' = NoArchive
    /\ Puts("tmp", Missing)
    /\ UNCHANGED <<host, volume, writable, proc, op, due, wanted>>

UpdateNext ==
    \/ \E reset \in BOOLEAN : Bootload(reset)
    \/ Exit \/ Exec
    \/ \E a \in Updater :
          \/ \E v \in Release : Install(a, v)
          \/ Stage(a) \/ Staged(a) \/ Verify(a) \/ Backup(a) \/ Saved(a) \/ Swap(a)
          \/ Mirror(a) \/ Mirrored(a) \/ Installed(a)
          \/ Rollback(a) \/ RemoveBinary(a) \/ RemoveLast(a) \/ Restore(a) \/ Restored(a) \/ Drop(a) \/ PruneBinaries(a)

UpdateSpec == UpdateInit /\ [][UpdateNext]_updateVars

---------------------------------------------------------------------------
UpdateTypeOK ==
    /\ file \in [Location -> 0..Torn] /\ archive \in [Release -> 0..Torn]
    /\ proc.pc \in {"down", "serving"} /\ proc.release \in 0..Newest
    /\ due \in Location \cup {"none"} /\ wanted \in 0..Newest

(***************************************************************************)
(* Whenever the process ends, what the container starts next is a whole    *)
(* binary, and so is what a scheduled restart of it executes.              *)
(***************************************************************************)
BaseRuns ==
    /\ proc.pc = "down" => Complete(file["active"])
    /\ due = "active" => Complete(file["active"])

(***************************************************************************)
(* A release that was installed with success runs after every restart,     *)
(* on a host that puts the root file system back at every start and on one *)
(* that never does, until another install replaces it, a rollback or       *)
(* an administrator takes it away.                                         *)
(***************************************************************************)
UpdateStays == wanted # Missing /\ proc.pc = "serving" /\ due = "none" => proc.release = wanted

UpdatesSafe == BaseRuns /\ UpdateStays
=============================================================================
