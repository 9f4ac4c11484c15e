----------------------------- MODULE SelfUpdate -----------------------------
(***************************************************************************)
(* The central's update of itself: staging a binary by upload or download  *)
(* (handleUpdateUpload, handleUpdateDownload, release.DownloadBinary) and  *)
(* applying it (handleUpdateApply in internal/server/update.go), with      *)
(* restarts and crashes at any step.                                       *)
(*                                                                         *)
(* A file is a build, a half-written file, or nothing.  Builds in Bad do   *)
(* not run.  Two applies begun within one second, which would share a      *)
(* backup directory, are left out, and so are archives and the             *)
(* sudoers check (a refused apply changes nothing).                        *)
(***************************************************************************)
CONSTANTS
  Build, Bad,    \* binaries that may arrive, those of them that do not run
  Released,      \* those of them that are published releases
  First,         \* the binary installed at first
  Nothing, Half, \* no file; a file cut off in the middle
  Applier,       \* apply requests served at once
  Faults         \* "setcap" fails; "crash" of the process

VARIABLES
  staged, live, liveCap,  \* the staged binary, the live one, its capability
  backups,                \* whole binaries under .backups
  up,                     \* the daemon runs
  apc, found              \* each apply: progress, the binary it backed up

fileVars  == <<staged, live, liveCap, backups>>
applyVars == <<apc, found>>
vars == <<fileVars, up, applyVars>>

Runs(b) == b \notin Bad \cup {Nothing, Half}

Init ==
  /\ staged = Nothing /\ live = First /\ liveCap = TRUE /\ backups = {} /\ up = TRUE
  /\ apc = [a \in Applier |-> "idle"] /\ found = [a \in Applier |-> Nothing]

-----------------------------------------------------------------------------
(* Nothing shows before the rename of the temporary file; a body that is    *)
(* cut off or no executable never gets there.                               *)
Stage(b) == up /\ staged' = b /\ UNCHANGED <<live, liveCap, backups, up, applyVars>>

(* The operator uploads whatever executable there is ...                    *)
HandleUpdateUpload(b) == Stage(b)

(* ... or has the release fetched, which must have its published hash.      *)
DownloadBinary(b) == b \in Released
HandleUpdateDownload(b) == DownloadBinary(b) /\ Stage(b)

-----------------------------------------------------------------------------
(* handleUpdateApply.                                                       *)

Go(a, from, to) == apc[a] = from /\ apc' = [apc EXCEPT ![a] = to]

(* The staged file is there and answers when it is run.                     *)
StagedInfo == Runs(staged)

(* The sudoers check passes.                                                *)
ProbeStaged(a) ==
  /\ up /\ StagedInfo /\ Go(a, "idle", "probed")
  /\ UNCHANGED <<fileVars, up, found>>

(* Mutant: the copy is not taken before the swap.                           *)
SavedNone == {}

Saved == {live}

Backup(a) ==
  /\ Go(a, "probed", "saved") /\ found' = [found EXCEPT ![a] = live]
  /\ backups' = backups \cup Saved
  /\ UNCHANGED <<staged, live, liveCap, up>>

(* No directory, or a copy cut off: 500, nothing else has changed.          *)
BackupFails(a) ==
  /\ Go(a, "probed", "idle") /\ backups' = backups \cup {Half}
  /\ UNCHANGED <<staged, live, liveCap, up, found>>

(* What is staged by now becomes the live file, a new inode without the     *)
(* capability.  Another apply may have taken it away: 500.                  *)
Swap(a) ==
  \/ /\ staged # Nothing /\ Go(a, "saved", "swapped")
     /\ live' = staged /\ liveCap' = FALSE /\ staged' = Nothing
     /\ UNCHANGED <<backups, up, found>>
  \/ /\ staged = Nothing /\ Go(a, "saved", "idle") /\ found' = [found EXCEPT ![a] = Nothing]
     /\ UNCHANGED <<fileVars, up>>

Setcap(a) ==
  /\ Go(a, "swapped", "applied") /\ liveCap' = TRUE /\ found' = [found EXCEPT ![a] = Nothing]
  /\ UNCHANGED <<staged, live, backups, up>>

(* setcap fails: copyFile truncates the live file ...                       *)
SetcapFails(a) ==
  /\ "setcap" \in Faults /\ Go(a, "swapped", "rollback") /\ live' = Half /\ liveCap' = FALSE
  /\ UNCHANGED <<staged, backups, up, found>>

(* ... and fills it from the backup.                                        *)
RollBack(a) ==
  /\ Go(a, "rollback", "idle") /\ live' = found[a] /\ liveCap' = FALSE
  /\ found' = [found EXCEPT ![a] = Nothing]
  /\ UNCHANGED <<staged, backups, up>>

(* The process ends, and systemd starts what is at the live path.           *)
NewProcess ==
  /\ up' = Runs(live)
  /\ apc' = [a \in Applier |-> "idle"] /\ found' = [a \in Applier |-> Nothing]
  /\ UNCHANGED fileVars

Restart(a) == apc[a] = "applied" /\ NewProcess

(* systemctl fails, which is only logged: the old process goes on.          *)
RestartFails(a) == Go(a, "applied", "idle") /\ UNCHANGED <<fileVars, up, found>>

Crash == "crash" \in Faults /\ up /\ NewProcess

ApplyStep(a) == \/ ProbeStaged(a) \/ Backup(a) \/ BackupFails(a) \/ Swap(a) \/ Setcap(a)
                \/ RollBack(a) \/ Restart(a) \/ RestartFails(a)

(* The daemon is down for good: the operator takes over.                    *)
Down == ~up /\ UNCHANGED vars

Next ==
  \/ \E b \in Build : HandleUpdateUpload(b) \/ HandleUpdateDownload(b)
  \/ \E a \in Applier : ApplyStep(a) \/ SetcapFails(a)
  \/ Crash \/ Down
Spec == Init /\ [][Next]_vars

-----------------------------------------------------------------------------
TypeOK ==
  /\ staged \in Build \cup {Nothing} /\ live \in Build \cup {First, Half} /\ liveCap \in BOOLEAN
  /\ backups \subseteq Build \cup {First, Half}
  /\ up \in BOOLEAN
  /\ apc \in [Applier -> {"idle", "probed", "saved", "swapped", "applied", "rollback"}]
  /\ found \in [Applier -> Build \cup {First, Nothing, Half}]

(* Whatever is at the live path after uploads, applies and crashes in any   *)
(* order, half a file, a build that does not run or one without its         *)
(* capability, a build that did run is kept whole under .backups            *)
(* (handleUpdateApply, "the rollback safety net").                          *)
WayBack == (Runs(live) /\ liveCap) \/ \E b \in backups : Runs(b)

(* What makes WayBack inductive: an apply that has passed its backup leaves *)
(* a build that runs behind it, whatever the live file was by then.         *)
SavedInv ==
  /\ apc \in [Applier -> {"idle", "probed", "saved", "swapped", "applied", "rollback"}]
  /\ WayBack
  /\ (\E a \in Applier : apc[a] \in {"saved", "swapped", "applied", "rollback"}) =>
       \E b \in backups : Runs(b)

(* What an apply may have to put back is a file that lies under .backups,   *)
(* whatever other applies have made of the live file since.                 *)
RestoresBackup ==
  \A a \in Applier : apc[a] \in {"saved", "swapped", "rollback"} => found[a] \in backups

(* "On failure, roll the binary back: a cap-less binary would start, bind   *)
(* HTTP, and fail every probe" (handleUpdateApply): when no apply is in     *)
(* progress the live binary has its capability.                             *)
LiveCanProbe == (\A a \in Applier : apc[a] = "idle") => liveCap
=============================================================================
