---------------------------- MODULE ReleaseCheck ----------------------------
(***************************************************************************)
(* The background check for a newer release (internal/release/checker.go)  *)
(* and the requests that check by hand or change its interval              *)
(* (internal/server/release.go), over restarts of the daemon.  What a      *)
(* check finds is left out.                                                *)
(***************************************************************************)
EXTENDS Naturals

CONSTANT CheckEvery   \* the check interval

VARIABLES
  age,       \* age of the row update.last_check (CheckEvery: due, or no row)
  setting,   \* the row update.check_interval
  fetching,  \* a check of the background loop is in progress
  up         \* the daemon runs

vars == <<age, setting, fetching, up>>

Init == age = CheckEvery /\ setting = "unset" /\ fetching = FALSE /\ up = FALSE

(* Mutant: an absent setting means off.                                     *)
EnabledIfSet == setting = "on"

(* An absent setting is the default, monthly (IntervalDuration).            *)
Enabled == setting # "off"

(* The stored record says that the interval is over, or there is none.      *)
ReadLastCheck == age >= CheckEvery

(* pass, at the start and at every tick.                                    *)
Pass == /\ up /\ ~fetching /\ Enabled /\ ReadLastCheck /\ fetching' = TRUE
        /\ UNCHANGED <<age, setting, up>>

(* CheckNow records success and failure alike, unless the store fails.      *)
CheckNow(stored) ==
  /\ fetching /\ fetching' = FALSE /\ age' = IF stored THEN 0 ELSE age
  /\ UNCHANGED <<setting, up>>

(* The manual check, and the record a download leaves.                      *)
HandleUpdateCheck == up /\ age' = 0 /\ UNCHANGED <<setting, fetching, up>>

HandleUpdateSettingsPatch(to) ==
  up /\ setting' = to /\ UNCHANGED <<age, fetching, up>>

(* The daemon stops, or starts again; the rows stay.                        *)
Stop  == up /\ up' = FALSE /\ fetching' = FALSE /\ UNCHANGED <<age, setting>>
Start == ~up /\ up' = TRUE /\ UNCHANGED <<age, setting, fetching>>

Clock == age < CheckEvery /\ age' = age + 1 /\ UNCHANGED <<setting, fetching, up>>

Next ==
  \/ Pass \/ (\E stored \in BOOLEAN : CheckNow(stored)) \/ HandleUpdateCheck
  \/ (\E to \in {"on", "off"} : HandleUpdateSettingsPatch(to))
  \/ Stop \/ Start \/ Clock
Spec == Init /\ [][Next]_vars

(* A daemon that stays up makes its pass, one that is up again and again    *)
(* makes one at a start, and some check is recorded.                        *)
Fairness == SF_vars(Pass) /\ SF_vars(CheckNow(TRUE))

-----------------------------------------------------------------------------
TypeOK ==
  /\ age \in 0..CheckEvery /\ setting \in {"unset", "on", "off"}
  /\ fetching \in BOOLEAN /\ up \in BOOLEAN

(* The background check is made again and again unless it is switched off,  *)
(* however often the daemon is restarted (Checker, "daemon restarts don't   *)
(* reset the clock"; an absent setting is the default).                     *)
ChecksGoOn == <>[](setting # "off") /\ []<>up => []<>(age < CheckEvery)
=============================================================================
