------------------------------ MODULE Schedule -----------------------------
(***************************************************************************)
(* `rad backup schedule`: the settings file and the two units it writes    *)
(* one after another, systemd taking them up, and the runs the timer then  *)
(* starts with nobody there; `--off` and `--status`; commands that are     *)
(* refused or killed half-way, and a user who edits the same files.        *)
(*                                                                         *)
(* Source: src/cmd/schedule.rs.  What a scheduled run seals its archive    *)
(* with is in Passphrases, what it does besides in ArchiveDir.  systemd is *)
(* external: it works from the units it read last and reads the settings   *)
(* file anew for every run.                                                *)
(***************************************************************************)
EXTENDS Passphrases, Integers

CONSTANTS Asks,       \* what `schedule` is asked for
          Keys,       \* what a recipient may be
          Relative,   \* the paths among them that depend on where one stands
          Calendars,  \* what systemd can read as a calendar
          Secrets,    \* what the passphrase file and systemd's variable may hold, if there
          MaxCommands, MaxTampering \* bounds

Files == Secrets \cup {Unreadable}
Variables == Secrets \cup {Unset}
NoKeep == -1
(* `exported` is the passphrase in the environment of the shell.           *)
Fields == {"home", "output", "keep", "file", "exported", "rad", "plaintext", "recipients", "every"}
ASSUME ScheduleAssumption ==
  /\ \A a \in Asks : DOMAIN a = Fields /\ a.keep \in {NoKeep} \cup Nat
  /\ Secrets \cap {Unset, Unreadable, Refused} = {}
  /\ MaxCommands \in Nat /\ MaxTampering \in Nat

VARIABLES
  pc,        \* "idle", or the next step of `schedule`
  cmd,       \* what it was asked for
  env,       \* the settings file
  service, timer, \* the unit files
  loaded,    \* the units systemd read last
  state,     \* whether the timer is enabled, in systemd's word
  active,    \* whether it is started: systemd will begin runs
  passfile,  \* what the passphrase file holds
  held,      \* the passphrase in systemd's own environment
  heard,     \* what a command said, or a scheduled run did
  granted,   \* history: the settings of the `schedule` that said it was done, undisturbed
  off,       \* history: `--off` said the timer is off, and nobody has handled it since
  disturbed, \* history: somebody else changed something since the last one began
  commands, tampering \* bounds

uvars == <<env, service, timer>>
tvars == <<state, active>>
wvars == <<passfile, held>>
hvars == <<granted, off, disturbed>>
vars  == <<pc, cmd, uvars, loaded, tvars, wvars, heard, hvars, commands, tampering>>

Absent == [there |-> FALSE]
Closed == [there |-> TRUE, readable |-> FALSE]
Nothing == [asked |-> FALSE]
Quiet == [by |-> "none"]

Unit(ours, what) == [there |-> TRUE, readable |-> TRUE, ours |-> ours, what |-> what]
Encryption(a) == [plaintext |-> a.plaintext, recipients |-> a.recipients]
(* What `std::fs::write` leaves when it stops half-way: a file emptied and *)
(* not, or not all, written again.                                         *)
CutService == {Unit(FALSE, Nothing), Unit(TRUE, Nothing),
               Unit(TRUE, [plaintext |-> FALSE, recipients |-> <<>>])}
CutTimer   == {Unit(FALSE, ""), Unit(TRUE, "")}
(* A path, as one who stands at cwd reads it.                              *)
resolve(p, cwd) == IF p \in Relative THEN <<cwd, p>> ELSE <<p>>

timer_is_on(word) == word \in {"enabled", "enabled-runtime"}
Refuse(why) == pc' = "idle" /\ heard' = [by |-> "refused", why |-> why]
----------------------------------------------------------------------------
(* The passphrase must be where a run of systemd's will find it, whatever  *)
(* this shell exports.                                                     *)
systemd_holds == held # Unset

needs_no_passphrase(a) == a.plaintext \/ a.recipients # <<>>

(* Mutant: what this shell exports counts as held.                         *)
acceptable_Exported(a) ==
  /\ a.keep # 0
  /\ needs_no_passphrase(a) \/ a.file # Unset \/ systemd_holds \/ a.exported # Unset

acceptable(a) ==
  /\ a.keep # 0
  /\ needs_no_passphrase(a) \/ a.file # Unset \/ systemd_holds

Begin ==
  /\ pc = "idle" /\ heard = Quiet /\ commands < MaxCommands /\ commands' = commands + 1
  /\ \E a \in Asks :
       IF acceptable(a)
       THEN pc' = "env" /\ cmd' = a /\ UNCHANGED heard
       ELSE Refuse("unacceptable") /\ UNCHANGED cmd
  /\ UNCHANGED <<uvars, loaded, tvars, wvars, granted, off, tampering>>
  /\ disturbed' = FALSE

(* What a run works with that no settings file says otherwise.             *)
Defaults == [there |-> FALSE, home |-> "default", output |-> Unset, keep |-> NoKeep, file |-> Unset,
             rad |-> <<"none">>]

(* The home, the directory and the passphrase file are written as given.   *)
Settings(a) ==
  [there |-> TRUE, home |-> a.home, output |-> a.output, keep |-> a.keep, file |-> a.file,
   rad |-> resolve(a.rad, "shell")]

(* The file is rewritten in full.  Mutant: a setting not asked for keeps   *)
(* its line.                                                               *)
environment_text_Merged(a) ==
  IF env.there /\ a.keep = NoKeep THEN [Settings(a) EXCEPT !.keep = env.keep] ELSE Settings(a)

environment_text(a) == Settings(a)

(* The settings are unlinked before they are written.                      *)
CutSettings(a) == {Absent, [Defaults EXCEPT !.there = TRUE],
                   [Settings(a) EXCEPT !.keep = NoKeep, !.file = Unset]}

WriteEnvironment ==
  /\ pc = "env" /\ granted' = Nothing
  /\ \/ pc' = "service" /\ env' = environment_text(cmd) /\ UNCHANGED heard
     \/ Refuse("not written") /\ env' \in {env} \cup CutSettings(cmd)
  /\ UNCHANGED <<cmd, service, timer, loaded, tvars, wvars, off, disturbed, commands, tampering>>

may_replace(unit) == unit.there => unit.readable /\ unit.ours

(* `write_unit`: the unit that is there is read, and then written over     *)
(* where it stands, with nothing to hold off anybody else in between.      *)
Check(unit, from, to) ==
  /\ pc = from
  /\ IF may_replace(unit) THEN pc' = to /\ UNCHANGED heard ELSE Refuse("not written by this tool")
  /\ UNCHANGED <<cmd, uvars, loaded, tvars, wvars, hvars, commands, tampering>>

CheckService == Check(service, "service", "write service")
CheckTimer   == Check(timer, "timer", "write timer")

WriteService ==
  /\ pc = "write service"
  /\ \/ pc' = "timer" /\ service' = Unit(TRUE, Encryption(cmd)) /\ UNCHANGED heard
     \/ Refuse("not written") /\ service' \in {service} \cup CutService
  /\ UNCHANGED <<cmd, env, timer, loaded, tvars, wvars, hvars, commands, tampering>>

WriteTimer ==
  /\ pc = "write timer"
  /\ \/ pc' = "reload" /\ timer' = Unit(TRUE, cmd.every) /\ UNCHANGED heard
     \/ Refuse("not written") /\ timer' \in {timer} \cup CutTimer
  /\ UNCHANGED <<cmd, env, service, loaded, tvars, wvars, hvars, commands, tampering>>

UnitsOnDisk == [service |-> service, timer |-> timer]

(* A timer systemd cannot read may stay started after a reload, or not.    *)
Startable == timer.there /\ timer.what \in Calendars
StartedStill == {active, active /\ Startable}

Reload ==
  /\ pc = "reload"
  /\ \/ pc' = "enable" /\ loaded' = UnitsOnDisk /\ active' \in StartedStill /\ UNCHANGED heard
     \/ Refuse("not reloaded") /\ UNCHANGED <<loaded, active>>
  /\ UNCHANGED <<cmd, uvars, state, wvars, hvars, commands, tampering>>

(* `enable --now` enables, then starts, and may fail after the first.      *)
Enable ==
  /\ pc = "enable"
  /\ \/ /\ loaded.timer.there /\ loaded.timer.what \in Calendars
        /\ pc' = "idle" /\ state' = "enabled" /\ active' = TRUE
        /\ granted' = IF disturbed THEN Nothing ELSE cmd
        /\ heard' = [by |-> "scheduled"]
     \/ Refuse("not enabled") /\ state' \in {state, "enabled"} /\ UNCHANGED <<active, granted>>
  /\ off' = FALSE
  /\ UNCHANGED <<cmd, uvars, loaded, wvars, disturbed, commands, tampering>>

(* Killed between two steps, or in the middle of writing one file.         *)
Kill ==
  /\ pc # "idle" /\ pc' = "idle"
  /\ env'     \in {env}     \cup (IF pc = "env" THEN CutSettings(cmd) ELSE {})
  /\ service' \in {service} \cup (IF pc = "write service" THEN CutService ELSE {})
  /\ timer'   \in {timer}   \cup (IF pc = "write timer" THEN CutTimer ELSE {})
  /\ granted' = IF env' = env THEN granted ELSE Nothing
  /\ UNCHANGED <<cmd, loaded, tvars, wvars, heard, off, disturbed, commands, tampering>>

(* `disable --now` disables, then stops, and may fail after the first.     *)
(* Mutant: `disable` without `--now`.                                      *)
Off_Later ==
  /\ pc = "idle" /\ heard = Quiet /\ commands < MaxCommands /\ commands' = commands + 1
  /\ granted' = Nothing
  /\ \/ /\ loaded.timer.there /\ state' = "disabled" /\ UNCHANGED active
        /\ heard' = [by |-> "off"] /\ off' = TRUE /\ UNCHANGED pc
     \/ Refuse("not disabled") /\ state' \in {state, "disabled"} /\ UNCHANGED <<active, off>>
  /\ UNCHANGED <<cmd, uvars, loaded, wvars, disturbed, tampering>>

Off ==
  /\ pc = "idle" /\ heard = Quiet /\ commands < MaxCommands /\ commands' = commands + 1
  /\ granted' = Nothing
  /\ \/ /\ loaded.timer.there /\ state' = "disabled" /\ active' = FALSE
        /\ heard' = [by |-> "off"] /\ off' = TRUE /\ UNCHANGED pc
     \/ Refuse("not disabled") /\ state' \in {state, "disabled"} /\ UNCHANGED <<active, off>>
  /\ UNCHANGED <<cmd, uvars, loaded, wvars, disturbed, tampering>>

(* `is-enabled` reads the files and prints a word, or nothing when there   *)
(* is no unit or systemd cannot be asked; only then the load state counts. *)
is_enabled(asked) == IF asked /\ timer.there THEN state ELSE ""
load_state(asked) ==
  IF ~asked THEN "" ELSE IF timer.there \/ loaded.timer.there THEN "loaded" ELSE "not-found"

timer_verdict(said, load) ==
  IF said # "" THEN said ELSE IF load = "not-found" THEN "disabled" ELSE "unknown"

Status ==
  /\ pc = "idle" /\ heard = Quiet
  /\ \E asked \in BOOLEAN :
       heard' = [by |-> "status", word |-> timer_verdict(is_enabled(asked), load_state(asked))]
  /\ UNCHANGED <<pc, cmd, uvars, loaded, tvars, wvars, hvars, commands, tampering>>

(* The line for a crontab, on a machine whose PATH has no systemctl: what  *)
(* a run of that line works with.                                          *)
crontab_line(a) ==
  [home |-> Defaults.home, dir |-> a.output, keep |-> IF a.keep = NoKeep THEN 7 ELSE a.keep]

RefuseWithoutSystemd ==
  /\ pc = "idle" /\ heard = Quiet
  /\ \E a \in Asks : heard' = [by |-> "crontab", asked |-> a, line |-> crontab_line(a)]
  /\ UNCHANGED <<pc, cmd, uvars, loaded, tvars, wvars, hvars, commands, tampering>>
----------------------------------------------------------------------------
(* A run of the timer's: the settings file is read now, `-` in front of    *)
(* its name, the command line comes from the unit systemd holds.           *)
read_now == IF env.there THEN env ELSE Defaults

at_hand(e) ==
  [file |-> CASE e.file = Unset -> Unset
              [] e.file \in Relative -> Unreadable
              [] OTHER -> passfile,
   variable |-> held, typed |-> <<>>]

this_run ==
  [by |-> "run", home |-> resolve(read_now.home, "user's home"),
   dir |-> resolve(read_now.output, "user's home"), keep |-> read_now.keep,
   rad |-> read_now.rad, seal |-> ask_encryption(loaded.service.what, at_hand(read_now), Keys)]

WillRun == active /\ loaded.timer.there
Runnable(unit) == unit.there /\ unit.readable /\ unit.what # Nothing

Fire ==
  /\ pc = "idle" /\ heard = Quiet
  /\ WillRun /\ Runnable(loaded.service)
  /\ heard' = this_run
  /\ UNCHANGED <<pc, cmd, uvars, loaded, tvars, wvars, hvars, commands, tampering>>

Return ==
  /\ heard # Quiet /\ heard' = Quiet
  /\ UNCHANGED <<pc, cmd, uvars, loaded, tvars, wvars, hvars, commands, tampering>>
----------------------------------------------------------------------------
(* systemd reads the units again for anybody's sake.                       *)
ReloadByOthers ==
  /\ heard = Quiet /\ loaded' = UnitsOnDisk /\ loaded' # loaded /\ active' \in StartedStill
  /\ UNCHANGED <<pc, cmd, uvars, state, wvars, heard, hvars, commands, tampering>>

Reboot ==
  /\ pc = "idle" /\ heard = Quiet /\ loaded' = UnitsOnDisk
  /\ state' = IF state = "enabled-runtime" THEN "disabled" ELSE state
  /\ active' = (state = "enabled" /\ Startable)
  /\ UNCHANGED <<pc, cmd, uvars, wvars, heard, hvars, commands, tampering>>

(* The user: a unit edited to keep, closed or removed, the settings moved  *)
(* away, the timer handled, the passphrase changed.                        *)
EditService ==
  /\ service.there /\ service.readable
  /\ service' \in {Unit(FALSE, Encryption(a)) : a \in Asks} \cup {Absent, Closed}
  /\ UNCHANGED <<env, timer, tvars, wvars>>
EditTimer ==
  /\ timer.there /\ timer.readable
  /\ timer' \in {Unit(FALSE, timer.what), Absent}
  /\ UNCHANGED <<env, service, tvars, wvars>>
RemoveSettings == env.there /\ env' = Absent /\ UNCHANGED <<service, timer, tvars, wvars>>
HandleTimer ==
  /\ loaded.timer.there /\ state' \in {"disabled", "enabled", "enabled-runtime"}
  /\ active' \in BOOLEAN /\ tvars' # tvars
  /\ UNCHANGED <<uvars, wvars>>
ChangePassphrase ==
  /\ \/ passfile' \in Files /\ UNCHANGED held
     \/ held' \in Variables /\ UNCHANGED passfile
  /\ UNCHANGED <<uvars, tvars>>

Tamper ==
  /\ heard = Quiet /\ tampering < MaxTampering /\ tampering' = tampering + 1
  /\ EditService \/ EditTimer \/ RemoveSettings \/ HandleTimer \/ ChangePassphrase
  /\ granted' = Nothing /\ off' = (off /\ tvars' = tvars) /\ disturbed' = TRUE
  /\ UNCHANGED <<pc, cmd, loaded, heard, commands>>
----------------------------------------------------------------------------
Init ==
  /\ pc = "idle" /\ cmd = Nothing /\ env = Absent /\ service = Absent /\ timer = Absent
  /\ loaded = [service |-> Absent, timer |-> Absent]
  /\ state = "disabled" /\ active = FALSE /\ off = FALSE
  /\ passfile \in Files /\ held \in Variables /\ heard = Quiet /\ granted = Nothing
  /\ disturbed = FALSE /\ commands = 0 /\ tampering = 0

Command ==
  \/ Begin \/ WriteEnvironment \/ CheckService \/ WriteService \/ CheckTimer \/ WriteTimer
  \/ Reload \/ Enable \/ Kill
  \/ Off \/ Status \/ RefuseWithoutSystemd

Next == Command \/ Fire \/ Return \/ ReloadByOthers \/ Reboot \/ Tamper

Spec == Init /\ [][Next]_vars
----------------------------------------------------------------------------
TypeOK ==
  /\ pc \in {"idle", "env", "service", "write service", "timer", "write timer", "reload", "enable"}
  /\ state \in {"disabled", "enabled", "enabled-runtime"} /\ active \in BOOLEAN
  /\ pc = "idle" \/ cmd \in Asks
  /\ granted \in Asks \cup {Nothing}
  /\ passfile \in Files /\ held \in Variables
  /\ off \in BOOLEAN /\ disturbed \in BOOLEAN
  /\ commands \in 0..MaxCommands /\ tampering \in 0..MaxTampering

(* The inductive invariant: each step of a command nobody disturbs leaves  *)
(* its part in place for the steps after it, all of them are in place,     *)
(* loaded and started once it was granted, and what was last heard is      *)
(* still so.                                                               *)
InPlace(a) ==
  /\ acceptable(a) /\ env = Settings(a)
  /\ service = Unit(TRUE, Encryption(a)) /\ timer = Unit(TRUE, a.every) /\ loaded = UnitsOnDisk
  /\ a.every \in Calendars /\ state = "enabled" /\ active
CommandInv ==
  ~disturbed =>
    /\ pc # "idle" => acceptable(cmd)
    /\ pc \notin {"idle", "env"} => env = Settings(cmd)
    /\ pc \in {"timer", "write timer", "reload", "enable"} => service = Unit(TRUE, Encryption(cmd))
    /\ pc \in {"reload", "enable"} => timer = Unit(TRUE, cmd.every)
    /\ pc = "enable" => loaded = UnitsOnDisk
GrantInv == granted # Nothing => pc \in {"idle", "env"} /\ InPlace(granted)
OffInv == off => granted = Nothing /\ state = "disabled" /\ ~active
HeardInv ==
  /\ heard # Quiet => pc = "idle"
  /\ heard.by = "run" => heard = this_run
  /\ heard.by = "status" =>
       \E asked \in BOOLEAN : heard.word = timer_verdict(is_enabled(asked), load_state(asked))
ScheduleInv == CommandInv /\ GrantInv /\ OffInv /\ HeardInv

Undisturbed == granted # Nothing /\ heard.by = "run"
Usable(a) ==
  IF needs_no_passphrase(a) THEN \A i \in DOMAIN a.recipients : a.recipients[i] \in Keys
  ELSE LET found == IF a.file # Unset THEN passfile ELSE held
       IN  found \notin {"", Unreadable}
AbsolutePaths(a) == {a.home, a.output, a.file} \cap Relative = {}

(* Once `schedule` has said a backup will be taken, every run of the timer *)
(* works as that command was asked, whatever an earlier one, refused or    *)
(* killed anywhere, had left: at that hour, on that home, into that        *)
(* directory, with that retention, sealed that way.  For home, directory   *)
(* and passphrase file named by absolute paths (see FiresWhereAsked).      *)
FiresAsAsked ==
  Undisturbed /\ AbsolutePaths(granted) =>
    /\ loaded.timer.what = granted.every
    /\ heard.home = resolve(granted.home, "shell") /\ heard.keep = granted.keep
    /\ heard.dir = resolve(granted.output, "shell") /\ heard.rad = resolve(granted.rad, "shell")
    /\ heard.seal.by \in {Refused, IF granted.plaintext THEN "none"
                                   ELSE IF granted.recipients # <<>> THEN "recipients"
                                   ELSE "passphrase"}
    /\ heard.seal.to \in {<<>>, granted.recipients}

(* A scheduled run never stops for want of somebody to ask, whatever the   *)
(* shell of the command exported, if the passphrase it was pointed to is   *)
(* no empty one, the recipients are keys and the paths absolute.           *)
RunsNeedNobody ==
  Undisturbed /\ AbsolutePaths(granted) /\ Usable(granted) => heard.seal.by # Refused

(* After a `schedule` that said a backup will be taken, or an `--off` that *)
(* said the timer is off, `--status` and systemd agree, whatever has been  *)
(* refused, killed, reloaded or booted since: it calls the timer on only   *)
(* if runs will begin, off only if none will.  Until somebody handles the  *)
(* timer by other means.                                                   *)
StatusIsTrue ==
  heard.by = "status" /\ heard.word # "unknown" =>
    /\ granted # Nothing => timer_is_on(heard.word) /\ WillRun
    /\ off => ~timer_is_on(heard.word) /\ ~WillRun

(* src/cmd/schedule.rs: "no backup is scheduled on this machine", whoever  *)
(* handled the timer.                                                      *)
DisabledIsNotScheduled == heard.by = "status" /\ heard.word = "disabled" => ~WillRun

(* src/cmd/schedule.rs, of the unit this command wrote: "units written by  *)
(* an older version are still recognised and updated".                     *)
OwnUnitsAreReplaced ==
  heard.by = "refused" /\ heard.why = "not written by this tool" => tampering > 0

(* src/README.md: "It refuses to enable a timer that cannot work".         *)
EnabledTimerWorks == Undisturbed => heard.seal.by # Refused

(* FiresAsAsked from wherever the command was given.                       *)
FiresWhereAsked ==
  Undisturbed =>
    /\ heard.home = resolve(granted.home, "shell")
    /\ granted.output # Unset => heard.dir = resolve(granted.output, "shell")

(* src/cmd/schedule.rs: "this crontab line does the same job".             *)
CrontabDoesTheJob ==
  heard.by = "crontab" /\ heard.asked.keep # 0 =>
    heard.line.home = heard.asked.home /\ heard.line.keep = heard.asked.keep

(* src/cmd/schedule.rs: "systemd would not enable ..., so no backup is     *)
(* scheduled".                                                             *)
NotEnabledIsNotScheduled ==
  heard.by = "refused" /\ heard.why = "not enabled" => ~WillRun
=============================================================================
