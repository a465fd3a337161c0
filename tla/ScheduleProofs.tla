--------------------------- MODULE ScheduleProofs ---------------------------
(***************************************************************************)
(* What a schedule keeps true whatever is asked for, however often it is   *)
(* asked, refused, killed or disturbed.                                    *)
(***************************************************************************)
EXTENDS Schedule, TLAPS

USE DEF Refuse, Check, uvars, tvars, wvars, hvars

(* The bounded counters stay within their bounds.                          *)
LEMMA Counts ==
  ASSUME TypeOK, [Next]_vars
  PROVE  commands' \in 0..MaxCommands /\ tampering' \in 0..MaxTampering
<1>1. MaxCommands \in Nat /\ MaxTampering \in Nat
  BY ScheduleAssumption
<1>2. commands \in 0..MaxCommands /\ tampering \in 0..MaxTampering
  BY DEF TypeOK
<1>3. \/ commands' = commands
      \/ commands < MaxCommands /\ commands' = commands + 1
  BY DEF vars, Next, Command, Begin, WriteEnvironment, CheckService, WriteService, CheckTimer,
     WriteTimer, Reload, Enable, Kill, Off, Status, RefuseWithoutSystemd, Fire, Return, ReloadByOthers, Reboot, Tamper
<1>4. \/ tampering' = tampering
      \/ tampering < MaxTampering /\ tampering' = tampering + 1
  BY DEF vars, Next, Command, Begin, WriteEnvironment, CheckService, WriteService, CheckTimer,
     WriteTimer, Reload, Enable, Kill, Off, Status, RefuseWithoutSystemd, Fire, Return, ReloadByOthers, Reboot, Tamper
<1>5. commands' \in 0..MaxCommands
  BY <1>1, <1>2, <1>3
<1>6. tampering' \in 0..MaxTampering
  BY <1>1, <1>2, <1>4
<1> QED
  BY <1>5, <1>6

(* Every variable keeps its type.                                          *)
THEOREM ScheduleTypeCorrect == Spec => []TypeOK
<1>1. Init => TypeOK
  <2>1. MaxCommands \in Nat /\ MaxTampering \in Nat
    BY ScheduleAssumption
  <2>2. Init => commands \in 0..MaxCommands /\ tampering \in 0..MaxTampering
    BY <2>1 DEF Init
  <2> QED
    BY <2>2 DEF Init, TypeOK
<1>2. TypeOK /\ [Next]_vars => TypeOK'
  <2> SUFFICES ASSUME TypeOK, [Next]_vars PROVE TypeOK'
    OBVIOUS
  <2> USE Counts DEF TypeOK
  <2>1. CASE Begin
    BY <2>1 DEF Begin
  <2>2. CASE WriteEnvironment \/ WriteService \/ WriteTimer
    BY <2>2 DEF WriteEnvironment, WriteService, WriteTimer
  <2>11. CASE CheckService \/ CheckTimer
    BY <2>11 DEF CheckService, CheckTimer
  <2>3. CASE Reload \/ Enable
    BY <2>3 DEF Reload, Enable, StartedStill
  <2>4. CASE Kill
    BY <2>4 DEF Kill
  <2>5. CASE Off \/ Status \/ RefuseWithoutSystemd
    BY <2>5 DEF Off, Status, RefuseWithoutSystemd
  <2>6. CASE Fire \/ Return \/ ReloadByOthers
    BY <2>6 DEF Fire, Return, ReloadByOthers, StartedStill
  <2>7. CASE Reboot
    BY <2>7 DEF Reboot
  <2>8. CASE Tamper
    BY <2>8 DEF Tamper, EditService, EditTimer, RemoveSettings, HandleTimer, ChangePassphrase
  <2>9. CASE UNCHANGED vars
    BY <2>9 DEF vars
  <2>10. QED
    BY <2>1, <2>2, <2>3, <2>4, <2>5, <2>6, <2>7, <2>8, <2>9, <2>11 DEF Next, Command
<1>3. QED
  BY <1>1, <1>2, PTL DEF Spec

(* A command leaves its part in place for the steps after it.              *)
LEMMA CommandStep ==
  ASSUME TypeOK, ScheduleInv, [Next]_vars
  PROVE  CommandInv'
<1> USE DEF ScheduleInv, CommandInv, acceptable, systemd_holds
<1>1. CASE Begin
  BY <1>1 DEF Begin
<1>2. CASE WriteEnvironment
  BY <1>2 DEF WriteEnvironment, environment_text
<1>3. CASE WriteService
  BY <1>3 DEF WriteService
<1>4. CASE WriteTimer
  BY <1>4 DEF WriteTimer
<1>11. CASE CheckService \/ CheckTimer
  BY <1>11 DEF CheckService, CheckTimer
<1>5. CASE Reload
  BY <1>5 DEF Reload, UnitsOnDisk
<1>6. CASE Enable \/ Kill
  BY <1>6 DEF Enable, Kill
<1>7. CASE Off \/ Status \/ RefuseWithoutSystemd \/ Fire \/ Return
  BY <1>7 DEF Off, Status, RefuseWithoutSystemd, Fire, Return, UnitsOnDisk
<1>8. CASE ReloadByOthers \/ Reboot
  BY <1>8 DEF ReloadByOthers, Reboot, UnitsOnDisk
<1>9. CASE Tamper
  BY <1>9 DEF Tamper
<1>10. CASE UNCHANGED vars
  BY <1>10 DEF vars, UnitsOnDisk
<1> QED
  BY <1>1, <1>2, <1>3, <1>4, <1>5, <1>6, <1>7, <1>8, <1>9, <1>10, <1>11 DEF Next, Command

(* What was granted is in place and loaded, until a command begins to      *)
(* write again or somebody changes it.                                     *)
LEMMA GrantStep ==
  ASSUME TypeOK, ScheduleInv, [Next]_vars
  PROVE  GrantInv'
<1> USE DEF ScheduleInv, GrantInv, InPlace, acceptable, systemd_holds, UnitsOnDisk, StartedStill,
        Startable
<1>1. CASE Begin
  BY <1>1 DEF Begin
<1>2. CASE WriteEnvironment
  BY <1>2 DEF WriteEnvironment
<1>3. CASE CheckService \/ WriteService \/ CheckTimer \/ WriteTimer \/ Reload
  BY <1>3 DEF CheckService, WriteService, CheckTimer, WriteTimer, Reload
<1>4. CASE Enable
  <2>1. CASE granted' = granted
    BY <1>4, <2>1 DEF Enable, CommandInv
  <2>2. CASE granted' # granted
    <3>1. /\ ~disturbed /\ granted' = cmd /\ pc' = "idle" /\ state' = "enabled" /\ active'
          /\ loaded.timer.what \in Calendars
      BY <1>4, <2>2 DEF Enable, CommandInv
    <3>2. /\ acceptable(cmd) /\ env = Settings(cmd) /\ loaded = UnitsOnDisk
          /\ service = Unit(TRUE, Encryption(cmd)) /\ timer = Unit(TRUE, cmd.every)
      BY <1>4, <3>1 DEF Enable, CommandInv
    <3>3. cmd.every \in Calendars
      BY <3>1, <3>2 DEF Unit
    <3>4. UNCHANGED <<env, service, timer, loaded, held>>
      BY <1>4 DEF Enable
    <3> QED
      BY <3>1, <3>2, <3>3, <3>4
  <2> QED
    BY <2>1, <2>2
<1>5. CASE Kill
  BY <1>5 DEF Kill
<1>6. CASE Off \/ Status \/ RefuseWithoutSystemd \/ Fire \/ Return
  BY <1>6 DEF Off, Status, RefuseWithoutSystemd, Fire, Return
<1>7. CASE ReloadByOthers \/ Reboot
  <2>1. CASE granted = Nothing
    BY <1>7, <2>1 DEF ReloadByOthers, Reboot
  <2>2. CASE granted # Nothing
    <3>1. timer.there /\ timer.what \in Calendars
      BY <2>2 DEF Unit
    <3>2. state' = "enabled" /\ active' = TRUE
      BY <1>7, <2>2, <3>1 DEF ReloadByOthers, Reboot, TypeOK
    <3> QED
      BY <1>7, <2>2, <3>2 DEF ReloadByOthers, Reboot
  <2> QED
    BY <2>1, <2>2
<1>8. CASE Tamper
  BY <1>8 DEF Tamper
<1>9. CASE UNCHANGED vars
  BY <1>9 DEF vars
<1> QED
  BY <1>1, <1>2, <1>3, <1>4, <1>5, <1>6, <1>7, <1>8, <1>9 DEF Next, Command

(* A timer `--off` took down stays down until somebody sets it up again.   *)
LEMMA OffStep ==
  ASSUME TypeOK, ScheduleInv, [Next]_vars
  PROVE  OffInv'
<1> USE DEF ScheduleInv, OffInv
<1>1. CASE Begin \/ WriteEnvironment \/ CheckService \/ WriteService \/ CheckTimer \/ WriteTimer
  BY <1>1 DEF Begin, WriteEnvironment, CheckService, WriteService, CheckTimer, WriteTimer
<1>2. CASE Reload \/ ReloadByOthers \/ Reboot
  BY <1>2 DEF Reload, ReloadByOthers, Reboot, StartedStill
<1>3. CASE Enable
  BY <1>3 DEF Enable
<1>4. CASE Off \/ Kill
  BY <1>4 DEF Off, Kill
<1>5. CASE Status \/ RefuseWithoutSystemd \/ Fire \/ Return
  BY <1>5 DEF Status, RefuseWithoutSystemd, Fire, Return
<1>6. CASE Tamper
  <2>1. off' = (off /\ <<state, active>>' = <<state, active>>) /\ granted' = Nothing
    BY <1>6 DEF Tamper
  <2>2. off' => off /\ state' = state /\ active' = active
    BY <2>1, Zenon
  <2> QED
    BY <2>1, <2>2
<1>7. CASE UNCHANGED vars
  BY <1>7 DEF vars
<1> QED
  BY <1>1, <1>2, <1>3, <1>4, <1>5, <1>6, <1>7 DEF Next, Command

(* What was heard is still so: nothing else happens until it was heard.    *)
LEMMA HeardStep ==
  ASSUME TypeOK, ScheduleInv, [Next]_vars
  PROVE  HeardInv'
<1> USE DEF ScheduleInv, HeardInv
<1> HIDE DEF Refuse
<1>a. ASSUME heard' = Quiet PROVE HeardInv'
  BY <1>a DEF Quiet
<1>b. ASSUME pc' = "idle", heard'.by \notin {"run", "status"} PROVE HeardInv'
  BY <1>b
<1>c. ASSUME NEW why, Refuse(why) PROVE HeardInv'
  <2>1. pc' = "idle" /\ heard'.by = "refused"
    BY <1>c DEF Refuse
  <2> QED
    BY <2>1, <1>b
<1>1. CASE \/ Begin \/ WriteEnvironment \/ CheckService \/ WriteService
           \/ CheckTimer \/ WriteTimer \/ Reload
  <2>1. heard = Quiet
    BY <1>1 DEF Begin, WriteEnvironment, CheckService, WriteService, CheckTimer, WriteTimer, Reload
  <2>2. CASE Begin
    BY <2>1, <2>2, <1>a, <1>c DEF Begin
  <2>3. CASE WriteEnvironment \/ WriteService \/ WriteTimer
    BY <2>1, <2>3, <1>a, <1>c DEF WriteEnvironment, WriteService, WriteTimer
  <2>4. CASE CheckService \/ CheckTimer \/ Reload
    BY <2>1, <2>4, <1>a, <1>c DEF CheckService, CheckTimer, Reload
  <2> QED
    BY <1>1, <2>2, <2>3, <2>4
<1>2. CASE Kill \/ ReloadByOthers \/ Reboot \/ Tamper
  <2>1. heard' = Quiet
    BY <1>2 DEF Kill, ReloadByOthers, Reboot, Tamper
  <2> QED
    BY <2>1, <1>a
<1>7. CASE Enable
  <2>1. heard' = [by |-> "scheduled"] /\ pc' = "idle" => HeardInv'
    BY <1>b
  <2> QED
    BY <1>7, <2>1, <1>c DEF Enable
<1>9. CASE Off
  <2>1. heard' = [by |-> "off"] /\ pc' = "idle" => HeardInv'
    BY <1>b
  <2> QED
    BY <1>9, <2>1, <1>c DEF Off
<1>3. CASE Status
  <2>1. PICK asked \in BOOLEAN :
          heard' = [by |-> "status", word |-> timer_verdict(is_enabled(asked), load_state(asked))]
    BY <1>3 DEF Status
  <2>2. pc' = "idle" /\ UNCHANGED <<timer, loaded, state>>
    BY <1>3 DEF Status
  <2>3. heard'.by = "status"
        /\ heard'.word = timer_verdict(is_enabled(asked)', load_state(asked)')
    BY <2>1, <2>2 DEF is_enabled, load_state
  <2> QED
    BY <2>2, <2>3 DEF timer_verdict
<1>4. CASE Fire
  BY <1>4 DEF Fire, this_run, read_now, at_hand, Quiet
<1>5. CASE RefuseWithoutSystemd
  <2>1. pc' = "idle" /\ heard'.by = "crontab"
    BY <1>5 DEF RefuseWithoutSystemd
  <2> QED
    BY <2>1, <1>b
<1>8. CASE Return
  BY <1>8, <1>a DEF Return
<1>6. CASE UNCHANGED vars
  BY <1>6 DEF vars, this_run, read_now, at_hand, timer_verdict, is_enabled, load_state
<1> QED
  BY <1>1, <1>2, <1>3, <1>4, <1>5, <1>6, <1>7, <1>8, <1>9 DEF Next, Command

(* The inductive invariant.                                                *)
THEOREM ScheduleInvariant == Spec => []ScheduleInv
<1>1. Init => ScheduleInv
  BY DEF Init, ScheduleInv, CommandInv, GrantInv, OffInv, HeardInv, Quiet
<1>2. TypeOK /\ ScheduleInv /\ [Next]_vars => ScheduleInv'
  BY CommandStep, GrantStep, OffStep, HeardStep DEF ScheduleInv
<1>3. QED
  BY <1>1, <1>2, ScheduleTypeCorrect, PTL DEF Spec

(* `--status` agrees with systemd about a timer that was last handled by a *)
(* `schedule` or an `--off` that said it was done.                         *)
THEOREM StatusWord == Spec => []StatusIsTrue
<1>1. TypeOK /\ ScheduleInv => StatusIsTrue
  <2> SUFFICES ASSUME TypeOK, ScheduleInv, heard.by = "status", heard.word # "unknown"
               PROVE  /\ granted # Nothing => timer_is_on(heard.word) /\ WillRun
                      /\ off => ~timer_is_on(heard.word) /\ ~WillRun
    BY DEF StatusIsTrue
  <2>1. ASSUME granted # Nothing PROVE state = "enabled" /\ timer.there /\ loaded.timer.there /\ active
    <3>1. InPlace(granted)
      BY <2>1 DEF ScheduleInv, GrantInv
    <3> QED
      BY <3>1 DEF InPlace, UnitsOnDisk, Unit
  <2>2. PICK asked \in BOOLEAN : heard.word = timer_verdict(is_enabled(asked), load_state(asked))
    BY DEF ScheduleInv, HeardInv
  <2>3. heard.word \in {state, "disabled"}
    BY <2>2 DEF timer_verdict, is_enabled
  <2>4. granted # Nothing => heard.word = state
    BY <2>1, <2>2 DEF timer_verdict, is_enabled, load_state
  <2> QED
    BY <2>1, <2>3, <2>4 DEF ScheduleInv, OffInv, timer_is_on, WillRun
<1>2. QED
  BY <1>1, ScheduleTypeCorrect, ScheduleInvariant, PTL

(* A timer that was granted works as asked, ...                            *)
THEOREM TimerWorks == Spec => []FiresAsAsked
<1>1. TypeOK /\ ScheduleInv => FiresAsAsked
  <2> SUFFICES ASSUME TypeOK, ScheduleInv, Undisturbed, AbsolutePaths(granted)
               PROVE  FiresAsAsked
    BY DEF FiresAsAsked
  <2>1. heard = this_run /\ InPlace(granted)
    BY DEF ScheduleInv, HeardInv, GrantInv, Undisturbed
  <2>2. read_now = Settings(granted) /\ loaded.service.what = Encryption(granted)
        /\ loaded.timer.what = granted.every
    BY <2>1 DEF InPlace, read_now, UnitsOnDisk, Unit, Settings
  <2>3. /\ heard.home = resolve(granted.home, "user's home") /\ heard.keep = granted.keep
        /\ heard.rad = resolve(granted.rad, "shell")
        /\ heard.dir = resolve(granted.output, "user's home")
    BY <2>1, <2>2 DEF this_run, Settings
  <2>4. heard.dir = resolve(granted.output, "shell") /\ heard.home = resolve(granted.home, "shell")
    BY <2>3 DEF resolve, AbsolutePaths
  <2>5. heard.seal = ask_encryption(Encryption(granted), at_hand(read_now), Keys)
    BY <2>1, <2>2 DEF this_run
  <2>6. /\ heard.seal.by \in {Refused, IF granted.plaintext THEN "none"
                                       ELSE IF granted.recipients # <<>> THEN "recipients"
                                       ELSE "passphrase"}
        /\ heard.seal.to \in {<<>>, granted.recipients}
    BY <2>5 DEF ask_encryption, parse_recipients, Seal, Encryption
  <2> QED
    BY <2>2, <2>3, <2>4, <2>6 DEF FiresAsAsked
<1>2. QED
  BY <1>1, ScheduleTypeCorrect, ScheduleInvariant, PTL

(* ... with nobody there.                                                  *)
THEOREM NobodyNeeded == Spec => []RunsNeedNobody
<1>1. TypeOK /\ ScheduleInv => RunsNeedNobody
  <2> SUFFICES ASSUME TypeOK, ScheduleInv, Undisturbed, AbsolutePaths(granted), Usable(granted)
               PROVE  heard.seal.by # Refused
    BY DEF RunsNeedNobody
  <2>1. heard = this_run /\ InPlace(granted)
    BY DEF ScheduleInv, HeardInv, GrantInv, Undisturbed
  <2>2. read_now = Settings(granted) /\ loaded.service.what = Encryption(granted)
    BY <2>1 DEF InPlace, read_now, UnitsOnDisk, Unit, Settings
  <2>3. heard.seal = ask_encryption(Encryption(granted), at_hand(Settings(granted)), Keys)
    BY <2>1, <2>2 DEF this_run
  <2>4. CASE granted.plaintext
    BY <2>3, <2>4 DEF ask_encryption, Seal, Encryption, Refused
  <2>5. CASE ~granted.plaintext /\ granted.recipients # <<>>
    BY <2>3, <2>5 DEF ask_encryption, parse_recipients, Seal, Encryption, Refused, Usable,
       needs_no_passphrase
  <2>6. CASE ~granted.plaintext /\ granted.recipients = <<>>
    <3> DEFINE found == IF granted.file # Unset THEN passfile ELSE held
    <3>1. found \notin {"", Unreadable}
      BY <2>6 DEF Usable, needs_no_passphrase
    <3>2. found \notin {Unset, Refused}
      BY <2>1, <2>6, <3>1, ScheduleAssumption
      DEF InPlace, acceptable, systemd_holds, needs_no_passphrase, TypeOK, Files, Variables,
          Unset, Refused, Unreadable
    <3> DEFINE hand == at_hand(Settings(granted))
    <3>3. /\ hand.file = IF granted.file = Unset THEN Unset ELSE passfile
          /\ hand.variable = held
      BY DEF at_hand, Settings, AbsolutePaths
    <3>4. read_passphrase(hand, "Sealing") = found
      BY <3>1, <3>2, <3>3 DEF read_passphrase, refuse_if_empty, Unset, Unreadable
    <3> QED
      BY <2>3, <2>6, <3>2, <3>4 DEF ask_encryption, Seal, Encryption, Refused
  <2> QED
    BY <2>4, <2>5, <2>6
<1>2. QED
  BY <1>1, ScheduleTypeCorrect, ScheduleInvariant, PTL
=============================================================================
