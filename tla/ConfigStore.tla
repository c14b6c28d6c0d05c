---------------------------- MODULE ConfigStore ----------------------------
(***************************************************************************)
(* How RetroShare keeps its settings (pqi/p3cfgmgr.cc): p3ConfigMgr asks    *)
(* its p3Config objects every few seconds whether they have changed, and   *)
(* one that has writes a signed file of its own.  The server thread ticks, *)
(* the thread that shuts the program down saves once more, the threads     *)
(* that change settings come in between, and the program may be killed at  *)
(* any step.                                                               *)
(*                                                                         *)
(* A configuration is the number of the change that produced it; 0 is the  *)
(* one a program starts with when it has loaded nothing.  Four files count *)
(* for each: the configuration F and its signature F.sgn, and a backup of  *)
(* each (.tmp); two more (_new) are being written.  An action is one call  *)
(* to the file system, or what happens under one hold of a mutex.          *)
(***************************************************************************)
EXTENDS Integers

CONSTANTS
    Configs,      \* the p3Config objects registered with the manager
    Failures,     \* the steps of a save that may fail, of FailureKinds
    MaxChanges,   \* bound: changes made to all configurations
    MaxFailures,  \* bound: failures of calls to the file system
    MaxDiscFull,  \* bound: saves that find the disc too full to try
    MaxCrashes    \* bound: times the program is killed

FailureKinds == {"serialise", "fwrite", "fclose", "sign", "rename"}

ASSUME ConfigStoreAssumption ==
    /\ Failures \subseteq FailureKinds
    /\ {MaxChanges, MaxFailures, MaxDiscFull, MaxCrashes} \subseteq Nat

VARIABLES
    alive,       \* the program is running
    value,       \* value[c]: the configuration in memory
    calls,       \* calls[c]: setSetting calls between change and indication
    changed,     \* changed[c]: flags 0 and 1 of the Indicator
    saveActive,  \* mConfigSaveActive
    pc,          \* pc[t]: where thread t is
    holder,      \* the thread that holds the manager's cfgMtx to save
    todo,        \* configurations saveConfig has still to visit
    cur,         \* the one being saved
    step,        \* and how far p3Config::saveConfig has got with it
    snap,        \* the configuration saveList returned
    hash,        \* what was hashed, and is signed
    disk,        \* disk[c]: the files of c
    saved,       \* saved[c]: last configuration loaded or completely saved
    due,         \* due[c]: what the final save of a shutdown owes
    changes, failures, discFulls, crashes    \* counted against the bounds

memory == <<value, calls, changed, saveActive>>
threads == <<pc, holder, todo, cur, step, snap, hash>>
counters == <<changes, failures, discFulls, crashes>>
vars == <<alive, memory, threads, disk, saved, due, counters>>

Threads == {"tick", "exit"}
None == "none"

(* Contents of a file other than a configuration, or the signature of one. *)
Absent == -1
Torn == -2

(* Files are named as in the source: a .tmp is a backup, a _new is being   *)
(* written.                                                                *)
File == {Absent, Torn} \cup Nat
Files == [cfg : File, sgn : File, cfgTmp : File, sgnTmp : File,
          cfgNew : File, sgnNew : File]
NoFiles == [cfg |-> Absent, sgn |-> Absent, cfgTmp |-> Absent,
            sgnTmp |-> Absent, cfgNew |-> Absent, sgnNew |-> Absent]

(***************************************************************************)
(* Loading                                                                 *)
(***************************************************************************)

(* The hash of a file that is not there is the hash of no data; that of a  *)
(* torn one is signed nowhere.                                             *)
HashOf(file) == IF file = Absent THEN 0 ELSE file

(* Mutant of LoadAttempt: the signature only has to be there.              *)
LoadAttemptUnsigned(cfg, sgn) == sgn # Absent

LoadAttempt(cfg, sgn) == sgn >= 0 /\ sgn = HashOf(cfg)

(* Mutant of Loaded: the signature of the backup is not looked at.         *)
LoadedBackupUnsigned(d) ==
    IF LoadAttempt(d.cfg, d.sgn) THEN HashOf(d.cfg) ELSE HashOf(d.cfgTmp)

(* What loadConfig makes of the files: the current ones, or the backup, or *)
(* nothing.                                                                *)
Loaded(d) ==
    IF LoadAttempt(d.cfg, d.sgn) THEN HashOf(d.cfg)
    ELSE IF LoadAttempt(d.cfgTmp, d.sgnTmp) THEN HashOf(d.cfgTmp)
    ELSE 0

(***************************************************************************)
(* Saving: saveConfig of p3ConfigMgr and of p3Config                       *)
(***************************************************************************)

TypeOK ==
    /\ alive \in BOOLEAN
    /\ value \in [Configs -> Nat]
    /\ calls \in [Configs -> Nat]
    /\ changed \in [Configs -> [{0, 1} -> BOOLEAN]]
    /\ saveActive \in BOOLEAN
    /\ pc \in [Threads -> {"idle", "save", "saving", "disable", "done"}]
    /\ holder \in Threads \cup {None}
    /\ todo \in SUBSET Configs
    /\ cur \in Configs \cup {None}
    /\ step \in {"next", "list", "write", "sign", "backup", "backupSgn",
                 "install", "installSgn"}
    /\ snap \in Nat
    /\ hash \in Nat
    /\ disk \in [Configs -> Files]
    /\ saved \in [Configs -> Nat]
    /\ due \in [Configs -> Nat]
    /\ changes \in Nat /\ failures \in Nat /\ discFulls \in Nat /\ crashes \in Nat

Init ==
    /\ alive = FALSE
    /\ value = [c \in Configs |-> 0]
    /\ calls = [c \in Configs |-> 0]
    /\ changed = [c \in Configs |-> [i \in {0, 1} |-> TRUE]]
    /\ saveActive = TRUE
    /\ pc = [t \in Threads |-> "idle"]
    /\ holder = None /\ todo = {} /\ cur = None
    /\ step = "next" /\ snap = 0 /\ hash = 0
    /\ disk = [c \in Configs |-> NoFiles]
    /\ saved = [c \in Configs |-> 0]
    /\ due = [c \in Configs |-> 0]
    /\ changes = 0 /\ failures = 0 /\ discFulls = 0 /\ crashes = 0

(* A step of kind k fails. *)
Fails(k) ==
    /\ k \in Failures
    /\ failures < MaxFailures
    /\ failures' = failures + 1
Succeeds == failures' = failures

(* setSetting: the change is made under the mutex of the configuration,    *)
(* and indicated after that mutex has been released.                       *)
SetSetting(c) ==
    /\ alive
    /\ changes < MaxChanges
    /\ changes' = changes + 1
    /\ value' = [value EXCEPT ![c] = changes + 1]
    /\ calls' = [calls EXCEPT ![c] = @ + 1]
    /\ UNCHANGED <<alive, changed, saveActive, threads, disk, saved, due,
                   failures, discFulls, crashes>>

Indicate(c) ==
    /\ alive
    /\ calls[c] > 0
    /\ calls' = [calls EXCEPT ![c] = @ - 1]
    /\ changed' = [changed EXCEPT ![c] = [i \in {0, 1} |-> TRUE]]
    /\ UNCHANGED <<alive, value, saveActive, threads, disk, saved, due, counters>>

(* Mutant of TickScan: flag 1 is cleared with flag 0.                      *)
TickScanBothFlags ==
    /\ alive
    /\ pc["tick"] = "idle"
    /\ holder = None
    /\ changed' = [c \in Configs |-> [i \in {0, 1} |-> FALSE]]
    /\ pc' = [pc EXCEPT !["tick"] =
                IF saveActive /\ \E c \in Configs : changed[c][0]
                  THEN "save" ELSE "idle"]
    /\ UNCHANGED <<alive, value, calls, saveActive, holder, todo, cur, step,
                   snap, hash, disk, saved, due, counters>>

(* p3ConfigMgr::tick looks at, and clears, flag 0 of every configuration.  *)
TickScan ==
    /\ alive
    /\ pc["tick"] = "idle"
    /\ holder = None
    /\ changed' = [c \in Configs |-> [changed[c] EXCEPT ![0] = FALSE]]
    /\ pc' = [pc EXCEPT !["tick"] =
                IF saveActive /\ \E c \in Configs : changed[c][0]
                  THEN "save" ELSE "idle"]
    /\ UNCHANGED <<alive, value, calls, saveActive, holder, todo, cur, step,
                   snap, hash, disk, saved, due, counters>>

(* The program shuts down: completeConfiguration saves, then disables      *)
(* saving.  What was changed and indicated by now is due.                  *)
BeginExit ==
    /\ alive
    /\ pc["exit"] = "idle"
    /\ pc' = [pc EXCEPT !["exit"] = "save"]
    /\ due' = [c \in Configs |-> IF calls[c] = 0 THEN value[c] ELSE 0]
    /\ UNCHANGED <<alive, memory, holder, todo, cur, step, snap, hash, disk,
                   saved, counters>>

Returns(t) == IF t = "tick" THEN "idle" ELSE "disable"

(* saveConfiguration gives up when there is no space on the disc.          *)
DiscFull(t) ==
    /\ alive
    /\ pc[t] = "save"
    /\ discFulls < MaxDiscFull
    /\ discFulls' = discFulls + 1
    /\ pc' = [pc EXCEPT ![t] = Returns(t)]
    /\ UNCHANGED <<alive, memory, holder, todo, cur, step, snap, hash, disk,
                   saved, due, changes, failures, crashes>>

BeginSave(t) ==
    /\ alive
    /\ pc[t] = "save"
    /\ holder = None
    /\ holder' = t
    /\ pc' = [pc EXCEPT ![t] = "saving"]
    /\ todo' = Configs
    /\ UNCHANGED <<alive, memory, cur, step, snap, hash, disk, saved, due, counters>>

(* Mutant of Visit: the flag looked at is the one tick has cleared.        *)
VisitFlag0(c) ==
    /\ alive /\ holder # None /\ step = "next"
    /\ c \in todo
    /\ todo' = todo \ {c}
    /\ cur' = c
    /\ step' = IF changed[c][0] THEN "list" ELSE "next"
    /\ changed' = [changed EXCEPT ![c][0] = FALSE]
    /\ UNCHANGED <<alive, value, calls, saveActive, pc, holder, snap, hash,
                   disk, saved, due, counters>>

(* saveConfig asks the next configuration for flag 1, which clears it.     *)
Visit(c) ==
    /\ alive /\ holder # None /\ step = "next"
    /\ c \in todo
    /\ todo' = todo \ {c}
    /\ cur' = c
    /\ step' = IF changed[c][1] THEN "list" ELSE "next"
    /\ changed' = [changed EXCEPT ![c][1] = FALSE]
    /\ UNCHANGED <<alive, value, calls, saveActive, pc, holder, snap, hash,
                   disk, saved, due, counters>>

EndSave ==
    /\ alive /\ holder # None /\ step = "next"
    /\ todo = {}
    /\ holder' = None
    /\ pc' = [pc EXCEPT ![holder] = Returns(holder)]
    /\ UNCHANGED <<alive, memory, todo, cur, step, snap, hash, disk, saved,
                   due, counters>>

SaveList ==
    /\ alive /\ step = "list"
    /\ snap' = value[cur]
    /\ step' = "write"
    /\ UNCHANGED <<alive, memory, pc, holder, todo, cur, hash, disk, saved,
                   due, counters>>

(* Mutant of WriteNew: the file in use is removed first.                   *)
WriteNewRemovesOld(file, hashed) ==
    /\ disk' = [disk EXCEPT ![cur].cfgNew = file, ![cur].cfg = Absent]
    /\ hash' = hashed

(* The configuration is written to F_new, and what was written is hashed.  *)
(* An item that does not serialise, or a write that fails, is reported and *)
(* nothing is hashed; an error on closing the file goes unnoticed.         *)
WriteNew(file, hashed) ==
    /\ disk' = [disk EXCEPT ![cur].cfgNew = file]
    /\ hash' = hashed

Write ==
    /\ alive /\ step = "write"
    /\ step' = "sign"
    /\ \/ WriteNew(snap, snap) /\ Succeeds
       \/ WriteNew(0, 0) /\ Fails("serialise")
       \/ WriteNew(Torn, 0) /\ Fails("fwrite")
       \/ WriteNew(Torn, snap) /\ Fails("fclose")
    /\ UNCHANGED <<alive, memory, pc, holder, todo, cur, snap, saved, due,
                   changes, discFulls, crashes>>

(* The hash is signed and the signature written to F.sgn_new.              *)
Sign ==
    /\ alive /\ step = "sign"
    /\ step' = "backup"
    /\ \/ disk' = [disk EXCEPT ![cur].sgnNew = hash] /\ Succeeds
       \/ disk' = [disk EXCEPT ![cur].sgnNew = Torn] /\ Fails("sign")
    /\ UNCHANGED <<alive, memory, pc, holder, todo, cur, snap, hash, saved,
                   due, changes, discFulls, crashes>>

(* The four renames.  F becomes F.tmp, and if that worked F.sgn becomes    *)
(* F.sgn.tmp; then F_new becomes F, and if that worked F.sgn_new F.sgn.    *)
(* A rename fails when the file is not there, or when the system says so;  *)
(* then the second of the two is left out.                                 *)
Rename(from, to, next, otherwise) ==
    /\ \/ /\ disk[cur][from] # Absent
          /\ disk' = [disk EXCEPT ![cur] =
                [@ EXCEPT ![to] = disk[cur][from], ![from] = Absent]]
          /\ step' = next
          /\ Succeeds
       \/ disk[cur][from] = Absent /\ UNCHANGED disk /\ step' = otherwise /\ Succeeds
       \/ UNCHANGED disk /\ step' = otherwise /\ Fails("rename")
    /\ UNCHANGED <<alive, memory, pc, holder, todo, cur, snap, hash, due,
                   changes, discFulls, crashes>>

BackupCfg ==
    /\ alive /\ step = "backup"
    /\ Rename("cfg", "cfgTmp", "backupSgn", "install")
    /\ UNCHANGED saved

BackupSgn ==
    /\ alive /\ step = "backupSgn"
    /\ Rename("sgn", "sgnTmp", "install", "install")
    /\ UNCHANGED saved

InstallCfg ==
    /\ alive /\ step = "install"
    /\ Rename("cfgNew", "cfg", "installSgn", "next")
    /\ UNCHANGED saved

(* Mutant of InstallSgn: flag 1 is cleared when the save is done.          *)
InstallSgnClears ==
    /\ alive /\ step = "installSgn"
    /\ disk' = [disk EXCEPT ![cur].sgn = disk[cur].sgnNew, ![cur].sgnNew = Absent]
    /\ step' = "next"
    /\ saved' = [saved EXCEPT ![cur] = snap]
    /\ changed' = [changed EXCEPT ![cur][1] = FALSE]
    /\ UNCHANGED <<alive, value, calls, saveActive, pc, holder, todo, cur,
                   snap, hash, due, counters>>

InstallSgn ==
    /\ alive /\ step = "installSgn"
    /\ Rename("sgnNew", "sgn", "next", "next")
    /\ saved' = [saved EXCEPT ![cur] = IF Loaded(disk'[cur]) = snap THEN snap ELSE @]

(* completeConfiguration takes the mutex once more to disable saving.      *)
DisableSave ==
    /\ alive
    /\ pc["exit"] = "disable"
    /\ holder = None
    /\ saveActive' = FALSE
    /\ pc' = [pc EXCEPT !["exit"] = "done"]
    /\ UNCHANGED <<alive, value, calls, changed, holder, todo, cur, step,
                   snap, hash, disk, saved, due, counters>>

(* The program is gone, and all it had in memory. *)
Forget ==
    /\ alive' = FALSE
    /\ value' = [c \in Configs |-> 0]
    /\ calls' = [c \in Configs |-> 0]
    /\ changed' = [c \in Configs |-> [i \in {0, 1} |-> TRUE]]
    /\ saveActive' = TRUE
    /\ pc' = [t \in Threads |-> "idle"]
    /\ holder' = None /\ todo' = {} /\ cur' = None
    /\ step' = "next" /\ snap' = 0 /\ hash' = 0

(* A shutdown that has run to its end waits for the server thread.         *)
Stop ==
    /\ alive
    /\ pc["exit"] = "done" /\ pc["tick"] = "idle"
    /\ Forget
    /\ UNCHANGED <<disk, saved, due, counters>>

(* The program is killed; a file it was writing is empty or torn.          *)
Crash ==
    /\ alive
    /\ crashes < MaxCrashes
    /\ crashes' = crashes + 1
    /\ Forget
    /\ \/ UNCHANGED disk
       \/ step = "write" /\ \E f \in {0, Torn} : disk' = [disk EXCEPT ![cur].cfgNew = f]
       \/ step = "sign" /\ disk' = [disk EXCEPT ![cur].sgnNew = Torn]
    /\ UNCHANGED <<saved, due, changes, failures, discFulls>>

(* The program starts: every configuration is loaded and marked unchanged. *)
Restart ==
    /\ ~alive
    /\ alive' = TRUE
    /\ value' = [c \in Configs |-> Loaded(disk[c])]
    /\ saved' = value'
    /\ changed' = [c \in Configs |-> [i \in {0, 1} |-> FALSE]]
    /\ due' = [c \in Configs |-> 0]
    /\ UNCHANGED <<calls, saveActive, threads, disk, counters>>

Saving ==
    \/ \E c \in Configs : Visit(c)
    \/ EndSave \/ SaveList \/ Write \/ Sign
    \/ BackupCfg \/ BackupSgn \/ InstallCfg \/ InstallSgn

Next ==
    \/ \E c \in Configs : SetSetting(c) \/ Indicate(c)
    \/ TickScan
    \/ BeginExit
    \/ \E t \in Threads : DiscFull(t) \/ BeginSave(t)
    \/ Saving
    \/ DisableSave
    \/ Stop \/ Crash \/ Restart

Spec == Init /\ [][Next]_vars

(* The server thread ticks, threads go on once they have begun, and no one *)
(* holds the mutex for ever.                                               *)
Fairness ==
    /\ \A c \in Configs : WF_vars(Indicate(c))
    /\ WF_vars(TickScan)
    /\ \A t \in Threads : WF_vars(BeginSave(t))
    /\ WF_vars(Saving)
    /\ WF_vars(DisableSave)

FairSpec == Spec /\ Fairness

(***************************************************************************)
(* Properties                                                              *)
(***************************************************************************)

(* The save of c is at one of the steps S.                                 *)
SavingAt(c, S) == alive /\ cur = c /\ step \in S

(* Two files of d are a configuration at least as new as v and its         *)
(* signature.                                                              *)
Pair(cfg, sgn, v) == LoadAttempt(cfg, sgn) /\ sgn >= v
HoldsSince(d, v) ==
    \E f \in {"cfg", "cfgTmp", "cfgNew"}, s \in {"sgn", "sgnTmp", "sgnNew"} :
        Pair(d[f], d[s], v)

(* No save destroys what it replaces: as long as no call to the file       *)
(* system has failed, there is at every moment, in the middle of a save    *)
(* and after a crash there too, a file on the disc with the configuration  *)
(* last loaded or completely saved, or a newer one, and a file with its    *)
(* signature, although loadConfig does not always find the two.            *)
DiskHoldsSaved ==
    failures = 0 => \A c \in Configs : saved[c] > 0 => HoldsSince(disk[c], saved[c])

(* No change is lost between the setters and a save: when no change is     *)
(* half made or marked as unsaved and c is not being saved, the files are  *)
(* those of the configuration in memory.                                   *)
NoLostUpdate ==
    \A c \in Configs :
        /\ alive /\ failures = 0
        /\ calls[c] = 0 /\ ~changed[c][1]
        /\ ~SavingAt(c, {"list", "write", "sign", "backup", "backupSgn",
                         "install", "installSgn"})
        => Loaded(disk[c]) = value[c]

(* Whatever fails and wherever the program is killed, what it loads is a   *)
(* configuration it had at some time, never a torn file.                   *)
LoadsWhole == \A c \in Configs : Loaded(disk[c]) \in 0 .. changes

(* A clean shutdown saves: what was changed and indicated before it began  *)
(* is on the disc when both threads have done, whichever of them saved it. *)
ExitSaves ==
    /\ pc["exit"] = "done" /\ pc["tick"] = "idle"
    /\ failures = 0 /\ discFulls = 0
    => \A c \in Configs : Loaded(disk[c]) >= due[c]

(* A change reaches the disc, unless the program ends or saving has been   *)
(* disabled.                                                               *)
ChangeIsSaved ==
    \A c \in Configs, v \in 1 .. MaxChanges :
        (alive /\ value[c] = v) ~> (Loaded(disk[c]) >= v \/ ~alive \/ ~saveActive \/ failures > 0 \/ discFulls > 0)

(* A program that starts again has the configuration it last saved.        *)
RestartRecovers ==
    [][Restart => \A c \in Configs : value'[c] >= saved[c]]_vars
=============================================================================
