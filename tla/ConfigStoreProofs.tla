------------------------- MODULE ConfigStoreProofs -------------------------
(* What ConfigStore guarantees for any number of configurations, changes,  *)
(* crashes and disc-full reports.                                          *)
EXTENDS ConfigStore, TLAPS

(* A save in progress belongs to a running program.                        *)
InSave == step # "next" => alive /\ holder \in Threads /\ cur \in Configs

(* Nothing is on the disc or under way that was not a configuration once.  *)
UpTo(d, n) ==
    /\ d.cfg <= n /\ d.sgn <= n
    /\ d.cfgTmp <= n /\ d.sgnTmp <= n
    /\ d.cfgNew <= n /\ d.sgnNew <= n
Known ==
    /\ snap <= changes /\ hash <= changes
    /\ \A c \in Configs : /\ value[c] <= changes
                          /\ saved[c] <= changes
                          /\ UpTo(disk[c], changes)

(* What loadConfig would find, at each step of a save.                     *)
FilesOf(c) ==
    /\ alive /\ ~(cur = c /\ step \in {"backupSgn", "install", "installSgn"})
         => Loaded(disk[c]) = saved[c]
    /\ cur = c /\ step = "sign" => disk[c].cfgNew = snap /\ hash = snap
    /\ cur = c /\ step \in {"backup", "backupSgn", "install"}
         => disk[c].cfgNew = snap /\ disk[c].sgnNew = snap
    /\ cur = c /\ step = "installSgn" => disk[c].cfg = snap /\ disk[c].sgnNew = snap

(* Where the configuration in memory is recorded while flag 1 is down.     *)
MemoryOf(c) ==
    alive =>
      /\ saved[c] <= value[c]
      /\ cur = c /\ step \notin {"next", "list"}
           => saved[c] <= snap /\ snap <= value[c]
      /\ calls[c] = 0 /\ ~changed[c][1] =>
           /\ ~(cur = c /\ step # "next") => value[c] = saved[c]
           /\ cur = c /\ step \notin {"next", "list"} => value[c] = snap

(* The files a stopped program has left.                                   *)
LeftOf(c) == ~alive /\ saved[c] > 0 => HoldsSince(disk[c], saved[c])

IInv ==
    /\ TypeOK
    /\ InSave
    /\ Known
    /\ failures = 0 => \A c \in Configs : FilesOf(c) /\ MemoryOf(c) /\ LeftOf(c)

LEMMA LoadedType ==
    ASSUME NEW d \in Files
    PROVE  Loaded(d) \in Nat
BY DEF Loaded, LoadAttempt, HashOf, Files, File, Absent, Torn

LEMMA TypeInit == Init => TypeOK
<1> SUFFICES ASSUME Init PROVE TypeOK
  OBVIOUS
<1>1. NoFiles \in Files
  BY DEF NoFiles, Files, File, Absent
<1>2. disk \in [Configs -> Files]
  BY <1>1 DEF Init
<1>3. changed \in [Configs -> [{0, 1} -> BOOLEAN]]
  BY DEF Init
<1>4. QED
  BY <1>2, <1>3 DEF Init, TypeOK, Threads, None

(* What a rename leaves alone, and what it can make of the rest.           *)
LEMMA RenameFrame ==
    ASSUME NEW from, NEW to, NEW next, NEW otherwise,
           Rename(from, to, next, otherwise), failures \in Nat
    PROVE  /\ step' \in {next, otherwise}
           /\ failures' \in Nat
           /\ failures' = 0 => failures = 0
           /\ UNCHANGED <<alive, memory, pc, holder, todo, cur, snap, hash,
                          due, changes, discFulls, crashes>>
BY DEF Rename, Fails, Succeeds

(* A program that is gone has nothing in memory.                           *)
LEMMA ForgetType ==
    ASSUME Forget
    PROVE  /\ alive' \in BOOLEAN /\ saveActive' \in BOOLEAN
           /\ value' \in [Configs -> Nat] /\ calls' \in [Configs -> Nat]
           /\ changed' \in [Configs -> [{0, 1} -> BOOLEAN]]
           /\ pc' \in [Threads -> {"idle", "save", "saving", "disable", "done"}]
           /\ holder' = None /\ todo' = {} /\ cur' = None
           /\ step' = "next" /\ snap' = 0 /\ hash' = 0
BY DEF Forget

LEMMA TypeStep == TypeOK /\ InSave /\ [Next]_vars => TypeOK'
<1> SUFFICES ASSUME TypeOK, InSave, [Next]_vars PROVE TypeOK'
  OBVIOUS
<1> USE DEF memory, threads, counters, None
<1>1. ASSUME NEW c \in Configs, SetSetting(c) PROVE TypeOK'
  BY <1>1 DEF SetSetting, TypeOK
<1>2. ASSUME NEW c \in Configs, Indicate(c) PROVE TypeOK'
  BY <1>2 DEF Indicate, TypeOK
<1>3. CASE TickScan
  BY <1>3 DEF TickScan, TypeOK, Threads
<1>4. CASE BeginExit
  BY <1>4 DEF BeginExit, TypeOK, Threads
<1>5. ASSUME NEW t \in Threads, DiscFull(t) PROVE TypeOK'
  BY <1>5 DEF DiscFull, TypeOK, Threads, Returns
<1>6. ASSUME NEW t \in Threads, BeginSave(t) PROVE TypeOK'
  BY <1>6 DEF BeginSave, TypeOK, Threads
<1>7. ASSUME NEW c \in Configs, Visit(c) PROVE TypeOK'
  BY <1>7 DEF Visit, TypeOK
<1>8. CASE EndSave
  BY <1>8 DEF EndSave, TypeOK, Threads, Returns
<1>9. CASE SaveList
  BY <1>9 DEF SaveList, TypeOK, InSave
<1>10. CASE Write
  <2>1. disk[cur] \in Files /\ snap \in File /\ 0 \in File /\ Torn \in File
    BY <1>10 DEF Write, TypeOK, InSave, File
  <2>2. \A f \in File : [disk EXCEPT ![cur].cfgNew = f] \in [Configs -> Files]
    BY <2>1, <1>10 DEF Write, TypeOK, InSave, Files
  <2>3. QED
    BY <1>10, <2>1, <2>2 DEF Write, WriteNew, TypeOK, Fails, Succeeds
<1>11. CASE Sign
  <2>1. disk[cur] \in Files /\ hash \in File /\ Torn \in File
    BY <1>11 DEF Sign, TypeOK, InSave, File
  <2>2. \A f \in File : [disk EXCEPT ![cur].sgnNew = f] \in [Configs -> Files]
    BY <2>1, <1>11 DEF Sign, TypeOK, InSave, Files
  <2>3. QED
    BY <1>11, <2>1, <2>2 DEF Sign, TypeOK, Fails, Succeeds
<1>12. CASE BackupCfg
  <2>1. cur \in Configs /\ disk[cur] \in Files
    BY <1>12 DEF BackupCfg, TypeOK, InSave
  <2>2. [disk[cur] EXCEPT !.cfgTmp = disk[cur].cfg, !.cfg = Absent] \in Files
    BY <2>1 DEF Files, File
  <2>3. disk' \in [Configs -> Files]
    BY <1>12, <2>1, <2>2 DEF BackupCfg, Rename, TypeOK
  <2>4. /\ step' \in {"backupSgn", "install"}
        /\ failures' \in Nat
        /\ UNCHANGED <<alive, memory, pc, holder, todo, cur, snap, hash,
                       due, changes, discFulls, crashes>>
        /\ UNCHANGED saved
    BY <1>12, RenameFrame DEF BackupCfg, TypeOK
  <2>5. QED
    BY <2>3, <2>4 DEF TypeOK
<1>13. CASE BackupSgn
  <2>1. cur \in Configs /\ disk[cur] \in Files
    BY <1>13 DEF BackupSgn, TypeOK, InSave
  <2>2. [disk[cur] EXCEPT !.sgnTmp = disk[cur].sgn, !.sgn = Absent] \in Files
    BY <2>1 DEF Files, File
  <2>3. disk' \in [Configs -> Files]
    BY <1>13, <2>1, <2>2 DEF BackupSgn, Rename, TypeOK
  <2>4. /\ step' \in {"install"}
        /\ failures' \in Nat
        /\ UNCHANGED <<alive, memory, pc, holder, todo, cur, snap, hash,
                       due, changes, discFulls, crashes>>
        /\ UNCHANGED saved
    BY <1>13, RenameFrame DEF BackupSgn, TypeOK
  <2>5. QED
    BY <2>3, <2>4 DEF TypeOK
<1>14. CASE InstallCfg
  <2>1. cur \in Configs /\ disk[cur] \in Files
    BY <1>14 DEF InstallCfg, TypeOK, InSave
  <2>2. [disk[cur] EXCEPT !.cfg = disk[cur].cfgNew, !.cfgNew = Absent] \in Files
    BY <2>1 DEF Files, File
  <2>3. disk' \in [Configs -> Files]
    BY <1>14, <2>1, <2>2 DEF InstallCfg, Rename, TypeOK
  <2>4. /\ step' \in {"installSgn", "next"}
        /\ failures' \in Nat
        /\ UNCHANGED <<alive, memory, pc, holder, todo, cur, snap, hash,
                       due, changes, discFulls, crashes>>
        /\ UNCHANGED saved
    BY <1>14, RenameFrame DEF InstallCfg, TypeOK
  <2>5. QED
    BY <2>3, <2>4 DEF TypeOK
<1>15. CASE InstallSgn
  <2>1. cur \in Configs /\ disk[cur] \in Files
    BY <1>15 DEF InstallSgn, TypeOK, InSave
  <2>2. [disk[cur] EXCEPT !.sgn = disk[cur].sgnNew, !.sgnNew = Absent] \in Files
    BY <2>1 DEF Files, File
  <2>3. disk' \in [Configs -> Files]
    BY <1>15, <2>1, <2>2 DEF InstallSgn, Rename, TypeOK
  <2>4. /\ step' \in {"next"}
        /\ failures' \in Nat
        /\ UNCHANGED <<alive, memory, pc, holder, todo, cur, snap, hash,
                       due, changes, discFulls, crashes>>
    BY <1>15, RenameFrame DEF InstallSgn, TypeOK
  <2>5. QED
    BY <2>3, <2>4, <1>15 DEF TypeOK, InstallSgn
<1>16. CASE DisableSave
  BY <1>16 DEF DisableSave, TypeOK, Threads
<1>17. CASE Stop
  BY <1>17, ForgetType DEF Stop, TypeOK
<1>18. CASE Crash
  <2>1. disk' \in [Configs -> Files]
    <3>1. CASE UNCHANGED disk
      BY <3>1 DEF TypeOK
    <3>2. ASSUME step # "next", NEW f \in {0, Torn}
          PROVE  /\ [disk EXCEPT ![cur].cfgNew = f] \in [Configs -> Files]
                 /\ [disk EXCEPT ![cur].sgnNew = f] \in [Configs -> Files]
      <4>1. f \in File /\ cur \in Configs /\ disk[cur] \in Files
        BY <3>2 DEF TypeOK, InSave, File
      <4>2. QED
        BY <4>1 DEF TypeOK, Files
    <3>3. QED
      BY <1>18, <3>1, <3>2 DEF Crash
  <2>2. /\ Forget
        /\ crashes' = crashes + 1
        /\ UNCHANGED <<saved, due, changes, failures, discFulls>>
    BY <1>18 DEF Crash
  <2>3. QED
    BY <2>1, <2>2, ForgetType DEF TypeOK
<1>19. CASE Restart
  BY <1>19, LoadedType DEF Restart, TypeOK
<1>20. CASE UNCHANGED vars
  BY <1>20 DEF vars, TypeOK
<1>21. QED
  BY <1>1, <1>2, <1>3, <1>4, <1>5, <1>6, <1>7, <1>8, <1>9, <1>10, <1>11,
     <1>12, <1>13, <1>14, <1>15, <1>16, <1>17, <1>18, <1>19, <1>20
     DEF Next, Saving

LEMMA InSaveStep == TypeOK /\ InSave /\ [Next]_vars => InSave'
<1> SUFFICES ASSUME TypeOK, InSave, [Next]_vars PROVE InSave'
  OBVIOUS
<1> USE DEF memory, threads, counters, None, InSave
<1>1. ASSUME NEW c \in Configs, SetSetting(c) \/ Indicate(c) \/ Visit(c) PROVE InSave'
  BY <1>1 DEF SetSetting, Indicate, Visit, TypeOK
<1>2. ASSUME NEW t \in Threads, DiscFull(t) \/ BeginSave(t) PROVE InSave'
  BY <1>2 DEF DiscFull, BeginSave
<1>3. CASE TickScan \/ BeginExit \/ DisableSave
  BY <1>3 DEF TickScan, BeginExit, DisableSave
<1>4. CASE EndSave \/ SaveList \/ Write \/ Sign
  BY <1>4 DEF EndSave, SaveList, Write, Sign
<1>5. CASE BackupCfg \/ BackupSgn \/ InstallCfg \/ InstallSgn
  BY <1>5, RenameFrame DEF BackupCfg, BackupSgn, InstallCfg, InstallSgn, TypeOK
<1>6. CASE Stop \/ Crash
  BY <1>6, ForgetType DEF Stop, Crash
<1>7. CASE Restart
  BY <1>7 DEF Restart
<1>8. CASE UNCHANGED vars
  BY <1>8 DEF vars
<1>9. QED
  BY <1>1, <1>2, <1>3, <1>4, <1>5, <1>6, <1>7, <1>8 DEF Next, Saving

LEMMA LoadedBound ==
    ASSUME NEW d \in Files, NEW n \in Nat, UpTo(d, n)
    PROVE  Loaded(d) <= n
BY DEF Loaded, HashOf, UpTo, Files, File, Absent, Torn

LEMMA KnownStep == TypeOK /\ InSave /\ Known /\ [Next]_vars => Known'
<1> SUFFICES ASSUME TypeOK, InSave, Known, [Next]_vars PROVE Known'
  OBVIOUS
<1> USE DEF memory, threads, counters
<1>1. ASSUME NEW c \in Configs, SetSetting(c) PROVE Known'
  <2>1. \A n \in File : n <= changes => n <= changes + 1
    BY DEF TypeOK, File, Absent, Torn
  <2>2. \A d \in Configs : UpTo(disk[d], changes + 1)
    BY <2>1 DEF TypeOK, Known, UpTo, Files
  <2>3. QED
    BY <1>1, <2>2 DEF SetSetting, Known, TypeOK
<1>2. ASSUME NEW c \in Configs, Indicate(c) \/ Visit(c) PROVE Known'
  BY <1>2 DEF Indicate, Visit, Known
<1>3. ASSUME NEW t \in Threads, DiscFull(t) \/ BeginSave(t) PROVE Known'
  BY <1>3 DEF DiscFull, BeginSave, Known
<1>4. CASE TickScan \/ BeginExit \/ DisableSave \/ EndSave
  BY <1>4 DEF TickScan, BeginExit, DisableSave, EndSave, Known
<1>5. CASE SaveList
  BY <1>5 DEF SaveList, Known, InSave
<1>6. CASE Write
  <2>1. cur \in Configs /\ disk[cur] \in Files
    BY <1>6 DEF Write, TypeOK, InSave
  <2>2. snap <= changes /\ 0 <= changes /\ Torn <= changes
    BY DEF Known, TypeOK, Torn
  <2>3. \A f : f <= changes =>
          \A c \in Configs : UpTo([disk EXCEPT ![cur].cfgNew = f][c], changes)
    BY <2>1 DEF UpTo, Known, TypeOK, Files
  <2>4. QED
    BY <1>6, <2>2, <2>3 DEF Write, WriteNew, Known
<1>7. CASE Sign
  <2>1. cur \in Configs /\ disk[cur] \in Files
    BY <1>7 DEF Sign, TypeOK, InSave
  <2>2. hash <= changes /\ Torn <= changes
    BY DEF Known, TypeOK, Torn
  <2>3. \A f : f <= changes =>
          \A c \in Configs : UpTo([disk EXCEPT ![cur].sgnNew = f][c], changes)
    BY <2>1 DEF UpTo, Known, TypeOK, Files
  <2>4. QED
    BY <1>7, <2>2, <2>3 DEF Sign, Known
<1>8. CASE BackupCfg
  <2>1. cur \in Configs /\ disk[cur] \in Files /\ Absent <= changes
    BY <1>8 DEF BackupCfg, TypeOK, InSave, Absent
  <2>2. UpTo([disk[cur] EXCEPT !.cfgTmp = disk[cur].cfg, !.cfg = Absent], changes)
    BY <2>1 DEF UpTo, Known, Files
  <2>3. \A c \in Configs : UpTo(disk'[c], changes)
    BY <1>8, <2>1, <2>2 DEF BackupCfg, Rename, TypeOK, Known
  <2>4. UNCHANGED <<alive, memory, snap, hash, changes>> /\ UNCHANGED saved
    BY <1>8, RenameFrame DEF BackupCfg, TypeOK
  <2>5. QED
    BY <2>3, <2>4 DEF Known
<1>9. CASE BackupSgn
  <2>1. cur \in Configs /\ disk[cur] \in Files /\ Absent <= changes
    BY <1>9 DEF BackupSgn, TypeOK, InSave, Absent
  <2>2. UpTo([disk[cur] EXCEPT !.sgnTmp = disk[cur].sgn, !.sgn = Absent], changes)
    BY <2>1 DEF UpTo, Known, Files
  <2>3. \A c \in Configs : UpTo(disk'[c], changes)
    BY <1>9, <2>1, <2>2 DEF BackupSgn, Rename, TypeOK, Known
  <2>4. UNCHANGED <<alive, memory, snap, hash, changes>> /\ UNCHANGED saved
    BY <1>9, RenameFrame DEF BackupSgn, TypeOK
  <2>5. QED
    BY <2>3, <2>4 DEF Known
<1>10. CASE InstallCfg
  <2>1. cur \in Configs /\ disk[cur] \in Files /\ Absent <= changes
    BY <1>10 DEF InstallCfg, TypeOK, InSave, Absent
  <2>2. UpTo([disk[cur] EXCEPT !.cfg = disk[cur].cfgNew, !.cfgNew = Absent], changes)
    BY <2>1 DEF UpTo, Known, Files
  <2>3. \A c \in Configs : UpTo(disk'[c], changes)
    BY <1>10, <2>1, <2>2 DEF InstallCfg, Rename, TypeOK, Known
  <2>4. UNCHANGED <<alive, memory, snap, hash, changes>> /\ UNCHANGED saved
    BY <1>10, RenameFrame DEF InstallCfg, TypeOK
  <2>5. QED
    BY <2>3, <2>4 DEF Known
<1>11. CASE InstallSgn
  <2>1. cur \in Configs /\ disk[cur] \in Files /\ Absent <= changes
    BY <1>11 DEF InstallSgn, TypeOK, InSave, Absent
  <2>2. UpTo([disk[cur] EXCEPT !.sgn = disk[cur].sgnNew, !.sgnNew = Absent], changes)
    BY <2>1 DEF UpTo, Known, Files
  <2>3. \A c \in Configs : UpTo(disk'[c], changes)
    BY <1>11, <2>1, <2>2 DEF InstallSgn, Rename, TypeOK, Known
  <2>4. UNCHANGED <<alive, memory, snap, hash, changes>>
    BY <1>11, RenameFrame DEF InstallSgn, TypeOK
  <2>5. QED
    BY <2>3, <2>4, <1>11 DEF Known, InstallSgn, TypeOK
<1>12. CASE Stop
  BY <1>12, ForgetType DEF Stop, Forget, Known, TypeOK
<1>13. CASE Crash
  <2>1. \A c \in Configs : UpTo(disk'[c], changes)
    <3>1. ASSUME step # "next", NEW f \in {0, Torn}, NEW c \in Configs
          PROVE  /\ UpTo([disk EXCEPT ![cur].cfgNew = f][c], changes)
                 /\ UpTo([disk EXCEPT ![cur].sgnNew = f][c], changes)
      <4>1. f <= changes /\ cur \in Configs /\ disk[cur] \in Files
        BY <3>1 DEF TypeOK, InSave, Torn
      <4>2. QED
        BY <4>1 DEF UpTo, Known, TypeOK, Files
    <3>2. QED
      BY <1>13, <3>1 DEF Crash, Known
  <2>2. Forget /\ UNCHANGED <<saved, changes>>
    BY <1>13 DEF Crash
  <2>3. QED
    BY <2>1, <2>2 DEF Forget, Known, TypeOK
<1>14. CASE Restart
  BY <1>14, LoadedBound DEF Restart, Known, TypeOK
<1>15. CASE UNCHANGED vars
  BY <1>15 DEF vars, Known
<1>16. QED
  BY <1>1, <1>2, <1>3, <1>4, <1>5, <1>6, <1>7, <1>8, <1>9, <1>10, <1>11,
     <1>12, <1>13, <1>14, <1>15 DEF Next, Saving

(***************************************************************************)
(* What is found on the disc                                               *)
(***************************************************************************)

LEMMA LoadedCurrent ==
    ASSUME NEW d \in Files, NEW n \in Nat, d.cfg = n, d.sgn = n
    PROVE  Loaded(d) = n
BY DEF Loaded, LoadAttempt, HashOf, Absent

LEMMA LoadedSame ==
    ASSUME NEW d, NEW e,
           d.cfg = e.cfg, d.sgn = e.sgn, d.cfgTmp = e.cfgTmp, d.sgnTmp = e.sgnTmp
    PROVE  Loaded(d) = Loaded(e)
BY DEF Loaded

LEMMA LoadedHeld ==
    ASSUME NEW d \in Files, Loaded(d) > 0
    PROVE  HoldsSince(d, Loaded(d))
<1>1. CASE LoadAttempt(d.cfg, d.sgn)
  <2>1. Pair(d["cfg"], d["sgn"], Loaded(d))
    BY <1>1 DEF Pair, Loaded, LoadAttempt, Files, File, Absent, Torn
  <2>2. QED
    BY <2>1 DEF HoldsSince
<1>2. CASE ~LoadAttempt(d.cfg, d.sgn) /\ LoadAttempt(d.cfgTmp, d.sgnTmp)
  <2>1. Pair(d["cfgTmp"], d["sgnTmp"], Loaded(d))
    BY <1>2 DEF Pair, Loaded, LoadAttempt, Files, File, Absent, Torn
  <2>2. QED
    BY <2>1 DEF HoldsSince
<1>3. QED
  BY <1>1, <1>2 DEF Loaded

(* With no failure, the renames of a save find what they rename.           *)
LEMMA InstallCfgRenames ==
    ASSUME TypeOK, InSave, InstallCfg, failures' = 0, FilesOf(cur)
    PROVE  /\ disk' = [disk EXCEPT ![cur] =
                         [@ EXCEPT !.cfg = disk[cur].cfgNew, !.cfgNew = Absent]]
           /\ step' = "installSgn"
<1>1. disk[cur].cfgNew = snap /\ snap # Absent
  BY DEF InstallCfg, FilesOf, TypeOK, Absent
<1>2. ~Fails("rename")
  BY DEF Fails, TypeOK
<1>3. QED
  BY <1>1, <1>2 DEF InstallCfg, Rename

LEMMA InstallSgnRenames ==
    ASSUME TypeOK, InSave, InstallSgn, failures' = 0, FilesOf(cur)
    PROVE  /\ Loaded(disk'[cur]) = snap
           /\ saved' = [saved EXCEPT ![cur] = snap]
           /\ \A c \in Configs : c # cur => disk'[c] = disk[c]
<1>1. disk[cur].sgnNew = snap /\ snap # Absent /\ disk[cur].cfg = snap
  BY DEF InstallSgn, FilesOf, TypeOK, Absent
<1>2. cur \in Configs /\ disk[cur] \in Files
  BY DEF InstallSgn, TypeOK, InSave
<1>3. ~Fails("rename")
  BY DEF Fails, TypeOK
<1>4. disk' = [disk EXCEPT ![cur] =
                 [@ EXCEPT !.sgn = disk[cur].sgnNew, !.sgnNew = Absent]]
  BY <1>1, <1>3 DEF InstallSgn, Rename
<1>5. disk'[cur] \in Files /\ disk'[cur].cfg = snap /\ disk'[cur].sgn = snap
  BY <1>1, <1>2, <1>4 DEF TypeOK, Files, File
<1>6. Loaded(disk'[cur]) = snap
  BY <1>5, LoadedCurrent DEF TypeOK
<1>7. QED
  BY <1>2, <1>4, <1>6 DEF InstallSgn, TypeOK

(* A step without failure keeps what is known of the files.                *)
LEMMA FilesStep ==
    ASSUME TypeOK, InSave, [Next]_vars, failures' = 0,
           NEW c \in Configs, FilesOf(c)
    PROVE  FilesOf(c)'
<1> USE DEF memory, threads, counters
<1>1. ASSUME NEW d \in Configs, SetSetting(d) \/ Indicate(d) \/ Visit(d)
      PROVE  FilesOf(c)'
  BY <1>1 DEF SetSetting, Indicate, Visit, FilesOf
<1>2. ASSUME NEW t \in Threads, DiscFull(t) \/ BeginSave(t) PROVE FilesOf(c)'
  BY <1>2 DEF DiscFull, BeginSave, FilesOf
<1>3. CASE TickScan \/ BeginExit \/ DisableSave \/ EndSave
  BY <1>3 DEF TickScan, BeginExit, DisableSave, EndSave, FilesOf
<1>4. CASE SaveList
  BY <1>4 DEF SaveList, FilesOf
<1>5. CASE Write
  <2>1. cur \in Configs /\ disk[cur] \in Files
    BY <1>5 DEF Write, TypeOK, InSave
  <2>2. disk' = [disk EXCEPT ![cur].cfgNew = snap] /\ hash' = snap
    BY <1>5 DEF Write, WriteNew, Fails, TypeOK
  <2>3. Loaded(disk'[c]) = Loaded(disk[c])
    BY <2>1, <2>2, LoadedSame DEF TypeOK, Files
  <2>4. cur = c => disk'[c].cfgNew = snap
    BY <2>1, <2>2 DEF TypeOK, Files
  <2>5. step = "write" /\ step' = "sign" /\ UNCHANGED <<alive, cur, snap, saved>>
    BY <1>5 DEF Write
  <2>6. QED
    BY <2>2, <2>3, <2>4, <2>5 DEF FilesOf
<1>6. CASE Sign
  <2>1. cur \in Configs /\ disk[cur] \in Files
    BY <1>6 DEF Sign, TypeOK, InSave
  <2>2. disk' = [disk EXCEPT ![cur].sgnNew = hash]
    BY <1>6 DEF Sign, Fails, TypeOK
  <2>3. Loaded(disk'[c]) = Loaded(disk[c])
    BY <2>1, <2>2, LoadedSame DEF TypeOK, Files
  <2>4. cur = c => disk'[c].sgnNew = hash /\ disk'[c].cfgNew = disk[c].cfgNew
    BY <2>1, <2>2 DEF TypeOK, Files
  <2>5. step = "sign" /\ step' = "backup" /\ UNCHANGED <<alive, cur, snap, saved>>
    BY <1>6 DEF Sign
  <2>6. QED
    BY <2>3, <2>4, <2>5 DEF FilesOf
<1>7. CASE BackupCfg \/ BackupSgn
  <2>1. cur \in Configs /\ disk[cur] \in Files
    BY <1>7 DEF BackupCfg, BackupSgn, TypeOK, InSave
  <2>2. c # cur => disk'[c] = disk[c]
    BY <1>7, <2>1 DEF BackupCfg, BackupSgn, Rename, TypeOK
  <2>3. c = cur => disk'[c].cfgNew = disk[c].cfgNew /\ disk'[c].sgnNew = disk[c].sgnNew
    <3>1. \/ disk'[cur] = disk[cur]
          \/ disk'[cur] = [disk[cur] EXCEPT !.cfgTmp = disk[cur].cfg, !.cfg = Absent]
          \/ disk'[cur] = [disk[cur] EXCEPT !.sgnTmp = disk[cur].sgn, !.sgn = Absent]
      BY <1>7, <2>1 DEF BackupCfg, BackupSgn, Rename, TypeOK
    <3>2. /\ disk'[cur].cfgNew = disk[cur].cfgNew
          /\ disk'[cur].sgnNew = disk[cur].sgnNew
      BY <2>1, <3>1 DEF Files
    <3>3. QED
      BY <3>2
  <2>4. /\ step \in {"backup", "backupSgn"}
        /\ step' \in {"backupSgn", "install"}
        /\ UNCHANGED <<alive, cur, snap, saved>>
    BY <1>7, RenameFrame DEF BackupCfg, BackupSgn, TypeOK
  <2>5. QED
    BY <2>2, <2>3, <2>4 DEF FilesOf
<1>8. CASE InstallCfg
  <2>1. step = "install" /\ UNCHANGED <<alive, cur, snap, saved>>
    BY <1>8, RenameFrame DEF InstallCfg, TypeOK
  <2>2. CASE c = cur
    <3>1. disk[cur] \in Files
      BY <2>2 DEF TypeOK
    <3>2. /\ step' = "installSgn"
          /\ disk'[c] = [disk[c] EXCEPT !.cfg = disk[c].cfgNew, !.cfgNew = Absent]
      BY <1>8, <2>2, InstallCfgRenames DEF TypeOK
    <3>3. disk'[c].cfg = snap /\ disk'[c].sgnNew = snap
      BY <2>1, <2>2, <3>1, <3>2 DEF FilesOf, Files
    <3>4. QED
      BY <2>1, <2>2, <3>2, <3>3 DEF FilesOf
  <2>3. CASE c # cur
    <3>1. disk'[c] = disk[c]
      BY <1>8, <2>3 DEF InstallCfg, Rename, TypeOK
    <3>2. QED
      BY <2>1, <2>3, <3>1 DEF FilesOf
  <2>4. QED
    BY <2>2, <2>3
<1>9. CASE InstallSgn
  <2>1. step = "installSgn" /\ step' = "next" /\ UNCHANGED <<alive, cur, snap>>
    BY <1>9, RenameFrame DEF InstallSgn, TypeOK
  <2>2. CASE c = cur
    BY <1>9, <2>1, <2>2, InstallSgnRenames DEF FilesOf, TypeOK
  <2>3. CASE c # cur
    <3>1. disk'[c] = disk[c] /\ saved'[c] = saved[c]
      BY <1>9, <2>3 DEF InstallSgn, Rename, TypeOK
    <3>2. QED
      BY <2>1, <2>3, <3>1 DEF FilesOf
  <2>4. QED
    BY <2>2, <2>3
<1>10. CASE Stop \/ Crash
  BY <1>10 DEF Stop, Crash, Forget, FilesOf
<1>11. CASE Restart
  <2>1. step = "next" /\ UNCHANGED <<step, disk>>
    BY <1>11 DEF Restart, InSave, TypeOK
  <2>2. saved'[c] = Loaded(disk[c])
    BY <1>11 DEF Restart
  <2>3. QED
    BY <2>1, <2>2 DEF FilesOf
<1>12. CASE UNCHANGED vars
  BY <1>12 DEF vars, FilesOf
<1>13. QED
  BY <1>1, <1>2, <1>3, <1>4, <1>5, <1>6, <1>7, <1>8, <1>9, <1>10, <1>11, <1>12
     DEF Next, Saving

(* A step without failure keeps track of the configuration in memory.      *)
LEMMA MemoryStep ==
    ASSUME TypeOK, InSave, Known, [Next]_vars, failures' = 0,
           NEW c \in Configs, FilesOf(c), MemoryOf(c)
    PROVE  MemoryOf(c)'
<1> USE DEF memory, threads, counters
<1>1. ASSUME NEW d \in Configs, SetSetting(d) PROVE MemoryOf(c)'
  <2>1. CASE d = c
    BY <1>1, <2>1 DEF SetSetting, MemoryOf, Known, TypeOK
  <2>2. CASE d # c
    BY <1>1, <2>2 DEF SetSetting, MemoryOf, TypeOK
  <2>3. QED
    BY <2>1, <2>2
<1>2. ASSUME NEW d \in Configs, Indicate(d) PROVE MemoryOf(c)'
  <2>1. CASE d = c
    BY <1>2, <2>1 DEF Indicate, MemoryOf, TypeOK
  <2>2. CASE d # c
    BY <1>2, <2>2 DEF Indicate, MemoryOf, TypeOK
  <2>3. QED
    BY <2>1, <2>2
<1>3. ASSUME NEW d \in Configs, Visit(d) PROVE MemoryOf(c)'
  <2>1. CASE d = c
    BY <1>3, <2>1 DEF Visit, MemoryOf, TypeOK
  <2>2. CASE d # c
    BY <1>3, <2>2 DEF Visit, MemoryOf, TypeOK
  <2>3. QED
    BY <2>1, <2>2
<1>4. ASSUME NEW t \in Threads, DiscFull(t) \/ BeginSave(t) PROVE MemoryOf(c)'
  BY <1>4 DEF DiscFull, BeginSave, MemoryOf
<1>5. CASE TickScan
  BY <1>5 DEF TickScan, MemoryOf, TypeOK
<1>6. CASE BeginExit \/ DisableSave \/ EndSave
  BY <1>6 DEF BeginExit, DisableSave, EndSave, MemoryOf
<1>7. CASE SaveList
  BY <1>7 DEF SaveList, MemoryOf, TypeOK
<1>8. CASE Write \/ Sign
  BY <1>8 DEF Write, Sign, MemoryOf
<1>9. CASE BackupCfg \/ BackupSgn
  <2>1. /\ step \in {"backup", "backupSgn"}
        /\ step' \in {"backupSgn", "install"}
        /\ UNCHANGED <<alive, memory, cur, snap, saved>>
    BY <1>9, RenameFrame DEF BackupCfg, BackupSgn, TypeOK
  <2>2. QED
    BY <2>1 DEF MemoryOf
<1>10. CASE InstallCfg
  <2>1. /\ step = "install"
        /\ cur = c => step' = "installSgn"
        /\ UNCHANGED <<alive, memory, cur, snap, saved>>
    BY <1>10, RenameFrame, InstallCfgRenames DEF InstallCfg, TypeOK
  <2>2. QED
    BY <2>1 DEF MemoryOf
<1>11. CASE InstallSgn
  <2>1. /\ step = "installSgn" /\ step' = "next"
        /\ UNCHANGED <<alive, memory, cur, snap>>
    BY <1>11, RenameFrame DEF InstallSgn, TypeOK
  <2>2. saved'[c] = IF c = cur THEN snap ELSE saved[c]
    BY <1>11, InstallSgnRenames DEF InstallSgn, TypeOK
  <2>3. QED
    BY <2>1, <2>2 DEF MemoryOf, TypeOK
<1>12. CASE Stop \/ Crash
  BY <1>12 DEF Stop, Crash, Forget, MemoryOf
<1>13. CASE Restart
  <2>1. step = "next" /\ UNCHANGED step /\ saved' = value'
    BY <1>13 DEF Restart, InSave, TypeOK
  <2>2. value'[c] \in Nat
    BY <1>13, LoadedType DEF Restart, TypeOK
  <2>3. QED
    BY <2>1, <2>2 DEF MemoryOf
<1>14. CASE UNCHANGED vars
  BY <1>14 DEF vars, MemoryOf
<1>15. QED
  BY <1>1, <1>2, <1>3, <1>4, <1>5, <1>6, <1>7, <1>8, <1>9, <1>10, <1>11,
     <1>12, <1>13, <1>14 DEF Next, Saving

(* What a running program can find, and what it leaves when it stops.      *)
LEMMA AliveHolds ==
    ASSUME TypeOK, alive, NEW c \in Configs, FilesOf(c), MemoryOf(c), saved[c] > 0
    PROVE  HoldsSince(disk[c], saved[c])
<1>1. disk[c] \in Files /\ saved[c] \in Nat /\ snap \in Nat
  BY DEF TypeOK
<1>2. CASE ~(cur = c /\ step \in {"backupSgn", "install", "installSgn"})
  BY <1>1, <1>2, LoadedHeld DEF FilesOf
<1>3. CASE cur = c /\ step \in {"backupSgn", "install"}
  <2>1. Pair(disk[c]["cfgNew"], disk[c]["sgnNew"], saved[c])
    BY <1>1, <1>3 DEF FilesOf, MemoryOf, Pair, LoadAttempt, HashOf, Absent
  <2>2. QED
    BY <2>1 DEF HoldsSince
<1>4. CASE cur = c /\ step = "installSgn"
  <2>1. Pair(disk[c]["cfg"], disk[c]["sgnNew"], saved[c])
    BY <1>1, <1>4 DEF FilesOf, MemoryOf, Pair, LoadAttempt, HashOf, Absent
  <2>2. QED
    BY <2>1 DEF HoldsSince
<1>5. QED
  BY <1>2, <1>3, <1>4

LEMMA LeftStep ==
    ASSUME TypeOK, InSave, [Next]_vars,
           NEW c \in Configs, FilesOf(c), MemoryOf(c), LeftOf(c)
    PROVE  LeftOf(c)'
<1> USE DEF memory, threads, counters
<1>1. CASE alive /\ ~alive'
  <2>1. Stop \/ Crash
    <3>1. BackupCfg \/ BackupSgn \/ InstallCfg \/ InstallSgn => alive' = alive
      BY RenameFrame DEF BackupCfg, BackupSgn, InstallCfg, InstallSgn, TypeOK
    <3>2. QED
      BY <1>1, <3>1
         DEF Next, Saving, SetSetting, Indicate, TickScan, BeginExit, DiscFull,
             BeginSave, Visit, EndSave, SaveList, Write, Sign, DisableSave,
             Restart, vars
  <2>2. saved' = saved
    BY <2>1 DEF Stop, Crash
  <2>3. CASE disk' = disk
    BY <1>1, <2>2, <2>3, AliveHolds DEF LeftOf
  <2>4. CASE disk' # disk
    <3>1. /\ step \in {"write", "sign"}
          /\ \E f : \/ disk' = [disk EXCEPT ![cur].cfgNew = f]
                   \/ disk' = [disk EXCEPT ![cur].sgnNew = f]
      <4>1. Crash
        BY <2>1, <2>4 DEF Stop
      <4>2. QED
        BY <2>4, <4>1 DEF Crash
    <3>2. disk'[c] \in Files
      BY TypeStep DEF TypeOK
    <3>3. Loaded(disk'[c]) = saved[c]
      <4>1. cur \in Configs /\ disk[cur] \in Files /\ disk[c] \in Files
        BY <3>1 DEF InSave, TypeOK
      <4>2. Loaded(disk'[c]) = Loaded(disk[c])
        BY <3>1, <4>1, LoadedSame DEF TypeOK, Files
      <4>3. QED
        BY <1>1, <3>1, <4>2 DEF FilesOf
    <3>4. QED
      BY <2>2, <3>2, <3>3, LoadedHeld DEF LeftOf
  <2>5. QED
    BY <2>3, <2>4
<1>2. CASE ~alive /\ ~alive'
  <2>1. UNCHANGED vars
    BY <1>2, RenameFrame
       DEF Next, Saving, SetSetting, Indicate, TickScan, BeginExit, DiscFull,
           BeginSave, Visit, EndSave, SaveList, Write, Sign, BackupCfg,
           BackupSgn, InstallCfg, InstallSgn, DisableSave, Stop, Crash, Restart
  <2>2. QED
    BY <2>1 DEF vars, LeftOf
<1>3. CASE alive'
  BY <1>3 DEF LeftOf
<1>4. QED
  BY <1>1, <1>2, <1>3 DEF TypeOK

(***************************************************************************)
(* The theorems                                                            *)
(***************************************************************************)

LEMMA InvInit == Init => IInv
<1> SUFFICES ASSUME Init PROVE IInv
  OBVIOUS
<1>1. TypeOK
  BY TypeInit
<1>2. InSave
  BY DEF Init, InSave
<1>3. Known
  BY DEF Init, Known, UpTo, NoFiles, Absent
<1>4. \A c \in Configs : FilesOf(c) /\ MemoryOf(c) /\ LeftOf(c)
  <2> TAKE c \in Configs
  <2>1. FilesOf(c)
    BY DEF Init, FilesOf
  <2>2. MemoryOf(c)
    BY DEF Init, MemoryOf
  <2>3. LeftOf(c)
    BY DEF Init, LeftOf
  <2>4. QED
    BY <2>1, <2>2, <2>3
<1>5. QED
  BY <1>1, <1>2, <1>3, <1>4 DEF IInv

LEMMA FailuresStay ==
    ASSUME IInv, [Next]_vars, failures' = 0
    PROVE  failures = 0
<1>1. \A k : Fails(k) => failures' # 0
  BY DEF Fails, IInv, TypeOK
<1>2. \/ failures' = failures \/ \E k : Fails(k)
  BY DEF Next, Saving, SetSetting, Indicate, TickScan, BeginExit, DiscFull,
         BeginSave, Visit, EndSave, SaveList, Write, Sign, BackupCfg,
         BackupSgn, InstallCfg, InstallSgn, Rename, DisableSave, Stop,
         Crash, Restart, vars, counters, Succeeds
<1>3. QED
  BY <1>1, <1>2

LEMMA InvStep == IInv /\ [Next]_vars => IInv'
<1> SUFFICES ASSUME IInv, [Next]_vars PROVE IInv'
  OBVIOUS
<1>1. TypeOK' /\ InSave' /\ Known'
  BY TypeStep, InSaveStep, KnownStep DEF IInv
<1>2. ASSUME failures' = 0, NEW c \in Configs
      PROVE  FilesOf(c)' /\ MemoryOf(c)' /\ LeftOf(c)'
  <2>1. failures = 0
    BY <1>2, FailuresStay
  <2>2. QED
    BY <1>2, <2>1, FilesStep, MemoryStep, LeftStep DEF IInv
<1>3. QED
  BY <1>1, <1>2 DEF IInv

LEMMA Invariance == Spec => []IInv
<1>1. QED
  BY InvInit, InvStep, PTL DEF Spec

(* Every variable keeps its type.                                          *)
THEOREM TypeCorrect == Spec => []TypeOK
<1>1. IInv => TypeOK
  BY DEF IInv
<1>2. QED
  BY <1>1, Invariance, PTL

(* Saving never destroys the last saved configuration, however often and   *)
(* wherever the program is killed.                                         *)
THEOREM SavedSurvives == Spec => []DiskHoldsSaved
<1>1. IInv => DiskHoldsSaved
  <2> SUFFICES ASSUME IInv, failures = 0, NEW c \in Configs, saved[c] > 0
               PROVE  HoldsSince(disk[c], saved[c])
    BY DEF DiskHoldsSaved
  <2>1. TypeOK /\ FilesOf(c) /\ MemoryOf(c) /\ LeftOf(c)
    BY DEF IInv
  <2>2. CASE alive
    BY <2>1, <2>2, AliveHolds
  <2>3. CASE ~alive
    BY <2>1, <2>3 DEF LeftOf
  <2>4. QED
    BY <2>2, <2>3
<1>2. QED
  BY <1>1, Invariance, PTL

(* No change falls between the flags, the snapshot and the save.           *)
THEOREM UpdatesReachDisk == Spec => []NoLostUpdate
<1>1. IInv => NoLostUpdate
  <2> SUFFICES ASSUME IInv, NEW c \in Configs, alive, failures = 0,
                      calls[c] = 0, ~changed[c][1],
                      ~SavingAt(c, {"list", "write", "sign", "backup",
                                    "backupSgn", "install", "installSgn"})
               PROVE  Loaded(disk[c]) = value[c]
    BY DEF NoLostUpdate
  <2>1. FilesOf(c) /\ MemoryOf(c) /\ TypeOK
    BY DEF IInv
  <2>2. ~(cur = c /\ step # "next")
    BY <2>1 DEF SavingAt, TypeOK
  <2>3. QED
    BY <2>1, <2>2 DEF FilesOf, MemoryOf
<1>2. QED
  BY <1>1, Invariance, PTL

(* Whatever fails, what is loaded was a configuration once.                *)
THEOREM NothingTornIsLoaded == Spec => []LoadsWhole
<1>1. IInv => LoadsWhole
  <2> SUFFICES ASSUME IInv, NEW c \in Configs
               PROVE  Loaded(disk[c]) \in 0 .. changes
    BY DEF LoadsWhole
  <2>1. disk[c] \in Files /\ changes \in Nat /\ UpTo(disk[c], changes)
    BY DEF IInv, Known, TypeOK
  <2>2. QED
    BY <2>1, LoadedType, LoadedBound
<1>2. QED
  BY <1>1, Invariance, PTL

(***************************************************************************)
(* A clean shutdown                                                        *)
(***************************************************************************)

(* The mutex is held by the thread that saves; without a program there are *)
(* no threads.                                                             *)
HolderSaves ==
    /\ \A t \in Threads : pc[t] = "saving" <=> holder = t
    /\ ~alive => \A t \in Threads : pc[t] = "idle"

(* What is due of c is saved, or in the save that is under way.            *)
SavedFor(c) ==
    \/ saved[c] >= due[c]
    \/ cur = c /\ step # "next" /\ (step # "list" => snap >= due[c])

(* From the beginning of a shutdown: what is due is marked or saved, what  *)
(* the shutdown's own save has visited is saved, and then all of it is.    *)
ExitOf(c) ==
    alive /\ pc["exit"] # "idle" =>
      /\ due[c] <= value[c]
      /\ changed[c][1] \/ SavedFor(c)
      /\ pc["exit"] = "saving" /\ c \notin todo => SavedFor(c)
      /\ pc["exit"] \in {"disable", "done"} => saved[c] >= due[c]

ExitInv == failures = 0 /\ discFulls = 0 => \A c \in Configs : ExitOf(c)

LEMMA HolderStep == TypeOK /\ InSave /\ HolderSaves /\ [Next]_vars => HolderSaves'
<1> SUFFICES ASSUME TypeOK, InSave, HolderSaves, [Next]_vars PROVE HolderSaves'
  OBVIOUS
<1> USE DEF memory, threads, counters, HolderSaves
<1>1. ASSUME NEW c \in Configs, SetSetting(c) \/ Indicate(c) \/ Visit(c)
      PROVE  HolderSaves'
  BY <1>1 DEF SetSetting, Indicate, Visit
<1>2. ASSUME NEW t \in Threads, DiscFull(t) PROVE HolderSaves'
  BY <1>2 DEF DiscFull, Returns, TypeOK
<1>3. ASSUME NEW t \in Threads, BeginSave(t) PROVE HolderSaves'
  BY <1>3 DEF BeginSave, TypeOK, None, Threads
<1>4. CASE TickScan \/ BeginExit \/ DisableSave
  BY <1>4 DEF TickScan, BeginExit, DisableSave, TypeOK
<1>5. CASE EndSave
  BY <1>5 DEF EndSave, Returns, TypeOK, None, Threads
<1>6. CASE SaveList \/ Write \/ Sign
  BY <1>6 DEF SaveList, Write, Sign
<1>7. CASE BackupCfg \/ BackupSgn \/ InstallCfg \/ InstallSgn
  BY <1>7 DEF BackupCfg, BackupSgn, InstallCfg, InstallSgn, Rename
<1>8. CASE Stop \/ Crash
  BY <1>8 DEF Stop, Crash, Forget, Threads, None
<1>9. CASE Restart \/ UNCHANGED vars
  BY <1>9 DEF Restart, vars
<1>10. QED
  BY <1>1, <1>2, <1>3, <1>4, <1>5, <1>6, <1>7, <1>8, <1>9 DEF Next, Saving

LEMMA ExitStep ==
    ASSUME TypeOK, InSave, Known, HolderSaves, [Next]_vars, failures' = 0,
           discFulls' = 0,
           NEW c \in Configs, FilesOf(c), MemoryOf(c), ExitOf(c)
    PROVE  ExitOf(c)'
<1> USE DEF memory, threads, counters
<1>0. /\ value[c] \in Nat /\ saved[c] \in Nat /\ due[c] \in Nat /\ snap \in Nat
      /\ changed[c] \in [{0, 1} -> BOOLEAN] /\ "exit" \in Threads /\ "tick" \in Threads
  BY DEF TypeOK, Threads
<1>1. ASSUME NEW d \in Configs, SetSetting(d) PROVE ExitOf(c)'
  <2>1. value'[c] \in {value[c], changes + 1}
    BY <1>1 DEF SetSetting, TypeOK
  <2>2. UNCHANGED <<alive, changed, pc, todo, cur, step, snap, saved, due>>
    BY <1>1 DEF SetSetting
  <2>3. due[c] <= value[c] => due[c] <= value'[c]
    BY <1>0, <1>1, <2>1 DEF Known, TypeOK
  <2>4. QED
    BY <2>2, <2>3 DEF ExitOf, SavedFor
<1>2. ASSUME NEW d \in Configs, Indicate(d) PROVE ExitOf(c)'
  <2>1. changed[c][1] => changed'[c][1]
    BY <1>2, <1>0 DEF Indicate, TypeOK
  <2>2. UNCHANGED <<alive, value, pc, todo, cur, step, snap, saved, due>>
    BY <1>2 DEF Indicate
  <2>3. QED
    BY <2>1, <2>2 DEF ExitOf, SavedFor
<1>3. CASE TickScan
  <2>1. changed'[c][1] = changed[c][1] /\ pc'["exit"] = pc["exit"]
    BY <1>3, <1>0 DEF TickScan, TypeOK
  <2>2. UNCHANGED <<alive, value, todo, cur, step, snap, saved, due>>
    BY <1>3 DEF TickScan
  <2>3. QED
    BY <2>1, <2>2 DEF ExitOf, SavedFor
<1>4. CASE BeginExit
  <2>1. /\ alive /\ due'[c] = (IF calls[c] = 0 THEN value[c] ELSE 0) /\ pc'["exit"] = "save"
        /\ UNCHANGED <<alive, value, changed, calls, todo, cur, step, snap, saved>>
    BY <1>4, <1>0 DEF BeginExit, TypeOK
  <2>2. due'[c] <= value[c]
    BY <1>0, <2>1
  <2>3. changed[c][1] \/ SavedFor(c)'
    BY <1>0, <2>1 DEF MemoryOf, SavedFor
  <2>4. QED
    BY <2>1, <2>2, <2>3 DEF ExitOf
<1>5. ASSUME NEW t \in Threads, DiscFull(t) PROVE ExitOf(c)'
  BY <1>5 DEF DiscFull, TypeOK
<1>6. ASSUME NEW t \in Threads, BeginSave(t) PROVE ExitOf(c)'
  <2>1. /\ pc[t] = "save" /\ pc' = [pc EXCEPT ![t] = "saving"] /\ todo' = Configs
        /\ UNCHANGED <<alive, value, changed, cur, step, snap, saved, due>>
    BY <1>6 DEF BeginSave
  <2>2. pc'["exit"] # "idle" => pc["exit"] # "idle"
    BY <1>0, <2>1 DEF TypeOK
  <2>3. pc'["exit"] \in {"disable", "done"} => pc["exit"] = pc'["exit"]
    BY <1>0, <2>1 DEF TypeOK
  <2>4. QED
    BY <2>1, <2>2, <2>3 DEF ExitOf, SavedFor
<1>7. ASSUME NEW d \in Configs, Visit(d) PROVE ExitOf(c)'
  <2>1. /\ step = "next" /\ todo' = todo \ {d} /\ cur' = d
        /\ step' = IF changed[d][1] THEN "list" ELSE "next"
        /\ changed' = [changed EXCEPT ![d][1] = FALSE]
        /\ UNCHANGED <<alive, value, pc, snap, saved, due>>
    BY <1>7 DEF Visit
  <2>2. c # d => changed'[c] = changed[c]
    BY <2>1 DEF TypeOK
  <2>3. SavedFor(c) => saved[c] >= due[c]
    BY <2>1 DEF SavedFor
  <2>4. CASE c # d
    BY <2>1, <2>2, <2>3, <2>4 DEF ExitOf, SavedFor
  <2>5. CASE c = d
    BY <2>1, <2>3, <2>5 DEF ExitOf, SavedFor
  <2>6. QED
    BY <2>4, <2>5
<1>8. CASE EndSave
  <2>1. /\ step = "next" /\ todo = {} /\ alive /\ holder # None
        /\ pc' = [pc EXCEPT ![holder] = Returns(holder)]
        /\ UNCHANGED <<alive, value, changed, todo, cur, step, snap, saved, due>>
    BY <1>8 DEF EndSave
  <2>2. holder \in Threads /\ pc[holder] = "saving"
    BY <2>1 DEF HolderSaves, TypeOK, None
  <2>3. SavedFor(c) => saved[c] >= due[c]
    BY <2>1 DEF SavedFor
  <2>4. CASE holder = "exit"
    BY <1>0, <2>1, <2>2, <2>3, <2>4 DEF ExitOf, SavedFor
  <2>5. CASE holder # "exit"
    BY <1>0, <2>1, <2>5 DEF ExitOf, SavedFor, TypeOK
  <2>6. QED
    BY <2>4, <2>5
<1>9. CASE SaveList
  <2>1. /\ step = "list" /\ snap' = value[cur] /\ step' = "write"
        /\ UNCHANGED <<alive, value, changed, pc, todo, cur, saved, due>>
    BY <1>9 DEF SaveList
  <2>2. QED
    BY <2>1 DEF ExitOf, SavedFor
<1>10. CASE Write \/ Sign
  <2>1. /\ step \in {"write", "sign"} /\ step' \in {"sign", "backup"}
        /\ UNCHANGED <<alive, value, changed, pc, todo, cur, snap, saved, due>>
    BY <1>10 DEF Write, Sign
  <2>2. QED
    BY <2>1 DEF ExitOf, SavedFor
<1>11. CASE BackupCfg \/ BackupSgn
  <2>1. /\ step \in {"backup", "backupSgn"} /\ step' \in {"backupSgn", "install"}
        /\ UNCHANGED <<alive, value, changed, pc, todo, cur, snap, saved, due>>
    BY <1>11 DEF BackupCfg, BackupSgn, Rename
  <2>2. QED
    BY <2>1 DEF ExitOf, SavedFor
<1>12. CASE InstallCfg
  <2>1. /\ step = "install"
        /\ UNCHANGED <<alive, value, changed, pc, todo, cur, snap, saved, due>>
    BY <1>12 DEF InstallCfg, Rename
  <2>2. CASE cur = c
    <3>1. step' = "installSgn"
      BY <1>12, <2>2, InstallCfgRenames
    <3>2. QED
      BY <2>1, <3>1 DEF ExitOf, SavedFor
  <2>3. CASE cur # c
    BY <2>1, <2>3 DEF ExitOf, SavedFor
  <2>4. QED
    BY <2>2, <2>3
<1>13. CASE InstallSgn
  <2>1. /\ step = "installSgn" /\ step' = "next" /\ alive
        /\ UNCHANGED <<alive, value, changed, pc, todo, cur, snap, due>>
        /\ saved' = [saved EXCEPT ![cur] = IF Loaded(disk'[cur]) = snap THEN snap ELSE @]
    BY <1>13 DEF InstallSgn, Rename
  <2>2. CASE cur = c
    <3>1. saved'[c] = snap
      BY <1>13, <2>2, InstallSgnRenames DEF TypeOK
    <3>2. saved[c] <= snap
      BY <2>1, <2>2 DEF MemoryOf
    <3>3. QED
      BY <1>0, <2>1, <3>1, <3>2 DEF ExitOf, SavedFor
  <2>3. CASE cur # c
    <3>1. saved'[c] = saved[c]
      BY <2>1, <2>3, <1>0 DEF TypeOK
    <3>2. QED
      BY <2>1, <2>3, <3>1 DEF ExitOf, SavedFor
  <2>4. QED
    BY <2>2, <2>3
<1>14. CASE DisableSave
  <2>1. /\ pc["exit"] = "disable" /\ pc'["exit"] = "done"
        /\ UNCHANGED <<alive, value, changed, todo, cur, step, snap, saved, due>>
    BY <1>14, <1>0 DEF DisableSave, TypeOK
  <2>2. QED
    BY <2>1 DEF ExitOf, SavedFor
<1>15. CASE Stop \/ Crash
  BY <1>15 DEF Stop, Crash, Forget, ExitOf
<1>16. CASE Restart
  BY <1>16, <1>0 DEF Restart, ExitOf, HolderSaves
<1>17. CASE UNCHANGED vars
  BY <1>17 DEF vars, ExitOf, SavedFor
<1>18. QED
  BY <1>1, <1>2, <1>3, <1>4, <1>5, <1>6, <1>7, <1>8, <1>9, <1>10, <1>11, <1>12,
     <1>13, <1>14, <1>15, <1>16, <1>17 DEF Next, Saving

LEMMA ExitInvariance == Spec => [](IInv /\ HolderSaves /\ ExitInv)
<1>1. Init => HolderSaves /\ ExitInv
  BY DEF Init, HolderSaves, ExitInv, ExitOf, Threads, None
<1>2. IInv /\ HolderSaves /\ ExitInv /\ [Next]_vars => HolderSaves' /\ ExitInv'
  <2> SUFFICES ASSUME IInv, HolderSaves, ExitInv, [Next]_vars
               PROVE  HolderSaves' /\ ExitInv'
    OBVIOUS
  <2>1. HolderSaves'
    BY HolderStep DEF IInv
  <2>2. ASSUME failures' = 0, discFulls' = 0 PROVE failures = 0 /\ discFulls = 0
    <3>1. failures = 0
      BY <2>2, FailuresStay
    <3>2. \/ discFulls' = discFulls
          \/ discFulls' = discFulls + 1
      BY DEF Next, Saving, SetSetting, Indicate, TickScan, BeginExit, DiscFull,
             BeginSave, Visit, EndSave, SaveList, Write, Sign, BackupCfg,
             BackupSgn, InstallCfg, InstallSgn, Rename, DisableSave, Stop,
             Crash, Restart, vars, counters
    <3>3. QED
      BY <2>2, <3>1, <3>2 DEF IInv, TypeOK
  <2>3. ExitInv'
    BY <2>2, ExitStep DEF ExitInv, IInv
  <2>4. QED
    BY <2>1, <2>3
<1>3. QED
  BY <1>1, <1>2, InvInit, InvStep, PTL DEF Spec

(* A clean shutdown leaves on the disc what was changed before it.         *)
THEOREM ShutdownSaves == Spec => []ExitSaves
<1>1. IInv /\ HolderSaves /\ ExitInv => ExitSaves
  <2> SUFFICES ASSUME IInv, HolderSaves, ExitInv, pc["exit"] = "done",
                      pc["tick"] = "idle", failures = 0, discFulls = 0,
                      NEW c \in Configs
               PROVE  Loaded(disk[c]) >= due[c]
    BY DEF ExitSaves
  <2>1. alive /\ step = "next"
    BY DEF HolderSaves, IInv, InSave, Threads, TypeOK
  <2>2. Loaded(disk[c]) = saved[c]
    BY <2>1 DEF IInv, FilesOf
  <2>3. saved[c] >= due[c]
    BY <2>1 DEF ExitInv, ExitOf
  <2>4. QED
    BY <2>2, <2>3
<1>2. QED
  BY <1>1, ExitInvariance, PTL
=============================================================================
