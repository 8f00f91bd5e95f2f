----------------------------- MODULE RolloutProofs -----------------------------
(***************************************************************************)
(* Theorems about install.sh, apply.sh and fix_ap_24ghz.sh on one device,   *)
(* for any number of runs, kills and reboots: scripts that end by           *)
(* themselves leave a portal up, what reports success is complete, and      *)
(* nothing the device came with is lost.                                    *)
(***************************************************************************)
EXTENDS Rollout, TLAPS

-----------------------------------------------------------------------------
(* Which part of the device each of the two groups of scripts leaves alone. *)

\* A script starts with what is on the device.
LEMMA RunFrame ==
    ASSUME NEW name, NEW first, Run(name, first)
    PROVE  /\ Idle /\ script' = name /\ pc' = first /\ (wasUp' <=> portal = "up")
           /\ mybak' = "none" /\ myfwd' = "none" /\ wasUp' \in BOOLEAN
           /\ UNCHANGED <<fixed, bin, portal, baks, pageVars, forwarder, fwdConfig, cron>>
BY DEF Run

\* install.sh and apply.sh do not touch the access point.
LEMMA InstallerScripts ==
    ASSUME InstallerNext
    PROVE  /\ script' \in {"install", "overlay", "installed", "overlaid", "died"}
           /\ pc' # "none" <=> script' \in {"install", "overlay"}
           /\ Idle \/ script \in {"install", "overlay"}
BY DEF InstallerNext, StartInstall, StartOverlay, Run, GiveUp, Backup, StopPortal, OpenBin,
       CopyBin, StartPortal, Gate, Restore, Restart, Die, CopyPages, OpenForwarder, Compile,
       WriteConfig, Schedule, LeaveDesign, Overlay, Goto, Ends, Idle

\* The fix changes nothing that was installed and only restarts the portal.
LEMMA FixScripts ==
    ASSUME FixNext
    PROVE  /\ script' \in {"fix", "verified", "died", "rolledback", "persisted", "undone"}
           /\ pc' # "none" <=> script' = "fix"
           /\ Idle \/ script = "fix"
           /\ UNCHANGED <<fixed, bin, baks, pageVars, forwarder, fwdConfig, cron>>
           /\ ~Idle => UNCHANGED <<full, mybak, myfwd>>
           /\ Idle => mybak' = "none" /\ myfwd' = "none" /\ full' \in {FALSE, DiskMayFill}
           /\ portal' \in {portal, Started}
           /\ wasUp' = IF Idle THEN portal = "up" ELSE wasUp
           /\ Idle => portal' = portal
BY DEF FixNext, StartFix, Run, AlreadyThere, Refuse, BackupAp, SetDomain, Modify, Activate, GateAp,
       RollBack, RestoreAp, RestartPortal, InsertLine, FillAp, Edit, UndoEdit, Goto, Ends, Idle,
       ApFrame, InstallFrame, pageVars, fwdVars

-----------------------------------------------------------------------------
(* The portal: the invariant of the backup, the swap and the rollback.     *)

Script == pc # "none" <=> script \in {"install", "overlay", "fix"}
PortalRuns == portal = "up" => Works(bin)
Untouched ==
    /\ wasUp /\ script \in {"overlay", "fix"} => portal = "up"
    /\ wasUp /\ script = "install" /\ pc \in {"backup", "stop", "dead"} => portal = "up"
Stopped ==
    script = "install" /\ pc \in {"open", "copy", "start", "reopen", "restore", "restart"} =>
        portal = "stopped"
BackupWorks ==
    /\ wasUp /\ script = "install" /\ pc # "backup" => Works(mybak)
    /\ script = "install" /\ pc = "restart" => bin = mybak
Swapped ==
    /\ script = "install" /\ pc \in {"start", "gate"} => bin = "new"
    /\ script = "install" /\ pc \in {"splash", "forwarder", "compile", "config", "cron"} =>
           portal = "up" /\ bin = "new"

PortalInv ==
    /\ Script /\ PortalRuns /\ Untouched /\ Stopped /\ BackupWorks /\ Swapped /\ EndsWithPortal

\* The portal's part of the invariant holds on a device as it comes.
LEMMA PortalInit == Init => PortalInv
BY DEF Init, InstallerInit, PortalInv, Script, PortalRuns, Untouched, Stopped, BackupWorks, Swapped,
       EndsWithPortal, Works, Idle

\* Every command of every script keeps it.
LEMMA PortalStep == PortalInv /\ [Next]_vars => PortalInv'
<1> SUFFICES ASSUME PortalInv, [Next]_vars PROVE PortalInv'
    OBVIOUS
<1> USE DEF PortalInv, Script, PortalRuns, Untouched, Stopped, BackupWorks, Swapped, EndsWithPortal,
            Works, Started, Idle, Goto, Ends, fixed, binVars, BinFrame, BackupFrame
<1>1. CASE Install
    <2>1. CASE StartInstall \/ StartOverlay
        BY <2>1 DEF StartInstall, StartOverlay, Run
    <2>2. CASE GiveUp
        BY <2>2 DEF GiveUp
    <2>3. CASE Backup
        BY <2>3 DEF Backup
    <2>4. CASE StopPortal
        BY <2>4 DEF StopPortal
    <2>5. CASE OpenBin \/ CopyBin
        BY <2>5 DEF OpenBin, CopyBin
    <2>6. CASE StartPortal
        BY <2>6 DEF StartPortal
    <2>7. CASE Gate
        BY <2>7 DEF Gate
    <2>8. CASE Restore \/ Restart \/ Die
        BY <2>8 DEF Restore, Restart, Die
    <2>9. CASE CopyPages \/ OpenForwarder \/ Compile \/ WriteConfig \/ Schedule
        BY <2>9 DEF CopyPages, OpenForwarder, Compile, WriteConfig, Schedule, FwdFrame
    <2>10. CASE LeaveDesign \/ Overlay
        BY <2>10 DEF LeaveDesign, Overlay
    <2> QED
        BY <1>1, <2>1, <2>2, <2>3, <2>4, <2>5, <2>6, <2>7, <2>8, <2>9, <2>10
           DEF Install, InstallerNext
<1>2. CASE Fix
    BY <1>2, FixScripts DEF Fix
<1>3. CASE Kill
    BY <1>3 DEF Kill, Interrupted
<1>4. CASE Boot
    BY <1>4 DEF Boot, Interrupted
<1>5. CASE UNCHANGED vars
    BY <1>5 DEF vars, installerVars
<1> QED
    BY <1>1, <1>2, <1>3, <1>4, <1>5 DEF Next

-----------------------------------------------------------------------------
(* What an installer that is still running has in place, and what it keeps. *)

InPlace ==
    script = "install" =>
        /\ pc \in {"forwarder", "compile", "config", "cron"} =>
               splash = "new" /\ (~full => pages = "new")
        /\ pc \in {"config", "cron"} =>
               Compiles(forwarder) /\ (~full => forwarder = "new" /\ newCompiles)
        /\ pc = "cron" => fwdConfig = "new"
Compilable ==
    cron /\ ~uncovered =>
        /\ ~Compiling => Compiles(forwarder)
        /\ script = "install" /\ pc \notin {"backup", "config", "cron"} /\ ~full => Compiles(myfwd)
OriginalSaved == script = "install" /\ pc # "backup" => "old" \in baks
BinaryKept == bin = "old" \/ "old" \in baks

FilesInv ==
    /\ PortalInv
    /\ InPlace /\ InstallCompletes
    /\ uncovered \in BOOLEAN /\ full \in BOOLEAN /\ Compilable
    /\ OriginalSaved /\ BinaryKept

\* The files' part of the invariant holds on a device as it comes.
LEMMA FilesInit == Init => FilesInv
<1> SUFFICES ASSUME Init PROVE FilesInv
    OBVIOUS
<1>1. PortalInv
    BY PortalInit
<1> QED
    BY <1>1 DEF Init, InstallerInit, FilesInv, InPlace, InstallCompletes, Compilable,
                OriginalSaved, BinaryKept, Compiles, Compiling

\* Every command of every script keeps it.
LEMMA FilesStep == FilesInv /\ [Next]_vars => FilesInv'
<1> SUFFICES ASSUME FilesInv, [Next]_vars PROVE FilesInv'
    OBVIOUS
<1>0. PortalInv'
    BY PortalStep DEF FilesInv
<1> USE <1>0, InstallerAssumption
        DEF FilesInv, PortalInv, Script, Swapped, InPlace, InstallCompletes, Compilable,
            OriginalSaved, BinaryKept, Compiles, Compiling, Idle, Goto, Ends,
            fixed, binVars, pageVars, fwdVars, BinFrame, FwdFrame, BackupFrame
<1>1. CASE Install
    <2> USE <1>1 DEF Install
    <2>1. CASE StartInstall \/ StartOverlay
        <3>1. full' \in BOOLEAN
            BY <2>1, InstallerAssumption, Zenon DEF StartInstall, StartOverlay, Run
        <3>2. uncovered' = uncovered
            BY <2>1 DEF StartInstall, StartOverlay, Run
        <3> QED
            BY <2>1, <3>1, <3>2, RunFrame DEF StartInstall, StartOverlay
    <2>2. CASE GiveUp
        BY <2>2 DEF GiveUp
    <2>11. CASE Backup
        BY <2>11 DEF Backup, BackedUp, CopyOf
    <2>3. CASE StopPortal \/ OpenBin \/ CopyBin \/ StartPortal
        BY <2>3 DEF StopPortal, OpenBin, CopyBin, StartPortal
    <2>4. CASE Gate \/ Restore \/ Restart \/ Die
        BY <2>4 DEF Gate, Restore, Restart, Die
    <2>5. CASE CopyPages
        BY <2>5 DEF CopyPages, Copied
    <2>6. CASE OpenForwarder
        BY <2>6 DEF OpenForwarder
    <2>7. CASE Compile
        BY <2>7 DEF Compile, CopyOf
    <2>8. CASE WriteConfig
        BY <2>8 DEF WriteConfig
    <2>9. CASE Schedule
        BY <2>9 DEF Schedule
    <2>10. CASE LeaveDesign \/ Overlay
        BY <2>10 DEF LeaveDesign, Overlay
    <2> QED
        BY <2>1, <2>2, <2>3, <2>4, <2>5, <2>6, <2>7, <2>8, <2>9, <2>10, <2>11 DEF InstallerNext
<1>2. CASE Fix
    <2>1. full' \in BOOLEAN
        <3>1. Idle \/ full' = full
            BY <1>2, FixScripts DEF Fix
        <3>2. Idle => full' \in {FALSE, DiskMayFill}
            BY <1>2, FixScripts DEF Fix
        <3> QED
            BY <3>1, <3>2, InstallerAssumption, Zenon
    <2> QED
        BY <1>2, <2>1, FixScripts DEF Fix
<1>3. CASE Kill
    BY <1>3 DEF Kill, Interrupted
<1>4. CASE Boot
    BY <1>4 DEF Boot, Interrupted
<1>5. CASE UNCHANGED vars
    BY <1>5 DEF vars, installerVars
<1> QED
    BY <1>1, <1>2, <1>3, <1>4, <1>5 DEF Next

-----------------------------------------------------------------------------
(* The access point.                                                       *)

ApTypes ==
    /\ bgWorks \in BOOLEAN /\ torn \in BOOLEAN /\ full \in BOOLEAN
    /\ domain \in {"00", "US"} /\ profile \in [Profiles -> {"a", "bg", "none"}]
    /\ on \in Profiles \cup {"none"} /\ ref \in Profiles /\ live \in {"a", "bg", "down"}
    /\ apsh \in ApScripts /\ apbak \in ApScripts

\* An access point that is on a band, or a script that names one, has seen it work; an
\* AP.sh that was not cut is whole, and so is its backup.
LiveWorks == live = "bg" => bgWorks
BandWorks == bgWorks \/ (apsh.band # "bg" /\ apbak.band # "bg")
Whole(f) == f.whole /\ f.band # "none"
Uncut == ~torn => Whole(apsh) /\ Whole(apbak)

\* How far a fix that is running has come, and what it has when it reports success
FixProgress ==
    script = "fix" =>
        /\ pc \notin {"look", "domain"} => domain = "US"
        /\ pc \in {"restart", "insert", "fill", "edit", "undo"} => live = "bg"
Persisted ==
    script = "persisted" => live = "bg" /\ domain = "US" /\ apsh.domain /\ apsh.band = "bg"

FixInv == Script /\ ApTypes /\ LiveWorks /\ BandWorks /\ Uncut /\ FixProgress /\ Persisted

\* The access point's part of the invariant holds on a device as it comes.
LEMMA FixStart == Init => FixInv
<1> SUFFICES ASSUME Init PROVE FixInv
    OBVIOUS
<1>1. script = "none" /\ pc = "none" /\ full = FALSE
    BY DEF Init, InstallerInit
<1>2. Stock \in ApScripts /\ Stock.band = "a" /\ Stock.whole
    BY DEF Stock, ApScripts
<1>3. ApTypes
    BY <1>1, <1>2 DEF Init, FixInit, ApTypes, Profiles
<1> QED
    BY <1>1, <1>2, <1>3 DEF FixInv, Script, FixProgress, Persisted, LiveWorks, BandWorks, Uncut,
                            Whole, Init, FixInit

\* What is left of an AP.sh is one, and names no other band.
LEMMA ApCopies ==
    ASSUME NEW f \in ApScripts
    PROVE  /\ WithDomain(f) \in ApScripts /\ WithDomain(f).band = f.band
           /\ WithDomain(f).whole = f.whole
           /\ \A g \in CutOf(f) : g \in ApScripts /\ (g.band = "bg" => f.band = "bg")
           /\ \A g \in ApCopy(f) : /\ g \in ApScripts /\ (g.band = "bg" => f.band = "bg")
                                   /\ full \/ g = f
<1>1. WithDomain(f) \in ApScripts /\ WithDomain(f).band = f.band /\ WithDomain(f).whole = f.whole
    BY DEF WithDomain, ApScripts
<1>2. \A g \in CutOf(f) : g \in ApScripts /\ (g.band = "bg" => f.band = "bg")
    BY DEF CutOf, ApScripts
<1>3. \A g \in ApCopy(f) : g = f \/ (full /\ g \in CutOf(f))
    BY DEF ApCopy
<1> QED
    BY <1>1, <1>2, <1>3

\* Every command of every script keeps it.
LEMMA FixStep == FixInv /\ [Next]_vars => FixInv'
<1> SUFFICES ASSUME FixInv, [Next]_vars PROVE FixInv'
    OBVIOUS
<1> USE DEF FixInv, Script, ApTypes, FixProgress, Persisted, LiveWorks, BandWorks, Uncut, Whole,
            Idle, Goto, Ends, apVars, radioVars, scriptFileVars, ApFrame
<1>0. Rewriting => script = "fix" /\ pc \in {"fill", "reset", "undo"}
    BY DEF Rewriting
<1>1. CASE Install
    <2>1. full' \in BOOLEAN
        BY <1>1, InstallerAssumption
           DEF Install, InstallerNext, StartInstall, StartOverlay, Run, GiveUp, Backup, BackupFrame,
               StopPortal, OpenBin, CopyBin, StartPortal, Gate, Restore, Restart, Die, BinFrame,
               CopyPages, OpenForwarder, Compile, WriteConfig, Schedule, FwdFrame, LeaveDesign, Overlay
    <2> QED
        BY <1>1, <2>1, InstallerScripts DEF Install
<1>2. CASE Fix
    <2>0. torn' = (torn \/ (full /\ Rewriting)) /\ FixNext
        BY <1>2 DEF Fix
    <2>1. CASE StartFix
        BY <2>0, <2>1, InstallerAssumption DEF StartFix, Run
    <2>2. CASE AlreadyThere \/ Refuse
        BY <2>0, <2>2, <1>0 DEF AlreadyThere, Refuse
    <2>3. CASE BackupAp
        BY <2>0, <2>3, <1>0 DEF BackupAp
    <2>4. CASE SetDomain
        BY <2>0, <2>4, <1>0 DEF SetDomain
    <2>5. CASE Modify
        BY <2>0, <2>5, <1>0 DEF Modify
    <2>6. CASE Activate
        BY <2>0, <2>6, <1>0 DEF Activate, Plays
    <2>7. CASE GateAp
        BY <2>0, <2>7, <1>0 DEF GateAp
    <2>8. CASE RollBack
        BY <2>0, <2>8, <1>0 DEF RollBack
    <2>9. CASE RestoreAp
        BY <2>0, <2>9, <1>0, ApCopies DEF RestoreAp, Rewriting
    <2>10. CASE RestartPortal
        BY <2>0, <2>10, <1>0 DEF RestartPortal
    <2>11. CASE InsertLine
        BY <2>0, <2>11, <1>0 DEF InsertLine
    <2>12. CASE FillAp
        BY <2>0, <2>12, <1>0, ApCopies DEF FillAp, Rewriting
    <2>13. CASE Edit
        <3>1. Edited \in ApScripts /\ Edited.whole = apsh.whole /\ Edited.domain = apsh.domain
              /\ (apsh.band # "none" => Edited.band = "bg")
              /\ (apsh.band = "none" => Edited.band = "none")
            BY DEF Edited, ApScripts
        <3> QED
            BY <2>0, <2>13, <3>1, <1>0 DEF Edit
    <2>14. CASE UndoEdit
        BY <2>0, <2>14, <1>0, ApCopies DEF UndoEdit, Rewriting
    <2> QED
        BY <2>0, <2>1, <2>2, <2>3, <2>4, <2>5, <2>6, <2>7, <2>8, <2>9, <2>10, <2>11, <2>12, <2>13,
           <2>14 DEF FixNext
<1>6. ASSUME Interrupted
      PROVE  /\ apsh' \in ApScripts /\ apbak' = apbak
             /\ torn' \in BOOLEAN /\ (~torn' => ~torn /\ ~Rewriting)
             /\ apsh'.band = "bg" => apsh.band = "bg" \/ apbak.band = "bg"
             /\ Rewriting \/ apsh' = apsh
             /\ script' = "cut" /\ pc' = "none" /\ UNCHANGED <<bgWorks, ref, full>>
    <2>1. apsh' \in {apsh} \cup
              (IF Rewriting THEN CutOf(IF pc = "fill" THEN WithDomain(apbak) ELSE apbak) ELSE {})
        BY <1>6 DEF Interrupted
    <2>2. CASE apsh' = apsh
        BY <1>6, <2>2 DEF Interrupted
    <2>3. CASE apsh' # apsh
        <3>1. Rewriting /\ (apsh' \in CutOf(WithDomain(apbak)) \/ apsh' \in CutOf(apbak))
            BY <2>1, <2>3
        <3>2. apsh' \in ApScripts /\ (apsh'.band = "bg" => apbak.band = "bg")
            BY <3>1, ApCopies
        <3> QED
            BY <1>6, <3>1, <3>2 DEF Interrupted
    <2> QED
        BY <2>2, <2>3
<1>3. CASE Kill
    BY <1>3, <1>6 DEF Kill
<1>4. CASE Boot
    <2>1. /\ domain' \in {"00", "US"} /\ profile' \in [Profiles -> {"a", "bg", "none"}]
          /\ on' \in Profiles \cup {"none"}
        <3>1. domain' \in {"00", "US"} /\ on' \in Profiles \cup {"none"}
            BY <1>4 DEF Boot
        <3>2. PICK band \in {"a", "bg", "none"} : profile' = [profile EXCEPT !["own"] = band]
            BY <1>4, <1>6 DEF Boot, ApScripts
        <3> QED
            BY <3>1, <3>2
    <2>2. live' \in {"a", "bg", "down"} /\ (live' = "bg" => bgWorks)
        <3>1. CASE live' = "down"
            BY <3>1
        <3>2. CASE live' # "down"
            <4>1. PICK p \in Profiles : Plays(profile'[p]) /\ live' = profile'[p]
                BY <1>4, <3>2 DEF Boot
            <4> QED
                BY <4>1, <2>1 DEF Plays
        <3> QED
            BY <3>1, <3>2
    <2> QED
        BY <1>4, <1>6, <2>1, <2>2 DEF Boot
<1>5. CASE UNCHANGED vars
    BY <1>5 DEF vars, installerVars
<1> QED
    BY <1>1, <1>2, <1>3, <1>4, <1>5 DEF Next

-----------------------------------------------------------------------------
(* The types of the rest.                                                  *)

FullType == full \in {FALSE, DiskMayFill}
Types ==
    /\ newWorks \in BOOLEAN /\ newCompiles \in BOOLEAN
    /\ bin \in Content /\ baks \subseteq Content /\ mybak \in Content \cup {"none"}
    /\ script = "install" /\ pc # "backup" => mybak \in Content
    /\ portal \in {"up", "stopped", "failed"} /\ wasUp \in BOOLEAN
    /\ splash \in Content /\ pages \in Content
    /\ forwarder \in Content \cup {"none", "short"} /\ myfwd \in Content \cup {"none", "short"}
    /\ fwdConfig \in {"none", "new", "part"} /\ cron \in BOOLEAN
    /\ cuts \in 0 .. MaxCuts /\ runs \in 0 .. MaxRuns /\ uncovered \in BOOLEAN
ApKept ==
    /\ apbaks \subseteq ApScripts
    /\ apsh = Stock \/ Stock \in apbaks
    /\ script = "fix" /\ pc # "look" => Stock \in apbaks

\* Every backup of AP.sh is an AP.sh, and before AP.sh is touched one of them is the
\* one the device came with.
LEMMA ApKeptStep == FixInv /\ ApKept /\ [Next]_vars => ApKept'
<1> SUFFICES ASSUME FixInv, ApKept, [Next]_vars PROVE ApKept'
    OBVIOUS
<1> USE DEF ApKept, FixInv, ApTypes, Script, Idle, Goto, Ends, apVars, radioVars, scriptFileVars,
            ApFrame
<1>1. CASE Install
    BY <1>1, InstallerScripts DEF Install
<1>2. CASE Fix
    <2>1. CASE StartFix
        BY <2>1 DEF StartFix, Run
    <2>2. CASE BackupAp
        BY <2>2 DEF BackupAp
    <2>3. CASE AlreadyThere \/ Refuse \/ SetDomain \/ Modify \/ Activate \/ GateAp \/ RollBack
        BY <2>3 DEF AlreadyThere, Refuse, SetDomain, Modify, Activate, GateAp, RollBack
    <2>4. CASE RestoreAp \/ RestartPortal \/ InsertLine \/ FillAp \/ Edit \/ UndoEdit
        BY <2>4 DEF RestoreAp, RestartPortal, InsertLine, FillAp, Edit, UndoEdit
    <2> QED
        BY <1>2, <2>1, <2>2, <2>3, <2>4 DEF Fix, FixNext
<1>3. CASE Kill \/ Boot
    <2>1. apbaks' = apbaks /\ script' = "cut" /\ (apsh' = apsh \/ Rewriting)
        <3>1. apsh' \in {apsh} \cup
                  (IF Rewriting THEN CutOf(IF pc = "fill" THEN WithDomain(apbak) ELSE apbak) ELSE {})
            BY <1>3 DEF Kill, Boot, Interrupted
        <3> QED
            BY <1>3, <3>1 DEF Kill, Boot, Interrupted
    <2> QED
        BY <2>1 DEF Rewriting
<1>4. CASE UNCHANGED vars
    BY <1>4 DEF vars, installerVars
<1> QED
    BY <1>1, <1>2, <1>3, <1>4 DEF Next

\* The disk is full only where it may be.
LEMMA FullStep == FullType /\ [Next]_vars => FullType'
<1> SUFFICES ASSUME FullType, [Next]_vars PROVE FullType'
    OBVIOUS
<1>1. full' = full \/ \E name, first : Run(name, first)
    <2>1. CASE Install
        BY <2>1, Zenon
           DEF Install, InstallerNext, StartInstall, StartOverlay, GiveUp, Backup, BackupFrame,
               StopPortal, OpenBin, CopyBin, StartPortal, Gate, Restore, Restart, Die, BinFrame,
               CopyPages, OpenForwarder, Compile, WriteConfig, Schedule, FwdFrame, LeaveDesign, Overlay
    <2>2. CASE Fix
        BY <2>2, Zenon
           DEF Fix, FixNext, StartFix, AlreadyThere, Refuse, BackupAp, SetDomain, Modify, Activate,
               GateAp, RollBack, RestoreAp, RestartPortal, InsertLine, FillAp, Edit, UndoEdit, ApFrame
    <2>3. CASE Kill \/ Boot \/ UNCHANGED vars
        BY <2>3 DEF Kill, Boot, Interrupted, vars, installerVars
    <2> QED
        BY <2>1, <2>2, <2>3 DEF Next
<1> QED
    BY <1>1, Zenon DEF FullType, Run

\* Every command of every script keeps the types.
LEMMA TypesStep == PortalInv /\ Types /\ [Next]_vars => Types'
<1> SUFFICES ASSUME PortalInv, Types, [Next]_vars PROVE Types'
    OBVIOUS
<1>0. /\ "old" \in Content /\ "new" \in Content /\ "part" \in Content /\ Copied \subseteq Content
      /\ \A f \in Content \cup {"short"} : CopyOf(f) \subseteq Content \cup {"short"}
    BY DEF Content, Copied, CopyOf
<1> USE <1>0 DEF PortalInv, Script, Types, Started, Idle, Goto, Ends, Compiling,
                 fixed, binVars, pageVars, fwdVars, BinFrame, FwdFrame, BackupFrame
<1>7. Step => runs' \in 0 .. MaxRuns /\ cuts' = cuts
    BY RolloutAssumption DEF Step
<1>1. CASE Install
    <2>0. InstallerNext /\ runs' \in 0 .. MaxRuns /\ cuts' = cuts /\ uncovered' \in BOOLEAN
        BY <1>1, <1>7 DEF Install
    <2>1. CASE StartInstall \/ StartOverlay
        BY <2>0, <2>1, RunFrame DEF StartInstall, StartOverlay
    <2>2. CASE GiveUp
        BY <2>0, <2>2 DEF GiveUp
    <2>9. CASE Backup
        <3>1. myfwd' \in Content \cup {"none", "short"}
            BY <2>9 DEF Backup, BackedUp
        <3> QED
            BY <2>0, <2>9, <3>1 DEF Backup
    <2>3. CASE StopPortal \/ OpenBin \/ CopyBin \/ StartPortal
        BY <2>0, <2>3 DEF StopPortal, OpenBin, CopyBin, StartPortal
    <2>4. CASE Gate \/ Restore \/ Restart \/ Die
        BY <2>0, <2>4 DEF Gate, Restore, Restart, Die
    <2>5. CASE CopyPages \/ OpenForwarder
        BY <2>0, <2>5 DEF CopyPages, OpenForwarder
    <2>6. CASE Compile
        <3>1. forwarder' \in Content \cup {"none", "short"}
            BY <2>6 DEF Compile
        <3> QED
            BY <2>0, <2>6, <3>1 DEF Compile
    <2>7. CASE WriteConfig \/ Schedule
        BY <2>0, <2>7 DEF WriteConfig, Schedule, Copied
    <2>8. CASE LeaveDesign \/ Overlay
        BY <2>0, <2>8 DEF LeaveDesign, Overlay
    <2> QED
        BY <2>0, <2>1, <2>2, <2>3, <2>4, <2>5, <2>6, <2>7, <2>8, <2>9 DEF InstallerNext
<1>2. CASE Fix
    <2>1. /\ FixNext /\ uncovered' = uncovered /\ cuts' = cuts /\ runs' \in 0 .. MaxRuns
          /\ portal' \in {"up", "stopped", "failed"}
        BY <1>2, <1>7, FixScripts DEF Fix
    <2>2. wasUp' \in BOOLEAN
        <3>1. wasUp' = IF Idle THEN portal = "up" ELSE wasUp
            BY <2>1, FixScripts, Zenon
        <3> QED
            BY <3>1, Zenon
    <2>3. /\ script' \in {"fix", "verified", "died", "rolledback", "persisted", "undone"}
          /\ UNCHANGED <<fixed, bin, baks, pageVars, forwarder, fwdConfig, cron>>
          /\ mybak' \in {mybak, "none"} /\ myfwd' \in {myfwd, "none"}
        BY <2>1, FixScripts
    <2> QED
        BY <2>1, <2>2, <2>3
<1>6. ASSUME Interrupted
      PROVE  /\ script' = "cut" /\ pc' = "none" /\ cuts' \in 0 .. MaxCuts /\ uncovered' \in BOOLEAN
             /\ splash' \in Content /\ pages' \in Content /\ fwdConfig' \in {"none", "new", "part"}
             /\ baks' \subseteq Content
             /\ UNCHANGED <<newWorks, newCompiles, bin, mybak, forwarder, myfwd, cron, wasUp, runs>>
    <2>1. cuts' \in 0 .. MaxCuts
        BY <1>6, RolloutAssumption DEF Interrupted
    <2>2. splash' \in Content /\ pages' \in Content
        <3>1. PICK left \in PagesLeft : splash' = left[1] /\ pages' = left[2]
            BY <1>6 DEF Interrupted
        <3> QED
            BY <3>1 DEF PagesLeft
    <2>3. fwdConfig' \in {"none", "new", "part"} /\ baks' \subseteq Content
        BY <1>6 DEF Interrupted
    <2> QED
        BY <1>6, <2>1, <2>2, <2>3 DEF Interrupted
<1>3. CASE Kill
    BY <1>3, <1>6 DEF Kill
<1>4. CASE Boot
    <2>1. portal' \in {"up", "stopped", "failed"} /\ Interrupted
        BY <1>4 DEF Boot
    <2> QED
        BY <1>6, <2>1
<1>5. CASE UNCHANGED vars
    BY <1>5 DEF vars, installerVars
<1> QED
    BY <1>1, <1>2, <1>3, <1>4, <1>5 DEF Next

-----------------------------------------------------------------------------
\* Together: the invariants of the three scripts, whatever cuts them short.
DeviceInv == FilesInv /\ FixInv /\ Types /\ FullType /\ ApKept
LEMMA RolloutCorrect == Spec => []DeviceInv
<1>0. Init => Types /\ FullType /\ ApKept
    <2> SUFFICES ASSUME Init PROVE Types /\ FullType /\ ApKept
        OBVIOUS
    <2>1. "old" \in Content
        BY DEF Content
    <2>2. cron \in BOOLEAN
        BY DEF Init, InstallerInit
    <2>3. cuts \in 0 .. MaxCuts /\ runs \in 0 .. MaxRuns
        BY RolloutAssumption DEF Init
    <2> QED
        BY <2>1, <2>2, <2>3 DEF Init, InstallerInit, FixInit, Types, FullType, ApKept
<1>1. Init => DeviceInv
    BY <1>0, FilesInit, FixStart DEF DeviceInv
<1>2. DeviceInv /\ [Next]_vars => DeviceInv'
    BY FilesStep, FixStep, TypesStep, FullStep, ApKeptStep DEF DeviceInv, FilesInv
<1> QED
    BY <1>1, <1>2, PTL DEF Spec

\* Files, services and settings keep their types, whatever is killed and when.
THEOREM RolloutTypes == Spec => []TypeOK
<1>1. DeviceInv => TypeOK
    BY DEF DeviceInv, FilesInv, PortalInv, Script, FixInv, ApTypes, ApKept, Types, FullType, TypeOK
<1> QED
    BY <1>1, RolloutCorrect, PTL

\* "It must never leave the portal broken": a script that ends by itself leaves
\* a portal up that it has found up.
THEOREM PortalComesBack == Spec => []EndsWithPortal
<1>1. DeviceInv => EndsWithPortal
    BY DEF DeviceInv, FilesInv, PortalInv
<1> QED
    BY <1>1, RolloutCorrect, PTL

\* "Idempotent": an installer that reports success has in place what its checks look at,
\* and on a disk that was not full all it installs, though any number of earlier runs
\* were cut short.
THEOREM SuccessIsComplete == Spec => []InstallCompletes
<1>1. DeviceInv => InstallCompletes
    BY DEF DeviceInv, FilesInv
<1> QED
    BY <1>1, RolloutCorrect, PTL

\* No number of runs, kills and reboots uses up the binary or the AP.sh the device
\* came with.
THEOREM NothingLost == Spec => []OriginalKept
<1>1. DeviceInv => OriginalKept
    BY DEF DeviceInv, FilesInv, BinaryKept, ApKept, OriginalKept
<1> QED
    BY <1>1, RolloutCorrect, PTL

\* Cron finds a forwarder that does not compile only while it is copied and compiled,
\* and after a run that was stopped there or ended there on a full disk.
THEOREM ForwarderCompiles == Spec => []DeliveryKept
<1>1. DeviceInv => DeliveryKept
    BY DEF DeviceInv, FilesInv, Compilable, DeliveryKept
<1> QED
    BY <1>1, RolloutCorrect, PTL

\* Whatever fixes did before, a boot brings an access point up, unless AP.sh was being
\* written when a script was stopped or the disk was full.
THEOREM FixLeavesBootable == Spec => BootComesUp
<1>1. DeviceInv /\ [Next]_vars => [Boot => live' # "down" \/ torn']_vars
    <2> SUFFICES ASSUME DeviceInv, Boot, ~torn' PROVE live' # "down"
        BY DEF BootComesUp
    <2>1. ~torn /\ ~Rewriting /\ apsh' = apsh /\ bgWorks' = bgWorks
        BY DEF Boot, Interrupted
    <2>2. apsh.whole /\ apsh.band # "none" /\ Plays(apsh.band)
        BY <2>1 DEF DeviceInv, FixInv, ApTypes, ApScripts, BandWorks, Uncut, Whole, Plays
    <2>3. profile \in [Profiles -> {"a", "bg", "none"}] /\ "own" \in Profiles
        BY DEF DeviceInv, FixInv, ApTypes, Profiles
    <2>4. profile' = [profile EXCEPT !["own"] = apsh.band]
        BY <2>1, <2>2 DEF Boot
    <2>5. Plays(profile'["own"])
        BY <2>2, <2>3, <2>4
    <2>6. PICK p \in Profiles : Plays(profile'[p]) /\ live' = profile'[p]
        BY <2>3, <2>5 DEF Boot
    <2> QED
        BY <2>6 DEF Plays
<1> QED
    BY <1>1, RolloutCorrect, PTL DEF Spec, BootComesUp

\* "Persist across reboot": after a fix that reports success the access point is on
\* 2.4 GHz, and a boot keeps it there unless a stale duplicate wins or AP.sh was cut.
THEOREM FixSurvivesBoot == Spec => BootKeepsFix
<1>1. DeviceInv /\ [Next]_vars =>
          [script = "persisted" /\ Boot =>
               /\ live = "bg"
               /\ profile["dup"] = "a" \/ torn \/ UNCHANGED <<domain, live>>]_vars
    <2> SUFFICES ASSUME DeviceInv, script = "persisted", Boot
                 PROVE  live = "bg" /\ (profile["dup"] = "a" \/ torn \/ UNCHANGED <<domain, live>>)
        OBVIOUS
    <2>1. live = "bg" /\ domain = "US" /\ apsh.domain /\ apsh.band = "bg" /\ bgWorks
        BY DEF DeviceInv, FixInv, Persisted, LiveWorks
    <2>2. apsh' = apsh
        BY DEF Boot, Interrupted, Rewriting
    <2>3. ASSUME profile["dup"] # "a", ~torn PROVE UNCHANGED <<domain, live>>
        <3>1. apsh.whole /\ profile \in [Profiles -> {"a", "bg", "none"}]
            BY <2>3 DEF DeviceInv, FixInv, ApTypes, Uncut, Whole
        <3>2. profile' = [profile EXCEPT !["own"] = "bg"]
            BY <2>1, <2>2, <3>1 DEF Boot
        <3>3. profile'["own"] = "bg" /\ profile'["dup"] \in {"bg", "none"}
            BY <2>3, <3>1, <3>2 DEF Profiles
        <3>4. PICK p \in Profiles : Plays(profile'[p]) /\ live' = profile'[p]
            BY <2>1, <3>3 DEF Boot, Plays, Profiles
        <3>5. live' = "bg"
            BY <3>3, <3>4 DEF Plays, Profiles
        <3>6. domain' = "US"
            BY <2>1, <2>2 DEF Boot
        <3> QED
            BY <2>1, <3>5, <3>6
    <2> QED
        BY <2>1, <2>3
<1> QED
    BY <1>1, RolloutCorrect, PTL DEF Spec, BootKeepsFix

=============================================================================
