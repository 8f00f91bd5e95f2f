------------------------------- MODULE Installer -------------------------------
(***************************************************************************)
(* install.sh and apply.sh on a device: the patched nodogsplash is built,   *)
(* swapped in behind a health check, and the pages, the forwarder, its      *)
(* config and its cron lines follow.  A file is old (as the device came),   *)
(* new (the payload's) or part (a copy that did not end); a forwarder that  *)
(* was cut where it still compiles, or is empty, is short.  A copy onto a   *)
(* live file takes two steps, so a script can be stopped in the middle.     *)
(***************************************************************************)
EXTENDS Naturals

CONSTANTS
    DiskMayFill,   \* the disk may be full when a script runs
    SlowDevice     \* a healthy nodogsplash may be up too late for the gate

ASSUME InstallerAssumption == DiskMayFill \in BOOLEAN /\ SlowDevice \in BOOLEAN

VARIABLES
    newWorks,      \* the patched binary runs on this device
    newCompiles,   \* so does the forwarder of the payload
    full,          \* the disk is full, now and then, while the last script runs
    script,        \* the script that runs, or how the last one ended
    pc,            \* its next command
    bin,           \* /usr/bin/nodogsplash
    portal,        \* the nodogsplash service: up, stopped or failed
    mybak,         \* the backup of bin this run has made
    baks,          \* the contents of all its backups, nodogsplash.bak.*
    splash,        \* splash.html
    pages,         \* status.html and the picture
    forwarder,     \* guest_forwarder.py
    myfwd,         \* its backup of this run
    fwdConfig,     \* guest_forwarder_config.json
    cron,          \* the crontab has the forwarder's lines
    wasUp          \* history: the portal was up when the script began

binVars == <<bin, portal, mybak, baks>>
pageVars == <<splash, pages>>
fwdVars == <<forwarder, myfwd, fwdConfig, cron>>
fixed == <<newWorks, newCompiles>>
installerVars == <<fixed, full, script, pc, binVars, pageVars, fwdVars, wasUp>>

Content == {"old", "new", "part"}

Works(b) == b = "old" \/ (b = "new" /\ newWorks)
Compiles(f) == f \in {"old", "short"} \/ (f = "new" /\ newCompiles)

\* systemctl start or restart, or the boot
Started == IF Works(bin) THEN "up" ELSE "failed"

Idle == pc = "none"

Goto(next) == pc' = next /\ UNCHANGED script
Ends(how) == script' = how /\ pc' = "none"

\* How a copy ends that a full disk may cut
Copied == {"new"} \cup (IF full THEN {"part"} ELSE {})
CopyOf(f) == {f} \cup (IF full THEN {"part", "short"} ELSE {})

-----------------------------------------------------------------------------
(* Steps 0 to 4: nothing on the device is changed.                         *)

Run(name, first) ==
    /\ Idle
    /\ script' = name /\ pc' = first
    /\ full' \in {FALSE, DiskMayFill}
    /\ wasUp' = (portal = "up")
    /\ mybak' = "none" /\ myfwd' = "none"
    /\ UNCHANGED <<fixed, bin, portal, baks, pageVars, forwarder, fwdConfig, cron>>

StartInstall == Run("install", "backup")

\* A check, the download, the backup of the binary or the build fails.
GiveUp ==
    /\ script = "install" /\ pc \in {"backup", "stop"}
    /\ baks' \in {baks} \cup (IF full /\ pc = "backup" THEN {baks \cup {"part"}} ELSE {})
    /\ Ends("died")
    /\ UNCHANGED <<fixed, full, bin, portal, mybak, pageVars, fwdVars, wasUp>>

\* What line 104, which nobody checks, leaves as the backup of the forwarder
BackedUp == IF forwarder = "none" THEN {"none"}
            ELSE CopyOf(forwarder) \cup (IF full THEN {"none"} ELSE {})
BackupFrame == UNCHANGED <<fixed, full, bin, portal, pageVars, forwarder, fwdConfig, cron, wasUp>>

\* Mutants of Backup: every run uses one name; the binary is forgotten.
BackupOneName ==
    /\ script = "install" /\ pc = "backup"
    /\ mybak' = bin /\ baks' = {bin}
    /\ myfwd' \in BackedUp
    /\ Goto("stop")
    /\ BackupFrame

BackupForwarder ==
    /\ script = "install" /\ pc = "backup"
    /\ myfwd' \in BackedUp
    /\ Goto("stop")
    /\ UNCHANGED <<mybak, baks>> /\ BackupFrame

Backup ==
    /\ script = "install" /\ pc = "backup"
    /\ mybak' = bin /\ baks' = baks \cup {bin}
    /\ myfwd' \in BackedUp
    /\ Goto("stop")
    /\ BackupFrame

-----------------------------------------------------------------------------
(* Step 5: the binary                                                      *)

BinFrame == UNCHANGED <<fixed, full, mybak, baks, pageVars, fwdVars, wasUp>>

StopPortal ==
    /\ script = "install" /\ pc = "stop"
    /\ portal' = "stopped"
    /\ Goto("open")
    /\ UNCHANGED bin /\ BinFrame

\* cp, of the new binary or of the backup, opens the live file.
OpenBin ==
    /\ script = "install" /\ pc \in {"open", "reopen"}
    /\ bin' = "part"
    /\ Goto(IF pc = "open" THEN "copy" ELSE "restore")
    /\ UNCHANGED portal /\ BinFrame

CopyBin ==
    /\ script = "install" /\ pc = "copy"
    /\ bin' \in Copied
    /\ Goto(IF bin' = "new" THEN "start" ELSE "reopen")
    /\ UNCHANGED portal /\ BinFrame

StartPortal ==
    /\ script = "install" /\ pc = "start"
    /\ portal' = Started
    /\ Goto("gate")
    /\ UNCHANGED bin /\ BinFrame

\* Mutant of Gate: the script goes on with a portal that is not healthy.
GateBlind ==
    /\ script = "install" /\ pc = "gate"
    /\ Goto("splash")
    /\ UNCHANGED <<bin, portal>> /\ BinFrame

\* wait_healthy; if it fails the portal is stopped for the rollback.
Gate ==
    /\ script = "install" /\ pc = "gate"
    /\ \/ /\ portal = "up"
          /\ Goto("splash")
          /\ UNCHANGED <<bin, portal>>
       \/ /\ portal # "up" \/ SlowDevice
          /\ portal' = "stopped"
          /\ Goto("reopen")
          /\ UNCHANGED bin
    /\ BinFrame

\* Mutant of Restore: the portal is not started again.
RestoreOnly ==
    /\ script = "install" /\ pc = "restore"
    /\ bin' = mybak
    /\ Goto("dead")
    /\ UNCHANGED portal /\ BinFrame

\* The backup goes back in place.  The copy is not checked; it is taken to fit, where
\* a file of its size was before.
Restore ==
    /\ script = "install" /\ pc = "restore"
    /\ bin' = mybak
    /\ Goto("restart")
    /\ UNCHANGED portal /\ BinFrame

Restart ==
    /\ script = "install" /\ pc = "restart"
    /\ portal' = Started
    /\ Goto("dead")
    /\ UNCHANGED bin /\ BinFrame

\* die, with or without a second look at the health
Die ==
    /\ script = "install" /\ pc = "dead"
    /\ Ends("died")
    /\ UNCHANGED <<bin, portal>> /\ BinFrame

-----------------------------------------------------------------------------
(* Steps 6 to 9: pages, forwarder, config, cron                            *)

\* Of the three copies only that of splash.html is looked at.
CopyPages ==
    /\ script = "install" /\ pc = "splash"
    /\ splash' \in Copied /\ pages' \in Copied
    /\ IF splash' = "new" THEN Goto("forwarder") ELSE Ends("died")
    /\ UNCHANGED <<fixed, full, binVars, fwdVars, wasUp>>

FwdFrame == UNCHANGED <<fixed, full, binVars, pageVars, myfwd, wasUp>>

OpenForwarder ==
    /\ script = "install" /\ pc = "forwarder"
    /\ forwarder' = "part"
    /\ Goto("compile")
    /\ UNCHANGED <<fwdConfig, cron>> /\ FwdFrame

\* Mutant of Compile: a copy that fails to compile stays.
CompileKeeps ==
    /\ script = "install" /\ pc = "compile"
    /\ forwarder' \in CopyOf("new")
    /\ IF Compiles(forwarder') THEN Goto("config") ELSE Ends("died")
    /\ UNCHANGED <<fwdConfig, cron>> /\ FwdFrame

\* The copy ends, and py_compile looks at it.  If it fails, the backup of this run
\* comes back, if there is one; that copy is not checked.
Compile ==
    /\ script = "install" /\ pc = "compile"
    /\ \E f \in CopyOf("new") :
          \/ Compiles(f) /\ forwarder' = f /\ Goto("config")
          \/ /\ ~Compiles(f)
             /\ IF myfwd = "none" THEN forwarder' = f ELSE forwarder' \in CopyOf(myfwd)
             /\ Ends("died")
    /\ UNCHANGED <<fwdConfig, cron>> /\ FwdFrame

WriteConfig ==
    /\ script = "install" /\ pc = "config"
    /\ fwdConfig' \in Copied
    /\ IF fwdConfig' = "new" THEN Goto("cron") ELSE Ends("died")
    /\ UNCHANGED <<forwarder, cron>> /\ FwdFrame

\* The crontab is replaced in one step, unless it names the forwarder already.
Schedule ==
    /\ script = "install" /\ pc = "cron"
    /\ \/ cron' = TRUE /\ Ends("installed")
       \/ ~cron /\ UNCHANGED cron /\ Ends("died")
    /\ UNCHANGED <<forwarder, fwdConfig>> /\ FwdFrame

-----------------------------------------------------------------------------
(* apply.sh                                                                *)

\* The download fails or is corrupt; the operator does not want to overwrite a
\* page that is neither stock nor Epicenter, or cannot be asked.
StartOverlay == Run("overlay", "fetch")

LeaveDesign ==
    /\ script = "overlay" /\ pc = "fetch"
    /\ Ends("died")
    /\ UNCHANGED <<fixed, full, binVars, pageVars, fwdVars, wasUp>>

\* The pages are copied over the live ones and verified, all three.
Overlay ==
    /\ script = "overlay" /\ pc = "fetch"
    /\ splash' \in Copied /\ pages' \in Copied
    /\ Ends(IF splash' = "new" /\ pages' = "new" THEN "overlaid" ELSE "died")
    /\ UNCHANGED <<fixed, full, binVars, fwdVars, wasUp>>

-----------------------------------------------------------------------------
InstallerInit ==
    /\ newWorks \in BOOLEAN /\ newCompiles \in BOOLEAN
    /\ full = FALSE
    /\ script = "none" /\ pc = "none"
    /\ bin = "old" /\ portal = "up"
    /\ mybak = "none" /\ baks = {}
    /\ splash = "old" /\ pages = "old"
    /\ forwarder \in {"none", "old"}
    /\ myfwd = "none"
    /\ fwdConfig = "none"
    /\ cron \in {FALSE, forwarder = "old"}
    /\ wasUp = TRUE

InstallerNext ==
    \/ StartInstall \/ GiveUp \/ Backup
    \/ StopPortal \/ OpenBin \/ CopyBin \/ StartPortal \/ Gate \/ Restore \/ Restart \/ Die
    \/ CopyPages \/ OpenForwarder \/ Compile \/ WriteConfig \/ Schedule
    \/ StartOverlay \/ LeaveDesign \/ Overlay

=============================================================================
