-------------------------------- MODULE Rollout --------------------------------
(***************************************************************************)
(* A device and its operator, who runs install.sh, apply.sh and             *)
(* fix_ap_24ghz.sh one at a time, again and again.  A script may be killed  *)
(* at any command (a lost connection, ctrl-C) and the device may reboot.    *)
(***************************************************************************)
EXTENDS AccessPointFix

CONSTANTS
    MaxCuts,   \* bound: scripts are killed and the device reboots this often
    MaxRuns    \* bound: so many scripts are started

ASSUME RolloutAssumption == MaxCuts \in Nat /\ MaxRuns \in Nat

VARIABLES
    cuts,        \* so often it has happened
    runs,        \* so many were started
    uncovered,   \* history: a forwarder may have been left broken, see DeliveryKept
    torn         \* history: AP.sh may have been left cut, see BootComesUp

vars == <<installerVars, apVars, cuts, runs, uncovered, torn>>

-----------------------------------------------------------------------------
\* Where the live forwarder, or AP.sh, is being written.
Compiling == script = "install" /\ pc = "compile"
Rewriting == script = "fix" /\ pc \in {"fill", "reset", "undo"}

\* What a copy that was under way leaves; splash.html is copied before the other pages.
InPages == (script = "install" /\ pc = "splash") \/ (script = "overlay" /\ pc = "fetch")
PagesLeft == {<<splash, pages>>} \cup
    IF InPages THEN {<<"part", pages>>, <<"new", pages>>, <<"new", "part">>} ELSE {}

\* A script stops where it is.
Interrupted ==
    /\ cuts < MaxCuts
    /\ cuts' = cuts + 1
    /\ Ends("cut")
    /\ \E left \in PagesLeft : splash' = left[1] /\ pages' = left[2]
    /\ fwdConfig' \in {fwdConfig} \cup (IF script = "install" /\ pc = "config" THEN {"part", "new"} ELSE {})
    /\ baks' \in {baks} \cup
           (IF script = "install" /\ pc = "backup" THEN {baks \cup {"part"}} ELSE {})
    /\ apsh' \in {apsh} \cup
           (IF Rewriting THEN CutOf(IF pc = "fill" THEN WithDomain(apbak) ELSE apbak) ELSE {})
    /\ uncovered' = (uncovered \/ Compiling)
    /\ torn' = (torn \/ Rewriting)
    /\ UNCHANGED <<fixed, full, bin, mybak, forwarder, myfwd, cron, wasUp>>
    /\ UNCHANGED <<bgWorks, ref, apbak, apbaks, runs>>

Kill == ~Idle /\ Interrupted /\ UNCHANGED <<portal, radioVars>>

\* The device boots: systemd starts nodogsplash, the profile is made anew from AP.sh,
\* if enough of it is left, and it or its duplicate comes up.
Boot ==
    /\ Interrupted
    /\ portal' = Started
    /\ domain' = IF apsh'.domain THEN "US" ELSE "00"
    /\ \E band \in {apsh'.band} \cup (IF apsh'.whole THEN {} ELSE {"none"}) :
          profile' = [profile EXCEPT !["own"] = band]
    /\ \/ \E p \in Profiles : Plays(profile'[p]) /\ on' = p /\ live' = profile'[p]
       \/ /\ ~\E p \in Profiles : Plays(profile'[p])
          /\ on' = "none" /\ live' = "down"

Init == InstallerInit /\ FixInit /\ cuts = 0 /\ runs = 0 /\ uncovered = FALSE /\ torn = FALSE

\* A command of the script that runs, or the first of the next one.
Step ==
    /\ Idle => runs < MaxRuns
    /\ runs' = IF Idle THEN runs + 1 ELSE runs
    /\ UNCHANGED cuts

\* A copy that compiles ends what DeliveryKept excuses.
Install ==
    /\ InstallerNext /\ Step
    /\ uncovered' = ((uncovered \/ (full /\ Compiling)) /\ ~(Compiling /\ pc' = "config"))
    /\ UNCHANGED <<apVars, torn>>

Fix ==
    /\ FixNext /\ Step
    /\ torn' = (torn \/ (full /\ Rewriting))
    /\ UNCHANGED uncovered

Next == Install \/ Fix \/ Kill \/ Boot

Spec == Init /\ [][Next]_vars

-----------------------------------------------------------------------------
\* The files, services and settings of the device have their types.
ApScripts == [band : {"a", "bg", "none"}, domain : BOOLEAN, whole : BOOLEAN]
TypeOK ==
    /\ newWorks \in BOOLEAN /\ newCompiles \in BOOLEAN /\ bgWorks \in BOOLEAN
    /\ full \in {FALSE, DiskMayFill}
    /\ pc # "none" <=> script \in {"install", "overlay", "fix"}
    /\ bin \in Content /\ baks \subseteq Content /\ mybak \in Content \cup {"none"}
    /\ portal \in {"up", "stopped", "failed"} /\ wasUp \in BOOLEAN
    /\ splash \in Content /\ pages \in Content
    /\ {forwarder, myfwd} \subseteq Content \cup {"none", "short"}
    /\ fwdConfig \in {"none", "new", "part"} /\ cron \in BOOLEAN
    /\ domain \in {"00", "US"} /\ profile \in [Profiles -> {"a", "bg", "none"}]
    /\ on \in Profiles \cup {"none"} /\ ref \in Profiles /\ live \in {"a", "bg", "down"}
    /\ {apsh, apbak} \cup apbaks \subseteq ApScripts
    /\ cuts \in 0 .. MaxCuts /\ runs \in 0 .. MaxRuns
    /\ uncovered \in BOOLEAN /\ torn \in BOOLEAN

\* "It must never leave the portal broken" (install.sh:13): a script that ends by
\* itself, failures of the build, the disk, the binary and the access point
\* included, leaves a portal up that it has found up.
EndsWithPortal == Idle /\ script # "cut" /\ wasUp => portal = "up"

\* "Idempotent" (install.sh:13): a run that reports success has in place what its checks
\* look at, whatever the runs before it were cut short in; and unless the disk was full,
\* also the pages and the forwarder, whose copies (install.sh:150-151, 161) nobody checks.
InstallCompletes ==
    script = "installed" =>
        /\ portal = "up" /\ bin = "new" /\ splash = "new" /\ cron
        /\ fwdConfig = "new" /\ Compiles(forwarder)
        /\ ~full => pages = "new" /\ forwarder = "new" /\ newCompiles

\* Runs that are cut short and repeated never use up the binary and the AP.sh the device
\* came with: each is in place or in a backup.
OriginalKept ==
    /\ bin = "old" \/ "old" \in baks
    /\ apsh = Stock \/ Stock \in apbaks

\* Cron finds a forwarder that does not compile only while the new one is copied and
\* compiled (install.sh:161-164), and afterwards if the script was killed or the device
\* rebooted there, or if the new one did not compile and a full disk had cut its
\* predecessor's backup or cuts the copy back; until a later run compiles one.
DeliveryKept == cron => Compiles(forwarder) \/ Compiling \/ uncovered

\* Whatever a fix did and wherever it stopped, the next boot brings an access point up:
\* AP.sh never names a band the adapter has not come up on.  The exception is an AP.sh
\* that was being written (fix_ap_24ghz.sh:146, 176, 181-186) when the script was
\* killed, the device rebooted or the disk was full.
BootComesUp == [][Boot => live' # "down" \/ torn']_vars

\* "Persist across reboot" (fix_ap_24ghz.sh:160): when the fix reports success the
\* access point is on 2.4 GHz, and a boot right after it changes nothing about it,
\* unless a stale duplicate is left that "can win at boot" (fix_ap_24ghz.sh:53) or
\* AP.sh was cut.
BootKeepsFix ==
    [][script = "persisted" /\ Boot =>
           /\ live = "bg"
           /\ profile["dup"] = "a" \/ torn \/ UNCHANGED <<domain, live>>]_vars

=============================================================================
