----------------------------- MODULE AccessPointFix ----------------------------
(***************************************************************************)
(* fix_ap_24ghz.sh, which moves the access point to 2.4 GHz: a live         *)
(* NetworkManager profile is changed behind a gate on the channel, then     *)
(* AP.sh, from which start_router.py (not in this repository) makes the     *)
(* profile anew at every boot.  A device may hold a stale duplicate of that *)
(* profile.  Band and channel are one value, "a" or "bg".                   *)
(***************************************************************************)
EXTENDS Installer

VARIABLES
    bgWorks,   \* the adapter comes up on 2.4 GHz
    domain,    \* the regulatory domain: "00" or "US"
    profile,   \* the bands of the profile made from AP.sh and of its duplicate
    on,        \* the profile that is active
    live,      \* the band the access point is on, or "down"
    ref,       \* CON_REF, the profile this run works on
    apsh,      \* AP.sh: its band, whether it sets the domain, whether it is whole
    apbak,     \* the backup of AP.sh this run has made
    apbaks     \* all backups that were made

radioVars == <<domain, profile, on, live>>
scriptFileVars == <<apsh, apbak, apbaks>>
apVars == <<bgWorks, radioVars, ref, scriptFileVars>>

Profiles == {"own", "dup"}
Plays(band) == band = "a" \/ (band = "bg" /\ bgWorks)

Stock == [band |-> "a", domain |-> FALSE, whole |-> TRUE]

\* What is left of an AP.sh whose copy is cut, and how a copy onto it ends
CutOf(f) == [band : {"none", f.band}, domain : {FALSE, f.domain}, whole : {FALSE}]
ApCopy(f) == {f} \cup (IF full THEN CutOf(f) ELSE {})

InstallFrame == UNCHANGED <<fixed, bin, mybak, baks, pageVars, fwdVars>>
ApFrame == UNCHANGED <<bgWorks, ref, full, portal, wasUp>> /\ InstallFrame

-----------------------------------------------------------------------------
\* CON_REF is the profile active on the interface, or else one of the name; without
\* one the script dies before it has done anything.
StartFix ==
    /\ Run("fix", "look")
    /\ ref' \in IF on # "none" THEN {on} ELSE {p \in Profiles : profile[p] # "none"}
    /\ UNCHANGED <<bgWorks, radioVars, scriptFileVars>>

\* A profile on 2.4 GHz: only the domain is looked at.
AlreadyThere ==
    /\ script = "fix" /\ pc = "look" /\ profile[ref] = "bg"
    /\ domain' \in {domain, "US"}
    /\ Ends("verified")
    /\ UNCHANGED <<profile, on, live, scriptFileVars>> /\ ApFrame

\* AP.sh cannot be parsed, guests are connected, the channel is none of 1, 6 and 11,
\* or there is no backup.
Refuse ==
    /\ script = "fix" /\ pc = "look"
    /\ profile[ref] # "bg" \/ ~apsh.whole
    /\ Ends("died")
    /\ UNCHANGED <<radioVars, scriptFileVars>> /\ ApFrame

BackupAp ==
    /\ script = "fix" /\ pc = "look" /\ profile[ref] # "bg"
    /\ apbak' = apsh /\ apbaks' = apbaks \cup {apsh}
    /\ Goto("domain")
    /\ UNCHANGED <<radioVars, apsh>> /\ ApFrame

\* iw reg set
SetDomain ==
    /\ script = "fix" /\ pc = "domain"
    /\ \/ domain' = "US" /\ Goto("modify")
       \/ UNCHANGED domain /\ Ends("died")
    /\ UNCHANGED <<profile, on, live, scriptFileVars>> /\ ApFrame

\* nmcli con modify of band and channel together
Modify ==
    /\ script = "fix" /\ pc = "modify"
    /\ \/ profile' = [profile EXCEPT ![ref] = "bg"] /\ Goto("activate")
       \/ UNCHANGED profile /\ Ends("died")
    /\ UNCHANGED <<domain, on, live, scriptFileVars>> /\ ApFrame

\* nmcli con down and up, for the fix and for its rollback.  Where it fails
\* NetworkManager may bring up the duplicate.
Activate ==
    /\ script = "fix" /\ pc \in {"activate", "reactivate"}
    /\ \/ \E p \in Profiles : Plays(profile[p]) /\ on' = p /\ live' = profile[p]
       \/ on' = "none" /\ live' = "down"
    /\ Goto(IF pc = "activate" THEN "gate" ELSE "reset")
    /\ UNCHANGED <<domain, profile, scriptFileVars>> /\ ApFrame

\* Mutants of GateAp: nobody looks; any access point that is up will do.
GateApBlind ==
    /\ script = "fix" /\ pc = "gate"
    /\ Goto("restart")
    /\ UNCHANGED <<radioVars, scriptFileVars>> /\ ApFrame

GateApWeak ==
    /\ script = "fix" /\ pc = "gate"
    /\ Goto(IF live # "down" THEN "restart" ELSE "back")
    /\ UNCHANGED <<radioVars, scriptFileVars>> /\ ApFrame

\* The access point is up on the channel that was asked for, within five seconds.
GateAp ==
    /\ script = "fix" /\ pc = "gate"
    /\ \/ live = "bg" /\ Goto("restart")
       \/ (live # "bg" \/ SlowDevice) /\ Goto("back")
    /\ UNCHANGED <<radioVars, scriptFileVars>> /\ ApFrame

\* The rollback: profile, access point, AP.sh and portal, none of them checked.
RollBack ==
    /\ script = "fix" /\ pc = "back"
    /\ profile' \in {profile, [profile EXCEPT ![ref] = "a"]}
    /\ Goto("reactivate")
    /\ UNCHANGED <<domain, on, live, scriptFileVars>> /\ ApFrame

RestoreAp ==
    /\ script = "fix" /\ pc = "reset"
    /\ apsh' \in ApCopy(apbak)
    /\ Goto("reportal")
    /\ UNCHANGED <<radioVars, apbak, apbaks>> /\ ApFrame

RestartPortal ==
    /\ script = "fix" /\ pc \in {"restart", "reportal"}
    /\ portal' = Started
    /\ CASE pc = "reportal" -> Ends("rolledback")
         [] pc = "restart" /\ apsh.domain -> Goto("edit")
         [] pc = "restart" /\ ~apsh.domain -> Goto("insert")
    /\ UNCHANGED <<bgWorks, ref, full, radioVars, scriptFileVars, wasUp>> /\ InstallFrame

\* AP.sh with the line for the domain is built in a temporary file.
InsertLine ==
    /\ script = "fix" /\ pc = "insert"
    /\ Goto("fill") \/ Ends("died")
    /\ UNCHANGED <<radioVars, scriptFileVars>> /\ ApFrame

\* cat writes it through AP.sh, and the script goes on however that ends.
WithDomain(f) == [f EXCEPT !.domain = TRUE]
FillAp ==
    /\ script = "fix" /\ pc = "fill"
    /\ apsh' \in ApCopy(WithDomain(apbak))
    /\ Goto("edit")
    /\ UNCHANGED <<radioVars, apbak, apbaks>> /\ ApFrame

\* sed -i replaces AP.sh in one step, or not at all.  The checks after it look at the
\* syntax, the band, the channel and the domain.
Edited == IF apsh.band = "none" THEN apsh ELSE [apsh EXCEPT !.band = "bg"]
Edit ==
    /\ script = "fix" /\ pc = "edit"
    /\ \/ apsh.domain /\ apsh.band # "none" /\ apsh' = Edited /\ Ends("persisted")
       \/ apsh' \in {apsh, Edited} /\ Goto("undo")
    /\ UNCHANGED <<radioVars, apbak, apbaks>> /\ ApFrame

UndoEdit ==
    /\ script = "fix" /\ pc = "undo"
    /\ apsh' \in ApCopy(apbak)
    /\ Ends("undone")
    /\ UNCHANGED <<radioVars, apbak, apbaks>> /\ ApFrame

-----------------------------------------------------------------------------
FixInit ==
    /\ bgWorks \in BOOLEAN
    /\ domain = "00" /\ live = "a"
    /\ profile \in [Profiles -> {"a", "none"}] /\ profile["own"] = "a"
    /\ on = "own" /\ ref = "own"
    /\ apsh = Stock /\ apbak = Stock /\ apbaks = {}

FixNext ==
    \/ StartFix \/ AlreadyThere \/ Refuse \/ BackupAp \/ SetDomain \/ Modify
    \/ Activate \/ GateAp \/ RollBack \/ RestoreAp \/ RestartPortal
    \/ InsertLine \/ FillAp \/ Edit \/ UndoEdit

=============================================================================
