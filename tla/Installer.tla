----------------------------- MODULE Installer -----------------------------
(***************************************************************************)
(* install_bundle: the managed files of a profile are backed up, replaced  *)
(* one by one, the install manifest after them, and the provider activated *)
(* last.  An exception puts the backups back; a process that dies puts     *)
(* nothing back.  One installer runs at a time.                            *)
(*                                                                         *)
(* A bundle is a build: a version, the content of its managed files, and   *)
(* what only its manifest tells from another build of the same version     *)
(* (git_commit, archive, archive_sha256), which is the build itself.       *)
(* Absent and Edited are contents of no build.  Checks of the archive and  *)
(* its manifest happen before any write and are one possible failure of    *)
(* the staging.                                                            *)
(***************************************************************************)
EXTENDS Integers, Sequences

CONSTANTS
  Builds,
  Version,   \* of a build, compared as _semver compares it
  Files,     \* of a build: what its managed files hold
  MaxCalls,  \* bound: runs of the installer
  MaxFaults  \* bound: failing steps, dying installers and edited files

VARIABLES
  home,      \* content of the managed files and of the install manifest
  saved,     \* backup of the transaction under way
  provider,  \* whether memory.provider is vault-standalone
  pc,
  step,      \* position in Targets
  call,      \* release, activate and allow_downgrade of the call
  outcome,   \* of the last call
  before,    \* history: home when the call began
  calls, faults

vars == <<home, saved, provider, pc, step, call, outcome, before, calls, faults>>

Absent == 0
Edited == -1

\* MANAGED_PATHS and the manifest, in the order in which they are replaced.
Managed == <<"binary", "plugin", "plugin_yaml">>
Targets == Managed \o <<"manifest">>
Paths == {Targets[i] : i \in DOMAIN Targets}
ManagedPaths == Paths \ {"manifest"}
Contents == Nat \union {Edited}

ASSUME BuildsAssumption ==
  /\ Builds \subseteq Nat \ {0}
  /\ Version \in [Builds -> Nat]
  /\ Files \in [Builds -> [ManagedPaths -> Nat \ {0}]]
ASSUME BoundsAssumption == MaxCalls \in Nat /\ MaxFaults \in Nat

\* What build b puts at path p: its file, or the manifest that names it.
Content(b, p) == IF p = "manifest" THEN b ELSE Files[b][p]

NoCall == [build |-> 0, activate |-> FALSE, downgrade |-> FALSE]

Init ==
  /\ home = [p \in Paths |-> Absent]
  /\ saved = [p \in Paths |-> Absent]
  /\ provider = FALSE
  /\ pc = "idle" /\ step = 1 /\ call = NoCall /\ outcome = "none"
  /\ before = home
  /\ calls = 0 /\ faults = 0

Finish(result) ==
  /\ pc' = "idle" /\ outcome' = result /\ step' = 1

Fault == faults < MaxFaults /\ faults' = faults + 1

-----------------------------------------------------------------------------
(* Before the transaction *)

\* Variant: the manifest is believed.
Believed(files, b) == files["manifest"] # Absent /\ Version[files["manifest"]] = Version[b]
\* The manifest names the version and the managed files are those of the build.
Matches(files, b) ==
  /\ files["manifest"] # Absent /\ Version[files["manifest"]] = Version[b]
  /\ \A p \in ManagedPaths : files[p] = Files[b][p]

Downgrade(b, allow) ==
  home["manifest"] # Absent /\ Version[b] < Version[home["manifest"]] /\ ~allow

\* A dry run ends here and writes nothing.
Call(b, activate, allow) ==
  /\ pc = "idle" /\ calls < MaxCalls
  /\ calls' = calls + 1
  /\ call' = [build |-> b, activate |-> activate, downgrade |-> allow]
  /\ before' = home
  /\ IF Matches(home, b) THEN pc' = "confirming" /\ UNCHANGED <<step, outcome>>
     ELSE IF Downgrade(b, allow) THEN Finish("refused")
     ELSE pc' = "staging" /\ UNCHANGED <<step, outcome>>
  /\ UNCHANGED <<home, saved, provider, faults>>

\* An installation that is current is activated, and its manifest becomes that of this build.
Confirm ==
  /\ pc = "confirming"
  /\ provider' = (provider \/ call.activate)
  /\ pc' = "recording"
  /\ UNCHANGED <<home, saved, step, call, outcome, before, calls, faults>>

Recorded == [home EXCEPT !["manifest"] = call.build]

Record ==
  /\ pc = "recording"
  /\ home' = Recorded
  /\ Finish("unchanged")
  /\ UNCHANGED <<saved, provider, call, before, calls, faults>>

\* Either step raises before or after it took effect; no rollback surrounds them.
ConfirmFails ==
  /\ pc = "confirming" /\ call.activate /\ Fault
  /\ provider' \in {provider, TRUE}
  /\ Finish("failed")
  /\ UNCHANGED <<home, saved, call, before, calls>>

RecordFails ==
  /\ pc = "recording" /\ Fault
  /\ home' \in {home, Recorded}
  /\ Finish("failed")
  /\ UNCHANGED <<saved, provider, call, before, calls>>

Stage ==
  /\ pc = "staging"
  /\ pc' = "backing" /\ step' = 1
  /\ saved' = [p \in Paths |-> Absent]
  /\ UNCHANGED <<home, provider, call, outcome, before, calls, faults>>

-----------------------------------------------------------------------------
(* The transaction *)

\* Every target that exists is copied.  Variant: the manifest is left out.
SavedFiles == IF step > Len(Managed) THEN saved ELSE [saved EXCEPT ![Targets[step]] = home[Targets[step]]]
Backup == [saved EXCEPT ![Targets[step]] = home[Targets[step]]]

Save ==
  /\ pc = "backing"
  /\ IF step <= Len(Targets)
     THEN saved' = Backup /\ step' = step + 1 /\ UNCHANGED pc
     ELSE pc' = "swapping" /\ step' = 1 /\ UNCHANGED saved
  /\ UNCHANGED <<home, provider, call, outcome, before, calls, faults>>

\* Nothing is replaced yet, so nothing is put back.
PrepareFails ==
  /\ pc \in {"staging", "backing"} /\ Fault
  /\ Finish("failed")
  /\ UNCHANGED <<home, saved, provider, call, before, calls>>

\* The staged file takes the place of the old one.  Variant: it is overwritten and torn.
Torn == [home EXCEPT ![Targets[step]] = Edited]
Replaced == [home EXCEPT ![Targets[step]] = Content(call.build, Targets[step])]

Swap ==
  /\ pc = "swapping" /\ step <= Len(Targets)
  /\ home' = Replaced
  /\ step' = step + 1
  /\ UNCHANGED <<saved, provider, pc, call, outcome, before, calls, faults>>

Activate ==
  /\ pc = "swapping" /\ step > Len(Targets)
  /\ provider' = (provider \/ call.activate)
  /\ Finish("installed")
  /\ UNCHANGED <<home, saved, call, before, calls, faults>>

\* The rollback starts at the last target, whichever failed.  Variant: at the target whose
\* replacement raised, as if it had not taken place.
FromFailed == step - 1
FromLast == Len(Targets)

RollBack ==
  /\ pc' = "rolling" /\ step' = FromLast
  /\ UNCHANGED <<saved, call, outcome, before, calls>>

\* os.replace may have taken place when the copy raises: fsync of the directory and the
\* comparison of the hashes come after it.
SwapFails ==
  /\ pc = "swapping" /\ step <= Len(Targets) /\ Fault
  /\ home' \in {home, Replaced}
  /\ RollBack
  /\ UNCHANGED provider

\* hermes config set fails or is late, before or after it took effect.
ActivateFails ==
  /\ pc = "swapping" /\ step > Len(Targets) /\ call.activate /\ Fault
  /\ provider' \in {provider, TRUE}
  /\ RollBack
  /\ UNCHANGED home

\* One target put back, or unlinked when it did not exist.
PutBack ==
  /\ pc = "rolling"
  /\ IF step > 0
     THEN /\ home' = [home EXCEPT ![Targets[step]] = saved[Targets[step]]]
          /\ step' = step - 1
          /\ UNCHANGED <<pc, outcome>>
     ELSE Finish("failed") /\ UNCHANGED home
  /\ UNCHANGED <<saved, provider, call, before, calls, faults>>

PutBackFails ==
  /\ pc = "rolling" /\ Fault
  /\ Finish("broken")
  /\ UNCHANGED <<home, saved, provider, call, before, calls>>

-----------------------------------------------------------------------------
(* Outside *)

\* The installer dies between two steps, or in one whose effect stays: hermes config set,
\* which lives on, or the replacement of a manifest.
Activating == call.activate /\ (pc = "confirming" \/ (pc = "swapping" /\ step > Len(Targets)))

Die ==
  /\ pc # "idle" /\ Fault
  /\ provider' \in {provider, provider \/ Activating}
  /\ home' \in {home} \union (IF pc = "recording" THEN {Recorded} ELSE {})
  /\ Finish("died")
  /\ UNCHANGED <<saved, call, before, calls>>

\* The user edits or removes a managed file, or the manifest goes with a lost profile.
Edit(p) ==
  /\ pc = "idle" /\ Fault
  /\ \E content \in {Absent, Edited} :
       /\ p = "manifest" => content = Absent
       /\ home' = [home EXCEPT ![p] = content]
  /\ before' = home' /\ outcome' = "none"
  /\ UNCHANGED <<saved, provider, pc, step, call, calls>>

Next ==
  \/ \E b \in Builds, activate, allow \in BOOLEAN : Call(b, activate, allow)
  \/ Confirm \/ ConfirmFails \/ Record \/ RecordFails \/ Stage \/ Save \/ PrepareFails
  \/ Swap \/ SwapFails \/ Activate \/ ActivateFails \/ PutBack \/ PutBackFails
  \/ Die
  \/ \E p \in Paths : Edit(p)

Spec == Init /\ [][Next]_vars

-----------------------------------------------------------------------------
(* Properties *)

Outcomes == {"none", "unchanged", "installed", "refused", "failed", "broken", "died"}

TypeOK ==
  /\ home \in [Paths -> Contents] /\ saved \in [Paths -> Contents]
  /\ before \in [Paths -> Contents]
  /\ {home["manifest"], saved["manifest"], before["manifest"]} \subseteq Builds \union {Absent}
  /\ provider \in BOOLEAN
  /\ pc \in {"idle", "confirming", "recording", "staging", "backing", "swapping", "rolling"}
  /\ step \in 0 .. Len(Targets) + 1
  /\ call = NoCall \/ call \in [build : Builds, activate : BOOLEAN, downgrade : BOOLEAN]
  /\ outcome \in Outcomes
  /\ calls \in Nat /\ faults \in Nat

\* The one change the code does not take back: an installation that was current, with the
\* same version and the same managed files, has the manifest of the build it was called with.
Confirmed ==
  /\ Matches(before, call.build)
  /\ home = [before EXCEPT !["manifest"] = call.build]

\* A call that raises leaves every file and the manifest as it found them, at whichever step
\* it failed and whether or not that step had taken effect; if the installation was current,
\* it may have become the confirmed one instead, but nothing between the two.
AllOrNothing ==
  /\ pc = "idle" /\ outcome = "refused" => home = before
  /\ pc = "idle" /\ outcome = "failed" => home = before \/ Confirmed

\* A call that succeeds, by installing or by finding nothing to do, leaves exactly its
\* build, whatever an earlier call that died had left behind.
SuccessMeansInstalled ==
  pc = "idle" /\ outcome \in {"installed", "unchanged"} =>
    \A p \in Paths : home[p] = Content(call.build, p)

\* No file that existed is lost: from the first replacement on, through dying and through a
\* rollback that fails, it is in its place or in the backup.
NothingLost ==
  pc \in {"swapping", "rolling"} \/ outcome \in {"broken", "died"} =>
    \/ Confirmed
    \/ \A p \in Paths : before[p] \in {Absent, home[p], saved[p]}

\* What a call has done so far, in the order of Targets: until the first replacement it has
\* changed nothing; what is backed up is what it found; while it replaces, the targets behind
\* it are the build's and those before it are untouched; while it rolls back, the targets
\* behind it are what they were.
Progress ==
  /\ pc # "idle" => call # NoCall
  /\ pc \in {"confirming", "recording"} => Matches(home, call.build)
  /\ pc \in {"confirming", "recording", "staging", "backing"} => home = before
  /\ pc = "backing" =>
       step > 0 /\ \A i \in 1 .. step - 1 : saved[Targets[i]] = before[Targets[i]]
  /\ pc = "swapping" =>
       /\ step > 0 /\ saved = before
       /\ \A i \in DOMAIN Targets :
            home[Targets[i]] = IF i < step THEN Content(call.build, Targets[i])
                                           ELSE before[Targets[i]]
  /\ pc = "rolling" =>
       /\ step <= Len(Targets) /\ saved = before
       /\ \A i \in DOMAIN Targets : i > step => home[Targets[i]] = before[Targets[i]]

\* The inductive invariant.
IInv == TypeOK /\ Progress /\ AllOrNothing /\ SuccessMeansInstalled /\ NothingLost

\* The provider the profile is configured with is installed, unless the installer could not
\* finish its rollback or its user removed it.
ProviderInstalled ==
  provider /\ pc = "idle" /\ outcome = "failed" => home["plugin"] # Absent
=============================================================================
