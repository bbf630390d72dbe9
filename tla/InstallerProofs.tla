-------------------------- MODULE InstallerProofs --------------------------
(***************************************************************************)
(* Proofs about Installer, for any builds, any number of calls and any     *)
(* number of faults.                                                       *)
(***************************************************************************)
EXTENDS Installer, SequenceTheorems, TLAPS

\* There are four targets, all different, the manifest last.
LEMMA TargetsListed ==
  /\ Len(Targets) = 4 /\ DOMAIN Targets = 1..4
  /\ Targets[1] = "binary" /\ Targets[2] = "plugin" /\ Targets[3] = "plugin_yaml"
  /\ Targets[4] = "manifest"
  /\ Paths = {"binary", "plugin", "plugin_yaml", "manifest"}
<1> DEFINE Names == {"binary", "plugin", "plugin_yaml", "manifest"}
<1>1. /\ Managed \in Seq(Names) /\ Len(Managed) = 3
      /\ Managed[1] = "binary" /\ Managed[2] = "plugin" /\ Managed[3] = "plugin_yaml"
  BY DEF Managed
<1>2. <<"manifest">> \in Seq(Names) /\ Len(<<"manifest">>) = 1 /\ <<"manifest">>[1] = "manifest"
  OBVIOUS
<1> HIDE DEF Names
<1> DEFINE last == <<"manifest">>
<1> HIDE DEF last
<1>3. /\ Targets \in Seq(Names) /\ Len(Targets) = 4
      /\ \A i \in 1..4 : Targets[i] = IF i <= 3 THEN Managed[i] ELSE last[i - 3]
  <2>1. last \in Seq(Names) /\ Len(last) = 1
    BY <1>2 DEF last
  <2>2. Targets = Managed \o last
    BY DEF Targets, last
  <2>3. /\ Targets \in Seq(Names) /\ Len(Targets) = Len(Managed) + Len(last)
        /\ \A i \in 1 .. Len(Managed) + Len(last) :
             Targets[i] = IF i <= Len(Managed) THEN Managed[i] ELSE last[i - Len(Managed)]
    BY <1>1, <2>1, <2>2, ConcatProperties
  <2> QED
    BY <1>1, <2>1, <2>3
<1>4. DOMAIN Targets = 1..4
  BY <1>3
<1>5. /\ Targets[1] = "binary" /\ Targets[2] = "plugin" /\ Targets[3] = "plugin_yaml"
      /\ Targets[4] = "manifest"
  BY <1>1, <1>2, <1>3 DEF last
<1>6. \A i \in 1..4 : i = 1 \/ i = 2 \/ i = 3 \/ i = 4
  OBVIOUS
<1>7. Paths = {"binary", "plugin", "plugin_yaml", "manifest"}
  BY <1>4, <1>5, <1>6 DEF Paths
<1> QED
  BY <1>3, <1>4, <1>5, <1>7

LEMMA TargetFacts ==
  /\ Len(Targets) = 4 /\ DOMAIN Targets = 1..4
  /\ \A i \in 1..4 : Targets[i] \in Paths
  /\ \A p \in Paths : \E i \in 1..4 : Targets[i] = p
  /\ \A i, j \in 1..4 : Targets[i] = Targets[j] => i = j
  /\ \A i \in 1..4 : Targets[i] = "manifest" <=> i = 4
<1>1. \A i \in 1..4 : i = 1 \/ i = 2 \/ i = 3 \/ i = 4
  OBVIOUS
<1> QED
  BY <1>1, TargetsListed

\* A build has content for every target, and its manifest is its own.
LEMMA ContentFacts ==
  ASSUME NEW b \in Builds
  PROVE  /\ \A p \in Paths : Content(b, p) \in Contents
         /\ Content(b, "manifest") = b
         /\ b \in Contents /\ b # Absent /\ b # Edited
BY BuildsAssumption DEF Content, Contents, ManagedPaths, Absent, Edited

-----------------------------------------------------------------------------
(* Steps *)

\* A call finds its build in place, refuses, or starts from what it finds.
LEMMA CallStep ==
  ASSUME IInv, NEW b \in Builds, NEW activate \in BOOLEAN, NEW allow \in BOOLEAN,
         Call(b, activate, allow)
  PROVE  IInv'
<1>1. /\ pc = "idle" /\ before' = home /\ home' = home /\ saved' = saved /\ provider' = provider
      /\ call' = [build |-> b, activate |-> activate, downgrade |-> allow]
      /\ calls' = calls + 1 /\ faults' = faults
  BY DEF Call
<1>2. call'.build = b /\ b \in Nat \ {0} /\ call' # NoCall
  BY <1>1, BuildsAssumption DEF NoCall
<1>3. TypeOK'
  BY <1>1, TargetFacts DEF IInv, TypeOK, Call, Finish, Outcomes
<1>4. CASE Matches(home, b)
  <2>1. pc' = "confirming" /\ step' = step /\ outcome' = outcome
    BY <1>4 DEF Call
  <2>2. Matches(home, call.build)'
    BY <1>1, <1>2, <1>4 DEF Matches
  <2> QED
    BY <1>1, <1>2, <1>3, <2>1, <2>2
    DEF IInv, Progress, AllOrNothing, SuccessMeansInstalled, NothingLost
<1>5. CASE ~Matches(home, b) /\ Downgrade(b, allow)
  <2>1. pc' = "idle" /\ outcome' = "refused"
    BY <1>5 DEF Call, Finish
  <2> QED
    BY <1>1, <1>2, <1>3, <2>1
    DEF IInv, Progress, AllOrNothing, SuccessMeansInstalled, NothingLost
<1>6. CASE ~Matches(home, b) /\ ~Downgrade(b, allow)
  <2>1. pc' = "staging" /\ step' = step /\ outcome' = outcome
    BY <1>6 DEF Call
  <2> QED
    BY <1>1, <1>2, <1>3, <2>1
    DEF IInv, Progress, AllOrNothing, SuccessMeansInstalled, NothingLost
<1> QED
  BY <1>4, <1>5, <1>6

\* An installation that is current stays what it was until its manifest is replaced.
LEMMA ConfirmStep ==
  ASSUME IInv, Confirm \/ ConfirmFails
  PROVE  IInv'
<1>1. /\ pc = "confirming" /\ home = before /\ call # NoCall /\ Matches(home, call.build)
      /\ UNCHANGED <<home, saved, call, before, calls>>
  BY DEF Confirm, ConfirmFails, IInv, Progress
<1>2. provider' \in BOOLEAN
  <2>1. call.activate \in BOOLEAN
    BY <1>1 DEF IInv, TypeOK
  <2> QED
    BY <2>1, Zenon DEF Confirm, ConfirmFails, IInv, TypeOK
<1>3. CASE Confirm
  <2>1. pc' = "recording" /\ UNCHANGED <<step, outcome, faults>>
    BY <1>3 DEF Confirm
  <2>2. TypeOK'
    BY <1>1, <1>2, <2>1 DEF IInv, TypeOK
  <2>3. Matches(home, call.build)'
    BY <1>1 DEF Matches
  <2> QED
    BY <1>1, <2>1, <2>2, <2>3
    DEF IInv, Progress, AllOrNothing, SuccessMeansInstalled, NothingLost, Confirmed, Matches
<1>4. CASE ConfirmFails
  <2>1. pc' = "idle" /\ outcome' = "failed" /\ step' = 1 /\ faults' = faults + 1
    BY <1>4 DEF ConfirmFails, Finish, Fault
  <2>2. TypeOK'
    BY <1>1, <1>2, <2>1, TargetFacts DEF IInv, TypeOK, Outcomes
  <2> QED
    BY <1>1, <2>1, <2>2
    DEF IInv, Progress, AllOrNothing, SuccessMeansInstalled, NothingLost
<1> QED
  BY <1>3, <1>4

\* Writing the manifest of a current installation, whether it raises afterwards or not,
\* makes it exactly the build of the call.
LEMMA RecordStep ==
  ASSUME IInv, Record \/ RecordFails
  PROVE  IInv'
<1>1. /\ pc = "recording" /\ home = before /\ call # NoCall /\ Matches(home, call.build)
      /\ call.build \in Builds
      /\ UNCHANGED <<saved, provider, call, before, calls>>
  BY DEF Record, RecordFails, IInv, TypeOK, Progress
<1>2. pc' = "idle" /\ step' = 1 /\ outcome' \in {"unchanged", "failed"} /\ faults' \in Nat
  BY DEF Record, RecordFails, Finish, Fault, IInv, TypeOK
<1>3. home' \in {home, Recorded}
  BY DEF Record, RecordFails
<1>4. /\ Recorded \in [Paths -> Contents] /\ Recorded["manifest"] = call.build
  BY <1>1, ContentFacts, TargetsListed DEF Recorded, IInv, TypeOK
<1>5. TypeOK'
  <2>1. home' \in [Paths -> Contents] /\ home'["manifest"] \in Builds \union {Absent}
    BY <1>1, <1>3, <1>4 DEF IInv, TypeOK
  <2> QED
    BY <1>1, <1>2, <2>1, TargetFacts DEF IInv, TypeOK, Outcomes
<1>6. ASSUME home' = Recorded PROVE Confirmed'
  BY <1>1, <1>6 DEF Confirmed, Recorded, Matches
<1>7. ASSUME outcome' = "unchanged" PROVE \A p \in Paths : home'[p] = Content(call.build, p)'
  <2>1. home' = Recorded
    BY <1>7 DEF Record, RecordFails, Finish
  <2>2. \A p \in ManagedPaths : home'[p] = Files[call.build][p]
    BY <1>1, <2>1 DEF Recorded, Matches, ManagedPaths, IInv, TypeOK
  <2> QED
    BY <1>1, <1>4, <2>1, <2>2 DEF Content, ManagedPaths
<1> QED
  BY <1>1, <1>2, <1>3, <1>5, <1>6, <1>7
  DEF IInv, Progress, AllOrNothing, SuccessMeansInstalled, NothingLost

\* Steps that end a call or begin its transaction while every file is what it was.
LEMMA PrepareStep ==
  ASSUME IInv, Stage \/ PrepareFails
  PROVE  IInv'
<1>1. /\ pc \in {"staging", "backing"} /\ home = before /\ call # NoCall
      /\ UNCHANGED <<home, provider, call, before, calls>>
  BY DEF Stage, PrepareFails, IInv, Progress
<1>2. CASE PrepareFails
  <2>1. pc' = "idle" /\ outcome' = "failed" /\ step' = 1 /\ faults' = faults + 1 /\ saved' = saved
    BY <1>2 DEF PrepareFails, Finish, Fault
  <2>2. TypeOK'
    BY <1>1, <2>1, TargetFacts DEF IInv, TypeOK, Outcomes
  <2> QED
    BY <1>1, <2>1, <2>2
    DEF IInv, Progress, AllOrNothing, SuccessMeansInstalled, NothingLost
<1>3. CASE Stage
  <2>1. /\ pc' = "backing" /\ step' = 1 /\ outcome' = outcome /\ faults' = faults
        /\ saved' = [p \in Paths |-> Absent]
    BY <1>3 DEF Stage
  <2>2. saved' \in [Paths -> Contents] /\ saved'["manifest"] = Absent
    BY <2>1, TargetsListed DEF Contents, Absent
  <2>3. TypeOK'
    BY <1>1, <2>1, <2>2, TargetFacts DEF IInv, TypeOK
  <2>4. Confirmed' <=> Confirmed
    BY <1>1 DEF Confirmed, Matches
  <2>5. NothingLost'
    BY <1>1, <2>1 DEF NothingLost
  <2> QED
    BY <1>1, <2>1, <2>3, <2>5
    DEF IInv, Progress, AllOrNothing, SuccessMeansInstalled
<1> QED
  BY <1>2, <1>3

\* The backup follows the order of Targets and ends with all of them.
LEMMA SaveStep ==
  ASSUME IInv, Save
  PROVE  IInv'
<1>1. /\ pc = "backing" /\ home = before /\ step \in 1..5 /\ call # NoCall
      /\ \A i \in 1 .. step - 1 : saved[Targets[i]] = before[Targets[i]]
      /\ UNCHANGED <<home, provider, call, outcome, before, calls, faults>>
  BY TargetFacts DEF Save, IInv, TypeOK, Progress
<1>2. CASE step <= Len(Targets)
  <2>1. /\ pc' = pc /\ step' = step + 1 /\ step \in 1..4
        /\ saved' = [saved EXCEPT ![Targets[step]] = home[Targets[step]]]
    BY <1>1, <1>2, TargetFacts DEF Save, Backup
  <2>2. Targets[step] \in Paths /\ home[Targets[step]] \in Contents
    BY <2>1, TargetFacts DEF IInv, TypeOK
  <2>3. TypeOK'
    <3>1. /\ saved' \in [Paths -> Contents]
          /\ saved'["manifest"] \in {saved["manifest"], home["manifest"]}
      BY <2>1, <2>2, TargetsListed DEF IInv, TypeOK
    <3> QED
      BY <1>1, <2>1, <3>1, TargetFacts DEF IInv, TypeOK
  <2>4. ASSUME NEW i \in 1 .. step' - 1 PROVE saved'[Targets[i]] = before'[Targets[i]]
    <3>1. i \in 1..4 /\ Targets[i] \in Paths /\ i \in 1..step
      BY <2>1, TargetFacts
    <3>2. CASE i = step
      BY <1>1, <2>1, <3>1, <3>2 DEF IInv, TypeOK
    <3>3. CASE i # step
      BY <1>1, <2>1, <3>1, <3>3, TargetFacts DEF IInv, TypeOK
    <3> QED
      BY <3>2, <3>3
  <2> QED
    BY <1>1, <2>1, <2>3, <2>4
    DEF IInv, Progress, AllOrNothing, SuccessMeansInstalled, NothingLost
<1>3. CASE ~(step <= Len(Targets))
  <2>1. pc' = "swapping" /\ step' = 1 /\ saved' = saved /\ step = 5
    BY <1>1, <1>3, TargetFacts DEF Save
  <2>2. saved = before
    <3>1. \A p \in Paths : saved[p] = before[p]
      BY <1>1, <2>1, TargetFacts
    <3> QED
      BY <3>1 DEF IInv, TypeOK
  <2>3. TypeOK'
    BY <1>1, <2>1, TargetFacts DEF IInv, TypeOK
  <2> QED
    BY <1>1, <2>1, <2>2, <2>3, TargetFacts
    DEF IInv, Progress, AllOrNothing, SuccessMeansInstalled, NothingLost
<1> QED
  BY <1>2, <1>3

\* A replacement, whether it raises afterwards or not, touches the target at step alone.
LEMMA SwapStep ==
  ASSUME IInv, Swap \/ SwapFails
  PROVE  IInv'
<1>1. /\ pc = "swapping" /\ step \in 1..4 /\ saved = before /\ call # NoCall
      /\ call.build \in Builds
      /\ \A i \in 1..4 :
           home[Targets[i]] = IF i < step THEN Content(call.build, Targets[i])
                                          ELSE before[Targets[i]]
  BY TargetFacts DEF Swap, SwapFails, IInv, TypeOK, Progress
<1>2. UNCHANGED <<saved, call, outcome, before, calls, provider>>
  BY DEF Swap, SwapFails, RollBack
<1>3. /\ Targets[step] \in Paths
      /\ Replaced \in [Paths -> Contents] /\ Replaced["manifest"] \in Builds \union {Absent}
  <2>1. /\ Targets[step] \in Paths /\ Content(call.build, Targets[step]) \in Contents
        /\ Targets[step] = "manifest" => Content(call.build, Targets[step]) = call.build
    BY <1>1, TargetFacts, ContentFacts
  <2> QED
    BY <1>1, <2>1, TargetsListed DEF Replaced, IInv, TypeOK
<1>4. CASE Swap
  <2>1. pc' = pc /\ step' = step + 1 /\ home' = Replaced /\ faults' = faults
    BY <1>4 DEF Swap
  <2>2. TypeOK'
    BY <1>1, <1>2, <1>3, <2>1, TargetFacts DEF IInv, TypeOK
  <2>3. ASSUME NEW i \in 1..4
        PROVE  home'[Targets[i]] = IF i < step' THEN Content(call.build, Targets[i])
                                                ELSE before[Targets[i]]
    <3>1. Targets[i] \in Paths /\ (Targets[i] = Targets[step] <=> i = step)
      BY <1>1, TargetFacts
    <3>2. home'[Targets[i]] = IF i = step THEN Content(call.build, Targets[i])
                                          ELSE home[Targets[i]]
      BY <2>1, <3>1 DEF Replaced, IInv, TypeOK
    <3> QED
      BY <1>1, <2>1, <3>2
  <2> QED
    BY <1>1, <1>2, <2>1, <2>2, <2>3, TargetFacts
    DEF IInv, Progress, AllOrNothing, SuccessMeansInstalled, NothingLost, Content
<1>5. CASE SwapFails
  <2>1. /\ pc' = "rolling" /\ step' = 4 /\ home' \in {home, Replaced}
        /\ faults' = faults + 1
    BY <1>5, TargetFacts DEF SwapFails, RollBack, FromLast, Fault
  <2>2. TypeOK'
    BY <1>1, <1>2, <1>3, <2>1, TargetFacts DEF IInv, TypeOK
  <2> QED
    BY <1>1, <1>2, <2>1, <2>2, TargetFacts
    DEF IInv, Progress, AllOrNothing, SuccessMeansInstalled, NothingLost
<1> QED
  BY <1>4, <1>5

\* Activation comes when every target is the build's.
LEMMA ActivateStep ==
  ASSUME IInv, Activate \/ ActivateFails
  PROVE  IInv'
<1>1. /\ pc = "swapping" /\ step = 5 /\ saved = before /\ call # NoCall
      /\ \A i \in 1..4 : home[Targets[i]] = Content(call.build, Targets[i])
  <2>1. pc = "swapping" /\ step > Len(Targets)
    BY Zenon DEF Activate, ActivateFails
  <2>2. step > 4 /\ step \in 0..5
    BY <2>1, TargetFacts DEF IInv, TypeOK
  <2>3. \A i \in 1..4 : i < step
    BY <2>2
  <2> QED
    BY <2>1, <2>2, <2>3, TargetFacts DEF IInv, Progress
<1>2. UNCHANGED <<home, saved, call, before, calls>>
  BY DEF Activate, ActivateFails, RollBack
<1>3. CASE Activate
  <2>1. /\ pc' = "idle" /\ outcome' = "installed" /\ step' = 1
        /\ provider' = (provider \/ call.activate) /\ faults' = faults
    BY <1>3 DEF Activate, Finish
  <2>2. \A p \in Paths : home[p] = Content(call.build, p)
    BY <1>1, TargetFacts
  <2>3. TypeOK'
    BY <1>1, <1>2, <2>1, TargetFacts DEF IInv, TypeOK, Outcomes
  <2> QED
    BY <1>1, <1>2, <2>1, <2>2, <2>3
    DEF IInv, Progress, AllOrNothing, SuccessMeansInstalled, NothingLost, Content
<1>4. CASE ActivateFails
  <2>1. /\ pc' = "rolling" /\ step' = 4 /\ outcome' = outcome
        /\ provider' \in {provider, TRUE} /\ faults' = faults + 1
    BY <1>4, TargetFacts DEF ActivateFails, RollBack, FromLast, Fault
  <2>2. provider' \in BOOLEAN
    BY <2>1, Zenon DEF IInv, TypeOK
  <2>3. TypeOK'
    BY <1>1, <1>2, <2>1, <2>2, TargetFacts DEF IInv, TypeOK
  <2> QED
    BY <1>1, <1>2, <2>1, <2>3, TargetFacts
    DEF IInv, Progress, AllOrNothing, SuccessMeansInstalled, NothingLost
<1> QED
  BY <1>3, <1>4

\* The rollback goes down through all the targets; when it is through, every file is what
\* it was, also the one whose replacement raised before it took effect.
LEMMA PutBackStep ==
  ASSUME IInv, PutBack \/ PutBackFails
  PROVE  IInv'
<1>1. /\ pc = "rolling" /\ step \in 0..4 /\ saved = before /\ call # NoCall
      /\ \A i \in 1..4 : i > step => home[Targets[i]] = before[Targets[i]]
  BY TargetFacts DEF PutBack, PutBackFails, IInv, TypeOK, Progress
<1>2. UNCHANGED <<saved, provider, call, before, calls>>
  BY DEF PutBack, PutBackFails
<1>3. CASE PutBack /\ step > 0
  <2>1. /\ home' = [home EXCEPT ![Targets[step]] = saved[Targets[step]]]
        /\ step' = step - 1 /\ UNCHANGED <<pc, outcome, faults>>
    BY <1>3 DEF PutBack
  <2>2. step \in 1..4 /\ Targets[step] \in Paths
    BY <1>1, <1>3, TargetFacts
  <2>3. home' \in [Paths -> Contents] /\ home'["manifest"] \in Builds \union {Absent}
    BY <1>1, <2>1, <2>2, TargetsListed DEF IInv, TypeOK
  <2>4. TypeOK'
    BY <1>1, <1>2, <2>1, <2>2, <2>3, TargetFacts DEF IInv, TypeOK
  <2>5. ASSUME NEW i \in 1..4, i > step' PROVE home'[Targets[i]] = before[Targets[i]]
    <3>1. Targets[i] \in Paths /\ (Targets[i] = Targets[step] <=> i = step)
      BY <2>2, TargetFacts
    <3>2. CASE i = step
      BY <1>1, <2>1, <2>2, <3>2 DEF IInv, TypeOK
    <3>3. CASE i # step
      <4>1. i > step
        BY <2>1, <2>2, <2>5, <3>3
      <4> QED
        BY <1>1, <2>1, <3>1, <3>3, <4>1 DEF IInv, TypeOK
    <3> QED
      BY <3>2, <3>3
  <2> QED
    BY <1>1, <1>2, <2>1, <2>2, <2>4, <2>5, TargetFacts
    DEF IInv, Progress, AllOrNothing, SuccessMeansInstalled, NothingLost
<1>4. CASE PutBack /\ ~(step > 0)
  <2>1. /\ pc' = "idle" /\ outcome' = "failed" /\ step' = 1
        /\ UNCHANGED <<home, faults>>
    BY <1>4 DEF PutBack, Finish
  <2>2. home = before
    <3>1. \A p \in Paths : home[p] = before[p]
      BY <1>1, <1>4, TargetFacts
    <3> QED
      BY <3>1 DEF IInv, TypeOK
  <2>3. TypeOK'
    BY <1>1, <1>2, <2>1, TargetFacts DEF IInv, TypeOK, Outcomes
  <2> QED
    BY <1>2, <2>1, <2>2, <2>3
    DEF IInv, Progress, AllOrNothing, SuccessMeansInstalled, NothingLost
<1>5. CASE PutBackFails
  <2>1. /\ pc' = "idle" /\ outcome' = "broken" /\ step' = 1
        /\ home' = home /\ faults' = faults + 1
    BY <1>5 DEF PutBackFails, Finish, Fault
  <2>2. TypeOK'
    BY <1>1, <1>2, <2>1, TargetFacts DEF IInv, TypeOK, Outcomes
  <2> QED
    BY <1>1, <1>2, <2>1, <2>2
    DEF IInv, Progress, AllOrNothing, SuccessMeansInstalled, NothingLost
<1> QED
  BY <1>3, <1>4, <1>5

\* A death leaves what is replaced beside its backup; an edit begins a new account.
LEMMA OutsideStep ==
  ASSUME IInv, Die \/ \E p \in Paths : Edit(p)
  PROVE  IInv'
<1>1. CASE Die
  <2>1. /\ pc # "idle" /\ pc' = "idle" /\ outcome' = "died" /\ step' = 1 /\ faults' = faults + 1
        /\ UNCHANGED <<saved, call, before, calls>>
        /\ home' = home \/ (pc = "recording" /\ home' = Recorded)
    BY <1>1 DEF Die, Finish, Fault
  <2>2. call # NoCall /\ call.build \in Builds /\ call.activate \in BOOLEAN
    BY <2>1 DEF IInv, TypeOK, Progress
  <2>3. provider' \in BOOLEAN
    <3>1. provider' \in {provider, provider \/ Activating} /\ provider \in BOOLEAN
      BY <1>1 DEF Die, IInv, TypeOK
    <3>2. (provider \/ Activating) \in BOOLEAN
      OBVIOUS
    <3> QED
      BY <3>1, <3>2
  <2>4. home' \in [Paths -> Contents] /\ home'["manifest"] \in Builds \union {Absent}
    <3>1. Recorded \in [Paths -> Contents] /\ Recorded["manifest"] = call.build
      BY <2>2, ContentFacts, TargetsListed DEF Recorded, IInv, TypeOK
    <3> QED
      BY <2>1, <2>2, <3>1 DEF IInv, TypeOK
  <2>5. TypeOK'
    BY <2>1, <2>3, <2>4, TargetFacts DEF IInv, TypeOK, Outcomes
  <2>6. CASE home' = home
    <3>1. home = before \/ saved = before
      BY <2>1 DEF IInv, TypeOK, Progress
    <3> QED
      BY <2>1, <2>5, <2>6, <3>1
      DEF IInv, Progress, AllOrNothing, SuccessMeansInstalled, NothingLost
  <2>7. CASE pc = "recording" /\ home' = Recorded
    <3>1. Confirmed'
      BY <2>1, <2>7 DEF IInv, Progress, Confirmed, Recorded, Matches
    <3> QED
      BY <2>1, <2>5, <3>1
      DEF IInv, Progress, AllOrNothing, SuccessMeansInstalled, NothingLost
  <2> QED
    BY <2>1, <2>6, <2>7
<1>2. ASSUME NEW p \in Paths, Edit(p) PROVE IInv'
  <2>1. PICK content \in {Absent, Edited} :
          (p = "manifest" => content = Absent) /\ home' = [home EXCEPT ![p] = content]
    BY <1>2 DEF Edit
  <2>2. /\ pc = "idle" /\ before' = home' /\ outcome' = "none" /\ faults' = faults + 1
        /\ UNCHANGED <<saved, provider, pc, step, call, calls>>
    BY <1>2 DEF Edit, Fault
  <2>3. home' \in [Paths -> Contents] /\ home'["manifest"] \in Builds \union {Absent}
    BY <2>1, TargetsListed DEF IInv, TypeOK, Contents, Absent, Edited
  <2>4. TypeOK'
    BY <2>2, <2>3, TargetFacts DEF IInv, TypeOK, Outcomes
  <2> QED
    BY <2>2, <2>4 DEF IInv, Progress, AllOrNothing, SuccessMeansInstalled, NothingLost
<1> QED
  BY <1>1, <1>2

-----------------------------------------------------------------------------
(* Theorems *)

\* The invariant is inductive: how far a call has come tells what every file and its backup
\* are, whichever steps failed and whichever of them had taken effect.
THEOREM Inductive == Spec => []IInv
<1>1. Init => IInv
  <2> SUFFICES ASSUME Init PROVE IInv
    OBVIOUS
  <2>1. /\ home = [p \in Paths |-> Absent] /\ saved = [p \in Paths |-> Absent] /\ before = home
        /\ pc = "idle" /\ step = 1 /\ call = NoCall /\ outcome = "none" /\ provider = FALSE
        /\ calls = 0 /\ faults = 0
    BY DEF Init
  <2>2. Absent \in Contents /\ "manifest" \in Paths
    BY TargetsListed DEF Contents, Absent
  <2>3. home["manifest"] = Absent /\ saved["manifest"] = Absent /\ before["manifest"] = Absent
    BY <2>1, <2>2
  <2>4. step \in 0 .. Len(Targets) + 1
    BY <2>1, TargetFacts
  <2>5. TypeOK
    BY <2>1, <2>2, <2>3, <2>4 DEF TypeOK, Outcomes
  <2> QED
    BY <2>1, <2>5 DEF IInv, Progress, AllOrNothing, SuccessMeansInstalled, NothingLost
<1>2. IInv /\ [Next]_vars => IInv'
  <2> SUFFICES ASSUME IInv, [Next]_vars PROVE IInv'
    OBVIOUS
  <2>1. ASSUME NEW b \in Builds, NEW activate \in BOOLEAN, NEW allow \in BOOLEAN,
               Call(b, activate, allow)
        PROVE  IInv'
    BY <2>1, CallStep
  <2>2. CASE Confirm \/ ConfirmFails \/ Record \/ RecordFails \/ Stage \/ PrepareFails
    BY <2>2, ConfirmStep, RecordStep, PrepareStep
  <2>3. CASE Save
    BY <2>3, SaveStep
  <2>4. CASE Swap \/ SwapFails
    BY <2>4, SwapStep
  <2>5. CASE Activate \/ ActivateFails
    BY <2>5, ActivateStep
  <2>6. CASE PutBack \/ PutBackFails
    BY <2>6, PutBackStep
  <2>7. CASE Die \/ \E p \in Paths : Edit(p)
    BY <2>7, OutsideStep
  <2>8. CASE UNCHANGED vars
    <3>1. TypeOK'
      BY <2>8 DEF vars, IInv, TypeOK
    <3>2. /\ Matches(home, call.build)' <=> Matches(home, call.build)
          /\ Confirmed' <=> Confirmed
          /\ \A p \in Paths : Content(call.build, p)' = Content(call.build, p)
      BY <2>8 DEF vars, Matches, Confirmed, Content
    <3>3. Progress'
      <4>1. \A i \in 1..4 : Content(call.build, Targets[i])' = Content(call.build, Targets[i])
        BY <2>8 DEF vars, Content
      <4> QED
        BY <2>8, <3>2, <4>1, TargetFacts DEF vars, IInv, Progress
    <3>4. AllOrNothing' /\ NothingLost'
      BY <2>8, <3>2 DEF vars, IInv, AllOrNothing, NothingLost
    <3>5. SuccessMeansInstalled'
      BY <2>8, <3>2 DEF vars, IInv, SuccessMeansInstalled
    <3> QED
      BY <3>1, <3>3, <3>4, <3>5 DEF IInv
  <2> QED
    BY <2>1, <2>2, <2>3, <2>4, <2>5, <2>6, <2>7, <2>8 DEF Next
<1> QED
  BY <1>1, <1>2, PTL DEF Spec

\* A call that raises has restored every file, wherever it failed and whether or not the
\* failing step had taken effect, or, of an installation that was current, has changed the
\* manifest to that of its build and nothing else; a refused one has touched none.
THEOREM FailureRestores == Spec => []AllOrNothing
<1>1. IInv => AllOrNothing
  BY DEF IInv
<1> QED
  BY <1>1, Inductive, PTL

\* A call that succeeds leaves its build and nothing else, whatever an earlier call that
\* died or could not roll back had left.
THEOREM SuccessIsComplete == Spec => []SuccessMeansInstalled
<1>1. IInv => SuccessMeansInstalled
  BY DEF IInv
<1> QED
  BY <1>1, Inductive, PTL

\* A file that a call found is in its place or in the backup for as long as it might have
\* to be put back, by the installer or by hand.
THEOREM NoFileIsLost == Spec => []NothingLost
<1>1. IInv => NothingLost
  BY DEF IInv
<1> QED
  BY <1>1, Inductive, PTL
=============================================================================
