---------------------------- MODULE QuietUpdate ----------------------------
(***************************************************************************)
(* The quiet updater (quiet_update.py): one marker file, one installer     *)
(* file and the installed tree, shared by the desktop's launcher, the      *)
(* check thread of the open desktop, the maintainer process and the helper *)
(* that installs after Quit.  They exclude each other by operation.lock,   *)
(* which is never waited for; any of them may die between two writes, and  *)
(* Setup (ArchHub.iss) goes on without the process that started it, and    *)
(* may itself stop at any file.  A build is a number that stands for its   *)
(* built_at; pre-releases are left out.                                    *)
(***************************************************************************)
EXTENDS Integers

CONSTANTS
  MaxBuild,  \* bound: the newest build ever published
  NULL

Build == 1..MaxBuild
Actor == {"desktop", "checker", "maintainer", "helper"}

Phase == {"staged", "applying", "awaiting_boot", "confirmed"}
Marker == [build : Build, phase : Phase]

ASSUME UpdateAssumption ==
  MaxBuild \in Nat \ {0} /\ NULL \notin Nat \cup Actor \cup Marker

VARIABLES
  marker,   \* updates/staged.json
  package,  \* the build whose bytes are in the installer file
  tree,     \* the installed tree: BUILD_ID, and whether every file is of that build
  setup,    \* the build that a running Setup installs
  exit,     \* exit code of the Setup that ended last; 1 is any failure
  latest,   \* the release feed
  lock,     \* operation.lock
  at,       \* where each actor is
  job,      \* the build it stages or installs
  running,  \* the build whose code the open desktop runs
  booted,   \* history: builds that came up healthy
  end       \* history: "seen" once whoever started the last Setup saw its end

vars == <<marker, package, tree, setup, exit, latest, lock, at, job, running, booted, end>>
installed == <<tree, setup, exit, end>>
files == <<marker, package, installed>>
env == <<latest, running, booted>>

Staging == {"off", "idle", "download", "replaced"}
Applying == {"off", "ready", "admitted", "marked", "stopped", "waiting"}
Place(a) == CASE a = "checker" -> Staging
              [] a = "maintainer" -> Staging \cup Applying \cup {"checked"}
              [] a = "helper" -> Applying \cup {"launched"}
              [] a = "desktop" -> Applying \cup {"launched", "boot", "up", "open"}

Init ==
  /\ marker = NULL /\ package = NULL /\ setup = NULL /\ latest = NULL
  /\ exit = 0 /\ end = "seen"
  /\ tree = [id |-> 1, whole |-> TRUE]
  /\ lock = NULL
  /\ at = [a \in Actor |-> "off"] /\ job = [a \in Actor |-> NULL]
  /\ running = NULL /\ booted = {1}

-----------------------------------------------------------------------------
(***************************************************************************)
(* _status.  It raises when the installer file is not the marker's; a      *)
(* confirmed, current package is only read where an effect depends on it   *)
(* (verify).  An attempt under way never raises.                           *)
(***************************************************************************)
Matches == marker # NULL /\ tree.id = marker.build
Verified == package = marker.build
Raises(verify) ==
  /\ marker # NULL /\ marker.phase # "applying" /\ ~Verified
  /\ verify \/ ~(marker.phase = "confirmed" /\ Matches)
Newer(b) == b > tree.id
Status ==
  CASE marker = NULL -> "none"
    [] marker # NULL /\ marker.phase = "staged" /\ Matches -> "awaiting_boot"
    [] marker # NULL /\ marker.phase = "staged" /\ ~Matches /\ ~Newer(marker.build) -> "not_ready"
    [] OTHER -> marker.phase

Go(a, place) == at' = [at EXCEPT ![a] = place]
Take(a, place) == Go(a, place) /\ lock' = a
Release(a, place) == Go(a, place) /\ lock' = NULL
Keep(a, place) == Go(a, place) /\ UNCHANGED lock

\* Where an actor goes on that did not install: the launcher opens the window,
\* the maintainer sleeps, the helper ends.
OnwardAlike(a) == "boot"
Onward(a) == CASE a = "desktop" -> "boot" [] a = "maintainer" -> "idle" [] OTHER -> "off"
Home(a) == IF a = "desktop" \/ a = "helper" THEN "off" ELSE "idle"

-----------------------------------------------------------------------------
(***************************************************************************)
(* stage_if_newer, by the check thread and by the maintainer.              *)
(***************************************************************************)
KeepsHeld(b) == Status = "staged" /\ (b = NULL \/ b <= marker.build)
Unowned == package # NULL /\ marker = NULL
Offered(b) == ~KeepsHeld(b) /\ b # NULL /\ Newer(b) /\ ~Unowned
\* A check ends here, or goes on to download; either way one reading of the feed.
StageCheck(a) ==
  /\ at[a] = "idle" /\ lock = NULL
  /\ IF ~Raises(FALSE) /\ Status \notin {"applying", "awaiting_boot"} /\ Offered(latest)
     THEN Take(a, "download") /\ job' = [job EXCEPT ![a] = latest]
     ELSE /\ Keep(a, IF a = "maintainer" /\ ~Raises(FALSE) /\ Status = "staged"
                     THEN "checked" ELSE "idle")
          /\ at' # at
          /\ UNCHANGED job
  /\ UNCHANGED files /\ UNCHANGED env

\* The download fails, is cancelled or is not what was published.
DownloadFails(a) ==
  /\ at[a] = "download"
  /\ Release(a, "idle") /\ job' = [job EXCEPT ![a] = NULL]
  /\ UNCHANGED files /\ UNCHANGED env

\* os.replace(partial, target), and then the marker.
Replace(a) ==
  /\ at[a] = "download"
  /\ package' = job[a]
  /\ Keep(a, "replaced")
  /\ UNCHANGED <<marker, installed, job>> /\ UNCHANGED env

MarkStaged(a) ==
  /\ at[a] = "replaced"
  /\ marker' = [build |-> job[a], phase |-> "staged"]
  /\ Release(a, IF a = "maintainer" THEN "checked" ELSE "idle")
  /\ job' = [job EXCEPT ![a] = NULL]
  /\ UNCHANGED <<package, installed>> /\ UNCHANGED env

DesktopClosed == at["desktop"] = "off"
MaintainerDecides ==
  /\ at["maintainer"] = "checked"
  /\ Keep("maintainer", IF DesktopClosed THEN "ready" ELSE "idle")
  /\ UNCHANGED <<job>> /\ UNCHANGED files /\ UNCHANGED env

-----------------------------------------------------------------------------
(***************************************************************************)
(* apply_staged, by the launcher, the maintainer and the helper.           *)
(***************************************************************************)
ApplicableAgain == ~Raises(TRUE) /\ Status \in {"staged", "applying"} /\ ~Matches
Applicable == ~Raises(TRUE) /\ Status = "staged"
\* The launcher refuses to start when the answer is "applying".
Admit(a) ==
  /\ at[a] = "ready"
  /\ IF lock = NULL /\ Applicable
     THEN Take(a, "admitted") /\ job' = [job EXCEPT ![a] = marker.build]
     ELSE /\ Keep(a, IF lock = NULL /\ ~Raises(TRUE) /\ Status = "applying" THEN Home(a) ELSE Onward(a))
          /\ UNCHANGED job
  /\ UNCHANGED files /\ UNCHANGED env

MarkApplying(a) ==
  /\ at[a] = "admitted"
  /\ marker' = [marker EXCEPT !.phase = "applying"]
  /\ Keep(a, "marked")
  /\ UNCHANGED <<package, installed, job>> /\ UNCHANGED env

\* stop_runtime_processes ends what runs from the install folder.
StoppedNone(a) == {}
Stopped(a) == {"desktop", "checker", "helper"} \ {a}
StopRuntime(a) ==
  /\ at[a] = "marked"
  /\ at' = [x \in Actor |-> IF x = a THEN "stopped" ELSE IF x \in Stopped(a) THEN "off" ELSE at[x]]
  /\ running' = IF "desktop" \in Stopped(a) THEN NULL ELSE running
  /\ UNCHANGED <<lock, job, latest, booted>> /\ UNCHANGED files

\* A process cannot be stopped, or Setup cannot be started: the marker stays.
ApplyRaises(a) ==
  /\ at[a] \in {"marked", "stopped"}
  /\ Release(a, Home(a)) /\ job' = [job EXCEPT ![a] = NULL]
  /\ UNCHANGED files /\ UNCHANGED env

RunSetup(a) ==
  /\ at[a] = "stopped"
  /\ setup' = package /\ end' = "unseen"
  /\ Keep(a, "waiting")
  /\ UNCHANGED <<marker, package, tree, exit, job>> /\ UNCHANGED env

\* Setup deletes and overwrites files one by one and keeps no copy of them.
SetupCopies ==
  /\ setup # NULL /\ tree.whole
  /\ tree' = [tree EXCEPT !.whole = FALSE]
  /\ UNCHANGED <<marker, package, setup, exit, end, lock, at, job>> /\ UNCHANGED env

\* Setup is refused by PrepareToInstall, aborts at a file or is killed: the tree
\* stays as it is.  Or all is copied and BUILD_ID cannot be saved.  Or BUILD_ID is
\* written, last of the tree, and what follows succeeds or fails.
SetupEnds ==
  /\ setup # NULL /\ setup' = NULL
  /\ \/ exit' = 1 /\ UNCHANGED tree
     \/ exit' \in {0, 1} /\ tree' = [tree EXCEPT !.whole = FALSE]
     \/ exit' \in {0, 1} /\ tree' = [id |-> setup, whole |-> TRUE]
  /\ UNCHANGED <<marker, package, end, lock, at, job>> /\ UNCHANGED env

\* Not finished: the same build is staged again, and the launcher goes on.
FinishedAnyway(a) == TRUE
Finished(a) == exit = 0 /\ tree.id = job[a]
Finish(a) ==
  /\ at[a] = "waiting" /\ setup = NULL
  /\ marker' = [marker EXCEPT !.phase = IF Finished(a) THEN "awaiting_boot" ELSE "staged"]
  /\ Release(a, IF Finished(a) THEN "off" ELSE Onward(a))
  /\ job' = [job EXCEPT ![a] = NULL]
  /\ end' = "seen"
  /\ UNCHANGED <<package, tree, setup, exit>> /\ UNCHANGED env

-----------------------------------------------------------------------------
(***************************************************************************)
(* The launcher.  ArchHub.vbs starts the maintainer first; one launcher    *)
(* holds the profile.  recover_failed_launch rewrites nothing.             *)
(***************************************************************************)
Launch ==
  /\ at["desktop"] = "off"
  /\ at' = [at EXCEPT !["desktop"] = "launched",
                      !["maintainer"] = IF @ = "off" THEN "idle" ELSE @]
  /\ UNCHANGED <<lock, job>> /\ UNCHANGED files /\ UNCHANGED env

\* begin_update_boot and what the launcher makes of it: "applying", and every
\* error, refuses the start; a tree that matches is left to prove its boot.
RefusesUnlocked == Raises(FALSE) \/ (Status = "applying" /\ ~(Verified /\ Matches))
Refuses == lock # NULL \/ RefusesUnlocked
BeginBoot ==
  /\ at["desktop"] = "launched"
  /\ LET proves == ~Refuses /\ Status \in {"applying", "awaiting_boot"}
     IN /\ marker' = IF proves THEN [marker EXCEPT !.phase = "awaiting_boot"] ELSE marker
        /\ Keep("desktop", IF Refuses THEN "off" ELSE IF Status = "staged" THEN "ready" ELSE "boot")
  /\ UNCHANGED <<package, installed, job>> /\ UNCHANGED env

\* The window opens; the check thread starts with it.
Boot ==
  /\ at["desktop"] = "boot"
  /\ at' = [at EXCEPT !["desktop"] = "up", !["checker"] = "idle"]
  /\ running' = tree.id
  /\ UNCHANGED <<lock, job, latest, booted>> /\ UNCHANGED files

\* confirm_boot after a good health check: confirm_when_free waits for the lock.
\* A bad one confirms nothing.
Confirmable == ~Raises(TRUE) /\ Matches /\ Verified
               /\ Status \in {"applying", "awaiting_boot", "confirmed"}
ConfirmBoot ==
  /\ at["desktop"] = "up"
  /\ \/ /\ lock = NULL /\ booted' = booted \cup {running}
        /\ marker' = IF Confirmable THEN [marker EXCEPT !.phase = "confirmed"] ELSE marker
     \/ UNCHANGED <<marker, booted>>
  /\ Keep("desktop", "open")
  /\ UNCHANGED <<package, installed, job, latest, running>>

\* The last window closes; the launcher may leave the staged build to a helper,
\* which looks for a desktop once more.
Closing(h) ==
  /\ at' = [at EXCEPT !["desktop"] = "off", !["checker"] = "off", !["helper"] = h]
  /\ running' = NULL
  /\ lock' = IF lock = "checker" THEN NULL ELSE lock
  /\ job' = [job EXCEPT !["checker"] = NULL]
Quit ==
  /\ at["desktop"] = "open"
  /\ Closing(at["helper"]) \/ (at["helper"] = "off" /\ Closing("launched"))
  /\ UNCHANGED <<latest, booted>> /\ UNCHANGED files
HelperDecides ==
  /\ at["helper"] = "launched"
  /\ Keep("helper", IF DesktopClosed THEN "ready" ELSE "off")
  /\ UNCHANGED job /\ UNCHANGED files /\ UNCHANGED env

-----------------------------------------------------------------------------
\* A process dies with its threads, and the system drops its lock.
Dead(a) == IF a = "desktop" THEN {"desktop", "checker"} ELSE {a}
Die(D) ==
  /\ at' = [x \in Actor |-> IF x \in D THEN "off" ELSE at[x]]
  /\ job' = [x \in Actor |-> IF x \in D THEN NULL ELSE job[x]]
  /\ lock' = IF lock \in D THEN NULL ELSE lock
  /\ running' = IF "desktop" \in D THEN NULL ELSE running
Crash(a) ==
  /\ a # "checker" /\ at[a] # "off"
  /\ Die(Dead(a))
  /\ UNCHANGED <<latest, booted>> /\ UNCHANGED files

\* The machine stops, Setup with it.
PowerLoss ==
  /\ setup # NULL \/ \E a \in Actor : at[a] # "off"
  /\ Die(Actor) /\ setup' = NULL
  /\ UNCHANGED <<marker, package, tree, exit, end, latest, booted>>

Publish ==
  /\ \E b \in Build : latest' = b /\ b # latest
  /\ UNCHANGED <<lock, at, job, running, booted>> /\ UNCHANGED files

\* Somebody runs a newer Setup by hand.  Bound: it succeeds, and not while an
\* update is on.
ManualInstall ==
  /\ lock = NULL /\ setup = NULL /\ at["desktop"] = "off"
  /\ \E b \in Build : b >= tree.id /\ tree' = [id |-> b, whole |-> TRUE] /\ tree' # tree
  /\ UNCHANGED <<marker, package, setup, exit, end, lock, at, job>> /\ UNCHANGED env

StageStep(a) == StageCheck(a) \/ Replace(a) \/ MarkStaged(a)
ApplyStep(a) ==
  Admit(a) \/ MarkApplying(a) \/ StopRuntime(a) \/ RunSetup(a) \/ Finish(a)
LauncherStep == BeginBoot \/ Boot \/ ConfirmBoot

Next ==
  \/ \E a \in {"checker", "maintainer"} : StageStep(a) \/ DownloadFails(a)
  \/ \E a \in {"desktop", "maintainer", "helper"} : ApplyStep(a) \/ ApplyRaises(a)
  \/ MaintainerDecides \/ HelperDecides
  \/ Launch \/ LauncherStep \/ Quit \/ SetupCopies \/ SetupEnds
  \/ (\E a \in Actor : Crash(a)) \/ PowerLoss \/ Publish \/ ManualInstall

Spec == Init /\ [][Next]_vars

(***************************************************************************)
(* Fairness: the maintainer checks and sleeps for ever, processes go on,   *)
(* and not every download and Setup fails.  Nobody has to launch, quit or  *)
(* die.                                                                    *)
(***************************************************************************)
Fairness ==
  /\ WF_vars(StageStep("maintainer")) /\ SF_vars(Replace("maintainer"))
  /\ WF_vars(MaintainerDecides)
  /\ \A a \in {"desktop", "maintainer", "helper"} : WF_vars(ApplyStep(a))
  /\ WF_vars(SetupEnds) /\ SF_vars(SetupEnds /\ tree'.id = setup)
  /\ WF_vars(LauncherStep)
FairSpec == Spec /\ Fairness

-----------------------------------------------------------------------------
\* Every variable has its type.
TypeOK ==
  /\ marker = NULL \/ marker \in Marker
  /\ {package, setup, latest, running} \subseteq Build \cup {NULL}
  /\ tree \in [id : Build, whole : BOOLEAN]
  /\ exit \in {0, 1} /\ end \in {"seen", "unseen"}
  /\ lock \in Actor \cup {NULL}
  /\ \A a \in Actor : at[a] \in Place(a) /\ job[a] \in Build \cup {NULL}
  /\ booted \subseteq Build

\* Half-copied code of an attempt whose end nobody saw is never run: not while
\* Setup copies, not after its parent died or the machine stopped.  Only what a
\* Setup left that told apply_staged of its failure is opened (line 854).
NoPartialBoot == at["desktop"] \in {"up", "open"} => tree.whole \/ end = "seen"

\* One attempt: Setup is started with no other Setup at work and over no attempt
\* whose end nobody saw, with the bytes the marker names, and never backwards.
SetupIsSafe ==
  [][(setup' # NULL /\ setup' # setup) =>
       /\ setup = NULL /\ (tree.whole \/ end = "seen")
       /\ marker.build = setup' /\ setup' > tree.id]_vars

\* The marker is true: a build that awaits its boot was installed, and a
\* confirmed one ran (and not an older one that was still open).
MarkerIsTrue ==
  marker # NULL =>
    /\ marker.phase = "awaiting_boot" => tree.id >= marker.build
    /\ marker.phase = "confirmed" => marker.build \in booted

\* What the launcher says when it refuses ("previous installation is
\* unresolved"): a start is refused only for an installation that was begun.
RefusedForInstall ==
  (lock = NULL /\ RefusesUnlocked) => marker.phase = "applying"

\* A newer release is installed while the maintainer lives and the desktop stays
\* closed, unless a build that was installed waits for its first start, or the
\* files have come to a state that no step leaves.
AwaitsStart == Matches /\ Verified /\ Status \in {"applying", "awaiting_boot"}
Superseded == Status = "awaiting_boot" /\ ~Matches
Stuck == RefusesUnlocked \/ Unowned \/ Superseded
Awaited == IF latest = NULL THEN FALSE ELSE Newer(latest)
=============================================================================
