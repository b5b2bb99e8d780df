------------------------- MODULE QuietUpdateProofs -------------------------
(***************************************************************************)
(* Theorems about QuietUpdate, for any number of builds: what the marker,  *)
(* the lock and the installed tree are to each other, whoever dies when.   *)
(***************************************************************************)
EXTENDS QuietUpdate, TLAPS

-----------------------------------------------------------------------------
(* The inductive invariant. *)

Places == Staging \cup Applying \cup {"checked", "launched", "boot", "up", "open"}
Mapped == at \in [Actor -> Places] /\ job \in [Actor -> Build \cup {NULL}]

Phased(p) == marker # NULL /\ marker.phase = p
\* The package of the marker is an update of the tree.
Pending == marker # NULL /\ package = marker.build /\ marker.build > tree.id

\* An attempt whose end nobody saw: Setup runs, or left the tree partial.
Unresolved == setup # NULL \/ (~tree.whole /\ end = "unseen")

\* It is found under the marker "applying", and no desktop is on its way to a
\* window.
UnresolvedIsApplying ==
  Unresolved =>
    /\ Phased("applying") /\ marker.build > tree.id
    /\ at["desktop"] \in {"off", "launched", "waiting"}

\* Setup installs the marker's build, and nobody has seen its end.
SetupIsApplying == setup # NULL => setup = marker.build /\ end = "unseen"

\* Whoever stages or installs holds the lock.
Working == {"download", "replaced", "admitted", "marked", "stopped", "waiting"}
HoldsLock == \A a \in Actor : at[a] \in Working => lock = a

\* Where an actor is says what it may rely on.
Relies(a) ==
  /\ at[a] \in {"download", "replaced"} => ~Phased("applying") /\ job[a] \in Build
  /\ at[a] \in {"admitted", "marked", "stopped"} => Pending /\ ~Unresolved /\ job[a] = marker.build
  /\ at[a] = "admitted" => Phased("staged")
  /\ at[a] \in {"marked", "stopped", "waiting"} => Phased("applying")
  /\ at[a] = "stopped" => at["desktop"] \in {"off", "launched", "stopped"}
  /\ at[a] = "waiting" => job[a] = marker.build
WorkersRely == \A a \in Actor : Relies(a)

\* An open desktop runs the code that is installed.
RunsInstalled == at["desktop"] \in {"up", "open"} => running = tree.id

Shape ==
  /\ UnresolvedIsApplying /\ SetupIsApplying /\ HoldsLock /\ WorkersRely
  /\ RunsInstalled /\ MarkerIsTrue
IInv == TypeOK /\ Mapped /\ Shape

-----------------------------------------------------------------------------
(* Types. *)

\* The types in the form the provers use.
LEMMA Typed ==
  ASSUME IInv
  PROVE  /\ at \in [Actor -> Places] /\ job \in [Actor -> Build \cup {NULL}]
         /\ marker # NULL => marker \in [build : Build, phase : Phase]
         /\ package \in Build \cup {NULL} /\ setup \in Build \cup {NULL}
         /\ latest \in Build \cup {NULL} /\ running \in Build \cup {NULL}
         /\ tree \in [id : Build, whole : BOOLEAN] /\ exit \in {0, 1} /\ end \in {"seen", "unseen"}
         /\ lock \in Actor \cup {NULL} /\ booted \subseteq Build
         /\ \A a \in Actor : at[a] \in Place(a)
BY DEF IInv, Mapped, TypeOK, Marker

\* A marker that was written is a marker.
LEMMA Recorded ==
  ASSUME NEW m \in [build : Build, phase : Phase]
  PROVE  m # NULL
BY UpdateAssumption DEF Marker

\* What Status says of the marker.
LEMMA StatusMeans ==
  ASSUME IInv
  PROVE  /\ Status = "staged" => Phased("staged") /\ marker.build > tree.id
         /\ Status = "applying" <=> Phased("applying")
         /\ Status \in {"awaiting_boot", "confirmed"} =>
              marker # NULL /\ marker.phase \in {"staged", "awaiting_boot", "confirmed"}
         /\ Status = "awaiting_boot" => Phased("awaiting_boot") \/ Matches
<1>1. marker # NULL => marker.build \in Int /\ tree.id \in Int
  BY Typed DEF Build
<1>2. marker # NULL => marker.phase \in Phase
  BY Typed
<1> QED BY <1>1, <1>2 DEF Status, Phased, Phase, Matches, Newer

\* A place a step goes to is a place of that actor.
LEMMA PlacesOf ==
  /\ Place("checker") = {"off", "idle", "download", "replaced"}
  /\ Place("maintainer") = {"off", "idle", "download", "replaced", "ready", "admitted", "marked",
                            "stopped", "waiting", "checked"}
  /\ Place("helper") = {"off", "ready", "admitted", "marked", "stopped", "waiting", "launched"}
  /\ Place("desktop") = {"off", "ready", "admitted", "marked", "stopped", "waiting", "launched",
                         "boot", "up", "open"}
  /\ Places = {"off", "idle", "download", "replaced", "ready", "admitted", "marked", "stopped",
               "waiting", "checked", "launched", "boot", "up", "open"}
BY DEF Place, Places, Staging, Applying

\* A step that moves one actor.
LEMMA Moves ==
  ASSUME IInv, NEW a \in Actor, NEW p \in Place(a), Go(a, p)
  PROVE  /\ at' \in [Actor -> Places] /\ at'[a] = p
         /\ \A x \in Actor : x # a => at'[x] = at[x]
         /\ \A x \in Actor : at'[x] \in Place(x)
<1>1. at \in [Actor -> Places] /\ \A x \in Actor : at[x] \in Place(x)
  BY Typed
<1>2. p \in Places
  BY PlacesOf DEF Actor
<1> QED BY <1>1, <1>2 DEF Go

\* A step that gives one actor a job.
LEMMA Jobs ==
  ASSUME IInv, NEW a \in Actor, NEW b \in Build \cup {NULL}, job' = [job EXCEPT ![a] = b]
  PROVE  /\ job' \in [Actor -> Build \cup {NULL}] /\ job'[a] = b
         /\ \A x \in Actor : x # a => job'[x] = job[x]
BY Typed

\* The types follow from what a step does to the files, the actors and the lock.
LEMMA TypesKept ==
  ASSUME IInv,
         marker' # NULL => marker' \in [build : Build, phase : Phase],
         package' \in Build \cup {NULL}, setup' \in Build \cup {NULL},
         latest' \in Build \cup {NULL}, running' \in Build \cup {NULL},
         tree' \in [id : Build, whole : BOOLEAN], exit' \in {0, 1}, end' \in {"seen", "unseen"},
         lock' \in Actor \cup {NULL},
         booted' \subseteq Build, at' \in [Actor -> Places],
         job' \in [Actor -> Build \cup {NULL}], \A x \in Actor : at'[x] \in Place(x)
  PROVE  TypeOK' /\ Mapped'
BY DEF TypeOK, Mapped, Marker

-----------------------------------------------------------------------------
(* Steps that leave the files alone and move one actor. *)

LEMMA Moved ==
  ASSUME IInv, NEW a \in Actor, NEW p \in Place(a), Go(a, p),
         UNCHANGED files, UNCHANGED env,
         lock' \in Actor \cup {NULL},
         \A x \in Actor : x # a /\ at[x] \in Working => lock' = x,
         p \in Working => lock' = a,
         job' \in [Actor -> Build \cup {NULL}], \A x \in Actor : x # a => job'[x] = job[x],
         Relies(a)',
         a = "desktop" =>
           /\ p \notin {"up", "open"}
           /\ Unresolved => p \in {"off", "launched", "waiting"}
           /\ (\E x \in Actor : at[x] = "stopped") => p \in {"off", "launched", "stopped"}
  PROVE  IInv'
<1>1. /\ at' \in [Actor -> Places] /\ at'[a] = p
      /\ \A x \in Actor : x # a => at'[x] = at[x]
      /\ \A x \in Actor : at'[x] \in Place(x)
  BY Moves
<1>2. TypeOK' /\ Mapped'
  <2>1. UNCHANGED <<marker, package, tree, setup, exit, end, latest, running, booted>>
    BY DEF files, installed, env
  <2> QED BY <1>1, <2>1, Typed, TypesKept
<1>3. UNCHANGED <<marker, package, tree, setup, exit, end, running, booted>> /\ Shape
  BY DEF files, installed, env, IInv
<1>4. "desktop" \in Actor
  BY DEF Actor
<1>5. HoldsLock'
  BY <1>1, <1>3 DEF Shape, HoldsLock
<1>6. WorkersRely'
  <2> SUFFICES ASSUME NEW x \in Actor, x # a PROVE Relies(x)'
    BY DEF WorkersRely
  <2>1. Relies(x) /\ at'[x] = at[x] /\ job'[x] = job[x]
    BY <1>1, <1>3 DEF Shape, WorkersRely
  <2>2. at[x] = "stopped" => at'["desktop"] \in {"off", "launched", "stopped"}
    BY <1>1, <1>4, <2>1 DEF Relies
  <2> QED BY <1>3, <2>1, <2>2 DEF Relies, Phased, Pending, Unresolved
<1>7. UnresolvedIsApplying' /\ SetupIsApplying' /\ RunsInstalled' /\ MarkerIsTrue'
  BY <1>1, <1>3, <1>4 DEF Shape, UnresolvedIsApplying, Unresolved, SetupIsApplying, RunsInstalled, MarkerIsTrue,
                          Phased
<1> QED BY <1>2, <1>5, <1>6, <1>7 DEF IInv, Shape

\* The lock is free, or only its holder works.
LEMMA OnlyHolder ==
  ASSUME IInv, NEW a, lock = a
  PROVE  \A x \in Actor : x # a => at[x] \notin Working
BY DEF IInv, Shape, HoldsLock

LEMMA FreeLock ==
  ASSUME IInv, lock = NULL
  PROVE  \A x \in Actor : at[x] \notin Working
<1>1. NULL \notin Actor
  BY UpdateAssumption
<1> QED BY <1>1 DEF IInv, Shape, HoldsLock

\* stage_if_newer and its failures.
LEMMA StageCheckKeeps ==
  ASSUME IInv, NEW a \in {"checker", "maintainer"}, StageCheck(a)
  PROVE  IInv'
<1>1. a \in Actor /\ a # "desktop" /\ at[a] = "idle" /\ lock = NULL
      /\ UNCHANGED files /\ UNCHANGED env
  BY DEF StageCheck, Actor
<1>2. CASE Take(a, "download") /\ job' = [job EXCEPT ![a] = latest]
           /\ Status # "applying" /\ Offered(latest)
  <2>1. "download" \in Place(a)
    BY PlacesOf
  <2>2. latest \in Build
    BY <1>2, Typed DEF Offered
  <2>3. /\ job' \in [Actor -> Build \cup {NULL}] /\ job'[a] = latest
        /\ \A x \in Actor : x # a => job'[x] = job[x]
    BY <1>1, <1>2, <2>2, Jobs
  <2>4. at'[a] = "download"
    BY <1>1, <1>2, <2>1, Moves DEF Take
  <2>5. ~Phased("applying")'
    BY <1>1, <1>2, StatusMeans DEF files, installed, Phased
  <2>6. Relies(a)'
    BY <2>2, <2>3, <2>4, <2>5 DEF Relies
  <2> QED BY <1>1, <1>2, <2>1, <2>3, <2>6, FreeLock, Moved DEF Take
<1>3. ASSUME NEW p \in {"idle", "checked"}, p = "checked" => a = "maintainer",
             Keep(a, p), UNCHANGED job
      PROVE  IInv'
  <2>1. p \in Place(a) /\ p \notin Working
    BY <1>3, PlacesOf DEF Working
  <2>2. at'[a] = p
    BY <1>1, <1>3, <2>1, Moves DEF Keep
  <2>3. Relies(a)'
    BY <1>3, <2>2 DEF Relies
  <2> QED BY <1>1, <1>3, <2>1, <2>3, FreeLock, Moved, Typed DEF Keep
<1> QED BY <1>2, <1>3 DEF StageCheck

\* An actor that lets go of the lock and of its job.
LEMMA LetsGo ==
  ASSUME IInv, NEW a \in Actor, lock = a, NEW p \in Place(a),
         p \in {"off", "idle"}, Release(a, p), job' = [job EXCEPT ![a] = NULL],
         UNCHANGED files, UNCHANGED env
  PROVE  IInv'
<1>1. p \notin Working /\ at'[a] = p
  BY Moves DEF Working, Release
<1>2. Relies(a)'
  BY <1>1 DEF Relies
<1>3. /\ job' \in [Actor -> Build \cup {NULL}]
      /\ \A x \in Actor : x # a => job'[x] = job[x]
  BY Jobs
<1>4. \A x \in Actor : x # a => at[x] \notin Working
  BY OnlyHolder
<1>5. a = "desktop" => p = "off"
  BY PlacesOf
<1> QED BY <1>1, <1>2, <1>3, <1>4, <1>5, Moved DEF Release

LEMMA FailuresKeep ==
  ASSUME IInv, NEW a \in Actor,
         \/ a \in {"checker", "maintainer"} /\ DownloadFails(a)
         \/ a # "checker" /\ ApplyRaises(a)
  PROVE  IInv'
<1>1. at[a] \in Working
  BY DEF DownloadFails, ApplyRaises, Working
<1>2. lock = a
  BY <1>1 DEF IInv, Shape, HoldsLock
<1>3. Home(a) \in {"off", "idle"} /\ (a # "checker" => Home(a) \in Place(a))
  BY PlacesOf DEF Home, Actor
<1>4. a \in {"checker", "maintainer"} => "idle" \in Place(a)
  BY PlacesOf
<1> QED BY <1>2, <1>3, <1>4, LetsGo DEF DownloadFails, ApplyRaises

\* The looks at the profile before an install.
LEMMA DecidesKeeps ==
  ASSUME IInv, MaintainerDecides \/ HelperDecides
  PROVE  IInv'
<1>1. PICK a \in {"maintainer", "helper"}, p \in {"ready", "idle", "off"} :
        /\ at[a] \in {"checked", "launched"} /\ p \in Place(a)
        /\ Keep(a, p) /\ UNCHANGED job /\ UNCHANGED files /\ UNCHANGED env
  BY PlacesOf DEF MaintainerDecides, HelperDecides
<1>2. a \in Actor /\ a # "desktop" /\ p \notin Working
  BY DEF Actor, Working
<1>3. Relies(a)'
  <2>1. at'[a] = p
    BY <1>1, <1>2, Moves DEF Keep
  <2> QED BY <2>1 DEF Relies
<1>4. \A x \in Actor : x # a /\ at[x] \in Working => lock' = x
  BY <1>1 DEF IInv, Shape, HoldsLock, Keep
<1> QED BY <1>1, <1>2, <1>3, <1>4, Moved, Typed DEF Keep

\* apply_staged takes the lock over a staged build, or does nothing.
LEMMA AdmitKeeps ==
  ASSUME IInv, NEW a \in {"desktop", "maintainer", "helper"}, Admit(a)
  PROVE  IInv'
<1>1. a \in Actor /\ at[a] = "ready" /\ UNCHANGED files /\ UNCHANGED env
  BY DEF Admit, Actor
<1>2. CASE lock = NULL /\ Applicable /\ Take(a, "admitted") /\ job' = [job EXCEPT ![a] = marker.build]
  <2>1. "admitted" \in Place(a)
    BY PlacesOf
  <2>2. Phased("staged") /\ marker.build > tree.id /\ marker.build \in Build
    BY <1>2, StatusMeans, Typed DEF Applicable, Phased
  <2>3. package = marker.build
    BY <1>2, <2>2 DEF Applicable, Raises, Verified, Phased
  <2>4. ~Unresolved
    BY <2>2 DEF IInv, Shape, UnresolvedIsApplying, Unresolved, Phased
  <2>5. /\ job' \in [Actor -> Build \cup {NULL}] /\ job'[a] = marker.build
        /\ \A x \in Actor : x # a => job'[x] = job[x]
    BY <1>1, <1>2, <2>2, Jobs
  <2>6. at'[a] = "admitted"
    BY <1>1, <1>2, <2>1, Moves DEF Take
  <2>7. Relies(a)'
    BY <1>1, <2>2, <2>3, <2>4, <2>5, <2>6 DEF Relies, Pending, Phased, Unresolved, files, installed, installed
  <2>8. \A x \in Actor : at[x] # "stopped"
    BY <1>2, FreeLock DEF Working
  <2> QED BY <1>1, <1>2, <2>1, <2>4, <2>5, <2>7, <2>8, FreeLock, Moved DEF Take
<1>3. ASSUME NEW p \in {Home(a), Onward(a)}, Keep(a, p), UNCHANGED job
      PROVE  IInv'
  <2>1. p \in Place(a) /\ p \in {"off", "idle", "boot"} /\ p \notin Working
    BY PlacesOf DEF Home, Onward, Working
  <2>2. at'[a] = p
    BY <1>1, <1>3, <2>1, Moves DEF Keep
  <2>3. Relies(a)'
    BY <2>1, <2>2 DEF Relies
  <2>4. a = "desktop" => ~Unresolved /\ \A x \in Actor : at[x] # "stopped"
    BY <1>1 DEF IInv, Shape, UnresolvedIsApplying, Unresolved, WorkersRely, Relies
  <2>5. \A x \in Actor : x # a /\ at[x] \in Working => lock' = x
    BY <1>3 DEF IInv, Shape, HoldsLock, Keep
  <2> QED BY <1>1, <1>3, <2>1, <2>3, <2>4, <2>5, Moved, Typed DEF Keep
<1> QED BY <1>2, <1>3 DEF Admit

-----------------------------------------------------------------------------
(* Steps of the lock's holder that write a file. *)

\* The holder alone works, so only what it relies on itself has to be shown.
LEMMA HolderWrites ==
  ASSUME IInv, NEW a \in Actor, lock = a, NEW p \in Place(a), Go(a, p),
         lock' = a \/ (lock' = NULL /\ p \notin Working),
         marker' # NULL => marker' \in [build : Build, phase : Phase],
         package' \in Build \cup {NULL}, setup' \in Build \cup {NULL},
         tree' \in [id : Build, whole : BOOLEAN], exit' \in {0, 1}, end' \in {"seen", "unseen"},
         UNCHANGED env,
         job' \in [Actor -> Build \cup {NULL}],
         Relies(a)', UnresolvedIsApplying', SetupIsApplying', MarkerIsTrue',
         a = "desktop" => p \notin {"up", "open"},
         UNCHANGED tree \/ at'["desktop"] \notin {"up", "open"}
  PROVE  IInv'
<1>1. /\ at' \in [Actor -> Places] /\ at'[a] = p
      /\ \A x \in Actor : x # a => at'[x] = at[x]
      /\ \A x \in Actor : at'[x] \in Place(x)
  BY Moves
<1>2. TypeOK' /\ Mapped'
  <2>1. UNCHANGED <<latest, running, booted>> /\ lock' \in Actor \cup {NULL}
    BY DEF env
  <2> QED BY <1>1, <2>1, Typed, TypesKept
<1>3. \A x \in Actor : x # a => at'[x] \notin Working
  BY <1>1, OnlyHolder
<1>4. HoldsLock'
  BY <1>1, <1>3 DEF HoldsLock
<1>5. WorkersRely'
  <2> SUFFICES ASSUME NEW x \in Actor, x # a PROVE Relies(x)'
    BY DEF WorkersRely
  <2> QED BY <1>3 DEF Relies, Working
<1>6. RunsInstalled'
  BY <1>1 DEF IInv, Shape, RunsInstalled, env, Actor
<1> QED BY <1>2, <1>4, <1>5, <1>6 DEF IInv, Shape

LEMMA ReplaceKeeps ==
  ASSUME IInv, NEW a \in {"checker", "maintainer"}, Replace(a)
  PROVE  IInv'
<1>1. a \in Actor /\ at[a] = "download" /\ "replaced" \in Place(a) /\ Shape
  BY PlacesOf DEF Replace, Actor, IInv
<1>2. lock = a /\ ~Phased("applying") /\ job[a] \in Build
  BY <1>1 DEF Shape, HoldsLock, WorkersRely, Relies, Working
<1>3. at'[a] = "replaced"
  BY <1>1, Moves DEF Replace, Keep
<1>4. UNCHANGED <<marker, tree, setup, exit, end, job, booted>>
  BY DEF Replace, installed, env
<1>5. Relies(a)'
  BY <1>2, <1>3, <1>4 DEF Relies, Phased
<1>6. UnresolvedIsApplying' /\ SetupIsApplying' /\ MarkerIsTrue'
  BY <1>1, <1>2, <1>4 DEF Shape, UnresolvedIsApplying, Unresolved, SetupIsApplying, MarkerIsTrue, Phased
<1>7. a # "desktop"
  OBVIOUS
<1> QED BY <1>1, <1>2, <1>4, <1>5, <1>6, <1>7, Typed, HolderWrites DEF Replace, Keep

LEMMA MarkStagedKeeps ==
  ASSUME IInv, NEW a \in {"checker", "maintainer"}, MarkStaged(a)
  PROVE  IInv'
<1> DEFINE p == IF a = "maintainer" THEN "checked" ELSE "idle"
<1>1. a \in Actor /\ at[a] = "replaced" /\ p \in Place(a) /\ p \notin Working /\ Shape
  BY PlacesOf DEF MarkStaged, Actor, IInv, Working
<1>2. lock = a /\ ~Phased("applying") /\ job[a] \in Build
  BY <1>1 DEF Shape, HoldsLock, WorkersRely, Relies, Working
<1>3. ~Unresolved
  BY <1>1, <1>2 DEF Shape, UnresolvedIsApplying, Unresolved, SetupIsApplying
<1>4. at'[a] = p
  BY <1>1, Moves DEF MarkStaged, Release
<1>5. Relies(a)'
  BY <1>4 DEF Relies
<1>6. marker' \in [build : Build, phase : Phase] /\ marker'.phase = "staged"
  BY <1>2 DEF MarkStaged, Phase
<1>7. UNCHANGED <<package, tree, setup, exit, end>>
  BY DEF MarkStaged, installed
<1>8. UnresolvedIsApplying' /\ SetupIsApplying' /\ MarkerIsTrue'
  BY <1>3, <1>6, <1>7 DEF UnresolvedIsApplying, Unresolved, SetupIsApplying, MarkerIsTrue
<1>9. job' \in [Actor -> Build \cup {NULL}]
  BY <1>1, Jobs DEF MarkStaged
<1>10. a # "desktop"
  OBVIOUS
<1> HIDE DEF p
<1>11. Go(a, p) /\ lock' = NULL /\ UNCHANGED env
  BY DEF MarkStaged, Release, p
<1> QED BY <1>1, <1>2, <1>5, <1>6, <1>7, <1>8, <1>9, <1>10, <1>11, Typed, HolderWrites

LEMMA MarkApplyingKeeps ==
  ASSUME IInv, NEW a \in {"desktop", "maintainer", "helper"}, MarkApplying(a)
  PROVE  IInv'
<1>1. a \in Actor /\ at[a] = "admitted" /\ "marked" \in Place(a) /\ Shape
  BY PlacesOf DEF MarkApplying, Actor, IInv
<1>2. lock = a /\ Pending /\ ~Unresolved /\ job[a] = marker.build
  BY <1>1 DEF Shape, HoldsLock, WorkersRely, Relies, Working
<1>3. setup = NULL
  BY <1>2 DEF Unresolved
<1>4. at'[a] = "marked"
  BY <1>1, Moves DEF MarkApplying, Keep
<1>5. /\ marker' \in [build : Build, phase : Phase] /\ marker'.phase = "applying"
      /\ marker'.build = marker.build /\ marker' # NULL
  <2>1. marker \in [build : Build, phase : Phase] /\ marker # NULL
    BY <1>2, Typed DEF Pending
  <2>2. /\ marker' \in [build : Build, phase : Phase] /\ marker'.phase = "applying"
        /\ marker'.build = marker.build
    BY <2>1 DEF MarkApplying, Phase
  <2> QED BY <2>2, Recorded
<1>6. UNCHANGED <<package, tree, setup, exit, end, job>>
  BY DEF MarkApplying, installed
<1>7. Relies(a)'
  BY <1>2, <1>4, <1>5, <1>6 DEF Relies, Pending, Phased, Unresolved
<1>8. UnresolvedIsApplying' /\ SetupIsApplying' /\ MarkerIsTrue'
  BY <1>2, <1>3, <1>5, <1>6 DEF UnresolvedIsApplying, Unresolved, SetupIsApplying, MarkerIsTrue
<1> QED BY <1>1, <1>2, <1>5, <1>6, <1>7, <1>8, Typed, HolderWrites DEF MarkApplying, Keep

LEMMA RunSetupKeeps ==
  ASSUME IInv, NEW a \in {"desktop", "maintainer", "helper"}, RunSetup(a)
  PROVE  IInv'
<1>1. a \in Actor /\ at[a] = "stopped" /\ "waiting" \in Place(a) /\ Shape
  BY PlacesOf DEF RunSetup, Actor, IInv
<1>2. /\ lock = a /\ Pending /\ Phased("applying") /\ job[a] = marker.build
      /\ at["desktop"] \in {"off", "launched", "stopped"}
  BY <1>1 DEF Shape, HoldsLock, WorkersRely, Relies, Working
<1>3. at'[a] = "waiting" /\ \A x \in Actor : x # a => at'[x] = at[x]
  BY <1>1, Moves DEF RunSetup, Keep
<1>4. at'["desktop"] \in {"off", "launched", "waiting"}
  <2>1. CASE a = "desktop"
    BY <1>3, <2>1
  <2>2. CASE a # "desktop"
    <3>1. at["desktop"] # "stopped" /\ at'["desktop"] = at["desktop"]
      BY <1>2, <1>3, <2>2, OnlyHolder DEF Working, Actor
    <3> QED BY <1>2, <3>1
  <2> QED BY <2>1, <2>2
<1>5. setup' = package /\ end' = "unseen" /\ UNCHANGED <<marker, package, tree, exit, job>>
  BY DEF RunSetup
<1>10. exit' \in {0, 1} /\ end' \in {"seen", "unseen"}
  BY <1>5, Typed
<1>6. package \in Build /\ package # NULL
  BY <1>2, Typed, UpdateAssumption DEF Pending, Build
<1>7. Relies(a)'
  BY <1>2, <1>3, <1>5, <1>6 DEF Relies, Pending, Phased, Unresolved
<1>8. UnresolvedIsApplying' /\ SetupIsApplying'
  BY <1>2, <1>4, <1>5 DEF UnresolvedIsApplying, Unresolved, SetupIsApplying, Pending, Phased
<1>9. MarkerIsTrue'
  BY <1>2, <1>5 DEF MarkerIsTrue, Phased
<1> QED BY <1>1, <1>2, <1>4, <1>5, <1>6, <1>7, <1>8, <1>9, <1>10, Typed, HolderWrites DEF RunSetup, Keep

LEMMA FinishKeeps ==
  ASSUME IInv, NEW a \in {"desktop", "maintainer", "helper"}, Finish(a)
  PROVE  IInv'
<1> DEFINE p == IF Finished(a) THEN "off" ELSE Onward(a)
<1>1. a \in Actor /\ at[a] = "waiting" /\ p \in Place(a) /\ p \in {"off", "idle", "boot"} /\ Shape
  BY PlacesOf DEF Finish, Actor, IInv, Onward
<1>2. lock = a /\ Phased("applying") /\ job[a] = marker.build /\ setup = NULL
  BY <1>1 DEF Finish, Shape, HoldsLock, WorkersRely, Relies, Working
<1>3. at'[a] = p /\ p \notin Working
  BY <1>1, Moves DEF Finish, Release, Working
<1>4. Relies(a)'
  BY <1>1, <1>3 DEF Relies
<1>5. /\ marker' \in [build : Build, phase : Phase]
      /\ marker'.phase = "staged" \/ (marker'.phase = "awaiting_boot" /\ tree.id = marker'.build)
  <2>1. marker \in [build : Build, phase : Phase]
    BY <1>2, Typed DEF Phased
  <2> QED BY <1>2, <2>1 DEF Finish, Finished, Phase
<1>6. UNCHANGED <<package, tree, setup, exit>> /\ end' = "seen"
  BY DEF Finish
<1>7. UnresolvedIsApplying' /\ SetupIsApplying'
  BY <1>2, <1>6 DEF UnresolvedIsApplying, Unresolved, SetupIsApplying
<1>8. tree.id \in Int
  BY Typed DEF Build
<1>9. MarkerIsTrue'
  BY <1>5, <1>6, <1>8 DEF MarkerIsTrue
<1>10. job' \in [Actor -> Build \cup {NULL}]
  BY <1>1, Jobs DEF Finish
<1> HIDE DEF p
<1>11. Go(a, p) /\ lock' = NULL /\ UNCHANGED env
  BY DEF Finish, Release, p
<1>12. p \notin {"up", "open"}
  BY <1>1
<1>13. exit' \in {0, 1} /\ end' \in {"seen", "unseen"}
  BY <1>6, Typed
<1> QED BY <1>1, <1>2, <1>3, <1>4, <1>5, <1>6, <1>7, <1>9, <1>10, <1>11, <1>12, <1>13, Typed, HolderWrites

\* stop_runtime_processes: everything that runs from the install folder ends.
LEMMA StopRuntimeKeeps ==
  ASSUME IInv, NEW a \in {"desktop", "maintainer", "helper"}, StopRuntime(a)
  PROVE  IInv'
<1>1. a \in Actor /\ at[a] = "marked" /\ "stopped" \in Place(a) /\ Shape
  BY PlacesOf DEF StopRuntime, Actor, IInv
<1>2. lock = a /\ Pending /\ Phased("applying") /\ job[a] = marker.build /\ ~Unresolved
  BY <1>1 DEF Shape, HoldsLock, WorkersRely, Relies, Working
<1>3. UNCHANGED <<marker, package, tree, setup, exit, end, lock, job, latest, booted>>
  BY DEF StopRuntime, files, installed
<1>4. /\ at' \in [Actor -> Places] /\ \A x \in Actor : at'[x] \in Place(x)
      /\ at'[a] = "stopped" /\ at'["desktop"] \in {"off", "stopped"}
      /\ \A x \in Actor : x # a => at'[x] \in {"off", at[x]}
  BY <1>1, Typed, PlacesOf DEF StopRuntime, Stopped, Actor
<1>5. running' \in Build \cup {NULL}
  BY Typed DEF StopRuntime
<1>6. TypeOK' /\ Mapped'
  BY <1>3, <1>4, <1>5, Typed, TypesKept
<1>7. \A x \in Actor : x # a => at'[x] \notin Working
  BY <1>2, <1>4, OnlyHolder DEF Working
<1>8. HoldsLock'
  BY <1>2, <1>3, <1>7 DEF HoldsLock
<1>9. Relies(a)'
  BY <1>2, <1>3, <1>4 DEF Relies, Pending, Phased, Unresolved
<1>10. WorkersRely'
  BY <1>7, <1>9 DEF WorkersRely, Relies, Working
<1>11. UnresolvedIsApplying' /\ SetupIsApplying' /\ RunsInstalled' /\ MarkerIsTrue'
  BY <1>1, <1>2, <1>3, <1>4 DEF Shape, UnresolvedIsApplying, Unresolved, SetupIsApplying, RunsInstalled, MarkerIsTrue
<1> QED BY <1>6, <1>8, <1>10, <1>11 DEF IInv, Shape

-----------------------------------------------------------------------------
(* Setup, the launcher and the ends of processes. *)

\* While Setup runs nobody works but the actor that waits for it.
LEMMA SetupKeeps ==
  ASSUME IInv, SetupCopies \/ SetupEnds
  PROVE  IInv'
<1>1. /\ setup # NULL /\ Shape
      /\ UNCHANGED <<marker, package, end, lock, at, job, latest, running, booted>>
  BY DEF SetupCopies, SetupEnds, IInv, env
<1>2. /\ Unresolved /\ Phased("applying") /\ setup = marker.build /\ setup \in Build
      /\ marker.build > tree.id /\ at["desktop"] \in {"off", "launched", "waiting"}
  BY <1>1, Typed DEF Shape, SetupIsApplying, UnresolvedIsApplying, Unresolved
<1>3. /\ setup' \in {setup, NULL} /\ exit' \in {0, 1}
      /\ tree' \in [id : Build, whole : BOOLEAN]
      /\ tree'.id = tree.id \/ (tree'.whole /\ setup' = NULL)
  <2>1. tree \in [id : Build, whole : BOOLEAN] /\ exit \in {0, 1}
    BY Typed
  <2>2. setup' \in {setup, NULL} /\ exit' \in {0, 1}
    BY <2>1 DEF SetupCopies, SetupEnds
  <2>3. \/ UNCHANGED tree
        \/ tree' = [tree EXCEPT !.whole = FALSE]
        \/ tree' = [id |-> setup, whole |-> TRUE] /\ setup' = NULL
    BY DEF SetupCopies, SetupEnds
  <2>4. tree' \in [id : Build, whole : BOOLEAN]
    <3>1. CASE tree' = [tree EXCEPT !.whole = FALSE]
      BY <2>1, <3>1
    <3>2. CASE tree' = [id |-> setup, whole |-> TRUE]
      BY <1>2, <3>2
    <3> QED BY <2>1, <2>3, <3>1, <3>2
  <2>5. tree'.id = tree.id \/ (tree'.whole /\ setup' = NULL)
    <3>1. CASE tree' = [id |-> setup, whole |-> TRUE] /\ setup' = NULL
      BY <3>1
    <3>2. CASE UNCHANGED tree \/ tree' = [tree EXCEPT !.whole = FALSE]
      BY <2>1, <3>2
    <3> QED BY <2>3, <3>1, <3>2
  <2> QED BY <2>2, <2>4, <2>5
<1>4. TypeOK' /\ Mapped'
  BY <1>1, <1>2, <1>3, Typed, TypesKept
<1>5. HoldsLock'
  BY <1>1 DEF Shape, HoldsLock
<1>6. WorkersRely'
  BY <1>1, <1>2, <1>3 DEF Shape, WorkersRely, Relies, Phased
<1>7. UnresolvedIsApplying' /\ SetupIsApplying' /\ RunsInstalled' /\ MarkerIsTrue'
  BY <1>1, <1>2, <1>3 DEF Shape, UnresolvedIsApplying, Unresolved, SetupIsApplying, RunsInstalled,
                          MarkerIsTrue, Phased
<1> QED BY <1>4, <1>5, <1>6, <1>7 DEF IInv, Shape

LEMMA LaunchKeeps ==
  ASSUME IInv, Launch
  PROVE  IInv'
<1>1. Shape /\ UNCHANGED <<marker, package, tree, setup, exit, end, lock, job, latest, running, booted>>
  BY DEF Launch, IInv, files, installed, env
<1>2. /\ at' \in [Actor -> Places] /\ \A x \in Actor : at'[x] \in Place(x)
      /\ at'["desktop"] = "launched"
      /\ \A x \in Actor : at'[x] \in {"launched", "idle", at[x]}
      /\ \A x \in Actor : at'[x] \in Working => at'[x] = at[x]
  BY Typed, PlacesOf DEF Launch, Actor, Working
<1>3. TypeOK' /\ Mapped'
  BY <1>1, <1>2, Typed, TypesKept
<1>4. HoldsLock'
  BY <1>1, <1>2 DEF Shape, HoldsLock
<1>5. WorkersRely'
  <2> SUFFICES ASSUME NEW x \in Actor, at'[x] \in Working PROVE Relies(x)'
    BY DEF WorkersRely, Relies, Working
  <2>1. Relies(x) /\ at'[x] = at[x]
    BY <1>1, <1>2 DEF Shape, WorkersRely
  <2> QED BY <1>1, <1>2, <2>1 DEF Relies, Phased, Pending, Unresolved
<1>6. UnresolvedIsApplying' /\ SetupIsApplying' /\ RunsInstalled' /\ MarkerIsTrue'
  BY <1>1, <1>2 DEF Shape, UnresolvedIsApplying, Unresolved, SetupIsApplying, RunsInstalled, MarkerIsTrue, Phased
<1> QED BY <1>3, <1>4, <1>5, <1>6 DEF IInv, Shape

\* begin_update_boot lets no start pass over an attempt whose end nobody saw.
LEMMA PassesResolved ==
  ASSUME IInv, ~RefusesUnlocked
  PROVE  ~Unresolved
<1>1. Unresolved => Phased("applying") /\ marker.build > tree.id
  BY DEF IInv, Shape, UnresolvedIsApplying
<1>2. tree.id \in Int
  BY Typed DEF Build
<1>3. Phased("applying") => marker.build = tree.id
  BY StatusMeans DEF RefusesUnlocked, Matches
<1> QED BY <1>1, <1>2, <1>3

LEMMA BeginBootKeeps ==
  ASSUME IInv, BeginBoot
  PROVE  IInv'
<1>1. at["desktop"] = "launched" /\ "desktop" \in Actor /\ Shape
  BY DEF BeginBoot, IInv, Actor
<1>2. CASE Refuses
  <2>1. "off" \in Place("desktop")
    BY PlacesOf
  <2>2. Go("desktop", "off") /\ UNCHANGED <<lock, job>> /\ UNCHANGED files /\ UNCHANGED env
    BY <1>2 DEF BeginBoot, Keep, files, installed
  <2>3. Relies("desktop")'
    BY <1>1, <2>1, <2>2, Moves DEF Relies
  <2>4. \A x \in Actor : at[x] \in Working => lock' = x
    BY <1>1, <2>2 DEF Shape, HoldsLock
  <2> QED BY <1>1, <2>1, <2>2, <2>3, <2>4, Typed, Moved DEF Working
<1>3. CASE ~Refuses
  <2> DEFINE p == IF Status = "staged" THEN "ready" ELSE "boot"
  <2>1. lock = NULL /\ ~Unresolved
    BY <1>1, <1>3, PassesResolved DEF Refuses, Shape, SetupIsApplying
  <2>2. Go("desktop", p) /\ p \in Place("desktop") /\ p \in {"ready", "boot"}
    BY <1>3, PlacesOf DEF BeginBoot, Keep
  <2>3. UNCHANGED <<package, tree, setup, exit, end, lock, job, latest, running, booted>>
    BY DEF BeginBoot, installed, env, Keep
  <2>4. /\ at' \in [Actor -> Places] /\ at'["desktop"] = p
        /\ \A x \in Actor : x # "desktop" => at'[x] = at[x]
        /\ \A x \in Actor : at'[x] \in Place(x)
    BY <1>1, <2>2, Moves
  <2>5. ASSUME marker' # NULL => marker' \in [build : Build, phase : Phase], MarkerIsTrue'
        PROVE  IInv'
    <3>1. TypeOK' /\ Mapped'
      BY <2>3, <2>4, <2>5, Typed, TypesKept
    <3>2. \A x \in Actor : at'[x] \notin Working
      BY <2>1, <2>2, <2>4, FreeLock DEF Working
    <3>3. HoldsLock' /\ WorkersRely'
      BY <3>2 DEF HoldsLock, WorkersRely, Relies, Working
    <3>4. UnresolvedIsApplying' /\ SetupIsApplying' /\ RunsInstalled'
      BY <2>1, <2>2, <2>3, <2>4 DEF UnresolvedIsApplying, Unresolved, SetupIsApplying, RunsInstalled
    <3> QED BY <2>5, <3>1, <3>3, <3>4 DEF IInv, Shape
  <2>6. CASE Status \in {"applying", "awaiting_boot"}
    <3>1. marker' = [marker EXCEPT !.phase = "awaiting_boot"]
      BY <1>3, <2>6 DEF BeginBoot
    <3>2. marker # NULL /\ marker \in [build : Build, phase : Phase]
      BY <2>6, StatusMeans, Typed DEF Phased
    <3>3. /\ marker' \in [build : Build, phase : Phase] /\ marker'.phase = "awaiting_boot"
          /\ marker'.build = marker.build
      BY <3>1, <3>2 DEF Phase
    <3>4. tree.id >= marker.build
      <4>1. tree.id \in Int
        BY Typed DEF Build
      <4>2. CASE Status = "applying"
        <5>1. Matches
          BY <1>3, <4>2 DEF Refuses, RefusesUnlocked
        <5> QED BY <4>1, <5>1 DEF Matches
      <4>3. CASE Status = "awaiting_boot"
        BY <1>1, <3>2, <4>1, <4>3, StatusMeans DEF Shape, MarkerIsTrue, Matches, Phased
      <4> QED BY <2>6, <4>2, <4>3
    <3>5. MarkerIsTrue'
      BY <2>3, <3>3, <3>4 DEF MarkerIsTrue
    <3> QED BY <3>3, <3>5, <2>5
  <2>7. CASE Status \notin {"applying", "awaiting_boot"}
    <3>1. UNCHANGED marker
      BY <1>3, <2>7 DEF BeginBoot
    <3>2. MarkerIsTrue'
      BY <1>1, <2>3, <3>1 DEF Shape, MarkerIsTrue
    <3> QED BY <2>5, <3>1, <3>2, Typed
  <2> QED BY <2>6, <2>7
<1> QED BY <1>2, <1>3

LEMMA BootKeeps ==
  ASSUME IInv, Boot
  PROVE  IInv'
<1>1. Shape /\ at["desktop"] = "boot" /\ running' = tree.id
      /\ UNCHANGED <<marker, package, tree, setup, exit, end, lock, job, latest, booted>>
  BY DEF Boot, IInv, files, installed
<1>2. ~Unresolved /\ \A x \in Actor : at[x] # "stopped"
  BY <1>1 DEF Shape, UnresolvedIsApplying, Unresolved, SetupIsApplying, WorkersRely, Relies
<1>3. /\ at' \in [Actor -> Places] /\ \A x \in Actor : at'[x] \in Place(x)
      /\ \A x \in Actor : at'[x] \in Working => at'[x] = at[x]
  BY Typed, PlacesOf DEF Boot, Actor, Working
<1>4. TypeOK' /\ Mapped'
  BY <1>1, <1>3, Typed, TypesKept
<1>5. HoldsLock'
  BY <1>1, <1>3 DEF Shape, HoldsLock
<1>6. WorkersRely'
  <2> SUFFICES ASSUME NEW x \in Actor, at'[x] \in Working PROVE Relies(x)'
    BY DEF WorkersRely, Relies, Working
  <2>1. Relies(x) /\ at'[x] = at[x] /\ at[x] # "stopped"
    BY <1>1, <1>2, <1>3 DEF Shape, WorkersRely
  <2> QED BY <1>1, <2>1 DEF Relies, Phased, Pending, Unresolved
<1>7. UnresolvedIsApplying' /\ SetupIsApplying' /\ RunsInstalled' /\ MarkerIsTrue'
  BY <1>1, <1>2 DEF Shape, UnresolvedIsApplying, Unresolved, SetupIsApplying, RunsInstalled, MarkerIsTrue
<1> QED BY <1>4, <1>5, <1>6, <1>7 DEF IInv, Shape

\* confirm_boot: the build that is confirmed is the one that runs.
LEMMA ConfirmBootKeeps ==
  ASSUME IInv, ConfirmBoot
  PROVE  IInv'
<1>1. /\ Shape /\ at["desktop"] = "up" /\ running = tree.id
      /\ UNCHANGED <<package, tree, setup, exit, end, lock, job, latest, running>>
  BY DEF ConfirmBoot, IInv, Shape, RunsInstalled, Keep, installed
<1>2. ~Unresolved /\ \A x \in Actor : at[x] # "stopped"
  BY <1>1 DEF Shape, UnresolvedIsApplying, Unresolved, SetupIsApplying, WorkersRely, Relies
<1>3. "desktop" \in Actor /\ "open" \in Place("desktop") /\ Go("desktop", "open")
  BY PlacesOf DEF Actor, ConfirmBoot, Keep
<1>4. /\ at' \in [Actor -> Places] /\ at'["desktop"] = "open"
      /\ \A x \in Actor : x # "desktop" => at'[x] = at[x]
      /\ \A x \in Actor : at'[x] \in Place(x)
  BY <1>3, Moves
<1>5. ASSUME marker' # NULL => marker' \in [build : Build, phase : Phase],
             booted' \subseteq Build, MarkerIsTrue', WorkersRely'
      PROVE  IInv'
  <2>1. TypeOK' /\ Mapped'
    BY <1>1, <1>4, <1>5, Typed, TypesKept
  <2>2. \A x \in Actor : at'[x] \in Working => at'[x] = at[x]
    BY <1>4 DEF Working
  <2>3. HoldsLock'
    BY <1>1, <2>2 DEF Shape, HoldsLock
  <2>4. UnresolvedIsApplying' /\ SetupIsApplying' /\ RunsInstalled'
    BY <1>1, <1>2 DEF UnresolvedIsApplying, Unresolved, SetupIsApplying, RunsInstalled
  <2> QED BY <1>5, <2>1, <2>3, <2>4 DEF IInv, Shape
<1>6. CASE UNCHANGED <<marker, booted>>
  <2>1. WorkersRely'
    <3> SUFFICES ASSUME NEW x \in Actor, at'[x] \in Working PROVE Relies(x)'
      BY DEF WorkersRely, Relies, Working
    <3>1. Relies(x) /\ at'[x] = at[x] /\ at[x] # "stopped"
      BY <1>1, <1>2, <1>4 DEF Shape, WorkersRely, Working
    <3> QED BY <1>1, <1>6, <3>1 DEF Relies, Phased, Pending, Unresolved
  <2>2. MarkerIsTrue'
    BY <1>1, <1>6 DEF Shape, MarkerIsTrue
  <2> QED BY <1>5, <1>6, <2>1, <2>2, Typed
<1>7. CASE lock = NULL /\ booted' = booted \cup {running}
  <2>1. \A x \in Actor : at'[x] \notin Working
    BY <1>4, <1>7, FreeLock DEF Working
  <2>2. WorkersRely'
    BY <2>1 DEF WorkersRely, Relies, Working
  <2>3. booted' \subseteq Build
    BY <1>1, <1>7, Typed
  <2>4. CASE ~Confirmable
    <3>1. UNCHANGED marker
      BY <1>6, <1>7, <2>4 DEF ConfirmBoot
    <3>2. MarkerIsTrue'
      BY <1>1, <1>7, <3>1 DEF Shape, MarkerIsTrue
    <3> QED BY <1>5, <2>2, <2>3, <3>1, <3>2, Typed
  <2>5. CASE Confirmable /\ marker' = [marker EXCEPT !.phase = "confirmed"]
    <3>1. marker # NULL /\ marker \in [build : Build, phase : Phase] /\ marker.build = tree.id
      BY <2>5, Typed DEF Confirmable, Matches
    <3>2. /\ marker' \in [build : Build, phase : Phase] /\ marker'.phase = "confirmed"
          /\ marker'.build = tree.id
      BY <2>5, <3>1 DEF Phase
    <3>3. MarkerIsTrue'
      BY <1>1, <1>7, <3>2 DEF MarkerIsTrue
    <3> QED BY <1>5, <2>2, <2>3, <3>2, <3>3
  <2> QED BY <1>6, <2>4, <2>5 DEF ConfirmBoot
<1> QED BY <1>6, <1>7 DEF ConfirmBoot

\* Processes end: whoever held the lock no longer does, and nobody goes on.
LEMMA EndsKeep ==
  ASSUME IInv, UNCHANGED <<marker, package, tree, exit, end, latest, booted>>,
         at' \in [Actor -> Places], job' \in [Actor -> Build \cup {NULL}],
         \A x \in Actor : at'[x] \in Place(x),
         \A x \in Actor : at'[x] \in {at[x], "off", "launched"},
         at'["desktop"] \in {at["desktop"], "off"},
         \A x \in Actor : at'[x] \in Working => lock' = lock /\ job'[x] = job[x],
         lock' \in {lock, NULL}, running' \in {running, NULL},
         at'["desktop"] # "off" => running' = running,
         setup' = setup \/ (setup' = NULL /\ \A x \in Actor : at'[x] = "off")
  PROVE  IInv'
<1>1. Shape /\ "desktop" \in Actor
  BY DEF IInv, Actor
<1>2. TypeOK' /\ Mapped'
  BY Typed, TypesKept
<1>3. \A x \in Actor : at'[x] \in Working => at'[x] = at[x]
  BY DEF Working
<1>4. HoldsLock'
  BY <1>1, <1>3 DEF Shape, HoldsLock
<1>5. WorkersRely'
  <2> SUFFICES ASSUME NEW x \in Actor, at'[x] \in Working PROVE Relies(x)'
    BY DEF WorkersRely, Relies, Working
  <2>1. Relies(x) /\ at'[x] = at[x] /\ job'[x] = job[x] /\ setup' = setup
    BY <1>1, <1>3 DEF Shape, WorkersRely, Working
  <2> QED BY <2>1 DEF Relies, Phased, Pending, Unresolved
<1>6. UnresolvedIsApplying' /\ SetupIsApplying' /\ RunsInstalled' /\ MarkerIsTrue'
  BY <1>1 DEF Shape, UnresolvedIsApplying, Unresolved, SetupIsApplying, RunsInstalled, MarkerIsTrue, Phased
<1> QED BY <1>2, <1>4, <1>5, <1>6 DEF IInv, Shape

LEMMA QuitKeeps ==
  ASSUME IInv, Quit
  PROVE  IInv'
<1>1. UNCHANGED <<marker, package, tree, setup, exit, end, latest, booted>>
  BY DEF Quit, files, installed
<1>2. PICK h \in {at["helper"], "launched"} :
        /\ Closing(h) /\ (h # at["helper"] => at["helper"] = "off")
  BY DEF Quit
<1>3. /\ at' \in [Actor -> Places] /\ \A x \in Actor : at'[x] \in Place(x)
      /\ \A x \in Actor : at'[x] \in {at[x], "off", "launched"}
      /\ at'["desktop"] = "off" /\ at'["checker"] = "off"
  BY <1>2, Typed, PlacesOf DEF Closing, Actor
<1>4. /\ job' \in [Actor -> Build \cup {NULL}]
      /\ \A x \in Actor : x # "checker" => job'[x] = job[x]
  BY <1>2, Typed DEF Closing
<1>5. \A x \in Actor : at'[x] \in Working => at[x] = at'[x] /\ x # "checker"
  BY <1>3 DEF Working
<1>6. \A x \in Actor : at'[x] \in Working => lock' = lock /\ job'[x] = job[x]
  BY <1>2, <1>4, <1>5 DEF Closing, IInv, Shape, HoldsLock
<1>7. lock' \in {lock, NULL} /\ running' = NULL
  BY <1>2 DEF Closing
<1> QED BY <1>1, <1>3, <1>4, <1>6, <1>7, EndsKeep

LEMMA DieKeeps ==
  ASSUME IInv, NEW D \in SUBSET Actor, Die(D), UNCHANGED <<marker, package, tree, exit, end, latest, booted>>,
         setup' = setup \/ (setup' = NULL /\ D = Actor)
  PROVE  IInv'
<1>1. /\ at' \in [Actor -> Places] /\ \A x \in Actor : at'[x] \in Place(x)
      /\ \A x \in Actor : at'[x] = IF x \in D THEN "off" ELSE at[x]
  BY Typed, PlacesOf DEF Die, Actor
<1>2. /\ job' \in [Actor -> Build \cup {NULL}]
      /\ \A x \in Actor : x \notin D => job'[x] = job[x]
  BY Typed DEF Die
<1>3. \A x \in Actor : at'[x] \in Working => lock' = lock /\ job'[x] = job[x]
  BY <1>1, <1>2 DEF Die, IInv, Shape, HoldsLock, Working
<1>4. lock' \in {lock, NULL} /\ running' \in {running, NULL} /\ "desktop" \in Actor
  BY DEF Die, Actor
<1>5. at'["desktop"] # "off" => running' = running
  BY <1>1, <1>4 DEF Die
<1> QED BY <1>1, <1>2, <1>3, <1>4, <1>5, EndsKeep

LEMMA OthersKeep ==
  ASSUME IInv, Publish \/ ManualInstall
  PROVE  IInv'
<1>1. CASE Publish
  <2>1. /\ latest' \in Build \cup {NULL} /\ Shape
        /\ UNCHANGED <<marker, package, tree, setup, exit, end, lock, at, job, running, booted>>
    BY <1>1 DEF Publish, files, installed, IInv
  <2>2. TypeOK' /\ Mapped'
    BY <2>1, Typed, TypesKept
  <2>3. Shape'
    BY <2>1 DEF Shape, UnresolvedIsApplying, Unresolved, SetupIsApplying, HoldsLock, WorkersRely, Relies, Phased,
                Pending, RunsInstalled, MarkerIsTrue
  <2> QED BY <2>2, <2>3 DEF IInv
<1>2. CASE ManualInstall
  <2>1. /\ Shape /\ lock = NULL /\ setup = NULL /\ at["desktop"] = "off"
        /\ UNCHANGED <<marker, package, setup, exit, end, lock, at, job, latest, running, booted>>
    BY <1>2 DEF ManualInstall, IInv, env
  <2>2. tree' \in [id : Build, whole : BOOLEAN] /\ tree'.whole /\ tree'.id >= tree.id
    BY <1>2 DEF ManualInstall
  <2>3. TypeOK' /\ Mapped'
    BY <2>1, <2>2, Typed, TypesKept
  <2>4. HoldsLock' /\ WorkersRely'
    BY <2>1, FreeLock DEF HoldsLock, WorkersRely, Relies, Working
  <2>5. UnresolvedIsApplying' /\ SetupIsApplying' /\ RunsInstalled'
    BY <2>1, <2>2 DEF UnresolvedIsApplying, Unresolved, SetupIsApplying, RunsInstalled
  <2>6. marker # NULL => marker.build \in Int
    BY Typed DEF Build
  <2>7. tree.id \in Int /\ tree'.id \in Int
    BY <2>2, Typed DEF Build
  <2>8. MarkerIsTrue'
    BY <2>1, <2>2, <2>6, <2>7 DEF Shape, MarkerIsTrue
  <2> QED BY <2>3, <2>4, <2>5, <2>8 DEF IInv, Shape
<1> QED BY <1>1, <1>2

-----------------------------------------------------------------------------
(* The theorems. *)

LEMMA InitIInv == Init => IInv
<1> SUFFICES ASSUME Init PROVE IInv
  OBVIOUS
<1>1. 1 \in Build
  BY UpdateAssumption DEF Build
<1>2. at \in [Actor -> Places] /\ \A a \in Actor : at[a] = "off" /\ at[a] \in Place(a)
  BY PlacesOf DEF Init, Actor
<1>3. TypeOK /\ Mapped
  BY <1>1, <1>2 DEF Init, TypeOK, Mapped
<1>4. "desktop" \in Actor
  BY DEF Actor
<1>5. Shape
  BY <1>2, <1>4 DEF Init, Shape, UnresolvedIsApplying, Unresolved, SetupIsApplying, HoldsLock, Working, WorkersRely, Relies,
                    RunsInstalled, MarkerIsTrue
<1> QED BY <1>3, <1>5 DEF IInv

LEMMA NextIInv == IInv /\ [Next]_vars => IInv'
<1> SUFFICES ASSUME IInv, [Next]_vars PROVE IInv'
  OBVIOUS
<1>1. CASE UNCHANGED vars
  BY <1>1 DEF vars, IInv, TypeOK, Mapped, Shape, UnresolvedIsApplying, Unresolved, SetupIsApplying, HoldsLock,
              WorkersRely, Relies, Phased, Pending, Unresolved, RunsInstalled, MarkerIsTrue
<1>2. ASSUME NEW a \in {"checker", "maintainer"}, StageStep(a) \/ DownloadFails(a)
      PROVE  IInv'
  <2>1. a \in Actor
    BY DEF Actor
  <2> QED BY <1>2, <2>1, StageCheckKeeps, ReplaceKeeps, MarkStagedKeeps, FailuresKeep DEF StageStep
<1>3. ASSUME NEW a \in {"desktop", "maintainer", "helper"}, ApplyStep(a) \/ ApplyRaises(a)
      PROVE  IInv'
  <2>1. a \in Actor /\ a # "checker"
    BY DEF Actor
  <2> QED BY <1>3, <2>1, AdmitKeeps, MarkApplyingKeeps, StopRuntimeKeeps, RunSetupKeeps, FinishKeeps,
             FailuresKeep DEF ApplyStep
<1>4. ASSUME NEW a \in Actor, Crash(a) PROVE IInv'
  <2>1. Dead(a) \in SUBSET Actor /\ Die(Dead(a))
    BY <1>4 DEF Dead, Actor, Crash
  <2>2. UNCHANGED <<marker, package, tree, setup, exit, end, latest, booted>>
    BY <1>4 DEF Crash, files, installed
  <2> QED BY <2>1, <2>2, DieKeeps
<1>5. CASE PowerLoss
  BY <1>5, DieKeeps DEF PowerLoss
<1>6. CASE LauncherStep
  BY <1>6, BeginBootKeeps, BootKeeps, ConfirmBootKeeps DEF LauncherStep
<1> QED BY <1>1, <1>2, <1>3, <1>4, <1>5, <1>6, DecidesKeeps, LaunchKeeps, QuitKeeps, SetupKeeps,
           OthersKeep DEF Next

\* No variable ever leaves its type, wherever processes die.
THEOREM TypeCorrect == Spec => []TypeOK
<1>1. IInv => TypeOK
  BY DEF IInv
<1> QED BY <1>1, InitIInv, NextIInv, PTL DEF Spec

\* begin_update_boot never lets a window open over half-copied code of an attempt
\* whose end nobody saw.
THEOREM NeverPartialBoot == Spec => []NoPartialBoot
<1>1. IInv => NoPartialBoot
  BY Typed DEF IInv, Shape, UnresolvedIsApplying, Unresolved, NoPartialBoot
<1> QED BY <1>1, InitIInv, NextIInv, PTL DEF Spec

\* What the marker says of installed and confirmed builds is so.
THEOREM MarkerAlwaysTrue == Spec => []MarkerIsTrue
<1>1. IInv => MarkerIsTrue
  BY DEF IInv, Shape
<1> QED BY <1>1, InitIInv, NextIInv, PTL DEF Spec

\* apply_staged starts Setup once at a time, over no attempt whose end nobody saw,
\* with the bytes the marker names, and never backwards.
THEOREM SetupAlwaysSafe == Spec => SetupIsSafe
<1>1. ASSUME IInv, Next, setup' # NULL, setup' # setup
      PROVE  setup = NULL /\ (tree.whole \/ end = "seen") /\ marker.build = setup' /\ setup' > tree.id
  <2>1. PICK a \in {"desktop", "maintainer", "helper"} : RunSetup(a)
    BY <1>1 DEF Next, StageStep, StageCheck, DownloadFails, Replace, MarkStaged, ApplyStep, Admit, MarkApplying,
                StopRuntime, ApplyRaises, Finish, MaintainerDecides, HelperDecides, Launch, LauncherStep,
                BeginBoot, Boot, ConfirmBoot, Quit, SetupCopies,
                SetupEnds, Crash, PowerLoss, Publish, ManualInstall, files, installed
  <2>2. a \in Actor /\ at[a] = "stopped" /\ setup' = package
    BY <2>1 DEF RunSetup, Actor
  <2>3. Pending /\ setup = NULL /\ (tree.whole \/ end = "seen")
    BY <1>1, <2>2, Typed DEF IInv, Shape, WorkersRely, Relies, Unresolved
  <2> QED BY <2>2, <2>3 DEF Pending
<1>2. IInv /\ [Next]_vars =>
        [(setup' # NULL /\ setup' # setup) =>
           /\ setup = NULL /\ (tree.whole \/ end = "seen")
           /\ marker.build = setup' /\ setup' > tree.id]_vars
  BY <1>1
<1> QED BY <1>2, InitIInv, NextIInv, PTL DEF Spec, SetupIsSafe
=============================================================================
