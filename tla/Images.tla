------------------------------- MODULE Images -------------------------------
(***************************************************************************)
(* The image store of a node and the custom image builds                   *)
(* (runtime/image.rs, runtime/build.rs and their callers in                *)
(* runtime/mod.rs).                                                        *)
(*                                                                         *)
(* images/<id>/<serial>/ holds one version of an image and                 *)
(* images/<id>/current is a symbolic link to the one offered.  Official    *)
(* versions come from the manifest that a task of the agent fetches every  *)
(* six hours, custom versions from builds, which boot a temporary instance *)
(* and copy its disk.  An instance is mounted over the version it was      *)
(* created from for as long as it lives; versions nobody needs are         *)
(* collected after each sync and after each removal of a custom image.     *)
(*                                                                         *)
(* Actors: the refresh task (sync, then collection), the panel's requests  *)
(* (settings, removal, starting a build), the build task, the lifecycle    *)
(* commands of the instances, and the agent's restart.  Only collection    *)
(* and the claim of a version by a new instance exclude each other (the    *)
(* allocation lock).                                                       *)
(***************************************************************************)
EXTENDS Naturals, FiniteSets

CONSTANTS
    Images,         \* image ids
    Official,       \* the ones the manifest lists
    Vms,            \* instances of tenants
    Choices,        \* the sets of disabled images a settings request may ask for
    MaxPublished,   \* bound: official serials are 1..MaxPublished
    MaxBuilds,      \* bound: builds started
    MaxOps,         \* bound: creates, builds and settings requests
    MaxFailures     \* bound: restarts of the agent, and downloads, steps of a build,
                    \* removals and reads that fail

NoRec == [image |-> "none", serial |-> 0]
NoImage == "none"

\* A build and the temporary instance it boots have the same number.
Builders == 1..MaxBuilds

\* A custom version's serial is the time of its build: newer than the last one.
CustomSerial(b) == MaxPublished + b
IsCustom(s) == s > MaxPublished
Serials == 1..(MaxPublished + MaxBuilds)
Versions == [image : Images, serial : Serials]

ASSUME ImagesAssumption ==
    /\ Official \subseteq Images /\ Choices \subseteq SUBSET Images
    /\ {NoImage, ".staging"} \cap Images = {}
    /\ Vms \cap Builders = {}
    /\ MaxPublished \in Nat \ {0} /\ MaxBuilds \in Nat \ {0}
    /\ MaxOps \in Nat /\ MaxFailures \in Nat

VARIABLES
    home,       \* image directories that exist
    dirs,       \* the versions in each
    current,    \* what each `current` link names, 0 if there is none
    staging,    \* download directories: "live" (the sync's), "left" (of a crash)
    trees,      \* copies of builds: "live", "left"
    disabled,   \* settings.json
    published,  \* the manifest on the release server
    rec,        \* the version each instance or builder is mounted on
    creating,   \* creates between their checks and their claim
    sync,       \* the refresh task
    gc,         \* the collection in progress (it holds the allocation lock)
    build,      \* the build task (it holds Builds.running)
    list,       \* builds.json: the state of each build
    removing,   \* the custom image of a removal that is about to collect
    failed,     \* builders whose creation failed half-way or whose removal failed
    blind,      \* a collection ran although the records could not be read
    ops, failures

store == <<home, dirs, current, staging, trees>>
panel == <<disabled, removing>>
counters == <<ops, failures>>
imagesVars == <<store, panel, published, rec, creating, sync, gc, build, list,
          failed, blind, counters>>

NoSync == [pc |-> "idle", todo |-> {}, at |-> NoImage, want |-> 0]
NoGc == [by |-> "none", used |-> {}, todo |-> {}, at |-> NoImage, cur |-> 0]
NoBuild == [pc |-> "no", b |-> 0, image |-> NoImage, base |-> NoImage, ok |-> TRUE]

ImagesTypeOK ==
    /\ home \subseteq Images
    /\ dirs \in [Images -> SUBSET Serials]
    /\ current \in [Images -> Serials \cup {0}]
    /\ staging \subseteq {"live", "left"} /\ trees \subseteq {"live", "left"}
    /\ disabled \subseteq Images
    /\ published \in [Official -> 1..MaxPublished]
    /\ rec \in [Vms \cup Builders -> Versions \cup {NoRec}]
    /\ creating \in [Vms -> Images \cup {NoImage}]
    /\ sync = [pc |-> sync.pc, todo |-> sync.todo, at |-> sync.at, want |-> sync.want]
    /\ sync.pc \in {"init", "doom", "idle", "entry", "fetch", "switch", "end", "gc"}
    /\ sync.todo \subseteq IF sync.pc = "doom" THEN Builders ELSE Official
    /\ sync.pc \in {"entry", "fetch", "switch"} => sync.want \in [Official -> 1..MaxPublished]
    /\ sync.pc \in {"fetch", "switch"} => sync.at \in Official
    /\ gc \in [by : {"none", "refresh", "panel"}, used : SUBSET Versions,
               todo : SUBSET (Images \cup {".staging"}), at : Images \cup {NoImage},
               cur : Serials \cup {0}]
    /\ build \in [pc : {"no", "create", "run", "install", "switch", "delete", "end"},
                  b : Builders \cup {0}, image : Images \cup {NoImage},
                  base : Images \cup {NoImage}, ok : BOOLEAN]
    /\ build.pc # "no" => build.b # 0 /\ NoImage \notin {build.image, build.base}
    /\ list \in [Builders -> {"none", "running", "succeeded", "failed"}]
    /\ removing \in Images \cup {NoImage}
    /\ failed \subseteq Builders
    /\ blind \in BOOLEAN
    /\ ops \in 0..MaxOps /\ failures \in 0..MaxFailures

\* A fresh installation without any image, or a node that has run for a while: every
\* official image in its first version, the others as the first build left them, and
\* instances on any of them.
ImagesInit ==
    /\ \E used \in BOOLEAN :
        LET first(i) == IF i \in Official THEN 1 ELSE CustomSerial(1)
            layers == {[image |-> i, serial |-> first(i)] : i \in Images}
        IN /\ home = IF used THEN Images ELSE {}
           /\ dirs = [i \in Images |-> IF used THEN {first(i)} ELSE {}]
           /\ current = [i \in Images |-> IF used THEN first(i) ELSE 0]
           /\ list = [b \in Builders |-> IF used /\ b = 1 THEN "succeeded" ELSE "none"]
           /\ rec \in [Vms \cup Builders -> {NoRec} \cup IF used THEN layers ELSE {}]
           /\ \A b \in Builders : rec[b] = NoRec
    /\ staging = {} /\ trees = {} /\ disabled = {} /\ failed = {}
    /\ published = [i \in Official |-> 1]
    /\ creating = [v \in Vms |-> NoImage]
    /\ sync = [NoSync EXCEPT !.pc = "init"]
    /\ gc = NoGc
    /\ build = NoBuild
    /\ removing = NoImage
    /\ blind = FALSE
    /\ ops = 0 /\ failures = 0

-----------------------------------------------------------------------------
(* Looking an image up.                                                    *)

\* ImageStore::get: the link resolves to a version with its meta.json.
Resolved(i) == IF current[i] \in dirs[i] THEN current[i] ELSE 0
Ready == {i \in Images : Resolved(i) # 0}

\* The layer of a new instance; none if the image is not available.
Claim(i) == IF i \in Ready THEN [image |-> i, serial |-> Resolved(i)] ELSE NoRec

\* ImageStore::enabled, ImageStore::is_enabled (which only reads the settings).
Enabled == Ready \ disabled
IsEnabled(i) == i \notin disabled

Failure == failures < MaxFailures /\ failures' = failures + 1
Request == ops < MaxOps /\ ops' = ops + 1

\* std's mutex `alloc`, held by a collection; a claim is one step.
AllocFree == gc.by = "none"

-----------------------------------------------------------------------------
(* The refresh task: init, then sync and collection for ever.              *)

\* The release server publishes a new version of an image (during a sync it would
\* change nothing until the next one: the manifest is read once).
Publish(i) ==
    /\ sync.pc = "idle"
    /\ published[i] < MaxPublished
    /\ published' = [published EXCEPT ![i] = @ + 1]
    /\ UNCHANGED <<store, panel, rec, creating, sync, gc, build, list, failed, blind, counters>>

\* Runtime::init lists the builders left by interrupted builds ...
InitScan ==
    /\ sync.pc = "init"
    /\ sync' = [sync EXCEPT !.pc = "doom", !.todo = {b \in Builders : rec[b] # NoRec}]
    /\ UNCHANGED <<store, panel, published, rec, creating, gc, build, list, failed, blind, counters>>

\* ... and deletes them one by one under their own locks; the panel already
\* serves, so a build of its own may be among them.  A failure is only logged.
InitDelete(b) ==
    /\ sync.pc = "doom" /\ b \in sync.todo
    /\ ~(build.b = b /\ build.pc = "create")
    /\ sync' = [sync EXCEPT !.todo = @ \ {b}]
    /\ \/ rec' = [rec EXCEPT ![b] = NoRec] /\ failed' = failed \ {b}
       \/ failed' = failed \cup {b} /\ UNCHANGED rec
    /\ UNCHANGED <<store, panel, published, creating, gc, build, list, blind, counters>>

InitDone ==
    /\ sync.pc = "doom" /\ sync.todo = {}
    /\ sync' = NoSync
    /\ UNCHANGED <<store, panel, published, rec, creating, gc, build, list, failed, blind, counters>>

\* ImageStore::sync: a staging directory and the manifest, or nothing this time.
SyncStart ==
    /\ sync.pc = "idle"
    /\ \/ /\ sync' = [NoSync EXCEPT !.pc = "entry", !.todo = Official, !.want = published]
          /\ staging' = staging \cup {"live"}
          /\ UNCHANGED failures
       \/ Failure /\ sync' = [NoSync EXCEPT !.pc = "end"] /\ staging' = staging \cup {"live"}
    /\ UNCHANGED <<home, dirs, current, trees, panel, published, rec, creating, gc,
                   build, list, failed, blind, ops>>

\* One manifest entry: a version whose meta.json is there is not downloaded again.
SyncEntryByLink(i) ==
    /\ sync.pc = "entry" /\ i \in sync.todo
    /\ sync' = [sync EXCEPT !.at = i, !.todo = @ \ {i},
                    !.pc = IF current[i] = sync.want[i] THEN "switch" ELSE "fetch"]
    /\ UNCHANGED <<store, panel, published, rec, creating, gc, build, list, failed, blind, counters>>

SyncEntry(i) ==
    /\ sync.pc = "entry" /\ i \in sync.todo
    /\ sync' = [sync EXCEPT !.at = i, !.todo = @ \ {i},
                    !.pc = IF sync.want[i] \in dirs[i] THEN "switch" ELSE "fetch"]
    /\ UNCHANGED <<store, panel, published, rec, creating, gc, build, list, failed, blind, counters>>

\* fetch_entry: download, verify, unpack into the staging directory, and rename.
FetchEntry ==
    /\ sync.pc = "fetch" /\ "live" \in staging
    /\ dirs' = [dirs EXCEPT ![sync.at] = @ \cup {sync.want[sync.at]}]
    /\ home' = home \cup {sync.at}
    /\ sync' = [sync EXCEPT !.pc = "switch"]
    /\ UNCHANGED <<current, staging, trees, panel, published, rec, creating, gc, build,
                   list, failed, blind, counters>>

\* A failed download, or a staging directory that a collection took away, skips
\* the entry until the next sync.
FetchFails ==
    /\ sync.pc = "fetch"
    /\ \/ "live" \notin staging /\ UNCHANGED failures
       \/ "live" \in staging /\ Failure
    /\ sync' = [sync EXCEPT !.pc = "entry"]
    /\ UNCHANGED <<store, panel, published, rec, creating, gc, build, list, failed,
                   blind, ops>>

\* replace_symlink; without the image's directory the whole sync fails.
SyncSwitch ==
    /\ sync.pc = "switch"
    /\ IF sync.at \in home
       THEN /\ current' = [current EXCEPT ![sync.at] = sync.want[sync.at]]
            /\ sync' = [sync EXCEPT !.pc = "entry"]
       ELSE /\ sync' = [sync EXCEPT !.pc = "end"]
            /\ UNCHANGED current
    /\ UNCHANGED <<home, dirs, staging, trees, panel, published, rec, creating, gc, build,
                   list, failed, blind, counters>>

\* The staging directory goes, whatever happened; the collection follows.
SyncEnd ==
    /\ sync.pc = "end" \/ (sync.pc = "entry" /\ sync.todo = {})
    /\ staging' = staging \ {"live"}
    /\ sync' = [NoSync EXCEPT !.pc = "gc"]
    /\ UNCHANGED <<home, dirs, current, trees, panel, published, rec, creating, gc, build,
                   list, failed, blind, counters>>

-----------------------------------------------------------------------------
(* Collection.                                                             *)

\* Who may call gc_images now: the refresh task, and a removal request.
Caller(by) == IF by = "refresh" THEN sync.pc = "gc" ELSE removing # NoImage

\* The layers gc_images passes on; none when the records cannot be read.
Layers == {rec[v] : v \in DOMAIN rec} \ {NoRec}

\* The entries of images/; read_dir gives them in any order.
GcTodo == home \cup (IF staging = {} THEN {} ELSE {".staging"})

GcStart(by) ==
    /\ AllocFree /\ Caller(by)
    /\ \/ /\ gc' = [NoGc EXCEPT !.by = by, !.todo = GcTodo, !.used = Layers]
          /\ UNCHANGED <<blind, failures>>
       \/ Failure /\ blind' = TRUE /\ gc' = [NoGc EXCEPT !.by = by, !.todo = GcTodo]
    /\ UNCHANGED <<store, panel, published, rec, creating, sync, build, list, failed,
                   ops>>

\* Every staging directory is taken for the leftover of an interrupted download.
GcStaging ==
    /\ gc.by # "none" /\ gc.at = NoImage /\ ".staging" \in gc.todo
    /\ staging' = {}
    /\ gc' = [gc EXCEPT !.todo = @ \ {".staging"}]
    /\ UNCHANGED <<home, dirs, current, trees, panel, published, rec, creating, sync, build,
                   list, failed, blind, counters>>

\* What `current` resolves to is read before the versions are listed.
GcLook(i) ==
    /\ gc.by # "none" /\ gc.at = NoImage /\ i \in gc.todo
    /\ gc' = [gc EXCEPT !.todo = @ \ {i}, !.at = i, !.cur = Resolved(i)]
    /\ UNCHANGED <<store, panel, published, rec, creating, sync, build, list, failed, blind, counters>>

\* The versions of image i that stay.
Kept(i) == {s \in dirs[i] : s = gc.cur \/ [image |-> i, serial |-> s] \in gc.used}

\* The mutated form passes over an image without a current version.
GcSweepOffered ==
    /\ gc.at # NoImage
    /\ dirs' = IF gc.cur = 0 THEN dirs ELSE [dirs EXCEPT ![gc.at] = Kept(gc.at)]
    /\ gc' = [gc EXCEPT !.at = NoImage, !.cur = 0]
    /\ UNCHANGED <<home, current, staging, trees, panel, published, rec, creating, sync,
                   build, list, failed, blind, counters>>

\* Unused versions are removed; so is the directory of an image that has no
\* current version and no version in use.
GcSweep ==
    /\ gc.at # NoImage
    /\ LET i == gc.at
           gone == Kept(i) = {} /\ gc.cur = 0
       IN /\ dirs' = [dirs EXCEPT ![i] = Kept(i)]
          /\ home' = IF gone THEN home \ {i} ELSE home
          /\ current' = IF gone THEN [current EXCEPT ![i] = 0] ELSE current
    /\ gc' = [gc EXCEPT !.at = NoImage, !.cur = 0]
    /\ UNCHANGED <<staging, trees, panel, published, rec, creating, sync, build, list,
                   failed, blind, counters>>

GcEnd ==
    /\ gc.by # "none" /\ gc.at = NoImage /\ gc.todo = {}
    /\ gc' = NoGc
    /\ sync' = IF gc.by = "refresh" THEN NoSync ELSE sync
    /\ removing' = IF gc.by = "panel" THEN NoImage ELSE removing
    /\ UNCHANGED <<store, disabled, published, rec, creating, build, list,
                   failed, blind, counters>>

-----------------------------------------------------------------------------
(* Instances: create (and reinstall), delete.                              *)

\* create_locked refuses a disabled image before anything is touched.
CreateCheck(v, i) ==
    /\ Request
    /\ creating[v] = NoImage /\ IsEnabled(i)
    /\ creating' = [creating EXCEPT ![v] = i]
    /\ UNCHANGED <<store, panel, published, rec, sync, gc, build, list, failed,
                   blind, failures>>

\* An existing instance is deleted first.
CreateReplace(v) ==
    /\ creating[v] # NoImage /\ rec[v] # NoRec
    /\ rec' = [rec EXCEPT ![v] = NoRec]
    /\ UNCHANGED <<store, panel, published, creating, sync, gc, build, list, failed, blind, counters>>

\* The mutated form looks the image up and claims it without the allocation lock.
CreateClaimUnlocked(v) ==
    /\ creating[v] # NoImage /\ rec[v] = NoRec
    /\ rec' = [rec EXCEPT ![v] = Claim(creating[v])]
    /\ creating' = [creating EXCEPT ![v] = NoImage]
    /\ UNCHANGED <<store, panel, published, sync, gc, build, list, failed, blind, counters>>

\* The current version is looked up and claimed under the allocation lock.
CreateClaim(v) ==
    /\ creating[v] # NoImage /\ rec[v] = NoRec /\ AllocFree
    /\ rec' = [rec EXCEPT ![v] = Claim(creating[v])]
    /\ creating' = [creating EXCEPT ![v] = NoImage]
    /\ UNCHANGED <<store, panel, published, sync, gc, build, list, failed, blind, counters>>

Delete(v) ==
    /\ creating[v] = NoImage /\ rec[v] # NoRec
    /\ rec' = [rec EXCEPT ![v] = NoRec]
    /\ UNCHANGED <<store, panel, published, creating, sync, gc, build, list, failed,
                   blind, counters>>

-----------------------------------------------------------------------------
(* Builds.                                                                 *)

\* validate_build: an official image is not replaced, the base is there.
ValidBuild(i, base) ==
    /\ i \in Ready => IsCustom(Resolved(i))
    /\ base \in Ready

\* start_build: validated, then the lock that one build at a time holds.
StartBuild(i, base) ==
    /\ Request
    /\ ValidBuild(i, base)
    /\ build.pc = "no"
    /\ \E b \in Builders :
        /\ list[b] = "none" /\ \A c \in Builders : c < b => list[c] # "none"
        /\ list' = [list EXCEPT ![b] = "running"]
        /\ build' = [pc |-> "create", b |-> b, image |-> i, base |-> base, ok |-> TRUE]
    /\ UNCHANGED <<store, panel, published, rec, creating, sync, gc, failed, blind, failures>>

\* run_build looks its base up and creates the temporary instance, which looks it
\* up again under the allocation lock; an image that went away ends the build.
BuildCreate ==
    /\ build.pc = "create" /\ AllocFree
    /\ rec' = [rec EXCEPT ![build.b] = Claim(build.base)]
    /\ build' = IF build.base \in Ready THEN [build EXCEPT !.pc = "run"]
                ELSE [build EXCEPT !.pc = "end", !.ok = FALSE]
    /\ UNCHANGED <<store, panel, published, creating, sync, gc, list, failed, blind, counters>>

\* A disk that cannot be prepared leaves nothing; a ruleset or a unit that fails
\* leaves the record, and run_build returns before its delete.
BuildCreateFails ==
    /\ build.pc = "create" /\ AllocFree /\ build.base \in Ready /\ Failure
    /\ \/ UNCHANGED <<rec, failed>>
       \/ /\ rec' = [rec EXCEPT ![build.b] = Claim(build.base)]
          /\ failed' = failed \cup {build.b}
    /\ build' = [build EXCEPT !.pc = "end", !.ok = FALSE]
    /\ UNCHANGED <<store, panel, published, creating, sync, gc, list, blind, ops>>

\* build_in: wait for the network, run the script, clean up, power off, and copy the
\* root filesystem.
BuildRun ==
    /\ build.pc = "run" /\ rec[build.b] # NoRec
    /\ trees' = trees \cup {"live"}
    /\ build' = [build EXCEPT !.pc = "install"]
    /\ UNCHANGED <<home, dirs, current, staging, panel, published, rec, creating, sync, gc,
                   list, failed, blind, counters>>

\* The mutated form returns without deleting the temporary instance.
BuildFailsEarly ==
    /\ build.pc = "run" /\ rec[build.b] # NoRec /\ Failure
    /\ build' = [build EXCEPT !.pc = "end", !.ok = FALSE]
    /\ UNCHANGED <<store, panel, published, rec, creating, sync, gc,
                   list, failed, blind, ops>>

\* A failing step, or an instance that init deleted meanwhile; a copy that was
\* begun is removed again.
BuildFails ==
    /\ build.pc = "run"
    /\ \/ rec[build.b] = NoRec /\ UNCHANGED failures
       \/ rec[build.b] # NoRec /\ Failure
    /\ build' = [build EXCEPT !.pc = "delete", !.ok = FALSE]
    /\ UNCHANGED <<store, panel, published, rec, creating, sync, gc,
                   list, failed, blind, ops>>

\* install_custom: the tree becomes a version of the image ...
InstallCustom ==
    /\ build.pc = "install"
    /\ home' = home \cup {build.image}
    /\ dirs' = [dirs EXCEPT ![build.image] = @ \cup {CustomSerial(build.b)}]
    /\ trees' = trees \ {"live"}
    /\ build' = [build EXCEPT !.pc = "switch"]
    /\ UNCHANGED <<current, staging, panel, published, rec, creating, sync, gc, list,
                   failed, blind, counters>>

\* ... and then the current one; `get` confirms that it is there.
InstallSwitch ==
    /\ build.pc = "switch"
    /\ current' = IF build.image \in home
                  THEN [current EXCEPT ![build.image] = CustomSerial(build.b)]
                  ELSE current
    /\ build' = [build EXCEPT !.pc = "delete",
                    !.ok = CustomSerial(build.b) \in dirs[build.image]]
    /\ UNCHANGED <<home, dirs, staging, trees, panel, published, rec, creating, sync, gc,
                   list, failed, blind, counters>>

\* run_build deletes the temporary instance; a failure is only logged.
BuildDelete ==
    /\ build.pc = "delete"
    /\ \/ rec' = [rec EXCEPT ![build.b] = NoRec] /\ UNCHANGED <<failed, failures>>
       \/ /\ rec[build.b] # NoRec /\ Failure
          /\ failed' = failed \cup {build.b}
          /\ UNCHANGED rec
    /\ build' = [build EXCEPT !.pc = "end"]
    /\ UNCHANGED <<store, panel, published, creating, sync, gc, list, blind, ops>>

\* The result is written to the list and the lock released.
BuildEnd ==
    /\ build.pc = "end"
    /\ list' = [list EXCEPT ![build.b] = IF build.ok THEN "succeeded" ELSE "failed"]
    /\ build' = NoBuild
    /\ UNCHANGED <<store, panel, published, rec, creating, sync, gc, failed, blind, counters>>

-----------------------------------------------------------------------------
(* The panel.                                                              *)

\* set_settings: at least one available image must stay enabled.
SetSettings(d) ==
    /\ Request
    /\ Ready # {} => ~(Ready \subseteq d)
    /\ disabled' = d
    /\ UNCHANGED <<store, removing, published, rec, creating, sync, gc, build, list,
                   failed, blind, failures>>

\* delete_image: remove_custom takes the link and the image's settings away (a later
\* image with the same id starts out enabled); the collection follows.
RemoveCustom(i) ==
    /\ removing = NoImage
    /\ i \in Ready /\ IsCustom(Resolved(i))
    /\ current' = [current EXCEPT ![i] = 0]
    /\ disabled' = disabled \ {i}
    /\ removing' = i
    /\ UNCHANGED <<home, dirs, staging, trees, published, rec, creating, sync, gc, build,
                   list, failed, blind, counters>>

-----------------------------------------------------------------------------
(* Restart of the agent.                                                   *)

\* Everything in memory goes; directories and records stay.  Builds::new turns a
\* running build into a failed one.
Restart ==
    /\ Failure
    /\ sync' = [NoSync EXCEPT !.pc = "init"]
    /\ gc' = NoGc
    /\ build' = NoBuild
    /\ list' = [b \in Builders |-> IF list[b] = "running" THEN "failed" ELSE list[b]]
    /\ creating' = [v \in Vms |-> NoImage]
    /\ removing' = NoImage
    /\ staging' = IF staging = {} THEN {} ELSE {"left"}
    /\ trees' = IF trees = {} THEN {} ELSE {"left"}
    /\ UNCHANGED <<home, dirs, current, disabled, published, rec, failed, blind, ops>>

-----------------------------------------------------------------------------
Refresh ==
    \/ InitScan \/ InitDone \/ SyncStart \/ FetchEntry \/ FetchFails \/ SyncSwitch \/ SyncEnd
    \/ \E b \in Builders : InitDelete(b)
    \/ \E i \in Official : SyncEntry(i)

Collection ==
    \/ \E by \in {"refresh", "panel"} : GcStart(by)
    \/ GcStaging \/ GcSweep \/ GcEnd
    \/ \E i \in Images : GcLook(i)

Claims == \E v \in Vms : CreateReplace(v) \/ CreateClaim(v)

Building ==
    \/ BuildCreate \/ BuildCreateFails \/ BuildRun \/ BuildFails
    \/ InstallCustom \/ InstallSwitch \/ BuildDelete \/ BuildEnd

Requests ==
    \/ \E v \in Vms, i \in Images : CreateCheck(v, i)
    \/ \E v \in Vms : Delete(v)
    \/ \E i, base \in Images : StartBuild(i, base)
    \/ \E d \in Choices : SetSettings(d)
    \/ \E i \in Images : RemoveCustom(i)

ImagesNext ==
    \/ \E i \in Official : Publish(i)
    \/ Refresh \/ Collection \/ Claims \/ Building \/ Requests
    \/ Restart

ImagesSpec == ImagesInit /\ [][ImagesNext]_imagesVars

\* Every task of the agent runs on: each step of the refresh task, of a collection,
\* of a build and of a claim ends, with a result or with an error.  Steps that need
\* the allocation lock get it in the end: collections are hours apart.
ImagesFairSpec ==
    /\ ImagesSpec
    /\ WF_imagesVars(Refresh) /\ WF_imagesVars(Collection)
    /\ SF_imagesVars(GcStart("panel")) /\ SF_imagesVars(Building) /\ SF_imagesVars(Claims)

-----------------------------------------------------------------------------
(* Properties.                                                             *)

\* The version an instance is mounted over is never collected, whatever syncs,
\* builds, removals and collections run beside its creation: the claim of a version
\* and gc_images exclude each other.  (A collection that cannot read the records takes
\* every version for unused.)
LowerExists ==
    ~blind =>
        \A v \in DOMAIN rec : rec[v] # NoRec => rec[v].serial \in dirs[rec[v].image]

\* A build that has ended has left no temporary instance behind, unless creating or
\* deleting it failed, or the agent restarted and its init has not run yet.
BuildersRemoved ==
    \A b \in Builders : rec[b] # NoRec /\ list[b] # "running" =>
        b \in failed \/ sync.pc \in {"init", "doom"}

\* Every official image is in the end offered in its published version, whatever a
\* collection took from a sync in progress, and whatever a build installed under its
\* name: each sync looks at what is on disk.
OfficialServed ==
    <>[](\A i \in Official : Resolved(i) = published[i])

\* A version nobody offers and no instance uses is removed in the end, also after a
\* restart between its installation and its switch.
UnusedRemoved ==
    []<>(\A i \in Images : \A s \in dirs[i] :
            s = current[i] \/ [image |-> i, serial |-> s] \in Layers)

\* Every build that was started is reported as ended, restarts included.
BuildsEnd == \A b \in Builders : list[b] = "running" ~> list[b] \in {"succeeded", "failed"}

\* What set_settings says: at least one available image stays enabled, because an
\* empty list in a heartbeat means "unchanged" to the platform.  Removing a custom
\* image does not check it.
OneEnabled == Ready # {} => Enabled # {}

\* What the header of build.rs says: the temporary instance is always deleted.
BuilderAlwaysDeleted ==
    \A b \in Builders : list[b] \in {"succeeded", "failed"} /\ rec[b] # NoRec =>
        sync.pc \in {"init", "doom"}
=============================================================================
