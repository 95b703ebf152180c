------------------------------ MODULE Updater -------------------------------
(***************************************************************************)
(* Self-update (updater.rs): the periodic updater and requests of the      *)
(* panel both run update_now, and nothing keeps them apart.  They download *)
(* to one file beside the executable, check it and rename it over the      *)
(* executable; the agent then exits and systemd starts what is there.      *)
(*                                                                         *)
(* Files are inodes, so that a download that goes on writes to the file it *)
(* opened, wherever that has been renamed to.  A file holds 0 (incomplete) *)
(* or the number of a release; the checksum of a release identifies it.    *)
(***************************************************************************)
EXTENDS Naturals

CONSTANTS
    Updaters,    \* who may run update_now at the same time
    MaxRelease,  \* bound on the releases published
    MaxFiles     \* bound on the files ever created

VARIABLES
    release,  \* the release SHA256SUMS and the binary are from
    data,     \* data[i]: what file i holds
    files,    \* files created so far
    exe,      \* the file the executable's path names
    staged,   \* the file the `.new` path names, 0 for none
    pc,       \* pc[u]: where update_inner stands
    sha,      \* sha[u]: the checksum it wants
    out,      \* out[u]: the file its curl has open for writing, or 0
    running   \* the release of the process that runs, 0 if it cannot start

vars == <<release, data, files, exe, staged, pc, sha, out, running>>

TypeOK ==
    /\ release \in 1..MaxRelease
    /\ data \in [1..MaxFiles -> 0..MaxRelease]
    /\ files \in 1..MaxFiles
    /\ exe \in 1..files
    /\ staged \in 0..files
    /\ pc \in [Updaters -> {"idle", "fetch", "fetching", "verify", "version",
                            "running", "rename", "installed"}]
    /\ sha \in [Updaters -> 0..MaxRelease]
    /\ out \in [Updaters -> 0..MaxFiles]
    /\ running \in 0..MaxRelease

Init ==
    /\ release = 1
    /\ data = [i \in 1..MaxFiles |-> IF i = 1 THEN 1 ELSE 0]
    /\ files = 1
    /\ exe = 1
    /\ staged = 0
    /\ pc = [u \in Updaters |-> "idle"]
    /\ sha = [u \in Updaters |-> 0]
    /\ out = [u \in Updaters |-> 0]
    /\ running = 1

Publish ==
    /\ release < MaxRelease
    /\ release' = release + 1
    /\ UNCHANGED <<data, files, exe, staged, pc, sha, out, running>>

\* newer_release: the published checksum against the executable's file.
NewerRelease == data[exe] # release

Check(u) ==
    /\ pc[u] = "idle"
    /\ running # 0
    /\ NewerRelease
    /\ sha' = [sha EXCEPT ![u] = release]
    /\ pc' = [pc EXCEPT ![u] = "fetch"]
    /\ UNCHANGED <<release, data, files, exe, staged, out, running>>

\* A file that is being executed cannot be opened for writing (ETXTBSY).
Busy(i) == \E u \in Updaters : pc[u] = "running" /\ i = staged

\* curl -o opens the staged path: a file that is there is truncated.
FetchOpen(u) ==
    /\ pc[u] = "fetch"
    /\ ~Busy(staged)
    /\ \/ staged # 0 /\ UNCHANGED <<staged, files>>
       \/ /\ staged = 0
          /\ files < MaxFiles
          /\ files' = files + 1
          /\ staged' = files'
    /\ data' = [data EXCEPT ![staged'] = 0]
    /\ out' = [out EXCEPT ![u] = staged']
    /\ pc' = [pc EXCEPT ![u] = "fetching"]
    /\ UNCHANGED <<release, exe, sha, running>>

FetchDone(u) ==
    /\ pc[u] = "fetching"
    /\ data' = [data EXCEPT ![out[u]] = release]
    /\ out' = [out EXCEPT ![u] = 0]
    /\ pc' = [pc EXCEPT ![u] = "verify"]
    /\ UNCHANGED <<release, files, exe, staged, sha, running>>

\* A download that fails leaves the staged file as it is.
FetchFails(u) ==
    /\ \/ pc[u] = "fetch" /\ Busy(staged)
       \/ pc[u] = "fetching"
    /\ out' = [out EXCEPT ![u] = 0]
    /\ pc' = [pc EXCEPT ![u] = "idle"]
    /\ UNCHANGED <<release, data, files, exe, staged, sha, running>>

\* The staged file, read again by its name, must have the checksum.
Matches(u) == staged # 0 /\ data[staged] = sha[u]

Verify(u) ==
    /\ pc[u] = "verify"
    /\ Matches(u)
    /\ pc' = [pc EXCEPT ![u] = "version"]
    /\ UNCHANGED <<release, data, files, exe, staged, sha, out, running>>

\* `--version`: a file somebody has open for writing is not executed.
Runnable ==
    /\ staged # 0
    /\ data[staged] # 0
    /\ \A v \in Updaters : out[v] # staged

RunVersion(u) ==
    /\ pc[u] = "version"
    /\ Runnable
    /\ pc' = [pc EXCEPT ![u] = "running"]
    /\ UNCHANGED <<release, data, files, exe, staged, sha, out, running>>

VersionDone(u) ==
    /\ pc[u] = "running"
    /\ pc' = [pc EXCEPT ![u] = "rename"]
    /\ UNCHANGED <<release, data, files, exe, staged, sha, out, running>>

Rename(u) ==
    /\ pc[u] = "rename"
    /\ staged # 0
    /\ exe' = staged
    /\ staged' = 0
    /\ pc' = [pc EXCEPT ![u] = "installed"]
    /\ UNCHANGED <<release, data, files, sha, out, running>>

\* Any check that fails removes the staged file.
Rejects(u) ==
    \/ pc[u] = "verify" /\ ~Matches(u)
    \/ pc[u] = "version" /\ ~Runnable
    \/ pc[u] = "rename" /\ staged = 0

Fail(u) ==
    /\ Rejects(u)
    /\ staged' = 0
    /\ pc' = [pc EXCEPT ![u] = "idle"]
    /\ UNCHANGED <<release, data, files, exe, sha, out, running>>

\* update_now requests the restart: the process exits, its downloads with it,
\* and systemd starts what the executable's path names.
Restart(u) ==
    /\ pc[u] = "installed"
    /\ running' = data[exe]
    /\ pc' = [v \in Updaters |-> "idle"]
    /\ out' = [v \in Updaters |-> 0]
    /\ UNCHANGED <<release, data, files, exe, staged, sha>>

Next ==
    \/ Publish
    \/ \E u \in Updaters :
          \/ Check(u) \/ FetchOpen(u) \/ FetchDone(u) \/ FetchFails(u)
          \/ Verify(u) \/ RunVersion(u) \/ VersionDone(u) \/ Rename(u)
          \/ Fail(u) \/ Restart(u)

Spec == Init /\ [][Next]_vars

\* "An update is applied only when the download matches its checksum, is an
\* ELF for this architecture and runs --version" (updater.rs:4-6): what the
\* agent is restarted into is a complete release.  Two updates at once break
\* it: the second one's download truncates the file that the first has just
\* checked and is about to rename.
InstalledVerified == running # 0
=============================================================================
