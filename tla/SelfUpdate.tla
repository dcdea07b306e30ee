----------------------------- MODULE SelfUpdate -----------------------------
(***************************************************************************)
(* Self-update (src/src-tauri/src/self_update.rs).  The processes of one   *)
(* person share ~/.myownllm and the installed binary: each may run the     *)
(* watcher, check, stage, apply, restart or sweep, and each may die        *)
(* between any two of the file operations that the code makes one by one.  *)
(*                                                                         *)
(* A release has an archive or a raw binary for each platform, and each    *)
(* process does one thing at a time.                                       *)
(***************************************************************************)
EXTENDS Naturals, SequencesExt

CONSTANTS
  Procs,      \* processes, by their place: a new one may start where one ended
  Versions,   \* triples <<major, minor, patch>>
  Base,       \* the version first installed
  Assets,     \* Assets[v]: what the release v has, in the order of the feed:
              \* [name: platform and extensions, lists: names it has sums of]
  None,       \* no version, no marker
  Torn,       \* a marker that does not parse
  Systems,    \* a subset of {"unix", "windows"}
  Policies,   \* a subset of {"patch", "minor", "all", "none"}
  MaxEvents   \* bound: crashes, failed requests, bad downloads and what a
              \* person asks for; starts, ends and watcher ticks are unbounded

ASSUME VersionsAssumption == Versions \subseteq Nat \X Nat \X Nat /\ Base \in Versions
                             /\ DOMAIN Assets = Versions
ASSUME NoneAssumption == {None, Torn} \cap Versions = {} /\ None # Torn
ASSUME EventsAssumption == MaxEvents \in Nat

VARIABLES
  exe,      \* the installed binary: its version and what the file holds
  old,      \* <exe>.old (Windows)
  part,     \* part[v]: updates/<v>/<asset>.part
  bin,      \* bin[v]: the binary in updates/<v>, a process while its tar
            \* writes it
  marker,   \* updates/pending.json
  enabled,  \* auto_update.enabled
  feed,     \* the version of the newest release
  proc,     \* proc[p]: version it runs, where its image file is
  job,      \* job[p]: what p is doing, why, about which version, with what data
  sweep,    \* sweep[p]: the versions a sweep of p found
  events,
  fixed,    \* the system, the policy and the install kind, for good
  overlap   \* history: a version was unpacked while a marker named it or
            \* another process worked on it, a release without a checksum
            \* was bad, or a process died inside the Windows side swap

vars == <<exe, old, part, bin, marker, enabled, feed, proc, job,
          sweep, events, fixed, overlap>>
files == <<exe, old, part, bin, marker>>
world == <<enabled, feed, fixed>>

Content == {"none", "partial", "good", "bad"}
ASSUME ProcsAssumption == Procs \cap Content = {}
Whys == {"launch", "apply", "restart", "watch", "check", "now", "final"}
Off == [at |-> "off", why |-> "launch", v |-> None, data |-> "none"]
Idle == [Off EXCEPT !.at = "idle"]

\* p is at work on a version.
Handling(p) == job[p].at \in {"copy", "rename", "swap", "clear", "write", "verify",
                              "unpack", "extract", "mark", "marking"}

TypeOK ==
  /\ exe \in [version : Versions, holds : Content]
  /\ old \in Content
  /\ part \in [Versions -> Content]
  /\ bin \in [Versions -> Content \cup Procs]
  /\ marker \in {None, Torn} \cup Versions
  /\ enabled \in BOOLEAN /\ overlap \in BOOLEAN
  /\ feed \in Versions
  /\ proc \in [Procs -> [version : Versions, image : {"exe", "old"}]]
  /\ job \in [Procs -> [at : {"off", "idle", "read", "copy", "rename", "swap",
                              "clear", "fetch", "write", "verify", "unpack",
                              "extract", "mark", "marking", "sweep"},
                        why : Whys, v : Versions \cup {None}, data : Content]]
  /\ sweep \in [Procs -> SUBSET Versions]
  /\ events \in 0 .. MaxEvents
  /\ fixed \in [os : Systems, policy : Policies, kind : {"raw", "package"}]
  /\ \A p \in Procs : Handling(p) <=> job[p].v \in Versions
  /\ \A v \in Versions : bin[v] \in Procs => job[bin[v]].v = v

----------------------------------------------------------------------------
(* Versions *)

\* compare_semver(a, b) = Less
Older(a, b) ==
  \/ a[1] < b[1]
  \/ a[1] = b[1] /\ a[2] < b[2]
  \/ a[1] = b[1] /\ a[2] = b[2] /\ a[3] < b[3]

policy_allows(policy, current, latest) ==
  CASE policy = "none"  -> FALSE
    [] policy = "all"   -> TRUE
    [] policy = "minor" -> latest[1] = current[1]
    [] policy = "patch" -> latest[1] = current[1] /\ latest[2] = current[2]

----------------------------------------------------------------------------
(* Releases *)

is_archive(name) == Last(name) \in {"tar.gz", "tgz", "zip"}
is_sidecar_asset(name) == Last(name) \in {"sha256", "sha512", "sig", "asc", "minisig", "pem"}

First(assets, Fit(_)) ==
  LET i == SelectInSeq(assets, Fit) IN IF i = 0 THEN None ELSE assets[i]

\* Mutant of pick_asset: the first asset that names the platform.
pick_asset_by_needle(assets) == First(assets, LAMBDA a : Head(a.name) = "here")

\* The asset of this platform that is no checksum or signature.
pick_asset(assets) ==
  First(assets, LAMBDA a : Head(a.name) = "here" /\ ~is_sidecar_asset(a.name))

\* Its own checksum, or the list of all of them.
pick_sha_asset(assets, name) ==
  LET own == First(assets, LAMBDA a : a.name = Append(name, "sha256"))
  IN IF own # None THEN own ELSE First(assets, LAMBDA a : a.name = <<"SHA256SUMS">>)

\* expected_sha_for finds a line.
Listed(sum, name) == name \in sum.lists

\* What download_verify_extract picks from each release.
Asset == [v \in Versions |-> pick_asset(Assets[v])]
Sum == [v \in Versions |-> IF Asset[v] = None THEN None
                           ELSE pick_sha_asset(Assets[v], Asset[v].name)]

----------------------------------------------------------------------------
(* Processes *)

Running(p) == job[p].at # "off"
At(p, stage) == job[p].at = stage
Go(p, stage) == job' = [job EXCEPT ![p].at = stage]
Become(p, j) == job' = [job EXCEPT ![p] = j]
Event == events < MaxEvents /\ events' = events + 1

Init ==
  /\ exe = [version |-> Base, holds |-> "good"]
  /\ old = "none"
  /\ part = [v \in Versions |-> "none"]
  /\ bin = [v \in Versions |-> "none"]
  /\ marker = None
  /\ enabled = TRUE
  /\ feed = Base
  /\ proc = [p \in Procs |-> [version |-> Base, image |-> "exe"]]
  /\ job = [p \in Procs |-> Off]
  /\ sweep = [p \in Procs |-> {}]
  /\ events = 0
  /\ fixed \in [os : Systems, policy : Policies, kind : {"raw", "package"}]
  /\ overlap = FALSE

\* On Windows the file of a running process cannot be removed or replaced.
Held(file) ==
  fixed.os = "windows" /\ \E q \in Procs : Running(q) /\ proc[q].image = file

\* main: apply_pending_if_any comes first, and sweeps <exe>.old before it,
\* unless the person turned that off.
Launch(p) ==
  /\ At(p, "off")
  /\ exe.holds \in {"good", "bad"}
  /\ proc' = [proc EXCEPT ![p] = [version |-> exe.version, image |-> "exe"]]
  /\ Become(p, [Off EXCEPT !.at = "read"])
  /\ old' \in {old, IF Held("old") THEN old ELSE "none"}
  /\ UNCHANGED <<exe, part, bin, marker, sweep, events, overlap, world>>

\* What remains when p is gone: files as they are, a pid that is nobody's.
Gone(p) ==
  /\ job' = [job EXCEPT ![p] = Off]
  /\ sweep' = [sweep EXCEPT ![p] = {}]
  /\ proc' = [proc EXCEPT ![p] = [version |-> Base, image |-> "exe"]]
  /\ bin' = [v \in Versions |-> IF bin[v] = p THEN "partial" ELSE bin[v]]

Quit(p) ==
  /\ At(p, "idle")
  /\ Gone(p)
  /\ UNCHANGED <<exe, old, part, marker, events, overlap, world>>

Crash(p) ==
  /\ Running(p) /\ Event
  /\ Gone(p)
  /\ overlap' = (overlap \/ At(p, "swap"))
  /\ UNCHANGED <<exe, old, part, marker, world>>

----------------------------------------------------------------------------
(* Applying *)

\* Where p goes on after apply_pending: the command that called it goes on,
\* and only update_apply_now looks at the result: it restarts on success.
AfterApply(p) ==
  IF job[p].why = "now" THEN [Idle EXCEPT !.at = "fetch", !.why = "now"] ELSE Idle

\* p's apply_pending is over.
Leave(p, ok) ==
  IF job[p].why = "restart" /\ ok
  THEN Gone(p)
  ELSE Become(p, AfterApply(p)) /\ UNCHANGED <<bin, proc, sweep>>

\* `myownllm update apply` and the GUI's "Restart to apply".
Apply(p) ==
  /\ At(p, "idle") /\ Event
  /\ \/ Become(p, [Idle EXCEPT !.at = "read", !.why = "apply"]) /\ UNCHANGED old
     \/ /\ Become(p, [Idle EXCEPT !.at = "read", !.why = "restart"])
        /\ old' = IF Held("old") THEN old ELSE "none"
  /\ UNCHANGED <<exe, part, bin, marker, proc, sweep, overlap, world>>

\* Mutant of ReadMarker: any other version is applied.
ReadMarkerAnyVersion(p) ==
  /\ At(p, "read")
  /\ \/ marker \in {None, Torn} /\ Leave(p, marker = None) /\ UNCHANGED marker
     \/ /\ marker \in Versions
        /\ \/ marker = proc[p].version /\ marker' = None /\ Leave(p, TRUE)
           \/ /\ marker # proc[p].version /\ bin[marker] = "none"
              /\ marker' = None /\ Leave(p, FALSE)
           \/ /\ marker # proc[p].version /\ bin[marker] # "none"
              /\ job' = [job EXCEPT ![p].at = "copy", ![p].v = marker]
              /\ UNCHANGED <<marker, bin, proc, sweep>>
  /\ UNCHANGED <<exe, old, part, events, overlap, world>>

\* apply_pending up to the copy: a marker that is not an upgrade, or whose
\* binary is gone, is cleared; one that does not parse stays.
ReadMarker(p) ==
  /\ At(p, "read")
  /\ \/ marker \in {None, Torn} /\ Leave(p, marker = None) /\ UNCHANGED marker
     \/ /\ marker \in Versions
        /\ \/ ~Older(proc[p].version, marker) /\ marker' = None /\ Leave(p, TRUE)
           \/ /\ Older(proc[p].version, marker) /\ bin[marker] = "none"
              /\ marker' = None /\ Leave(p, FALSE)
           \/ /\ Older(proc[p].version, marker) /\ bin[marker] # "none"
              /\ job' = [job EXCEPT ![p].at = "copy", ![p].v = marker]
              /\ UNCHANGED <<marker, bin, proc, sweep>>
  /\ UNCHANGED <<exe, old, part, events, overlap, world>>

\* atomic_replace: copy what is there now to a file beside the target.
Copy(p) ==
  /\ At(p, "copy")
  /\ \/ /\ bin[job[p].v] = "none"
        /\ Leave(p, FALSE)
     \/ /\ bin[job[p].v] # "none"
        /\ job' = [job EXCEPT ![p].at = "rename",
                     ![p].data = IF bin[job[p].v] \in Procs THEN "partial" ELSE bin[job[p].v]]
        /\ UNCHANGED <<bin, proc, sweep>>
  /\ UNCHANGED <<exe, old, part, marker, events, overlap, world>>

\* rename over the target; Windows refuses while a process runs from it and
\* the running binary is moved aside first, unless the last one still runs.
Rename(p) ==
  /\ At(p, "rename")
  /\ \/ /\ ~Held("exe")
        /\ exe' = [version |-> job[p].v, holds |-> job[p].data]
        /\ Go(p, "clear")
        /\ UNCHANGED <<old, bin, proc, sweep>>
     \/ /\ Held("exe") /\ ~Held("old")
        /\ old' = exe.holds
        /\ exe' = [exe EXCEPT !.holds = "none"]
        /\ proc' = [q \in Procs |-> IF Running(q) THEN [proc[q] EXCEPT !.image = "old"]
                                                  ELSE proc[q]]
        /\ Go(p, "swap")
        /\ UNCHANGED <<bin, sweep>>
     \/ /\ Held("exe") /\ Held("old")
        /\ Leave(p, FALSE)
        /\ UNCHANGED <<exe, old>>
  /\ UNCHANGED <<part, marker, events, overlap, world>>

\* rename_into_place_via_side_swap_windows, the second rename.
Swap(p) ==
  /\ At(p, "swap")
  /\ exe' = [version |-> job[p].v, holds |-> job[p].data]
  /\ Go(p, "clear")
  /\ UNCHANGED <<old, part, bin, marker, proc, sweep, events, overlap, world>>

\* ... which fails: the original is put back.
SwapFails(p) ==
  /\ At(p, "swap") /\ Event
  /\ exe' = [exe EXCEPT !.holds = old]
  /\ old' = "none"
  /\ proc' = [q \in Procs |-> [proc[q] EXCEPT !.image = "exe"]]
  /\ Become(p, AfterApply(p))
  /\ UNCHANGED <<part, bin, marker, sweep, overlap, world>>

\* The marker is removed, whichever it is by now.
ClearMarker(p) ==
  /\ At(p, "clear")
  /\ marker' = None
  /\ Leave(p, TRUE)
  /\ UNCHANGED <<exe, old, part, events, overlap, world>>

----------------------------------------------------------------------------
(* Checking and staging *)

\* A package manager's install is its own business.
Eligible == enabled /\ fixed.kind = "raw"

\* The watcher's run_check.  Any process may be the one that watches, and
\* the stamp that spaces the checks is left out: hours may pass at any time.
Tick(p) ==
  /\ At(p, "idle") /\ Eligible
  /\ Become(p, [Idle EXCEPT !.at = "fetch", !.why = "watch"])
  /\ UNCHANGED <<files, proc, sweep, events, overlap, world>>

\* check_now and `update check`
Check(p) ==
  /\ At(p, "idle") /\ Eligible /\ Event
  /\ Become(p, [Idle EXCEPT !.at = "fetch", !.why = "check"])
  /\ UNCHANGED <<files, proc, sweep, overlap, world>>

\* run_update_now: what is staged is applied first.
UpdateNow(p) ==
  /\ At(p, "idle") /\ Eligible /\ Event
  /\ LET stale == marker \in {Torn, proc[p].version}
     IN /\ marker' = IF stale THEN None ELSE marker
        /\ Become(p, [Idle EXCEPT !.why = "now",
                        !.at = IF stale \/ marker = None THEN "fetch" ELSE "read"])
  /\ UNCHANGED <<exe, old, part, bin, proc, sweep, overlap, world>>

\* The release arrived: is it newer than the code that asks, and allowed?
Wanted(p) ==
  /\ Older(proc[p].version, feed)
  /\ job[p].why = "now" \/ policy_allows(fixed.policy, proc[p].version, feed)

OthersOn(p, v) == \E q \in Procs \ {p} : job[q].v = v

Fetched(p) ==
  /\ At(p, "fetch")
  /\ \/ /\ Wanted(p)
        /\ job' = [job EXCEPT ![p].at = "write", ![p].v = feed]
        /\ overlap' = (overlap \/ OthersOn(p, feed))
     \/ /\ ~Wanted(p)
        /\ Become(p, Idle)
        /\ UNCHANGED overlap
  /\ UNCHANGED <<files, proc, sweep, events, world>>

\* A request fails: the release, the asset or its checksum.
RequestFails(p) ==
  /\ job[p].at \in {"fetch", "write", "verify"} /\ Event
  /\ Become(p, Idle)
  /\ UNCHANGED <<files, proc, sweep, overlap, world>>

\* The asset is in memory; fs::write begins on the .part file ...
WritePart(p) ==
  /\ At(p, "write")
  /\ IF Asset[job[p].v] = None
     THEN Become(p, Idle) /\ UNCHANGED part
     ELSE part' = [part EXCEPT ![job[p].v] = "partial"] /\ Go(p, "verify")
  /\ UNCHANGED <<exe, old, bin, marker, proc, sweep, events, overlap, world>>

\* Mutant of Verify: bytes that do not match their checksum go on.
VerifyMismatched(p) ==
  LET v == job[p].v IN
  /\ At(p, "verify")
  /\ \E got \in {"good", "bad"} :
       /\ part' = [part EXCEPT ![v] = IF @ = "none" THEN "none" ELSE got]
       /\ IF got = "good" THEN UNCHANGED <<events, overlap>>
                         ELSE Event /\ overlap' = (overlap \/ Sum[v] = None)
  /\ Go(p, "unpack")
  /\ UNCHANGED <<exe, old, bin, marker, proc, sweep, world>>

\* ... and ends, and the bytes in memory are compared with the checksum, if
\* the release has one.  A .part renamed away meanwhile is written there.
Verify(p) ==
  LET v == job[p].v
      name == Asset[v].name
      sum == Sum[v]
      Arrives(got) == part' = [part EXCEPT ![v] = IF @ = "none" THEN "none" ELSE got]
      Passes(got) == Arrives(got) /\ Go(p, "unpack")
  IN
  /\ At(p, "verify")
  /\ \/ \* the asset as it was published
        LET got == IF is_sidecar_asset(name) THEN "bad" ELSE "good" IN
        /\ IF sum # None /\ ~Listed(sum, name) THEN Arrives(got) /\ Become(p, Idle)
           ELSE Passes(got)
        /\ UNCHANGED <<events, overlap>>
     \/ \* damaged on its way
        /\ Event
        /\ \/ sum = None /\ Passes("bad") /\ overlap' = TRUE
           \/ /\ sum # None
              /\ IF Listed(sum, name) THEN part' = [part EXCEPT ![v] = "none"] ELSE Arrives("bad")
              /\ Become(p, Idle) /\ UNCHANGED overlap
  /\ UNCHANGED <<exe, old, bin, marker, proc, sweep, world>>

\* A binary is staged: `update now` installs it, the others leave a marker.
Staged(p) == IF job[p].why = "now" THEN [job[p] EXCEPT !.at = "copy", !.why = "final"]
                                   ELSE [job[p] EXCEPT !.at = "mark"]

\* The .part, whoever wrote it last, becomes the asset.  A sidecar is refused;
\* a raw binary is staged as it is; for an archive, what an earlier extraction
\* left is wiped and tar starts.
Unpack(p) ==
  LET v == job[p].v
      name == Asset[v].name
  IN
  /\ At(p, "unpack")
  /\ part' = [part EXCEPT ![v] = "none"]
  /\ \/ /\ part[v] = "none" \/ is_sidecar_asset(name)
        /\ Become(p, Idle) /\ UNCHANGED <<bin, overlap>>
     \/ /\ part[v] # "none" /\ ~is_sidecar_asset(name)
        /\ \/ /\ is_archive(name)
              /\ job' = [job EXCEPT ![p].at = "extract", ![p].data = part[v]]
              /\ bin' = [bin EXCEPT ![v] = p]
           \/ /\ ~is_archive(name)
              /\ Become(p, Staged(p))
              /\ bin' = [bin EXCEPT ![v] = part[v]]
        /\ overlap' = (overlap \/ marker = v \/ OthersOn(p, v))
  /\ UNCHANGED <<exe, old, marker, proc, sweep, events, world>>

\* tar ends.  A damaged archive fails, or unpacks into something else.
Extracted(p) ==
  LET v == job[p].v
      mine == bin[v] = p
  IN
  /\ At(p, "extract")
  /\ \/ /\ mine /\ job[p].data = "good"
        /\ bin' = [bin EXCEPT ![v] = "good"] /\ Become(p, Staged(p))
     \/ /\ mine /\ job[p].data # "good"
        /\ \/ bin' = [bin EXCEPT ![v] = "partial"] /\ Become(p, Idle)
           \/ /\ job[p].data = "bad"
              /\ bin' = [bin EXCEPT ![v] = "bad"] /\ Become(p, Staged(p))
     \/ /\ ~mine /\ UNCHANGED bin
        /\ Become(p, IF bin[v] = "none" THEN Idle ELSE Staged(p))
  /\ UNCHANGED <<exe, old, part, marker, proc, sweep, events, overlap, world>>

\* write_pending_marker: fs::write truncates first.
Truncate(p) ==
  /\ At(p, "mark")
  /\ marker' = Torn
  /\ Go(p, "marking")
  /\ UNCHANGED <<exe, old, part, bin, proc, sweep, events, overlap, world>>

Mark(p) ==
  /\ At(p, "marking")
  /\ marker' = job[p].v
  /\ Become(p, Idle)
  /\ UNCHANGED <<exe, old, part, bin, proc, sweep, events, overlap, world>>

----------------------------------------------------------------------------
(* The GUI's status and the Storage tab *)

\* read_pending_or_clean
Status(p) ==
  /\ At(p, "idle")
  /\ marker = Torn \/ (marker \in Versions /\ ~Older(proc[p].version, marker))
  /\ marker' = None
  /\ UNCHANGED <<exe, old, part, bin, proc, job, sweep, events, overlap, world>>

\* clear_update_leftovers: list what no marker names, then remove it.
ListLeftovers(p) ==
  /\ At(p, "idle") /\ Event
  /\ sweep' = [sweep EXCEPT ![p] = {v \in Versions \ {marker} :
                                      bin[v] # "none" \/ part[v] # "none"}]
  /\ Go(p, "sweep")
  /\ UNCHANGED <<files, proc, overlap, world>>

RemoveLeftovers(p) ==
  /\ At(p, "sweep")
  /\ part' = [v \in Versions |-> IF v \in sweep[p] THEN "none" ELSE part[v]]
  /\ bin' = [v \in Versions |-> IF v \in sweep[p] THEN "none" ELSE bin[v]]
  /\ old' = IF Held("old") THEN old ELSE "none"
  /\ sweep' = [sweep EXCEPT ![p] = {}]
  /\ Become(p, Idle)
  /\ UNCHANGED <<exe, marker, proc, events, overlap, world>>

----------------------------------------------------------------------------
(* The world *)

set_enabled ==
  /\ enabled' = ~enabled
  /\ IF enabled THEN Event ELSE UNCHANGED events
  /\ UNCHANGED <<files, feed, proc, job, sweep, fixed, overlap>>

\* A release is published, or withdrawn.
Publish ==
  /\ feed' \in Versions
  /\ IF Older(feed, feed') THEN UNCHANGED events ELSE Older(feed', feed) /\ Event
  /\ UNCHANGED <<files, enabled, proc, job, sweep, fixed, overlap>>

Step(p) ==
  \/ ReadMarker(p) \/ Copy(p) \/ Rename(p) \/ Swap(p) \/ ClearMarker(p)
  \/ Fetched(p) \/ WritePart(p) \/ Verify(p) \/ Unpack(p) \/ Extracted(p)
  \/ Truncate(p) \/ Mark(p) \/ RemoveLeftovers(p)

Person(p) ==
  Launch(p) \/ Quit(p) \/ Apply(p) \/ Tick(p) \/ Check(p) \/ UpdateNow(p) \/ Status(p)
  \/ ListLeftovers(p)

Trouble(p) == Crash(p) \/ SwapFails(p) \/ RequestFails(p)

Next ==
  \/ \E p \in Procs : Step(p) \/ Person(p) \/ Trouble(p)
  \/ set_enabled \/ Publish

\* Every process goes on with what it does; people start and end it again and
\* again, and often enough leave it running until the watcher has its turn.
Fairness ==
  \A p \in Procs : /\ WF_vars(Step(p)) /\ WF_vars(Launch(p)) /\ SF_vars(Quit(p))
                    /\ SF_vars(Tick(p))

Spec == Init /\ [][Next]_vars /\ Fairness

----------------------------------------------------------------------------
(* Properties *)

\* What is installed is a whole binary, whatever crashes, downloads fail or
\* processes update at once (atomic_replace's copy and rename, the checksum,
\* the wipe before tar), as long as nobody unpacks over a staged version.
InstalledWhole ==
  exe.holds = "good" \/ overlap \/ \E p \in Procs : At(p, "swap")

\* The installed version goes back only at the hands of a process whose own
\* code is older than what is installed by then: a process that runs the
\* installed release rolls nothing back, whatever marker an earlier release
\* left or another process writes (apply_pending's comparison).
Rollback(p) == job[p].at \in {"rename", "swap"} /\ Older(proc[p].version, exe.version)

NoStaleRollback ==
  [][Older(exe'.version, exe.version) => \E p \in Procs : Rollback(p)]_vars

\* A newer release that the policy allows is installed in the end, or it is
\* withdrawn, updates are disabled or the files were damaged by an overlap
\* (the watcher's tick, staging, the marker, the next start).
NewestReachesDisk ==
  \A v \in Versions :
    (/\ fixed.os = "unix" /\ Eligible /\ feed = v
     /\ Older(exe.version, v) /\ policy_allows(fixed.policy, exe.version, v))
    ~> (~Older(exe.version, v) \/ feed # v \/ ~enabled \/ overlap)
=============================================================================
