------------------------------ MODULE Targets ------------------------------
(***************************************************************************)
(* The receivers of a configuration: the remote_write part of Load         *)
(* (internal/config/config.go), MigrateCheckpoint and New of               *)
(* internal/remote_write/remote_write.go, and the loop of main.go that     *)
(* brings the targets up one by one.  An operator edits the configuration, *)
(* the process crashes, and the disk fills up.  What a running target does *)
(* is the subject of Delivery; here it moves its checkpoint.               *)
(***************************************************************************)
EXTENDS Integers, Sequences, Functions, TLC

CONSTANTS
  URLs,           \* receivers
  Existing,       \* the receiver of an installation with remote_write.url
  Windows,        \* values of recovery_window, in minutes
  MaxSeq,         \* bound: events
  MaxEdits,       \* bound: edits of the configuration
  MaxCrashes,     \* bound: crashes and restarts
  TornCreate,     \* BOOLEAN: a crash may hit the copy of a checkpoint halfway
  TornMarker,     \* BOOLEAN: a failed write of the marker may leave an empty one
  EditURL,        \* BOOLEAN: remote_write.url may be given another receiver
  HastyReorder    \* BOOLEAN: the order of urls may change before a start with the
                  \* first one has succeeded

ASSUME TargetsAssumption ==
  /\ Existing \in URLs /\ Windows \subseteq Nat \ {0}
  /\ MaxSeq \in Nat /\ MaxEdits \in Nat /\ MaxCrashes \in Nat
  /\ TornCreate \in BOOLEAN /\ TornMarker \in BOOLEAN /\ HastyReorder \in BOOLEAN
  /\ EditURL \in BOOLEAN

VARIABLES
  config,     \* the configuration file
  disk,       \* "ok" or "full"
  file,       \* checkpoint files: Missing, Torn or a sequence number
  marker,     \* the marker of the migration exists
  pc,         \* "down", "running", or a step of the setup of target number i
  i,
  targets,    \* targets of the configuration the process has loaded
  lastSent,   \* position of each target that runs
  log,        \* newest event
  received,   \* history: events each receiver has
  edits, crashes

diskVars == <<disk, file, marker>>
processVars == <<pc, i, targets, lastSent>>
boundVars == <<edits, crashes>>
vars == <<config, diskVars, processVars, log, received, boundVars>>

None == "none"
Missing == -1
Torn == -2
Legacy == "legacy"   \* the configured checkpoint path; with urls it is a prefix
Paths == {Legacy} \cup URLs

(***************************************************************************)
(* Load.                                                                   *)
(***************************************************************************)

\* An entry of urls is a URL, perhaps with spaces around it, or blank.  Where remote
\* write is disabled, the other settings but the window are not read.
Entry(url, padded) == [url |-> url, padded |-> padded]
Plain == {Entry(u, FALSE) : u \in URLs}
Lists ==
  {<< >>} \cup {<<e>> : e \in Plain} \cup
  {<<e, f>> : e \in Plain \cup {Entry(Existing, TRUE)}, f \in Plain \cup {Entry(None, FALSE)}}
Configs ==
  [enabled : {TRUE}, url : {None} \cup URLs, urls : Lists, window : Windows] \cup
  [enabled : {FALSE}, url : {None}, urls : {<< >>}, window : Windows]

TrimSpace(entry) == entry.url

LegacyForm(c) == c.urls = << >> /\ c.url # None

URLList(c) ==
  IF LegacyForm(c) THEN <<c.url>> ELSE [n \in DOMAIN c.urls |-> TrimSpace(c.urls[n])]

\* Mutant: entries are compared as they are written.
AcceptedUntrimmed(c) ==
  c.enabled =>
    /\ ~(c.url # None /\ c.urls # << >>) /\ URLList(c) # << >>
    /\ \A n \in DOMAIN URLList(c) : URLList(c)[n] # None
    /\ IsInjective(c.urls)
    /\ c.window \in 5..60 /\ 60 % c.window = 0

\* The window is checked only where remote write is enabled.
Accepted(c) ==
  c.enabled =>
    /\ ~(c.url # None /\ c.urls # << >>) /\ URLList(c) # << >>
    /\ \A n \in DOMAIN URLList(c) : URLList(c)[n] # None
    /\ IsInjective(URLList(c))
    /\ c.window \in 5..60 /\ 60 % c.window = 0

\* The checkpoint of a URL is named by its hash.
TargetsOf(c) ==
  IF ~c.enabled THEN << >>
  ELSE [n \in DOMAIN URLList(c) |->
          [url |-> URLList(c)[n],
           checkpoint |-> IF LegacyForm(c) THEN Legacy ELSE URLList(c)[n],
           legacy |-> IF ~LegacyForm(c) /\ n = 1 THEN Legacy ELSE None]]

(***************************************************************************)
(* The operator and the disk.                                              *)
(***************************************************************************)

\* A new installation, or one that has used remote_write.url.
Init ==
  /\ config \in {c \in Configs : Accepted(c) /\ c.enabled}
  /\ disk = "ok" /\ marker = FALSE
  /\ log \in 0..1
  /\ file = [p \in Paths |-> IF p = Legacy /\ log > 0 THEN log ELSE Missing]
  /\ received = [u \in URLs |-> IF u = Existing THEN 1..log ELSE {}]
  /\ config.url \in {None, Existing} /\ (log > 0 => LegacyForm(config))
  /\ pc = "down" /\ i = 1 /\ targets = << >> /\ lastSent = << >>
  /\ edits = 0 /\ crashes = 0

\* "put the existing receiver first": as long as a legacy checkpoint waits to be
\* copied, it is that of the first of the urls.  An operator who does not keep to
\* the one receiver in remote_write.url is the subject of EditURL.
Follows(c) ==
  /\ c.url = None \/ c.url = Existing \/ EditURL
  /\ (/\ Accepted(c) /\ c.enabled /\ ~LegacyForm(c)
      /\ ~marker /\ (file[Legacy] # Missing \/ \E t \in Range(targets) : t.checkpoint = Legacy)
      /\ HastyReorder => LegacyForm(config))
     => URLList(c)[1] = Existing

\* It takes effect at the next start.
Edit ==
  /\ pc \in {"down", "running"}
  /\ edits < MaxEdits /\ edits' = edits + 1
  /\ config' \in {c \in Configs \ {config} : Follows(c)}
  /\ UNCHANGED <<diskVars, processVars, log, received, crashes>>

DiskChange ==
  /\ disk' \in {"ok", "full"} \ {disk}
  /\ UNCHANGED <<config, file, marker, processVars, log, received, boundVars>>

(***************************************************************************)
(* The start.  A fatal error ends the process, workers included.           *)
(***************************************************************************)

Down == pc' = "down" /\ i' = 1 /\ targets' = << >> /\ lastSent' = << >>

Fatal == disk = "full" /\ Down

Boot ==
  /\ pc = "down" /\ Accepted(config)
  /\ targets' = TargetsOf(config)
  /\ pc' = IF targets' = << >> THEN "running" ELSE "migrate"
  /\ UNCHANGED <<config, diskVars, i, lastSent, log, received, boundVars>>

Target == targets[i]

\* WriteFile of the marker.
MarkerFailed == marker' \in {marker, marker \/ TornMarker}

\* Mutant: the marker is written and not read.
MigrateAgain ==
  /\ pc = "migrate"
  /\ LET dest == file[Target.checkpoint]
         settled == Target.legacy = None
     IN \/ /\ settled \/ (dest = Missing /\ file[Legacy] = Missing)
           /\ pc' = "open" /\ UNCHANGED <<marker, i, targets, lastSent>>
        \/ /\ ~settled /\ dest # Missing
           /\ marker' = TRUE /\ pc' = "open" /\ UNCHANGED <<i, targets, lastSent>>
        \/ /\ ~settled /\ dest = Missing /\ file[Legacy] # Missing
           /\ pc' = "create" /\ UNCHANGED <<marker, i, targets, lastSent>>
  /\ UNCHANGED <<config, disk, file, log, received, boundVars>>

\* MigrateCheckpoint up to the creation of the destination.
Migrate ==
  /\ pc = "migrate"
  /\ LET dest == file[Target.checkpoint]
         settled == Target.legacy = None \/ marker
     IN \/ /\ settled \/ (dest = Missing /\ file[Legacy] = Missing)
           /\ pc' = "open" /\ UNCHANGED <<marker, i, targets, lastSent>>
        \/ /\ ~settled /\ dest # Missing
           /\ \/ marker' = TRUE /\ pc' = "open" /\ UNCHANGED <<i, targets, lastSent>>
              \/ MarkerFailed /\ Fatal
        \/ /\ ~settled /\ dest = Missing /\ file[Legacy] # Missing
           /\ pc' = "create" /\ UNCHANGED <<marker, i, targets, lastSent>>
  /\ UNCHANGED <<config, disk, file, log, received, boundVars>>

\* Mutant: the marker is written before the copy.
CreateMarked ==
  /\ pc = "create"
  /\ file' = [file EXCEPT ![Target.checkpoint] = Torn]
  /\ marker' = TRUE
  /\ pc' = "write"
  /\ UNCHANGED <<config, disk, i, targets, lastSent, log, received, boundVars>>

Create ==
  /\ pc = "create"
  /\ \/ /\ file' = [file EXCEPT ![Target.checkpoint] = Torn]
        /\ pc' = "write" /\ UNCHANGED <<i, targets, lastSent>>
     \/ Fatal /\ UNCHANGED file
  /\ UNCHANGED <<config, disk, marker, log, received, boundVars>>

RemoveCopy == file' = [file EXCEPT ![Target.checkpoint] = Missing]

\* Mutant: what has failed is left behind.
WriteLeaves ==
  /\ pc = "write"
  /\ \/ /\ file' = [file EXCEPT ![Target.checkpoint] = file[Legacy]]
        /\ pc' = "mark" /\ UNCHANGED <<i, targets, lastSent>>
     \/ UNCHANGED file /\ Fatal
  /\ UNCHANGED <<config, disk, marker, log, received, boundVars>>

\* Write, Sync and Close; the deferred function removes what has failed.
Write ==
  /\ pc = "write"
  /\ \/ /\ file' = [file EXCEPT ![Target.checkpoint] = file[Legacy]]
        /\ pc' = "mark" /\ UNCHANGED <<i, targets, lastSent>>
     \/ RemoveCopy /\ Fatal
  /\ UNCHANGED <<config, disk, marker, log, received, boundVars>>

Mark ==
  /\ pc = "mark"
  /\ \/ /\ marker' = TRUE /\ pc' = "open"
        /\ UNCHANGED <<file, i, targets, lastSent>>
     \/ RemoveCopy /\ MarkerFailed /\ Fatal
  /\ UNCHANGED <<config, disk, log, received, boundVars>>

\* New with loadCheckpoint, and the start of the worker; a torn checkpoint is
\* fatal.
Open ==
  /\ pc = "open"
  /\ LET saved == file[Target.checkpoint] IN
     IF saved = Torn THEN Down
     ELSE /\ lastSent' = (Target.url :> IF saved = Missing THEN 0 ELSE saved) @@ lastSent
          /\ IF i < Len(targets) THEN pc' = "migrate" /\ i' = i + 1
             ELSE pc' = "running" /\ UNCHANGED i
          /\ UNCHANGED targets
  /\ UNCHANGED <<config, diskVars, log, received, boundVars>>

Setup == Migrate \/ Create \/ Write \/ Mark \/ Open

(***************************************************************************)
(* Targets that run; the others may still be starting.                     *)
(***************************************************************************)

Emit ==
  /\ pc = "running" /\ log < MaxSeq
  /\ log' = log + 1
  /\ UNCHANGED <<config, diskVars, processVars, received, boundVars>>

Checkpoint(u) == (CHOOSE t \in Range(targets) : t.url = u).checkpoint

\* The receiver accepts the next event; then the checkpoint is saved, or not.
Deliver(u) ==
  /\ u \in DOMAIN lastSent /\ lastSent[u] < log
  /\ LET n == lastSent[u] + 1 IN
     /\ received' = [received EXCEPT ![u] = @ \cup {n}]
     /\ \/ /\ lastSent' = [lastSent EXCEPT ![u] = n]
           /\ file' = [file EXCEPT ![Checkpoint(u)] = n]
        \/ disk = "full" /\ UNCHANGED <<lastSent, file>>
  /\ UNCHANGED <<config, disk, marker, pc, i, targets, log, boundVars>>

Crash ==
  /\ pc # "down" /\ crashes < MaxCrashes /\ crashes' = crashes + 1
  /\ pc = "write" => TornCreate
  /\ Down
  /\ UNCHANGED <<config, diskVars, log, received, edits>>

Next ==
  \/ Edit \/ DiskChange \/ Boot
  \/ Migrate \/ Create \/ Write \/ Mark \/ Open
  \/ Emit \/ (\E u \in URLs : Deliver(u)) \/ Crash

Spec == Init /\ [][Next]_vars

\* The setup goes on, and systemd restarts the process.
FairSpec == Spec /\ WF_vars(Setup) /\ WF_vars(Boot)

-----------------------------------------------------------------------------

\* The shape of the state; no two targets share a checkpoint.
TypeOK ==
  /\ config \in Configs /\ disk \in {"ok", "full"} /\ marker \in BOOLEAN
  /\ file \in [Paths -> {Missing, Torn} \cup 0..MaxSeq]
  /\ pc \in {"down", "migrate", "create", "write", "mark", "open", "running"}
  /\ i \in 1..2 /\ DOMAIN lastSent \subseteq URLs /\ log \in 0..MaxSeq
  /\ received \in [URLs -> SUBSET (1..MaxSeq)]
  /\ \A m, n \in DOMAIN targets : m # n => targets[m].checkpoint # targets[n].checkpoint

\* "A different first URL in a later configuration must start with its own empty
\* checkpoint rather than inherit the old receiver's delivery position": a target
\* resumes after events its own receiver has, whatever the order and the number
\* of urls was before and wherever a migration stopped, as long as
\* remote_write.url keeps its receiver.
NothingSkipped == \A u \in DOMAIN lastSent : 1..lastSent[u] \subseteq received[u]

\* "Its legacy checkpoint is copied once": the migration is marked as done only
\* when a receiver has the checkpoint it was to get, and a marked migration is
\* never undone.
MarkedWhenCopied ==
  [][ /\ marker' /\ ~marker => file'[Target.checkpoint] \notin {Missing, Torn}
      /\ marker => marker' ]_vars

\* "its slot size must be valid even when Remote Write delivery is disabled".
\* The code does not keep it: README.md, Known limits.
SlotSizeValid == pc = "running" => config.window \in 5..60 /\ 60 % config.window = 0

\* With a configuration that Load accepts, and a disk with space, the exporter
\* comes up and stays up: no earlier configuration, failure or crash leaves
\* files that keep it from starting.
Starts == <>[](disk = "ok" /\ Accepted(config)) => <>[](pc = "running")

=============================================================================
