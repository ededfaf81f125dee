--------------------------- MODULE PlacementStore ---------------------------
(***************************************************************************)
(* From a reservation to the state file: the Go plugin's Reserve,          *)
(* Unreserve and PostBind, the sidecar's PlacementCommitted and reset, and *)
(* StatePersistence, which saves what was committed to disk and loads it   *)
(* at start.                                                               *)
(*                                                                         *)
(* The sidecar's threads run Python bytecode one at a time. A thread can   *)
(* lose its turn only when it calls something, so PlacementCommitted       *)
(* changes map and counter in one step, while a reset and a save take      *)
(* several. A pod is bound once, to one node: the map is the set of its    *)
(* keys.                                                                   *)
(*                                                                         *)
(* Two threads save: the save loop, and the signal handler (on the main    *)
(* thread) at shutdown. Both write <path>.tmp and rename it to <path>. A   *)
(* saver's open file is followed by saying where the file is now: at the   *)
(* temporary name, at the final one, or replaced there ("gone").           *)
(***************************************************************************)
EXTENDS Integers, FiniteSets

CONSTANTS Pods,
          MaxRollbacks,  \* bound on the bindings that fail
          MaxResets,     \* bound on resets
          MaxCrashes,    \* bound on kills and restarts of either process
          MaxErrors      \* bound on saves that the disk makes fail

ASSUME StoreAssumption ==
  /\ IsFiniteSet(Pods)
  /\ MaxRollbacks \in Nat /\ MaxResets \in Nat /\ MaxCrashes \in Nat
  /\ MaxErrors \in Nat

VARIABLES
  phase,      \* of each pod, in the scheduler
  reserved,   \* reservedPlacements
  rollbacks,  \* Unreserve calls so far
  running,    \* the sidecar process
  placements, total, phantom,  \* the servicer's state
  resetting,  \* a reset has cleared the map and not yet the counters
  resets, crashes, errors,
  saver,      \* each saver's progress and what it holds
  stopSet,    \* StatePersistence._stop_event
  tmp, file,  \* contents at the two names
  overlapped, durable  \* history: two saves met; what the last save must hold

pluginVars == <<phase, reserved, rollbacks>>
servicerVars == <<placements, total, phantom, resetting>>
diskVars == <<tmp, file>>
history == <<overlapped, durable>>
bounds == <<resets, crashes, errors>>
vars == <<pluginVars, running, servicerVars, bounds, saver, stopSet, diskVars, history>>

Savers == {"loop", "handler"}
Other(s) == IF s = "loop" THEN "handler" ELSE "loop"

Phases == {"waiting", "reserved", "rolling", "committing", "replying", "acked", "lost"}
\* Pods that are bound and whose commit the sidecar may have seen.
Committed == {p \in Pods : phase[p] \in {"replying", "acked", "lost"}}

Alive == running \in {"up", "stopping"}

Snapshots == [placements : SUBSET Pods, total : Nat, phantom : Nat]
\* "torn": empty, cut off or overlaid, in any case not a JSON document.
Absent == [kind |-> "absent"]
Torn == [kind |-> "torn"]
Saved(snap) == [kind |-> "saved", snap |-> snap]
IsContent(c) == c \in {Absent, Torn} \/ (c.snap \in Snapshots /\ c = Saved(c.snap))

\* at: between which statements of save(). base (history): what the map held
\* when save() began, less what a reset has cleared since. total, phantom: the
\* counters copied into data. seen: the map when json.dump started to iterate
\* over it. held: the keys the map has had since. dirty: the other saver has
\* written into the file this one has open.
SaverStates ==
  [at : {"idle", "read", "open", "written", "ended"}, base : SUBSET Pods,
   total : Nat, phantom : Nat, seen : SUBSET Pods, held : SUBSET Pods, dirty : BOOLEAN,
   target : {"tmp", "file", "gone"}]
IdleSaver == [at |-> "idle", base |-> {}, total |-> 0, phantom |-> 0,
              seen |-> {}, held |-> {}, dirty |-> FALSE, target |-> "tmp"]

\* Types; and the map of reservations holds the pods in a binding cycle only.
TypeOK ==
  /\ phase \in [Pods -> Phases]
  /\ reserved = {p \in Pods : phase[p] = "reserved"}
  /\ rollbacks \in 0..MaxRollbacks
  /\ running \in {"up", "stopping", "exited", "killed"}
  /\ placements \in SUBSET Pods /\ total \in Nat /\ phantom \in Nat
  /\ resetting \in BOOLEAN
  /\ resets \in 0..MaxResets /\ crashes \in 0..MaxCrashes
  /\ errors \in 0..MaxErrors
  /\ saver \in [Savers -> SaverStates]
  /\ stopSet \in BOOLEAN
  /\ IsContent(tmp) /\ IsContent(file)
  /\ overlapped \in BOOLEAN /\ durable \in SUBSET Pods

\* __init__ with no state file, and the plugin before its first pod.
Init ==
  /\ phase = [p \in Pods |-> "waiting"] /\ reserved = {} /\ rollbacks = 0
  /\ running = "up"
  /\ placements = {} /\ total = 0 /\ phantom = 0 /\ resetting = FALSE
  /\ resets = 0 /\ crashes = 0 /\ errors = 0
  /\ saver = [s \in Savers |-> IdleSaver]
  /\ stopSet = FALSE
  /\ tmp = Absent /\ file = Absent
  /\ overlapped = FALSE /\ durable = {}

-----------------------------------------------------------------------------
(* The plugin *)

Sidecar == <<running, servicerVars, bounds, saver, stopSet, diskVars, history>>

Reserve(p) ==
  /\ phase[p] = "waiting"
  /\ phase' = [phase EXCEPT ![p] = "reserved"]
  /\ reserved' = reserved \union {p}
  /\ UNCHANGED <<rollbacks, Sidecar>>

\* PostBind: the pod is bound. The call fails at once if nobody listens; its error is
\* logged and that is all.
PostBind(p) ==
  /\ phase[p] = "reserved"
  /\ reserved' = reserved \ {p}
  /\ phase' = [phase EXCEPT ![p] = IF Alive THEN "committing" ELSE "lost"]
  /\ UNCHANGED <<rollbacks, Sidecar>>

\* (Bug: the reservation stays.)
UnreserveKeeps(p) ==
  /\ phase[p] = "reserved"
  /\ rollbacks < MaxRollbacks
  /\ rollbacks' = rollbacks + 1
  /\ phase' = [phase EXCEPT ![p] = IF Alive THEN "rolling" ELSE "waiting"]
  /\ UNCHANGED <<reserved, Sidecar>>

Unreserve(p) ==
  /\ phase[p] = "reserved"
  /\ rollbacks < MaxRollbacks
  /\ rollbacks' = rollbacks + 1
  /\ reserved' = reserved \ {p}
  /\ phase' = [phase EXCEPT ![p] = IF Alive THEN "rolling" ELSE "waiting"]
  /\ UNCHANGED Sidecar

\* The reply of a commit arrives.
Acked(p) ==
  /\ phase[p] = "replying"
  /\ phase' = [phase EXCEPT ![p] = "acked"]
  /\ UNCHANGED <<reserved, rollbacks, Sidecar>>

\* The calls in progress end in an error, which Unreserve and PostBind ignore.
Disconnected ==
  [p \in Pods |-> CASE phase[p] \in {"committing", "replying"} -> "lost"
                    [] phase[p] = "rolling" -> "waiting"
                    [] OTHER -> phase[p]]

\* The scheduler is killed and starts again: its calls are cancelled, the map
\* is empty, and a pod in a binding cycle was bound already or starts over.
SchedulerRestarts ==
  /\ crashes < MaxCrashes
  /\ crashes' = crashes + 1
  /\ \E done \in SUBSET reserved :
       phase' = [p \in Pods |-> IF p \in done THEN "lost"
                                ELSE IF p \in reserved THEN "waiting" ELSE Disconnected[p]]
  /\ reserved' = {}
  /\ UNCHANGED <<rollbacks, running, servicerVars, resets, errors, saver, stopSet, diskVars, history>>

-----------------------------------------------------------------------------
(* The servicer *)

\* A dump under way may meet pod p from now on.
Holding(p) ==
  [s \in Savers |-> IF saver[s].at = "open"
                     THEN [saver[s] EXCEPT !.held = @ \union {p}] ELSE saver[s]]

\* (Bug: a call whose reply is late is executed again.)
CommitRepeated(p) ==
  /\ Alive
  /\ phase[p] \in {"committing", "replying"}
  /\ total <= Cardinality(Pods)
  /\ placements' = placements \union {p}
  /\ total' = total + 1
  /\ phase' = [phase EXCEPT ![p] = "replying"]
  /\ saver' = Holding(p)
  /\ UNCHANGED <<reserved, rollbacks, running, phantom, resetting, bounds, stopSet,
                 diskVars, history>>

\* PlacementCommitted with success.
Commit(p) ==
  /\ Alive
  /\ phase[p] = "committing"
  /\ placements' = placements \union {p}
  /\ total' = total + 1
  /\ phase' = [phase EXCEPT ![p] = "replying"]
  /\ saver' = Holding(p)
  /\ UNCHANGED <<reserved, rollbacks, running, phantom, resetting, bounds, stopSet,
                 diskVars, history>>

\* (Bug: the flag is not looked at.)
RollbackDeposits(p) ==
  /\ Alive
  /\ phase[p] = "rolling"
  /\ placements' = placements \union {p}
  /\ phantom' = phantom + 1
  /\ phase' = [phase EXCEPT ![p] = "waiting"]
  /\ UNCHANGED <<reserved, rollbacks, running, total, resetting, bounds,
                 saver, stopSet, diskVars, history>>

\* PlacementCommitted without success.
Rollback(p) ==
  /\ Alive
  /\ phase[p] = "rolling"
  /\ phantom' = phantom + 1
  /\ phase' = [phase EXCEPT ![p] = "waiting"]
  /\ UNCHANGED <<reserved, rollbacks, running, placements, total, resetting, bounds,
                 saver, stopSet, diskVars, history>>

\* ScoreNodes for the pod "reset": clear() is a call, after which other threads
\* may run; the two counters follow in one go.
ResetMap ==
  /\ Alive /\ ~resetting
  /\ resets < MaxResets
  /\ resets' = resets + 1
  /\ placements' = {}
  /\ resetting' = TRUE
  /\ durable' = {}
  /\ saver' = [s \in Savers |-> [saver[s] EXCEPT !.base = {}]]
  /\ UNCHANGED <<pluginVars, running, total, phantom, crashes, errors, stopSet, diskVars, overlapped>>

ResetCounters ==
  /\ Alive /\ resetting
  /\ total' = 0 /\ phantom' = 0
  /\ resetting' = FALSE
  /\ UNCHANGED <<pluginVars, running, placements, bounds, saver, stopSet, diskVars, history>>

-----------------------------------------------------------------------------
(* StatePersistence.save, by the save loop and by the signal handler *)

\* data = {...}: the counters are copied, the map is not.
Begin(s) ==
  /\ saver' = [saver EXCEPT ![s] = [IdleSaver EXCEPT !.at = "read", !.base = placements,
                                                     !.total = total, !.phantom = phantom]]
  /\ UNCHANGED <<pluginVars, servicerVars, bounds, diskVars, history>>

\* The five minutes are over, or stop() has set the event.
LoopSaves ==
  /\ Alive
  /\ saver["loop"].at = "idle"
  /\ Begin("loop")
  /\ UNCHANGED <<running, stopSet>>

\* SIGTERM or SIGINT. The gRPC server goes on serving.
Signal ==
  /\ running = "up"
  /\ running' = "stopping"
  /\ Begin("handler")
  /\ UNCHANGED stopSet

\* open(tmp_path, "w") truncates, and json.dump begins to iterate.
Open(s) ==
  /\ saver[s].at = "read"
  /\ saver' = [saver EXCEPT ![s].at = "open", ![s].seen = placements,
                                 ![s].held = placements]
  /\ tmp' = Torn
  /\ overlapped' = (overlapped \/ saver[Other(s)].at \in {"open", "written"})
  /\ UNCHANGED <<pluginVars, running, servicerVars, bounds, stopSet, file, durable>>

\* Saver s leaves content c in the file it has open.
Put(s, c) ==
  /\ tmp' = IF saver[s].target = "tmp" THEN c ELSE tmp
  /\ file' = IF saver[s].target = "file" THEN c ELSE file

\* Saver s has closed its file; the other one may have the same file open.
Closed(s, next) ==
  saver' = [saver EXCEPT
    ![s] = next,
    ![Other(s)].dirty = @ \/ /\ saver[Other(s)].at = "open"
                             /\ saver[Other(s)].target = saver[s].target]

\* After its save the loop waits again, unless stop() was called.
Done(s) == [IdleSaver EXCEPT !.at = IF s = "handler" \/ stopSet THEN "ended" ELSE "idle"]

\* The items are read one by one as the dump goes on: it ends in "dictionary
\* changed size during iteration" when the number of keys is not what it was
\* at the start. An empty map is written without iterating.
Iterates(s) ==
  saver[s].seen # {} => Cardinality(placements) = Cardinality(saver[s].seen)

\* What it may have written then: as many keys as there were at the start, but
\* after a reset that as many commits have followed some of them are new ones.
Dumped(s) ==
  {ps \in SUBSET saver[s].held : Cardinality(ps) = Cardinality(saver[s].seen)}

\* The dump goes through and the file is closed. Where the other saver has
\* written too the two texts overlay each other, and the longer one's end stays.
Flush(s) ==
  /\ saver[s].at = "open"
  /\ Iterates(s)
  /\ \E c \in {Saved([placements |-> ps, total |-> saver[s].total, phantom |-> saver[s].phantom]) :
                 ps \in Dumped(s)} :
       Put(s, c) \/ (saver[s].dirty /\ Put(s, Torn))
  /\ Closed(s, [IdleSaver EXCEPT !.at = "written", !.base = saver[s].base])
  /\ UNCHANGED <<pluginVars, running, servicerVars, bounds, stopSet, history>>

\* (Bug: what there is of the file is renamed all the same.)
SaveFailsRenames(s) ==
  /\ saver[s].at = "open"
  /\ ~Iterates(s)
  /\ Put(s, Torn)
  /\ Closed(s, [IdleSaver EXCEPT !.at = "written", !.base = saver[s].base])
  /\ UNCHANGED <<pluginVars, running, servicerVars, bounds, stopSet, history>>

\* (Bug: the error ends the thread.)
SaveFailsDies(s) ==
  /\ saver[s].at = "open"
  /\ ~Iterates(s)
  /\ Put(s, Torn)
  /\ Closed(s, [IdleSaver EXCEPT !.at = "ended"])
  /\ UNCHANGED <<pluginVars, running, servicerVars, bounds, stopSet, history>>

\* The error is caught. The beginning of the text is in the file; over a text
\* of the other saver that begins alike it makes no difference.
GivesUp(s) ==
  /\ saver[s].at = "open"
  /\ Put(s, Torn) \/ (saver[s].dirty /\ UNCHANGED diskVars)
  /\ Closed(s, Done(s))

SaveFails(s) ==
  /\ ~Iterates(s)
  /\ GivesUp(s)
  /\ UNCHANGED <<pluginVars, running, servicerVars, bounds, stopSet, history>>

\* An OSError, which is caught too: the file cannot be opened, written or
\* renamed.
DiskFails(s) ==
  /\ errors < MaxErrors /\ errors' = errors + 1
  /\ \/ GivesUp(s)
     \/ /\ saver[s].at \in {"read", "written"}
        /\ saver' = [saver EXCEPT ![s] = Done(s)]
        /\ UNCHANGED diskVars
  /\ UNCHANGED <<pluginVars, running, servicerVars, resets, crashes, stopSet, history>>

\* Where the file a saver has open is once the temporary one has been renamed.
Moved(s) == IF saver[s].at # "open" THEN "tmp"
            ELSE IF saver[s].target = "tmp" THEN "file" ELSE "gone"

\* os.rename moves whatever is at the temporary name now; if the other saver
\* has moved it already the error is caught.
Rename(s) ==
  /\ saver[s].at = "written"
  /\ IF tmp = Absent
     THEN /\ saver' = [saver EXCEPT ![s] = Done(s)]
          /\ UNCHANGED <<diskVars, durable>>
     ELSE /\ file' = tmp /\ tmp' = Absent
          /\ saver' = [saver EXCEPT ![s] = Done(s), ![Other(s)].target = Moved(Other(s))]
          /\ durable' = saver[s].base
  /\ UNCHANGED <<pluginVars, running, servicerVars, bounds, stopSet, overlapped>>

-----------------------------------------------------------------------------
(* The process *)

\* The handler's save is over: stop() wakes the loop for a last save, the HTTP
\* server and then the gRPC server are shut down, and the interpreter exits
\* without waiting for the loop, a daemon thread.
StopLoop ==
  /\ saver["handler"].at = "ended"
  /\ ~stopSet
  /\ stopSet' = TRUE
  /\ UNCHANGED <<pluginVars, running, servicerVars, bounds, saver, diskVars, history>>

Gone ==
  /\ phase' = Disconnected
  /\ saver' = [s \in Savers |-> IdleSaver]
  /\ stopSet' = FALSE
  /\ resetting' = FALSE
  /\ placements' = {} /\ total' = 0 /\ phantom' = 0
  /\ UNCHANGED <<reserved, rollbacks, resets, errors, diskVars, history>>

Exit ==
  /\ running = "stopping" /\ stopSet
  /\ running' = "exited"
  /\ Gone
  /\ UNCHANGED crashes

Kill ==
  /\ Alive
  /\ crashes < MaxCrashes
  /\ crashes' = crashes + 1
  /\ running' = "killed"
  /\ Gone

\* load(): a missing or unreadable file means starting from nothing.
Restart ==
  /\ ~Alive
  /\ running' = "up"
  /\ IF file.kind = "saved"
     THEN /\ placements' = file.snap.placements
          /\ total' = file.snap.total /\ phantom' = file.snap.phantom
     ELSE UNCHANGED <<placements, total, phantom>>
  /\ UNCHANGED <<pluginVars, resetting, bounds, saver, stopSet, diskVars, history>>

Next ==
  \/ \E p \in Pods : \/ Reserve(p) \/ PostBind(p) \/ Unreserve(p) \/ Acked(p)
                     \/ Commit(p) \/ Rollback(p)
  \/ SchedulerRestarts
  \/ ResetMap \/ ResetCounters
  \/ LoopSaves \/ Signal
  \/ \E s \in Savers : Open(s) \/ Flush(s) \/ SaveFails(s) \/ DiskFails(s) \/ Rename(s)
  \/ StopLoop \/ Exit \/ Kill \/ Restart

Spec == Init /\ [][Next]_vars

\* The interpreter lets every thread of a running process go on, and the save
\* loop's five minutes pass. Nothing is assumed of the scheduler, of signals or
\* of crashes; the disk fails a bounded number of times.
FairSpec ==
  /\ Spec
  /\ WF_vars(LoopSaves) /\ WF_vars(StopLoop) /\ WF_vars(Exit)
  /\ \A s \in Savers : WF_vars(Open(s)) /\ WF_vars(Flush(s) \/ SaveFails(s)) /\ WF_vars(Rename(s))

-----------------------------------------------------------------------------
InFile == IF file.kind = "saved" THEN file.snap.placements ELSE {}

\* learning/Project_Tutor.md, "keeping the state clean": neither the memory nor
\* the state file ever names a pod that has not been bound, whatever is rolled
\* back, lost, saved and loaded in between (PlacementCommitted, save, load).
NoPhantomDeposit == placements \union InFile \subseteq Committed

\* Every deposit is counted once, and so is every rollback: no count, in memory
\* or in the file, is higher than what the plugin reported, even after a lost
\* reply or a restart.
CountedOnce ==
  /\ total <= Cardinality(Committed) /\ phantom <= rollbacks
  /\ file.kind = "saved" => /\ file.snap.total <= Cardinality(Committed)
                            /\ file.snap.phantom <= rollbacks

\* As long as two saves have never met, the file can be loaded at every moment,
\* and everything committed before the last finished save began is in it: no
\* later save, failed or not, and no crash takes it away.
SavesAreKept == ~overlapped => file # Torn /\ durable \subseteq InFile

\* A sidecar that stays up in the end has saved what it was told and nothing
\* that was reset: a save that a commit has spoiled is repeated.
EventuallySaved == <>[](running = "up") => <>[](placements = InFile)
=============================================================================
