-------------------------- MODULE TunnelLifecycle --------------------------
(***************************************************************************)
(* One local tunnel of the paired runtime: the workers that serve it and   *)
(* the three commands that may take it away from them, the terminal alarm  *)
(* (SetLocked), local removal and restore, and the replacement of a        *)
(* receiver's identity by exchanging its state directory                   *)
(* (internal/pairruntime/store.go, removal.go, rebuild.go,                 *)
(* internal/paircmd/broker_linux.go).                                      *)
(*                                                                         *)
(* The state directory is named by a path; every operation opens it anew,  *)
(* and RebuildReceiver exchanges the directory behind the path, so each    *)
(* opening is a step of its own here.  active.lock, service.lock and       *)
(* policy.lock are advisory locks on files of ONE directory.  A policy's   *)
(* generation moves only with its locked flag and is left out.             *)
(***************************************************************************)
EXTENDS Naturals, FiniteSets

CONSTANTS
    Workers,          \* processes that may serve the tunnel
    MaxReplacements,  \* bound: RebuildReceiver calls that publish a directory
    MaxFloor          \* bound: the highest peer floor a worker records

ASSUME TunnelBounds ==
    /\ MaxReplacements \in Nat /\ MaxFloor \in Nat
    /\ Workers \cap {"free", "kill", "maint"} = {}   \* they name other lock holders

Directories == 1 .. MaxReplacements + 1
Nowhere == 0

VARIABLES
    target,      \* TRUE on the Target: authority, service.lock and rebuild exist
    current,     \* the directory the path selects
    policy,      \* policy.json of each directory
    authority,   \* the receiver authority of the directory is locked or retired
    removal,     \* removed.json: "none", "removing" or "removed"
    work,        \* each worker: its step and the directories it holds
    floor,       \* each worker's RecordPeerFloor in flight
    maint,       \* the command under setup.lock, if any
    kill,        \* the alarm command in flight
    policyLock,  \* who holds policy.lock of each directory
    acked        \* alarms reported done: the directory denied, the one drained

tunnelVars == << target, current, policy, authority, removal, work, floor,
                 maint, kill, policyLock, acked >>

Fresh == [locked |-> FALSE, floor |-> 0]
IdleWorker == [at |-> "idle", root |-> Nowhere, gate |-> Nowhere,
               checked |-> Nowhere, service |-> Nowhere]
IdleFloor == [at |-> "idle", root |-> Nowhere, read |-> Fresh]
IdleMaint == [op |-> "none", at |-> "idle", root |-> Nowhere,
              active |-> FALSE, service |-> FALSE]
IdleKill == [at |-> "idle", root |-> Nowhere, read |-> Fresh]

TunnelInit ==
    /\ target \in BOOLEAN
    /\ current = 1
    /\ policy = [d \in Directories |-> Fresh]
    /\ authority = [d \in Directories |-> FALSE]
    /\ removal = [d \in Directories |-> "none"]
    /\ work = [w \in Workers |-> IdleWorker]
    /\ floor = [w \in Workers |-> IdleFloor]
    /\ maint = IdleMaint
    /\ kill = IdleKill
    /\ policyLock = [d \in Directories |-> "free"]
    /\ acked = {}

-----------------------------------------------------------------------------
(* What the locks and the policy say.                                      *)

\* tryFlock shared: refused while a command holds the lock exclusively.
SharedFree(d) == ~(maint.active /\ maint.root = d)

\* tryFlock exclusive on active.lock: refused while any process holds it.
ActiveFree(d) == SharedFree(d) /\ \A w \in Workers : work[w].gate # d

ServiceFree(d) ==
    /\ ~(maint.service /\ maint.root = d)
    /\ \A w \in Workers : work[w].service # d

\* ReadPolicy fails on a marker of either phase; the callers also refuse a
\* locked policy.
Denied(d) == policy[d].locked \/ removal[d] # "none"

Serving(w) == work[w].at \in {"running", "stopping"}

-----------------------------------------------------------------------------
(* Workers: serveBroker and openClient.                                    *)

UnlocksPolicy(who) ==
    policyLock' = [d \in Directories |->
                     IF policyLock[d] = who THEN "free" ELSE policyLock[d]]

\* The process is gone: the kernel closes its descriptors and locks.
Leaves(w) ==
    /\ work' = [work EXCEPT ![w] = IdleWorker]
    /\ floor' = [floor EXCEPT ![w] = IdleFloor]
    /\ UnlocksPolicy(w)

\* Admission, first half: open the directory the path selects now.
AdmitOpen(w) ==
    /\ work[w].at = "idle"
    /\ work' = [work EXCEPT ![w].at = "opened", ![w].root = current]
    /\ UNCHANGED << target, current, policy, authority, removal, floor, maint,
                    kill, policyLock, acked >>

AdmitLock(w) ==
    /\ work[w].at = "opened"
    /\ work' = [work EXCEPT ![w] =
                  IF SharedFree(@.root)
                  THEN [@ EXCEPT !.at = "locked", !.gate = work[w].root]
                  ELSE IdleWorker]
    /\ UNCHANGED << target, current, policy, authority, removal, floor, maint,
                    kill, policyLock, acked >>

\* ReadPolicy(path) under the shared lock; the path is resolved again.
AdmitCheck(w) ==
    /\ work[w].at = "locked"
    /\ work' = [work EXCEPT ![w] =
                  IF Denied(current) THEN IdleWorker
                  ELSE [@ EXCEPT !.at = IF target THEN "admitted" ELSE "running",
                                 !.checked = current]]
    /\ UNCHANGED << target, current, policy, authority, removal, floor, maint,
                    kill, policyLock, acked >>

\* serveBroker opens the directory again for service.lock ...
ServeOpen(w) ==
    /\ work[w].at = "admitted"
    /\ work' = [work EXCEPT ![w].at = "serve", ![w].root = current]
    /\ UNCHANGED << target, current, policy, authority, removal, floor, maint,
                    kill, policyLock, acked >>

\* ... and starts its child only when it holds it.
ServeLock(w) ==
    /\ work[w].at = "serve"
    /\ work' = [work EXCEPT ![w] =
                  IF ServiceFree(@.root)
                  THEN [@ EXCEPT !.at = "running", !.service = work[w].root]
                  ELSE IdleWorker]
    /\ UNCHANGED << target, current, policy, authority, removal, floor, maint,
                    kill, policyLock, acked >>

\* The 100 ms watcher: ReadPolicy(path) failed or is locked, cancel.
WatchPolicy(w) ==
    /\ work[w].at = "running"
    /\ Denied(current)
    /\ work' = [work EXCEPT ![w].at = "stopping"]
    /\ UNCHANGED << target, current, policy, authority, removal, floor, maint,
                    kill, policyLock, acked >>

\* The session or the child ends by itself.
WorkEnds(w) ==
    /\ work[w].at = "running"
    /\ work' = [work EXCEPT ![w].at = "stopping"]
    /\ UNCHANGED << target, current, policy, authority, removal, floor, maint,
                    kill, policyLock, acked >>

\* cmd.Wait returned: the deferred Close calls release both locks.
Released(w) ==
    /\ work[w].at = "stopping"
    /\ Leaves(w)
    /\ UNCHANGED << target, current, policy, authority, removal, maint, kill,
                    acked >>

\* The broker is killed; Pdeathsig takes the child with it.
WorkerDies(w) ==
    /\ work[w].at # "idle"
    /\ Leaves(w)
    /\ UNCHANGED << target, current, policy, authority, removal, maint, kill,
                    acked >>

-----------------------------------------------------------------------------
(* RecordPeerFloor of a serving worker: ReadPolicy, then updatePolicy.     *)

FloorOpen(w) ==
    /\ Serving(w)
    /\ floor[w].at = "idle"
    /\ removal[current] = "none"
    /\ policy[current].floor < MaxFloor
    /\ floor' = [floor EXCEPT ![w].at = "open", ![w].root = current]
    /\ UNCHANGED << target, current, policy, authority, removal, work, maint,
                    kill, policyLock, acked >>

\* Mutant: updatePolicy reads the policy before it holds policy.lock.
FloorLockReadsFirst(w) ==
    /\ floor[w].at = "open"
    /\ floor' = [floor EXCEPT ![w].at = "write", ![w].read = policy[current]]
    /\ UNCHANGED << target, current, policy, authority, removal, work, maint,
                    kill, policyLock, acked >>

\* The lock is not waited for: a busy policy.lock fails the operation.
FloorLock(w) ==
    /\ floor[w].at = "open"
    /\ LET root == floor[w].root IN
       IF policyLock[root] = "free"
       THEN /\ policyLock' = [policyLock EXCEPT ![root] = w]
            /\ floor' = [floor EXCEPT ![w].at = "read"]
       ELSE /\ floor' = [floor EXCEPT ![w] = IdleFloor]
            /\ UNCHANGED policyLock
    /\ UNCHANGED << target, current, policy, authority, removal, work, maint,
                    kill, acked >>

\* ReadRetainedPolicy(path): the path again, not the locked directory.
FloorRead(w) ==
    /\ floor[w].at = "read"
    /\ floor' = [floor EXCEPT ![w].at = "write", ![w].read = policy[current]]
    /\ UNCHANGED << target, current, policy, authority, removal, work, maint,
                    kill, policyLock, acked >>

FloorWrite(w) ==
    /\ floor[w].at = "write"
    /\ \E g \in floor[w].read.floor .. MaxFloor :
         policy' = [policy EXCEPT ![floor[w].root] =
                      [floor[w].read EXCEPT !.floor = g]]
    /\ floor' = [floor EXCEPT ![w] = IdleFloor]
    /\ UnlocksPolicy(w)
    /\ UNCHANGED << target, current, authority, removal, work, maint, kill,
                    acked >>

-----------------------------------------------------------------------------
(* SetLocked of the lock, alarm and killswitch commands.  It does not take *)
(* setup.lock.                                                             *)

\* Target only: the authority is locked and the peer revoked first.
KillAuthority ==
    /\ kill.at = "idle"
    /\ authority' = IF target THEN [authority EXCEPT ![current] = TRUE]
                              ELSE authority
    /\ kill' = [kill EXCEPT !.at = "open"]
    /\ UNCHANGED << target, current, policy, removal, work, floor, maint,
                    policyLock, acked >>

KillOpen ==
    /\ kill.at = "open"
    /\ kill' = [kill EXCEPT !.at = "lock", !.root = current]
    /\ UNCHANGED << target, current, policy, authority, removal, work, floor,
                    maint, policyLock, acked >>

KillLock ==
    /\ kill.at = "lock"
    /\ IF policyLock[kill.root] = "free"
       THEN /\ policyLock' = [policyLock EXCEPT ![kill.root] = "kill"]
            /\ kill' = [kill EXCEPT !.at = "read"]
       ELSE /\ kill' = IdleKill
            /\ UNCHANGED policyLock
    /\ UNCHANGED << target, current, policy, authority, removal, work, floor,
                    maint, acked >>

KillRead ==
    /\ kill.at = "read"
    /\ kill' = [kill EXCEPT !.at = "write", !.read = policy[current]]
    /\ UNCHANGED << target, current, policy, authority, removal, work, floor,
                    maint, policyLock, acked >>

KillWrite ==
    /\ kill.at = "write"
    /\ policy' = [policy EXCEPT ![kill.root] =
                    [kill.read EXCEPT !.locked = TRUE]]
    /\ kill' = [kill EXCEPT !.at = "drain"]
    /\ UnlocksPolicy("kill")
    /\ UNCHANGED << target, current, authority, removal, work, floor, maint,
                    acked >>

\* Mutant: the acknowledgement waits for service.lock, which an admitted
\* worker takes only later and a client never.
KillDrainService ==
    /\ kill.at = "drain"
    /\ ServiceFree(current)
    /\ acked' = acked \cup {[denied |-> kill.root, drained |-> current]}
    /\ kill' = IdleKill
    /\ UNCHANGED << target, current, policy, authority, removal, work, floor,
                    maint, policyLock >>

\* The directory is opened again for the drain, which ends at the first free
\* active.lock: every worker admitted before the denial has stopped.
KillDrain ==
    /\ kill.at = "drain"
    /\ ActiveFree(current)
    /\ acked' = acked \cup {[denied |-> kill.root, drained |-> current]}
    /\ kill' = IdleKill
    /\ UNCHANGED << target, current, policy, authority, removal, work, floor,
                    maint, policyLock >>

\* An error, the five-second timeout or a dead process: no acknowledgement,
\* and nothing is taken back.
KillFails ==
    /\ kill.at # "idle"
    /\ kill' = IdleKill
    /\ UnlocksPolicy("kill")
    /\ UNCHANGED << target, current, policy, authority, removal, work, floor,
                    maint, acked >>

-----------------------------------------------------------------------------
(* The commands under setup.lock: one at a time.                           *)

\* RemoveLocal: the marker is durable before anything is stopped.
RemoveBegin ==
    /\ maint.op = "none"
    /\ removal' = [removal EXCEPT ![current] = "removing"]
    /\ maint' = [maint EXCEPT !.op = "remove", !.at = "stop", !.root = current]
    /\ UNCHANGED << target, current, policy, authority, work, floor, kill,
                    policyLock, acked >>

\* systemctl disable --now reaches the workers of the installed unit; a
\* foreground serve and a client's proxies are left to the watcher.
RemoveStop ==
    /\ maint.op = "remove" /\ maint.at = "stop"
    /\ \E stopped \in SUBSET {w \in Workers : work[w].at = "running"} :
         work' = [w \in Workers |->
                    IF w \in stopped THEN [work[w] EXCEPT !.at = "stopping"]
                                     ELSE work[w]]
    /\ maint' = [maint EXCEPT !.at = "drain"]
    /\ UNCHANGED << target, current, policy, authority, removal, floor, kill,
                    policyLock, acked >>

\* restoreLocal: only a completed removal can be restored.
RestoreBegin ==
    /\ maint.op = "none"
    /\ removal[current] = "removed"
    /\ maint' = [maint EXCEPT !.op = "restore", !.at = "drain",
                              !.root = current]
    /\ UNCHANGED << target, current, policy, authority, removal, work, floor,
                    kill, policyLock, acked >>

\* drainLocal: active.lock, and while it is held service.lock.
DrainActive ==
    /\ maint.at = "drain"
    /\ ActiveFree(maint.root)
    /\ maint' = [maint EXCEPT !.at = "service", !.active = TRUE]
    /\ UNCHANGED << target, current, policy, authority, removal, work, floor,
                    kill, policyLock, acked >>

DrainService ==
    /\ maint.at = "service"
    /\ maint' = [maint EXCEPT !.active = FALSE,
                              !.at = IF ServiceFree(maint.root)
                                     THEN "commit" ELSE "drain"]
    /\ UNCHANGED << target, current, policy, authority, removal, work, floor,
                    kill, policyLock, acked >>

RemoveCommit ==
    /\ maint.op = "remove" /\ maint.at = "commit"
    /\ removal' = [removal EXCEPT ![maint.root] = "removed"]
    /\ maint' = IdleMaint
    /\ UNCHANGED << target, current, policy, authority, work, floor, kill,
                    policyLock, acked >>

\* commitLocalRestore: under policy.lock the policy, then the authority, then
\* the marker goes.
RestoreLock ==
    /\ maint.op = "restore" /\ maint.at = "commit"
    /\ IF policyLock[maint.root] = "free"
       THEN /\ policyLock' = [policyLock EXCEPT ![maint.root] = "maint"]
            /\ maint' = [maint EXCEPT !.at = "policy"]
       ELSE /\ maint' = IdleMaint
            /\ UNCHANGED policyLock
    /\ UNCHANGED << target, current, policy, authority, removal, work, floor,
                    kill, acked >>

RestorePolicy ==
    /\ maint.op = "restore" /\ maint.at = "policy"
    /\ ~policy[current].locked
    /\ maint' = [maint EXCEPT !.at = IF target THEN "authority" ELSE "unlink"]
    /\ UNCHANGED << target, current, policy, authority, removal, work, floor,
                    kill, policyLock, acked >>

RestoreAuthority ==
    /\ maint.op = "restore" /\ maint.at = "authority"
    /\ ~authority[current]
    /\ maint' = [maint EXCEPT !.at = "unlink"]
    /\ UNCHANGED << target, current, policy, authority, removal, work, floor,
                    kill, policyLock, acked >>

RestoreUnlink ==
    /\ maint.op = "restore" /\ maint.at = "unlink"
    /\ removal' = [removal EXCEPT ![maint.root] = "none"]
    /\ maint' = IdleMaint
    /\ UnlocksPolicy("maint")
    /\ UNCHANGED << target, current, policy, authority, work, floor, kill,
                    acked >>

\* rebuildReceiver: the candidate directory is complete before the old
\* authority is retired.
RebuildBegin ==
    /\ target
    /\ maint.op = "none"
    /\ current <= MaxReplacements
    /\ removal[current] = "none"
    /\ maint' = [maint EXCEPT !.op = "rebuild", !.at = "retire",
                              !.root = current]
    /\ UNCHANGED << target, current, policy, authority, removal, work, floor,
                    kill, policyLock, acked >>

RebuildRetire ==
    /\ maint.op = "rebuild" /\ maint.at = "retire"
    /\ authority' = [authority EXCEPT ![maint.root] = TRUE]
    /\ maint' = [maint EXCEPT !.at = "policy"]
    /\ UNCHANGED << target, current, policy, removal, work, floor, kill,
                    policyLock, acked >>

\* SetLocked(old): setup.lock keeps the path where it is, so the lock, the
\* read and the write are of one directory.
RebuildLock ==
    /\ maint.op = "rebuild" /\ maint.at = "policy"
    /\ IF policyLock[maint.root] = "free"
       THEN /\ policy' = [policy EXCEPT ![maint.root].locked = TRUE]
            /\ maint' = [maint EXCEPT !.at = "wait"]
       ELSE /\ maint' = IdleMaint
            /\ UNCHANGED policy
    /\ UNCHANGED << target, current, authority, removal, work, floor, kill,
                    policyLock, acked >>

RebuildWait ==
    /\ maint.op = "rebuild" /\ maint.at = "wait"
    /\ ActiveFree(maint.root)
    /\ maint' = [maint EXCEPT !.at = "gate"]
    /\ UNCHANGED << target, current, policy, authority, removal, work, floor,
                    kill, policyLock, acked >>

RebuildGate ==
    /\ maint.op = "rebuild" /\ maint.at = "gate"
    /\ maint' = IF ActiveFree(maint.root)
                THEN [maint EXCEPT !.at = "unit", !.active = TRUE]
                ELSE IdleMaint
    /\ UNCHANGED << target, current, policy, authority, removal, work, floor,
                    kill, policyLock, acked >>

RebuildService ==
    /\ maint.op = "rebuild" /\ maint.at = "unit"
    /\ maint' = IF ServiceFree(maint.root)
                THEN [maint EXCEPT !.at = "exchange", !.service = TRUE]
                ELSE IdleMaint
    /\ UNCHANGED << target, current, policy, authority, removal, work, floor,
                    kill, policyLock, acked >>

\* publishReceiverDirectory: the path now selects the candidate; the old
\* directory's locks are released on return.
RebuildExchange ==
    /\ maint.op = "rebuild" /\ maint.at = "exchange"
    /\ current' = current + 1
    /\ maint' = IdleMaint
    /\ UNCHANGED << target, policy, authority, removal, work, floor, kill,
                    policyLock, acked >>

\* Any command under setup.lock stops where it is: an error, its timeout, or
\* the process died.
MaintEnds ==
    /\ maint.op # "none"
    /\ maint' = IdleMaint
    /\ UnlocksPolicy("maint")
    /\ UNCHANGED << target, current, policy, authority, removal, work, floor,
                    kill, acked >>

-----------------------------------------------------------------------------
Work(w) ==
    \/ AdmitOpen(w) \/ AdmitLock(w) \/ AdmitCheck(w)
    \/ ServeOpen(w) \/ ServeLock(w)
    \/ WatchPolicy(w) \/ WorkEnds(w) \/ Released(w) \/ WorkerDies(w)
    \/ FloorOpen(w) \/ FloorLock(w) \/ FloorRead(w) \/ FloorWrite(w)

SetLocked ==
    \/ KillAuthority \/ KillOpen \/ KillLock \/ KillRead \/ KillWrite
    \/ KillDrain \/ KillFails

Maintain ==
    \/ RemoveBegin \/ RemoveStop \/ RemoveCommit
    \/ DrainActive \/ DrainService
    \/ RestoreBegin \/ RestoreLock \/ RestorePolicy \/ RestoreAuthority
    \/ RestoreUnlink
    \/ RebuildBegin \/ RebuildRetire \/ RebuildLock \/ RebuildWait
    \/ RebuildGate \/ RebuildService \/ RebuildExchange
    \/ MaintEnds

TunnelNext == (\E w \in Workers : Work(w)) \/ SetLocked \/ Maintain

TunnelSpec == TunnelInit /\ [][TunnelNext]_tunnelVars

\* The watcher's ticker fires and a cancelled worker is waited for: both are
\* goroutines of a live process.  Nothing else is assumed to go on.
TunnelFair == \A w \in Workers : /\ WF_tunnelVars(WatchPolicy(w))
                                 /\ WF_tunnelVars(Released(w))

-----------------------------------------------------------------------------
(* Properties.                                                             *)

\* A worker whose lock and whose policy check are of the same directory.
Gated(w, d) == Serving(w) /\ work[w].gate = d /\ work[w].checked = d

\* A denial that was reported stands.  Once SetLocked has acknowledged an
\* alarm that it wrote to and drained in one directory (store.go:203-226), or
\* removed.json says "removed" (removal.go:164-168), no worker admitted
\* through that directory's own gate is serving it, whatever was starting,
\* dying or being watched meanwhile.
DenialHolds ==
    \A d \in Directories :
       (\/ [denied |-> d, drained |-> d] \in acked
        \/ removal[d] = "removed")
       => ~ \E w \in Workers : Gated(w, d)

\* The alarm of the selected directory is terminal (store.go:177-179): no
\* peer-floor update, restore or other command in flight ever writes an
\* unlocked policy over it, and no step takes an authority out of its lock.
AlarmLatched ==
    [][\A d \in Directories :
         /\ d = current /\ policy[d].locked => policy'[d].locked
         /\ authority[d] => authority'[d]]_tunnelVars

\* A worker that holds the gate of the directory it serves stops after the
\* directory was denied, by alarm or removal: it does not outlive the denial
\* because no directory can be exchanged under its gate (watchPolicy,
\* broker_linux.go:157-185).  So this holds of no worker for ever.
ServesDenied(w) == \E d \in Directories : Gated(w, d) /\ Denied(d)
=============================================================================
