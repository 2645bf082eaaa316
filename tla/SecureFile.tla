----------------------------- MODULE SecureFile -----------------------------
(***************************************************************************)
(* One file name of the file primitives every durable component rests on   *)
(* (internal/securefs), system call by system call: the private root       *)
(* (Root: ReplaceFile, CreateExclusive, EnsureFile, UnlinkFile) and the    *)
(* publication root (ViewWriter: CreateExclusive, ReplaceFile, UnlinkFile) *)
(* with an unprivileged reader of it (ReadOnlyRoot.ReadFile).  A call can  *)
(* fail at any system call, its process can be killed between two of them, *)
(* and the machine can lose power.                                         *)
(*                                                                         *)
(* The kernel is external and modelled as follows.  A directory is         *)
(* journalled: power loss keeps a prefix of the changes since the last     *)
(* fsync of the directory.  Bytes and mode of an inode survive power loss  *)
(* for certain only after an fsync of the inode; without it a write may    *)
(* survive whole, in part or not at all.  One writer at a time: callers    *)
(* hold the lock of the root they mutate.  A temporary's name is random,   *)
(* so its directory entry, and the residue of a dead writer, are left out:  *)
(* until the rename only the descriptor refers to a replacement.           *)
(***************************************************************************)
EXTENDS Integers, Sequences, FiniteSets

CONSTANTS Values,         \* contents callers store, positive numbers
          Inodes,         \* inode numbers; enough for every live reference
          MaxFileFaults   \* bound: failed system calls, kills, power losses

(* Contents are positive, an inode number is not zero, and there is always *)
(* one that neither the directory since its last fsync (one entry for every *)
(* call that failed, and one) nor the reader refers to.                    *)
ASSUME FileBounds ==
  /\ Values \subseteq Nat \ {0} /\ Inodes \subseteq Nat \ {0} /\ IsFiniteSet(Inodes)
  /\ MaxFileFaults \in Nat /\ Cardinality(Inodes) >= MaxFileFaults + 3

VARIABLES view,     \* whether the root is a publication root
          inode,    \* data and mode of every inode, in the cache and on disk
          dirs,     \* what the name selects since the directory's last fsync
          call,     \* the writer's running call
          reader,   \* the reader's running ReadFile
          allowed,  \* what the name may hold, by the calls made so far
          fileFaults

fileVars == <<view, inode, dirs, call, reader, allowed, fileFaults>>

Missing == 0                     \* no inode
Blank == 0                       \* contents of a file just created
Short(v) == 0 - v                \* contents while v is being written
Unused == [data |-> Blank, mode |-> "private", disk |-> <<Blank, "private">>]
Gone == <<Missing, "none">>      \* what a name without an inode holds
NoCall == [op |-> "none"]
NoReader == [at |-> "none"]

Dir == dirs[Len(dirs)]
Synced == Len(dirs) = 1          \* no change of the name awaits its fsync
Program(what) ==
  CASE what = "unlink" -> <<"unlink", "syncdir">>
    [] what = "replace" /\ ~view ->
         <<"create", "begin", "write", "fsync", "rename", "syncdir">>
    [] what = "replace" /\ view ->
         <<"create", "begin", "write", "fsync", "rename", "open", "fsync", "syncdir">>
    [] what \in {"create", "ensure"} /\ ~view ->
         <<"create", "begin", "write", "fsync", "syncdir">>
    [] what \in {"create", "ensure"} /\ view ->
         <<"create", "begin", "write", "fsync", "open", "fsync", "syncdir">>

Calling(step) == call.op # "none" /\ Program(call.op)[call.at] = step
Proceeds == call' = [call EXCEPT !.at = @ + 1]

(* Every state the name may have to show at some instant of the call.      *)
Passes(what, v) ==
  CASE what = "replace" -> {<<v, "private">>} \union (IF view THEN {<<v, "open">>} ELSE {})
    [] what = "unlink" -> {Gone}
    [] OTHER -> {Gone, <<Blank, "private">>, <<Short(v), "private">>, <<v, "private">>}
                \union (IF view THEN {<<v, "open">>} ELSE {})
Settled(what, v) == IF what = "unlink" THEN Gone ELSE <<v, IF view THEN "open" ELSE "private">>

-----------------------------------------------------------------------------
(* The calls, up to their first system call that changes anything          *)

Begins(what, v) ==
  /\ call' = [op |-> what, v |-> v, at |-> 1, fd |-> Missing]
  /\ allowed' = allowed \union Passes(what, v)
  /\ UNCHANGED <<view, inode, dirs, reader, fileFaults>>

ReplaceFile(v) == call = NoCall /\ Begins("replace", v)

CreateExclusive(v) == call = NoCall /\ Dir = Missing /\ Begins("create", v)

(* A missing file is created.  A file it finds is accepted if mode and     *)
(* contents are exact, and is neither touched nor synced: the success     *)
(* narrows what power loss may leave only if the directory is unchanged    *)
(* since its last fsync.  The exact file of a call that stopped before     *)
(* that fsync may still be lost, or be found short.                        *)
EnsureFile(v) ==
  /\ call = NoCall /\ ~view
  /\ \/ Dir = Missing /\ Begins("ensure", v)
     \/ /\ Dir # Missing /\ inode[Dir].data = v /\ inode[Dir].mode = "private"
        /\ allowed' = IF Synced THEN {<<v, "private">>} ELSE allowed
        /\ UNCHANGED <<view, inode, dirs, call, reader, fileFaults>>

UnlinkFile ==
  /\ call = NoCall /\ Dir # Missing
  /\ view => inode[Dir].mode = "open"
  /\ Begins("unlink", Missing)

-----------------------------------------------------------------------------
(* System calls                                                            *)

Referenced == {dirs[k] : k \in DOMAIN dirs}
              \union (IF call = NoCall THEN {} ELSE {call.fd})
              \union (IF reader = NoReader THEN {} ELSE {reader.fd})
Fresh == CHOOSE i \in Inodes : i \notin Referenced
Freed(keep) == [i \in Inodes |-> IF i \in keep THEN inode[i] ELSE Unused]

SysCreate ==
  /\ Calling("create")
  /\ inode' = [inode EXCEPT ![Fresh] = Unused]
  /\ dirs' = IF call.op = "replace" THEN dirs ELSE Append(dirs, Fresh)
  /\ call' = [call EXCEPT !.at = @ + 1, !.fd = Fresh]
  /\ UNCHANGED <<view, reader, allowed, fileFaults>>

(* writeAll: the bytes arrive in more than one write(2).                   *)
SysWrite ==
  /\ Calling("begin") \/ Calling("write")
  /\ inode' = [inode EXCEPT ![call.fd].data =
       IF Calling("begin") THEN Short(call.v) ELSE call.v]
  /\ Proceeds
  /\ UNCHANGED <<view, dirs, reader, allowed, fileFaults>>

(* Mutant: bytes are written and renamed without an fsync of the file. *)
FsyncSkipped ==
  /\ Calling("fsync")
  /\ Proceeds
  /\ UNCHANGED <<view, inode, dirs, reader, allowed, fileFaults>>

SysFsync ==
  /\ Calling("fsync")
  /\ inode' = [inode EXCEPT ![call.fd].disk = <<inode[call.fd].data, inode[call.fd].mode>>]
  /\ Proceeds
  /\ UNCHANGED <<view, dirs, reader, allowed, fileFaults>>

SysRename ==
  /\ Calling("rename")
  /\ dirs' = Append(dirs, call.fd)
  /\ Proceeds
  /\ UNCHANGED <<view, inode, reader, allowed, fileFaults>>

SysUnlink ==
  /\ Calling("unlink")
  /\ dirs' = Append(dirs, Missing)
  /\ Proceeds
  /\ UNCHANGED <<view, inode, reader, allowed, fileFaults>>

(* prepareViewFile: owner, reader group and mode 0640, in that order, on   *)
(* an inode whose bytes are complete and synced.                           *)
PrepareViewFile ==
  /\ Calling("open")
  /\ inode' = [inode EXCEPT ![call.fd].mode = "open"]
  /\ Proceeds
  /\ UNCHANGED <<view, dirs, reader, allowed, fileFaults>>

(* The fsync of the directory is the last system call: the call succeeds.  *)
SysSyncDir ==
  /\ Calling("syncdir")
  /\ dirs' = <<Dir>>
  /\ inode' = Freed({Dir} \union (IF reader = NoReader THEN {} ELSE {reader.fd}))
  /\ allowed' = {Settled(call.op, call.v)}
  /\ call' = NoCall
  /\ UNCHANGED <<view, reader, fileFaults>>

-----------------------------------------------------------------------------
(* Failures                                                                *)

Faulty == fileFaults < MaxFileFaults /\ fileFaults' = fileFaults + 1

(* A system call fails: the deferred cleanup removes the temporary, or the *)
(* file a create made under its final name; a rename is not undone.        *)
CallFails ==
  /\ Faulty /\ call # NoCall
  /\ dirs' = IF call.op # "replace" /\ call.fd # Missing THEN Append(dirs, Missing) ELSE dirs
  /\ call' = NoCall
  /\ UNCHANGED <<view, inode, reader, allowed>>

WriterKilled ==
  /\ Faulty /\ call # NoCall
  /\ call' = NoCall
  /\ UNCHANGED <<view, inode, dirs, reader, allowed>>

Survives(i) ==
  {<<d, m>> : d \in (IF inode[i].data = inode[i].disk[1] THEN {inode[i].data}
                     ELSE {inode[i].disk[1], inode[i].data}
                          \union (IF inode[i].data > 0 THEN {Short(inode[i].data)} ELSE {})),
              m \in {inode[i].disk[2], inode[i].mode}}

(* What power loss now can make of the name: a directory entry of the      *)
(* journal's prefix and a surviving image of its inode.                    *)
Outcomes ==
  UNION {IF dirs[k] = Missing THEN {Gone} ELSE Survives(dirs[k]) : k \in DOMAIN dirs}

PowerLoss ==
  /\ Faulty
  /\ \E k \in DOMAIN dirs :
       /\ dirs' = <<dirs[k]>>
       /\ IF dirs[k] = Missing
          THEN inode' = Freed({})
          ELSE \E s \in Survives(dirs[k]) :
                 inode' = [Freed({}) EXCEPT ![dirs[k]] =
                             [data |-> s[1], mode |-> s[2], disk |-> s]]
  /\ call' = NoCall /\ reader' = NoReader
  /\ UNCHANGED <<view, allowed>>

-----------------------------------------------------------------------------
(* ReadOnlyRoot.ReadFile                                                   *)

ReaderOpens ==
  /\ view /\ reader = NoReader
  /\ Dir # Missing /\ inode[Dir].mode = "open"
  /\ reader' = [at |-> "read", fd |-> Dir, got |-> Blank]
  /\ UNCHANGED <<view, inode, dirs, call, allowed, fileFaults>>

ReaderReads ==
  /\ reader.at = "read"
  /\ reader' = [reader EXCEPT !.at = "check", !.got = inode[reader.fd].data]
  /\ UNCHANGED <<view, inode, dirs, call, allowed, fileFaults>>

(* Link count, mode and size are compared before and after the read, so a  *)
(* file whose name is taken away meanwhile is refused.                     *)
ReaderReturns ==
  /\ reader.at = "check"
  /\ reader' = IF inode[reader.fd].mode = "open" /\ Dir = reader.fd
               THEN [reader EXCEPT !.at = "returned"]
               ELSE NoReader
  /\ UNCHANGED <<view, inode, dirs, call, allowed, fileFaults>>

ReaderAgain ==
  /\ reader.at = "returned"
  /\ reader' = NoReader
  /\ UNCHANGED <<view, inode, dirs, call, allowed, fileFaults>>

-----------------------------------------------------------------------------
FileInit ==
  /\ view \in BOOLEAN
  /\ inode = [i \in Inodes |-> Unused]
  /\ dirs = <<Missing>>
  /\ call = NoCall /\ reader = NoReader
  /\ allowed = {Gone} /\ fileFaults = 0

FileNext ==
  \/ \E v \in Values : ReplaceFile(v) \/ CreateExclusive(v) \/ EnsureFile(v)
  \/ UnlinkFile
  \/ SysCreate \/ SysWrite \/ SysFsync \/ SysRename \/ SysUnlink
  \/ PrepareViewFile \/ SysSyncDir
  \/ CallFails \/ WriterKilled \/ PowerLoss
  \/ ReaderOpens \/ ReaderReads \/ ReaderReturns \/ ReaderAgain

FileSpec == FileInit /\ [][FileNext]_fileVars

-----------------------------------------------------------------------------
(* Whatever has failed so far, power loss at any instant leaves the name   *)
(* with what the last successful call stored or with a state some later,   *)
(* unfinished call was meant to pass through: a replacement never exposes  *)
(* a short file or loses the old one, a successful call is durable with    *)
(* its final mode, and no short file is ever readable by the group.  One   *)
(* success is excepted: an EnsureFile that finds the exact file of a call  *)
(* that stopped before its directory was synced, and syncs nothing itself, *)
(* promises no more than that call had.                                    *)
PowerLossWithin == Outcomes \subseteq allowed

(* ReadOnlyRoot.ReadFile returns whole contents some caller stored, never  *)
(* a prefix of them, although it takes no lock.                            *)
ReadersSeeWhole == reader.at = "returned" => reader.got \in Values

(* Neither the machine after a power loss nor a reader without a lock ever *)
(* sees anything but whole contents in their proper order.                 *)
FilesWhole == PowerLossWithin /\ ReadersSeeWhole
=============================================================================
