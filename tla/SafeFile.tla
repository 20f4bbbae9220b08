------------------------------ MODULE SafeFile ------------------------------
(***************************************************************************)
(* safe_write_file of file_mng: write a value to <file>.tmp, fsync it,     *)
(* rename it over <file>, fsync the directory; skip all of it if the file  *)
(* already holds the value.  Each call on the file system may fail, the    *)
(* process may be killed and the machine may crash between any two.        *)
(*                                                                         *)
(* A directory maps names to inodes.  A crash leaves one of the directory  *)
(* states since the last fsync of the directory, and a prefix of an        *)
(* inode's bytes unless they were fsynced.                                 *)
(***************************************************************************)
EXTENDS Naturals, Sequences

CONSTANTS Values,       \* what callers write
          Initial,      \* what the file holds at first
          OldvalSize,   \* sizeof(oldval), 80 in the code
          MaxCalls, MaxCrashes

ASSUME SafeFileAssumption ==
  /\ Initial \in Values /\ Values \subseteq Seq(Nat)
  /\ OldvalSize \in Nat /\ MaxCalls \in Nat /\ MaxCrashes \in Nat

VARIABLES dir,      \* the directory: the inodes of fn and tmp
          dirs,     \* the directories a crash may leave
          data,     \* per inode: its bytes
          synced,   \* per inode: its bytes survive a crash
          pc, val,  \* where the call is, and what it writes
          off,      \* how much of it safe_write has written
          result,   \* of the last call
          since,    \* history: the value last reported as written, and those given since
          calls, crashes

vars == <<dir, dirs, data, synced, pc, val, off, result, since, calls, crashes>>
disk == <<dir, dirs, data, synced>>
history == <<since, calls, crashes>>

Inodes == 0..MaxCalls
None == MaxCalls + 1

Init ==
  /\ dir = [fn |-> 0, tmp |-> None]
  /\ dirs = {dir}
  /\ data = [i \in Inodes |-> IF i = 0 THEN Initial ELSE <<>>]
  /\ synced = [i \in Inodes |-> i = 0]
  /\ pc = "idle" /\ val = Initial /\ off = 0
  /\ result = "none"
  /\ since = {Initial}
  /\ calls = 0 /\ crashes = 0

SetDir(d) == dir' = d /\ dirs' = dirs \cup {d}

\* seeded fault: the file is unlinked, not its tmp
Unlinked_File == [dir EXCEPT !.fn = None]

Unlinked == [dir EXCEPT !.tmp = None]

Returns(r) == pc' = "idle" /\ result' = r

Call(v) ==
  /\ pc = "idle" /\ calls < MaxCalls
  /\ val' = v /\ off' = 0
  /\ calls' = calls + 1
  /\ since' = since \cup {v}
  /\ result' = "none"
  /\ pc' = "check"
  /\ UNCHANGED <<disk, crashes>>

\* safe_read_file into oldval; safe_read loops until EOF or a full buffer
OldvalRead == SubSeq(data[dir.fn], 1, IF Len(data[dir.fn]) < OldvalSize THEN Len(data[dir.fn]) ELSE OldvalSize)

\* "does the file already have correct content?"; no, or the read failed
Check ==
  /\ pc = "check"
  /\ \/ OldvalRead = val /\ Returns("unchanged")
     \/ pc' = "open" /\ UNCHANGED result
  /\ UNCHANGED <<disk, val, off, history>>

\* seeded fault: a tmp file left behind is not truncated
OpenTmp_NoTruncate ==
  /\ pc = "open"
  /\ LET i == IF dir.tmp # None THEN dir.tmp ELSE calls
     IN  /\ SetDir([dir EXCEPT !.tmp = i])
         /\ synced' = [synced EXCEPT ![i] = FALSE]
  /\ pc' = "write"
  /\ UNCHANGED <<data, val, off, result, history>>

\* open(tmp, O_WRONLY|O_CREAT|O_TRUNC)
OpenTmp ==
  /\ pc = "open"
  /\ LET i == IF dir.tmp # None THEN dir.tmp ELSE calls
     IN  /\ SetDir([dir EXCEPT !.tmp = i])
         /\ data' = [data EXCEPT ![i] = <<>>]
         /\ synced' = [synced EXCEPT ![i] = FALSE]
  /\ pc' = IF val = <<>> THEN "fsync" ELSE "write"
  /\ UNCHANGED <<val, off, result, history>>

OpenFails ==
  /\ pc = "open"
  /\ Returns("failed")
  /\ UNCHANGED <<disk, val, off, history>>

\* one round of safe_write's loop
Write(r) ==
  /\ pc = "write" /\ off + r <= Len(val)
  /\ data' = [data EXCEPT ![dir.tmp] =
                SubSeq(val, 1, off + r) \o SubSeq(@, off + r + 1, Len(@))]
  /\ off' = off + r
  /\ pc' = IF off + r = Len(val) THEN "fsync" ELSE "write"
  /\ UNCHANGED <<dir, dirs, synced, val, result, history>>

\* the tmp file stays
WriteFails ==
  /\ pc = "write"
  /\ Returns("failed")
  /\ UNCHANGED <<disk, val, off, history>>

\* seeded fault: rename without fsync
Fsync_Skipped ==
  /\ pc = "fsync"
  /\ pc' = "rename"
  /\ UNCHANGED <<disk, val, off, result, history>>

Fsync ==
  /\ pc = "fsync"
  /\ synced' = [synced EXCEPT ![dir.tmp] = TRUE]
  /\ pc' = "rename"
  /\ UNCHANGED <<dir, dirs, data, val, off, result, history>>

Rename ==
  /\ pc = "rename"
  /\ SetDir([fn |-> dir.tmp, tmp |-> None])
  /\ pc' = "fsync dir"
  /\ UNCHANGED <<data, synced, val, off, result, history>>

\* both unlink the tmp file
FsyncOrRenameFails ==
  /\ pc \in {"fsync", "rename"}
  /\ SetDir(Unlinked)
  /\ Returns("failed")
  /\ UNCHANGED <<data, synced, val, off, history>>

\* seeded fault: the directory is not fsynced
FsyncDir_Skipped ==
  /\ pc = "fsync dir"
  /\ Returns("written")
  /\ since' = {val}
  /\ UNCHANGED <<disk, val, off, calls, crashes>>

FsyncDir ==
  /\ pc = "fsync dir"
  /\ dirs' = {dir}
  /\ Returns("written")
  /\ since' = {val}
  /\ UNCHANGED <<dir, data, synced, val, off, calls, crashes>>

\* seeded fault: the result of the directory's fsync is not returned
FsyncDirFails_Ignored ==
  /\ pc = "fsync dir"
  /\ Returns("written")
  /\ since' = {val}
  /\ UNCHANGED <<disk, val, off, calls, crashes>>

FsyncDirFails ==
  /\ pc = "fsync dir"
  /\ Returns("failed")
  /\ UNCHANGED <<disk, val, off, history>>

-----------------------------------------------------------------------------

Kill ==
  /\ pc # "idle"
  /\ Returns("killed")
  /\ UNCHANGED <<disk, val, off, history>>

\* what may be left of an inode's bytes
Left(i) == IF synced[i] THEN {data[i]} ELSE {SubSeq(data[i], 1, n) : n \in 0..Len(data[i])}

Crash ==
  /\ crashes < MaxCrashes
  /\ crashes' = crashes + 1
  /\ \E d \in dirs : dir' = d /\ dirs' = {d}
  /\ data' \in { f \in [Inodes -> UNION {Left(i) : i \in Inodes}] : \A i \in Inodes : f[i] \in Left(i) }
  /\ synced' = [i \in Inodes |-> TRUE]
  /\ Returns("crashed")
  /\ UNCHANGED <<val, off, since, calls>>

Next ==
  \/ \E v \in Values : Call(v)
  \/ Check \/ OpenTmp \/ OpenFails
  \/ \E r \in 1..Len(val) : Write(r)
  \/ WriteFails \/ Fsync \/ Rename \/ FsyncOrRenameFails \/ FsyncDir \/ FsyncDirFails
  \/ Kill \/ Crash

Spec == Init /\ [][Next]_vars

-----------------------------------------------------------------------------

\* The variables keep their types.
TypeOK ==
  /\ dir \in dirs
  /\ \A d \in dirs : d.fn \in Inodes /\ d.tmp \in Inodes \cup {None}
  /\ off \in 0..Len(val)
  /\ pc \in {"idle", "check", "open", "write", "fsync", "rename", "fsync dir"}

\* The file holds one of the values given to safe_write_file, never a part or
\* a mixture of them: now, and in whatever state a crash here would leave.
WholeValues == \A d \in dirs : Left(d.fn) \subseteq Values

\* Once a call has written the file and returned 0, no crash takes it back.
WrittenIsDurable == result = "written" => \A d \in dirs : Left(d.fn) = {val}

\* Nothing older comes back: whatever fails or crashes after a value was reported
\* as written, the file holds that value or one given to a later call.
NothingOlderReturns == \A d \in dirs : Left(d.fn) \subseteq since

\* hat_add_file.cpp:32, "does the file already have correct content?": a call
\* that answers yes leaves a file with that content.
UnchangedIsCorrect == result = "unchanged" => data[dir.fn] = val
=============================================================================
