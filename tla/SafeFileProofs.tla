--------------------------- MODULE SafeFileProofs ---------------------------
(***************************************************************************)
(* Proofs about SafeFile, for any values, any number of calls and crashes. *)
(***************************************************************************)
EXTENDS SafeFile, TLAPS

Types ==
  /\ dirs \subseteq [fn : Inodes, tmp : Inodes \cup {None}]
  /\ dir \in dirs
  /\ data \in [Inodes -> Seq(Nat)]
  /\ synced \in [Inodes -> BOOLEAN]
  /\ pc \in {"idle", "check", "open", "write", "fsync", "rename", "fsync dir"}
  /\ val \in Values
  /\ off \in Nat /\ off <= Len(val)
  /\ calls \in 0..MaxCalls

\* what every directory a crash may leave has as the file is whole, safe and
\* not older than what was last reported as written, and it is not what that directory, or the current one, has as tmp
FilesSafe ==
  \A d \in dirs : /\ synced[d.fn] = TRUE
                  /\ data[d.fn] \in Values
                  /\ data[d.fn] \in since
                  /\ d.tmp # d.fn
                  /\ dir.tmp # d.fn

\* an inode the call has not made yet is nowhere
Fresh ==
  \A d \in dirs : /\ d.fn <= calls
                  /\ d.tmp # None => d.tmp <= calls
                  /\ pc \in {"check", "open"} => d.fn < calls

\* what tmp, or the file after the rename, holds at each place of a call
Progress ==
  /\ pc # "idle" => val \in since
  /\ pc \in {"check", "open"} => off = 0
  /\ pc \in {"write", "fsync", "rename"} => dir.tmp \in Inodes
  /\ pc = "write" => data[dir.tmp] = SubSeq(val, 1, off)
  /\ pc \in {"fsync", "rename"} => data[dir.tmp] = val
  /\ pc = "rename" => synced[dir.tmp] = TRUE
  /\ pc = "fsync dir" => data[dir.fn] = val

\* a call that wrote the file left one directory, with it
Durable ==
  /\ pc # "idle" => result # "written"
  /\ result = "written" => dirs = {dir} /\ data[dir.fn] = val

Inv == Types /\ FilesSafe /\ Fresh /\ Progress /\ Durable

-----------------------------------------------------------------------------

\* No inode has the number that stands for none.
LEMMA NoneIsNoInode == None \notin Inodes
BY SafeFileAssumption DEF None, Inodes

\* A prefix that is extended to the whole of a value is that value, and writing
\* behind a prefix leaves the longer prefix.
LEMMA PrefixFacts ==
  ASSUME NEW v \in Seq(Nat), NEW o \in Nat, NEW r \in Nat, r > 0, o + r <= Len(v)
  PROVE  /\ SubSeq(v, 1, o + r) \o SubSeq(SubSeq(v, 1, o), o + r + 1, Len(SubSeq(v, 1, o)))
              = SubSeq(v, 1, o + r)
         /\ SubSeq(v, 1, o + r) \in Seq(Nat)
         /\ o + r = Len(v) => SubSeq(v, 1, o + r) = v
<1>1. SubSeq(v, 1, o + r) \in Seq(Nat) /\ SubSeq(v, 1, o) \in Seq(Nat) /\ Len(SubSeq(v, 1, o)) = o
    OBVIOUS
<1>2. SubSeq(SubSeq(v, 1, o), o + r + 1, o) = <<>>
    BY <1>1
<1>3. o + r = Len(v) => SubSeq(v, 1, o + r) = v
    OBVIOUS
<1> QED  BY <1>1, <1>2, <1>3

\* Nothing is written at the start of a call.
LEMMA EmptyPrefix == ASSUME NEW v \in Seq(Nat) PROVE SubSeq(v, 1, 0) = <<>>
OBVIOUS

\* Initially the file is whole and safe, and there is no tmp.
LEMMA InitInv == Init => Inv
<1> SUFFICES ASSUME Init PROVE Inv
    OBVIOUS
<1> USE SafeFileAssumption DEF Init
<1>1. 0 \in Inodes
    BY DEF Inodes
<1>2. Types
    BY <1>1 DEF Types, Inodes, None
<1>3. FilesSafe
    BY <1>1, NoneIsNoInode DEF FilesSafe
<1> QED  BY <1>2, <1>3 DEF Inv, Fresh, Progress, Durable

\* Every step of safe_write_file, a kill and a crash keep the invariant.
LEMMA NextInv == Inv /\ [Next]_vars => Inv'
<1> SUFFICES ASSUME Inv, [Next]_vars
             PROVE  Inv'
    OBVIOUS
<1> USE SafeFileAssumption, NoneIsNoInode DEF Inv
<1>1. CASE UNCHANGED vars
    BY <1>1, Zenon DEF vars, Types, FilesSafe, Fresh, Progress, Durable
<1>2. ASSUME NEW v \in Values, Call(v)
      PROVE  Inv'
  <2>1. Types'
      BY <1>2 DEF Call, Types, disk
  <2>2. FilesSafe' /\ Progress' /\ Durable'
      BY <1>2 DEF Call, disk, FilesSafe, Progress, Durable
  <2>3. \A d \in dirs : d.fn \in Nat /\ (d.tmp # None => d.tmp \in Nat)
    <3>1. \A d \in dirs : d.fn \in Inodes /\ (d.tmp # None => d.tmp \in Inodes)
        BY Zenon DEF Types
    <3>2. Inodes \subseteq Nat
        BY DEF Inodes
    <3> QED  BY <3>1, <3>2, Zenon
  <2>4. Fresh'
      BY <1>2, <2>3 DEF Call, disk, Fresh, Types
  <2> QED  BY <2>1, <2>2, <2>4
<1>3. CASE Check \/ OpenFails \/ WriteFails \/ FsyncDirFails \/ Kill
  <2>1. UNCHANGED <<dir, dirs, data, synced, val, off, calls, since>>
      BY <1>3, Zenon DEF Check, OpenFails, WriteFails, FsyncDirFails, Kill, disk, history
  <2>2. \/ pc' = "idle" /\ result' # "written"
        \/ pc' = "open" /\ pc = "check" /\ result' = result
      BY <1>3, Zenon DEF Check, OpenFails, WriteFails, FsyncDirFails, Kill, Returns
  <2> QED  BY <2>1, <2>2, Zenon DEF Types, FilesSafe, Fresh, Progress, Durable
<1>4. CASE OpenTmp
  <2> DEFINE i == IF dir.tmp # None THEN dir.tmp ELSE calls
             d1 == [dir EXCEPT !.tmp = i]
  <2>1. dir \in [fn : Inodes, tmp : Inodes \cup {None}] /\ calls \in Inodes /\ pc = "open"
      BY <1>4 DEF OpenTmp, Types, Inodes
  <2>2. i \in Inodes /\ \A d \in dirs : d.fn # i
    <3>1. CASE dir.tmp # None
        BY <2>1, <3>1 DEF FilesSafe
    <3>2. CASE dir.tmp = None
      <4>1. \A d \in dirs : d.fn \in Inodes /\ d.fn < calls
          BY <2>1 DEF Fresh, Types
      <4> QED  BY <2>1, <3>2, <4>1 DEF Inodes
    <3> QED  BY <3>1, <3>2
  <2>3. /\ dir' = d1 /\ dirs' = dirs \cup {d1}
        /\ data' = [data EXCEPT ![i] = <<>>] /\ synced' = [synced EXCEPT ![i] = FALSE]
        /\ UNCHANGED <<val, off, result, calls, since>>
        /\ pc' \in {"write", "fsync"} /\ (pc' = "fsync" => val = <<>>) /\ pc = "open"
      BY <1>4 DEF OpenTmp, SetDir, history
  <2>4. d1 \in [fn : Inodes, tmp : Inodes \cup {None}] /\ d1.fn = dir.fn /\ d1.tmp = i
      BY <2>1, <2>2
  <2> HIDE DEF i, d1
  <2>5. Types'
    <3>1. data' \in [Inodes -> Seq(Nat)] /\ synced' \in [Inodes -> BOOLEAN]
        BY <2>2, <2>3 DEF Types
    <3> QED  BY <2>3, <2>4, <3>1, Zenon DEF Types
  <2>6. \A d \in dirs' : d.fn # i /\ (d = d1 \/ d \in dirs)
      BY <2>2, <2>3, <2>4 DEF Types
  <2>7. FilesSafe'
    <3> SUFFICES ASSUME NEW d \in dirs'
                 PROVE  synced'[d.fn] = TRUE /\ data'[d.fn] \in Values \cap since' /\ d.tmp # d.fn /\ dir'.tmp # d.fn
        BY Zenon DEF FilesSafe
    <3>1. d.fn \in Inodes /\ d.fn # i
        BY <2>5, <2>6, Zenon DEF Types
    <3>2. synced[d.fn] = TRUE /\ data[d.fn] \in Values \cap since /\ d.tmp # d.fn
        BY <2>2, <2>4, <2>6, Zenon DEF FilesSafe, Types
    <3> QED  BY <2>2, <2>3, <2>4, <3>1, <3>2 DEF Types
  <2>8. Fresh'
    <3>1. i <= calls
        BY <2>1, <2>2 DEF i, Fresh, Types, Inodes
    <3>2. pc' \notin {"check", "open"}
        BY <2>3
    <3> QED  BY <2>1, <2>3, <2>4, <2>6, <3>1, <3>2 DEF Fresh, Types
  <2>9. Progress'
    <3>1. SubSeq(val, 1, 0) = <<>>
        BY EmptyPrefix, Zenon DEF Types
    <3>2. data'[dir'.tmp] = <<>> /\ off = 0
        BY <2>1, <2>2, <2>3, <2>4 DEF Types, Progress
    <3> QED  BY <2>2, <2>3, <2>4, <3>1, <3>2, Zenon DEF Progress
  <2>10. Durable'
      BY <2>3 DEF Durable
  <2> QED  BY <2>5, <2>7, <2>8, <2>9, <2>10
<1>5. ASSUME NEW r \in 1..Len(val), Write(r)
      PROVE  Inv'
  <2> DEFINE new == SubSeq(val, 1, off + r)
  <2>1. /\ val \in Seq(Nat) /\ off \in Nat /\ r \in Nat /\ r > 0 /\ off + r <= Len(val)
        /\ pc = "write" /\ dir.tmp \in Inodes /\ data[dir.tmp] = SubSeq(val, 1, off)
      BY <1>5 DEF Write, Types, Progress
  <2>2. new \in Seq(Nat) /\ (off + r = Len(val) => new = val)
      BY <2>1, PrefixFacts
  <2>a. new \o SubSeq(data[dir.tmp], off + r + 1, Len(data[dir.tmp])) = new
      BY <2>1, PrefixFacts
  <2> HIDE DEF new
  <2>3. data' = [data EXCEPT ![dir.tmp] = new]
      BY <1>5, <2>a, Zenon DEF Write, new
  <2>4. /\ UNCHANGED <<dir, dirs, synced, val, result, calls, since>>
        /\ off' = off + r
        /\ \/ pc' = "write"
           \/ pc' = "fsync" /\ off + r = Len(val)
      BY <1>5 DEF Write, history
  <2>5. Types'
    <3>1. data' \in [Inodes -> Seq(Nat)]
        BY <2>1, <2>2, <2>3 DEF Types
    <3>2. off' \in Nat /\ off' <= Len(val')
        BY <2>1, <2>4
    <3>3. pc' \in {"write", "fsync"}
        BY <2>4
    <3> QED  BY <2>4, <3>1, <3>2, <3>3, Zenon DEF Types
  <2>6. \A d \in dirs : d.fn \in Inodes /\ data'[d.fn] = data[d.fn]
      BY <2>1, <2>3 DEF FilesSafe, Types
  <2>7. FilesSafe' /\ Fresh'
      BY <2>1, <2>4, <2>6, Zenon DEF FilesSafe, Fresh
  <2>8. data'[dir.tmp] = new
      BY <2>1, <2>3 DEF Types
  <2>9. Progress' /\ Durable'
    <3>1. pc' = "write" => data'[dir'.tmp] = SubSeq(val', 1, off')
        BY <2>4, <2>8 DEF new
    <3>2. pc' = "fsync" => data'[dir'.tmp] = val'
        BY <2>2, <2>4, <2>8
    <3> QED  BY <2>1, <2>4, <3>1, <3>2, Zenon DEF Progress, Durable
  <2> QED  BY <2>5, <2>7, <2>9
<1>6. CASE Fsync
  <2>1. /\ UNCHANGED <<dir, dirs, data, val, off, result, calls, since>>
        /\ synced' = [synced EXCEPT ![dir.tmp] = TRUE]
        /\ pc = "fsync" /\ pc' = "rename"
      BY <1>6 DEF Fsync, history
  <2>2. dir.tmp \in Inodes /\ synced' \in [Inodes -> BOOLEAN] /\ synced'[dir.tmp] = TRUE
      BY <2>1 DEF Types, Progress
  <2>3. \A d \in dirs : d.fn \in Inodes /\ synced'[d.fn] = TRUE
      BY <2>1, <2>2 DEF FilesSafe, Types
  <2> QED  BY <2>1, <2>2, <2>3 DEF Types, FilesSafe, Fresh, Progress, Durable
<1>7. CASE Rename
  <2> DEFINE d1 == [fn |-> dir.tmp, tmp |-> None]
  <2>1. /\ UNCHANGED <<data, synced, val, off, result, calls, since>>
        /\ dir' = d1 /\ dirs' = dirs \cup {d1}
        /\ pc = "rename" /\ pc' = "fsync dir"
      BY <1>7, Zenon DEF Rename, SetDir, history
  <2>2. dir.tmp \in Inodes /\ data[dir.tmp] = val /\ synced[dir.tmp] = TRUE /\ dir.tmp <= calls
      BY <2>1, Zenon DEF Progress, Fresh, Types
  <2>3. d1.fn = dir.tmp /\ d1.tmp = None
      OBVIOUS
  <2>4. Types'
    <3>1. d1 \in [fn : Inodes, tmp : Inodes \cup {None}]
        BY <2>2
    <3> HIDE DEF d1
    <3> QED  BY <2>1, <3>1, Zenon DEF Types
  <2>a. val \in Values /\ val \in since
      BY <2>1, Zenon DEF Progress, Types
  <2>5. FilesSafe'
    <3>1. \A d \in dirs : d1.tmp # d.fn
        BY <2>3, Zenon DEF Types
    <3>2. d1.tmp # d1.fn
        BY <2>2, <2>3, Zenon
    <3> HIDE DEF d1
    <3> QED  BY <2>1, <2>2, <2>3, <2>a, <3>1, <3>2, Zenon DEF FilesSafe
  <2>6. Fresh' /\ Progress' /\ Durable'
      BY <2>1, <2>2, <2>3, Zenon DEF Fresh, Progress, Durable
  <2> QED  BY <2>4, <2>5, <2>6
<1>8. CASE FsyncOrRenameFails
  <2> DEFINE d1 == [dir EXCEPT !.tmp = None]
  <2>1. /\ UNCHANGED <<data, synced, val, off, calls, since>>
        /\ dir' = d1 /\ dirs' = dirs \cup {d1}
        /\ pc' = "idle" /\ result' = "failed"
      BY <1>8 DEF FsyncOrRenameFails, SetDir, Unlinked, Returns, history
  <2>2. d1 \in [fn : Inodes, tmp : Inodes \cup {None}] /\ d1.fn = dir.fn /\ d1.tmp = None
      BY Zenon DEF Types
  <2>3. Types'
      BY <2>1, <2>2, Zenon DEF Types
  <2>4. FilesSafe'
      BY <2>1, <2>2, Zenon DEF FilesSafe, Types
  <2>5. Fresh' /\ Progress' /\ Durable'
      BY <2>1, <2>2, Zenon DEF Fresh, Progress, Durable, Types
  <2> QED  BY <2>3, <2>4, <2>5
<1>9. CASE FsyncDir
  <2>1. /\ UNCHANGED <<dir, data, synced, val, off, calls>>
        /\ since' = {val} /\ dirs' = {dir} /\ pc = "fsync dir" /\ pc' = "idle" /\ result' = "written"
      BY <1>9, Zenon DEF FsyncDir, Returns, history
  <2> QED  BY <2>1, Zenon DEF Types, FilesSafe, Fresh, Progress, Durable
<1>10. CASE Crash
  <2>1. PICK d1 \in dirs : dir' = d1 /\ dirs' = {d1}
      BY <1>10 DEF Crash
  <2>2. /\ UNCHANGED <<val, off, calls, since>>
        /\ synced' = [i \in Inodes |-> TRUE]
        /\ pc' = "idle" /\ result' = "crashed"
        /\ \A i \in Inodes : data'[i] \in Left(i)
      BY <1>10 DEF Crash, Returns
  <2>3. data' \in [Inodes -> UNION {Left(i) : i \in Inodes}]
      BY <1>10 DEF Crash
  <2>4. \A i \in Inodes : Left(i) \subseteq Seq(Nat)
    <3> SUFFICES ASSUME NEW i \in Inodes, NEW x \in Left(i)
                 PROVE  x \in Seq(Nat)
        OBVIOUS
    <3>1. data[i] \in Seq(Nat)
        BY Zenon DEF Types
    <3>2. x = data[i] \/ \E n \in 0..Len(data[i]) : x = SubSeq(data[i], 1, n)
        BY DEF Left
    <3>3. \A n \in 0..Len(data[i]) : SubSeq(data[i], 1, n) \in Seq(Nat)
        BY <3>1
    <3> QED  BY <3>1, <3>2, <3>3, Zenon
  <2>5. d1.fn \in Inodes /\ data'[d1.fn] = data[d1.fn]
      BY <2>2, Zenon DEF Left, FilesSafe, Types
  <2>6. Types'
      BY <2>1, <2>2, <2>3, <2>4, Zenon DEF Types
  <2>7. FilesSafe' /\ Fresh' /\ Progress' /\ Durable'
      BY <2>1, <2>2, <2>5, Zenon DEF FilesSafe, Fresh, Progress, Durable
  <2> QED  BY <2>6, <2>7
<1> QED
    BY <1>1, <1>2, <1>3, <1>4, <1>5, <1>6, <1>7, <1>8, <1>9, <1>10 DEF Next

\* The file holds one of the values given to safe_write_file, and would after a
\* crash at any moment: for any values, calls, failures, kills and crashes.
THEOREM FileIsWhole == Spec => []WholeValues
<1>1. Inv => WholeValues
    BY DEF Inv, FilesSafe, WholeValues, Left
<1> QED  BY InitInv, NextInv, <1>1, PTL DEF Spec

\* Once safe_write_file has written the file and returned 0, no crash takes it
\* back: the file's bytes were fsynced before the rename, the directory after it.
THEOREM WrittenStays == Spec => []WrittenIsDurable
<1>1. Inv => WrittenIsDurable
    BY Zenon DEF Inv, Durable, FilesSafe, WrittenIsDurable, Left, Types
<1> QED  BY InitInv, NextInv, <1>1, PTL DEF Spec

-----------------------------------------------------------------------------

\* The variables keep the types the run checks, for any values and history.
THEOREM TypesHold == Spec => []TypeOK
<1>1. ASSUME Inv
      PROVE  TypeOK
  <2>1. \A d \in dirs : d.fn \in Inodes /\ d.tmp \in Inodes \cup {None}
      BY <1>1, Zenon DEF Inv, Types
  <2>2. off \in 0..Len(val)
    <3>1. val \in Seq(Nat)
        BY <1>1, SafeFileAssumption, Zenon DEF Inv, Types
    <3>2. Len(val) \in Nat
        BY <3>1
    <3>3. off \in Nat /\ off <= Len(val)
        BY <1>1, Zenon DEF Inv, Types
    <3> QED  BY <3>2, <3>3
  <2> QED  BY <1>1, <2>1, <2>2, Zenon DEF Inv, Types, TypeOK
<1> QED  BY InitInv, NextInv, <1>1, PTL DEF Spec

\* Once a value was reported as written nothing older comes back, whatever fails,
\* is killed or crashes from then on: what a directory may leave as the file was
\* given to a call since, and the fsync of the directory drops the others.
THEOREM OlderStaysGone == Spec => []NothingOlderReturns
<1>1. Inv => NothingOlderReturns
    BY Zenon DEF Inv, FilesSafe, NothingOlderReturns, Left
<1> QED  BY InitInv, NextInv, <1>1, PTL DEF Spec
=============================================================================
