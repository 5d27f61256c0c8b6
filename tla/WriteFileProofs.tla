-------------------------- MODULE WriteFileProofs --------------------------
(***************************************************************************)
(* Proofs about WriteFile, for any number of files, links, calls, crashes  *)
(* and failures, wherever the links lead and whether or not they can be    *)
(* resolved: its safety, what it keeps of a file, when it replaces a link, *)
(* and that it implements AtomicReplace.                                   *)
(***************************************************************************)
EXTENDS WriteFile, TLAPS

(* The calls that own a temporary file on the disk.                        *)
Owning == {"chmod", "write", "writing", "sync", "close", "rename", "cleanup"}

(* The steps before the file is opened, and those after its replacement.   *)
Unopened == {"resolve", "open"}
Published == {"fsync", "returned", "dead"}

(* An inode that may be reached through the name of a file: it is complete *)
(* and on the disk, and no call writes to it any more.                     *)
Pub(i) == /\ i \in Inodes /\ i \in synced /\ data[i].whole
          /\ i \in Calls => pc[i] \in Published

NamesInv == \A n \in Files \union Links :
               /\ dir[n] \in pend[n]
               /\ n \in Files => NoEntry \notin pend[n]
               /\ \A i \in pend[n] : i # NoEntry => Pub(i)

OwnInv == \A c \in Calls : pc[c] \in Owning => tmp[c] \in TmpNames /\ dir[tmp[c]] = c

SourceInv == \A c \in Calls : pc[c] \notin Unopened \union {"returned", "dead"} => Pub(fd[c])

DataInv == \A c \in Calls : /\ pc[c] \in {"sync", "close", "rename"} => data[c].whole
                            /\ pc[c] \in {"close", "rename"} => c \in synced

IInv == TypeOK /\ NamesInv /\ OwnInv /\ SourceInv /\ DataInv
-----------------------------------------------------------------------------
(* The initial state satisfies the invariant.                              *)
LEMMA InitInv == Init => IInv
<1> SUFFICES ASSUME Init PROVE IInv
    OBVIOUS
<1> USE DistinctNames, PathAssumption
<1>1. TypeOK
    BY DEF Init, TypeOK, Names, Inodes, Contents, Modes, Private, Steps, Empty
<1>2. NamesInv
    BY DEF Init, NamesInv, Pub, Names, Inodes, Published
<1>3. OwnInv /\ SourceInv /\ DataInv
    BY DEF Init, OwnInv, SourceInv, DataInv, Owning, Unopened
<1> QED
    BY <1>1, <1>2, <1>3 DEF IInv

(* Every step keeps the state well formed.                                 *)
LEMMA TypeStep == IInv /\ [Next]_vars => TypeOK'
<1> SUFFICES ASSUME TypeOK, SourceInv, OwnInv, [Next]_vars PROVE TypeOK'
    BY DEF IInv
<1> USE DistinctNames, PathAssumption DEF TypeOK, Go
<1>1. ASSUME NEW c \in Calls, EvalSymlinks(c) PROVE TypeOK'
    BY <1>1 DEF EvalSymlinks, Names, Inodes, Steps, fs, Resolve, IsLink, Dangling
<1>2. ASSUME NEW c \in Calls, Open(c) PROVE TypeOK'
    BY <1>2 DEF Open, Names, Inodes, Steps, fs, Resolve, IsLink
<1>3. ASSUME NEW c \in Calls, Stat(c) PROVE TypeOK'
    BY <1>3 DEF Stat, SourceInv, Unopened, Pub, Steps, fs
<1>4. ASSUME NEW c \in Calls, CreateTemp(c) PROVE TypeOK'
    BY <1>4 DEF CreateTemp, Names, Inodes, Steps, fs, SetEntries
<1>5. ASSUME NEW c \in Calls, Chmod(c) PROVE TypeOK'
    <2>1. [bits |-> fi[c].bits, special |-> FALSE] \in Modes
        BY DEF Modes
    <2> QED
        BY <1>5, <2>1 DEF Chmod, Inodes, Steps
<1>6. ASSUME NEW c \in Calls, WriteFirst(c) PROVE TypeOK'
    BY <1>6 DEF WriteFirst, SourceInv, Unopened, Pub, Names, Inodes, Steps, fs, Contents
<1>7. ASSUME NEW c \in Calls, WriteRest(c) PROVE TypeOK'
    <2>1. data[fd[c]] \in Contents
        BY <1>7 DEF WriteRest, SourceInv, Unopened, Pub
    <2>2. [whole |-> data[fd[c]].whole, of |-> data[fd[c]].of,
           edits |-> data[fd[c]].edits \union {c}] \in Contents
        BY <2>1 DEF Contents
    <2> QED
        BY <1>7, <2>2 DEF WriteRest, Inodes, Steps
<1>8. ASSUME NEW c \in Calls, Sync(c) PROVE TypeOK'
    BY <1>8 DEF Sync, Names, Inodes, Steps, fs
<1>9. ASSUME NEW c \in Calls, Close(c) PROVE TypeOK'
    BY <1>9 DEF Close, Names, Inodes, Steps, fs
<1>10. ASSUME NEW c \in Calls, Rename(c) PROVE TypeOK'
    BY <1>10 DEF Rename, OwnInv, Owning, Names, Inodes, Steps, fs, SetEntries
<1>11. ASSUME NEW c \in Calls, FsyncDir(c) PROVE TypeOK'
    BY <1>11 DEF FsyncDir, Names, Inodes, Steps, fs
<1>12. ASSUME NEW c \in Calls, Cleanup(c) PROVE TypeOK'
    BY <1>12 DEF Cleanup, OwnInv, Owning, Names, Inodes, Steps, fs, SetEntries
<1>13. ASSUME NEW c \in Calls, Failure(c) PROVE TypeOK'
    <2>1. PICK step \in Steps : Refuse(c, step) \/ Abort(c, step)
        BY <1>13 DEF Failure, Steps
    <2> QED
        BY <2>1 DEF Refuse, Abort, Steps, fs
<1>14. ASSUME NEW l \in Links, Relink(l) PROVE TypeOK'
    BY <1>14 DEF Relink, call
<1>15. CASE Crash
    <2>1. dir' \in [Names -> Inodes \union {NoEntry}]
        BY <1>15 DEF Crash
    <2>2. pend' \in [Names -> SUBSET (Inodes \union {NoEntry})]
        BY <1>15, <2>1 DEF Crash
    <2>3. \A x \in Contents : [x EXCEPT !.whole = FALSE] \in Contents
        BY DEF Contents
    <2>4. data' \in [Inodes -> Contents]
        BY <1>15, <2>3 DEF Crash
    <2>5. pc' \in [Calls -> Steps]
        BY <1>15 DEF Crash, Steps
    <2> QED
        BY <1>15, <2>1, <2>2, <2>4, <2>5 DEF Crash
<1>16. CASE UNCHANGED vars
    BY <1>16 DEF vars, fs, call
<1> QED
    BY <1>1, <1>2, <1>3, <1>4, <1>5, <1>6, <1>7, <1>8, <1>9, <1>10, <1>11, <1>12, <1>13, <1>14, <1>15, <1>16 DEF Next, Step

(* What is published stays as it is: no step writes to it, not even a      *)
(* crash.                                                                  *)
LEMMA PubStep == IInv /\ [Next]_vars => (\A i : Pub(i) => Pub(i)')
<1> SUFFICES ASSUME IInv, [Next]_vars, NEW i, Pub(i) PROVE Pub(i)'
    OBVIOUS
<1> USE DEF IInv, TypeOK, Go, Pub, Published
<1>1. ASSUME NEW c \in Calls, EvalSymlinks(c) PROVE Pub(i)'
    BY <1>1 DEF EvalSymlinks, fs
<1>2. ASSUME NEW c \in Calls, Open(c) PROVE Pub(i)'
    BY <1>2 DEF Open, fs
<1>3. ASSUME NEW c \in Calls, Stat(c) PROVE Pub(i)'
    BY <1>3 DEF Stat, fs
<1>4. ASSUME NEW c \in Calls, CreateTemp(c) PROVE Pub(i)'
    BY <1>4 DEF CreateTemp
<1>5. ASSUME NEW c \in Calls, Chmod(c) PROVE Pub(i)'
    BY <1>5 DEF Chmod
<1>6. ASSUME NEW c \in Calls, WriteFirst(c) PROVE Pub(i)'
    BY <1>6 DEF WriteFirst
<1>7. ASSUME NEW c \in Calls, WriteRest(c) PROVE Pub(i)'
    BY <1>7 DEF WriteRest
<1>8. ASSUME NEW c \in Calls, Sync(c) PROVE Pub(i)'
    BY <1>8 DEF Sync
<1>9. ASSUME NEW c \in Calls, Close(c) PROVE Pub(i)'
    BY <1>9 DEF Close, fs
<1>10. ASSUME NEW c \in Calls, Rename(c) PROVE Pub(i)'
    BY <1>10 DEF Rename
<1>11. ASSUME NEW c \in Calls, FsyncDir(c) PROVE Pub(i)'
    BY <1>11 DEF FsyncDir
<1>12. ASSUME NEW c \in Calls, Cleanup(c) PROVE Pub(i)'
    BY <1>12 DEF Cleanup
<1>13. ASSUME NEW c \in Calls, Failure(c) PROVE Pub(i)'
    <2>1. PICK step \in Steps : Refuse(c, step) \/ Abort(c, step)
        BY <1>13 DEF Failure, Steps
    <2> QED
        BY <1>13, <2>1 DEF Failure, Refuse, Abort, fs
<1>14. ASSUME NEW l \in Links, Relink(l) PROVE Pub(i)'
    BY <1>14 DEF Relink, call
<1>15. CASE Crash
    BY <1>15 DEF Crash, Started
<1>16. CASE UNCHANGED vars
    BY <1>16 DEF vars, fs, call
<1> QED
    BY <1>1, <1>2, <1>3, <1>4, <1>5, <1>6, <1>7, <1>8, <1>9, <1>10, <1>11, <1>12, <1>13, <1>14, <1>15, <1>16 DEF Next, Step

(* Every entry a file or link may have is published; only Rename adds one. *)
LEMMA NamesStep == IInv /\ [Next]_vars => NamesInv'
<1> SUFFICES ASSUME IInv, [Next]_vars PROVE NamesInv'
    OBVIOUS
<1>a. \A i : Pub(i) => Pub(i)'
    BY PubStep
<1> USE DistinctNames DEF IInv, TypeOK, Go, NamesInv, Names
<1>1. ASSUME NEW c \in Calls, EvalSymlinks(c) PROVE NamesInv'
    BY <1>1, <1>a DEF EvalSymlinks, fs
<1>2. ASSUME NEW c \in Calls, Open(c) PROVE NamesInv'
    BY <1>2, <1>a DEF Open, fs
<1>3. ASSUME NEW c \in Calls, Stat(c) PROVE NamesInv'
    BY <1>3, <1>a DEF Stat, fs
<1>4. ASSUME NEW c \in Calls, CreateTemp(c) PROVE NamesInv'
    BY <1>4, <1>a DEF CreateTemp, SetEntries
<1>5. ASSUME NEW c \in Calls, Chmod(c) PROVE NamesInv'
    BY <1>5, <1>a DEF Chmod
<1>6. ASSUME NEW c \in Calls, WriteFirst(c) PROVE NamesInv'
    BY <1>6, <1>a DEF WriteFirst
<1>7. ASSUME NEW c \in Calls, WriteRest(c) PROVE NamesInv'
    BY <1>7, <1>a DEF WriteRest
<1>8. ASSUME NEW c \in Calls, Sync(c) PROVE NamesInv'
    BY <1>8, <1>a DEF Sync
<1>9. ASSUME NEW c \in Calls, Close(c) PROVE NamesInv'
    BY <1>9, <1>a DEF Close, fs
<1>10. ASSUME NEW c \in Calls, Rename(c) PROVE NamesInv'
    <2>1. dir[tmp[c]] = c /\ tmp[c] \in TmpNames
        BY <1>10 DEF Rename, OwnInv, Owning
    <2>2. Pub(c)'
        BY <1>10 DEF Rename, DataInv, Pub, Published, Inodes
    <2>3. c # NoEntry
        BY DEF Inodes
    <2> QED
        BY <1>10, <1>a, <2>1, <2>2, <2>3 DEF Rename, SetEntries
<1>11. ASSUME NEW c \in Calls, FsyncDir(c) PROVE NamesInv'
    BY <1>11, <1>a DEF FsyncDir
<1>12. ASSUME NEW c \in Calls, Cleanup(c) PROVE NamesInv'
    <2>1. tmp[c] \in TmpNames
        BY <1>12 DEF Cleanup, OwnInv, Owning
    <2> QED
        BY <1>12, <1>a, <2>1 DEF Cleanup, SetEntries
<1>13. ASSUME NEW c \in Calls, Failure(c) PROVE NamesInv'
    <2>1. PICK step \in Steps : Refuse(c, step) \/ Abort(c, step)
        BY <1>13 DEF Failure, Steps
    <2> QED
        BY <1>13, <1>a, <2>1 DEF Refuse, Abort, fs
<1>14. ASSUME NEW l \in Links, Relink(l) PROVE NamesInv'
    BY <1>14, <1>a DEF Relink, call
<1>15. CASE Crash
    BY <1>15, <1>a DEF Crash
<1>16. CASE UNCHANGED vars
    BY <1>16, <1>a DEF vars, fs, call
<1> QED
    BY <1>1, <1>2, <1>3, <1>4, <1>5, <1>6, <1>7, <1>8, <1>9, <1>10, <1>11, <1>12, <1>13, <1>14, <1>15, <1>16 DEF Next, Step

(* A running call keeps its temporary file: no other call takes the name   *)
(* while it has an entry, and none removes it.                             *)
LEMMA OwnStep == IInv /\ [Next]_vars => OwnInv'
<1> SUFFICES ASSUME IInv, [Next]_vars PROVE OwnInv'
    OBVIOUS
<1> USE DistinctNames DEF IInv, TypeOK, Go, OwnInv, Owning, Names
<1>1. ASSUME NEW c \in Calls, EvalSymlinks(c) PROVE OwnInv'
    BY <1>1 DEF EvalSymlinks, fs
<1>2. ASSUME NEW c \in Calls, Open(c) PROVE OwnInv'
    BY <1>2 DEF Open, fs
<1>3. ASSUME NEW c \in Calls, Stat(c) PROVE OwnInv'
    BY <1>3 DEF Stat, fs
<1>4. ASSUME NEW c \in Calls, CreateTemp(c) PROVE OwnInv'
    BY <1>4 DEF CreateTemp, SetEntries, Inodes
<1>5. ASSUME NEW c \in Calls, Chmod(c) PROVE OwnInv'
    BY <1>5 DEF Chmod
<1>6. ASSUME NEW c \in Calls, WriteFirst(c) PROVE OwnInv'
    BY <1>6 DEF WriteFirst
<1>7. ASSUME NEW c \in Calls, WriteRest(c) PROVE OwnInv'
    BY <1>7 DEF WriteRest
<1>8. ASSUME NEW c \in Calls, Sync(c) PROVE OwnInv'
    BY <1>8 DEF Sync
<1>9. ASSUME NEW c \in Calls, Close(c) PROVE OwnInv'
    BY <1>9 DEF Close, fs
<1>10. ASSUME NEW c \in Calls, Rename(c) PROVE OwnInv'
    BY <1>10 DEF Rename, SetEntries
<1>11. ASSUME NEW c \in Calls, FsyncDir(c) PROVE OwnInv'
    BY <1>11 DEF FsyncDir
<1>12. ASSUME NEW c \in Calls, Cleanup(c) PROVE OwnInv'
    BY <1>12 DEF Cleanup, SetEntries
<1>13. ASSUME NEW c \in Calls, Failure(c) PROVE OwnInv'
    <2>1. PICK step \in Steps : Refuse(c, step) \/ Abort(c, step)
        BY <1>13 DEF Failure, Steps
    <2> QED
        BY <1>13, <2>1 DEF Failure, Refuse, Abort, fs
<1>14. ASSUME NEW l \in Links, Relink(l) PROVE OwnInv'
    BY <1>14 DEF Relink, call
<1>15. CASE Crash
    BY <1>15 DEF Crash, Started
<1>16. CASE UNCHANGED vars
    BY <1>16 DEF vars, fs, call
<1> QED
    BY <1>1, <1>2, <1>3, <1>4, <1>5, <1>6, <1>7, <1>8, <1>9, <1>10, <1>11, <1>12, <1>13, <1>14, <1>15, <1>16 DEF Next, Step

(* The source a call reads is published from the moment it is opened.      *)
LEMMA SourceStep == IInv /\ [Next]_vars => SourceInv'
<1> SUFFICES ASSUME IInv, [Next]_vars PROVE SourceInv'
    OBVIOUS
<1>a. \A i : Pub(i) => Pub(i)'
    BY PubStep
<1> USE DistinctNames DEF IInv, TypeOK, Go, SourceInv, Unopened
<1>1. ASSUME NEW c \in Calls, EvalSymlinks(c) PROVE SourceInv'
    BY <1>1, <1>a DEF EvalSymlinks
<1>2. ASSUME NEW c \in Calls, Open(c) PROVE SourceInv'
    <2>1. Resolve(real[c]) \in Files \union Links
        BY <1>2, PathAssumption DEF Open, Resolve, IsLink
    <2>2. dir[Resolve(real[c])] # NoEntry
        BY <1>2, PathAssumption DEF Open, Resolve, IsLink, NamesInv
    <2>3. Pub(dir[Resolve(real[c])])
        BY <2>1, <2>2 DEF NamesInv
    <2> QED
        BY <1>2, <1>a, <2>3 DEF Open
<1>3. ASSUME NEW c \in Calls, Stat(c) PROVE SourceInv'
    BY <1>3, <1>a DEF Stat
<1>4. ASSUME NEW c \in Calls, CreateTemp(c) PROVE SourceInv'
    BY <1>4, <1>a DEF CreateTemp
<1>5. ASSUME NEW c \in Calls, Chmod(c) PROVE SourceInv'
    BY <1>5, <1>a DEF Chmod
<1>6. ASSUME NEW c \in Calls, WriteFirst(c) PROVE SourceInv'
    BY <1>6, <1>a DEF WriteFirst
<1>7. ASSUME NEW c \in Calls, WriteRest(c) PROVE SourceInv'
    BY <1>7, <1>a DEF WriteRest
<1>8. ASSUME NEW c \in Calls, Sync(c) PROVE SourceInv'
    BY <1>8, <1>a DEF Sync
<1>9. ASSUME NEW c \in Calls, Close(c) PROVE SourceInv'
    BY <1>9, <1>a DEF Close
<1>10. ASSUME NEW c \in Calls, Rename(c) PROVE SourceInv'
    BY <1>10, <1>a DEF Rename
<1>11. ASSUME NEW c \in Calls, FsyncDir(c) PROVE SourceInv'
    BY <1>11, <1>a DEF FsyncDir
<1>12. ASSUME NEW c \in Calls, Cleanup(c) PROVE SourceInv'
    BY <1>12, <1>a DEF Cleanup
<1>13. ASSUME NEW c \in Calls, Failure(c) PROVE SourceInv'
    <2>1. PICK step \in Steps : Refuse(c, step) \/ Abort(c, step)
        BY <1>13 DEF Failure, Steps
    <2> QED
        BY <1>13, <1>a, <2>1 DEF Failure, Refuse, Abort
<1>14. ASSUME NEW l \in Links, Relink(l) PROVE SourceInv'
    BY <1>14, <1>a DEF Relink, call
<1>15. CASE Crash
    BY <1>15, <1>a DEF Crash, Started
<1>16. CASE UNCHANGED vars
    BY <1>16, <1>a DEF vars, fs, call
<1> QED
    BY <1>1, <1>2, <1>3, <1>4, <1>5, <1>6, <1>7, <1>8, <1>9, <1>10, <1>11, <1>12, <1>13, <1>14, <1>15, <1>16 DEF Next, Step

(* A call reaches Rename only with complete and synced data.               *)
LEMMA DataStep == IInv /\ [Next]_vars => DataInv'
<1> SUFFICES ASSUME IInv, [Next]_vars PROVE DataInv'
    OBVIOUS
<1> USE DEF IInv, TypeOK, Go, DataInv
<1>1. ASSUME NEW c \in Calls, EvalSymlinks(c) PROVE DataInv'
    BY <1>1 DEF EvalSymlinks, fs
<1>2. ASSUME NEW c \in Calls, Open(c) PROVE DataInv'
    BY <1>2 DEF Open, fs
<1>3. ASSUME NEW c \in Calls, Stat(c) PROVE DataInv'
    BY <1>3 DEF Stat, fs
<1>4. ASSUME NEW c \in Calls, CreateTemp(c) PROVE DataInv'
    BY <1>4 DEF CreateTemp
<1>5. ASSUME NEW c \in Calls, Chmod(c) PROVE DataInv'
    BY <1>5 DEF Chmod
<1>6. ASSUME NEW c \in Calls, WriteFirst(c) PROVE DataInv'
    BY <1>6 DEF WriteFirst, Inodes
<1>7. ASSUME NEW c \in Calls, WriteRest(c) PROVE DataInv'
    BY <1>7 DEF WriteRest, SourceInv, Unopened, Pub, Inodes
<1>8. ASSUME NEW c \in Calls, Sync(c) PROVE DataInv'
    BY <1>8 DEF Sync
<1>9. ASSUME NEW c \in Calls, Close(c) PROVE DataInv'
    BY <1>9 DEF Close, fs
<1>10. ASSUME NEW c \in Calls, Rename(c) PROVE DataInv'
    BY <1>10 DEF Rename
<1>11. ASSUME NEW c \in Calls, FsyncDir(c) PROVE DataInv'
    BY <1>11 DEF FsyncDir
<1>12. ASSUME NEW c \in Calls, Cleanup(c) PROVE DataInv'
    BY <1>12 DEF Cleanup
<1>13. ASSUME NEW c \in Calls, Failure(c) PROVE DataInv'
    <2>1. PICK step \in Steps : Refuse(c, step) \/ Abort(c, step)
        BY <1>13 DEF Failure, Steps
    <2> QED
        BY <1>13, <2>1 DEF Failure, Refuse, Abort, fs
<1>14. ASSUME NEW l \in Links, Relink(l) PROVE DataInv'
    BY <1>14 DEF Relink, call
<1>15. CASE Crash
    BY <1>15 DEF Crash, Started
<1>16. CASE UNCHANGED vars
    BY <1>16 DEF vars, fs, call
<1> QED
    BY <1>1, <1>2, <1>3, <1>4, <1>5, <1>6, <1>7, <1>8, <1>9, <1>10, <1>11, <1>12, <1>13, <1>14, <1>15, <1>16 DEF Next, Step

LEMMA InvStep == IInv /\ [Next]_vars => IInv'
BY TypeStep, NamesStep, OwnStep, SourceStep, DataStep DEF IInv

LEMMA InvHolds == Spec => []IInv
BY InitInv, InvStep, PTL DEF Spec

(* The variables of WriteFile keep their kind in every run.                *)
THEOREM TypeCorrect == Spec => []TypeOK
<1>1. IInv => TypeOK
    BY DEF IInv
<1> QED
    BY <1>1, InvHolds, PTL

(* Whatever fails, and wherever the machine crashes, the name of an image  *)
(* file leads to a complete image, and so does every entry that a crash    *)
(* may leave there.                                                        *)
THEOREM TargetAlwaysWhole == Spec => []TargetWhole
<1>1. IInv => TargetWhole
    BY DEF IInv, NamesInv, Pub, TargetWhole
<1> QED
    BY <1>1, InvHolds, PTL

LEMMA OwnTempStep ==
    ASSUME IInv, [Next]_vars, crashes' = crashes, NEW t \in TmpNames,
           dir[t] \in Calls, dir'[t] # dir[t]
    PROVE  pc'[dir[t]] # pc[dir[t]]
<1> USE DistinctNames DEF IInv, TypeOK, Go, Names
<1>1. ASSUME NEW c \in Calls, CreateTemp(c) PROVE pc'[dir[t]] # pc[dir[t]]
    <2>1. dir[t] # NoEntry
        BY DEF Inodes
    <2> QED
        BY <1>1, <2>1 DEF CreateTemp, SetEntries
<1>2. ASSUME NEW c \in Calls, Rename(c) PROVE pc'[dir[t]] # pc[dir[t]]
    <2>1. dir[tmp[c]] = c /\ t = tmp[c]
        BY <1>2 DEF Rename, SetEntries, OwnInv, Owning
    <2> QED
        BY <1>2, <2>1 DEF Rename
<1>3. ASSUME NEW c \in Calls, Cleanup(c) PROVE pc'[dir[t]] # pc[dir[t]]
    <2>1. dir[tmp[c]] = c /\ t = tmp[c]
        BY <1>3 DEF Cleanup, SetEntries, OwnInv, Owning
    <2> QED
        BY <1>3, <2>1 DEF Cleanup
<1>4. ASSUME NEW c \in Calls,
             \/ EvalSymlinks(c) \/ Open(c) \/ Stat(c) \/ Chmod(c) \/ WriteFirst(c)
             \/ WriteRest(c) \/ Sync(c) \/ Close(c) \/ FsyncDir(c)
      PROVE  dir' = dir
    BY <1>4 DEF EvalSymlinks, Open, Stat, Chmod, WriteFirst, WriteRest, Sync, Close,
                FsyncDir, fs
<1>5. ASSUME NEW c \in Calls, Failure(c) PROVE dir' = dir
    BY <1>5 DEF Failure, Refuse, Abort, fs
<1>6. ASSUME NEW l \in Links, Relink(l) PROVE dir' = dir
    BY <1>6 DEF Relink
<1>7. ~Crash
    BY DEF Crash
<1>8. CASE UNCHANGED vars
    BY <1>8 DEF vars, fs
<1> QED
    BY <1>1, <1>2, <1>3, <1>4, <1>5, <1>6, <1>7, <1>8 DEF Next, Step

(* No call removes or renames the temporary file of another, even when two *)
(* calls are given the same name one after the other.                      *)
THEOREM OwnTempAlwaysOnly == Spec => OwnTempOnly
<1>1. IInv /\ [Next]_vars
         => [\A t \in TmpNames : (dir[t] \in Calls /\ dir'[t] # dir[t] /\ crashes' = crashes)
                                    => pc'[dir[t]] # pc[dir[t]]]_vars
    BY OwnTempStep
<1> QED
    BY <1>1, InvHolds, PTL DEF Spec, OwnTempOnly

-----------------------------------------------------------------------------
(* WriteFile keeps every file's own picture and permissions, also for a    *)
(* call whose path could not be resolved: such a call works on the entry   *)
(* of a link and may replace the link, never a file.                       *)

(* A link that is still there has no entry a crash could leave, and a      *)
(* running call that works on the entry of a link was given that link: it  *)
(* could not resolve it, or a file had taken the place of the link.        *)
ResolvedInv ==
    /\ \A l \in Links : dir[l] = NoEntry => pend[l] = {NoEntry}
    /\ \A c \in Calls : (Started(c) /\ real[c] \in Links) =>
          /\ real[c] = Path[c]
          /\ c \in unresolved \/ dir[real[c]] # NoEntry

(* Everything a file may hold is a version of its own picture, with its    *)
(* own permission bits.                                                    *)
LineageInv == \A f \in Files : \A i \in pend[f] :
                 /\ data[i].of = f
                 /\ mode[i].bits = f
                 /\ i # f => ~mode[i].special

(* What a call has opened, and what its temporary file has got so far.     *)
Opened(c) ==
    /\ pc[c] \in Unopened => fd[c] = NoEntry
    /\ fd[c] # NoEntry => Pub(fd[c])
    /\ OnFile(c) => data[fd[c]].of = real[c] /\ mode[fd[c]].bits = real[c]
    /\ OnFile(c) /\ pc[c] \in {"create", "chmod"} => fi[c].bits = real[c]
    /\ OnFile(c) /\ pc[c] \in {"sync", "close", "rename"} =>
          /\ data[c].of = real[c]
          /\ data[c].edits = data[fd[c]].edits \union {c}
    /\ OnFile(c) /\ pc[c] \in {"write", "writing", "sync", "close", "rename"} =>
          mode[c] = [bits |-> real[c], special |-> FALSE]

OpenedInv == \A c \in Calls : Opened(c)

LInv == IInv /\ ResolvedInv /\ LineageInv /\ OpenedInv
-----------------------------------------------------------------------------
LEMMA InitLInv == Init => LInv
<1> SUFFICES ASSUME Init PROVE LInv
    OBVIOUS
<1>1. IInv
    BY InitInv
<1> QED
    BY <1>1, DistinctNames, PathAssumption
    DEF LInv, Init, ResolvedInv, LineageInv, OpenedInv, Opened, OnFile, Started, Names,
        Inodes, Unopened

(* Changing the entry of a temporary name leaves files and links alone.    *)
LEMMA TmpEntry ==
    ASSUME IInv, NEW t \in TmpNames, NEW e, SetEntries([dir EXCEPT ![t] = e])
    PROVE  \A n \in Files \union Links : dir'[n] = dir[n] /\ pend'[n] = pend[n]
<1> TAKE n \in Files \union Links
<1>1. n \in Names /\ n # t
    BY DistinctNames DEF Names
<1>2. dir'[n] = dir[n] /\ pend'[n] = pend[n] \union {dir[n]}
    BY <1>1 DEF IInv, TypeOK, SetEntries
<1>3. dir[n] \in pend[n]
    BY DEF IInv, NamesInv
<1> QED
    BY <1>2, <1>3

(* A rename gives the replaced file one more possible entry.               *)
LEMMA RenameEntry ==
    ASSUME IInv, NEW c \in Calls, Rename(c)
    PROVE  /\ \A n \in Files \union Links :
                 n # real[c] => dir'[n] = dir[n] /\ pend'[n] = pend[n]
           /\ dir'[real[c]] = c /\ pend'[real[c]] = pend[real[c]] \union {c}
<1>1. tmp[c] \in TmpNames /\ dir[tmp[c]] = c
    BY DEF IInv, Rename, OwnInv, Owning
<1>2. real[c] \in Names /\ real[c] # tmp[c]
    BY <1>1, DistinctNames DEF IInv, TypeOK, Names
<1>3. dir'[real[c]] = c /\ pend'[real[c]] = pend[real[c]] \union {c}
    BY <1>1, <1>2 DEF IInv, TypeOK, Rename, SetEntries
<1>4. ASSUME NEW n \in Files \union Links, n # real[c]
      PROVE  dir'[n] = dir[n] /\ pend'[n] = pend[n]
    <2>1. n \in Names /\ n # tmp[c]
        BY <1>1, DistinctNames DEF Names
    <2>2. dir'[n] = dir[n] /\ pend'[n] = pend[n] \union {dir[n]}
        BY <1>4, <2>1 DEF IInv, TypeOK, Rename, SetEntries
    <2>3. dir[n] \in pend[n]
        BY DEF IInv, NamesInv
    <2> QED
        BY <2>2, <2>3
<1> QED
    BY <1>3, <1>4

(* A crash or a directory sync leaves entries that were possible before.   *)
LEMMA FewerEntries ==
    ASSUME IInv, Crash \/ (\E c \in Calls : FsyncDir(c))
    PROVE  \A n \in Files \union Links : pend'[n] \subseteq pend[n] /\ pend'[n] # {}
<1> TAKE n \in Files \union Links
<1>1. n \in Names /\ dir[n] \in pend[n]
    BY DEF IInv, NamesInv, Names
<1>2. CASE Crash
    <2>1. pend'[n] = {dir'[n]} /\ dir'[n] \in pend[n]
        BY <1>1, <1>2 DEF Crash
    <2> QED
        BY <2>1
<1>3. ASSUME NEW c \in Calls, FsyncDir(c)
      PROVE  pend'[n] \subseteq pend[n] /\ pend'[n] # {}
    <2>1. pend'[n] = {dir[n]} \/ pend'[n] = pend[n]
        BY <1>1, <1>3 DEF FsyncDir
    <2> QED
        BY <1>1, <2>1
<1> QED
    BY <1>2, <1>3

(* The contents and the mode of a published inode never change again.      *)
LEMMA FrozenStep ==
    IInv /\ [Next]_vars => \A i : Pub(i) => data'[i] = data[i] /\ mode'[i] = mode[i]
<1> SUFFICES ASSUME IInv, [Next]_vars, NEW i, Pub(i)
             PROVE  data'[i] = data[i] /\ mode'[i] = mode[i]
    OBVIOUS
<1> USE DEF IInv, TypeOK, Go, Pub, Published, fs
<1>1. ASSUME NEW c \in Calls, EvalSymlinks(c) PROVE data'[i] = data[i] /\ mode'[i] = mode[i]
    BY <1>1 DEF EvalSymlinks
<1>2. ASSUME NEW c \in Calls, Open(c) PROVE data'[i] = data[i] /\ mode'[i] = mode[i]
    BY <1>2 DEF Open
<1>3. ASSUME NEW c \in Calls, Stat(c) PROVE data'[i] = data[i] /\ mode'[i] = mode[i]
    BY <1>3 DEF Stat
<1>4. ASSUME NEW c \in Calls, CreateTemp(c) PROVE data'[i] = data[i] /\ mode'[i] = mode[i]
    BY <1>4 DEF CreateTemp
<1>5. ASSUME NEW c \in Calls, Chmod(c) PROVE data'[i] = data[i] /\ mode'[i] = mode[i]
    BY <1>5 DEF Chmod
<1>6. ASSUME NEW c \in Calls, WriteFirst(c) PROVE data'[i] = data[i] /\ mode'[i] = mode[i]
    BY <1>6 DEF WriteFirst
<1>7. ASSUME NEW c \in Calls, WriteRest(c) PROVE data'[i] = data[i] /\ mode'[i] = mode[i]
    BY <1>7 DEF WriteRest
<1>8. ASSUME NEW c \in Calls, Sync(c) PROVE data'[i] = data[i] /\ mode'[i] = mode[i]
    BY <1>8 DEF Sync
<1>9. ASSUME NEW c \in Calls, Close(c) PROVE data'[i] = data[i] /\ mode'[i] = mode[i]
    BY <1>9 DEF Close
<1>10. ASSUME NEW c \in Calls, Rename(c) PROVE data'[i] = data[i] /\ mode'[i] = mode[i]
    BY <1>10 DEF Rename
<1>11. ASSUME NEW c \in Calls, FsyncDir(c) PROVE data'[i] = data[i] /\ mode'[i] = mode[i]
    BY <1>11 DEF FsyncDir
<1>12. ASSUME NEW c \in Calls, Cleanup(c) PROVE data'[i] = data[i] /\ mode'[i] = mode[i]
    BY <1>12 DEF Cleanup
<1>13. ASSUME NEW c \in Calls, Failure(c) PROVE data'[i] = data[i] /\ mode'[i] = mode[i]
    <2>1. PICK step \in Steps : Refuse(c, step) \/ Abort(c, step)
        BY <1>13 DEF Failure, Steps
    <2> QED
        BY <1>13, <2>1 DEF Refuse, Abort
<1>14. ASSUME NEW l \in Links, Relink(l) PROVE data'[i] = data[i] /\ mode'[i] = mode[i]
    BY <1>14 DEF Relink, call
<1>15. CASE Crash
    BY <1>15 DEF Crash
<1>16. CASE UNCHANGED vars
    BY <1>16 DEF vars, fs, call
<1> QED
    BY <1>1, <1>2, <1>3, <1>4, <1>5, <1>6, <1>7, <1>8, <1>9, <1>10, <1>11, <1>12, <1>13, <1>14, <1>15, <1>16 DEF Next, Step

(* A link gets an entry of its own only from a call that works on it.      *)
LEMMA ResolvedStep == LInv /\ [Next]_vars => ResolvedInv'
<1> SUFFICES ASSUME LInv, [Next]_vars PROVE ResolvedInv'
    OBVIOUS
<1> DEFINE LinkPart == \A l \in Links : dir[l] = NoEntry => pend[l] = {NoEntry}
           CallPart(c) == (Started(c) /\ real[c] \in Links) =>
                             /\ real[c] = Path[c]
                             /\ c \in unresolved \/ dir[real[c]] # NoEntry
           LinksSame == \A l \in Links : dir'[l] = dir[l] /\ pend'[l] = pend[l]
<1>a. ASSUME LinksSame PROVE LinkPart'
    BY <1>a DEF LInv, ResolvedInv
<1>b. ASSUME NEW c \in Calls, Started(c)' => Started(c), real'[c] = real[c],
             unresolved' = unresolved, \A l \in Links : dir[l] # NoEntry => dir'[l] # NoEntry
      PROVE  CallPart(c)'
    BY <1>b DEF LInv, ResolvedInv
<1>c. ASSUME LinkPart', \A c \in Calls : CallPart(c)' PROVE ResolvedInv'
    BY <1>c DEF ResolvedInv
<1> HIDE DEF LinkPart, CallPart
<1>1. ASSUME NEW c \in Calls,
             \/ Open(c) \/ Stat(c) \/ Chmod(c) \/ WriteFirst(c) \/ WriteRest(c)
             \/ Sync(c) \/ Close(c) \/ Failure(c) \/ CreateTemp(c) \/ Cleanup(c)
      PROVE  ResolvedInv'
    <2>1. LinksSame
        <3>1. CASE CreateTemp(c)
            <4>1. PICK t \in TmpNames : SetEntries([dir EXCEPT ![t] = c])
                BY <3>1 DEF CreateTemp
            <4> QED
                BY <4>1, TmpEntry DEF LInv
        <3>2. CASE Cleanup(c)
            <4>1. tmp[c] \in TmpNames
                BY <3>2 DEF LInv, IInv, Cleanup, OwnInv, Owning
            <4> QED
                BY <3>2, <4>1, TmpEntry DEF Cleanup, LInv
        <3>3. CASE Failure(c)
            BY <3>3 DEF Failure, Refuse, Abort, fs
        <3> QED
            BY <1>1, <3>1, <3>2, <3>3 DEF Open, Stat, Chmod, WriteFirst, WriteRest, Sync, Close, fs
    <2>2. /\ real' = real /\ unresolved' = unresolved
          /\ pc[c] \notin {"resolve", "returned", "dead"}
          /\ \A d \in Calls \ {c} : pc'[d] = pc[d]
        BY <1>1 DEF Open, Stat, Chmod, WriteFirst, WriteRest, Sync, Close, Failure, Refuse, Abort,
                    CreateTemp, Cleanup, Go, LInv, IInv, TypeOK
    <2>3. ASSUME NEW d \in Calls PROVE CallPart(d)'
        <3>1. Started(d)' => Started(d)
            BY <2>2 DEF Started
        <3> QED
            BY <1>b, <2>1, <2>2, <3>1
    <2> QED
        BY <1>a, <1>c, <2>1, <2>3
<1>2. ASSUME NEW c \in Calls, EvalSymlinks(c) PROVE ResolvedInv'
    <2>1. LinksSame
        BY <1>2 DEF EvalSymlinks, fs
    <2>2. ASSUME NEW d \in Calls \ {c} PROVE CallPart(d)'
        <3>1. pc'[d] = pc[d] /\ real'[d] = real[d] /\ (d \in unresolved' <=> d \in unresolved)
            BY <1>2 DEF EvalSymlinks, Go, LInv, IInv, TypeOK
        <3> QED
            BY <2>1, <3>1 DEF CallPart, LInv, ResolvedInv, Started
    <2>3. CallPart(c)'
        <3>1. CASE c \in unresolved' /\ real'[c] = Path[c]
            BY <3>1 DEF CallPart
        <3>2. CASE Resolve(Path[c]) # Dangling /\ real'[c] = Resolve(Path[c])
            <4>1. CASE IsLink(Path[c])
                BY <3>2, <4>1, DistinctNames, PathAssumption
                DEF CallPart, Resolve, IsLink, LInv, IInv, TypeOK
            <4>2. CASE ~IsLink(Path[c])
                <5>1. real'[c] = Path[c]
                    BY <3>2, <4>2 DEF Resolve
                <5>2. Path[c] \in Links => dir'[Path[c]] # NoEntry
                    BY <2>1, <4>2 DEF IsLink
                <5> QED
                    BY <5>1, <5>2 DEF CallPart
            <4> QED
                BY <4>1, <4>2
        <3> QED
            BY <1>2, <3>1, <3>2 DEF EvalSymlinks, LInv, IInv, TypeOK
    <2> QED
        BY <1>a, <1>c, <2>1, <2>2, <2>3
<1>3. ASSUME NEW c \in Calls, Rename(c) PROVE ResolvedInv'
    <2>1. /\ \A n \in Files \union Links :
                n # real[c] => dir'[n] = dir[n] /\ pend'[n] = pend[n]
          /\ dir'[real[c]] = c
        BY <1>3, RenameEntry DEF LInv
    <2>2. c # NoEntry
        BY DistinctNames DEF Inodes
    <2>3. LinkPart'
        BY <2>1, <2>2 DEF LinkPart, LInv, ResolvedInv
    <2>4. ASSUME NEW d \in Calls PROVE CallPart(d)'
        <3>1. Started(d)' => Started(d)
            BY <1>3 DEF Rename, Go, Started, LInv, IInv, TypeOK
        <3>2. real'[d] = real[d] /\ unresolved' = unresolved
            BY <1>3 DEF Rename
        <3>3. \A l \in Links : dir[l] # NoEntry => dir'[l] # NoEntry
            BY <2>1, <2>2
        <3> QED
            BY <1>b, <3>1, <3>2, <3>3
    <2> QED
        BY <1>c, <2>3, <2>4
<1>4. ASSUME NEW c \in Calls, FsyncDir(c) PROVE ResolvedInv'
    <2>1. \A l \in Links : pend'[l] \subseteq pend[l] /\ pend'[l] # {}
        BY <1>4, FewerEntries DEF LInv
    <2>2. dir' = dir /\ real' = real /\ unresolved' = unresolved
        BY <1>4 DEF FsyncDir
    <2>3. LinkPart'
        BY <2>1, <2>2 DEF LinkPart, LInv, ResolvedInv
    <2>4. ASSUME NEW d \in Calls PROVE CallPart(d)'
        <3>1. Started(d)' => Started(d)
            BY <1>4 DEF FsyncDir, Go, Started, LInv, IInv, TypeOK
        <3> QED
            BY <1>b, <2>2, <3>1
    <2> QED
        BY <1>c, <2>3, <2>4
<1>5. ASSUME NEW l \in Links, Relink(l) PROVE ResolvedInv'
    BY <1>5 DEF Relink, call, LInv, ResolvedInv, Started
<1>6. CASE Crash
    <2>1. \A l \in Links : pend'[l] = {dir'[l]}
        BY <1>6 DEF Crash, Names
    <2>2. LinkPart'
        BY <2>1 DEF LinkPart
    <2>3. \A c \in Calls : ~Started(c)'
        BY <1>6 DEF Crash, Started
    <2>4. \A c \in Calls : CallPart(c)'
        BY <2>3 DEF CallPart
    <2> QED
        BY <1>c, <2>2, <2>4
<1>7. CASE UNCHANGED vars
    BY <1>7 DEF vars, fs, call, LInv, ResolvedInv, Started
<1> QED
    BY <1>1, <1>2, <1>3, <1>4, <1>5, <1>6, <1>7 DEF Next, Step

(* Rename is the only step that adds to what a file may hold.              *)
LEMMA LineageStep == LInv /\ [Next]_vars => LineageInv'
<1> SUFFICES ASSUME LInv, [Next]_vars PROVE LineageInv'
    OBVIOUS
<1>a. \A f \in Files : \A i \in pend[f] : data'[i] = data[i] /\ mode'[i] = mode[i]
    BY FrozenStep DEF LInv, IInv, NamesInv
<1> USE DistinctNames DEF LInv, IInv, TypeOK, Go, LineageInv, Names
<1>1. ASSUME NEW c \in Calls, EvalSymlinks(c) PROVE LineageInv'
    BY <1>1, <1>a DEF EvalSymlinks, fs
<1>2. ASSUME NEW c \in Calls, Open(c) PROVE LineageInv'
    BY <1>2, <1>a DEF Open, fs
<1>3. ASSUME NEW c \in Calls, Stat(c) PROVE LineageInv'
    BY <1>3, <1>a DEF Stat, fs
<1>4. ASSUME NEW c \in Calls, CreateTemp(c) PROVE LineageInv'
    <2>1. \A f \in Files : pend'[f] = pend[f]
        BY <1>4, TmpEntry DEF CreateTemp
    <2> QED
        BY <1>a, <2>1
<1>5. ASSUME NEW c \in Calls, Chmod(c) PROVE LineageInv'
    BY <1>5, <1>a DEF Chmod
<1>6. ASSUME NEW c \in Calls, WriteFirst(c) PROVE LineageInv'
    BY <1>6, <1>a DEF WriteFirst
<1>7. ASSUME NEW c \in Calls, WriteRest(c) PROVE LineageInv'
    BY <1>7, <1>a DEF WriteRest
<1>8. ASSUME NEW c \in Calls, Sync(c) PROVE LineageInv'
    BY <1>8, <1>a DEF Sync
<1>9. ASSUME NEW c \in Calls, Close(c) PROVE LineageInv'
    BY <1>9, <1>a DEF Close, fs
<1>10. ASSUME NEW c \in Calls, Rename(c) PROVE LineageInv'
    <2>2. real[c] \in Files =>
             data[c].of = real[c] /\ mode[c] = [bits |-> real[c], special |-> FALSE]
        BY <1>10 DEF Rename, OpenedInv, Opened, OnFile, SourceInv, Unopened, Pub
    <2>1. /\ \A n \in Files \union Links : n # real[c] => pend'[n] = pend[n]
          /\ pend'[real[c]] = pend[real[c]] \union {c}
        BY <1>10, RenameEntry
    <2>3. data'[c] = data[c] /\ mode'[c] = mode[c]
        BY <1>10 DEF Rename
    <2> QED
        BY <1>a, <2>1, <2>2, <2>3
<1>11. ASSUME NEW c \in Calls, FsyncDir(c) PROVE LineageInv'
    BY <1>11, <1>a, FewerEntries DEF FsyncDir
<1>12. ASSUME NEW c \in Calls, Cleanup(c) PROVE LineageInv'
    <2>1. tmp[c] \in TmpNames
        BY <1>12 DEF Cleanup, OwnInv, Owning
    <2>2. \A f \in Files : pend'[f] = pend[f]
        BY <1>12, <2>1, TmpEntry DEF Cleanup
    <2> QED
        BY <1>a, <2>2
<1>13. ASSUME NEW c \in Calls, Failure(c) PROVE LineageInv'
    <2>1. PICK step \in Steps : Refuse(c, step) \/ Abort(c, step)
        BY <1>13 DEF Failure, Steps
    <2> QED
        BY <1>13, <1>a, <2>1 DEF Refuse, Abort, fs
<1>14. ASSUME NEW l \in Links, Relink(l) PROVE LineageInv'
    BY <1>14, <1>a DEF Relink, call
<1>15. CASE Crash
    <2>1. \A f \in Files : pend'[f] \subseteq pend[f]
        BY <1>15, FewerEntries
    <2> QED
        BY <1>a, <2>1
<1>16. CASE UNCHANGED vars
    BY <1>16, <1>a DEF vars, fs, call
<1> QED
    BY <1>1, <1>2, <1>3, <1>4, <1>5, <1>6, <1>7, <1>8, <1>9, <1>10, <1>11, <1>12, <1>13, <1>14, <1>15, <1>16 DEF Next, Step

(* A call keeps what it opened and builds its replacement from it.         *)
LEMMA OpenedStep == LInv /\ [Next]_vars => OpenedInv'
<1> SUFFICES ASSUME LInv, [Next]_vars PROVE OpenedInv'
    OBVIOUS
<1>a. \A i : Pub(i) => Pub(i)' /\ data'[i] = data[i] /\ mode'[i] = mode[i]
    BY FrozenStep, PubStep DEF LInv
<1>b. \A c \in Calls : pc[c] \in Owning => fd[c] # NoEntry
    BY DistinctNames DEF LInv, IInv, SourceInv, Pub, Owning, Unopened
<1> USE DistinctNames DEF LInv, IInv, TypeOK, Go, OpenedInv, Opened, OnFile, Unopened, Owning
<1>1. ASSUME NEW c \in Calls, EvalSymlinks(c) PROVE OpenedInv'
    BY <1>1, <1>a, <1>b DEF EvalSymlinks, fs
<1>2. ASSUME NEW c \in Calls, Open(c) PROVE OpenedInv'
    <2>1. real[c] \in Files => Resolve(real[c]) = real[c]
        BY <1>2 DEF Open, Resolve, IsLink
    <2>2. Pub(dir[Resolve(real[c])])
        <3>1. Resolve(real[c]) \in Files \union Links
            BY <1>2, PathAssumption DEF Open, Resolve, IsLink
        <3>2. dir[Resolve(real[c])] # NoEntry
            BY <1>2, PathAssumption DEF Open, Resolve, IsLink, NamesInv
        <3> QED
            BY <3>1, <3>2 DEF NamesInv
    <2>3. real[c] \in Files => dir[real[c]] \in pend[real[c]]
        BY DEF NamesInv
    <2>4. real[c] \in Files =>
             data[dir[real[c]]].of = real[c] /\ mode[dir[real[c]]].bits = real[c]
        BY <2>3 DEF LineageInv
    <2>5. Opened(c)'
        BY <1>2, <1>a, <2>1, <2>2, <2>4 DEF Open, fs
    <2>6. ASSUME NEW d \in Calls \ {c} PROVE Opened(d)'
        BY <1>2, <1>a DEF Open, fs
    <2> QED
        BY <2>5, <2>6
<1>3. ASSUME NEW c \in Calls, Stat(c) PROVE OpenedInv'
    BY <1>3, <1>a, <1>b DEF Stat, fs
<1>4. ASSUME NEW c \in Calls, CreateTemp(c) PROVE OpenedInv'
    BY <1>4, <1>a, <1>b DEF CreateTemp
<1>5. ASSUME NEW c \in Calls, Chmod(c) PROVE OpenedInv'
    <2>1. /\ fd[c] # NoEntry /\ fd' = fd /\ real' = real /\ data' = data
          /\ fi' = fi
        BY <1>5, <1>b DEF Chmod
    <2>2. real[c] \in Files => mode'[c] = [bits |-> real[c], special |-> FALSE]
        BY <1>5, <2>1 DEF Chmod, Inodes
    <2>3. \A d \in Calls \ {c} : mode'[d] = mode[d]
        BY <1>5 DEF Chmod, Inodes
    <2>4. pc' = [pc EXCEPT ![c] = "write"] /\ pc[c] = "chmod"
        BY <1>5 DEF Chmod
    <2>5. Opened(c)'
        BY <1>a, <2>1, <2>2, <2>4
    <2>6. ASSUME NEW d \in Calls \ {c} PROVE Opened(d)'
        BY <1>a, <2>1, <2>3, <2>4
    <2> QED
        BY <2>5, <2>6
<1>6. ASSUME NEW c \in Calls, WriteFirst(c) PROVE OpenedInv'
    BY <1>6, <1>a, <1>b DEF WriteFirst
<1>7. ASSUME NEW c \in Calls, WriteRest(c) PROVE OpenedInv'
    <2>1. /\ fd[c] # NoEntry /\ fd' = fd /\ real' = real /\ mode' = mode
          /\ Pub(fd[c]) /\ fi' = fi
        BY <1>7, <1>b DEF WriteRest
    <2>2. /\ real[c] \in Files => data'[c].of = real[c]
          /\ data'[c].edits = data[fd[c]].edits \union {c}
        BY <1>7, <2>1 DEF WriteRest, Inodes
    <2>3. \A d \in Calls \ {c} : data'[d] = data[d]
        BY <1>7 DEF WriteRest, Inodes
    <2>4. pc' = [pc EXCEPT ![c] = "sync"] /\ pc[c] = "writing"
        BY <1>7 DEF WriteRest
    <2>5. \A d \in Calls : fd[d] # NoEntry => data'[fd[d]] = data[fd[d]]
        BY <1>a
    <2>6. Opened(c)'
        <3>1. /\ pc'[c] = "sync"
              /\ real[c] \in Files => mode[c] = [bits |-> real[c], special |-> FALSE]
            BY <2>1, <2>4
        <3>2. Pub(fd[c])' /\ data'[fd[c]] = data[fd[c]]
            BY <1>a, <2>1
        <3>3. /\ real[c] \in Files => data'[c].of = real[c]
              /\ data'[c].edits = data'[fd[c]].edits \union {c}
            BY <2>2, <3>2
        <3> QED
            BY <2>1, <3>1, <3>2, <3>3
    <2>7. ASSUME NEW d \in Calls \ {c} PROVE Opened(d)'
        <3>1. pc'[d] = pc[d] /\ data'[d] = data[d]
            BY <2>3, <2>4
        <3>2. fd[d] # NoEntry => Pub(fd[d])' /\ data'[fd[d]] = data[fd[d]]
            BY <1>a, <2>1, <2>5
        <3>3. pc[d] \in {"sync", "close", "rename"} => fd[d] # NoEntry
            BY <1>b
        <3> QED
            BY <2>1, <3>1, <3>2, <3>3
    <2> QED
        BY <2>6, <2>7
<1>8. ASSUME NEW c \in Calls, Sync(c) PROVE OpenedInv'
    BY <1>8, <1>a, <1>b DEF Sync
<1>9. ASSUME NEW c \in Calls, Close(c) PROVE OpenedInv'
    BY <1>9, <1>a, <1>b DEF Close, fs
<1>10. ASSUME NEW c \in Calls, Rename(c) PROVE OpenedInv'
    BY <1>10, <1>a, <1>b DEF Rename
<1>11. ASSUME NEW c \in Calls, FsyncDir(c) PROVE OpenedInv'
    BY <1>11, <1>a, <1>b DEF FsyncDir
<1>12. ASSUME NEW c \in Calls, Cleanup(c) PROVE OpenedInv'
    BY <1>12, <1>a, <1>b DEF Cleanup
<1>13. ASSUME NEW c \in Calls, Failure(c) PROVE OpenedInv'
    <2>1. PICK step \in Steps : Refuse(c, step) \/ Abort(c, step)
        BY <1>13 DEF Failure, Steps
    <2> QED
        BY <1>13, <1>a, <1>b, <2>1 DEF Failure, Refuse, Abort, fs
<1>14. ASSUME NEW l \in Links, Relink(l) PROVE OpenedInv'
    BY <1>14, <1>a, <1>b DEF Relink, call
<1>15. CASE Crash
    BY ZenonT(60), <1>15, <1>a, <1>b DEF Crash, Started
<1>16. CASE UNCHANGED vars
    BY <1>16, <1>a, <1>b DEF vars, fs, call
<1> QED
    BY <1>1, <1>2, <1>3, <1>4, <1>5, <1>6, <1>7, <1>8, <1>9, <1>10, <1>11, <1>12, <1>13, <1>14, <1>15, <1>16 DEF Next, Step

LEMMA LInvStep == LInv /\ [Next]_vars => LInv'
BY InvStep, ResolvedStep, LineageStep, OpenedStep DEF LInv

LEMMA LInvHolds == Spec => []LInv
<1>1. Init => LInv
    BY InitLInv
<1>2. LInv /\ [Next]_vars => LInv'
    BY LInvStep
<1> QED
    BY <1>1, <1>2, PTL DEF Spec

(* A file always holds its own picture: no call replaces a file other than *)
(* the one it read, wherever links are moved and whether or not they can   *)
(* be resolved.                                                            *)
THEOREM PictureAlwaysStays == Spec => []PictureStays
<1>1. LInv => PictureStays
    BY DEF LInv, IInv, NamesInv, LineageInv, PictureStays
<1> QED
    BY <1>1, LInvHolds, PTL

(* A replacement has the permission bits of the file it replaces, also     *)
(* when the link to it was moved, without setuid, setgid and sticky bits.  *)
THEOREM ModeAlwaysKept == Spec => []ModeKept
<1>1. LInv => ModeKept
    BY DEF LInv, IInv, NamesInv, LineageInv, ModeKept
<1> QED
    BY <1>1, LInvHolds, PTL

LEMMA LinkStep ==
    ASSUME LInv, [Next]_vars, NEW l \in Links, dir[l] = NoEntry, dir'[l] # NoEntry
    PROVE  dir'[l] \in unresolved /\ Path[dir'[l]] = l
<1>1. ASSUME NEW c \in Calls, Rename(c) PROVE dir'[l] \in unresolved /\ Path[dir'[l]] = l
    <2>1. /\ \A n \in Files \union Links : n # real[c] => dir'[n] = dir[n]
          /\ dir'[real[c]] = c
        BY <1>1, RenameEntry DEF LInv
    <2>2. real[c] = l /\ dir'[l] = c
        BY <2>1
    <2>3. Started(c)
        BY <1>1 DEF Rename, Started
    <2> QED
        BY <2>2, <2>3 DEF LInv, ResolvedInv
<1>2. ASSUME NEW c \in Calls, CreateTemp(c) \/ Cleanup(c) PROVE FALSE
    <2>1. CASE CreateTemp(c)
        <3>1. PICK t \in TmpNames : SetEntries([dir EXCEPT ![t] = c])
            BY <2>1 DEF CreateTemp
        <3> QED
            BY <3>1, TmpEntry DEF LInv
    <2>2. CASE Cleanup(c)
        <3>1. tmp[c] \in TmpNames
            BY <2>2 DEF LInv, IInv, Cleanup, OwnInv, Owning
        <3> QED
            BY <2>2, <3>1, TmpEntry DEF Cleanup, LInv
    <2> QED
        BY <1>2, <2>1, <2>2
<1>3. ASSUME NEW c \in Calls,
             \/ EvalSymlinks(c) \/ Open(c) \/ Stat(c) \/ Chmod(c) \/ WriteFirst(c)
             \/ WriteRest(c) \/ Sync(c) \/ Close(c) \/ FsyncDir(c)
      PROVE  dir' = dir
    BY <1>3 DEF EvalSymlinks, Open, Stat, Chmod, WriteFirst, WriteRest, Sync, Close, FsyncDir, fs
<1>4. ASSUME NEW c \in Calls, Failure(c) PROVE dir' = dir
    BY <1>4 DEF Failure, Refuse, Abort, fs
<1>5. ASSUME NEW k \in Links, Relink(k) PROVE dir' = dir
    BY <1>5 DEF Relink
<1>6. ~Crash
    <2>1. pend[l] = {NoEntry}
        BY DEF LInv, ResolvedInv
    <2> QED
        BY <2>1 DEF Crash, Names
<1>7. CASE UNCHANGED vars
    BY <1>7 DEF vars, fs
<1> QED
    BY <1>1, <1>2, <1>3, <1>4, <1>5, <1>6, <1>7 DEF Next, Step

(* A link is replaced by a regular file only by a call that was given this *)
(* link and could not resolve it; no crash and no other call does it.      *)
THEOREM LinkAlwaysSurvives == Spec => LinkSurvives
<1>1. LInv /\ [Next]_vars
         => [\A l \in Links : (dir[l] = NoEntry /\ dir'[l] # NoEntry)
                                 => dir'[l] \in unresolved /\ Path[dir'[l]] = l]_vars
    BY LinkStep
<1> QED
    BY <1>1, LInvHolds, PTL DEF Spec, LinkSurvives

-----------------------------------------------------------------------------
(* WriteFile implements AtomicReplace: Open is Begin, Rename is Replace,   *)
(* FsyncDir is Succeed, a refusal or the clean-up of an error path is      *)
(* Fail, Crash is Crash, and every other step changes nothing that         *)
(* AtomicReplace speaks of.  A call on the entry of a link steps aside     *)
(* when it opens what the link leads to; all it does to the files after    *)
(* that is to settle its directory.                                        *)

(* A call that cleans up is returning an error; no call has met an error   *)
(* before.                                                                 *)
ErrInv == \A c \in Calls : /\ pc[c] = "cleanup" => err[c]
                           /\ pc[c] \notin {"cleanup", "returned", "dead"} => ~err[c]

RInv == LInv /\ ErrInv
-----------------------------------------------------------------------------
LEMMA ErrStep == RInv /\ [Next]_vars => ErrInv'
<1> SUFFICES ASSUME RInv, [Next]_vars PROVE ErrInv'
    OBVIOUS
<1> USE DEF RInv, LInv, IInv, TypeOK, Go, ErrInv
<1>1. ASSUME NEW c \in Calls,
             \/ EvalSymlinks(c) \/ Open(c) \/ Stat(c) \/ CreateTemp(c) \/ Chmod(c)
             \/ WriteFirst(c) \/ WriteRest(c) \/ Sync(c) \/ Close(c) \/ Rename(c)
             \/ FsyncDir(c) \/ Cleanup(c)
      PROVE  ErrInv'
    <2>1. err' = err
        BY <1>1 DEF EvalSymlinks, Open, Stat, CreateTemp, Chmod, WriteFirst, WriteRest,
                    Sync, Close, Rename, FsyncDir, Cleanup
    <2>2. \A d \in Calls \ {c} : pc'[d] = pc[d]
        BY <1>1 DEF EvalSymlinks, Open, Stat, CreateTemp, Chmod, WriteFirst, WriteRest,
                    Sync, Close, Rename, FsyncDir, Cleanup
    <2>3. pc[c] \notin {"returned", "dead"} /\ pc'[c] # "cleanup"
        BY <1>1 DEF EvalSymlinks, Open, Stat, CreateTemp, Chmod, WriteFirst, WriteRest,
                    Sync, Close, Rename, FsyncDir, Cleanup
    <2>4. pc[c] = "cleanup" => pc'[c] = "returned"
        BY <1>1 DEF EvalSymlinks, Open, Stat, CreateTemp, Chmod, WriteFirst, WriteRest,
                    Sync, Close, Rename, FsyncDir, Cleanup
    <2> QED
        BY <2>1, <2>2, <2>3, <2>4
<1>2. ASSUME NEW c \in Calls, Failure(c) PROVE ErrInv'
    <2>1. PICK step \in Steps : Refuse(c, step) \/ Abort(c, step)
        BY <1>2 DEF Failure, Steps
    <2> QED
        BY <2>1 DEF Refuse, Abort
<1>3. ASSUME NEW l \in Links, Relink(l) PROVE ErrInv'
    BY <1>3 DEF Relink, call
<1>4. CASE Crash
    BY <1>4 DEF Crash, Started
<1>5. CASE UNCHANGED vars
    BY <1>5 DEF vars, call
<1> QED
    BY <1>1, <1>2, <1>3, <1>4, <1>5 DEF Next, Step

LEMMA RInvHolds == Spec => []RInv
<1>1. Init => RInv
    BY InitLInv DEF RInv, ErrInv, Init
<1>2. RInv /\ [Next]_vars => RInv'
    BY LInvStep, ErrStep DEF RInv
<1> QED
    BY <1>1, <1>2, PTL DEF Spec
-----------------------------------------------------------------------------
(* A file whose entries stay the same holds the same images.               *)
LEMMA SameFiles ==
    ASSUME RInv, [Next]_vars,
           \A f \in Files : dir'[f] = dir[f] /\ pend'[f] = pend[f]
    PROVE  Image' = Image /\ Safe' = Safe
<1>1. \A i : Pub(i) => data'[i] = data[i]
    BY FrozenStep DEF RInv, LInv
<1>2. \A f \in Files : dir[f] \in pend[f] /\ \A i \in pend[f] : Pub(i)
    BY DEF RInv, LInv, IInv, NamesInv
<1>3. \A f \in Files : data'[dir'[f]] = data[dir[f]]
    BY <1>1, <1>2
<1>4. \A f \in Files : {data'[i].edits : i \in pend'[f]} = {data[i].edits : i \in pend[f]}
    BY <1>1, <1>2
<1> QED
    BY <1>3, <1>4 DEF Image, Safe

(* A call that has opened its file goes on reading the same image.         *)
LEMMA SameSource ==
    ASSUME RInv, [Next]_vars, NEW c \in Calls, fd'[c] = fd[c],
           fd[c] # NoEntry => real'[c] = real[c]
    PROVE  Source'[c] = Source[c] /\ Base'[c] = Base[c]
<1>1. fd[c] # NoEntry => data'[fd[c]] = data[fd[c]]
    BY FrozenStep DEF RInv, LInv, OpenedInv, Opened
<1>2. OnFile(c)' = OnFile(c)
    BY DEF OnFile
<1>3. OnFile(c) => fd[c] # NoEntry
    BY DEF OnFile
<1> QED
    BY <1>1, <1>2, <1>3 DEF Source, Base

(* The steps of a call after Open keep every source.                       *)
LEMMA SameSources ==
    ASSUME RInv, [Next]_vars, fd' = fd, real' = real
    PROVE  Source' = Source /\ Base' = Base
<1>1. \A c \in Calls : Source'[c] = Source[c] /\ Base'[c] = Base[c]
    BY SameSource
<1> QED
    BY <1>1 DEF Source, Base
-----------------------------------------------------------------------------
LEMMA InitImplements == ASSUME Init PROVE Abstract!Init
<1> USE DistinctNames, PathAssumption DEF Init, Names, Inodes
<1>1. Image = [f \in Files |-> {}]
    BY DEF Image
<1>2. Safe = [f \in Files |-> {{}}]
    <2>1. \A f \in Files : pend[f] = {f} /\ data[f].edits = {}
        OBVIOUS
    <2>2. ASSUME NEW f \in Files PROVE {data[i].edits : i \in pend[f]} = {{}}
        <3>1. {data[i].edits : i \in {f}} = {data[f].edits}
            OBVIOUS
        <3> QED
            BY <2>1, <3>1
    <2> QED
        BY <2>2 DEF Safe
<1>3. Source = [c \in Calls |-> "no file"] /\ Base = [c \in Calls |-> {}]
    BY DEF Source, Base, OnFile
<1>4. Phases = [c \in Calls |-> "none"]
    BY DEF Phases, Phase, Aside, Progress
<1> QED
    BY <1>1, <1>2, <1>3, <1>4 DEF Abstract!Init, Abstract!NoFile

(* The steps that AtomicReplace does not see.                              *)
LEMMA QuietStep ==
    ASSUME RInv, [Next]_vars, NEW c \in Calls,
           \/ EvalSymlinks(c) \/ Stat(c) \/ CreateTemp(c) \/ Chmod(c)
           \/ WriteFirst(c) \/ WriteRest(c) \/ Sync(c) \/ Close(c)
    PROVE  UNCHANGED <<Image, Safe, Source, Base, Phases>>
<1> USE DEF RInv, LInv, IInv, TypeOK, Go
<1>1. \A f \in Files : dir'[f] = dir[f] /\ pend'[f] = pend[f]
    <2>1. CASE CreateTemp(c)
        <3>1. PICK t \in TmpNames : SetEntries([dir EXCEPT ![t] = c])
            BY <2>1 DEF CreateTemp
        <3> QED
            BY <3>1, TmpEntry
    <2> QED
        BY <2>1 DEF EvalSymlinks, Stat, Chmod, WriteFirst, WriteRest, Sync, Close, fs
<1>2. Image' = Image /\ Safe' = Safe
    BY <1>1, SameFiles
<1>3. \A d \in Calls : fd'[d] = fd[d] /\ (fd[d] # NoEntry => real'[d] = real[d])
    BY DEF EvalSymlinks, Stat, CreateTemp, Chmod, WriteFirst, WriteRest, Sync, Close,
           OpenedInv, Opened, Unopened
<1>4. Source' = Source /\ Base' = Base
    <2>1. \A d \in Calls : Source'[d] = Source[d] /\ Base'[d] = Base[d]
        BY <1>3, SameSource
    <2> QED
        BY <2>1 DEF Source, Base
<1>5. Phases' = Phases
    <2>1. err' = err /\ \A d \in Calls \ {c} : pc'[d] = pc[d]
        BY DEF EvalSymlinks, Stat, CreateTemp, Chmod, WriteFirst, WriteRest, Sync, Close
    <2>2. {pc[c], pc'[c]} \intersect Published = {}
        BY DEF EvalSymlinks, Stat, CreateTemp, Chmod, WriteFirst, WriteRest, Sync, Close,
               Published
    <2>3. \A d \in Calls : Aside(d)' = Aside(d)
        BY <1>3 DEF Aside
    <2>4. \A d \in Calls : Progress(d)' = Progress(d)
        BY <2>1, <2>2 DEF Progress, Published
    <2> QED
        BY <2>3, <2>4 DEF Phases, Phase
<1> QED
    BY <1>2, <1>4, <1>5

LEMMA OpenBegins ==
    ASSUME RInv, [Next]_vars, NEW c \in Calls, Open(c), real[c] \in Files
    PROVE  Abstract!Begin(c, real[c])
<1> USE DEF RInv, LInv, IInv, TypeOK, Go
<1>1. Resolve(real[c]) = real[c]
    BY DistinctNames DEF Resolve, IsLink
<1>2. Pub(dir[real[c]]) /\ dir[real[c]] # NoEntry
    <2>1. /\ dir[real[c]] \in pend[real[c]] /\ NoEntry \notin pend[real[c]]
          /\ \A i \in pend[real[c]] : i # NoEntry => Pub(i)
        BY <1>1 DEF NamesInv
    <2> QED
        BY <2>1
<1>3. Image' = Image /\ Safe' = Safe
    BY SameFiles DEF Open, fs
<1>4. fd' = [fd EXCEPT ![c] = dir[real[c]]] /\ real' = real /\ data' = data /\ fd[c] = NoEntry
    BY <1>1 DEF Open, fs, OpenedInv, Opened, Unopened
<1>5. Source' = [Source EXCEPT ![c] = real[c]] /\ Source[c] = "no file"
    BY <1>2, <1>4 DEF Source, OnFile
<1>6. Base' = [Base EXCEPT ![c] = Image[real[c]]]
    BY <1>1, <1>2, <1>4 DEF Base, Image, OnFile
<1>7. Phases' = Phases /\ Phases[c] = "none"
    <2>1. \A d \in Calls : Aside(d)' = Aside(d) /\ ~Aside(c)
        BY <1>4, DistinctNames DEF Aside
    <2>2. \A d \in Calls : Progress(d)' = Progress(d) /\ Progress(c) = "none"
        BY DEF Open, Progress
    <2> QED
        BY <2>1, <2>2 DEF Phases, Phase
<1> QED
    BY <1>3, <1>5, <1>6, <1>7 DEF Abstract!Begin, Abstract!NoFile

(* A call whose path is a link, or was one, opens nothing that             *)
(* AtomicReplace knows.                                                    *)
LEMMA OpenStepsAside ==
    ASSUME RInv, [Next]_vars, NEW c \in Calls, Open(c), real[c] \in Links
    PROVE  Abstract!StepAside(c)
<1> USE DEF RInv, LInv, IInv, TypeOK, Go
<1>1. fd[c] = NoEntry /\ fd' = [fd EXCEPT ![c] = dir[Resolve(real[c])]] /\ real' = real /\ data' = data
    BY DEF Open, fs, OpenedInv, Opened, Unopened
<1>2. dir[Resolve(real[c])] # NoEntry
    BY PathAssumption DEF Open, Resolve, IsLink, NamesInv
<1>3. Image' = Image /\ Safe' = Safe
    BY SameFiles DEF Open, fs
<1>4. real[c] \notin Files
    BY DistinctNames
<1>5. \A d \in Calls : OnFile(d)' = OnFile(d) /\ (OnFile(d) => fd'[d] = fd[d]) /\ ~OnFile(c)
    BY <1>1, <1>4 DEF OnFile
<1>6. Source' = Source /\ Base' = Base /\ Source[c] = "no file"
    BY <1>1, <1>5 DEF Source, Base
<1>7. Phases[c] = "none" /\ Phases' = [Phases EXCEPT ![c] = "aside"]
    <2>1. \A d \in Calls \ {c} : Aside(d)' = Aside(d)
        BY <1>1 DEF Aside
    <2>2. ~Aside(c) /\ Aside(c)'
        BY <1>1, <1>2 DEF Aside
    <2>3. \A d \in Calls : Progress(d)' = Progress(d) /\ Progress(c) = "none"
        BY DEF Open, Progress
    <2> QED
        BY <2>1, <2>2, <2>3 DEF Phases, Phase
<1> QED
    BY <1>3, <1>6, <1>7 DEF Abstract!StepAside, Abstract!NoFile

LEMMA RenameReplaces ==
    ASSUME RInv, [Next]_vars, NEW c \in Calls, Rename(c), real[c] \in Files
    PROVE  Abstract!Replace(c)
<1> USE DEF RInv, LInv, IInv, TypeOK, Go
<1>1. /\ real[c] \in Files /\ fd[c] # NoEntry
      /\ data[c].edits = data[fd[c]].edits \union {c}
      /\ tmp[c] \in TmpNames /\ dir[tmp[c]] = c
    <2>1. pc[c] = "rename"
        BY DEF Rename
    <2>3. fd[c] # NoEntry
        BY <2>1, DistinctNames DEF SourceInv, Unopened, Pub
    <2>4. data[c].edits = data[fd[c]].edits \union {c}
        BY <2>1, <2>3 DEF OpenedInv, Opened, OnFile
    <2>5. tmp[c] \in TmpNames /\ dir[tmp[c]] = c
        BY <2>1 DEF OwnInv, Owning
    <2> QED
        BY <2>3, <2>4, <2>5
<1>2. Source[c] = real[c] /\ data[c].edits = Base[c] \union {c}
    BY <1>1 DEF Source, Base, OnFile
<1>3. /\ \A f \in Files : f # real[c] => dir'[f] = dir[f] /\ pend'[f] = pend[f]
      /\ dir'[real[c]] = c /\ pend'[real[c]] = pend[real[c]] \union {c}
    BY RenameEntry
<1>4. data' = data
    BY DEF Rename
<1>5. Image' = [Image EXCEPT ![real[c]] = Base[c] \union {c}]
    <2>1. \A f \in Files : f # real[c] => Image'[f] = Image[f]
        BY <1>3, <1>4 DEF Image
    <2>2. Image'[real[c]] = Base[c] \union {c}
        BY <1>1, <1>2, <1>3, <1>4 DEF Image
    <2>3. Image = [f \in Files |-> Image[f]] /\ Image' = [f \in Files |-> Image'[f]]
        BY DEF Image
    <2> QED
        BY <1>1, <2>1, <2>2, <2>3
<1>6. Safe' = [Safe EXCEPT ![real[c]] = @ \union {Base[c] \union {c}}]
    <2>1. ASSUME NEW f \in Files, f # real[c] PROVE Safe'[f] = Safe[f]
        <3>1. pend'[f] = pend[f]
            BY <1>3, <2>1
        <3> QED
            BY <1>4, <3>1 DEF Safe
    <2>2. {data[i].edits : i \in pend[real[c]] \union {c}}
             = {data[i].edits : i \in pend[real[c]]} \union {data[c].edits}
        OBVIOUS
    <2>3. Safe'[real[c]] = Safe[real[c]] \union {Base[c] \union {c}}
        <3>1. Safe[real[c]] = {data[i].edits : i \in pend[real[c]]}
            BY <1>1 DEF Safe
        <3>2. Safe'[real[c]] = {data'[i].edits : i \in pend'[real[c]]}
            BY <1>1, <1>4 DEF Safe
        <3>3. Safe'[real[c]] = {data[i].edits : i \in pend[real[c]] \union {c}}
            BY <1>3, <1>4, <3>2
        <3> QED
            BY <1>2, <2>2, <3>1, <3>3
    <2>4. Safe = [f \in Files |-> Safe[f]] /\ Safe' = [f \in Files |-> Safe'[f]]
        BY DEF Safe
    <2> QED
        BY <1>1, <2>1, <2>3, <2>4
<1>7. Source' = Source /\ Base' = Base
    BY SameSources DEF Rename
<1>8. Phases[c] = "none" /\ Phases' = [Phases EXCEPT ![c] = "replaced"]
    <2>1. \A d \in Calls : Aside(d)' = Aside(d) /\ ~Aside(c)
        BY DistinctNames DEF Aside, Rename
    <2>2. \A d \in Calls \ {c} : Progress(d)' = Progress(d)
        BY DEF Rename, Progress
    <2>3. Progress(c) = "none" /\ Progress(c)' = "replaced"
        BY DEF Rename, Progress
    <2> QED
        BY <2>1, <2>2, <2>3 DEF Phases, Phase
<1>9. real[c] # "no file"
    BY <1>1, NoFileAssumption
<1> QED
    BY <1>2, <1>5, <1>6, <1>7, <1>8, <1>9 DEF Abstract!Replace, Abstract!NoFile

(* A call on a link replaces no file.                                      *)
LEMMA RenameAside ==
    ASSUME RInv, [Next]_vars, NEW c \in Calls, Rename(c), real[c] \in Links
    PROVE  UNCHANGED <<Image, Safe, Source, Base, Phases>>
<1> USE DEF RInv, LInv, IInv, TypeOK, Go
<1>1. \A f \in Files : dir'[f] = dir[f] /\ pend'[f] = pend[f]
    BY RenameEntry, DistinctNames
<1>2. Image' = Image /\ Safe' = Safe
    BY <1>1, SameFiles
<1>3. Source' = Source /\ Base' = Base
    BY SameSources DEF Rename
<1>4. fd[c] # NoEntry
    BY DistinctNames DEF Rename, SourceInv, Unopened, Pub
<1>5. \A d \in Calls : Aside(d)' = Aside(d) /\ Aside(c)
    BY <1>4 DEF Aside, Rename
<1>6. \A d \in Calls \ {c} : Progress(d)' = Progress(d)
    BY DEF Rename, Progress
<1> QED
    BY <1>2, <1>3, <1>5, <1>6 DEF Phases, Phase

(* What a directory sync leaves of the images a crash may leave.           *)
LEMMA FsyncSafe ==
    ASSUME RInv, NEW c \in Calls, FsyncDir(c)
    PROVE  \/ Safe' = Safe
           \/ Safe' = [f \in Files |-> IF Folder[f] = Folder[real[c]] THEN {Image[f]} ELSE Safe[f]]
<1>1. CASE pend' = pend
    BY <1>1 DEF FsyncDir, Safe
<1>2. CASE pend' = [n \in Names |-> IF Folder[n] = Folder[real[c]] THEN {dir[n]} ELSE pend[n]]
    <2>1. \A f \in Files : {data[i].edits : i \in {dir[f]}} = {Image[f]}
        BY DEF Image
    <2>2. ASSUME NEW f \in Files
          PROVE  Safe'[f] = IF Folder[f] = Folder[real[c]] THEN {Image[f]} ELSE Safe[f]
        <3>1. pend'[f] = IF Folder[f] = Folder[real[c]] THEN {dir[f]} ELSE pend[f]
            BY <1>2 DEF Names
        <3>2. data' = data
            BY DEF FsyncDir
        <3> QED
            BY <2>1, <3>1, <3>2 DEF Safe
    <2> QED
        BY <2>2 DEF Safe
<1> QED
    BY <1>1, <1>2 DEF FsyncDir

LEMMA FsyncSucceeds ==
    ASSUME RInv, [Next]_vars, NEW c \in Calls, FsyncDir(c), real[c] \in Files
    PROVE  Abstract!Succeed(c)
<1> USE DEF RInv, LInv, IInv, TypeOK, Go
<1>1. Source[c] = real[c]
    BY DistinctNames DEF FsyncDir, SourceInv, Pub, Unopened, Source, OnFile
<1>2. Image' = Image
    BY DEF FsyncDir, Image
<1>3. \/ Safe' = Safe
      \/ Safe' = [f \in Files |-> IF Folder[f] = Folder[Source[c]] THEN {Image[f]} ELSE Safe[f]]
    BY <1>1, FsyncSafe
<1>4. Source' = Source /\ Base' = Base
    BY SameSources DEF FsyncDir
<1>5. Phases[c] = "replaced" /\ Phases' = [Phases EXCEPT ![c] = "ok"]
    <2>1. \A d \in Calls : Aside(d)' = Aside(d) /\ ~Aside(c)
        BY DistinctNames DEF Aside, FsyncDir
    <2>2. \A d \in Calls \ {c} : Progress(d)' = Progress(d)
        BY DEF FsyncDir, Progress
    <2>3. Progress(c) = "replaced" /\ Progress(c)' = "ok"
        BY DEF FsyncDir, Progress, ErrInv
    <2> QED
        BY <2>1, <2>2, <2>3 DEF Phases, Phase
<1> QED
    BY <1>2, <1>3, <1>4, <1>5 DEF Abstract!Succeed

(* The sync of a call on a link settles the files beside the link.         *)
LEMMA FsyncAside ==
    ASSUME RInv, [Next]_vars, NEW c \in Calls, FsyncDir(c), real[c] \in Links
    PROVE  \/ \E f \in Files : Abstract!Settle(Folder[f])
           \/ UNCHANGED <<Image, Safe, Source, Base, Phases>>
<1> USE DEF RInv, LInv, IInv, TypeOK, Go
<1>1. Image' = Image
    BY DEF FsyncDir, Image
<1>2. Source' = Source /\ Base' = Base
    BY SameSources DEF FsyncDir
<1>3. Phases' = Phases
    <2>1. fd[c] # NoEntry
        BY DistinctNames DEF FsyncDir, SourceInv, Unopened, Pub
    <2>2. \A d \in Calls : Aside(d)' = Aside(d) /\ Aside(c)
        BY <2>1 DEF Aside, FsyncDir
    <2>3. \A d \in Calls \ {c} : Progress(d)' = Progress(d)
        BY DEF FsyncDir, Progress
    <2> QED
        BY <2>2, <2>3 DEF Phases, Phase
<1>4. CASE Safe' = Safe
    BY <1>1, <1>2, <1>3, <1>4
<1>5. CASE Safe' = [f \in Files |-> IF Folder[f] = Folder[real[c]] THEN {Image[f]} ELSE Safe[f]]
    <2>1. CASE \E f \in Files : Folder[f] = Folder[real[c]]
        BY <1>1, <1>2, <1>3, <1>5, <2>1 DEF Abstract!Settle
    <2>2. CASE \A f \in Files : Folder[f] # Folder[real[c]]
        <3>1. Safe' = Safe
            BY <1>5, <2>2 DEF Safe
        <3> QED
            BY <1>1, <1>2, <1>3, <3>1
    <2> QED
        BY <2>1, <2>2
<1> QED
    BY <1>4, <1>5, FsyncSafe

LEMMA CleanupFails ==
    ASSUME RInv, [Next]_vars, NEW c \in Calls, Cleanup(c)
    PROVE  Abstract!Fail(c) \/ UNCHANGED <<Image, Safe, Source, Base, Phases>>
<1> USE DEF RInv, LInv, IInv, TypeOK, Go
<1>1. tmp[c] \in TmpNames
    BY DEF Cleanup, OwnInv, Owning
<1>2. \A f \in Files : dir'[f] = dir[f] /\ pend'[f] = pend[f]
    BY <1>1, TmpEntry DEF Cleanup
<1>3. Image' = Image /\ Safe' = Safe
    BY <1>2, SameFiles
<1>4. Source' = Source /\ Base' = Base
    BY SameSources DEF Cleanup
<1>5. \A d \in Calls : Aside(d)' = Aside(d)
    BY DEF Aside, Cleanup
<1>6. \A d \in Calls \ {c} : Progress(d)' = Progress(d)
    BY DEF Cleanup, Progress
<1>7. Progress(c) = "none" /\ Progress(c)' = "error"
    BY DEF Cleanup, Progress, ErrInv
<1>8. CASE Aside(c)
    BY <1>3, <1>4, <1>5, <1>6, <1>8 DEF Phases, Phase
<1>9. CASE ~Aside(c)
    <2>1. Phases[c] = "none" /\ Phases' = [Phases EXCEPT ![c] = "error"]
        BY <1>5, <1>6, <1>7, <1>9 DEF Phases, Phase
    <2> QED
        BY <1>3, <1>4, <2>1 DEF Abstract!Fail
<1> QED
    BY <1>8, <1>9

(* An error before the temporary file exists ends the call; one after it   *)
(* is not seen until the clean-up.                                         *)
LEMMA FailureFails ==
    ASSUME RInv, [Next]_vars, NEW c \in Calls, Failure(c)
    PROVE  Abstract!Fail(c) \/ UNCHANGED <<Image, Safe, Source, Base, Phases>>
<1> USE DEF RInv, LInv, IInv, TypeOK, Go
<1>1. PICK step \in Steps \ Published : step # "cleanup" /\ (Refuse(c, step) \/ Abort(c, step))
    BY DEF Failure, Steps, Published
<1>2. Image' = Image /\ Safe' = Safe
    BY <1>1, SameFiles DEF Refuse, Abort, fs
<1>3. Source' = Source /\ Base' = Base
    BY <1>1, SameSources DEF Refuse, Abort
<1>6. \A d \in Calls : Aside(d)' = Aside(d)
    BY <1>1 DEF Aside, Refuse, Abort
<1>7. \A d \in Calls \ {c} : Progress(d)' = Progress(d)
    BY <1>1 DEF Refuse, Abort, Progress
<1>4. CASE Refuse(c, step)
    <2>1. Progress(c) = "none" /\ Progress(c)' = "error"
        BY <1>1, <1>4 DEF Refuse, Progress, Published
    <2>2. CASE Aside(c)
        BY <1>2, <1>3, <1>6, <1>7, <2>2 DEF Phases, Phase
    <2>3. CASE ~Aside(c)
        <3>1. Phases[c] = "none" /\ Phases' = [Phases EXCEPT ![c] = "error"]
            BY <1>6, <1>7, <2>1, <2>3 DEF Phases, Phase
        <3> QED
            BY <1>2, <1>3, <3>1 DEF Abstract!Fail
    <2> QED
        BY <2>2, <2>3
<1>5. CASE Abort(c, step)
    <2>1. Progress(c) = Progress(c)'
        BY <1>1, <1>5 DEF Abort, Progress, Published
    <2> QED
        BY <1>2, <1>3, <1>6, <1>7, <2>1 DEF Phases, Phase
<1> QED
    BY <1>1, <1>4, <1>5

LEMMA CrashCrashes ==
    ASSUME RInv, [Next]_vars, Crash
    PROVE  Abstract!Crash
<1> USE DEF RInv, LInv, IInv, TypeOK
<1>1. \A f \in Files : /\ dir'[f] \in pend[f] /\ pend'[f] = {dir'[f]}
                       /\ data'[dir'[f]] = data[dir'[f]]
    BY FrozenStep DEF Crash, Names, NamesInv
<1>2. \A f \in Files : Image'[f] \in Safe[f]
    BY <1>1 DEF Image, Safe
<1>3. Image' \in [Files -> UNION {Safe[f] : f \in Files}]
    BY <1>2 DEF Image
<1>4. Safe' = [f \in Files |-> {Image'[f]}]
    <2>1. \A f \in Files : {data'[i].edits : i \in {dir'[f]}} = {data'[dir'[f]].edits}
        OBVIOUS
    <2>2. \A f \in Files : {data'[i].edits : i \in pend'[f]} = {data'[dir'[f]].edits}
        BY <1>1, <2>1
    <2> QED
        BY <2>2 DEF Safe, Image
<1>5. Source' = Source /\ Base' = Base
    BY SameSources DEF Crash
<1> DEFINE dead == {c \in Calls : Started(c) /\ ~Aside(c)}
<1>6. dead \in SUBSET {c \in Calls : Phases[c] \in {"none", "replaced"}}
    BY DEF Phases, Phase, Progress, Started
<1>8. \A c \in Calls : Aside(c)' = Aside(c)
    BY DEF Aside, Crash
<1>9. \A c \in Calls : Progress(c)' = IF Started(c) THEN "crashed" ELSE Progress(c)
    BY DEF Crash, Progress, Started
<1>7. Phases' = [c \in Calls |-> IF c \in dead THEN "crashed" ELSE Phases[c]]
    BY <1>8, <1>9 DEF Phases, Phase
<1> QED
    BY <1>2, <1>3, <1>4, <1>5, <1>6, <1>7 DEF Abstract!Crash

LEMMA StepImplements ==
    ASSUME RInv, [Next]_vars
    PROVE  [Abstract!Next]_(Abstract!vars)
<1> USE DEF Abstract!Next, Abstract!vars
<1>a. \A c \in Calls : real[c] \in Files \/ real[c] \in Links
    BY DEF RInv, LInv, IInv, TypeOK
<1>1. ASSUME NEW c \in Calls,
             \/ EvalSymlinks(c) \/ Stat(c) \/ CreateTemp(c) \/ Chmod(c)
             \/ WriteFirst(c) \/ WriteRest(c) \/ Sync(c) \/ Close(c)
      PROVE  UNCHANGED Abstract!vars
    BY <1>1, QuietStep
<1>2. ASSUME NEW c \in Calls, Open(c) PROVE Abstract!Next
    BY <1>a, <1>2, OpenBegins, OpenStepsAside
<1>3. ASSUME NEW c \in Calls, Rename(c) PROVE Abstract!Next \/ UNCHANGED Abstract!vars
    BY <1>a, <1>3, RenameReplaces, RenameAside
<1>4. ASSUME NEW c \in Calls, FsyncDir(c) PROVE Abstract!Next \/ UNCHANGED Abstract!vars
    BY <1>a, <1>4, FsyncSucceeds, FsyncAside
<1>5. ASSUME NEW c \in Calls, Cleanup(c) PROVE Abstract!Next \/ UNCHANGED Abstract!vars
    BY <1>5, CleanupFails
<1>6. ASSUME NEW c \in Calls, Failure(c) PROVE Abstract!Next \/ UNCHANGED Abstract!vars
    BY <1>6, FailureFails
<1>7. ASSUME NEW l \in Links, Relink(l) PROVE UNCHANGED Abstract!vars
    <2>1. UNCHANGED <<dir, pend, data, pc, real, fd, err>>
        BY <1>7 DEF Relink, call
    <2> QED
        BY <2>1 DEF Image, Safe, Source, Base, OnFile, Phases, Phase, Aside, Progress
<1>8. CASE Crash
    BY <1>8, CrashCrashes
<1>9. CASE UNCHANGED vars
    BY <1>9 DEF vars, fs, call, Image, Safe, Source, Base, OnFile, Phases, Phase,
                 Aside, Progress
<1> QED
    BY <1>1, <1>2, <1>3, <1>4, <1>5, <1>6, <1>7, <1>8, <1>9 DEF Next, Step

(* Each call of WriteFile replaces its file once and at one instant, by    *)
(* the image it opened plus its edit; a call that fails has replaced       *)
(* nothing; after a successful directory sync no crash undoes it.          *)
THEOREM Implements == Spec => Replaces
<1>1. Init => Abstract!Init
    BY InitImplements
<1>2. RInv /\ [Next]_vars => [Abstract!Next]_(Abstract!vars)
    BY StepImplements
<1> QED
    BY <1>1, <1>2, RInvHolds, PTL DEF Spec, Replaces, Abstract!Spec
=============================================================================
