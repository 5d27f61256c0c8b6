----------------------------- MODULE WriteFile -----------------------------
(***************************************************************************)
(* WriteFile (write.go): rewrite an image file in place through a          *)
(* temporary file in the same directory, a Sync, and a rename.  Several    *)
(* calls run at once, any step may fail, links move, and the machine may   *)
(* crash between any two steps.                                            *)
(*                                                                         *)
(* The file system is the model's environment.  A directory entry names an *)
(* inode; `dir' is what running programs see and `pend' what a crash may   *)
(* leave.  The data of an inode survives a crash only once it was synced.  *)
(* Every call is made at most once; the inode of its temporary file is     *)
(* named after it, and the first inode of a file after the file.           *)
(***************************************************************************)
EXTENDS Naturals, FiniteSets

CONSTANTS Files,       \* names of image files
          Links,       \* names of symbolic links
          TmpNames,    \* names os.CreateTemp may choose
          Calls,       \* calls of WriteFile
          Folder,      \* Folder[n]: the directory that holds the name n
          Targets,     \* what a link may point to: files, or Dangling
          Path,        \* Path[c]: the path argument of call c
          MaxCrashes,  \* bound on crashes
          MaxRelinks   \* bound on links moved by other programs

Dangling == "dangling"
NoEntry == "no entry"
Names == Files \union Links \union TmpNames
Inodes == Files \union Calls

ASSUME DistinctNames ==
    /\ Files \intersect (Links \union TmpNames \union Calls) = {}
    /\ Links \intersect TmpNames = {}
    /\ NoEntry \notin Inodes \union Names
    /\ Dangling \notin Files
ASSUME NoFileAssumption == "no file" \notin Files
ASSUME PathAssumption == /\ Path \in [Calls -> Files \union Links]
                         /\ Targets \subseteq Files \union {Dangling}
                         /\ Targets # {}
                         /\ MaxCrashes \in Nat /\ MaxRelinks \in Nat

VARIABLES dir,      \* dir[n]: the inode the name n has now, or NoEntry
          pend,     \* pend[n]: the entries a crash may leave at n
          link,     \* link[l]: where the symbolic link l points
          data,     \* data[i]: the contents of inode i
          synced,   \* the inodes whose data is on the disk
          mode,     \* mode[i]: whose permission bits inode i carries, and its special bits
          pc,       \* pc[c]: the next step of call c
          real,     \* real[c]: realPath
          unresolved, \* the calls whose filepath.EvalSymlinks failed
          fd,       \* fd[c]: the inode f is open on
          fi,       \* fi[c]: the mode that f.Stat read
          tmp,      \* tmp[c]: tmpName
          err,      \* err[c]: c is returning an error
          crashes, relinks

fs == <<dir, pend, link, data, synced, mode>>
call == <<pc, real, unresolved, fd, fi, tmp, err>>
vars == <<fs, call, crashes, relinks>>

(* An image is the picture of one file with the edits of some calls; while *)
(* Write streams into it, it is not whole.                                 *)
Contents == [whole : BOOLEAN, of : Files \union {NoEntry}, edits : SUBSET Calls]
Empty == [whole |-> FALSE, of |-> NoEntry, edits |-> {}]
Modes == [bits : Files \union {"private"}, special : BOOLEAN]
Private == [bits |-> "private", special |-> FALSE]

Steps == {"resolve", "open", "stat", "create", "chmod", "write", "writing", "sync",
          "close", "rename", "fsync", "cleanup", "returned", "dead"}

Init == /\ dir = [n \in Names |-> IF n \in Files THEN n ELSE NoEntry]
        /\ pend = [n \in Names |-> {dir[n]}]
        /\ link \in [Links -> Targets]
        /\ data = [i \in Inodes |-> IF i \in Files
                                    THEN [whole |-> TRUE, of |-> i, edits |-> {}]
                                    ELSE Empty]
        /\ synced = Files
        /\ mode = [i \in Inodes |-> IF i \in Files THEN [bits |-> i, special |-> TRUE]
                                    ELSE Private]
        /\ pc = [c \in Calls |-> "resolve"]
        /\ real = Path
        /\ unresolved = {}
        /\ fd = [c \in Calls |-> NoEntry]
        /\ fi = [c \in Calls |-> Private]
        /\ tmp = [c \in Calls |-> NoEntry]
        /\ err = [c \in Calls |-> FALSE]
        /\ crashes = 0
        /\ relinks = 0
-----------------------------------------------------------------------------
(* The file system operations the steps use.                               *)

IsLink(n) == n \in Links /\ dir[n] = NoEntry

(* The name a path leads to; Dangling when it leads nowhere.               *)
Resolve(n) == IF IsLink(n) THEN link[n] ELSE n

SetEntries(new) == /\ dir' = new
                   /\ pend' = [n \in Names |-> pend[n] \union {new[n]}]

Go(c, step) == pc' = [pc EXCEPT ![c] = step]

(* An error path that leaves through the deferred Remove of the temp file. *)
Abort(c, step) == /\ pc[c] = step
                  /\ Go(c, "cleanup")
                  /\ err' = [err EXCEPT ![c] = TRUE]
                  /\ UNCHANGED <<fs, real, unresolved, fd, fi, tmp, crashes, relinks>>

(* An error path before the temporary file exists.                         *)
Refuse(c, step) == /\ pc[c] = step
                   /\ Go(c, "returned")
                   /\ err' = [err EXCEPT ![c] = TRUE]
                   /\ UNCHANGED <<fs, real, unresolved, fd, fi, tmp, crashes, relinks>>
-----------------------------------------------------------------------------
(* Faulty variants of the steps, which the properties must tell apart.     *)

RenameThroughPath(c) ==
    /\ pc[c] = "rename"
    /\ dir[tmp[c]] # NoEntry
    /\ SetEntries([dir EXCEPT ![tmp[c]] = NoEntry, ![Resolve(Path[c])] = dir[tmp[c]]])
    /\ Go(c, "fsync")
    /\ UNCHANGED <<link, data, synced, mode, real, unresolved, fd, fi, tmp, err, crashes, relinks>>

SkipSync(c) == /\ pc[c] = "sync"
               /\ Go(c, "close")
               /\ UNCHANGED <<fs, real, unresolved, fd, fi, tmp, err, crashes, relinks>>

StatThroughPath(c) ==
    /\ pc[c] = "stat"
    /\ Resolve(Path[c]) # Dangling
    /\ fi' = [fi EXCEPT ![c] = mode[dir[Resolve(Path[c])]]]
    /\ Go(c, "create")
    /\ UNCHANGED <<fs, real, unresolved, fd, tmp, err, crashes, relinks>>

KeepPath(c) == /\ pc[c] = "resolve"
               /\ Go(c, "open")
               /\ UNCHANGED <<fs, real, unresolved, fd, fi, tmp, err, crashes, relinks>>

RemoveAfterRename(c) ==
    /\ pc[c] = "fsync"
    /\ SetEntries([dir EXCEPT ![tmp[c]] = NoEntry])
    /\ Go(c, "returned")
    /\ UNCHANGED <<link, data, synced, mode, real, unresolved, fd, fi, tmp, err, crashes, relinks>>

ReportFsyncError(c) ==
    /\ pc[c] = "fsync"
    /\ Go(c, "returned")
    /\ err' = [err EXCEPT ![c] = TRUE]
    /\ UNCHANGED <<fs, real, unresolved, fd, fi, tmp, crashes, relinks>>
-----------------------------------------------------------------------------
(* The steps of WriteFile.                                                 *)

(* filepath.EvalSymlinks.  On any error (the link dangles, or a directory  *)
(* cannot be read) realPath is the path itself and the call goes on.       *)
EvalSymlinks(c) ==
    /\ pc[c] = "resolve"
    /\ \/ /\ Resolve(Path[c]) # Dangling
          /\ real' = [real EXCEPT ![c] = Resolve(Path[c])]
          /\ UNCHANGED unresolved
       \/ /\ real' = [real EXCEPT ![c] = Path[c]]
          /\ unresolved' = unresolved \union {c}
    /\ Go(c, "open")
    /\ UNCHANGED <<fs, fd, fi, tmp, err, crashes, relinks>>

(* os.Open follows links like every path operation but rename.             *)
Open(c) ==
    /\ pc[c] = "open"
    /\ Resolve(real[c]) # Dangling
    /\ fd' = [fd EXCEPT ![c] = dir[Resolve(real[c])]]
    /\ Go(c, "stat")
    /\ UNCHANGED <<fs, real, unresolved, fi, tmp, err, crashes, relinks>>

(* f.Stat: the mode of the open file, whatever its name leads to by now.   *)
Stat(c) == /\ pc[c] = "stat"
           /\ fi' = [fi EXCEPT ![c] = mode[fd[c]]]
           /\ Go(c, "create")
           /\ UNCHANGED <<fs, real, unresolved, fd, tmp, err, crashes, relinks>>

(* os.CreateTemp in the directory of realPath: a name that has no entry.   *)
CreateTemp(c) ==
    /\ pc[c] = "create"
    /\ \E t \in TmpNames :
          /\ Folder[t] = Folder[real[c]]
          /\ dir[t] = NoEntry
          /\ tmp' = [tmp EXCEPT ![c] = t]
          /\ SetEntries([dir EXCEPT ![t] = c])
    /\ Go(c, "chmod")
    /\ UNCHANGED <<link, data, synced, mode, real, unresolved, fd, fi, err, crashes, relinks>>

(* tmp.Chmod(fi.Mode() without setuid, setgid and sticky).                 *)
Chmod(c) ==
    /\ pc[c] = "chmod"
    /\ mode' = [mode EXCEPT ![c] = [bits |-> fi[c].bits, special |-> FALSE]]
    /\ Go(c, "write")
    /\ UNCHANGED <<dir, pend, link, data, synced, real, unresolved, fd, fi, tmp, err, crashes, relinks>>

(* Write(f, tmp, m) streams: the first bytes, then the rest.               *)
WriteFirst(c) ==
    /\ pc[c] = "write"
    /\ data' = [data EXCEPT ![c] = [whole |-> FALSE, of |-> data[fd[c]].of,
                                    edits |-> data[fd[c]].edits]]
    /\ synced' = synced \ {c}
    /\ Go(c, "writing")
    /\ UNCHANGED <<dir, pend, link, mode, real, unresolved, fd, fi, tmp, err, crashes, relinks>>

WriteRest(c) ==
    /\ pc[c] = "writing"
    /\ data' = [data EXCEPT ![c] = [whole |-> data[fd[c]].whole, of |-> data[fd[c]].of,
                                    edits |-> data[fd[c]].edits \union {c}]]
    /\ Go(c, "sync")
    /\ UNCHANGED <<dir, pend, link, synced, mode, real, unresolved, fd, fi, tmp, err, crashes, relinks>>

Sync(c) == /\ pc[c] = "sync"
           /\ synced' = synced \union {c}
           /\ Go(c, "close")
           /\ UNCHANGED <<dir, pend, link, data, mode, real, unresolved, fd, fi, tmp, err, crashes, relinks>>

Close(c) == /\ pc[c] = "close"
            /\ Go(c, "rename")
            /\ UNCHANGED <<fs, real, unresolved, fd, fi, tmp, err, crashes, relinks>>

(* os.Rename(tmpName, realPath): moves the entry, does not follow a link.  *)
Rename(c) ==
    /\ pc[c] = "rename"
    /\ dir[tmp[c]] # NoEntry
    /\ SetEntries([dir EXCEPT ![tmp[c]] = NoEntry, ![real[c]] = dir[tmp[c]]])
    /\ Go(c, "fsync")
    /\ UNCHANGED <<link, data, synced, mode, real, unresolved, fd, fi, tmp, err, crashes, relinks>>

(* fsyncDir(dir): best effort, its errors are ignored.  The deferred       *)
(* function finds renamed set and removes nothing.                         *)
FsyncDir(c) ==
    /\ pc[c] = "fsync"
    /\ \/ pend' = [n \in Names |-> IF Folder[n] = Folder[real[c]] THEN {dir[n]} ELSE pend[n]]
       \/ pend' = pend
    /\ Go(c, "returned")
    /\ UNCHANGED <<dir, link, data, synced, mode, real, unresolved, fd, fi, tmp, err, crashes, relinks>>

(* The deferred os.Remove(tmpName); its error is ignored.                  *)
Cleanup(c) ==
    /\ pc[c] = "cleanup"
    /\ \/ SetEntries([dir EXCEPT ![tmp[c]] = NoEntry])
       \/ UNCHANGED <<dir, pend>>
    /\ Go(c, "returned")
    /\ UNCHANGED <<link, data, synced, mode, real, unresolved, fd, fi, tmp, err, crashes, relinks>>

(* What may fail.  Write fails before its first byte (Validate, Detect) or *)
(* after some of them.                                                     *)
Failure(c) == \/ \E step \in {"open", "stat", "create"} : Refuse(c, step)
              \/ \E step \in {"chmod", "write", "writing", "sync", "close", "rename"} :
                    Abort(c, step)

Step(c) == \/ EvalSymlinks(c) \/ Open(c) \/ Stat(c) \/ CreateTemp(c) \/ Chmod(c)
           \/ WriteFirst(c) \/ WriteRest(c) \/ Sync(c) \/ Close(c) \/ Rename(c)
           \/ FsyncDir(c) \/ Cleanup(c) \/ Failure(c)
-----------------------------------------------------------------------------
(* The environment.                                                        *)

(* Another program points the link l elsewhere.                            *)
Relink(l) == /\ relinks < MaxRelinks
             /\ IsLink(l)
             /\ \E target \in Targets \ {link[l]} : link' = [link EXCEPT ![l] = target]
             /\ relinks' = relinks + 1
             /\ UNCHANGED <<dir, pend, data, synced, mode, call, crashes>>

Started(c) == pc[c] \notin {"resolve", "returned", "dead"}

(* The machine stops: every running call dies, every name keeps one of its *)
(* pending entries, and data that was not synced may be torn.              *)
Crash ==
    /\ crashes < MaxCrashes
    /\ \E c \in Calls : Started(c)
    /\ dir' \in [Names -> UNION {pend[n] : n \in Names}]
    /\ \A n \in Names : dir'[n] \in pend[n]
    /\ pend' = [n \in Names |-> {dir'[n]}]
    /\ \E torn \in SUBSET (Inodes \ synced) :
          data' = [i \in Inodes |-> IF i \in torn THEN [data[i] EXCEPT !.whole = FALSE]
                                    ELSE data[i]]
    /\ synced' = Inodes
    /\ pc' = [c \in Calls |-> IF Started(c) THEN "dead" ELSE pc[c]]
    /\ crashes' = crashes + 1
    /\ UNCHANGED <<link, mode, real, unresolved, fd, fi, tmp, err, relinks>>

Next == \/ \E c \in Calls : Step(c)
        \/ \E l \in Links : Relink(l)
        \/ Crash

Spec == Init /\ [][Next]_vars
-----------------------------------------------------------------------------
(* The state is well formed: names, inodes and steps are of their kind.    *)
TypeOK ==
    /\ dir \in [Names -> Inodes \union {NoEntry}]
    /\ pend \in [Names -> SUBSET (Inodes \union {NoEntry})]
    /\ link \in [Links -> Targets]
    /\ data \in [Inodes -> Contents]
    /\ synced \in SUBSET Inodes
    /\ mode \in [Inodes -> Modes]
    /\ pc \in [Calls -> Steps]
    /\ real \in [Calls -> Files \union Links]
    /\ unresolved \in SUBSET Calls
    /\ fi \in [Calls -> Modes]
    /\ fd \in [Calls -> Inodes \union {NoEntry}]
    /\ tmp \in [Calls -> TmpNames \union {NoEntry}]
    /\ err \in [Calls -> BOOLEAN]
    /\ crashes \in Nat /\ relinks \in Nat

(* What can be found under the name of an image file, now or after a crash *)
(* at this moment, is always a complete image: the old one or the result   *)
(* of a finished Write, never a missing, empty or partial file (the doc    *)
(* comment of WriteFile, "Durability").  Where a link was replaced by a    *)
(* file, that file is complete too.                                        *)
TargetWhole ==
    /\ \A f \in Files : dir[f] \in Inodes /\ NoEntry \notin pend[f]
    /\ \A n \in Files \union Links : \A i \in (pend[n] \union {dir[n]}) \ {NoEntry} :
          i \in Inodes /\ data[i].whole /\ i \in synced

(* A file only ever holds its own picture: the file that a call replaces   *)
(* is the file whose bytes it read, wherever links are moved meanwhile and *)
(* whether or not they could be resolved.                                  *)
PictureStays == \A f \in Files : data[dir[f]].of = f

(* The replacement carries the permission bits of the very file it         *)
(* replaces, also when the link that led to it leads to another file by    *)
(* the time the bits are read, and never its setuid, setgid or sticky bit  *)
(* (WriteFile, "Privilege-bit masking").                                   *)
ModeKept == \A f \in Files : /\ mode[dir[f]].bits = f
                             /\ dir[f] # f => ~mode[dir[f]].special

(* A symbolic link is replaced by a regular file only in the rename of a   *)
(* call that was given this very link and for which EvalSymlinks failed    *)
(* (write.go:289): not when links are moved, not by another call, and not  *)
(* by a crash.                                                             *)
LinkSurvives ==
    [][\A l \in Links : (dir[l] = NoEntry /\ dir'[l] # NoEntry)
                            => dir'[l] \in unresolved /\ Path[dir'[l]] = l]_vars

(* "WriteFile must not replace a symlink with a regular file"              *)
(* (write.go:287).  The fallback after an error of EvalSymlinks does so.   *)
LinkNeverReplaced == \A l \in Links : dir[l] = NoEntry

(* Outside a crash, the entry of a temporary file disappears only in a     *)
(* step of the call that created it: no call removes or renames another    *)
(* call's file, even when the name is used again after a rename.           *)
OwnTempOnly ==
    [][\A t \in TmpNames : (dir[t] \in Calls /\ dir'[t] # dir[t] /\ crashes' = crashes)
                              => pc'[dir[t]] # pc[dir[t]]]_vars

(* The calls that work on the entry of a link, and thus on no image file.  *)
Aside(c) == fd[c] # NoEntry /\ real[c] \in Links

Progress(c) == CASE pc[c] = "returned" /\ err[c] -> "error"
                 [] pc[c] = "returned" /\ ~err[c] -> "ok"
                 [] pc[c] = "dead" -> "crashed"
                 [] pc[c] = "fsync" -> "replaced"
                 [] OTHER -> "none"

Phase(c) == IF Aside(c) THEN "aside" ELSE Progress(c)

(* The image of every file and what a crash may leave; the file a call     *)
(* rewrites and the image it read, once it has opened it.                  *)
Image == [f \in Files |-> data[dir[f]].edits]
Safe == [f \in Files |-> {data[i].edits : i \in pend[f]}]
OnFile(c) == fd[c] # NoEntry /\ real[c] \in Files
Source == [c \in Calls |-> IF OnFile(c) THEN real[c] ELSE "no file"]
Base == [c \in Calls |-> IF OnFile(c) THEN data[fd[c]].edits ELSE {}]
Phases == [c \in Calls |-> Phase(c)]

Abstract == INSTANCE AtomicReplace WITH
    image <- Image, safe <- Safe, source <- Source, base <- Base, phase <- Phases

(* WriteFile implements AtomicReplace: each call replaces its file once,   *)
(* by the image it opened plus its edit, and a call that returns an error  *)
(* has changed no file; once the directory was synced, a crash cannot take *)
(* the replacement back.  A call left with a link, because its path could  *)
(* not be resolved, replaces none of the image files.                      *)
Replaces == Abstract!Spec
=============================================================================
