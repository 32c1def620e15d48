----------------------------- MODULE FileSystem -----------------------------
(***************************************************************************)
(* The guest's file system, crates/kernel/src/fs.rs, with the save-data    *)
(* and temporary-data mounts of process.rs and the calls of libkernel and  *)
(* libSceSaveData: a table of mounts over a host directory tree, and a     *)
(* table of open files.                                                    *)
(*                                                                         *)
(* A name is a pair <<word, case>>: two names with one word differ only in *)
(* case.  A host path is a sequence of names, a guest path one that begins *)
(* with the name of a mount, or with Dot when the guest gives a relative   *)
(* path.  Symbolic links are left out, and of a file's contents all but    *)
(* its length.                                                             *)
(*                                                                         *)
(* A call on a path resolves it under the mount table's lock and acts on   *)
(* the host tree after it: two steps, and other calls come between them.   *)
(***************************************************************************)
EXTENDS Integers, Sequences, FiniteSets, FiniteSetsExt, SequencesExt

CONSTANTS
    FsThreads,  \* guest threads in calls on paths
    Names,      \* names that may be on the host or be asked for
    GuestPaths, \* paths the guest names
    SaveDirs,   \* save-data directories, a subset of Names
    HostTree,   \* the host tree at start: paths to 0 (a directory) or a file
    HostMounts, \* the mount table at start
    MaxFiles, MaxFds, MaxMounts, MaxLength, CallBound \* bounds for TLC

ASSUME FsAssumption ==
    /\ SaveDirs \subseteq Names
    /\ \A p \in DOMAIN HostTree : Len(p) > 1 => HostTree[Front(p)] = 0

Dot == <<".", 0>>
DotDot == <<"..", 0>>
APP0 == <<"app0", 0>>
EBOOT == <<"eboot", 0>>
SAVEDATA == <<"savedata", 0>>
TEMPDATA == <<"tempdata", 0>>
TEMP0 == <<"temp0", 0>>
SavePoint(i) == <<"savedata", i + 1>>
NoPath == <<>>
DIR == 0

VARIABLES
    mounts,          \* FileSystem::mounts: [prefix, root], longest prefix first
    tree,            \* the host's: path to DIR or to the number of a file
    length,          \* of each file
    files,           \* FileSystem::files: descriptor to description
    next_fd,
    savedata_mounts, \* Process::savedata_mounts: mount point to directory
    fsCall,          \* fsCall[t]: the call thread t is in
    fsCalls          \* calls begun (counted for TLC's bound)

fsVars == <<mounts, tree, length, files, next_fd, savedata_mounts, fsCall, fsCalls>>

NoFsCall == [op |-> "idle", host |-> NoPath, to |-> NoPath, path |-> NoPath, flags |-> {}]

(***************************************************************************)
(* Resolution, in a host tree tr.                                          *)
(***************************************************************************)
SameFold(m, n) == m[1] = n[1]
Escaped == <<DotDot>>

\* normalize_relative: "." and ".." are collapsed; a ".." at the root escapes.
\* A function of the ends of the guest's paths, which TLC evaluates once.
Ends == UNION {{SubSeq(p, i, Len(p)) : i \in 1..Len(p) + 1} : p \in GuestPaths \cup {<<APP0, EBOOT>>}}
Collapse(acc, c) ==
    IF acc = Escaped \/ (c = DotDot /\ acc = <<>>) THEN Escaped
    ELSE IF c = Dot THEN acc
    ELSE IF c = DotDot THEN Front(acc) ELSE Append(acc, c)
Normal == [relative \in Ends |-> FoldLeft(Collapse, <<>>, relative)]

\* The host path reached a name at a time: by the exact name where there is
\* one, else by the first that differs in case.
Follows(tr, host, root, comps) ==
    /\ Len(host) = Len(root) + Len(comps) /\ IsPrefix(root, host)
    /\ \A i \in DOMAIN comps :
          LET at == SubSeq(host, 1, Len(root) + i - 1)
              n == host[Len(root) + i]
          IN  IF Append(at, comps[i]) \in DOMAIN tr THEN n = comps[i]
              ELSE /\ SameFold(n, comps[i])
                   /\ \A k \in Names : SameFold(k, n) /\ Append(at, k) \in DOMAIN tr => n[2] <= k[2]

resolve_case_insensitive(tr, root, comps) ==
    LET hits == {host \in DOMAIN tr : Follows(tr, host, root, comps)}
    IN  IF hits = {} THEN NoPath ELSE CHOOSE host \in hits : TRUE

Relative(mo, path) == SubSeq(path, Len(mo.prefix) + 1, Len(path))

\* What a mount offers for a path: it must match, hold the path inside its
\* root, and the root must still be there.
Matches(tr, mo, path) ==
    /\ IsPrefix(mo.prefix, path)
    /\ Normal[Relative(mo, path)] # Escaped
    /\ mo.root \in DOMAIN tr

Candidate(mo, path) == mo.root \o Normal[Relative(mo, path)]

Existing(tr, mo, path) ==
    LET exact == Candidate(mo, path)
    IN  IF exact \in DOMAIN tr THEN exact
        ELSE resolve_case_insensitive(tr, mo.root, Normal[Relative(mo, path)])

\* The first mount in which the path exists; else, to create it, the first
\* that matches.
translate(tr, path) ==
    LET ms == SelectSeq(mounts, LAMBDA mo : Matches(tr, mo, path))
        found == {i \in DOMAIN ms : Existing(tr, ms[i], path) # NoPath}
    IN  IF ms = <<>> THEN NoPath
        ELSE IF found # {} THEN Existing(tr, ms[Min(found)], path) ELSE Candidate(ms[1], path)

resolve(tr, path) == translate(tr, IF Head(path) = Dot THEN <<APP0>> \o Tail(path) ELSE path)

\* What the guest sees of a path: the host object behind it.
stat(tr, path) == LET host == resolve(tr, path) IN IF host \in DOMAIN tr THEN host ELSE NoPath

(***************************************************************************)
(* The host's own calls.                                                   *)
(***************************************************************************)
Children(host) == {p \in DOMAIN tree : Len(p) = Len(host) + 1 /\ IsPrefix(host, p)}
ParentIsDir(host) == Front(host) \in DOMAIN tree /\ tree[Front(host)] = DIR
With(t, host, node) == [p \in DOMAIN t \cup {host} |-> IF p = host THEN node ELSE t[p]]
Without(t, host) == [p \in DOMAIN t \ {host} |-> t[p]]
\* The tree with the directories of a path made where they are missing.
create_dir_all(t, host) ==
    [p \in DOMAIN t \cup {SubSeq(host, 1, i) : i \in 1..Len(host)} |-> IF p \in DOMAIN t THEN t[p] ELSE DIR]
Moved(t, from, to) ==
    LET kept == {p \in DOMAIN t : ~IsPrefix(from, p) /\ p # to}
        moved == {p \in DOMAIN t : IsPrefix(from, p)}
        Under(p) == to \o SubSeq(p, Len(from) + 1, Len(p))
    IN  [q \in kept \cup {Under(p) : p \in moved} |->
            IF q \in kept THEN t[q] ELSE t[from \o SubSeq(q, Len(to) + 1, Len(q))]]

Done(t) == fsCall' = [fsCall EXCEPT ![t] = NoFsCall]

(***************************************************************************)
(* Calls on paths.                                                         *)
(***************************************************************************)
Call(t, op, path, flags, to) ==
    /\ fsCall[t].op = "idle" /\ fsCalls < CallBound
    /\ fsCalls' = fsCalls + 1
    /\ fsCall' = [fsCall EXCEPT ![t] =
           IF resolve(tree, path) = NoPath THEN NoFsCall
           ELSE [op |-> op, host |-> resolve(tree, path), path |-> path, flags |-> flags, to |-> to]]
    /\ UNCHANGED <<mounts, tree, length, files, next_fd, savedata_mounts>>

Description(path, flags, file) == [path |-> path, flags |-> flags, file |-> file, pos |-> 0, dir |-> {}, listed |-> FALSE]

Install(t, path, flags, file) ==
    /\ files' = [d \in DOMAIN files \cup {next_fd} |->
                    IF d = next_fd THEN Description(path, flags, file) ELSE files[d]]
    /\ next_fd' = next_fd + 1
    /\ Done(t) /\ UNCHANGED <<mounts, savedata_mounts, fsCalls>>

\* What the host accepts; it refuses the rest with an errno.
CanOpen(c) ==
    IF c.host \in DOMAIN tree THEN tree[c.host] = DIR => "write" \notin c.flags
    ELSE "creat" \in c.flags /\ ParentIsDir(c.host)
CanMkdir(c) == c.host \notin DOMAIN tree /\ ParentIsDir(c.host)
CanRmdir(c) == c.host \in DOMAIN tree /\ tree[c.host] = DIR /\ Children(c.host) = {}
CanUnlink(c) == c.host \in DOMAIN tree /\ tree[c.host] # DIR
CanRename(c) ==
    /\ c.host \in DOMAIN tree /\ ParentIsDir(c.to) /\ (c.host = c.to \/ ~IsPrefix(c.host, c.to))
    /\ c.to \in DOMAIN tree => /\ (tree[c.to] = DIR) = (tree[c.host] = DIR)
                               /\ (Children(c.to) = {} \/ c.to = c.host)

open_existing(t) ==
    LET c == fsCall[t] IN
    /\ c.op = "open" /\ CanOpen(c) /\ c.host \in DOMAIN tree /\ next_fd <= MaxFds + 2
    /\ length' = IF tree[c.host] # DIR /\ "trunc" \in c.flags
                 THEN [length EXCEPT ![tree[c.host]] = 0] ELSE length
    /\ Install(t, c.path, c.flags, tree[c.host]) /\ UNCHANGED tree

open_create(t) ==
    LET c == fsCall[t] IN
    /\ c.op = "open" /\ CanOpen(c) /\ c.host \notin DOMAIN tree
    /\ next_fd <= MaxFds + 2 /\ Len(length) < MaxFiles
    /\ tree' = With(tree, c.host, Len(length) + 1) /\ length' = Append(length, 0)
    /\ Install(t, c.path, c.flags, Len(length) + 1)

mkdir(t) ==
    LET c == fsCall[t] IN
    /\ c.op = "mkdir" /\ CanMkdir(c)
    /\ tree' = With(tree, c.host, DIR)
    /\ Done(t) /\ UNCHANGED <<mounts, length, files, next_fd, savedata_mounts, fsCalls>>

rmdir(t) ==
    LET c == fsCall[t] IN
    /\ c.op = "rmdir" /\ CanRmdir(c)
    /\ tree' = Without(tree, c.host)
    /\ Done(t) /\ UNCHANGED <<mounts, length, files, next_fd, savedata_mounts, fsCalls>>

unlink(t) ==
    LET c == fsCall[t] IN
    /\ c.op = "unlink" /\ CanUnlink(c)
    /\ tree' = Without(tree, c.host)
    /\ Done(t) /\ UNCHANGED <<mounts, length, files, next_fd, savedata_mounts, fsCalls>>

\* rename resolves its second path after the first.
rename_resolve(t) ==
    LET c == fsCall[t] IN
    /\ c.op = "rename"
    /\ fsCall' = [fsCall EXCEPT ![t] = IF resolve(tree, c.to) = NoPath THEN NoFsCall
                                       ELSE [c EXCEPT !.op = "rename2", !.to = resolve(tree, c.to)]]
    /\ UNCHANGED <<mounts, tree, length, files, next_fd, savedata_mounts, fsCalls>>

rename(t) ==
    LET c == fsCall[t] IN
    /\ c.op = "rename2" /\ CanRename(c)
    /\ tree' = IF c.host = c.to THEN tree ELSE Moved(tree, c.host, c.to)
    /\ Done(t) /\ UNCHANGED <<mounts, length, files, next_fd, savedata_mounts, fsCalls>>

\* The host refuses: the errno goes back, nothing changes.
refused(t) ==
    LET c == fsCall[t] IN
    /\ c.op \in {"open", "mkdir", "rmdir", "unlink", "rename2"}
    /\ ~CASE c.op = "open" -> CanOpen(c) [] c.op = "mkdir" -> CanMkdir(c) [] c.op = "rmdir" -> CanRmdir(c)
          [] c.op = "unlink" -> CanUnlink(c) [] c.op = "rename2" -> CanRename(c)
    /\ Done(t) /\ UNCHANGED <<mounts, tree, length, files, next_fd, savedata_mounts, fsCalls>>

(***************************************************************************)
(* Calls on descriptors.                                                   *)
(***************************************************************************)
Least(a, b) == IF a < b THEN a ELSE b
Advance(d, n) == files' = [files EXCEPT ![d].pos = @ + n]

\* read: the position moves before the bytes reach the guest, so a bad guest
\* buffer (EFAULT) loses them.  readv is one such call after the other.
read(d, n) ==
    /\ d \in DOMAIN files /\ files[d].file # DIR /\ "read" \in files[d].flags
    /\ LET left == length[files[d].file] - files[d].pos
       IN  left > 0 /\ Advance(d, Least(n, left))
    /\ UNCHANGED <<mounts, tree, length, next_fd, savedata_mounts, fsCall, fsCalls>>

write(d, n) ==
    /\ d \in DOMAIN files /\ files[d].file # DIR /\ "write" \in files[d].flags
    /\ LET f == files[d].file
           at == IF "append" \in files[d].flags THEN length[f] ELSE files[d].pos
       IN  /\ at + n <= MaxLength
           /\ length' = [length EXCEPT ![f] = IF @ < at + n THEN at + n ELSE @]
           /\ files' = [files EXCEPT ![d].pos = at + n]
    /\ UNCHANGED <<mounts, tree, next_fd, savedata_mounts, fsCall, fsCalls>>

pwrite(d, n, offset) ==
    /\ d \in DOMAIN files /\ files[d].file # DIR /\ "write" \in files[d].flags
    /\ LET f == files[d].file
           at == IF "append" \in files[d].flags THEN length[f] ELSE offset
       IN  at + n <= MaxLength /\ length' = [length EXCEPT ![f] = IF @ < at + n THEN at + n ELSE @]
    /\ UNCHANGED <<mounts, tree, files, next_fd, savedata_mounts, fsCall, fsCalls>>

lseek(d, from, offset) ==
    /\ d \in DOMAIN files /\ files[d].file # DIR
    /\ LET base == CASE from = "set" -> 0 [] from = "cur" -> files[d].pos [] from = "end" -> length[files[d].file]
       IN  base + offset \in 0..MaxLength /\ files' = [files EXCEPT ![d].pos = base + offset]
    /\ UNCHANGED <<mounts, tree, length, next_fd, savedata_mounts, fsCall, fsCalls>>

\* getdents lists, on its first call, the directory its path names now (not
\* the one it was opened on), and hands the list out a buffer at a time.
Entries(d) == IF files[d].listed THEN files[d].dir ELSE {Last(p) : p \in Children(stat(tree, files[d].path))}

getdents(d, fits) ==
    /\ d \in DOMAIN files
    /\ ~files[d].listed => stat(tree, files[d].path) # NoPath /\ tree[stat(tree, files[d].path)] = DIR
    /\ Entries(d) # {} \/ ~files[d].listed
    /\ \E given \in kSubset(Least(fits, Cardinality(Entries(d))), Entries(d)) :
          files' = [files EXCEPT ![d].dir = Entries(d) \ given, ![d].listed = TRUE]
    /\ UNCHANGED <<mounts, tree, length, next_fd, savedata_mounts, fsCall, fsCalls>>

close(d) ==
    /\ d \in DOMAIN files
    /\ files' = Without(files, d)
    /\ UNCHANGED <<mounts, tree, length, next_fd, savedata_mounts, fsCall, fsCalls>>

(***************************************************************************)
(* Mounts.                                                                 *)
(***************************************************************************)
\* Pushed and sorted, longest prefix first; the sort is stable.
mount(prefix, root) ==
    LET longer == SelectSeq(mounts, LAMBDA mo : Len(mo.prefix) >= Len(prefix))
        shorter == SelectSeq(mounts, LAMBDA mo : Len(mo.prefix) < Len(prefix))
    IN  mounts' = longer \o <<[prefix |-> prefix, root |-> root]>> \o shorter

unmount(prefix) == mounts' = SelectSeq(mounts, LAMBDA mo : mo.prefix # prefix)

\* The directory of the title's eboot.bin.
TitleDir == IF resolve(tree, <<APP0, EBOOT>>) = NoPath THEN NoPath ELSE Front(resolve(tree, <<APP0, EBOOT>>))

\* Mutated form: the new point is named for the number of live ones.
alloc_savedata_mount_point_len(dir) ==
    LET mine == {p \in DOMAIN savedata_mounts : savedata_mounts[p] = dir}
    IN  IF mine # {} THEN CHOOSE p \in mine : TRUE
        ELSE SavePoint(Cardinality(DOMAIN savedata_mounts))

\* A mount point already given to the directory, else the lowest free one.
alloc_savedata_mount_point(dir) ==
    LET mine == {p \in DOMAIN savedata_mounts : savedata_mounts[p] = dir}
    IN  IF mine # {} THEN CHOOSE p \in mine : TRUE
        ELSE SavePoint(Min({i \in 0..Cardinality(SaveDirs) : SavePoint(i) \notin DOMAIN savedata_mounts}))

\* savedata_mount makes the host directory before it takes the lock ...
savedata_mount(t, dir) ==
    /\ fsCall[t].op = "idle" /\ TitleDir # NoPath /\ fsCalls < CallBound
    /\ fsCalls' = fsCalls + 1
    /\ LET host == TitleDir \o <<SAVEDATA, dir>>
       IN  /\ tree' = create_dir_all(tree, host)
           /\ fsCall' = [fsCall EXCEPT ![t] = [NoFsCall EXCEPT !.op = "savemount", !.host = host]]
    /\ UNCHANGED <<mounts, length, files, next_fd, savedata_mounts>>

\* ... and under it picks the mount point, mounts and records it.
savedata_record(t) ==
    LET dir == Last(fsCall[t].host)
        point == alloc_savedata_mount_point(dir)
    IN  /\ fsCall[t].op = "savemount" /\ Len(mounts) < MaxMounts
        /\ mount(<<point>>, fsCall[t].host)
        /\ savedata_mounts' = [p \in DOMAIN savedata_mounts \cup {point} |->
                                  IF p = point THEN dir ELSE savedata_mounts[p]]
        /\ Done(t) /\ UNCHANGED <<tree, length, files, next_fd, fsCalls>>

savedata_umount(point) ==
    /\ point \in DOMAIN savedata_mounts
    /\ savedata_mounts' = Without(savedata_mounts, point)
    /\ unmount(<<point>>)
    /\ UNCHANGED <<tree, length, files, next_fd, fsCall, fsCalls>>

\* Every call of sceAppContentTemporaryDataMount2 mounts /temp0 once more.
tempdata_mount ==
    /\ TitleDir # NoPath /\ Len(mounts) < MaxMounts
    /\ tree' = create_dir_all(tree, TitleDir \o <<TEMPDATA>>)
    /\ mount(<<TEMP0>>, TitleDir \o <<TEMPDATA>>)
    /\ UNCHANGED <<length, files, next_fd, savedata_mounts, fsCall, fsCalls>>

FsInit ==
    /\ mounts = HostMounts /\ tree = HostTree
    /\ length = [i \in 1..Cardinality({p \in DOMAIN HostTree : HostTree[p] # DIR}) |-> 1]
    /\ files = <<>> /\ next_fd = 3 /\ savedata_mounts = <<>>
    /\ fsCall = [t \in FsThreads |-> NoFsCall] /\ fsCalls = 0

OpenFlags == {{"read"}, {"write", "creat", "trunc"}, {"read", "write", "append"}}

\* The entry points of libkernel and libSceSaveData.
OpenCall(t, p) == \E f \in OpenFlags : Call(t, "open", p, f, NoPath)
TreeCall(t, p) ==
    \/ \E op \in {"mkdir", "rmdir", "unlink"} : Call(t, op, p, {}, NoPath)
    \/ \E q \in GuestPaths : Call(t, "rename", p, {}, q)
StreamCall(d) == close(d) \/ \E n \in 1..2 : read(d, n) \/ write(d, n) \/ getdents(d, n)
OffsetCall(d) ==
    \E o \in 0..1 : pwrite(d, 1, o) \/ \E from \in {"set", "cur", "end"} : lseek(d, from, o)
SaveDataCall ==
    \/ \E t \in FsThreads, dir \in SaveDirs : savedata_mount(t, dir)
    \/ \E p \in DOMAIN savedata_mounts : savedata_umount(p)
TempDataCall == tempdata_mount

FsNext ==
    \/ \E t \in FsThreads, p \in GuestPaths : OpenCall(t, p) \/ TreeCall(t, p)
    \/ \E t \in FsThreads :
           \/ open_existing(t) \/ open_create(t) \/ mkdir(t) \/ rmdir(t) \/ unlink(t)
           \/ rename_resolve(t) \/ rename(t) \/ refused(t) \/ savedata_record(t)
    \/ \E d \in DOMAIN files : StreamCall(d) \/ OffsetCall(d)
    \/ SaveDataCall \/ TempDataCall

FsSpec == FsInit /\ [][FsNext]_fsVars

(***************************************************************************)
(* Properties.                                                             *)
(***************************************************************************)
\* Save-data slots stay apart, in whatever order threads mount and unmount them:
\* everything mounted at a live mount point is the directory recorded for it,
\* something is, no directory has two points, and an unmounted point leaves
\* nothing behind (else a title's writes to one slot land in another's; the
\* lowest free index is chosen under the lock the table is changed under).
SavesApart ==
    /\ \A i \in DOMAIN mounts : mounts[i].prefix[1] \in {SavePoint(k) : k \in 0..Cardinality(SaveDirs)} =>
          LET point == mounts[i].prefix[1]
          IN  point \in DOMAIN savedata_mounts /\ Last(mounts[i].root) = savedata_mounts[point]
    /\ \A point \in DOMAIN savedata_mounts : \E i \in DOMAIN mounts : mounts[i].prefix = <<point>>
    /\ IsInjective(savedata_mounts)
=============================================================================
