------------------------------- MODULE Files -------------------------------
(***************************************************************************)
(* The tar file system (sys/vfs.c) and the calls that use it: the inode    *)
(* tree that init_tarfs builds from the archive linked into the kernel,    *)
(* open files, directory streams and the working directory of each         *)
(* process.                                                                *)
(*                                                                         *)
(* A name is a sequence of letters, because names are compared by prefix   *)
(* and, in chdir, joined; a path is the sequence of names between its      *)
(* slashes.  Addresses of the archive are in bytes from its start.  The    *)
(* parent pointer family[0] is never read and is left out, so familyCount  *)
(* is Len(family) + 1.                                                     *)
(*                                                                         *)
(* kmalloc never takes memory back and its limit test, kern_VA +           *)
(* byte_count > 2^64 - 1, is never true: objects are numbered in the order *)
(* in which they are made and the bound MaxObjects stops a run.            *)
(* A call that returns an error without changing anything is not a step.   *)
(* Scheduling is in Scheduler: here any live process makes the next call.  *)
(***************************************************************************)
EXTENDS Integers, Sequences, SequencesExt, FiniteSets, FiniteSetsExt

CONSTANTS Archive,     \* sequence of [name, type, size], in the order of tar
          HEADER,      \* sizeof(struct posix_header_ustar), 512
          MAX_FAMILY,  \* children of an inode and its parent, 10
          MAX_FD,      \* size of a descriptor table, 20
          Procs,       \* process slots
          shell,       \* the slot of the shell
          Paths,       \* paths that programs ask for
          Counts,      \* byte counts of read
          MaxObjects   \* bound: file and directory objects ever made

DIR == 0
FILE == 1

\* power(8, i), by halving.
power8[i \in 0..10] ==
  IF i = 0 THEN 1
  ELSE IF i % 2 = 0 THEN power8[i \div 2] * power8[i \div 2]
  ELSE 8 * power8[i \div 2] * power8[i \div 2]

\* `tar --format=ustar` lays the members out one after the other, each a header
\* and its data padded to whole headers; `find` prints a directory before what
\* is in it and each path once.  A size has at most nine octal digits: read as
\* a decimal number, as oct_to_dec does, they are an int.
Blocks(size) == (size + HEADER - 1) \div HEADER

Place[i \in 1..Len(Archive) + 1] ==
  IF i = 1 THEN 0 ELSE Place[i - 1] + HEADER * (1 + Blocks(Archive[i - 1].size))

\* tar ends the archive with two blocks of zeros.
ArchiveEnd == Place[Len(Archive) + 1] + 2 * HEADER

ASSUME CallsAssumption ==
  Paths \subseteq Seq(Seq(STRING)) /\ Counts \subseteq Nat /\ MaxObjects \in Nat

ASSUME ArchiveAssumption ==
  /\ Archive \in Seq([name : Seq(Seq(STRING)), type : {DIR, FILE}, size : Nat])
  /\ HEADER \in Nat \ {0} /\ MAX_FAMILY \in Nat \ {0} /\ MAX_FD \in Nat
  /\ shell \in Procs
  /\ \A i \in 1..Len(Archive) :
       /\ Archive[i].name # <<>> /\ Archive[i].size < power8[9]
       /\ Archive[i].type = DIR => Archive[i].size = 0
       /\ \A j \in 1..i - 1 : Archive[j].name # Archive[i].name
       /\ \A k \in 1..Len(Archive[i].name) - 1 :
            \E j \in 1..i - 1 : Archive[j].type = DIR /\ Archive[j].name = SubSeq(Archive[i].name, 1, k)

\* find goes through a directory before it goes on.
ASSUME FindAssumption ==
  \A i \in 1..Len(Archive) : \A d \in 1..i - 1 :
    IsPrefix(Archive[d].name, Archive[i].name)
      => \A g \in d + 1..i - 1 : IsPrefix(Archive[d].name, Archive[g].name)

VARIABLES
  header,  \* address of the archive member init_tarfs looks at
  inodes,  \* sequence of inodes; the first is root_inode
  files,   \* sequence of file objects
  dirs,    \* sequence of directory objects
  fd,      \* [process -> [descriptor -> index of files, 0 for NULL]]
  cwd,     \* [process -> currentDir]
  alive    \* slots of processes that make calls

bootVars == <<header, inodes>>
vars == <<header, inodes, files, dirs, fd, cwd, alive>>

Descriptors == 2..MAX_FD - 1

Closed == [i \in Descriptors |-> 0]

\* currentDir as the names in it and whether it ends with a slash.
Dir(path, slash) == [path |-> path, slash |-> slash]

NoDir == Dir(<<>>, FALSE)

\* The root's type is never assigned: it is DIR because DIR is 0 and the
\* pages that kmalloc takes at boot hold zeros.
Init ==
  /\ header = 0
  /\ inodes = <<[inodeName |-> <<>>, start |-> 0, end |-> 1, type |-> DIR, family |-> <<>>]>>
  /\ files = <<>>
  /\ dirs = <<>>
  /\ fd = [p \in Procs |-> Closed]
  /\ cwd = [p \in Procs |-> IF p = shell THEN Dir(<<>>, TRUE) ELSE NoDir]
  /\ alive = {shell}

-----------------------------------------------------------------------------
(* The inode tree *)

\* strncmp over the length of the token: the name may be longer.
SameName(name, token) == IsPrefix(token, name)

\* Place in the family of the first child that matches, 0 if there is none.
findFamily(tree, node, token) ==
  LET family == tree[node].family
      hits == {i \in 1..Len(family) : SameName(tree[family[i]].inodeName, token)}
  IN IF hits = {} THEN 0 ELSE Min(hits)

appendToFamily(tree, node, token, member) ==
  Append([tree EXCEPT ![node].family = Append(@, Len(tree) + 1)],
         [member EXCEPT !.inodeName = token])

\* Mutant: the place of the parent is not counted.
FamilyFullLate(tree, node) == Len(tree[node].family) >= MAX_FAMILY

\* The parent takes a place of the family.
FamilyFull(tree, node) == Len(tree[node].family) + 1 >= MAX_FAMILY

\* One turn of the loop over the tokens of a path.  In a full directory the
\* loop goes on with the next token at the same node.
Insert(at, token, member) ==
  LET found == findFamily(at.tree, at.node, token)
  IN IF found # 0
       THEN [at EXCEPT !.node = at.tree[at.node].family[found]]
     ELSE IF FamilyFull(at.tree, at.node)
       THEN at
     ELSE [tree |-> appendToFamily(at.tree, at.node, token, member), node |-> Len(at.tree) + 1]

InsertIntoRoot(tree, path, start, end, type) ==
  LET member == [inodeName |-> <<>>, start |-> start, end |-> end, type |-> type, family |-> <<>>]
      at[k \in 0..Len(path)] == IF k = 0 THEN [tree |-> tree, node |-> 1]
                                ELSE Insert(at[k - 1], path[k], member)
  IN at[Len(path)].tree

\* The inode of a path, 0 for NULL.
GetInode(path) ==
  LET Child(node, i) == IF i = 0 THEN 0 ELSE inodes[node].family[i]
      walk[k \in 0..Len(path)] ==
        IF k = 0 THEN 1
        ELSE IF walk[k - 1] = 0 THEN 0
        ELSE Child(walk[k - 1], findFamily(inodes, walk[k - 1], path[k]))
  IN walk[Len(path)]

\* The size field: tar writes eleven octal digits.
Octal(size) ==
  LET rest[i \in 0..11] == IF i = 0 THEN size ELSE rest[i - 1] \div 8
  IN [k \in 1..11 |-> rest[11 - k] % 8]

\* The digits are read as a decimal number first, and its digits are then
\* weighted with the powers of eight.
oct_to_dec(num) ==
  LET oct[k \in 0..11] == IF k = 0 THEN 0 ELSE 10 * oct[k - 1] + num[k]
      Turn(was, i) == [oct |-> was.oct \div 10, dec |-> was.dec + (was.oct % 10) * power8[i]]
      turns[i \in 0..11] == IF i = 0 THEN [oct |-> oct[11], dec |-> 0] ELSE Turn(turns[i - 1], i - 1)
  IN turns[11].dec

\* What the header at an address says; blocks without a name are blank.
Member(address) ==
  LET at == {i \in 1..Len(Archive) : Place[i] = address}
      Header(m) == [m EXCEPT !.size = oct_to_dec(Octal(m.size))]
  IN IF at = {} THEN [name |-> <<>>, type |-> DIR, size |-> 0] ELSE Header(Archive[CHOOSE i \in at : TRUE])

\* Mutant: the remainder is not looked at.
NextHeaderLong(address, size) == address + HEADER * (2 + size \div HEADER)

NextHeader(address, size) ==
  address + HEADER * (IF size % HEADER = 0 THEN 1 + size \div HEADER ELSE 2 + size \div HEADER)

\* One turn of the loop over the archive.
init_tarfs ==
  /\ header < ArchiveEnd
  /\ LET m == Member(header)
         data == header + HEADER
     IN /\ inodes' = IF m.name = <<>> THEN inodes
                     ELSE InsertIntoRoot(inodes, m.name, data, data + m.size, m.type)
        /\ header' = NextHeader(header, m.size)
  /\ UNCHANGED <<files, dirs, fd, cwd, alive>>

-----------------------------------------------------------------------------
(* Calls of a process; init_proc comes after init_tarfs *)

Calls(p) == header >= ArchiveEnd /\ p \in alive /\ UNCHANGED bootVars

IsFile(node) == node # 0 /\ inodes[node].type # DIR

IsDirectory(node) == node # 0 /\ inodes[node].type # FILE

k_open(p, path) ==
  LET free == {i \in Descriptors : fd[p][i] = 0}
      node == GetInode(path)
  IN /\ Calls(p)
     /\ Len(files) + Len(dirs) < MaxObjects
     /\ IsFile(node)
     /\ free # {}
     /\ files' = Append(files, [node |-> node, currentoffset |-> inodes[node].start])
     /\ fd' = [fd EXCEPT ![p][Min(free)] = Len(files) + 1]
     /\ UNCHANGED <<dirs, cwd, alive>>

k_close(p, i) ==
  /\ Calls(p)
  /\ fd' = [fd EXCEPT ![p][i] = 0]
  /\ UNCHANGED <<files, dirs, cwd, alive>>

\* Mutant: the end of the file is looked at before the loop only.
BytesReadPastEnd(file, count) == IF file.currentoffset >= inodes[file.node].end THEN 0 ELSE count

\* Bytes the loop of k_read copies.
BytesRead(file, count) == Min({count, inodes[file.node].end - file.currentoffset})

\* Programs read descriptors that they have opened.
k_read(p, i, count) ==
  /\ Calls(p)
  /\ fd[p][i] # 0
  /\ files' = [files EXCEPT ![fd[p][i]].currentoffset = @ + BytesRead(files[fd[p][i]], count)]
  /\ UNCHANGED <<dirs, fd, cwd, alive>>

\* The object is made before the path is looked up, and stays when that fails.
k_opendir(p, path) ==
  /\ Calls(p)
  /\ Len(files) + Len(dirs) < MaxObjects
  /\ dirs' = Append(dirs, IF IsDirectory(GetInode(path)) THEN [path |-> path, currInode |-> 1]
                          ELSE [path |-> <<>>, currInode |-> -1])
  /\ UNCHANGED <<files, fd, cwd, alive>>

\* Returns the next entry of the directory; at its end it changes nothing.
k_readdir(p, d) ==
  LET node == GetInode(dirs[d].path)
  IN /\ Calls(p)
     /\ node # 0 /\ dirs[d].currInode # -1
     /\ dirs[d].currInode < Len(inodes[node].family) + 1
     /\ dirs' = [dirs EXCEPT ![d].currInode = @ + 1]
     /\ UNCHANGED <<files, fd, cwd, alive>>

\* The pointer is cleared before it is given to recycledirstruct: the list of
\* free directory objects stays empty and getnewdir makes a new object.
k_closedir(p, d) ==
  /\ Calls(p)
  /\ dirs' = [dirs EXCEPT ![d] = [path |-> <<>>, currInode |-> -1]]
  /\ UNCHANGED <<files, fd, cwd, alive>>

SetDir(p, dir) == cwd' = [cwd EXCEPT ![p] = dir] /\ UNCHANGED <<files, dirs, fd, alive>>

\* An absolute path is taken over as it is, with or without its last slash.
ChdirAbsolute(p, path, slash) ==
  /\ Calls(p)
  /\ IsDirectory(GetInode(path))
  /\ path = <<>> => slash
  /\ SetDir(p, Dir(path, slash))

\* The name is appended to the string of currentDir: without a slash at its
\* end the name is joined with the last one in it.
Joined(dir, name) ==
  IF dir.slash THEN Append(dir.path, name)
  ELSE [dir.path EXCEPT ![Len(dir.path)] = @ \o name]

\* Mutant: the string is not cut back.
RelativeKept(dir, name) == Dir(Joined(dir, name), TRUE)

\* When the new path is not a directory the string is cut back.
Relative(dir, name) ==
  IF IsDirectory(GetInode(Joined(dir, name))) THEN Dir(Joined(dir, name), TRUE) ELSE dir

\* chdir of a single name, as `cd name` of the shell.
ChdirRelative(p, name) ==
  /\ Calls(p)
  /\ cwd[p] # NoDir
  /\ SetDir(p, Relative(cwd[p], name))

\* Back to the slash before the last name.
ChdirBack(p) ==
  /\ Calls(p)
  /\ cwd[p] # NoDir
  /\ SetDir(p, IF cwd[p].path = <<>> THEN cwd[p] ELSE Dir(Front(cwd[p].path), TRUE))

-----------------------------------------------------------------------------
(* What the process calls do to files and working directories *)

\* Mutant: the child's descriptors point to the parent's file objects.
DescriptorsShared(p) == [table |-> fd[p], objects |-> files]

\* fork makes an object of its own for each open descriptor, in their order.
DescriptorsCopied(p) ==
  LET open == {i \in Descriptors : fd[p][i] # 0}
      rank(i) == Cardinality({j \in open : j <= i})
      nth(k) == CHOOSE i \in open : rank(i) = k
  IN [table |-> [i \in Descriptors |-> IF fd[p][i] = 0 THEN 0 ELSE Len(files) + rank(i)],
      objects |-> files \o [k \in 1..Cardinality(open) |-> files[fd[p][nth(k)]]]]

syscall_fork(p, c) ==
  /\ Calls(p)
  /\ c \notin alive /\ cwd[p] # NoDir
  /\ Len(DescriptorsCopied(p).objects) + Len(dirs) <= MaxObjects
  /\ files' = DescriptorsCopied(p).objects
  /\ fd' = [fd EXCEPT ![c] = DescriptorsCopied(p).table]
  /\ cwd' = [cwd EXCEPT ![c] = cwd[p]]
  /\ alive' = alive \cup {c}
  /\ UNCHANGED dirs

\* The binary runs in a new process with the caller's directory and no files.
\* The caller is held until the binary ends and makes no call before it dies.
\* (An exec that finds no binary makes a process that never runs: Scheduler.)
syscall_exec(p, c) ==
  /\ Calls(p)
  /\ c \notin alive /\ cwd[p] # NoDir /\ p # shell
  /\ fd' = [fd EXCEPT ![c] = Closed]
  /\ cwd' = [cwd EXCEPT ![c] = cwd[p]]
  /\ alive' = (alive \cup {c}) \ {p}
  /\ UNCHANGED <<files, dirs>>

syscall_exit(p) ==
  /\ Calls(p)
  /\ p # shell
  /\ fd' = [fd EXCEPT ![p] = Closed]
  /\ cwd' = [cwd EXCEPT ![p] = NoDir]
  /\ alive' = alive \ {p}
  /\ UNCHANGED <<files, dirs>>

\* kill closes the files and drops the directory of the caller, not of the
\* victim, whose table stays until its slot is used again.  It does so too
\* for the pid of a process that is gone.  Its only caller, bin/kill, exits
\* next.
syscall_kill(p, victim) ==
  /\ Calls(p)
  /\ p # shell /\ victim \notin {p, shell}
  /\ fd' = [fd EXCEPT ![p] = Closed]
  /\ cwd' = [cwd EXCEPT ![p] = NoDir]
  /\ alive' = alive \ {victim}
  /\ UNCHANGED <<files, dirs>>

FileCall(p) ==
  \/ \E path \in Paths : k_open(p, path)
  \/ \E i \in Descriptors : k_close(p, i)
  \/ \E i \in Descriptors, count \in Counts : k_read(p, i, count)

DirectoryCall(p) ==
  \/ \E path \in Paths : k_opendir(p, path)
  \/ \E d \in 1..Len(dirs) : k_readdir(p, d) \/ k_closedir(p, d)

ChdirCall(p) ==
  \/ \E path \in Paths, slash \in BOOLEAN : ChdirAbsolute(p, path, slash)
  \/ \E path \in Paths : Len(path) = 1 /\ ChdirRelative(p, path[1])
  \/ ChdirBack(p)

ProcessCall(p) ==
  \/ \E c \in Procs : syscall_fork(p, c) \/ syscall_exec(p, c) \/ syscall_kill(p, c)
  \/ syscall_exit(p)

Next ==
  \/ init_tarfs
  \/ \E p \in Procs : FileCall(p) \/ DirectoryCall(p) \/ ChdirCall(p) \/ ProcessCall(p)

Spec == Init /\ [][Next]_vars

-----------------------------------------------------------------------------
(* Properties *)

\* Types, with the limits of the code: at most MAX_FAMILY - 1 children of an
\* inode, descriptors that point into the objects made so far.
TypeOK ==
  /\ header \in 0..ArchiveEnd
  /\ \A n \in 1..Len(inodes) :
       /\ inodes[n].type \in {DIR, FILE}
       /\ Len(inodes[n].family) < MAX_FAMILY
       /\ \A i \in 1..Len(inodes[n].family) : inodes[n].family[i] \in n + 1..Len(inodes)
  /\ files \in Seq([node : 1..Len(inodes), currentoffset : 0..ArchiveEnd])
  /\ \A d \in 1..Len(dirs) : dirs[d].currInode \in -1..MAX_FAMILY
  /\ fd \in [Procs -> [Descriptors -> 0..Len(files)]]
  /\ \A p \in Procs : cwd[p].slash \in BOOLEAN
  /\ alive \in SUBSET Procs

\* The members of the archive in the same directory as the first k names of
\* member i, among those before it.
Siblings(i, k) ==
  {Archive[j].name[k] : j \in {j \in 1..i - 1 :
     Len(Archive[j].name) >= k /\ SubSeq(Archive[j].name, 1, k - 1) = SubSeq(Archive[i].name, 1, k - 1)}}

\* A member that tar lists while there is room in its directories and before any
\* sibling whose name begins with its own: the two cases in which
\* InsertIntoRoot drops a member.
Visible(i) ==
  \A k \in 1..Len(Archive[i].name) :
    /\ Cardinality(Siblings(i, k) \ {Archive[i].name[k]}) < MAX_FAMILY - 1
    /\ \A name \in Siblings(i, k) : IsPrefix(Archive[i].name[k], name) => name = Archive[i].name[k]

VisibleMembers == {i \in 1..Len(Archive) : Visible(i)}

\* After boot every member that was not dropped is found under its path, with
\* its own type and its own bytes, whatever other names are in the archive
\* (init_tarfs, InsertIntoRoot, GetInode, and the walk over the headers).
EntriesFound ==
  header >= ArchiveEnd =>
    \A i \in VisibleMembers :
      LET node == GetInode(Archive[i].name)
      IN /\ node # 0
         /\ inodes[node].type = Archive[i].type
         /\ inodes[node].start = Place[i] + HEADER
         /\ inodes[node].end = Place[i] + HEADER + Archive[i].size

\* No directory's name begins the name of a file that is listed before it.
\* Such a file would be taken for the directory, and get its children.
NoFileHides ==
  \A j \in 1..Len(Archive) : \A i \in 1..j - 1 :
    Archive[i].type = FILE /\ Archive[j].type = DIR
      => ~IsPrefix(Last(Archive[j].name), Last(Archive[i].name))

\* The working directory of a live process is always a directory that exists:
\* also after a chdir that failed, after `cd ..` and in a child of fork or exec
\* (k_chdir edits the string of currentDir in place).
CwdIsDirectory ==
  \A p \in alive : cwd[p] # NoDir => IsDirectory(GetInode(cwd[p].path))

\* A descriptor stands for a file, never for a directory, and its offset stays
\* between the first byte of the file and the one after its last, so that read
\* never copies bytes of the next member of the archive (k_open, k_read).
OffsetsInFile ==
  \A p \in alive : \A i \in Descriptors : fd[p][i] # 0 =>
    LET file == files[fd[p][i]]
    IN /\ inodes[file.node].type = FILE
       /\ file.currentoffset \in inodes[file.node].start..inodes[file.node].end

\* What a process sees of its descriptors.
View(p) == [i \in Descriptors |-> IF fd[p][i] = 0 THEN <<>> ELSE <<files[fd[p][i]]>>]

\* A process's open files change by its own calls only: at most one of the
\* processes alive before and after a step sees its descriptors changed, and a
\* new process sees its parent's or none (open, read and close after fork).
Isolation ==
  [][/\ \A p, q \in alive \cap alive' : View(p)' # View(p) /\ View(q)' # View(q) => p = q
     /\ \A c \in alive' \ alive : \/ View(c)' = [i \in Descriptors |-> <<>>]
                                  \/ \E p \in alive \cap alive' : View(c)' = View(p)]_vars
=============================================================================
