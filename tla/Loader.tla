------------------------------ MODULE Loader ------------------------------
(***************************************************************************)
(* The program loader: scan_tarfs finds a binary in the archive by its     *)
(* full name, read_elf and file_map put its segments into the address      *)
(* space of a new process (sys/tarfs.c, sys/virt_mem.c).  exec then writes *)
(* the name and the arguments it was called with into that address space,  *)
(* at the addresses they had in the caller's.                              *)
(*                                                                         *)
(* A byte of memory is named by where it comes from: its address in the    *)
(* archive, or ZERO, FRESH (a page nobody wrote to) or TEXT.  Paths have *)
(* a slash in them, as all that the shell passes to execvpe; page tables   *)
(* and page sharing are in Memory.                                         *)
(***************************************************************************)
EXTENDS Files

CONSTANTS Headers,    \* [path of a binary -> its program headers]
          ShellPath,  \* bin/sbush
          ExecPaths,  \* paths that the shell passes to execvpe
          Strings,    \* addresses of the name and the arguments in the caller
          Addresses,  \* user addresses
          PAGE        \* bytes of a page, 4096

ZERO == 0
FRESH == -1
TEXT == -2

\* The shell is in the archive and execs other programs only.
ASSUME ShellAssumption ==
  /\ ShellPath \in DOMAIN Headers /\ ExecPaths \subseteq DOMAIN Headers \ {ShellPath}
  /\ \E i \in 1..Len(Archive) : Archive[i].type = FILE /\ Archive[i].name = ShellPath

\* What `ld` writes: the segments to load in ascending order and apart from
\* each other, and after them one header for the stack.
ASSUME LoaderAssumption ==
  /\ PAGE \in Nat \ {0} /\ Strings \subseteq Addresses
  /\ \A path \in DOMAIN Headers :
       Headers[path] \in Seq([p_vaddr : Nat, p_offset : Nat, p_filesz : Nat, p_memsz : Nat]) \ {<<>>}
  /\ \A path \in DOMAIN Headers : \A k \in 1..Len(Headers[path]) - 1 :
       LET seg == Headers[path][k]
       IN /\ seg.p_filesz <= seg.p_memsz
          /\ seg.p_vaddr..seg.p_vaddr + seg.p_memsz \subseteq Addresses
          /\ k > 1 => Headers[path][k - 1].p_vaddr + Headers[path][k - 1].p_memsz <= seg.p_vaddr

VARIABLE image   \* [process -> name, bytes and heap_top]

loaderVars == <<vars, image>>

NoImage == [name |-> <<>>, mem |-> [a \in Addresses |-> FRESH], heap_top |-> 0]

-----------------------------------------------------------------------------
(* Loading *)

\* Mutant: the name in the header may be longer than the one asked for.
SameFilePrefix(m, fname) ==
  m.type = FILE /\ Len(m.name) = Len(fname) /\ Front(m.name) = Front(fname) /\ IsPrefix(Last(fname), Last(m.name))

\* strcmp2 of the whole names; that of a directory ends with a slash.
SameFile(m, fname) == m.type = FILE /\ m.name = fname

\* The header of the first member with that name, -1 if there is none.
scan_tarfs(fname) ==
  LET from[address \in Nat] ==
        IF address >= ArchiveEnd THEN -1
        ELSE IF SameFile(Member(address), fname) THEN address
        ELSE from[NextHeader(address, Member(address).size)]
  IN from[0]

\* Byte i of a segment whose file part begins at an address of the archive.
\* Byte number p_filesz is copied too, and the zeros begin after it.
MappedByte(seg, location, i) == IF i > seg.p_filesz THEN ZERO ELSE location + i

\* Nothing is mapped of a segment without bytes in the file.
file_map(mem, seg, location) ==
  IF seg.p_filesz < 1 THEN mem
  ELSE [a \in Addresses |-> IF a - seg.p_vaddr \in 0..seg.p_memsz - 1
                            THEN MappedByte(seg, location, a - seg.p_vaddr) ELSE mem[a]]

\* The first page after the one in which a segment ends.
HeapAfter(end) == (end \div PAGE + 1) * PAGE

\* All headers but the last are loaded; heap_top is set for each of them.
read_elf(elfaddr, fname) ==
  LET Load(img, seg) ==
        [img EXCEPT !.mem = file_map(@, seg, elfaddr + seg.p_offset),
                    !.heap_top = HeapAfter(seg.p_vaddr + seg.p_memsz)]
      header_of == CHOOSE i \in 1..Len(Archive) : Place[i] + HEADER = elfaddr
      segments == Headers[Archive[header_of].name]
      loaded[k \in 0..Len(segments) - 1] == IF k = 0 THEN [NoImage EXCEPT !.name = fname]
                                            ELSE Load(loaded[k - 1], segments[k])
  IN loaded[Len(segments) - 1]

\* What scan_tarfs loads for each path: the archive never changes.
Binaries ==
  [path \in {f \in DOMAIN Headers : scan_tarfs(f) # -1} |-> read_elf(scan_tarfs(path) + HEADER, path)]

\* The name and the arguments, after the binary has been loaded.
WithStrings(img) ==
  [img EXCEPT !.mem = [a \in Addresses |-> IF a \in Strings THEN TEXT ELSE @[a]]]

-----------------------------------------------------------------------------
(* Processes *)

\* init_proc loads the shell.
LoaderInit ==
  /\ Init
  /\ image = [p \in Procs |-> IF p = shell THEN Binaries[ShellPath] ELSE NoImage]

\* The address spaces of processes that are gone are gone.
Images(made) == [p \in Procs |-> IF p \in alive' THEN made[p] ELSE NoImage]

\* Only the shell and the children it forked call execvpe.
exec(p, c, path) ==
  /\ image[p].name = ShellPath
  /\ path \in DOMAIN Binaries
  /\ syscall_exec(p, c)
  /\ image' = Images([image EXCEPT ![c] = WithStrings(Binaries[path])])

\* The child of fork shares the pages of its parent.
fork(p, c) == syscall_fork(p, c) /\ image' = Images([image EXCEPT ![c] = image[p]])

Ends(p) == (syscall_exit(p) \/ \E v \in Procs : syscall_kill(p, v)) /\ image' = Images(image)

LoaderNext ==
  \/ init_tarfs /\ UNCHANGED image
  \/ \E p \in Procs :
       \/ (FileCall(p) \/ DirectoryCall(p) \/ ChdirCall(p)) /\ UNCHANGED image
       \/ \E c \in Procs : fork(p, c) \/ \E path \in ExecPaths : exec(p, c, path)
       \/ Ends(p)

LoaderSpec == LoaderInit /\ [][LoaderNext]_loaderVars

-----------------------------------------------------------------------------
(* Properties *)

\* Where the file of a path begins, by the layout of the archive.
DataOf == [path \in DOMAIN Headers |->
             Place[CHOOSE i \in 1..Len(Archive) : Archive[i].name = path] + HEADER]

\* The byte the program headers of a binary ask for.
Wanted(path, seg, i) == IF i < seg.p_filesz THEN DataOf[path] + seg.p_offset + i ELSE ZERO

\* A live process has in its memory the segments of the binary it is named
\* after, byte for byte and the rest of each segment zero, and its heap begins
\* after all of them: whatever binaries with similar names and whatever sizes
\* are before it in the archive, and whoever forked, ended or used the slot
\* before (scan_tarfs, read_elf, file_map, fork, exec).  Two kinds of bytes
\* are left out, which the code gets wrong: the first byte after the file part
\* of a segment, and those that exec overwrites with its strings.
ImageOfBinary ==
  \A p \in alive : \A k \in 1..Len(Headers[image[p].name]) - 1 :
    LET seg == Headers[image[p].name][k]
    IN /\ seg.p_vaddr + seg.p_memsz <= image[p].heap_top
       /\ seg.p_filesz > 0 =>
            \A i \in (0..seg.p_memsz - 1) \ {seg.p_filesz} :
              \/ image[p].mem[seg.p_vaddr + i] = Wanted(image[p].name, seg, i)
              \/ seg.p_vaddr + i \in Strings /\ image[p].name # ShellPath
=============================================================================
