------------------------------ MODULE MCFiles ------------------------------
(***************************************************************************)
(* An archive with the cases that matter: a directory that fills up        *)
(* (/d: ab, b and c, then f is refused), a name hidden by a longer one     *)
(* before it (/d/a by /d/ab, /n/l by /n/ls), a name that two others make   *)
(* when they are joined (/de from /d and e), sizes of whole and of broken  *)
(* blocks and of two octal digits, and three binaries: the shell /n/s, and *)
(* /n/l, which is run, after /n/ls, which must not be taken for it.        *)
(***************************************************************************)
EXTENDS Loader, TLC

MCArchive ==
  << [name |-> <<<<"d">>>>, type |-> DIR, size |-> 0],
     [name |-> <<<<"d">>, <<"a", "b">>>>, type |-> FILE, size |-> 3],
     [name |-> <<<<"d">>, <<"a">>>>, type |-> FILE, size |-> 1],
     [name |-> <<<<"d">>, <<"b">>>>, type |-> FILE, size |-> 9],
     [name |-> <<<<"d">>, <<"c">>>>, type |-> DIR, size |-> 0],
     [name |-> <<<<"d">>, <<"f">>>>, type |-> FILE, size |-> 1],
     [name |-> <<<<"d", "e">>>>, type |-> DIR, size |-> 0],
     [name |-> <<<<"n">>>>, type |-> DIR, size |-> 0],
     [name |-> <<<<"n">>, <<"l", "s">>>>, type |-> FILE, size |-> 2],
     [name |-> <<<<"n">>, <<"l">>>>, type |-> FILE, size |-> 3],
     [name |-> <<<<"n">>, <<"s">>>>, type |-> FILE, size |-> 5] >>

ASSUME NoFileHides

Segment(vaddr, offset, filesz, memsz) ==
  [p_vaddr |-> vaddr, p_offset |-> offset, p_filesz |-> filesz, p_memsz |-> memsz]

StackSegment == Segment(0, 0, 0, 0)

MCHeaders ==
  (<<<<"n">>, <<"l", "s">>>> :> <<Segment(1, 0, 2, 2), StackSegment>>) @@
  (<<<<"n">>, <<"l">>>> :> <<Segment(1, 0, 2, 2), Segment(4, 2, 1, 4), StackSegment>>) @@
  (<<<<"n">>, <<"s">>>> :> <<Segment(1, 0, 3, 3), Segment(4, 3, 2, 5), StackSegment>>)

MCShellPath == <<<<"n">>, <<"s">>>>

MCExecPaths == {<<<<"n">>, <<"l">>>>}

MCAddresses == 0..12

MCPaths ==
  {<<<<"d">>>>, <<<<"e">>>>, <<<<"c">>>>, <<<<"d">>, <<"a">>>>}

MCSymmetry == Permutations(Procs \ {shell})
=============================================================================
