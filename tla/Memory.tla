------------------------------- MODULE Memory -------------------------------
(***************************************************************************)
(* Physical pages, page tables and VMAs: sys/phy_mem_manager.c,            *)
(* sys/paging.c, sys/virt_mem.c, the page-fault handler of sys/yomama.c    *)
(* and the memory half of fork, exec, exit and kill.                       *)
(*                                                                         *)
(* An address space is named by the process slot that owns it.  Only the   *)
(* private half is modelled: the kernel half, with the stacks and PML4     *)
(* pages of all slots, is shared and never given back.  Handlers run with  *)
(* interrupts off, so each is one action; between them any process may     *)
(* have the CPU.                                                           *)
(***************************************************************************)
EXTENDS Integers, Sequences, FiniteSets

CONSTANTS
    Spaces,      \* the address spaces, 0 .. n, the shell's first
    NFRAMES,     \* entries of the free list after boot
    PAGE_SIZE,   \* addresses in a page
    NPAGES,      \* bound: pages of an address space; page 0 is that of NULL
    UPPER,       \* levels of page tables above the last (p2 and p3)
    RESERVE,     \* get_page refuses below this many blocks (5)
    Segments,    \* the segments of a binary, [vstart, vend] each
    ArgVmas,     \* where exec may find the strings of its arguments
    Sizes,       \* the sizes programs malloc
    MaxVmas      \* bound: VMAs of a process

Frames == 1..NFRAMES
Pages  == 0..(NPAGES - 1)
Addrs  == 0..(NPAGES * PAGE_SIZE - 1)
Vmas   == [vstart : Nat, vend : Nat]

ASSUME SpacesAssumption ==
    /\ NFRAMES \in Nat /\ NPAGES \in Nat \ {0} /\ PAGE_SIZE \in Nat \ {0}
    /\ UPPER \in Nat /\ RESERVE \in Nat \ {0} /\ MaxVmas \in Nat
    /\ 0 \in Spaces /\ Spaces \subseteq Nat /\ IsFiniteSet(Spaces)
    /\ Segments \in Seq(Vmas) \ {<<>>} /\ ArgVmas \subseteq Vmas /\ Sizes \subseteq Nat

VARIABLES
    free,             \* the blocks on the free list
    totalblockcount,  \* the counter get_page looks at
    ref_count,        \* of each block
    pte,              \* the last-level entries of each address space
    walk,             \* the regions an address space has page tables for
    vma_list, heap_top,
    life,             \* of each slot: no process, one that runs, or one that
                      \* exec'ed and waits to die
    machine           \* running, or the reason it hangs in while(1)

frameVars == <<free, totalblockcount, ref_count>>
vars == <<frameVars, pte, walk, vma_list, heap_top, life, machine>>

Absent == [frame |-> 0, rw |-> FALSE]

Page(a) == a \div PAGE_SIZE

\* The pages that hold an address of the VMA, whose end is inclusive.
Covers(v) == Page(v.vstart)..Page(v.vend)

\* unmap_phyaddr_range, whose end is exclusive: it rounds vend up only when
\* it is not the first address of a page.
UnmapRange(v) ==
    Page(v.vstart)..(Page(v.vend) - IF v.vend % PAGE_SIZE = 0 THEN 1 ELSE 0)

IsPageInVmaList(s, a) ==
    \E i \in DOMAIN vma_list[s] :
        vma_list[s][i].vstart <= a /\ a <= vma_list[s][i].vend

Present(s, pg) == pte[s][pg] # Absent

\* Page 0 lies under a last-level table of its own.
Region(pg) == IF pg = 0 THEN "null" ELSE "user"

\* The page-table pages that mapping a page of region r takes in an address
\* space with tables for the regions w.
Tables(w, r) == (IF w = {} THEN UPPER ELSE 0) + (IF r \in w THEN 0 ELSE 1)

-----------------------------------------------------------------------------
(* The free list. *)

Rank(S, x) == Cardinality({y \in S : y < x})

\* The blocks that n calls of get_page return.  The list is a stack; which
\* free block comes first is abstracted to the lowest.
First(S, n) == {f \in S : Rank(S, f) < n}

\* Mutant of Suffices: the test comes too late.
SufficesLate(count, n) == n = 0 \/ count - (n - 1) >= 0

\* n calls of get_page in a row pass its test when count blocks are left.
Suffices(count, n) == n = 0 \/ count - (n - 1) >= RESERVE

get_page(n) ==
    /\ Suffices(totalblockcount, n)
    /\ free' = free \ First(free, n)
    /\ totalblockcount' = totalblockcount - n

\* ThrowOutOfMemoryError, ThrowSegmentationFault: while(1);
Hang(why) ==
    /\ machine' = why
    /\ UNCHANGED <<frameVars, pte, walk, vma_list, heap_top, life>>

\* How many entries of s for the pages U hold the block f.
Hits(s, U, f) == Cardinality({pg \in U \cap Pages : pte[s][pg].frame = f})

\* Mutant of Freed: the reference count is not looked at.
FreedAlways(s, U) == {f \in Frames : Hits(s, U, f) > 0}

\* unmap_phyaddr on the pages U of s: a block is freed when its last
\* reference goes, and decrement_reference_count stops at 0.
Freed(s, U) == {f \in Frames : ref_count[f] \in 1..Hits(s, U, f)}

RefsAfterUnmap(s, U) ==
    [f \in Frames |-> IF ref_count[f] > Hits(s, U, f)
                        THEN ref_count[f] - Hits(s, U, f) ELSE 0]

PteAfterUnmap(s, U) ==
    [pg \in Pages |-> IF pg \in U THEN Absent ELSE pte[s][pg]]

unmap_phyaddr(s, U) ==
    /\ free' = free \union Freed(s, U)
    /\ totalblockcount' = totalblockcount + Cardinality(Freed(s, U))
    /\ ref_count' = RefsAfterUnmap(s, U)
    /\ pte' = [pte EXCEPT ![s] = PteAfterUnmap(s, U)]

-----------------------------------------------------------------------------
(* Boot and page faults. *)

\* The pages of P and their tables are mapped with the blocks T, the tables
\* first.
Mapped(P, T) ==
    [pg \in Pages |->
        IF pg \in P
          THEN [frame |-> CHOOSE f \in T :
                            Rank(T, f) = Cardinality(T) - Cardinality(P)
                                         + Rank(P, pg),
                rw |-> TRUE]
          ELSE Absent]

\* read_elf: file_map writes from vstart up to, not including, vend.
Loaded == UNION {Page(Segments[i].vstart)..Page(Segments[i].vend - 1) :
                    i \in DOMAIN Segments}

\* The page after the last segment.
HeapBase == (Page(Segments[Len(Segments)].vend) + 1) * PAGE_SIZE

\* Binaries and arguments lie in the modelled pages, and there is memory to
\* boot with: get_page does not refuse init_proc.
ASSUME BootAssumption ==
    /\ Loaded \subseteq Pages
    /\ \A arg \in ArgVmas : Covers(arg) \subseteq Pages
    /\ Suffices(NFRAMES - 1, UPPER + 1 + Cardinality(Loaded))

\* freelist leaves block 0 out and counts one block less than it lists;
\* init_proc has loaded the shell.
Init ==
    LET n == UPPER + 1 + Cardinality(Loaded)
        T == First(Frames, n)
    IN /\ free = Frames \ T
       /\ totalblockcount = NFRAMES - 1 - n
       /\ ref_count = [f \in Frames |-> IF f \in T THEN 1 ELSE 0]
       /\ pte = [s \in Spaces |-> IF s = 0 THEN Mapped(Loaded, T)
                                  ELSE [pg \in Pages |-> Absent]]
       /\ walk = [s \in Spaces |-> IF s = 0 THEN {"user"} ELSE {}]
       /\ vma_list = [s \in Spaces |-> IF s = 0 THEN Segments ELSE <<>>]
       /\ heap_top = [s \in Spaces |-> IF s = 0 THEN HeapBase ELSE 0]
       /\ life = [s \in Spaces |-> IF s = 0 THEN "user" ELSE "none"]
       /\ machine = "running"

Runs(s) == machine = "running" /\ life[s] = "user"

\* map_phyaddr for a page that is not present.
map_phyaddr(s, pg) ==
    LET n == Tables(walk[s], Region(pg)) + 1
        T == First(free, n)
    IN /\ get_page(n)
       /\ ref_count' = [f \in Frames |-> ref_count[f] + IF f \in T THEN 1 ELSE 0]
       /\ pte' = [pte EXCEPT ![s][pg] = Mapped({pg}, T)[pg]]
       /\ walk' = [walk EXCEPT ![s] = @ \union {Region(pg)}]

\* pagemama: a page that is not present is mapped when the program touches
\* an address of a VMA, and always when a system call does (RING_0_MODE).
DemandFault(s, a, mode) ==
    /\ Runs(s)
    /\ ~Present(s, Page(a))
    /\ mode = "kernel" \/ IsPageInVmaList(s, a)
    /\ \/ /\ map_phyaddr(s, Page(a))
          /\ UNCHANGED machine
          /\ UNCHANGED <<vma_list, heap_top, life>>
       \/ /\ ~Suffices(totalblockcount, Tables(walk[s], Region(Page(a))) + 1)
          /\ Hang("no memory")

\* check_cow and cow: the program writes to a page it shares.  The old block
\* is not freed when its count reaches 0.
cow(s, a) ==
    LET old == pte[s][Page(a)].frame
        T   == First(free, 1)
        new == CHOOSE f \in T : TRUE
        less == [ref_count EXCEPT ![old] = IF @ < 1 THEN @ ELSE @ - 1]
    IN /\ Runs(s)
       /\ Present(s, Page(a)) /\ ~pte[s][Page(a)].rw
       /\ IsPageInVmaList(s, a)
       /\ \/ /\ get_page(1)
             /\ ref_count' = [less EXCEPT ![new] = @ + 1]
             /\ pte' = [pte EXCEPT ![s][Page(a)] = [frame |-> new, rw |-> TRUE]]
             /\ UNCHANGED <<walk, vma_list, heap_top, life, machine>>
          \/ ~Suffices(totalblockcount, 1) /\ Hang("no memory")

\* The program faults outside its VMAs.
SegmentationFault(s, a) ==
    /\ Runs(s)
    /\ ~pte[s][Page(a)].rw
    /\ ~IsPageInVmaList(s, a)
    /\ Hang("segmentation fault")

-----------------------------------------------------------------------------
(* System calls. *)

\* malloc.  Bounds: MaxVmas, and the end of the modelled address space.
k_mmap(s, length) ==
    LET endAddr == heap_top[s] + length - 1
    IN /\ Runs(s)
       /\ Len(vma_list[s]) < MaxVmas
       /\ endAddr < NPAGES * PAGE_SIZE
       /\ heap_top' = [heap_top EXCEPT ![s] = (Page(endAddr) + 1) * PAGE_SIZE]
       /\ vma_list' = [vma_list EXCEPT
              ![s] = Append(@, [vstart |-> heap_top[s], vend |-> endAddr])]
       /\ UNCHANGED <<frameVars, pte, walk, life, machine>>

\* remove_from_vma_list finds the first VMA that holds both addresses.
Found(s, i, a, b) ==
    /\ vma_list[s][i].vstart <= a /\ vma_list[s][i].vend >= b
    /\ \A j \in 1..(i - 1) : ~(vma_list[s][j].vstart <= a /\ vma_list[s][j].vend >= b)

Without(q, i) == SubSeq(q, 1, i - 1) \o SubSeq(q, i + 1, Len(q))

\* free: libc passes sizeof(*ptr), which is 1, as the length.
k_munmap(s, a) ==
    /\ Runs(s)
    /\ \/ \E i \in DOMAIN vma_list[s] :
            /\ Found(s, i, a, a + 1)
            /\ unmap_phyaddr(s, UnmapRange(vma_list[s][i]))
            /\ vma_list' = [vma_list EXCEPT ![s] = Without(@, i)]
            /\ UNCHANGED <<walk, heap_top, life, machine>>
       \/ /\ \A i \in DOMAIN vma_list[s] : ~Found(s, i, a, a + 1)
          /\ Hang("segmentation fault")

\* The first slot without a process.
NextSpace(c) == life[c] = "none" /\ \A s \in Spaces : s < c => life[s] # "none"

\* Mutant of Reaches: fork counts no references.
ReachesNothing(s, f) == 0

\* How many (VMA, page) pairs of s reach the block f: increment_childpg_ref
\* is called for each VMA, and a page may lie in two.
Reaches(s, f) ==
    Cardinality({r \in (DOMAIN vma_list[s]) \X Pages :
                    r[2] \in Covers(vma_list[s][r[1]]) /\ pte[s][r[2]].frame = f})

Shared(s) == {pg \in Pages : Present(s, pg) /\ \E i \in DOMAIN vma_list[s] :
                                                  pg \in Covers(vma_list[s][i])}

\* Mutant of Copied: the entry is copied with its flags.
CopiedWithFlags(s, pg) == pte[s][pg]

\* set_Cow: the same block, read-only.
Copied(s, pg) == [frame |-> pte[s][pg].frame, rw |-> FALSE]

\* syscall_fork: mappageTable empties the slot's PML4 and copy_vma enters
\* the parent's pages read-only.  The parent's entries stay as they are.
Fork(s, c) ==
    LET n == IF Shared(s) = {} THEN 0 ELSE UPPER + 1
        T == First(free, n)
    IN /\ Runs(s)
       /\ NextSpace(c)
       /\ \/ /\ get_page(n)
             /\ ref_count' = [f \in Frames |->
                    IF f \in T THEN 1 ELSE ref_count[f] + Reaches(s, f)]
             /\ pte' = [pte EXCEPT ![c] = [pg \in Pages |->
                    IF pg \in Shared(s) THEN Copied(s, pg) ELSE Absent]]
             /\ walk' = [walk EXCEPT ![c] = IF n = 0 THEN {} ELSE {"user"}]
             /\ vma_list' = [vma_list EXCEPT ![c] = vma_list[s]]
             /\ heap_top' = [heap_top EXCEPT ![c] = heap_top[s]]
             /\ life' = [life EXCEPT ![c] = "user"]
             /\ UNCHANGED machine
          \/ ~Suffices(totalblockcount, n) /\ Hang("no memory")

\* syscall_exec: the binary's segments and the strings of its arguments are
\* written into a new address space.  The argument VMA counts a reference
\* to each of its pages although they were counted when they were mapped.
Exec(s, c, arg) ==
    LET P == Loaded \union Covers(arg)
        n == UPPER + 1 + Cardinality(P)
        T == First(free, n)
        entries == Mapped(P, T)
        argFrames == {entries[pg].frame : pg \in Covers(arg)}
    IN /\ Runs(s)
       /\ s # 0
       /\ NextSpace(c)
       /\ \/ /\ get_page(n)
             /\ ref_count' = [f \in Frames |->
                    IF f \in argFrames THEN 2
                    ELSE IF f \in T THEN 1 ELSE ref_count[f]]
             /\ pte' = [pte EXCEPT ![c] = entries]
             /\ walk' = [walk EXCEPT ![c] = {"user"}]
             /\ vma_list' = [vma_list EXCEPT ![c] = Append(Segments, arg)]
             /\ heap_top' = [heap_top EXCEPT ![c] = HeapBase]
             /\ life' = [life EXCEPT ![s] = "waiting to die", ![c] = "user"]
             /\ UNCHANGED machine
          \/ ~Suffices(totalblockcount, n) /\ Hang("no memory")

\* Both syscall_exit and kill_proc remove every VMA and then run into
\* syscall_switch with active NULL, whose test of active->waitstate maps
\* page 0.  The slot is free once the parent has reaped it.
Exit(s) ==
    LET U == UNION {UnmapRange(vma_list[s][i]) : i \in DOMAIN vma_list[s]}
        n == Tables(walk[s], "null") + 1
        pool == free \union Freed(s, U)
        count == totalblockcount + Cardinality(Freed(s, U))
        refs == RefsAfterUnmap(s, U)
        T == IF Present(s, 0) THEN {} ELSE First(pool, n)
    IN /\ machine = "running"
       /\ s # 0
       /\ life[s] \in {"user", "waiting to die"}
       /\ \/ /\ Present(s, 0) \/ Suffices(count, n)
             /\ free' = pool \ T
             /\ totalblockcount' = count - Cardinality(T)
             /\ ref_count' = [f \in Frames |-> IF f \in T THEN refs[f] + 1
                                               ELSE refs[f]]
             /\ pte' = [pte EXCEPT ![s] =
                    [PteAfterUnmap(s, U) EXCEPT
                        ![0] = IF Present(s, 0) THEN @ ELSE Mapped({0}, T)[0]]]
             /\ walk' = [walk EXCEPT ![s] = @ \union {"null"}]
             /\ vma_list' = [vma_list EXCEPT ![s] = <<>>]
             /\ life' = [life EXCEPT ![s] = "none"]
             /\ UNCHANGED <<heap_top, machine>>
          \/ /\ ~Present(s, 0) /\ ~Suffices(count, n)
             /\ Hang("no memory")

\* syscall_kill runs in the killer's address space: the range of the victim's
\* first VMA is unmapped there, and the victim's other VMAs are not reached,
\* because the removed one's nextvma is already NULL.
Kill(s, t) ==
    /\ Runs(s)
    /\ s # 0 /\ t \notin {0, s}
    /\ life[t] # "none"
    /\ IF vma_list[t] = <<>>
         THEN UNCHANGED <<frameVars, pte, vma_list>>
         ELSE /\ unmap_phyaddr(s, UnmapRange(vma_list[t][1]))
              /\ vma_list' = [vma_list EXCEPT ![t] = Tail(@)]
    /\ life' = [life EXCEPT ![t] = "none"]
    /\ UNCHANGED <<walk, heap_top, machine>>

Hung == machine # "running" /\ UNCHANGED vars

Next ==
    \/ \E s \in Spaces, a \in Addrs :
         \/ \E mode \in {"user", "kernel"} : DemandFault(s, a, mode)
         \/ cow(s, a)
         \/ SegmentationFault(s, a)
    \/ \E s \in Spaces : \/ \E length \in Sizes : k_mmap(s, length)
                         \/ \E i \in (Len(Segments) + 1)..Len(vma_list[s]) :
                              k_munmap(s, vma_list[s][i].vstart)
                         \/ Exit(s)
    \/ \E s, c \in Spaces : \/ Fork(s, c)
                            \/ \E arg \in ArgVmas : Exec(s, c, arg)
                            \/ Kill(s, c)
    \/ Hung

Spec == Init /\ [][Next]_vars

-----------------------------------------------------------------------------

TypeOK ==
    /\ free \subseteq Frames
    /\ totalblockcount \in Nat
    /\ ref_count \in [Frames -> Nat]
    /\ pte \in [Spaces -> [Pages -> [frame : {0} \union Frames, rw : BOOLEAN]]]
    /\ walk \in [Spaces -> SUBSET {"null", "user"}]
    /\ vma_list \in [Spaces -> Seq(Vmas)]
    /\ heap_top \in [Spaces -> Nat]
    /\ life \in [Spaces -> {"none", "user", "waiting to die"}]
    /\ machine \in {"running", "no memory", "segmentation fault"}

\* The entries that hold the block f, of processes and of dead ones.
Users(f) == {u \in Spaces \X Pages : pte[u[1]][u[2]].frame = f}

\* A block is referenced at least as often as it is mapped, and a free block
\* not at all: no order of forks, writes to shared pages, frees, exits and
\* kills gives a page that a process still maps to another one.  (Counts may
\* be too high: a page of two VMAs is counted twice by fork and exec.)
NoUseAfterFree ==
    \A f \in Frames : /\ Cardinality(Users(f)) <= ref_count[f]
                      /\ f \in free => ref_count[f] = 0

\* totalblockcount is one less than the blocks on the list, through every
\* path that frees: none frees a block twice, and so get_page, which only
\* looks at the counter, never runs off the end of the list.
CountMatchesList == totalblockcount = Cardinality(free) - 1 /\ free # {}

\* A block has at most one writable mapping: what a child writes after fork
\* goes to a block of its own, however the family goes on to fork and exit.
OneWriter ==
    \A f \in Frames : \A u, w \in Users(f) :
        pte[u[1]][u[2]].rw /\ pte[w[1]][w[2]].rw => u = w

\* sys/virt_mem.c:184, "Free Physical page", on the removal of a VMA: when
\* free returns, no page of the VMA it removed is mapped any more.
FreeUnmaps ==
    [][\A s \in Spaces : \A i \in DOMAIN vma_list[s] :
          Runs(s) /\ vma_list'[s] = Without(vma_list[s], i) =>
              \A pg \in Covers(vma_list[s][i]) \cap Pages : pte'[s][pg] = Absent]_vars
=============================================================================
