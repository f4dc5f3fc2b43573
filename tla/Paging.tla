------------------------------- MODULE Paging -------------------------------
(***************************************************************************)
(* Page tables (kernel/mem/paging): the tree of tables the kernel and each *)
(* process maps pages in, made table by table from physical frames, and    *)
(* the upper half of the top table every process copies from the kernel.   *)
(*                                                                         *)
(* A page is the sequence of its indices, one per level; the top index is  *)
(* kernel half or user half.  An entry leads to a frame, which is the next *)
(* table or, at the last level, the page itself; its user bit has to be    *)
(* set on every level for programs to reach the page.                      *)
(***************************************************************************)
EXTENDS Integers, Sequences, TLC

CONSTANTS
    Levels,      \* levels of the tree (4)
    Indices,     \* indices below the top (0..511)
    KernelTop, UserTop,  \* indices of the two halves of a top table
    TableFrames, \* frames physmem_alloc_to hands out here
    DataFrames,  \* frames that get mapped
    MaxSpaces    \* bound: page tables of processes

(* What is taken for granted of the constants: no frame is frame 0, which   *)
(* in an entry says that it leads nowhere.                                  *)
ASSUME PagingAssumption ==
    /\ Levels \in Nat /\ Levels >= 2
    /\ KernelTop \cap UserTop = {} /\ TableFrames \cap DataFrames = {}
    /\ TableFrames # {} /\ 0 \notin TableFrames \cup DataFrames

VARIABLES
    entries,   \* entries[t][i]: entry i of the table in frame t
    spaces,    \* top tables: first kernel_pml4, then one per process
    asked,     \* asked[s][page]: what was asked for page last, in space s
    inherited, \* inherited[s]: kernel pages that were mapped when s was made
    pagePanic  \* a table could not be allocated

pagVars == <<entries, spaces, asked, inherited, pagePanic>>

NoPage == [to |-> 0, user |-> FALSE]
TopIndices == KernelTop \cup UserTop
AllIndices == TopIndices \cup Indices
VirtPages == {page \in [1..Levels -> AllIndices] :
                page[1] \in TopIndices /\ \A k \in 2..Levels : page[k] \in Indices}
IsKernel(page) == page[1] \in KernelTop
FreeTable(tables) == CHOOSE f \in TableFrames : f \notin DOMAIN tables
NothingAsked == [page \in VirtPages |-> NoPage]

(* A table just allocated and cleared.                                      *)
FreshTable == [i \in AllIndices |-> NoPage]

(* The tables with one more, in frame f.                                    *)
WithTable(tables, f, table) == [t \in DOMAIN tables \cup {f} |-> IF t = f THEN table ELSE tables[t]]

(* paging_init takes over the top table that is loaded.                     *)
PagInit ==
    /\ entries = [t \in {CHOOSE f \in TableFrames : TRUE} |-> FreshTable]
    /\ spaces = <<CHOOSE f \in TableFrames : TRUE>>
    /\ asked = <<NothingAsked>>
    /\ inherited = << {} >>
    /\ pagePanic = FALSE

-----------------------------------------------------------------------------
(* One level of paging_map_page: a missing table is allocated and linked,   *)
(* an entry that is there gets the user bit.  w is the walk so far: the     *)
(* tables and the one reached, 0 once an allocation has failed.             *)
Linked(w, i, user) ==
    LET f == FreeTable(w.tables)
    IN  [tables |-> WithTable([w.tables EXCEPT ![w.at][i] = [to |-> f, user |-> user]], f, FreshTable),
         at |-> f]

FaultLevel(w, i, user) ==       \* the table keeps the user bit of its first page
    CASE w.at = 0 -> w
      [] w.at # 0 /\ w.tables[w.at][i].to # 0 -> [w EXCEPT !.at = w.tables[w.at][i].to]
      [] w.at # 0 /\ w.tables[w.at][i].to = 0 ->
           IF TableFrames \subseteq DOMAIN w.tables THEN [w EXCEPT !.at = 0] ELSE Linked(w, i, user)

Level(w, i, user) ==
    CASE w.at = 0 -> w
      [] w.at # 0 /\ w.tables[w.at][i].to # 0 ->
           [tables |-> [w.tables EXCEPT ![w.at][i].user = @ \/ user], at |-> w.tables[w.at][i].to]
      [] w.at # 0 /\ w.tables[w.at][i].to = 0 ->
           IF TableFrames \subseteq DOMAIN w.tables THEN [w EXCEPT !.at = 0] ELSE Linked(w, i, user)

(* The walk to the last table, one level after the other.                   *)
Walked(s, page, user) ==
    LET made[k \in 0..Levels-1] ==
            IF k = 0 THEN [tables |-> entries, at |-> spaces[s]] ELSE Level(made[k-1], page[k], user)
    IN  made[Levels-1]

(* paging_map_page for the kernel (s = 1) and paging_map_page_proc for a    *)
(* process: the walk, then the page's own entry in the last table.          *)
paging_map_page(s, page, frame, user) ==
    LET w == Walked(s, page, user)
    IN  IF w.at = 0
        THEN /\ pagePanic' = TRUE
             /\ entries' = w.tables
             /\ UNCHANGED <<spaces, asked, inherited>>
        ELSE /\ entries' = [w.tables EXCEPT ![w.at][page[Levels]] = [to |-> frame, user |-> user]]
             /\ asked' = [asked EXCEPT ![s][page] = [to |-> frame, user |-> user]]
             /\ UNCHANGED <<spaces, inherited, pagePanic>>

(* is_page_mapped: what the processor finds for a page after k levels; a    *)
(* page is the program's only if every entry on the way says so.            *)
Found(s, page, k) ==
    LET way[j \in 0..Levels] ==
            IF j = 0 THEN [to |-> spaces[s], user |-> TRUE]
            ELSE IF way[j-1].to = 0 THEN NoPage
            ELSE [to   |-> entries[way[j-1].to][page[j]].to,
                  user |-> way[j-1].user /\ entries[way[j-1].to][page[j]].user]
    IN  way[k]

(* paging_unmap_page clears the page's entry in the kernel's tables.        *)
TableOf(s, page) == Found(s, page, Levels-1).to

paging_unmap_page(page) ==
    /\ TableOf(1, page) # 0
    /\ entries' = [entries EXCEPT ![TableOf(1, page)][page[Levels]] = NoPage]
    /\ asked' = [asked EXCEPT ![1][page] = NoPage]
    /\ UNCHANGED <<spaces, inherited, pagePanic>>

(* paging_create_proc_pml4: the kernel's entries are copied, not their      *)
(* tables, so later pages below them appear in the process too.             *)
FaultTopTable == FreshTable
TopTable == [i \in AllIndices |-> IF i \in KernelTop THEN entries[spaces[1]][i] ELSE NoPage]

paging_create_proc_pml4 ==
    /\ Len(spaces) <= MaxSpaces
    /\ IF TableFrames \subseteq DOMAIN entries
       THEN pagePanic' = TRUE /\ UNCHANGED <<entries, spaces, asked, inherited>>
       ELSE LET f == FreeTable(entries)
            IN  /\ entries' = WithTable(entries, f, TopTable)
                /\ spaces' = Append(spaces, f)
                /\ asked' = Append(asked, NothingAsked)
                /\ inherited' = Append(inherited, {page \in VirtPages : asked[1][page].to # 0})
                /\ UNCHANGED pagePanic

(* The kernel maps in its own half, a process in its own (ulime.c, shm.c).  *)
PagNext ==
    /\ ~pagePanic
    /\ \/ \E s \in 1..Len(spaces), page \in VirtPages, f \in DataFrames, user \in BOOLEAN :
             /\ IsKernel(page) <=> s = 1
             /\ paging_map_page(s, page, f, user)
       \/ \E page \in VirtPages : IsKernel(page) /\ paging_unmap_page(page)
       \/ paging_create_proc_pml4

PagSpec == PagInit /\ [][PagNext]_pagVars

-----------------------------------------------------------------------------
(* The tables answer what was asked for: a page mapped last to a frame is   *)
(* found at that frame, and programs reach it exactly if it was mapped for  *)
(* them, whatever was mapped below the same tables before; a page that is   *)
(* not mapped is not found.                                                 *)
TablesAnswer ==
    \A s \in 1..Len(spaces) : \A page \in VirtPages :
        (IsKernel(page) <=> s = 1) => Found(s, page, Levels) = asked[s][page]

(* A kernel page that was mapped when a process was made is found in the    *)
(* process where the kernel finds it, also after it was mapped anew: kernel *)
(* code runs on the tables of whichever process was interrupted.            *)
KernelHalfFollows ==
    \A s \in 2..Len(spaces) : \A page \in inherited[s] :
        Found(s, page, Levels).to = Found(1, page, Levels).to

(* The tables of the kernel and of every process say what was asked for.    *)
TablesSound == TablesAnswer /\ KernelHalfFollows

=============================================================================
