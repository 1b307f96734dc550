----------------------------- MODULE VMManager -----------------------------
(***************************************************************************)
(* The virtual memory manager of Project-8: vm_manager.c.                  *)
(*                                                                         *)
(* The program is sequential: one action reads one line of the input file, *)
(* translates the address through TLB and page table, loading the page on  *)
(* a fault, and prints the byte it finds.  The bytes of a frame are named  *)
(* by the page they were loaded from.                                      *)
(***************************************************************************)
EXTENDS Integers, FiniteSets

CONSTANTS NUMBER_OF_PAGES, NUMBER_OF_FRAMES, TLB_SIZE,
          PAGE_SIZE,       \* bytes of a page, and of a frame
          UINT_MOD,        \* uint32_t counts modulo this: 2^32
          Addresses,       \* the logical addresses of the input file
          MaxAccesses,     \* bound: lines read from the input file
          Nothing          \* what a frame holds, and what is printed, at first

ASSUME SizeAssumption ==
    /\ NUMBER_OF_PAGES \in Nat \ {0} /\ NUMBER_OF_FRAMES \in Nat \ {0}
    /\ TLB_SIZE \in Nat \ {0} /\ PAGE_SIZE \in Nat \ {0}
    /\ UINT_MOD \in Nat /\ UINT_MOD > NUMBER_OF_FRAMES
    /\ Addresses \subseteq Nat
    /\ MaxAccesses \in Nat

Pages == 0 .. NUMBER_OF_PAGES - 1
Frames == 0 .. NUMBER_OF_FRAMES - 1
Entries == 0 .. TLB_SIZE - 1
Uint == 0 .. UINT_MOD - 1

ASSUME NothingAssumption == Nothing \notin Pages

VARIABLES TLB,                   \* [valid, page, frame] per entry
          memory,                \* per frame, the page whose bytes it holds
          page_table, page_valid,
          next_available_frame, next_available_TLB,
          total_cnt, page_fault_cnt, TLB_miss_cnt,
          reading,               \* FALSE once the input file is at its end
          printed,               \* the last line of output
          lines,                 \* how many lines were read
          wrapped                \* history: did next_available_frame overflow?

vars == <<TLB, memory, page_table, page_valid, next_available_frame,
          next_available_TLB, total_cnt, page_fault_cnt, TLB_miss_cnt,
          reading, printed, lines, wrapped>>

GET_PAGE_NUMBER(address) == (address \div PAGE_SIZE) % NUMBER_OF_PAGES
GET_OFFSET(address) == address % PAGE_SIZE
GET_PHYSICAL_ADDRESS(frame, offset) == frame * PAGE_SIZE + offset

Plus1(counter) == (counter + 1) % UINT_MOD

(* The byte at a physical address, and the byte of the backing storage     *)
(* that a logical address stands for.                                      *)
access_memory(mem, physical) == <<mem[physical \div PAGE_SIZE], physical % PAGE_SIZE>>
Stored(logical) == <<GET_PAGE_NUMBER(logical), GET_OFFSET(logical)>>
-----------------------------------------------------------------------------
(* check_TLB and update_TLB.                                               *)

Matches(i, page) == TLB[i].valid /\ TLB[i].page = page

LastEntryMissed(page) == \E i \in Entries \ {TLB_SIZE - 1} : Matches(i, page)
CachesPage(page) == \E i \in Entries : Matches(i, page)

CachedFrame(page) ==
    LET i == CHOOSE i \in Entries :
                 Matches(i, page) /\ \A j \in Entries : Matches(j, page) => i <= j
    IN TLB[i].frame

AdvanceWithoutModulo(page, frame) ==
    /\ TLB' = [TLB EXCEPT ![next_available_TLB] =
                   [valid |-> TRUE, page |-> page, frame |-> frame]]
    /\ next_available_TLB' = next_available_TLB + 1

update_TLB(page, frame) ==
    /\ TLB' = [TLB EXCEPT ![next_available_TLB] =
                   [valid |-> TRUE, page |-> page, frame |-> frame]]
    /\ next_available_TLB' = (next_available_TLB + 1) % TLB_SIZE
-----------------------------------------------------------------------------
(* select_victim_frame: unused frames first, then the frames in turn; the  *)
(* first valid page found in a reused frame is invalidated.                *)

Victim == IF next_available_frame < NUMBER_OF_FRAMES
          THEN next_available_frame
          ELSE next_available_frame % NUMBER_OF_FRAMES

InVictim(page) == page_valid[page] /\ page_table[page] = Victim

NothingInvalidated(page) == FALSE
Invalidated(page) ==
    /\ next_available_frame >= NUMBER_OF_FRAMES
    /\ InVictim(page)
    /\ \A other \in Pages : InVictim(other) => page <= other

PageNotRead(page) ==
    /\ page_table' = [page_table EXCEPT ![page] = Victim]
    /\ page_valid' = [q \in Pages |-> q = page \/ (page_valid[q] /\ ~Invalidated(q))]
    /\ memory' = memory
    /\ next_available_frame' = Plus1(next_available_frame)
    /\ wrapped' = (wrapped \/ next_available_frame' = 0)
    /\ page_fault_cnt' = Plus1(page_fault_cnt)

handle_page_fault(page) ==
    /\ page_table' = [page_table EXCEPT ![page] = Victim]
    /\ page_valid' = [q \in Pages |-> q = page \/ (page_valid[q] /\ ~Invalidated(q))]
    /\ memory' = [memory EXCEPT ![Victim] = page]
    /\ next_available_frame' = Plus1(next_available_frame)
    /\ wrapped' = (wrapped \/ next_available_frame' = 0)
    /\ page_fault_cnt' = Plus1(page_fault_cnt)
-----------------------------------------------------------------------------
(* translate_address and access_memory for one line of the input file.     *)

Output(logical, frame) ==
    LET physical == GET_PHYSICAL_ADDRESS(frame, GET_OFFSET(logical))
    IN printed' = [logical |-> logical, physical |-> physical,
                   value |-> access_memory(memory', physical)]

ReadLine ==
    /\ reading
    /\ lines < MaxAccesses
    /\ lines' = lines + 1
    /\ total_cnt' = Plus1(total_cnt)
    /\ UNCHANGED reading

Hit(logical) ==
    LET page == GET_PAGE_NUMBER(logical) IN
    /\ ReadLine
    /\ CachesPage(page)
    /\ UNCHANGED <<TLB, memory, page_table, page_valid, next_available_frame,
                   next_available_TLB, page_fault_cnt, TLB_miss_cnt, wrapped>>
    /\ Output(logical, CachedFrame(page))

(* A TLB miss; on a page fault the page is loaded before it is used.       *)
Miss(logical) ==
    LET page == GET_PAGE_NUMBER(logical) IN
    /\ ReadLine
    /\ ~CachesPage(page)
    /\ TLB_miss_cnt' = Plus1(TLB_miss_cnt)
    /\ IF page_valid[page]
       THEN UNCHANGED <<memory, page_table, page_valid, next_available_frame,
                        page_fault_cnt, wrapped>>
       ELSE handle_page_fault(page)
    /\ update_TLB(page, page_table'[page])
    /\ Output(logical, page_table'[page])

(* fgets finds no further line: the statistics are shown, main returns.    *)
EndOfInput ==
    /\ reading
    /\ reading' = FALSE
    /\ UNCHANGED <<TLB, memory, page_table, page_valid, next_available_frame,
                   next_available_TLB, total_cnt, page_fault_cnt, TLB_miss_cnt,
                   printed, lines, wrapped>>
-----------------------------------------------------------------------------
Init ==
    /\ TLB = [i \in Entries |-> [valid |-> FALSE, page |-> 0, frame |-> 0]]
    /\ memory = [f \in Frames |-> Nothing]
    /\ page_table = [p \in Pages |-> 0]
    /\ page_valid = [p \in Pages |-> FALSE]
    /\ next_available_frame = 0 /\ next_available_TLB = 0
    /\ total_cnt = 0 /\ page_fault_cnt = 0 /\ TLB_miss_cnt = 0
    /\ reading = TRUE
    /\ printed = Nothing
    /\ lines = 0
    /\ wrapped = FALSE

Next == (\E logical \in Addresses : Hit(logical) \/ Miss(logical)) \/ EndOfInput

Spec == Init /\ [][Next]_vars
-----------------------------------------------------------------------------
(* Properties.                                                             *)

TypeOK ==
    /\ TLB \in [Entries -> [valid : BOOLEAN, page : Pages, frame : Frames]]
    /\ memory \in [Frames -> Pages \cup {Nothing}]
    /\ page_table \in [Pages -> Frames]
    /\ page_valid \in [Pages -> BOOLEAN]
    /\ next_available_frame \in Uint /\ next_available_TLB \in Entries
    /\ total_cnt \in Uint /\ page_fault_cnt \in Uint /\ TLB_miss_cnt \in Uint
    /\ reading \in BOOLEAN /\ wrapped \in BOOLEAN
    /\ lines \in Nat

(* vm_manager.c:44: the page whose frame is reused is invalidated, so that *)
(* a valid page has a frame of its own and finds its own bytes in it.      *)
(* Until select_victim_frame's counter overflows, that is: it then hands   *)
(* out frames 0, 1, ... a second time without invalidating anything.       *)
ValidPageHasItsFrame ==
    ~wrapped =>
        \A p \in Pages : page_valid[p] =>
            /\ memory[page_table[p]] = p
            /\ \A q \in Pages : page_valid[q] /\ page_table[q] = page_table[p] => q = p

(* check_TLB takes the first entry it finds: there is never a second one   *)
(* for the page, and for a page that is valid the entry agrees with the    *)
(* page table, although an eviction leaves the TLB as it is.               *)
TLBAgreesWithPageTable ==
    \A i \in Entries : TLB[i].valid =>
        /\ \A j \in Entries : TLB[j].valid /\ TLB[j].page = TLB[i].page => j = i
        /\ page_valid[TLB[i].page] => page_table[TLB[i].page] = TLB[i].frame

Correct(line) == line.value = Stored(line.logical)

(* The byte printed is the one stored at the logical address, unless the   *)
(* page was evicted before and the TLB still had an entry for it.  So all  *)
(* output is right as long as no frame was reused, and every page fault    *)
(* and every miss on a resident page yields the right byte.                *)
WrongByteOnlyFromEvictedPage ==
    ~wrapped /\ printed # Nothing /\ ~Correct(printed) =>
        /\ ~page_valid[GET_PAGE_NUMBER(printed.logical)]
        /\ page_fault_cnt > NUMBER_OF_FRAMES

(* README.md:7: each logical address is translated to its corresponding    *)
(* physical address, and the byte stored there is output.                  *)
TranslationCorrect == printed # Nothing => Correct(printed)
=============================================================================
