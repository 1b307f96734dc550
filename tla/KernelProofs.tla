---------------------------- MODULE KernelProofs ----------------------------
(***************************************************************************)
(* Theorems about three parts of a kernel: VMManager, for any number of    *)
(* pages, frames and TLB entries, any page size and any input file;        *)
(* ProcFile, for any readers, tasks and lengths of time; and Scheduler,    *)
(* for any tasks with names of their own and any quantum.                  *)
(***************************************************************************)
EXTENDS VMManager, ProcFile, Scheduler, Counting

(***************************************************************************)
(* The virtual memory manager.                                             *)
(*                                                                         *)
(* Two facts make the bookkeeping right.  Until the frame counter wraps    *)
(* around, the frames not handed out yet lie above all frames in use       *)
(* (FreshAbove), so the first round of faults needs no eviction; and an    *)
(* entry of the TLB whose page is invalid stems from an eviction           *)
(* (StaleOnlyAfterEviction), which the counter of faults betrays.          *)
(***************************************************************************)
(* The frames in use are below the next one to be handed out.              *)
FreshAbove ==
    ~wrapped => \A p \in Pages :
        page_valid[p] /\ next_available_frame < NUMBER_OF_FRAMES =>
            page_table[p] < next_available_frame

(* Every frame handed out is counted as a fault.                           *)
FaultsCounted == page_fault_cnt = next_available_frame

(* A TLB entry for a page that is no longer valid: a frame was reused.     *)
StaleOnlyAfterEviction ==
    ~wrapped => \A i \in Entries :
        TLB[i].valid /\ ~page_valid[TLB[i].page] => next_available_frame > NUMBER_OF_FRAMES

IInv == /\ TypeOK /\ FreshAbove /\ FaultsCounted /\ StaleOnlyAfterEviction
        /\ ValidPageHasItsFrame /\ TLBAgreesWithPageTable
        /\ WrongByteOnlyFromEvictedPage
-----------------------------------------------------------------------------
(* The frame and the offset are found again in the physical address.       *)
LEMMA PhysicalAddress ==
    ASSUME NEW f \in Nat, NEW P \in Nat \ {0}, NEW o \in 0 .. P - 1
    PROVE  (f * P + o) \div P = f /\ (f * P + o) % P = o
  OBVIOUS

(* A logical address has a page and an offset.                             *)
LEMMA AddressParts ==
    ASSUME NEW logical \in Addresses
    PROVE  /\ GET_PAGE_NUMBER(logical) \in Pages
           /\ GET_OFFSET(logical) \in 0 .. PAGE_SIZE - 1
  BY SizeAssumption DEF GET_PAGE_NUMBER, GET_OFFSET, Pages

(* The victim is a frame; as long as there are unused ones, the next one.  *)
LEMMA VictimIsFrame ==
    ASSUME TypeOK
    PROVE  Victim \in Frames
<1>1. next_available_frame \in Nat
  BY SizeAssumption DEF TypeOK, Uint
<1>2. next_available_frame % NUMBER_OF_FRAMES \in 0 .. NUMBER_OF_FRAMES - 1
  BY <1>1, SizeAssumption
<1> QED BY <1>1, <1>2, SizeAssumption DEF Victim, Frames

(* The counter either advances or wraps around, which wrapped records.     *)
LEMMA CounterAdvances ==
    ASSUME TypeOK, NEW page \in Pages, handle_page_fault(page), ~wrapped'
    PROVE  ~wrapped /\ next_available_frame' = next_available_frame + 1
<1>1. next_available_frame' # 0 /\ ~wrapped
  BY DEF handle_page_fault
<1>2. CASE next_available_frame = UINT_MOD - 1
  BY <1>1, <1>2, SizeAssumption DEF handle_page_fault, Plus1
<1>3. CASE next_available_frame # UINT_MOD - 1
  <2>1. next_available_frame + 1 \in 0 .. UINT_MOD - 1 /\ UINT_MOD \in Nat \ {0}
    BY <1>3, SizeAssumption DEF TypeOK, Uint
  <2>2. (next_available_frame + 1) % UINT_MOD = next_available_frame + 1
    BY <2>1
  <2> QED BY <1>1, <2>2 DEF handle_page_fault, Plus1
<1> QED BY <1>2, <1>3

(* After a page fault the pages that are still valid have other frames.    *)
LEMMA VictimLeft ==
    ASSUME IInv, NEW page \in Pages, handle_page_fault(page), ~wrapped',
           NEW q \in Pages, page_valid'[q], q # page
    PROVE  page_valid[q] /\ page_table'[q] = page_table[q] /\ page_table[q] # Victim
<1>1. page_valid[q] /\ ~Invalidated(q) /\ page_table'[q] = page_table[q]
  BY DEF handle_page_fault, IInv, TypeOK
<1>2. ~wrapped
  BY CounterAdvances DEF IInv
<1>3. CASE next_available_frame < NUMBER_OF_FRAMES
  BY <1>1, <1>2, <1>3, SizeAssumption DEF IInv, TypeOK, FreshAbove, Victim, Frames, Uint
<1>4. CASE next_available_frame >= NUMBER_OF_FRAMES
  <2>1. SUFFICES ASSUME page_table[q] = Victim PROVE FALSE
    BY <1>1
  <2>2. \A other \in Pages : InVictim(other) => other = q
    BY <1>1, <1>2, <2>1 DEF IInv, ValidPageHasItsFrame, InVictim
  <2>3. InVictim(q) /\ q \in Int
    BY <1>1, <2>1 DEF InVictim, Pages
  <2>4. \A other \in Pages : InVictim(other) => q <= other
    BY <2>2, <2>3
  <2>5. Invalidated(q)
    BY ONLY <1>4, <2>3, <2>4 DEF Invalidated
  <2> QED BY <1>1, <2>5
<1> QED BY <1>3, <1>4, SizeAssumption DEF IInv, TypeOK, Uint

(* A page fault keeps the page table and the memory in order.              *)
LEMMA FaultKeepsFrames ==
    ASSUME IInv, NEW page \in Pages, handle_page_fault(page)
    PROVE  FreshAbove' /\ ValidPageHasItsFrame' /\ FaultsCounted'
<1> USE DEF IInv
<1>1. Victim \in Frames
  BY VictimIsFrame
<1>2. /\ page_valid'[page] /\ page_table'[page] = Victim /\ memory'[Victim] = page
      /\ \A f \in Frames : f # Victim => memory'[f] = memory[f]
  BY <1>1 DEF handle_page_fault, TypeOK
<1>3. FaultsCounted'
  BY DEF FaultsCounted, handle_page_fault
<1>4. FreshAbove'
  <2>1. SUFFICES ASSUME ~wrapped', NEW q \in Pages, page_valid'[q],
                        next_available_frame' < NUMBER_OF_FRAMES
                 PROVE  page_table'[q] < next_available_frame'
    BY DEF FreshAbove
  <2>2. next_available_frame' = next_available_frame + 1 /\ ~wrapped
    BY <2>1, CounterAdvances
  <2>3. next_available_frame < NUMBER_OF_FRAMES /\ next_available_frame \in Nat
    BY <2>1, <2>2, SizeAssumption DEF TypeOK, Uint
  <2>4. CASE q = page
    BY <1>2, <2>2, <2>3, <2>4, SizeAssumption DEF Victim
  <2>5. CASE q # page
    <3>1. page_valid[q] /\ page_table'[q] = page_table[q] /\ page_table[q] \in Int
      BY <2>1, <2>5, VictimLeft DEF TypeOK, Frames
    <3>2. page_table[q] < next_available_frame
      BY <3>1, <2>2, <2>3 DEF FreshAbove
    <3> QED BY <3>1, <3>2, <2>2, <2>3
  <2> QED BY <2>4, <2>5
<1>5. ValidPageHasItsFrame'
  <2>1. SUFFICES ASSUME ~wrapped', NEW p \in Pages, page_valid'[p]
                 PROVE  /\ memory'[page_table'[p]] = p
                        /\ \A q \in Pages : page_valid'[q] /\ page_table'[q] = page_table'[p]
                                                => q = p
    BY DEF ValidPageHasItsFrame
  <2>2. ~wrapped
    BY <2>1, CounterAdvances
  <2>3. memory'[page_table'[p]] = p
    <3>1. CASE p = page
      BY <3>1, <1>2
    <3>2. CASE p # page
      <4>1. page_valid[p] /\ page_table'[p] = page_table[p] /\ page_table[p] # Victim
        BY <2>1, <3>2, VictimLeft
      <4>2. page_table[p] \in Frames
        BY DEF TypeOK
      <4> QED BY <1>2, <2>2, <4>1, <4>2 DEF ValidPageHasItsFrame
    <3> QED BY <3>1, <3>2
  <2>4. ASSUME NEW q \in Pages, page_valid'[q], page_table'[q] = page_table'[p] PROVE q = p
    <3>1. CASE p = page
      BY <2>1, <2>4, <3>1, <1>2, VictimLeft
    <3>2. CASE q = page
      BY <2>1, <2>4, <3>2, <1>2, VictimLeft
    <3>3. CASE p # page /\ q # page
      <4>1. page_valid[p] /\ page_table'[p] = page_table[p]
        BY <2>1, <3>3, VictimLeft
      <4>2. page_valid[q] /\ page_table'[q] = page_table[q]
        BY <2>1, <2>4, <3>3, VictimLeft
      <4> QED BY <2>2, <2>4, <4>1, <4>2 DEF ValidPageHasItsFrame
    <3> QED BY <3>1, <3>2, <3>3
  <2> QED BY <2>3, <2>4
<1> QED BY <1>3, <1>4, <1>5

(* What a line of output says when its address is translated to frame.     *)
LEMMA OutputValue ==
    ASSUME NEW logical \in Addresses, NEW frame \in Frames, Output(logical, frame)
    PROVE  /\ printed'.logical = logical
           /\ printed'.value = <<memory'[frame], GET_OFFSET(logical)>>
<1>1. /\ frame \in Nat /\ PAGE_SIZE \in Nat \ {0}
      /\ GET_OFFSET(logical) \in 0 .. PAGE_SIZE - 1
  BY AddressParts, SizeAssumption DEF Frames
<1>2. /\ GET_PHYSICAL_ADDRESS(frame, GET_OFFSET(logical)) \div PAGE_SIZE = frame
      /\ GET_PHYSICAL_ADDRESS(frame, GET_OFFSET(logical)) % PAGE_SIZE = GET_OFFSET(logical)
  BY <1>1, PhysicalAddress DEF GET_PHYSICAL_ADDRESS
<1> QED BY <1>2 DEF Output, access_memory
-----------------------------------------------------------------------------
(* Every line of input preserves the inductive invariant.                  *)
THEOREM InductiveStep == IInv /\ [Next]_vars => IInv'
<1> SUFFICES ASSUME IInv, [Next]_vars PROVE IInv'
  OBVIOUS
<1> USE DEF IInv
<1>1. ASSUME NEW logical \in Addresses, Hit(logical) PROVE IInv'
  <2> DEFINE page == GET_PAGE_NUMBER(logical)
  <2>1. page \in Pages
    BY AddressParts
  <2>2. UNCHANGED <<TLB, memory, page_table, page_valid, next_available_frame,
                    next_available_TLB, page_fault_cnt, TLB_miss_cnt, wrapped>>
    BY <1>1 DEF Hit
  <2>3. PICK i \in Entries : Matches(i, page) /\ CachedFrame(page) = TLB[i].frame
    <3>1. PICK i \in Entries : Matches(i, page)
      BY <1>1 DEF Hit, CachesPage
    <3>2. \A j \in Entries : Matches(j, page) => j = i
      BY <3>1 DEF TLBAgreesWithPageTable, Matches
    <3>3. i \in Int
      BY DEF Entries
    <3> DEFINE first == CHOOSE k \in Entries :
                   Matches(k, page) /\ \A j \in Entries : Matches(j, page) => k <= j
    <3>4. \E k \in Entries : Matches(k, page) /\ \A j \in Entries : Matches(j, page) => k <= j
      BY <3>1, <3>2, <3>3
    <3>5. first \in Entries /\ Matches(first, page)
      BY <3>4, Zenon
    <3>6. first = i
      BY <3>2, <3>5
    <3> QED BY <3>1, <3>6 DEF CachedFrame
  <2>4. CachedFrame(page) \in Frames
    BY <2>3 DEF TypeOK
  <2>5. /\ printed'.logical = logical
        /\ printed'.value = <<memory[CachedFrame(page)], GET_OFFSET(logical)>>
    BY <1>1, <2>2, <2>4, OutputValue DEF Hit
  <2>6. TypeOK'
    BY <1>1, <2>2, SizeAssumption DEF Hit, ReadLine, TypeOK, Plus1, Uint
  <2>7. FreshAbove' /\ FaultsCounted' /\ ValidPageHasItsFrame'
    BY <2>2 DEF FreshAbove, FaultsCounted, ValidPageHasItsFrame
  <2>8. StaleOnlyAfterEviction' /\ TLBAgreesWithPageTable'
    BY <2>2 DEF StaleOnlyAfterEviction, TLBAgreesWithPageTable
  <2>9. WrongByteOnlyFromEvictedPage'
    <3>1. SUFFICES ASSUME ~wrapped', ~Correct(printed)'
                   PROVE  ~page_valid[page] /\ page_fault_cnt > NUMBER_OF_FRAMES
      BY <2>2, <2>5 DEF WrongByteOnlyFromEvictedPage
    <3>2. ~page_valid[page]
      <4>1. SUFFICES ASSUME page_valid[page] PROVE FALSE
        OBVIOUS
      <4>2. page_table[page] = CachedFrame(page)
        BY <2>3, <4>1 DEF TLBAgreesWithPageTable, Matches
      <4>3. memory[page_table[page]] = page
        BY <2>1, <2>2, <3>1, <4>1 DEF ValidPageHasItsFrame
      <4> QED BY <2>5, <3>1, <4>2, <4>3 DEF Correct, Stored
    <3>3. page_fault_cnt > NUMBER_OF_FRAMES
      BY <2>2, <2>3, <3>1, <3>2 DEF StaleOnlyAfterEviction, FaultsCounted, Matches
    <3> QED BY <3>2, <3>3
  <2> QED BY <2>6, <2>7, <2>8, <2>9
<1>2. ASSUME NEW logical \in Addresses, Miss(logical) PROVE IInv'
  <2> DEFINE page == GET_PAGE_NUMBER(logical)
  <2>1. page \in Pages
    BY AddressParts
  <2>2. /\ \A i \in Entries : ~Matches(i, page)
        /\ update_TLB(page, page_table'[page])
        /\ Output(logical, page_table'[page])
    BY <1>2 DEF Miss, CachesPage
  <2>3. /\ FreshAbove' /\ ValidPageHasItsFrame' /\ FaultsCounted'
        /\ page_table'[page] \in Frames /\ page_valid'[page]
        /\ \A q \in Pages : page_valid'[q] /\ q # page =>
               page_valid[q] /\ page_table'[q] = page_table[q]
        /\ ~wrapped' => ~wrapped /\ next_available_frame' >= next_available_frame
        /\ ~wrapped' => \A q \in Pages : page_valid[q] /\ ~page_valid'[q] =>
               next_available_frame' > NUMBER_OF_FRAMES
        /\ /\ page_table' \in [Pages -> Frames] /\ page_valid' \in [Pages -> BOOLEAN]
           /\ memory' \in [Frames -> Pages \cup {Nothing}]
           /\ next_available_frame' \in Uint /\ page_fault_cnt' \in Uint
           /\ wrapped' \in BOOLEAN
    <3>1. CASE page_valid[page]
      <4>1. UNCHANGED <<memory, page_table, page_valid, next_available_frame,
                        page_fault_cnt, wrapped>>
        BY <1>2, <3>1 DEF Miss
      <4>2. FreshAbove' /\ ValidPageHasItsFrame' /\ FaultsCounted'
        BY <4>1 DEF FreshAbove, ValidPageHasItsFrame, FaultsCounted
      <4> QED BY <2>1, <3>1, <4>1, <4>2 DEF TypeOK, Uint
    <3>2. CASE ~page_valid[page]
      <4>1. handle_page_fault(page)
        BY <1>2, <3>2 DEF Miss
      <4>2. Victim \in Frames
        BY VictimIsFrame
      <4>3. FreshAbove' /\ ValidPageHasItsFrame' /\ FaultsCounted'
        BY <2>1, <4>1, FaultKeepsFrames
      <4>4. /\ page_table'[page] \in Frames /\ page_valid'[page]
            /\ \A q \in Pages : page_valid'[q] /\ q # page =>
                   page_valid[q] /\ page_table'[q] = page_table[q]
        BY <2>1, <4>1, <4>2 DEF handle_page_fault, TypeOK
      <4>5. /\ page_table' \in [Pages -> Frames] /\ page_valid' \in [Pages -> BOOLEAN]
            /\ memory' \in [Frames -> Pages \cup {Nothing}]
        BY <2>1, <4>1, <4>2 DEF handle_page_fault, TypeOK
      <4>6. /\ next_available_frame' \in Uint /\ page_fault_cnt' \in Uint
            /\ wrapped' \in BOOLEAN
        BY <4>1, SizeAssumption DEF handle_page_fault, TypeOK, Plus1, Uint
      <4>7. ~wrapped' => ~wrapped /\ next_available_frame' = next_available_frame + 1
        BY <2>1, <4>1, CounterAdvances
      <4>8. next_available_frame \in Nat /\ NUMBER_OF_FRAMES \in Nat
        BY SizeAssumption DEF TypeOK, Uint
      <4>9. \A q \in Pages : page_valid[q] /\ ~page_valid'[q] =>
                next_available_frame >= NUMBER_OF_FRAMES
        BY <4>1 DEF handle_page_fault, Invalidated
      <4> QED BY <4>3, <4>4, <4>5, <4>6, <4>7, <4>8, <4>9
    <3> QED BY <3>1, <3>2
  <2>4. /\ next_available_TLB \in Entries /\ next_available_TLB' \in Entries
        /\ TLB' = [TLB EXCEPT ![next_available_TLB] =
                       [valid |-> TRUE, page |-> page, frame |-> page_table'[page]]]
    BY <2>2, SizeAssumption DEF update_TLB, TypeOK, Entries
  <2>5. TypeOK'
    <3>1. TLB' \in [Entries -> [valid : BOOLEAN, page : Pages, frame : Frames]]
      BY <2>1, <2>3, <2>4 DEF TypeOK
    <3>2. /\ lines' \in Nat /\ reading' \in BOOLEAN
          /\ total_cnt' \in Uint /\ TLB_miss_cnt' \in Uint
      BY <1>2, SizeAssumption DEF Miss, ReadLine, TypeOK, Plus1, Uint
    <3> QED BY <2>3, <2>4, <3>1, <3>2 DEF TypeOK
  <2>6. \A i \in Entries : /\ TLB'[i].valid /\ TLB'[i].page = page => i = next_available_TLB
                           /\ i # next_available_TLB => TLB'[i] = TLB[i]
    BY <2>2, <2>4 DEF Matches, TypeOK
  <2>7. TLB'[next_available_TLB].page = page
        /\ TLB'[next_available_TLB].frame = page_table'[page]
    BY <2>4 DEF TypeOK
  <2>8. StaleOnlyAfterEviction'
    <3>1. SUFFICES ASSUME ~wrapped', NEW i \in Entries, TLB'[i].valid,
                          ~page_valid'[TLB'[i].page]
                   PROVE  next_available_frame' > NUMBER_OF_FRAMES
      BY DEF StaleOnlyAfterEviction
    <3>2. i # next_available_TLB /\ TLB'[i] = TLB[i] /\ TLB[i].page \in Pages
      BY <2>3, <2>6, <2>7, <3>1 DEF TypeOK
    <3>3. CASE page_valid[TLB[i].page]
      BY <2>3, <3>1, <3>2, <3>3
    <3>4. CASE ~page_valid[TLB[i].page]
      <4>1. next_available_frame > NUMBER_OF_FRAMES
        BY <2>3, <3>1, <3>2, <3>4 DEF StaleOnlyAfterEviction
      <4> QED BY <2>3, <3>1, <4>1, SizeAssumption DEF TypeOK, Uint
    <3> QED BY <3>3, <3>4
  <2>9. TLBAgreesWithPageTable'
    <3>1. SUFFICES ASSUME NEW i \in Entries, TLB'[i].valid
                   PROVE  /\ \A j \in Entries : TLB'[j].valid /\ TLB'[j].page = TLB'[i].page
                                                    => j = i
                          /\ page_valid'[TLB'[i].page] =>
                                 page_table'[TLB'[i].page] = TLB'[i].frame
      BY DEF TLBAgreesWithPageTable
    <3>2. CASE i = next_available_TLB
      BY <2>6, <2>7, <3>2
    <3>3. CASE i # next_available_TLB
      <4>1. TLB'[i] = TLB[i] /\ TLB[i].page \in Pages /\ TLB[i].page # page
        BY <2>6, <3>1, <3>3 DEF TypeOK
      <4>2. \A j \in Entries : TLB'[j].valid /\ TLB'[j].page = TLB'[i].page => j = i
        BY <2>6, <2>7, <3>1, <4>1 DEF TLBAgreesWithPageTable
      <4>3. page_valid'[TLB'[i].page] => page_table'[TLB'[i].page] = TLB'[i].frame
        BY <2>3, <3>1, <4>1 DEF TLBAgreesWithPageTable
      <4> QED BY <4>2, <4>3
    <3> QED BY <3>2, <3>3
  <2>10. WrongByteOnlyFromEvictedPage'
    <3>1. /\ printed'.logical = logical
          /\ printed'.value = <<memory'[page_table'[page]], GET_OFFSET(logical)>>
      BY <2>2, <2>3, OutputValue
    <3>2. ~wrapped' => memory'[page_table'[page]] = page
      BY <2>1, <2>3 DEF ValidPageHasItsFrame
    <3> QED BY <3>1, <3>2 DEF WrongByteOnlyFromEvictedPage, Correct, Stored
  <2> QED BY <2>3, <2>5, <2>8, <2>9, <2>10
<1>3. ASSUME EndOfInput PROVE IInv'
  <2>1. TypeOK'
    BY <1>3 DEF EndOfInput, TypeOK
  <2>2. FreshAbove' /\ FaultsCounted' /\ ValidPageHasItsFrame'
    BY <1>3 DEF EndOfInput, FreshAbove, FaultsCounted, ValidPageHasItsFrame
  <2>3. StaleOnlyAfterEviction' /\ TLBAgreesWithPageTable'
    BY <1>3 DEF EndOfInput, StaleOnlyAfterEviction, TLBAgreesWithPageTable
  <2>4. WrongByteOnlyFromEvictedPage'
    BY <1>3 DEF EndOfInput, WrongByteOnlyFromEvictedPage, Correct
  <2> QED BY <2>1, <2>2, <2>3, <2>4
<1>4. ASSUME UNCHANGED vars PROVE IInv'
  <2>1. TypeOK'
    BY <1>4 DEF vars, TypeOK
  <2>2. FreshAbove' /\ FaultsCounted' /\ ValidPageHasItsFrame'
    BY <1>4 DEF vars, FreshAbove, FaultsCounted, ValidPageHasItsFrame
  <2>3. StaleOnlyAfterEviction' /\ TLBAgreesWithPageTable'
    BY <1>4 DEF vars, StaleOnlyAfterEviction, TLBAgreesWithPageTable
  <2>4. WrongByteOnlyFromEvictedPage'
    BY <1>4 DEF vars, WrongByteOnlyFromEvictedPage, Correct
  <2> QED BY <2>1, <2>2, <2>3, <2>4
<1> QED BY <1>1, <1>2, <1>3, <1>4 DEF Next

(* The program starts with nothing loaded and an empty TLB.                *)
THEOREM InitialState == Init => IInv
<1> SUFFICES ASSUME Init PROVE IInv
  OBVIOUS
<1>1. TypeOK
  <2>1. 0 \in Pages /\ 0 \in Frames /\ 0 \in Entries /\ 0 \in Uint
    BY SizeAssumption DEF Pages, Frames, Entries, Uint
  <2> QED BY <2>1 DEF Init, TypeOK
<1>2. FreshAbove /\ FaultsCounted /\ ValidPageHasItsFrame
  BY DEF Init, FreshAbove, FaultsCounted, ValidPageHasItsFrame
<1>3. StaleOnlyAfterEviction /\ TLBAgreesWithPageTable /\ WrongByteOnlyFromEvictedPage
  BY DEF Init, StaleOnlyAfterEviction, TLBAgreesWithPageTable, WrongByteOnlyFromEvictedPage
<1> QED BY <1>1, <1>2, <1>3 DEF IInv

(* The inductive invariant holds after every line of input.                *)
THEOREM Invariance == Spec => []IInv
  BY InitialState, InductiveStep, PTL DEF Spec

(* The indices stay within the arrays of vm_manager.c: no page fault uses  *)
(* a frame and no update an entry that does not exist.                     *)
THEOREM TypeCorrect == Spec => []TypeOK
<1>1. IInv => TypeOK
  BY DEF IInv
<1> QED BY <1>1, Invariance, PTL

(* select_victim_frame's invalidation loop leaves every valid page a frame *)
(* of its own that holds its bytes, until the counter overflows.           *)
THEOREM PageTableCorrect == Spec => []ValidPageHasItsFrame
<1>1. IInv => ValidPageHasItsFrame
  BY DEF IInv
<1> QED BY <1>1, Invariance, PTL

(* check_TLB's first match is the only one, and agrees with the page table *)
(* on every page that is valid.                                            *)
THEOREM TLBCorrect == Spec => []TLBAgreesWithPageTable
<1>1. IInv => TLBAgreesWithPageTable
  BY DEF IInv
<1> QED BY <1>1, Invariance, PTL

(* A wrong byte is only ever printed for a page that was evicted: the one  *)
(* way in which the translation of README.md:7 goes wrong.                 *)
THEOREM TranslationMostlyCorrect == Spec => []WrongByteOnlyFromEvictedPage
<1>1. IInv => WrongByteOnlyFromEvictedPage
  BY DEF IInv
<1> QED BY <1>1, Invariance, PTL
-----------------------------------------------------------------------------
(***************************************************************************)
(* The files in /proc.                                                     *)
(*                                                                         *)
(* completed is only ever left to someone who will reset it: a reader that *)
(* set it goes on to "ready", and leaves that, while completed holds, for  *)
(* "reset" only (SomeoneResets).  Hence a reader that opens the file when  *)
(* nobody has it open starts afresh, and as long as nobody joins it knows  *)
(* completed from what it did itself (AloneKnows).                         *)
(***************************************************************************)
SomeoneResets ==
    entry # "absent" /\ completed =>
        abandoned \/ \E r \in Readers : \/ pc[r] \in {"ready", "reset"}
                                        \/ pc[r] = "format" /\ module # "pid"

(* Without an entry nobody is in proc_read.                                *)
AllClosed == entry = "absent" => \A r \in Readers : pc[r] = "closed"

AloneKnows ==
    \A r \in Readers : alone[r] =>
        /\ \A q \in Readers : q # r => pc[q] = "closed"
        /\ reports[r] # 2
        /\ pc[r] # "closed" => ~abandoned
        /\ pc[r] = "ready" => (completed <=> reports[r] = 1)
        /\ pc[r] = "reset" => reports[r] = 1
        /\ pc[r] \in {"lookup", "format", "complete"} => reports[r] = 0
        /\ pc[r] \in {"lookup", "complete"} => ~completed
        /\ pc[r] = "lookup" => module = "pid"
        /\ pc[r] = "format" => (completed <=> module # "pid")

(* What a call of proc_read has seen of current_pid.                       *)
SeenCurrent ==
    module = "pid" => \A r \in Readers :
        /\ pc[r] \in {"lookup", "format"} => current_pid \in current[r]
        /\ pc[r] = "format" => tsk[r] \in current[r]

(* jiffies has wrapped around once at most since the module was loaded.    *)
ClockRuns ==
    module = "seconds" /\ entry = "ready" /\ uptime < JIFFIES_MOD =>
        jiffies \in {start_jiffies + uptime, start_jiffies + uptime - JIFFIES_MOD}

ProcIInv == ProcTypeOK /\ SomeoneResets /\ AllClosed /\ AloneKnows /\ SeenCurrent /\ ClockRuns
-----------------------------------------------------------------------------
LEMMA Ranges ==
    /\ JIFFIES_MOD \in Nat /\ JIFFIES_MOD >= 1 /\ HZ \in Nat /\ HZ >= 1
    /\ \A pid \in Pids : pid \in Nat /\ pid \in Int /\ pid # 0
    /\ 0 \in 0 .. JIFFIES_MOD - 1
    /\ NoReport \in [comm : Int, pid : Int, time : Int]
  BY ProcFileAssumption DEF NoReport, NoTask

(* jiffies counts up to its range and starts again from zero.              *)
LEMMA NextJiffy ==
    ASSUME ProcTypeOK
    PROVE  (jiffies + 1) % JIFFIES_MOD = IF jiffies + 1 = JIFFIES_MOD THEN 0 ELSE jiffies + 1
<1>1. jiffies \in 0 .. JIFFIES_MOD - 1 /\ JIFFIES_MOD \in Nat \ {0}
  BY ProcFileAssumption DEF ProcTypeOK
<1> QED BY <1>1

(* The difference of two unsigned numbers.                                 *)
LEMMA UnsignedDifference ==
    ASSUME NEW m \in Nat \ {0}, NEW a \in 0 .. m - 1, NEW b \in 0 .. m - 1
    PROVE  (a - b) % m = IF b <= a THEN a - b ELSE a - b + m
<1>1. CASE b <= a BY <1>1
<1>2. CASE ~(b <= a) BY <1>2
<1> QED BY <1>1, <1>2

LEMMA ElapsedIsInt ==
    ASSUME ProcTypeOK
    PROVE  Elapsed \in Int
<1>1. (jiffies - start_jiffies) % JIFFIES_MOD \in Int
  BY UnsignedDifference, ProcFileAssumption DEF ProcTypeOK
<1> QED BY <1>1, ProcFileAssumption DEF Elapsed
-----------------------------------------------------------------------------
(* Every step keeps each part of the invariant.                            *)

(* The variables keep their types.                                         *)
LEMMA TypeStep ==
    ASSUME ProcIInv, [ProcNext]_procVars
    PROVE  ProcTypeOK'
<1> USE DEF ProcIInv, ProcTypeOK,
            shared, kernel, outcome, Goto, Told, Open, Labels
<1>1. ASSUME NEW r \in Readers, Test(r) PROVE ProcTypeOK'
  BY <1>1 DEF Test
<1>2. ASSUME NEW r \in Readers, Reset(r) PROVE ProcTypeOK'
  BY <1>2 DEF Reset
<1>3. ASSUME NEW r \in Readers, Lookup(r) PROVE ProcTypeOK'
  <2>1. CASE current_pid \in live_tasks
    BY <1>3, <2>1 DEF Lookup
  <2>2. CASE current_pid \notin live_tasks
    <3>1. {} \in SUBSET (Pids \cup {0})
      OBVIOUS
    <3> QED BY <1>3, <2>2, <3>1 DEF Lookup
  <2> QED BY <2>1, <2>2
<1>4. ASSUME NEW r \in Readers, FormatTask(r) PROVE ProcTypeOK'
  <2>1. PICK name \in Pids \cup {Garbage} :
           buffer' = [buffer EXCEPT ![r] = [comm |-> name, pid |-> current_pid, time |-> 0]]
    BY <1>4 DEF FormatTask, NoTask
  <2>2. [comm |-> name, pid |-> current_pid, time |-> 0] \in [comm : Int, pid : Int, time : Int]
    <3>1. name \in Int /\ current_pid \in Int
      BY <2>1, Ranges DEF Garbage
    <3> QED BY <3>1
  <2>3. buffer' \in [Readers -> [comm : Int, pid : Int, time : Int]]
    BY <2>1, <2>2
  <2> QED BY <1>4, <2>3 DEF FormatTask, NoTask
<1>5. ASSUME NEW r \in Readers, FormatTime(r) PROVE ProcTypeOK'
  BY <1>5, ElapsedIsInt, ProcFileAssumption DEF FormatTime
<1>6. ASSUME NEW r \in Readers, Complete(r) PROVE ProcTypeOK'
  <2>1. buffer' \in [Readers -> [comm : Int, pid : Int, time : Int]]
    BY <1>6, Ranges DEF Complete
  <2>2. reports' \in [Readers -> 0 .. 2]
    BY <1>6 DEF Complete, Told
  <2>3. completed' \in BOOLEAN /\ abandoned' \in BOOLEAN
    BY <1>6 DEF Complete
  <2>4. pc' \in [Readers -> Labels]
    BY <1>6 DEF Complete, Goto, Labels
  <2> QED BY <1>6, <2>1, <2>2, <2>3, <2>4 DEF Complete, kernel
<1>7. ASSUME NEW r \in Readers, OpenFile(r) PROVE ProcTypeOK'
  <2>1. buffer' \in [Readers -> [comm : Int, pid : Int, time : Int]]
    BY <1>7, Ranges DEF OpenFile
  <2>2. alone' \in [Readers -> BOOLEAN]
    BY <1>7, Zenon DEF OpenFile
  <2>3. pc' \in [Readers -> Labels] /\ reports' \in [Readers -> 0 .. 2] /\ opens' \in Nat
    BY <1>7 DEF OpenFile, Goto, Labels
  <2> QED BY <1>7, <2>1, <2>2, <2>3 DEF OpenFile, kernel, shared
<1>8. ASSUME NEW r \in Readers, Quit(r) PROVE ProcTypeOK'
  BY <1>8 DEF Quit
<1>9. ASSUME NEW pid \in Pids, proc_write(pid) PROVE ProcTypeOK'
  BY <1>9, ProcFileAssumption DEF proc_write, NoTask, NoReport, Garbage
<1>10. ASSUME NEW pid \in Pids, TaskEnds(pid) PROVE ProcTypeOK'
  BY <1>10, ProcFileAssumption DEF TaskEnds, NoTask, NoReport, Garbage
<1>11. CASE CreateEntry
  BY <1>11, Ranges DEF CreateEntry
<1>12. CASE SetStart
  BY <1>12 DEF SetStart
<1>13. CASE proc_exit
  BY <1>13 DEF proc_exit
<1>14. CASE Tick
  BY <1>14, NextJiffy, ProcFileAssumption DEF Tick
<1>15. CASE UNCHANGED procVars
  BY <1>15 DEF procVars
<1> QED BY <1>1, <1>2, <1>3, <1>4, <1>5, <1>6, <1>7, <1>8, <1>9,
           <1>10, <1>11, <1>12, <1>13, <1>14, <1>15 DEF ProcNext, proc_read

(* Nobody forgets to reset completed.                                      *)
LEMMA ResetStep ==
    ASSUME ProcIInv, [ProcNext]_procVars
    PROVE  SomeoneResets'
<1> USE DEF ProcIInv, ProcTypeOK, SomeoneResets, AllClosed,
            shared, kernel, outcome, Goto, Told, Open, Labels
<1>1. ASSUME NEW r \in Readers, Test(r) PROVE SomeoneResets'
  BY <1>1 DEF Test
<1>2. ASSUME NEW r \in Readers, Reset(r) PROVE SomeoneResets'
  BY <1>2 DEF Reset
<1>3. ASSUME NEW r \in Readers, Lookup(r) PROVE SomeoneResets'
  BY <1>3 DEF Lookup
<1>4. ASSUME NEW r \in Readers, FormatTask(r) PROVE SomeoneResets'
  BY <1>4 DEF FormatTask
<1>5. ASSUME NEW r \in Readers, FormatTime(r) PROVE SomeoneResets'
  BY <1>5 DEF FormatTime
<1>6. ASSUME NEW r \in Readers, Complete(r) PROVE SomeoneResets'
  BY <1>6 DEF Complete
<1>7. ASSUME NEW r \in Readers, OpenFile(r) PROVE SomeoneResets'
  BY <1>7 DEF OpenFile
<1>8. ASSUME NEW r \in Readers, Quit(r) PROVE SomeoneResets'
  BY <1>8 DEF Quit
<1>9. ASSUME NEW pid \in Pids, proc_write(pid) PROVE SomeoneResets'
  BY <1>9 DEF proc_write
<1>10. ASSUME NEW pid \in Pids, TaskEnds(pid) PROVE SomeoneResets'
  BY <1>10 DEF TaskEnds
<1>11. CASE CreateEntry
  BY <1>11 DEF CreateEntry
<1>12. CASE SetStart
  BY <1>12 DEF SetStart
<1>13. CASE proc_exit
  BY <1>13 DEF proc_exit
<1>14. CASE Tick
  BY <1>14 DEF Tick
<1>15. CASE UNCHANGED procVars
  BY <1>15 DEF procVars
<1> QED BY <1>1, <1>2, <1>3, <1>4, <1>5, <1>6, <1>7, <1>8, <1>9,
           <1>10, <1>11, <1>12, <1>13, <1>14, <1>15 DEF ProcNext, proc_read

(* Nobody reads a file that does not exist.                                *)
LEMMA ClosedStep ==
    ASSUME ProcIInv, [ProcNext]_procVars
    PROVE  AllClosed'
<1> USE DEF ProcIInv, ProcTypeOK, AllClosed,
            shared, kernel, outcome, Goto, Told, Open, Labels
<1>1. ASSUME NEW r \in Readers, Test(r) PROVE AllClosed'
  BY <1>1 DEF Test
<1>2. ASSUME NEW r \in Readers, Reset(r) PROVE AllClosed'
  BY <1>2 DEF Reset
<1>3. ASSUME NEW r \in Readers, Lookup(r) PROVE AllClosed'
  BY <1>3 DEF Lookup
<1>4. ASSUME NEW r \in Readers, FormatTask(r) PROVE AllClosed'
  BY <1>4 DEF FormatTask
<1>5. ASSUME NEW r \in Readers, FormatTime(r) PROVE AllClosed'
  BY <1>5 DEF FormatTime
<1>6. ASSUME NEW r \in Readers, Complete(r) PROVE AllClosed'
  BY <1>6 DEF Complete
<1>7. ASSUME NEW r \in Readers, OpenFile(r) PROVE AllClosed'
  BY <1>7 DEF OpenFile
<1>8. ASSUME NEW r \in Readers, Quit(r) PROVE AllClosed'
  BY <1>8 DEF Quit
<1>9. ASSUME NEW pid \in Pids, proc_write(pid) PROVE AllClosed'
  BY <1>9 DEF proc_write
<1>10. ASSUME NEW pid \in Pids, TaskEnds(pid) PROVE AllClosed'
  BY <1>10 DEF TaskEnds
<1>11. CASE CreateEntry
  BY <1>11 DEF CreateEntry
<1>12. CASE SetStart
  BY <1>12 DEF SetStart
<1>13. CASE proc_exit
  BY <1>13 DEF proc_exit
<1>14. CASE Tick
  BY <1>14 DEF Tick
<1>15. CASE UNCHANGED procVars
  BY <1>15 DEF procVars
<1> QED BY <1>1, <1>2, <1>3, <1>4, <1>5, <1>6, <1>7, <1>8, <1>9,
           <1>10, <1>11, <1>12, <1>13, <1>14, <1>15 DEF ProcNext, proc_read

(* A lone reader knows completed.                                          *)
LEMMA AloneStep ==
    ASSUME ProcIInv, [ProcNext]_procVars
    PROVE  AloneKnows'
<1> USE DEF ProcIInv, ProcTypeOK, SomeoneResets, AllClosed, AloneKnows,
            shared, kernel, outcome, Goto, Told, Open, Labels
<1>1. ASSUME NEW r \in Readers, Test(r) PROVE AloneKnows'
  BY <1>1 DEF Test
<1>2. ASSUME NEW r \in Readers, Reset(r) PROVE AloneKnows'
  BY <1>2 DEF Reset
<1>3. ASSUME NEW r \in Readers, Lookup(r) PROVE AloneKnows'
  BY <1>3 DEF Lookup
<1>4. ASSUME NEW r \in Readers, FormatTask(r) PROVE AloneKnows'
  BY <1>4 DEF FormatTask
<1>5. ASSUME NEW r \in Readers, FormatTime(r) PROVE AloneKnows'
  BY <1>5 DEF FormatTime
<1>6. ASSUME NEW r \in Readers, Complete(r) PROVE AloneKnows'
  BY <1>6 DEF Complete
<1>7. ASSUME NEW r \in Readers, OpenFile(r) PROVE AloneKnows'
  <2>1. \A q \in Readers : alone'[q] => q = r /\ Open = {} /\ ~abandoned
    BY <1>7 DEF OpenFile
  <2>2. Open = {} => ~completed \/ abandoned
    BY <1>7 DEF OpenFile, Open
  <2>3. pc'[r] = "ready" /\ reports'[r] = 0 /\ \A q \in Readers : q # r => pc'[q] = pc[q]
    BY <1>7 DEF OpenFile, Goto
  <2>4. completed' = completed /\ abandoned' = abandoned
    BY <1>7 DEF OpenFile, shared
  <2> QED BY <2>1, <2>2, <2>3, <2>4 DEF Open
<1>8. ASSUME NEW r \in Readers, Quit(r) PROVE AloneKnows'
  BY <1>8 DEF Quit
<1>9. ASSUME NEW pid \in Pids, proc_write(pid) PROVE AloneKnows'
  BY <1>9 DEF proc_write
<1>10. ASSUME NEW pid \in Pids, TaskEnds(pid) PROVE AloneKnows'
  BY <1>10 DEF TaskEnds
<1>11. CASE CreateEntry
  BY <1>11 DEF CreateEntry
<1>12. CASE SetStart
  BY <1>12 DEF SetStart
<1>13. CASE proc_exit
  BY <1>13 DEF proc_exit
<1>14. CASE Tick
  BY <1>14 DEF Tick
<1>15. CASE UNCHANGED procVars
  BY <1>15 DEF procVars
<1> QED BY <1>1, <1>2, <1>3, <1>4, <1>5, <1>6, <1>7, <1>8, <1>9,
           <1>10, <1>11, <1>12, <1>13, <1>14, <1>15 DEF ProcNext, proc_read

(* What proc_read uses was current.                                        *)
LEMMA SeenStep ==
    ASSUME ProcIInv, [ProcNext]_procVars
    PROVE  SeenCurrent'
<1> USE DEF ProcIInv, ProcTypeOK, AllClosed, SeenCurrent,
            shared, kernel, outcome, Goto, Told, Open, Labels
<1>1. ASSUME NEW r \in Readers, Test(r) PROVE SeenCurrent'
  BY <1>1 DEF Test
<1>2. ASSUME NEW r \in Readers, Reset(r) PROVE SeenCurrent'
  BY <1>2 DEF Reset
<1>3. ASSUME NEW r \in Readers, Lookup(r) PROVE SeenCurrent'
  BY <1>3 DEF Lookup
<1>4. ASSUME NEW r \in Readers, FormatTask(r) PROVE SeenCurrent'
  BY <1>4 DEF FormatTask
<1>5. ASSUME NEW r \in Readers, FormatTime(r) PROVE SeenCurrent'
  BY <1>5 DEF FormatTime
<1>6. ASSUME NEW r \in Readers, Complete(r) PROVE SeenCurrent'
  BY <1>6 DEF Complete
<1>7. ASSUME NEW r \in Readers, OpenFile(r) PROVE SeenCurrent'
  BY <1>7 DEF OpenFile
<1>8. ASSUME NEW r \in Readers, Quit(r) PROVE SeenCurrent'
  BY <1>8 DEF Quit
<1>9. ASSUME NEW pid \in Pids, proc_write(pid) PROVE SeenCurrent'
  BY <1>9 DEF proc_write
<1>10. ASSUME NEW pid \in Pids, TaskEnds(pid) PROVE SeenCurrent'
  BY <1>10 DEF TaskEnds
<1>11. CASE CreateEntry
  BY <1>11 DEF CreateEntry
<1>12. CASE SetStart
  BY <1>12 DEF SetStart
<1>13. CASE proc_exit
  BY <1>13 DEF proc_exit
<1>14. CASE Tick
  BY <1>14 DEF Tick
<1>15. CASE UNCHANGED procVars
  BY <1>15 DEF procVars
<1> QED BY <1>1, <1>2, <1>3, <1>4, <1>5, <1>6, <1>7, <1>8, <1>9,
           <1>10, <1>11, <1>12, <1>13, <1>14, <1>15 DEF ProcNext, proc_read

(* jiffies tells how long the module has been loaded.                      *)
LEMMA ClockStep ==
    ASSUME ProcIInv, [ProcNext]_procVars
    PROVE  ClockRuns'
<1> USE DEF ProcIInv, ProcTypeOK, ClockRuns,
            shared, kernel, outcome, Goto, Told, Open, Labels
<1>1. ASSUME NEW r \in Readers, Test(r) PROVE ClockRuns'
  BY <1>1 DEF Test
<1>2. ASSUME NEW r \in Readers, Reset(r) PROVE ClockRuns'
  BY <1>2 DEF Reset
<1>3. ASSUME NEW r \in Readers, Lookup(r) PROVE ClockRuns'
  BY <1>3 DEF Lookup
<1>4. ASSUME NEW r \in Readers, FormatTask(r) PROVE ClockRuns'
  BY <1>4 DEF FormatTask
<1>5. ASSUME NEW r \in Readers, FormatTime(r) PROVE ClockRuns'
  BY <1>5 DEF FormatTime
<1>6. ASSUME NEW r \in Readers, Complete(r) PROVE ClockRuns'
  BY <1>6 DEF Complete
<1>7. ASSUME NEW r \in Readers, OpenFile(r) PROVE ClockRuns'
  BY <1>7 DEF OpenFile
<1>8. ASSUME NEW r \in Readers, Quit(r) PROVE ClockRuns'
  BY <1>8 DEF Quit
<1>9. ASSUME NEW pid \in Pids, proc_write(pid) PROVE ClockRuns'
  BY <1>9 DEF proc_write
<1>10. ASSUME NEW pid \in Pids, TaskEnds(pid) PROVE ClockRuns'
  BY <1>10 DEF TaskEnds
<1>11. CASE CreateEntry
  BY <1>11 DEF CreateEntry
<1>12. CASE SetStart
  BY <1>12 DEF SetStart
<1>13. CASE proc_exit
  BY <1>13 DEF proc_exit
<1>14. CASE Tick
  <2>1. jiffies' = IF jiffies + 1 = JIFFIES_MOD THEN 0 ELSE jiffies + 1
    BY <1>14, NextJiffy DEF Tick
  <2>2. uptime' = uptime + 1 /\ start_jiffies' = start_jiffies /\ entry' = entry /\ module' = module
    BY <1>14 DEF Tick, shared
  <2> QED BY <2>1, <2>2, Ranges
<1>15. CASE UNCHANGED procVars
  BY <1>15 DEF procVars
<1> QED BY <1>1, <1>2, <1>3, <1>4, <1>5, <1>6, <1>7, <1>8, <1>9,
           <1>10, <1>11, <1>12, <1>13, <1>14, <1>15 DEF ProcNext, proc_read
-----------------------------------------------------------------------------
LEMMA ProcInitialState ==
    ASSUME ProcInit
    PROVE  ProcIInv
<1>1. ProcTypeOK
  <2>1. jiffies \in 0 .. JIFFIES_MOD - 1
    BY Ranges DEF ProcInit
  <2>2. /\ buffer \in [Readers -> [comm : Int, pid : Int, time : Int]]
        /\ tsk \in [Readers -> Pids \cup {NoTask}] /\ pc \in [Readers -> Labels]
    BY Ranges DEF ProcInit, Labels
  <2>3. start_jiffies \in 0 .. JIFFIES_MOD - 1 /\ live_tasks \subseteq Pids /\ current_pid \in Pids \cup {0}
    BY Ranges DEF ProcInit
  <2>4. /\ reports \in [Readers -> 0 .. 2] /\ opens \in Nat /\ uptime \in Nat
        /\ current \in [Readers -> SUBSET (Pids \cup {0})]
    BY DEF ProcInit
  <2>5. alone \in [Readers -> BOOLEAN] /\ completed \in BOOLEAN /\ abandoned \in BOOLEAN
    BY Zenon DEF ProcInit
  <2> QED BY <2>1, <2>2, <2>3, <2>4, <2>5 DEF ProcInit, ProcTypeOK
<1> QED BY <1>1 DEF ProcInit, ProcIInv, SomeoneResets, AllClosed, AloneKnows, SeenCurrent, ClockRuns

(* The invariant: every access to the shared variables, by any reader, the *)
(* writers or the kernel, preserves it.                                    *)
THEOREM ProcInductiveStep ==
    ASSUME ProcIInv, [ProcNext]_procVars
    PROVE  ProcIInv'
BY TypeStep, ResetStep, ClosedStep, AloneStep, SeenStep, ClockStep DEF ProcIInv

(* Between any two steps of any reader, writer or task.                     *)
THEOREM ProcInvariance == ProcSpec => []ProcIInv
<1>1. ProcInit => ProcIInv
  BY ProcInitialState
<1>2. ProcIInv /\ [ProcNext]_procVars => ProcIInv'
  BY ProcInductiveStep
<1> QED BY <1>1, <1>2, PTL DEF ProcSpec

(* completed is not left behind: when nobody has the file open it is FALSE *)
(* unless a reader left the file early.  (pid_module.c:52-57)              *)
THEOREM NeverLeftBehind == ProcSpec => []FreshWhenUnused
<1>1. ProcIInv => FreshWhenUnused
  BY DEF ProcIInv, SomeoneResets, FreshWhenUnused, Open
<1> QED BY <1>1, ProcInvariance, PTL

(* A lone reader is told once, then the end.  (seconds_module.c:48-52)     *)
THEOREM OneReportThenEnd == ProcSpec => []LoneReaderReadsOnce
<1>1. ProcIInv => LoneReaderReadsOnce
  BY DEF ProcIInv, ProcTypeOK, AloneKnows, LoneReaderReadsOnce
<1> QED BY <1>1, ProcInvariance, PTL

(* The seconds reported are those since proc_init, whatever jiffies was.   *)
LEMMA SecondsElapsed ==
    ASSUME ProcIInv, module = "seconds", entry = "ready", uptime < JIFFIES_MOD
    PROVE  Elapsed = uptime \div HZ
<1>1. (jiffies - start_jiffies) % JIFFIES_MOD =
          IF start_jiffies <= jiffies THEN jiffies - start_jiffies
                                      ELSE jiffies - start_jiffies + JIFFIES_MOD
  BY UnsignedDifference, Ranges DEF ProcIInv, ProcTypeOK
<1>2. (jiffies - start_jiffies) % JIFFIES_MOD = uptime
  BY SMTT(30), <1>1, Ranges DEF ProcIInv, ProcTypeOK, ClockRuns
<1> QED BY <1>2 DEF Elapsed

(* Reports of tasks are of one that was asked for, and seconds are right   *)
(* however often jiffies has wrapped around.  (pid_module.c:58-62,         *)
(* seconds_module.c:53)                                                    *)
THEOREM RightReports == ProcSpec => ReportIsRight
<1> DEFINE Right == \A r \in Readers : Formats(r) =>
                        /\ module = "pid" => TaskIsRight(r)
                        /\ module = "seconds" => SecondsAreRight(r)
<1>1. ASSUME ProcIInv, [ProcNext]_procVars PROVE [Right]_procVars
  <2> SUFFICES ASSUME ProcNext, NEW r \in Readers, Formats(r)
               PROVE  /\ module = "pid" => TaskIsRight(r)
                      /\ module = "seconds" => SecondsAreRight(r)
    BY <1>1
  <2>1. FormatTask(r) \/ FormatTime(r)
    <3>1. ASSUME NEW q \in Readers, q # r, proc_read(q) \/ OpenFile(q) \/ Quit(q) PROVE FALSE
      BY <3>1, <1>1 DEF Formats, proc_read, Test, Reset, Lookup, FormatTask, FormatTime, Complete,
                        OpenFile, Quit, Goto, ProcIInv, ProcTypeOK
    <3>2. ~OpenFile(r) /\ ~Quit(r) /\ ~Test(r) /\ ~Reset(r) /\ ~Lookup(r) /\ ~Complete(r)
      BY DEF Formats, OpenFile, Quit, Test, Reset, Lookup, Complete
    <3>3. ASSUME NEW pid \in Pids, proc_write(pid) \/ TaskEnds(pid) PROVE FALSE
      BY <3>3 DEF Formats, proc_write, TaskEnds
    <3>4. ~CreateEntry /\ ~SetStart /\ ~proc_exit /\ ~Tick
      BY DEF Formats, CreateEntry, SetStart, proc_exit, Tick
    <3> QED BY <3>1, <3>2, <3>3, <3>4 DEF ProcNext, proc_read
  <2>2. ASSUME module = "pid" PROVE TaskIsRight(r)
    <3>1. {tsk[r], current_pid} \subseteq current[r]
      BY <1>1, <2>2 DEF Formats, ProcIInv, SeenCurrent
    <3>2. tsk[r] \in live_tasks => buffer'[r].comm = tsk[r] /\ buffer'[r].pid = current_pid
      BY <1>1, <2>1, <2>2 DEF FormatTask, FormatTime, ProcIInv, ProcTypeOK
    <3> QED BY <3>1, <3>2 DEF TaskIsRight
  <2>3. ASSUME module = "seconds" PROVE SecondsAreRight(r)
    <3>1. buffer'[r].time = Elapsed
      BY <1>1, <2>1, <2>3 DEF FormatTask, FormatTime, ProcIInv, ProcTypeOK
    <3> QED BY <1>1, <2>3, <3>1, SecondsElapsed DEF SecondsAreRight
  <2> QED BY <2>2, <2>3
<1> QED BY <1>1, ProcInvariance, PTL DEF ProcSpec, ReportIsRight

-----------------------------------------------------------------------------
(***************************************************************************)
(* The schedulers.                                                         *)
(*                                                                         *)
(* A list holds the tasks of its priority that wait, the newest first: the *)
(* head is the newest and each link leads to the next older one.  So what  *)
(* the walks of pickNextTask and delete find is told by the set of the     *)
(* tasks that wait.                                                        *)
(***************************************************************************)

IsTop(x, S) == x \in S \cup {NULL} /\ \A y \in S : y <= x
Older(S, n) == {m \in S : m < n}
HoldsIn(head, next, S) == IsTop(head, S) /\ \A n \in S : IsTop(next[n], Older(S, n))
Holds(p, S) == HoldsIn(taskList[p], link, S)

(* c lists the members of S from the newest to the oldest.                 *)
Descends(c, S) ==
    /\ c \in Seq(S)
    /\ \A i, j \in 1 .. Len(c) : i < j => c[j] < c[i]
    /\ \A n \in S : \E k \in 1 .. Len(c) : c[k] = n

LEMMA ChainSteps ==
    ASSUME MaxTasks \in Nat, NEW p, NEW V, taskList[p] \in V,
           \A v \in V : v # NULL => link[v] \in V, NULL \in V
    PROVE  \E at \in [0 .. MaxTasks -> V] :
               /\ at[0] = taskList[p]
               /\ \A k \in 1 .. MaxTasks :
                      at[k] = IF at[k - 1] = NULL THEN NULL ELSE link[at[k - 1]]
               /\ Chain(p) = [k \in {n \in Ids : at[n - 1] # NULL} |-> at[k - 1]]
<1> DEFINE N == MaxTasks
           step(v) == IF v = NULL THEN NULL ELSE link[v]
           Eq(g) == g = [k \in 0 .. N |-> IF k = 0 THEN taskList[p] ELSE step(g[k - 1])]
           H == [k \in 1 .. N |-> [v \in V |-> step(v)]]
           at == CHOOSE g : Eq(g)
           first == taskList[p]
<1>1. Chain(p) = [k \in {n \in Ids : at[n - 1] # NULL} |-> at[k - 1]]
  BY DEF Chain
<1>2. H \in [1 .. N -> [V -> V]]
  OBVIOUS
<1>3. PICK g \in [0 .. N -> V] : Computes(g, first, H, N)
  <2> HIDE DEF H, first
  <2>1. first \in V
    BY DEF first
  <2> QED BY <1>2, <2>1, RecursionTo
<1>4. g[0] = first /\ \A k \in 1 .. N : g[k] = step(g[k - 1])
  <2>1. \A k \in 1 .. N : g[k - 1] \in V /\ H[k][g[k - 1]] = step(g[k - 1])
    OBVIOUS
  <2> HIDE DEF H, first
  <2> QED BY <1>3, <2>1 DEF Computes
<1>5. Eq(g)
  BY <1>3, <1>4
<1>6. Eq(at)
  <2> HIDE DEF Eq
  <2> QED BY <1>5
<1> HIDE DEF at
<1>7. at[0] = first /\ \A k \in 1 .. N : at[k] = step(at[k - 1])
  <2>1. 0 \in 0 .. N /\ \A k \in 1 .. N : k \in 0 .. N /\ k # 0
    OBVIOUS
  <2> HIDE DEF step
  <2>2. at = [k \in 0 .. N |-> IF k = 0 THEN first ELSE step(at[k - 1])]
    BY ONLY <1>6
  <2> QED BY ONLY <2>1, <2>2
<1>8. \A k \in 0 .. N : k \in {n \in 0 .. N : at[n] \in V}
  <2> DEFINE S == {n \in 0 .. N : at[n] \in V}
  <2>1. 0 \in S
    BY <1>7
  <2>2. \A k \in 1 .. N : k - 1 \in S => k \in S
    BY <1>7
  <2> HIDE DEF S
  <2>3. \A k \in 0 .. N : k \in S
    BY <2>1, <2>2, InductionTo
  <2> QED BY <2>3 DEF S
<1>9. at \in [0 .. N -> V]
  <2>1. at = [k \in 0 .. N |-> at[k]]
    BY <1>6
  <2> QED BY <1>8, <2>1
<1> QED BY <1>1, <1>7, <1>9

(* The list that holds S is read off as S in descending order.             *)
LEMMA ChainDescends ==
    ASSUME MaxTasks \in Nat, NEW p, NEW S \in SUBSET Ids, Holds(p, S)
    PROVE  Descends(Chain(p), S)
<1> DEFINE V == S \cup {NULL}
           N == MaxTasks
           head == taskList[p]
<1>1. S \subseteq 1 .. N /\ N \in Nat /\ NULL \notin S /\ NULL = 0
  BY DEF Ids, NULL
<1>2. /\ head \in V /\ \A y \in S : y <= head
      /\ \A v \in S : link[v] \in V /\ (link[v] # NULL => link[v] < v)
                      /\ \A y \in S : y < v => y <= link[v]
  BY DEF Holds, HoldsIn, IsTop, Older
<1>3. PICK at \in [0 .. N -> V] :
          /\ at[0] = head
          /\ \A k \in 1 .. N : at[k] = IF at[k - 1] = NULL THEN NULL ELSE link[at[k - 1]]
          /\ Chain(p) = [k \in {n \in Ids : at[n - 1] # NULL} |-> at[k - 1]]
  BY <1>1, <1>2, ChainSteps
<1> HIDE DEF head
<1>14. \A k \in 0 .. N : /\ at[k] \in Nat /\ at[k] <= N
                         /\ at[k] # NULL => at[k] \in S
  <2> SUFFICES ASSUME NEW k \in 0 .. N
               PROVE  at[k] \in Nat /\ at[k] <= N /\ (at[k] # NULL => at[k] \in S)
    OBVIOUS
  <2>1. at[k] = 0 \/ at[k] \in S
    BY <1>1, <1>3
  <2>2. CASE at[k] = 0
    BY <1>1, <2>2
  <2>3. CASE at[k] \in S
    <3>1. at[k] \in 1 .. N
      BY <1>1, <2>3
    <3> QED BY <1>1, <2>3, <3>1
  <2> QED BY <2>1, <2>2, <2>3
<1>4. ASSUME NEW k \in 1 .. N
      PROVE  /\ at[k - 1] = NULL => at[k] = NULL
             /\ at[k] # NULL => at[k] < at[k - 1]
  <2>1. k - 1 \in 0 .. N /\ k \in 0 .. N
    BY <1>1
  <2> QED BY <1>2, <1>3, <1>14, <2>1
<1> HIDE DEF V
<1>5. \A k \in 0 .. N : k \in {m \in 0 .. N : at[m] <= N - m \/ at[m] = NULL}
  <2> DEFINE T == {m \in 0 .. N : at[m] <= N - m \/ at[m] = NULL}
  <2>1. 0 \in T
    BY <1>1, <1>14
  <2>2. \A k \in 1 .. N : k - 1 \in T => k \in T
    BY <1>1, <1>4, <1>14
  <2> HIDE DEF T
  <2>3. \A k \in 0 .. N : k \in T
    BY <1>1, <2>1, <2>2, InductionTo
  <2> QED BY <2>3 DEF T
<1>6. at[N] = NULL
  BY <1>1, <1>5, <1>14
<1>7. PICK L \in {m \in 0 .. N : at[m] = NULL} : \A y \in {m \in 0 .. N : at[m] = NULL} : L <= y
  <2> DEFINE T == {m \in 0 .. N : at[m] = NULL}
  <2>1. T \subseteq Nat /\ T # {}
    BY <1>1, <1>6
  <2> HIDE DEF T
  <2>2. \E x \in T : \A y \in T : x <= y
    BY <2>1, LeastNat
  <2> QED BY <2>2 DEF T
<1>8. \A k \in 0 .. N : k \in {m \in 0 .. N : m < L <=> at[m] # NULL}
  <2> DEFINE T == {m \in 0 .. N : m < L <=> at[m] # NULL}
  <2>1. 0 \in T
    BY <1>1, <1>7
  <2>2. \A k \in 1 .. N : k - 1 \in T => k \in T
    BY <1>1, <1>4, <1>7
  <2> HIDE DEF T
  <2>3. \A k \in 0 .. N : k \in T
    BY <1>1, <2>1, <2>2, InductionTo
  <2> QED BY <2>3 DEF T
<1>9. {n \in Ids : at[n - 1] # NULL} = 1 .. L
  BY <1>1, <1>7, <1>8 DEF Ids
<1>10. /\ Chain(p) \in [1 .. L -> S] /\ L \in Nat
       /\ \A k \in 1 .. L : Chain(p)[k] = at[k - 1]
  <2>1. Chain(p) = [k \in 1 .. L |-> at[k - 1]] /\ L \in Nat
    BY <1>3, <1>7, <1>9
  <2>2. ASSUME NEW k \in 1 .. L PROVE at[k - 1] \in S
    <3>1. k - 1 \in 0 .. N /\ k - 1 < L
      BY <1>1, <1>7
    <3> QED BY <1>8, <1>14, <3>1
  <2> QED BY <2>1, <2>2
<1>11. Chain(p) \in Seq(S) /\ Len(Chain(p)) = L
  BY <1>10
<1>12. ASSUME NEW i \in 1 .. L, NEW j \in 1 .. L, i < j PROVE Chain(p)[j] < Chain(p)[i]
  <2> DEFINE T == {m \in 0 .. N : i <= m /\ m < L => at[m] < at[i - 1]}
  <2>1. 0 \in T
    BY <1>1
  <2>2. ASSUME NEW k \in 1 .. N, k - 1 \in T PROVE k \in T
    <3>1. SUFFICES ASSUME i <= k, k < L PROVE at[k] < at[i - 1]
      OBVIOUS
    <3>2. at[k] # NULL /\ at[k] < at[k - 1]
      BY <1>4, <1>8, <3>1
    <3>3. CASE i = k
      BY <3>2, <3>3
    <3>4. CASE i # k
      <4>1. at[k - 1] < at[i - 1]
        BY <1>7, <2>2, <3>1, <3>4
      <4>2. at[k] \in Nat /\ at[k - 1] \in Nat /\ at[i - 1] \in Nat
        BY <1>1, <1>7, <1>14
      <4> QED BY <3>2, <4>1, <4>2
    <3> QED BY <3>3, <3>4
  <2> HIDE DEF T
  <2>3. \A k \in 0 .. N : k \in T
    BY <1>1, <2>1, <2>2, InductionTo
  <2>4. at[j - 1] < at[i - 1]
    BY <1>7, <1>12, <2>3 DEF T
  <2> QED BY <1>10, <2>4
<1>13. ASSUME NEW n \in S PROVE \E k \in 1 .. L : Chain(p)[k] = n
  <2> DEFINE T == {m \in 0 .. N : n <= at[m] \/ \E k \in 1 .. m : at[k - 1] = n}
  <2>1. 0 \in T
    BY <1>1, <1>2, <1>3
  <2>2. ASSUME NEW m \in 1 .. N, m - 1 \in T PROVE m \in T
    <3>1. CASE \E k \in 1 .. m - 1 : at[k - 1] = n
      BY <3>1
    <3>2. CASE n <= at[m - 1]
      <4>1. CASE at[m - 1] = n
        BY <4>1
      <4>2. CASE at[m - 1] # n
        <5>1. at[m - 1] \in S /\ n < at[m - 1] /\ at[m - 1] # NULL
          <6>1. n \in Nat /\ n > 0 /\ m - 1 \in 0 .. N
            BY <1>1
          <6>2. at[m - 1] \in Nat /\ (at[m - 1] = NULL \/ at[m - 1] \in S)
            BY <1>14, <6>1
          <6>3. PICK a : a = at[m - 1]
            OBVIOUS
          <6>4. n <= a /\ a # n /\ a \in Nat
            BY <3>2, <4>2, <6>2, <6>3
          <6>5. n < a /\ a # 0
            BY ONLY <6>1, <6>4
          <6> QED BY <1>1, <6>2, <6>3, <6>5
        <5>2. n <= link[at[m - 1]] /\ at[m] = link[at[m - 1]]
          BY <1>2, <1>3, <5>1
        <5> QED BY <5>2
      <4> QED BY <4>1, <4>2
    <3> QED BY <2>2, <3>1, <3>2
  <2> HIDE DEF T
  <2>3. \A m \in 0 .. N : m \in T
    BY <1>1, <2>1, <2>2, InductionTo
  <2>4. n <= at[L] \/ \E k \in 1 .. L : at[k - 1] = n
    BY <1>7, <2>3 DEF T
  <2>5. ~ (n <= at[L])
    BY <1>1, <1>7
  <2> QED BY <1>10, <2>4, <2>5
<1> QED BY <1>11, <1>12, <1>13 DEF Descends

LEMMA DescendsEnds ==
    ASSUME NEW S \in SUBSET Ids, S # {}, NEW c, Descends(c, S), MaxTasks \in Nat
    PROVE  /\ Len(c) \in Nat /\ Len(c) >= 1 /\ c # <<>> /\ \A k \in 1 .. Len(c) : c[k] \in S
           /\ Head(c) = c[1] /\ Head(c) \in S /\ c[Len(c)] \in S
           /\ \A n \in S : n <= c[1] /\ c[Len(c)] <= n
<1> DEFINE L == Len(c)
<1>1. /\ c \in Seq(S) /\ \A i, j \in 1 .. L : i < j => c[j] < c[i]
      /\ \A n \in S : \E k \in 1 .. L : c[k] = n
  BY DEF Descends
<1>2. L \in Nat /\ L >= 1 /\ \A k \in 1 .. L : c[k] \in S
  BY <1>1
<1>3. \A n \in S : n \in Nat
  BY DEF Ids
<1>4. ASSUME NEW n \in S PROVE n <= c[1] /\ c[L] <= n
  <2>1. PICK k \in 1 .. L : c[k] = n
    BY <1>1
  <2>2. 1 \in 1 .. L /\ L \in 1 .. L
    BY <1>2
  <2>3. c[1] \in Nat /\ c[L] \in Nat /\ n \in Nat
    BY <1>2, <1>3, <2>2
  <2>4. (k = 1 \/ c[k] < c[1]) /\ (k = L \/ c[L] < c[k])
    <3>1. (k = 1 \/ 1 < k) /\ (k = L \/ k < L)
      BY <1>2
    <3> HIDE DEF L
    <3> QED BY <1>1, <2>2, <3>1
  <2> QED BY <2>1, <2>3, <2>4
<1>5. Head(c) = c[1] /\ c # <<>> /\ c[1] \in S /\ c[L] \in S
  BY <1>1, <1>2
<1> QED BY <1>2, <1>4, <1>5

(* Who is kept when each member of c replaces the one kept so far unless   *)
(* its score is greater: the one with the least score, the oldest of them. *)
LEMMA KeepsLeast ==
    ASSUME NEW S \in SUBSET Ids, S # {}, NEW c, Descends(c, S), MaxTasks \in Nat,
           NEW f \in [S -> Int], NEW job \in [0 .. Len(c) -> S],
           \A k \in 1 .. Len(c) :
               job[k] = IF f[c[k]] <= f[job[k - 1]] THEN c[k] ELSE job[k - 1]
    PROVE  /\ job[Len(c)] \in S
           /\ \A n \in S : n # job[Len(c)] =>
                  \/ f[job[Len(c)]] < f[n]
                  \/ (f[job[Len(c)]] = f[n] /\ job[Len(c)] < n)
<1> DEFINE L == Len(c)
           Beats(m, n) == f[m] < f[n] \/ (f[m] = f[n] /\ m <= n)
<1>1. /\ \A i, j \in 1 .. L : i < j => c[j] < c[i]
      /\ \A n \in S : \E k \in 1 .. L : c[k] = n
  BY DEF Descends
<1>2. L \in Nat /\ \A k \in 1 .. L : c[k] \in S
  BY DescendsEnds
<1>3. \A n \in S : n \in Nat /\ f[n] \in Int
  BY DEF Ids
<1> DEFINE T == {k \in 0 .. L : \A i \in 1 .. k : Beats(job[k], c[i])}
<1>4. 0 \in T
  BY <1>2
<1>5. ASSUME NEW k \in 1 .. L, k - 1 \in T PROVE k \in T
  <2> DEFINE old == job[k - 1]
             new == job[k]
  <2>1. old \in S /\ new \in S /\ c[k] \in S /\ new = IF f[c[k]] <= f[old] THEN c[k] ELSE old
    BY <1>2
  <2>2. \A i \in 1 .. k - 1 : Beats(old, c[i])
    BY <1>5
  <2> HIDE DEF old, new
  <2>3. ASSUME NEW i \in 1 .. k PROVE Beats(new, c[i])
    <3>1. c[i] \in S /\ c[i] \in Nat /\ c[k] \in Nat /\ old \in Nat
          /\ f[c[i]] \in Int /\ f[c[k]] \in Int /\ f[old] \in Int
      BY <1>2, <1>3, <2>1
    <3>2. CASE i = k
      BY <2>1, <3>1, <3>2
    <3>3. CASE i # k
      <4>1. i \in 1 .. k - 1 /\ c[k] < c[i]
        BY <1>1, <1>2, <3>3
      <4>2. Beats(old, c[i])
        BY <2>2, <4>1
      <4> QED BY <2>1, <3>1, <4>1, <4>2
    <3> QED BY <3>2, <3>3
  <2> QED BY <2>3 DEF new
<1> HIDE DEF T
<1>6. L \in T
  <2>1. \A k \in 0 .. L : k \in T
    BY <1>2, <1>4, <1>5, InductionTo
  <2> QED BY <1>2, <2>1
<1>7. job[L] \in S
  BY <1>2
<1>8. ASSUME NEW n \in S, n # job[L]
      PROVE  f[job[L]] < f[n] \/ (f[job[L]] = f[n] /\ job[L] < n)
  <2>1. PICK k \in 1 .. L : c[k] = n
    BY <1>1
  <2>2. Beats(job[L], n)
    BY <1>6, <2>1 DEF T
  <2> DEFINE b == job[L]
  <2>3. b \in Nat /\ n \in Nat /\ f[b] \in Int /\ f[n] \in Int /\ n # b
    BY <1>3, <1>7, <1>8
  <2>4. f[b] < f[n] \/ (f[b] = f[n] /\ b <= n)
    BY <2>2
  <2> HIDE DEF b
  <2>5. f[b] < f[n] \/ (f[b] = f[n] /\ b < n)
    BY <2>3, <2>4
  <2> QED BY <2>5 DEF b
<1> QED BY <1>7, <1>8

-----------------------------------------------------------------------------
(* delete, when the task is the k-th of the list c.                        *)
Unlinked(c, k, t, head, next, x, new) ==
    IF k = 1 THEN x = next[t] /\ new = next
    ELSE x = head /\ new = [next EXCEPT ![c[k - 1]] = next[t]]
Removed(S, t, next, x, new) ==
    HoldsIn(x, new, S \ {t}) /\ \A n \in Ids : n \notin S => new[n] = next[n]

LEMMA Unlink ==
    ASSUME MaxTasks \in Nat, NEW S \in SUBSET Ids, NEW c, Descends(c, S),
           NEW head, NEW next, DOMAIN next = Ids, HoldsIn(head, next, S),
           NEW k \in 1 .. Len(c), NEW t, t = c[k], NEW x, NEW new,
           Unlinked(c, k, t, head, next, x, new)
    PROVE  Removed(S, t, next, x, new)
<1>1. /\ c \in Seq(S) /\ \A i, j \in 1 .. Len(c) : i < j => c[j] < c[i]
      /\ \A n \in S : \E i \in 1 .. Len(c) : c[i] = n
  BY DEF Descends
<1>2. Len(c) \in Nat /\ t \in S /\ \A i \in 1 .. Len(c) : c[i] \in S
  BY <1>1
<1>3. \A n \in S : n \in Nat /\ n # NULL
  BY DEF Ids, NULL
<1>4. /\ head \in S \cup {NULL} /\ \A n \in S : n <= head
      /\ \A n \in S : /\ next[n] \in S \cup {NULL} /\ (next[n] # NULL => next[n] < n)
                      /\ \A m \in S : m < n => m <= next[n]
  BY DEF HoldsIn, IsTop, Older
<1>5. NULL = 0
  BY DEF NULL
<1>6. CASE k = 1
  <2>1. x = next[t] /\ new = next
    BY <1>6 DEF Unlinked
  <2>2. ASSUME NEW n \in S, n # t PROVE n < t
    <3>1. PICK i \in 1 .. Len(c) : c[i] = n
      BY <1>1
    <3>2. 1 < i /\ 1 \in 1 .. Len(c) /\ c[1] = t
      BY <1>2, <1>6, <2>2, <3>1
    <3> QED BY <1>1, <3>1, <3>2
  <2>3. IsTop(x, S \ {t})
    BY <1>2, <1>3, <1>4, <2>1, <2>2 DEF IsTop
  <2>4. ASSUME NEW n \in S \ {t} PROVE IsTop(new[n], Older(S \ {t}, n))
    <3>1. n < t /\ n \in Nat /\ t \in Nat
      BY <1>2, <1>3, <2>2
    <3>2. Older(S \ {t}, n) = Older(S, n)
      BY <3>1 DEF Older
    <3> QED BY <2>1, <3>2 DEF HoldsIn
  <2> QED BY <2>1, <2>3, <2>4 DEF HoldsIn, Removed
<1>7. CASE k # 1
  <2> DEFINE prev == c[k - 1]
  <2>1. x = head /\ new = [next EXCEPT ![prev] = next[t]]
    BY <1>7 DEF Unlinked
  <2>2. /\ k - 1 \in 1 .. Len(c) /\ k \in 1 .. Len(c)
        /\ \A i \in 1 .. Len(c) : i < k - 1 \/ i = k - 1 \/ i = k \/ k < i
    BY <1>2, <1>7
  <2>3. prev \in S /\ t < prev
    <3>1. k - 1 < k
      BY <1>2
    <3> QED BY <1>1, <1>2, <2>2, <3>1
  <2>4. ASSUME NEW n \in S, n # t, n # prev PROVE prev < n \/ n < t
    <3>1. PICK i \in 1 .. Len(c) : c[i] = n
      BY <1>1
    <3>2. i < k - 1 \/ k < i
      BY <2>2, <2>4, <3>1
    <3> QED BY <1>1, <2>2, <3>1, <3>2
  <2> HIDE DEF prev
  <2>5. prev \in Nat /\ t \in Nat /\ prev # t /\ t # NULL
    BY <1>2, <1>3, <2>3
  <2>6. IsTop(x, S \ {t})
    <3>1. head # t
      BY <1>4, <2>3, <2>5
    <3> QED BY <1>4, <2>1, <3>1 DEF IsTop
  <2>7. /\ new[prev] = next[t] /\ \A n \in Ids : n # prev => new[n] = next[n]
    BY <2>1, <2>3
  <2>8. ASSUME NEW n \in S \ {t} PROVE IsTop(new[n], Older(S \ {t}, n))
    <3>1. n \in Nat /\ n \in Ids
      BY <1>3
    <3>2. CASE n = prev
      <4>1. Older(S \ {t}, n) = Older(S, t)
        <5>1. ASSUME NEW m \in S PROVE (m # t /\ m < prev) <=> m < t
          <6>1. m \in Nat
            BY <1>3
          <6> QED BY <2>3, <2>4, <2>5, <6>1
        <5> QED BY <3>2, <5>1 DEF Older
      <4> QED BY <1>2, <2>7, <3>2, <4>1 DEF HoldsIn
    <3>3. CASE n < t
      <4>1. Older(S \ {t}, n) = Older(S, n)
        BY <2>5, <3>1, <3>3 DEF Older
      <4>2. new[n] = next[n]
        BY <2>3, <2>5, <2>7, <3>1, <3>3
      <4> QED BY <4>1, <4>2 DEF HoldsIn
    <3>4. CASE prev < n
      <4>1. new[n] = next[n]
        BY <2>5, <2>7, <3>1, <3>4
      <4>2. prev <= next[n] /\ next[n] \in S \cup {NULL} /\ (next[n] # NULL => next[n] < n)
        BY <1>4, <2>3, <3>4
      <4>3. next[n] \in S /\ next[n] \in Nat /\ next[n] # t
        <5>1. next[n] # NULL
          <6>1. SUFFICES ASSUME next[n] = NULL PROVE FALSE
            OBVIOUS
          <6>2. prev <= NULL
            BY <4>2, <6>1
          <6>3. prev # NULL /\ NULL \in Nat
            BY <1>3, <1>5, <2>3
          <6> QED BY <1>5, <2>5, <6>2, <6>3
        <5>2. next[n] \in S
          BY <4>2, <5>1
        <5>3. next[n] \in Nat
          BY <1>3, <5>2
        <5>4. next[n] # t
          <6>1. SUFFICES ASSUME next[n] = t PROVE FALSE
            OBVIOUS
          <6>2. prev <= t
            BY <4>2, <6>1
          <6> QED BY <2>3, <2>5, <6>2
        <5> QED BY <5>2, <5>3, <5>4
      <4>4. \A m \in S : m < n => m <= next[n]
        BY <1>4
      <4> QED BY <4>1, <4>2, <4>3, <4>4 DEF IsTop, Older
    <3> QED BY <2>4, <3>2, <3>3, <3>4
  <2>9. \A n \in Ids : n \notin S => new[n] = next[n]
    BY <2>3, <2>7
  <2> QED BY <2>6, <2>8, <2>9 DEF HoldsIn, Removed
<1> QED BY <1>6, <1>7

(* FirstNamed finds the task itself when no other of the list has its name.*)
LEMMA FirstNamedIsTask ==
    ASSUME MaxTasks \in Nat, NEW p, NEW S \in SUBSET Ids, Descends(Chain(p), S), NEW t \in S,
           \A n \in S : tasks[n].name = tasks[t].name => n = t
    PROVE  /\ FirstNamed(p, t) \in 1 .. Len(Chain(p))
           /\ Chain(p)[FirstNamed(p, t)] = t
<1> DEFINE c == Chain(p)
           I == {i \in 1 .. Len(c) : tasks[c[i]].name = tasks[t].name}
<1>1. FirstNamed(p, t) = IF I # {} THEN Min(I) ELSE 0
  BY DEF FirstNamed, SelectInSeq
<1>2. /\ c \in Seq(S) /\ \A i, j \in 1 .. Len(c) : i < j => c[j] < c[i]
      /\ \A n \in S : \E i \in 1 .. Len(c) : c[i] = n
  BY DEF Descends
<1>3. PICK k \in 1 .. Len(c) : c[k] = t
  BY <1>2
<1>4. \A i \in 1 .. Len(c) : c[i] \in S /\ c[i] \in Nat
  <2>1. \A n \in S : n \in Nat
    BY DEF Ids
  <2> HIDE DEF c
  <2> QED BY <1>2, <2>1
<1>5. I = {k}
  <2>1. ASSUME NEW i \in I PROVE i = k
    <3>1. c[i] = c[k] /\ i \in 1 .. Len(c) /\ k \in 1 .. Len(c)
      BY <1>3, <1>4
    <3>2. ~ (i < k) /\ ~ (k < i)
      <4> HIDE DEF c
      <4>1. i < k => c[k] < c[i]
        BY <1>2, <3>1
      <4>2. k < i => c[i] < c[k]
        BY <1>2, <3>1
      <4>3. ~ (c[k] < c[i]) /\ ~ (c[i] < c[k])
        BY <1>4, <3>1
      <4> QED BY <4>1, <4>2, <4>3
    <3> QED BY <3>1, <3>2
  <2> QED BY <1>3, <2>1
<1>6. Min(I) = k
  BY <1>5 DEF Min
<1> HIDE DEF I, c
<1>7. FirstNamed(p, t) = k
  BY <1>1, <1>5, <1>6
<1> QED BY <1>3, <1>7 DEF c

-----------------------------------------------------------------------------
(* pickNextTask of the three programs that run a task to its end.          *)
LEMMA ShortestIsFirst ==
    ASSUME MaxTasks \in Nat, NEW S \in SUBSET Ids, S # {}, NEW c, Descends(c, S),
           \A n \in S : tasks[n].burst \in Int
    PROVE  LET t == ShortestJob(c) IN
           /\ t \in S
           /\ \A n \in S : n # t => \/ tasks[t].burst < tasks[n].burst
                                    \/ (tasks[t].burst = tasks[n].burst /\ t < n)
<1> DEFINE L == Len(c)
           first == Head(c)
           f == [n \in S |-> tasks[n].burst]
           best(n, b) == IF tasks[n].burst <= tasks[b].burst THEN n ELSE b
           Eq(g) == g = [k \in 0 .. L |-> IF k = 0 THEN Head(c)
                                          ELSE IF tasks[c[k]].burst <= tasks[g[k - 1]].burst
                                               THEN c[k] ELSE g[k - 1]]
           H == [k \in 1 .. L |-> [b \in S |-> best(c[k], b)]]
           job == CHOOSE g : Eq(g)
<1>1. ShortestJob(c) = job[L]
  BY DEF ShortestJob
<1>2. L \in Nat /\ L >= 1 /\ first \in S /\ \A k \in 1 .. L : c[k] \in S
  BY DescendsEnds
<1>3. H \in [1 .. L -> [S -> S]]
  BY <1>2
<1>4. PICK g \in [0 .. L -> S] : Computes(g, first, H, L)
  <2> HIDE DEF H, first, L
  <2> QED BY <1>2, <1>3, RecursionTo
<1>5. g[0] = first /\ \A k \in 1 .. L : g[k] = best(c[k], g[k - 1])
  <2>1. \A k \in 1 .. L : g[k - 1] \in S /\ H[k][g[k - 1]] = best(c[k], g[k - 1])
    BY <1>2
  <2> HIDE DEF H, first, L
  <2> QED BY <1>4, <2>1 DEF Computes
<1>6. Eq(g)
  <2> HIDE DEF L
  <2> QED BY <1>2, <1>4, <1>5
<1>7. Eq(job)
  <2> HIDE DEF Eq
  <2> QED BY <1>6
<1> HIDE DEF job, L
<1>8. job[0] = first /\ \A k \in 1 .. L : job[k] = best(c[k], job[k - 1])
  <2>1. 0 \in 0 .. L /\ \A k \in 1 .. L : k \in 0 .. L /\ k # 0
    BY <1>2
  <2>2. job = [k \in 0 .. L |->
                  IF k = 0 THEN Head(c)
                  ELSE IF tasks[c[k]].burst <= tasks[job[k - 1]].burst
                       THEN c[k] ELSE job[k - 1]]
    BY ONLY <1>7
  <2> QED BY ONLY <2>1, <2>2
<1>9. \A k \in 0 .. L : k \in {m \in 0 .. L : job[m] \in S}
  <2> DEFINE T == {m \in 0 .. L : job[m] \in S}
  <2>1. 0 \in T
    BY <1>2, <1>8
  <2>2. \A k \in 1 .. L : k - 1 \in T => k \in T
    BY <1>2, <1>8
  <2> HIDE DEF T
  <2>3. \A k \in 0 .. L : k \in T
    BY <1>2, <2>1, <2>2, InductionTo
  <2> QED BY <2>3 DEF T
<1>10. job \in [0 .. L -> S]
  <2>1. job = [k \in 0 .. L |-> job[k]]
    BY <1>7
  <2> QED BY <1>9, <2>1
<1>11. f \in [S -> Int] /\ \A n \in S : f[n] = tasks[n].burst
  OBVIOUS
<1>12. \A k \in 1 .. L : job[k] = IF f[c[k]] <= f[job[k - 1]] THEN c[k] ELSE job[k - 1]
  BY <1>2, <1>8, <1>10, <1>11
<1> HIDE DEF f
<1>13. /\ job[L] \in S
       /\ \A n \in S : n # job[L] => f[job[L]] < f[n] \/ (f[job[L]] = f[n] /\ job[L] < n)
  BY <1>10, <1>11, <1>12, KeepsLeast DEF L
<1> QED BY <1>1, <1>11, <1>13

LEMMA HighestIsFirst ==
    ASSUME MaxTasks \in Nat, NEW S \in SUBSET Ids, S # {}, NEW c, Descends(c, S),
           \A n \in S : tasks[n].priority \in Int
    PROVE  LET t == HighestPriorityJob(c) IN
           /\ t \in S
           /\ \A n \in S : n # t => \/ tasks[t].priority > tasks[n].priority
                                    \/ (tasks[t].priority = tasks[n].priority /\ t < n)
<1> DEFINE L == Len(c)
           first == Head(c)
           f == [n \in S |-> - tasks[n].priority]
           best(n, b) == IF tasks[n].priority >= tasks[b].priority THEN n ELSE b
           Eq(g) == g = [k \in 0 .. L |->
                            IF k = 0 THEN Head(c)
                            ELSE IF tasks[c[k]].priority >= tasks[g[k - 1]].priority
                                 THEN c[k] ELSE g[k - 1]]
           H == [k \in 1 .. L |-> [b \in S |-> best(c[k], b)]]
           job == CHOOSE g : Eq(g)
<1>1. HighestPriorityJob(c) = job[L]
  BY DEF HighestPriorityJob
<1>2. L \in Nat /\ L >= 1 /\ first \in S /\ \A k \in 1 .. L : c[k] \in S
  BY DescendsEnds
<1>3. H \in [1 .. L -> [S -> S]]
  BY <1>2
<1>4. PICK g \in [0 .. L -> S] : Computes(g, first, H, L)
  <2> HIDE DEF H, first, L
  <2> QED BY <1>2, <1>3, RecursionTo
<1>5. g[0] = first /\ \A k \in 1 .. L : g[k] = best(c[k], g[k - 1])
  <2>1. \A k \in 1 .. L : g[k - 1] \in S /\ H[k][g[k - 1]] = best(c[k], g[k - 1])
    BY <1>2
  <2> HIDE DEF H, first, L
  <2> QED BY <1>4, <2>1 DEF Computes
<1>6. Eq(g)
  <2> HIDE DEF L
  <2> QED BY <1>2, <1>4, <1>5
<1>7. Eq(job)
  <2> HIDE DEF Eq
  <2> QED BY <1>6
<1> HIDE DEF job, L
<1>8. job[0] = first /\ \A k \in 1 .. L : job[k] = best(c[k], job[k - 1])
  <2>1. 0 \in 0 .. L /\ \A k \in 1 .. L : k \in 0 .. L /\ k # 0
    BY <1>2
  <2>2. job = [k \in 0 .. L |->
                  IF k = 0 THEN Head(c)
                  ELSE IF tasks[c[k]].priority >= tasks[job[k - 1]].priority
                       THEN c[k] ELSE job[k - 1]]
    BY ONLY <1>7
  <2> QED BY ONLY <2>1, <2>2
<1>9. \A k \in 0 .. L : k \in {m \in 0 .. L : job[m] \in S}
  <2> DEFINE T == {m \in 0 .. L : job[m] \in S}
  <2>1. 0 \in T
    BY <1>2, <1>8
  <2>2. \A k \in 1 .. L : k - 1 \in T => k \in T
    BY <1>2, <1>8
  <2> HIDE DEF T
  <2>3. \A k \in 0 .. L : k \in T
    BY <1>2, <2>1, <2>2, InductionTo
  <2> QED BY <2>3 DEF T
<1>10. job \in [0 .. L -> S]
  <2>1. job = [k \in 0 .. L |-> job[k]]
    BY <1>7
  <2> QED BY <1>9, <2>1
<1>11. f \in [S -> Int] /\ \A n \in S : f[n] = - tasks[n].priority
  OBVIOUS
<1>12. \A k \in 1 .. L : job[k] = IF f[c[k]] <= f[job[k - 1]] THEN c[k] ELSE job[k - 1]
  <2> SUFFICES ASSUME NEW k \in 1 .. L
               PROVE  job[k] = IF f[c[k]] <= f[job[k - 1]] THEN c[k] ELSE job[k - 1]
    OBVIOUS
  <2>1. c[k] \in S /\ job[k - 1] \in S
    BY <1>2, <1>10
  <2> QED BY <1>8, <1>11, <2>1
<1> HIDE DEF f
<1>13. /\ job[L] \in S
       /\ \A n \in S : n # job[L] => f[job[L]] < f[n] \/ (f[job[L]] = f[n] /\ job[L] < n)
  BY <1>10, <1>11, <1>12, KeepsLeast DEF L
<1> QED BY <1>1, <1>11, <1>13

LEMMA PickIsFirst ==
    ASSUME MaxTasks \in Nat, NEW S \in SUBSET Ids, S # {}, NEW c, Descends(c, S),
           \A n \in S : tasks[n].burst \in Int /\ tasks[n].priority \in Int,
           policy \in {"fcfs", "sjf", "priority"}
    PROVE  /\ pickNextTask(c) \in S
           /\ \A n \in S : n # pickNextTask(c) => Precedes(pickNextTask(c), n)
<1>1. \A n \in S : n \in Nat
  BY DEF Ids
<1>2. CASE policy = "fcfs"
  <2>1. pickNextTask(c) = c[Len(c)]
    BY <1>2 DEF pickNextTask, Oldest, Last
  <2>2. c[Len(c)] \in S /\ \A n \in S : c[Len(c)] <= n
    BY DescendsEnds
  <2> QED BY <1>1, <1>2, <2>1, <2>2 DEF Precedes
<1>3. CASE policy = "sjf"
  <2>1. pickNextTask(c) = ShortestJob(c)
    BY <1>3 DEF pickNextTask
  <2> QED BY <1>3, <2>1, ShortestIsFirst DEF Precedes
<1>4. CASE policy = "priority"
  <2>1. pickNextTask(c) = HighestPriorityJob(c)
    BY <1>4 DEF pickNextTask
  <2> QED BY <1>4, <2>1, HighestIsFirst DEF Precedes
<1> QED BY <1>2, <1>3, <1>4
-----------------------------------------------------------------------------
(* The output: the turns of a task and what it was served.                 *)
Turns == [task : Ids, slice : Nat]
TurnsIn(r, t) == {k \in DOMAIN r : r[k].task = t}
ServedIn(r, t) ==
    LET served[k \in 0 .. Len(r)] ==
            IF k = 0 THEN 0
            ELSE served[k - 1] + (IF r[k].task = t THEN r[k].slice ELSE 0)
    IN served[Len(r)]

LEMMA ServedSteps ==
    ASSUME NEW r \in Seq(Turns), NEW t
    PROVE  \E s \in [0 .. Len(r) -> Nat] :
               /\ s[0] = 0
               /\ \A k \in 1 .. Len(r) :
                      s[k] = s[k - 1] + (IF r[k].task = t THEN r[k].slice ELSE 0)
               /\ ServedIn(r, t) = s[Len(r)]
<1> DEFINE L == Len(r)
           zero == 0
           inc(k) == IF r[k].task = t THEN r[k].slice ELSE 0
           Eq(g) == g = [k \in 0 .. L |-> IF k = 0 THEN 0
                                          ELSE g[k - 1] + (IF r[k].task = t THEN r[k].slice
                                                           ELSE 0)]
           H == [k \in 1 .. L |-> [x \in Nat |-> x + inc(k)]]
           served == CHOOSE g : Eq(g)
<1>1. ServedIn(r, t) = served[L]
  BY DEF ServedIn
<1>2. L \in Nat /\ \A k \in 1 .. L : inc(k) \in Nat
  <2> SUFFICES ASSUME NEW k \in 1 .. Len(r) PROVE inc(k) \in Nat
    OBVIOUS
  <2>1. r[k] \in Turns
    OBVIOUS
  <2>2. r[k].slice \in Nat
    BY <2>1 DEF Turns
  <2> QED BY <2>2
<1>3. H \in [1 .. L -> [Nat -> Nat]]
  <2> HIDE DEF L, inc
  <2> QED BY <1>2
<1>4. PICK s \in [0 .. L -> Nat] : Computes(s, zero, H, L)
  <2>1. zero \in Nat
    OBVIOUS
  <2> HIDE DEF H, L, zero
  <2> QED BY <1>2, <1>3, <2>1, RecursionTo
<1>5. s[0] = 0 /\ \A k \in 1 .. L : s[k] = s[k - 1] + inc(k)
  <2> HIDE DEF L, inc
  <2>1. ASSUME NEW k \in 1 .. L PROVE H[k][s[k - 1]] = s[k - 1] + inc(k)
    <3>1. s[k - 1] \in Nat /\ H[k] = [x \in Nat |-> x + inc(k)]
      BY <1>2
    <3> QED BY <3>1
  <2> HIDE DEF H
  <2> QED BY <1>4, <2>1 DEF Computes
<1>6. Eq(s)
  <2> HIDE DEF L
  <2> QED BY <1>2, <1>4, <1>5
<1>7. Eq(served)
  <2> HIDE DEF Eq
  <2> QED BY <1>6
<1> HIDE DEF served, L
<1>8. served[0] = 0 /\ \A k \in 1 .. L : served[k] = served[k - 1] + inc(k)
  <2>1. 0 \in 0 .. L /\ \A k \in 1 .. L : k \in 0 .. L /\ k # 0
    BY <1>2
  <2>2. served = [k \in 0 .. L |->
                     IF k = 0 THEN 0
                     ELSE served[k - 1] + (IF r[k].task = t THEN r[k].slice ELSE 0)]
    BY ONLY <1>7
  <2> QED BY ONLY <2>1, <2>2
<1>9. \A k \in 0 .. L : k \in {m \in 0 .. L : served[m] = s[m]}
  <2> DEFINE T == {m \in 0 .. L : served[m] = s[m]}
  <2> HIDE DEF inc
  <2>1. 0 \in T
    BY <1>2, <1>5, <1>8
  <2>2. \A k \in 1 .. L : k - 1 \in T => k \in T
    BY <1>2, <1>5, <1>8
  <2> HIDE DEF T
  <2>3. \A k \in 0 .. L : k \in T
    BY <1>2, <2>1, <2>2, InductionTo
  <2> QED BY <2>3 DEF T
<1>10. ServedIn(r, t) = s[L]
  BY <1>1, <1>2, <1>9
<1> QED BY <1>5, <1>10 DEF L

(* One more turn.                                                          *)
LEMMA ServedAppend ==
    ASSUME NEW r \in Seq(Turns), NEW t, NEW e \in Turns
    PROVE  /\ ServedIn(r, t) \in Nat
           /\ ServedIn(Append(r, e), t)
                  = ServedIn(r, t) + (IF e.task = t THEN e.slice ELSE 0)
<1> DEFINE q == Append(r, e)
           L == Len(r)
           M == L + 1
<1>1. q \in Seq(Turns) /\ Len(q) = M /\ L \in Nat /\ q[M] = e /\ \A k \in 1 .. L : q[k] = r[k]
  OBVIOUS
<1> HIDE DEF q
<1>2. PICK s \in [0 .. L -> Nat] :
          /\ s[0] = 0
          /\ \A k \in 1 .. L : s[k] = s[k - 1] + (IF r[k].task = t THEN r[k].slice ELSE 0)
          /\ ServedIn(r, t) = s[L]
  BY ServedSteps
<1>3. PICK u \in [0 .. M -> Nat] :
          /\ u[0] = 0
          /\ \A k \in 1 .. M : u[k] = u[k - 1] + (IF q[k].task = t THEN q[k].slice ELSE 0)
          /\ ServedIn(q, t) = u[M]
  BY <1>1, ServedSteps
<1> HIDE DEF L
<1>4. \A k \in 0 .. L : k \in {m \in 0 .. L : u[m] = s[m]}
  <2> DEFINE T == {m \in 0 .. L : u[m] = s[m]}
  <2>1. 0 \in T
    BY <1>1, <1>2, <1>3
  <2>2. ASSUME NEW k \in 1 .. L, k - 1 \in T PROVE k \in T
    <3>1. u[k - 1] = s[k - 1] /\ q[k] = r[k] /\ k \in 1 .. M
      BY <1>1, <2>2
    <3> QED BY <1>2, <1>3, <3>1
  <2> HIDE DEF T
  <2>3. \A k \in 0 .. L : k \in T
    BY <1>1, <2>1, <2>2, InductionTo
  <2> QED BY <2>3 DEF T
<1>5. u[L] = s[L] /\ L = M - 1 /\ M \in 1 .. M
  BY <1>1, <1>4
<1>6. u[M] = u[L] + (IF e.task = t THEN e.slice ELSE 0)
  BY <1>1, <1>3, <1>5
<1>7. s[L] \in Nat
  BY <1>1, <1>2
<1> QED BY <1>2, <1>3, <1>5, <1>6, <1>7 DEF q

LEMMA TurnsAppend ==
    ASSUME NEW r \in Seq(Turns), NEW t, NEW e \in Turns
    PROVE  /\ Cardinality(TurnsIn(r, t)) \in Nat
           /\ TurnsIn(r, t) # {} => Cardinality(TurnsIn(r, t)) >= 1
           /\ TurnsIn(r, t) = {} => Cardinality(TurnsIn(r, t)) = 0
           /\ (TurnsIn(Append(r, e), t) # {}) <=> (TurnsIn(r, t) # {} \/ e.task = t)
           /\ Cardinality(TurnsIn(Append(r, e), t))
                  = Cardinality(TurnsIn(r, t)) + (IF e.task = t THEN 1 ELSE 0)
<1> DEFINE q == Append(r, e)
           L == Len(r)
           M == L + 1
           A == TurnsIn(r, t)
<1>1. /\ DOMAIN q = 1 .. M /\ DOMAIN r = 1 .. L /\ L \in Nat /\ q[M] = e
      /\ \A k \in 1 .. L : q[k] = r[k]
  OBVIOUS
<1>2. 1 .. M = 1 .. L \cup {M} /\ M \notin 1 .. L
  BY <1>1
<1> HIDE DEF q, L, M
<1>3. /\ A \subseteq 1 .. L /\ M \notin A
      /\ TurnsIn(q, t) = IF e.task = t THEN A \cup {M} ELSE A
  BY <1>1, <1>2 DEF TurnsIn
<1>4. IsFiniteSet(A)
  <2>1. IsFiniteSet(1 .. L)
    <3>1. 1 \in Int /\ L \in Int
      BY <1>1
    <3> QED BY <3>1, FS_Interval
  <2> QED BY <1>3, <2>1, FS_Subset
<1> HIDE DEF A
<1>5. /\ Cardinality(A) \in Nat /\ (A = {} <=> Cardinality(A) = 0)
      /\ Cardinality(A \cup {M}) = Cardinality(A) + 1
  BY <1>3, <1>4, FS_CardinalityType, FS_EmptySet, FS_AddElement
<1> QED BY <1>3, <1>5 DEF A, q

-----------------------------------------------------------------------------
(* The invariant of the schedulers.                                        *)

(* No two lines of the input may hold the same name.                       *)
NamesApart == \A m, n \in Ids : m # n => LineNames[m] \cap LineNames[n] = {}

(* A task is gone when it ran for the last time.                           *)
Gone(t) == TurnsIn(ran, t) # {} /\ (TimeSliced => remaining_burst[t] = 0)
Waiting(p) == {n \in Read : Rank(n) = p /\ ~Gone(n)}

Lines ==
    /\ tasks \in Seq([name : Names, priority : Priorities, burst : Bursts])
    /\ Len(tasks) <= MaxTasks
    /\ \A n \in Read : tasks[n].name \in LineNames[n] /\ tasks[n].priority \in Lists
Types ==
    /\ policy \in Policies /\ phase \in {"reading", "scheduling", "done"}
    /\ remaining_burst \in [Ids -> Nat]
    /\ \A n \in Ids : remaining_burst[n] <= IF n \in Read THEN tasks[n].burst ELSE 0
    /\ taskList \in [Lists -> Ids \cup {NULL}] /\ link \in [Ids -> Ids \cup {NULL}]
    /\ next_node \in Ids \cup {NULL} /\ level \in Lists
    /\ ran \in Seq(Turns) /\ \A k \in DOMAIN ran : ran[k].task \in Read

(* Each list holds the tasks of its priority that wait.                    *)
Listed == \A p \in Lists : Holds(p, Waiting(p))
NoneRan ==
    phase = "reading" =>
        ran = <<>> /\ \A n \in Read : remaining_burst[n] = tasks[n].burst
Accounts ==
    \A t \in Read :
        ServedIn(ran, t) = IF TimeSliced THEN tasks[t].burst - remaining_burst[t]
                           ELSE IF TurnsIn(ran, t) = {} THEN 0 ELSE tasks[t].burst

(* Tasks above the level are gone, tasks below it have not run.            *)
Levels ==
    /\ phase = "reading" \/ policy # "priority_rr" => level = 0
    /\ phase # "reading" /\ policy = "priority_rr" => MIN_PRIORITY <= level
    /\ phase = "done" /\ policy = "priority_rr" => level = MIN_PRIORITY
    /\ \A t \in Read : /\ phase # "reading" /\ Rank(t) > level => Gone(t)
                       /\ phase = "done" /\ Rank(t) = level => Gone(t)
                       /\ Rank(t) < level => TurnsIn(ran, t) = {}

(* next_node points to a task that waits.                                  *)
Cursor ==
    phase = "scheduling" /\ TimeSliced /\ Waiting(level) # {} => next_node \in Waiting(level)

(* Who ran before whom: Precedes, of a policy and tasks.                   *)
Comes(how, given, s, t) ==
    CASE how = "fcfs" -> s < t
      [] how = "sjf" -> \/ given[s].burst < given[t].burst
                        \/ given[s].burst = given[t].burst /\ s < t
      [] how = "priority" -> \/ given[s].priority > given[t].priority
                             \/ given[s].priority = given[t].priority /\ s < t
Order ==
    ~TimeSliced =>
        /\ \A i, j \in DOMAIN ran :
               i < j => Comes(policy, tasks, ran[i].task, ran[j].task)
        /\ \A i \in DOMAIN ran, n \in Waiting(0) : Comes(policy, tasks, ran[i].task, n)

(* The tasks past next_node have had a turn more than the others; a task   *)
(* that is gone has had no more than they.                                 *)
Round(c) ==
    \A n \in Read : Rank(n) = level =>
        IF Gone(n) THEN Cardinality(TurnsIn(ran, n)) <= c + 1
        ELSE Cardinality(TurnsIn(ran, n)) = IF n > next_node THEN c + 1 ELSE c
Rounds == phase = "scheduling" /\ TimeSliced => \E c \in Nat : Round(c)

SchedInv ==
    /\ Lines /\ Types /\ Listed /\ NoneRan /\ Accounts /\ Levels /\ Cursor /\ Order
    /\ Rounds
-----------------------------------------------------------------------------
LEMMA WaitingIds ==
    ASSUME MaxTasks \in Nat, Lines
    PROVE  /\ Read = 1 .. Len(tasks) /\ Read \subseteq Ids /\ Len(tasks) \in Nat
           /\ \A p : Waiting(p) \in SUBSET Ids /\ Waiting(p) \subseteq Read
<1>1. Len(tasks) \in Nat /\ Read = 1 .. Len(tasks)
  BY DEF Lines, Read
<1>2. Read \subseteq Ids
  BY <1>1 DEF Lines, Ids
<1> QED BY <1>1, <1>2 DEF Waiting

LEMMA RankIsList ==
    ASSUME SchedulerAssumption, Lines
    PROVE  /\ \A t \in Read : /\ Rank(t) = ListOf(tasks[t].priority) /\ Rank(t) \in Lists
                              /\ Rank(t) \in Nat
           /\ 0 \in Lists /\ MAX_PRIORITY \in Lists /\ \A p \in Lists : p \in Nat
<1>1. 0 \in Lists /\ MAX_PRIORITY \in Lists /\ \A p \in Lists : p \in Nat
  BY DEF SchedulerAssumption, Lists
<1> QED BY <1>1 DEF Lines, Rank, ListOf

LEMMA TaskFields ==
    ASSUME SchedulerAssumption, Lines
    PROVE  \A n \in Read : tasks[n].burst \in Nat /\ tasks[n].priority \in Nat
<1> SUFFICES ASSUME NEW n \in Read
             PROVE  tasks[n].burst \in Nat /\ tasks[n].priority \in Nat
  OBVIOUS
<1> DEFINE R == [name : Names, priority : Priorities, burst : Bursts]
<1>1. tasks[n] \in R
  <2>1. tasks \in Seq(R) /\ n \in 1 .. Len(tasks)
    BY WaitingIds DEF Lines, SchedulerAssumption
  <2> HIDE DEF R
  <2> QED BY <2>1
<1>2. tasks[n].burst \in Nat
  BY <1>1 DEF SchedulerAssumption
<1>3. tasks[n].priority \in 0 .. MAX_PRIORITY /\ MAX_PRIORITY \in Nat
  BY DEF Lines, Lists, SchedulerAssumption
<1> QED BY <1>2, <1>3

LEMMA TopHead ==
    ASSUME MaxTasks \in Nat, NEW p, NEW S \in SUBSET Ids, Holds(p, S)
    PROVE  /\ taskList[p] = NULL <=> S = {}
           /\ taskList[p] # NULL => taskList[p] \in S
           /\ \A y \in S : y <= taskList[p]
<1>1. \A y \in S : y \in Nat /\ y >= 1
  BY DEF Ids
<1> QED BY <1>1 DEF Holds, HoldsIn, IsTop, NULL

LEMMA SameHolds ==
    ASSUME NEW head, NEW next, NEW new, NEW S, HoldsIn(head, next, S),
           \A n \in S : new[n] = next[n]
    PROVE  HoldsIn(head, new, S)
  BY DEF HoldsIn

LEMMA PushHolds ==
    ASSUME MaxTasks \in Nat, NEW S \in SUBSET Ids, NEW n \in Ids, \A y \in S : y < n,
           NEW head, NEW next, DOMAIN next = Ids, HoldsIn(head, next, S)
    PROVE  HoldsIn(n, [next EXCEPT ![n] = head], S \cup {n})
<1> DEFINE new == [next EXCEPT ![n] = head]
           T == S \cup {n}
<1>1. \A y \in T : y \in Nat
  BY DEF Ids
<1>2. n \notin S /\ IsTop(n, T)
  BY <1>1 DEF IsTop
<1>3. Older(T, n) = S /\ \A y \in S : Older(T, y) = Older(S, y)
  BY <1>1 DEF Older
<1>4. new[n] = head /\ \A y \in S : new[y] = next[y]
  BY <1>2
<1> HIDE DEF new
<1> QED BY <1>2, <1>3, <1>4 DEF HoldsIn

(* delete takes the task out of its list, whichever task of it.            *)
LEMMA DeleteHolds ==
    ASSUME SchedulerAssumption, NamesApart, Lines, Types, Listed,
           NEW p \in Lists, NEW t \in Waiting(p), delete(p, t)
    PROVE  /\ taskList' \in [Lists -> Ids \cup {NULL}] /\ link' \in [Ids -> Ids \cup {NULL}]
           /\ \A q \in Lists : HoldsIn(taskList'[q], link', Waiting(q) \ {t})
<1> DEFINE S == Waiting(p)
           c == Chain(p)
           k == FirstNamed(p, t)
<1>1. MaxTasks \in Nat /\ S \in SUBSET Ids /\ S \subseteq Read /\ Read \subseteq Ids
  BY WaitingIds DEF SchedulerAssumption
<1>2. Descends(c, S)
  BY <1>1, ChainDescends DEF Listed
<1>3. \A n \in S : tasks[n].name = tasks[t].name => n = t
  BY <1>1 DEF Lines, NamesApart
<1>4. k \in 1 .. Len(c) /\ c[k] = t
  BY <1>1, <1>2, <1>3, FirstNamedIsTask
<1>5. Len(c) \in Nat /\ \A i \in 1 .. Len(c) : c[i] \in S
  BY <1>2 DEF Descends
<1>6. IF k = 1 THEN taskList' = [taskList EXCEPT ![p] = link[t]] /\ link' = link
      ELSE link' = [link EXCEPT ![c[k - 1]] = link[t]] /\ taskList' = taskList
  BY <1>4 DEF delete
<1> HIDE DEF k, c, S
<1>7. /\ taskList \in [Lists -> Ids \cup {NULL}] /\ link \in [Ids -> Ids \cup {NULL}]
      /\ t \in Ids
  BY <1>1 DEF Types, S
<1>8. taskList' \in [Lists -> Ids \cup {NULL}] /\ link' \in [Ids -> Ids \cup {NULL}]
  BY <1>6, <1>7
<1>9. HoldsIn(taskList[p], link, S)
  BY DEF Listed, Holds, S
<1>10. IF k = 1 THEN taskList'[p] = link[t] /\ link' = link
       ELSE taskList'[p] = taskList[p] /\ link' = [link EXCEPT ![c[k - 1]] = link[t]]
  BY <1>6, <1>7
<1>11. /\ HoldsIn(taskList'[p], link', S \ {t})
       /\ \A n \in Ids : n \notin S => link'[n] = link[n]
  <2> DEFINE x == taskList'[p]
             new == link'
             head == taskList[p]
  <2>1. IF k = 1 THEN x = link[t] /\ new = link
        ELSE x = head /\ new = [link EXCEPT ![c[k - 1]] = link[t]]
    BY <1>10
  <2>2. HoldsIn(head, link, S) /\ DOMAIN link = Ids /\ t = c[k]
    BY <1>4, <1>7, <1>9
  <2> HIDE DEF x, new, head
  <2>3. Removed(S, t, link, x, new)
    <3>1. /\ MaxTasks \in Nat /\ S \in SUBSET Ids /\ Descends(c, S) /\ k \in 1 .. Len(c)
          /\ DOMAIN link = Ids /\ t = c[k] /\ HoldsIn(head, link, S)
      BY <1>1, <1>2, <1>4, <2>2
    <3>2. Unlinked(c, k, t, head, link, x, new)
      BY <2>1 DEF Unlinked
    <3> QED BY ONLY <3>1, <3>2, Unlink
  <2> QED BY <2>3 DEF x, new, Removed
<1>12. ASSUME NEW q \in Lists, q # p PROVE HoldsIn(taskList'[q], link', Waiting(q) \ {t})
  <2>1. taskList'[q] = taskList[q]
    BY <1>6, <1>7, <1>12
  <2>2. Waiting(q) \ {t} = Waiting(q) /\ \A n \in Waiting(q) : n \notin S /\ n \in Ids
    BY <1>1, <1>12 DEF Waiting, S
  <2>3. HoldsIn(taskList[q], link, Waiting(q)) /\ \A n \in Waiting(q) : link'[n] = link[n]
    BY <1>11, <2>2 DEF Listed, Holds
  <2> DEFINE new == link'
             head == taskList[q]
             W == Waiting(q)
  <2> HIDE DEF new, head, W
  <2>4. HoldsIn(head, new, W)
    BY <2>3, SameHolds DEF new, head, W
  <2> QED BY <2>1, <2>2, <2>4 DEF new, head, W
<1> QED BY <1>8, <1>11, <1>12 DEF S

-----------------------------------------------------------------------------
(* The steps.                                                              *)
LEMMA NoTurns ==
    ASSUME NEW t
    PROVE  /\ <<>> \in Seq(Turns) /\ TurnsIn(<<>>, t) = {} /\ ServedIn(<<>>, t) = 0
           /\ Cardinality(TurnsIn(<<>>, t)) = 0
<1> DEFINE r == <<>>
<1>1. r \in Seq(Turns) /\ Len(r) = 0 /\ DOMAIN r = {}
  OBVIOUS
<1> HIDE DEF r
<1>2. TurnsIn(r, t) = {}
  BY <1>1 DEF TurnsIn
<1>3. PICK s \in [0 .. Len(r) -> Nat] :
          /\ s[0] = 0
          /\ \A k \in 1 .. Len(r) :
                 s[k] = s[k - 1] + (IF r[k].task = t THEN r[k].slice ELSE 0)
          /\ ServedIn(r, t) = s[Len(r)]
  BY <1>1, ServedSteps
<1> QED BY <1>1, <1>2, <1>3, FS_EmptySet DEF r

LEMMA InitInv ==
    ASSUME SchedulerAssumption, SchedInit
    PROVE  SchedInv
<1>1. /\ policy \in Policies /\ phase = "reading" /\ tasks = <<>>
      /\ remaining_burst = [n \in Ids |-> 0] /\ taskList = [p \in Lists |-> NULL]
      /\ link = [n \in Ids |-> NULL] /\ next_node = NULL /\ level = 0 /\ ran = <<>>
  BY DEF SchedInit
<1>2. Read = {} /\ Len(tasks) = 0
  BY <1>1 DEF Read
<1>3. Lines
  BY <1>1, <1>2 DEF Lines, SchedulerAssumption
<1>4. Types
  BY <1>1, <1>2, RankIsList, <1>3, NoTurns DEF Types
<1>5. \A p : Waiting(p) = {}
  BY <1>2 DEF Waiting
<1>6. Listed
  BY <1>1, <1>5 DEF Listed, Holds, HoldsIn, IsTop
<1>7. NoneRan /\ Accounts /\ Levels /\ Cursor /\ Order /\ Rounds
  BY <1>1, <1>2, <1>5 DEF NoneRan, Accounts, Levels, Cursor, Order, Rounds
<1> QED BY <1>3, <1>4, <1>6, <1>7 DEF SchedInv

LEMMA AddInv ==
    ASSUME SchedulerAssumption, SchedInv,
           NEW name, NEW priority, NEW burst \in Bursts, add(name, priority, burst)
    PROVE  SchedInv'
<1> DEFINE list == ListOf(priority)
           line == [name |-> name, priority |-> priority, burst |-> burst]
<1>1. PICK n :
      /\ n = Len(tasks) + 1 /\ phase = "reading" /\ n <= MaxTasks
      /\ name \in LineNames[n] /\ priority \in LinePriorities[n]
      /\ tasks' = Append(tasks, line)
      /\ remaining_burst' = [remaining_burst EXCEPT ![n] = burst]
      /\ link' = [link EXCEPT ![n] = taskList[list]]
      /\ taskList' = [taskList EXCEPT ![list] = n]
      /\ policy' = policy /\ phase' = phase /\ next_node' = next_node /\ level' = level
      /\ ran' = ran
  BY DEF add, insert
<1>2. Lines /\ Types /\ Listed /\ NoneRan /\ Levels
  BY DEF SchedInv
<1>3. MaxTasks \in Nat /\ Bursts \subseteq Nat
  BY DEF SchedulerAssumption
<1>4. /\ Read = 1 .. Len(tasks) /\ Read \subseteq Ids /\ Len(tasks) \in Nat
      /\ \A p : Waiting(p) \in SUBSET Ids /\ Waiting(p) \subseteq Read
  BY <1>2, <1>3, WaitingIds
<1>5. n \in Ids /\ n \notin Read /\ n \in Nat /\ \A m \in Read : m < n /\ m # n
  BY <1>1, <1>3, <1>4 DEF Ids
<1>6. name \in Names /\ priority \in Priorities /\ priority \in Lists /\ list \in Lists
  <2>1. n \in DOMAIN LineNames /\ n \in DOMAIN LinePriorities /\ LinePriorities[n] \subseteq Lists
    BY <1>5 DEF SchedulerAssumption, Ids, Lists
  <2>2. 0 \in Lists
    BY <1>2, RankIsList
  <2> QED BY <1>1, <2>1, <2>2 DEF Names, Priorities, Range, ListOf
<1>7. line \in [name : Names, priority : Priorities, burst : Bursts]
  BY <1>6
<1>8. line.name = name /\ line.priority = priority /\ line.burst = burst
  OBVIOUS
<1> HIDE DEF line
<1>9. /\ tasks' \in Seq([name : Names, priority : Priorities, burst : Bursts])
      /\ Len(tasks') = n /\ Read' = Read \cup {n}
      /\ tasks'[n] = line /\ \A m \in Read : tasks'[m] = tasks[m]
  <2>1. tasks \in Seq([name : Names, priority : Priorities, burst : Bursts])
    BY <1>2 DEF Lines
  <2>2. Len(tasks') = n
    BY <1>1, <1>7, <2>1
  <2>3. tasks' \in Seq([name : Names, priority : Priorities, burst : Bursts])
    BY <1>1, <1>7, <2>1
  <2>4. Read' = 1 .. n
    BY <2>2, <2>3 DEF Read
  <2>5. tasks'[n] = line /\ \A m \in Read : tasks'[m] = tasks[m]
    BY <1>1, <1>4, <1>7, <2>1
  <2>6. 1 .. n = 1 .. Len(tasks) \cup {n}
    BY <1>1, <1>4
  <2> QED BY <1>4, <2>2, <2>3, <2>4, <2>5, <2>6
<1>10. Lines'
  BY <1>1, <1>2, <1>3, <1>5, <1>6, <1>8, <1>9 DEF Lines
<1>11. ran = <<>> /\ ran' = <<>>
  BY <1>1, <1>2 DEF NoneRan
<1>12. \A m : m \in Read => remaining_burst[m] = tasks[m].burst
  BY <1>1, <1>2 DEF NoneRan
<1>13. Types'
  <2>1. remaining_burst' \in [Ids -> Nat]
    BY <1>1, <1>2, <1>3 DEF Types
  <2>2. ASSUME NEW m \in Ids
        PROVE  remaining_burst'[m] <= IF m \in Read' THEN tasks'[m].burst ELSE 0
    <3>1. CASE m = n
      BY <1>1, <1>2, <1>3, <1>8, <1>9, <3>1 DEF Types
    <3>2. CASE m # n
      <4>1. remaining_burst'[m] = remaining_burst[m] /\ (m \in Read' <=> m \in Read)
        BY <1>1, <1>2, <1>9, <3>2 DEF Types
      <4> QED BY <1>2, <1>9, <4>1 DEF Types
    <3> QED BY <3>1, <3>2
  <2>3. taskList' \in [Lists -> Ids \cup {NULL}] /\ link' \in [Ids -> Ids \cup {NULL}]
    BY <1>1, <1>2, <1>5, <1>6 DEF Types
  <2>4. ran' \in Seq(Turns) /\ \A k \in DOMAIN ran' : ran'[k].task \in Read'
    BY <1>11, NoTurns
  <2> QED BY <1>1, <1>2, <2>1, <2>2, <2>3, <2>4 DEF Types
<1>14. \A m : ~ Gone(m) /\ ~ Gone(m)' /\ TurnsIn(ran, m) = {} /\ TurnsIn(ran', m) = {}
  BY <1>11, NoTurns DEF Gone
<1>15. /\ Rank(n)' = list /\ \A m \in Read : Rank(m)' = Rank(m)
  BY <1>1, <1>8, <1>9 DEF Rank, ListOf
<1>16. ASSUME NEW p
       PROVE  Waiting(p)' = IF p = list THEN Waiting(p) \cup {n} ELSE Waiting(p)
  BY <1>9, <1>14, <1>15 DEF Waiting
<1>17. Listed'
  <2> SUFFICES ASSUME NEW p \in Lists PROVE HoldsIn(taskList'[p], link', Waiting(p)')
    BY DEF Listed, Holds
  <2> DEFINE W == Waiting(p)
             head == taskList[p]
             new == link'
  <2>1. HoldsIn(head, link, W) /\ W \in SUBSET Ids /\ W \subseteq Read
    BY <1>2, <1>4 DEF Listed, Holds
  <2>2. CASE p = list
    <3>1. taskList'[p] = n /\ new = [link EXCEPT ![n] = head] /\ DOMAIN link = Ids
      BY <1>1, <1>2, <2>2 DEF Types
    <3>2. \A y \in W : y < n
      BY <1>5, <2>1
    <3>3. Waiting(p)' = W \cup {n}
      BY <1>16, <2>2
    <3> HIDE DEF W, head, new
    <3>4. HoldsIn(n, [link EXCEPT ![n] = head], W \cup {n})
      BY <1>3, <1>5, <2>1, <3>1, <3>2, PushHolds
    <3> QED BY <3>1, <3>3, <3>4 DEF new
  <2>3. CASE p # list
    <3>1. taskList'[p] = head /\ \A m \in W : new[m] = link[m]
      BY <1>1, <1>2, <1>4, <1>5, <2>1, <2>3 DEF Types
    <3>2. Waiting(p)' = W
      BY <1>16, <2>3
    <3> HIDE DEF W, head, new
    <3>3. HoldsIn(head, new, W)
      BY <2>1, <3>1, SameHolds
    <3> QED BY <3>1, <3>2, <3>3 DEF new
  <2> QED BY <2>2, <2>3
<1>18. NoneRan'
  <2> SUFFICES ASSUME NEW m \in Read' PROVE remaining_burst'[m] = tasks'[m].burst
    BY <1>11 DEF NoneRan
  <2>1. CASE m = n
    BY <1>1, <1>2, <1>5, <1>8, <1>9, <2>1 DEF Types
  <2>2. CASE m # n
    <3>1. m \in Read /\ remaining_burst'[m] = remaining_burst[m]
      BY <1>1, <1>2, <1>9, <2>2 DEF Types
    <3> QED BY <1>9, <1>12, <3>1
  <2> QED BY <2>1, <2>2
<1>19. Accounts'
  <2> SUFFICES ASSUME NEW m \in Read'
               PROVE  ServedIn(ran', m) = IF TimeSliced' THEN tasks'[m].burst - remaining_burst'[m]
                                          ELSE IF TurnsIn(ran', m) = {} THEN 0 ELSE tasks'[m].burst
    BY DEF Accounts
  <2>1. remaining_burst'[m] = tasks'[m].burst /\ remaining_burst'[m] \in Nat
    BY <1>1, <1>4, <1>5, <1>9, <1>13, <1>18 DEF NoneRan, Types
  <2> QED BY <1>11, <2>1, NoTurns
<1>20. Levels'
  <2>1. level' = 0 /\ phase' = "reading"
    BY <1>1, <1>2 DEF Levels
  <2> QED BY <1>1, <1>14, <2>1 DEF Levels
<1>21. Cursor' /\ Rounds'
  BY <1>1 DEF Cursor, Rounds
<1>22. Order'
  BY <1>11 DEF Order
<1> QED BY <1>10, <1>13, <1>17, <1>18, <1>19, <1>20, <1>21, <1>22 DEF SchedInv

(* Nothing changes about the tasks and the lists.                          *)
LEMMA SameLists ==
    ASSUME Lines, Listed, Accounts, Order,
           UNCHANGED <<policy, tasks, remaining_burst, taskList, link, ran>>
    PROVE  /\ Lines' /\ Listed' /\ Accounts' /\ Order' /\ Read' = Read
           /\ (TimeSliced' <=> TimeSliced)
           /\ \A n : /\ (Gone(n)' <=> Gone(n)) /\ Rank(n)' = Rank(n)
                     /\ TurnsIn(ran, n)' = TurnsIn(ran, n)
           /\ \A p : Waiting(p)' = Waiting(p)
<1>1. /\ policy' = policy /\ tasks' = tasks /\ remaining_burst' = remaining_burst
      /\ taskList' = taskList /\ link' = link /\ ran' = ran
  OBVIOUS
<1>2. Read' = Read /\ (TimeSliced' <=> TimeSliced)
  BY <1>1 DEF Read, TimeSliced
<1>3. \A n : TurnsIn(ran, n)' = TurnsIn(ran, n) /\ ServedIn(ran, n)' = ServedIn(ran, n)
  BY <1>1 DEF TurnsIn, ServedIn
<1>4. \A n : (Gone(n)' <=> Gone(n)) /\ Rank(n)' = Rank(n)
  BY <1>1, <1>2, <1>3 DEF Gone, Rank
<1>5. \A p : Waiting(p)' = Waiting(p)
  BY <1>2, <1>4 DEF Waiting
<1>6. Lines'
  BY <1>1, <1>2 DEF Lines
<1>7. Listed'
  <2> SUFFICES ASSUME NEW p \in Lists PROVE HoldsIn(taskList'[p], link', Waiting(p)')
    BY DEF Listed, Holds
  <2> QED BY <1>1, <1>5 DEF Listed, Holds
<1>8. Accounts'
  BY <1>1, <1>2, <1>3 DEF Accounts
<1>10. Order'
  BY <1>1, <1>2, <1>5 DEF Order
<1> QED BY <1>2, <1>3, <1>4, <1>5, <1>6, <1>7, <1>8, <1>10

(* The first turn of a level: none of its tasks has run.                   *)
LEMMA FirstRound ==
    ASSUME SchedulerAssumption, Lines, Listed, NEW p \in Lists,
           \A t \in Read : Rank(t) = p => TurnsIn(ran, t) = {},
           Read' = Read, \A n : (Gone(n)' <=> Gone(n)) /\ Rank(n)' = Rank(n),
           \A n : TurnsIn(ran, n)' = TurnsIn(ran, n), \A q : Waiting(q)' = Waiting(q),
           level' = p, next_node' = taskList[p]
    PROVE  Cursor' /\ Rounds'
<1>1. MaxTasks \in Nat /\ Waiting(p) \in SUBSET Ids /\ Waiting(p) \subseteq Read
  BY WaitingIds DEF SchedulerAssumption
<1>2. \A y \in Waiting(p) : y <= taskList[p] /\ y \in Nat
  BY <1>1, TopHead DEF Listed, Ids
<1>3. Waiting(p) # {} => taskList[p] \in Waiting(p)
  BY <1>1, TopHead DEF Listed
<1>4. Cursor'
  BY <1>3 DEF Cursor
<1>5. taskList[p] \in Nat
  <2>1. taskList[p] \in Waiting(p) \cup {NULL}
    BY <1>3, <1>1, TopHead DEF Listed
  <2> QED BY <1>2, <2>1 DEF NULL
<1>6. Round(0)'
  <2> SUFFICES ASSUME NEW n \in Read, Rank(n) = p
               PROVE  /\ ~ Gone(n) /\ Cardinality(TurnsIn(ran, n)) = 0
                      /\ ~ (n > taskList[p])
    BY DEF Round
  <2>1. ~ Gone(n) /\ Cardinality(TurnsIn(ran, n)) = 0
    BY FS_EmptySet DEF Gone
  <2>2. n \in Waiting(p)
    BY <2>1 DEF Waiting
  <2> QED BY <1>2, <1>5, <2>1, <2>2
<1> QED BY <1>4, <1>6 DEF Rounds

LEMMA CallInv ==
    ASSUME SchedulerAssumption, SchedInv, CallSchedule
    PROVE  SchedInv'
<1> DEFINE p == IF policy = "priority_rr" THEN MAX_PRIORITY ELSE 0
<1>1. /\ phase = "reading" /\ phase' = "scheduling" /\ level' = p
      /\ next_node' = taskList[p]
      /\ UNCHANGED <<policy, tasks, remaining_burst, taskList, link, ran>>
  BY DEF CallSchedule
<1>2. Lines /\ Types /\ Listed /\ NoneRan /\ Accounts /\ Levels /\ Order
  BY DEF SchedInv
<1>3. /\ Lines' /\ Listed' /\ Accounts' /\ Order' /\ Read' = Read
      /\ (TimeSliced' <=> TimeSliced)
      /\ \A n : /\ (Gone(n)' <=> Gone(n)) /\ Rank(n)' = Rank(n)
                /\ TurnsIn(ran, n)' = TurnsIn(ran, n)
      /\ \A q : Waiting(q)' = Waiting(q)
  BY <1>1, <1>2, SameLists
<1>4. /\ \A t \in Read : Rank(t) \in Lists /\ Rank(t) \in Nat
      /\ 0 \in Lists /\ MAX_PRIORITY \in Lists
  BY <1>2, RankIsList
<1>5. p \in Lists /\ \A t \in Read : ~ (Rank(t) > p)
  BY <1>4 DEF Rank, Lists
<1>6. \A t : TurnsIn(ran, t) = {}
  BY <1>1, <1>2, NoTurns DEF NoneRan
<1> HIDE DEF p
<1>7. Cursor' /\ Rounds'
  BY <1>1, <1>2, <1>3, <1>5, <1>6, FirstRound
<1>8. Types'
  <2>1. next_node' \in Ids \cup {NULL}
    BY <1>1, <1>2, <1>5 DEF Types
  <2> QED BY <1>1, <1>2, <1>3, <1>5, <2>1 DEF Types
<1>9. NoneRan'
  BY <1>1 DEF NoneRan
<1>10. Levels'
  <2>1. \A t \in Read' : /\ ~ (Rank(t)' > level') /\ TurnsIn(ran, t)' = {}
    BY <1>1, <1>3, <1>5, <1>6
  <2>2. policy' = policy /\ (policy # "priority_rr" => level' = 0)
        /\ (policy = "priority_rr" => MIN_PRIORITY <= level')
    BY <1>1 DEF p, SchedulerAssumption
  <2> QED BY <1>1, <2>1, <2>2 DEF Levels
<1> QED BY <1>3, <1>7, <1>8, <1>9, <1>10 DEF SchedInv

LEMMA LowerInv ==
    ASSUME SchedulerAssumption, SchedInv, LowerPriority
    PROVE  SchedInv'
<1>1. PICK p :
      /\ phase = "scheduling" /\ policy = "priority_rr" /\ level > MIN_PRIORITY
      /\ taskList[level] = NULL /\ p = level - 1 /\ level' = p /\ next_node' = taskList[p]
      /\ phase' = phase
      /\ UNCHANGED <<policy, tasks, remaining_burst, taskList, link, ran>>
  BY DEF LowerPriority
<1>2. Lines /\ Types /\ Listed /\ NoneRan /\ Accounts /\ Levels /\ Order
  BY DEF SchedInv
<1>3. /\ Lines' /\ Listed' /\ Accounts' /\ Order' /\ Read' = Read
      /\ (TimeSliced' <=> TimeSliced)
      /\ \A n : /\ (Gone(n)' <=> Gone(n)) /\ Rank(n)' = Rank(n)
                /\ TurnsIn(ran, n)' = TurnsIn(ran, n)
      /\ \A q : Waiting(q)' = Waiting(q)
  BY <1>1, <1>2, SameLists
<1>4. \A t \in Read : Rank(t) \in Lists /\ Rank(t) \in Nat
  BY <1>2, RankIsList
<1>5. /\ level \in Nat /\ level \in Lists /\ p \in Lists /\ p \in Nat /\ p < level
      /\ MIN_PRIORITY <= p
  BY <1>1, <1>2 DEF Types, Lists, SchedulerAssumption
<1>6. \A t \in Read : Rank(t) = p \/ Rank(t) < p => TurnsIn(ran, t) = {}
  BY <1>2, <1>4, <1>5 DEF Levels
<1>7. Cursor' /\ Rounds'
  BY <1>1, <1>2, <1>3, <1>5, <1>6, FirstRound
<1>8. Types'
  <2>1. next_node' \in Ids \cup {NULL}
    BY <1>1, <1>2, <1>5 DEF Types
  <2> QED BY <1>1, <1>2, <1>3, <1>5, <2>1 DEF Types
<1>9. NoneRan'
  BY <1>1 DEF NoneRan
<1>10. \A t \in Read : Rank(t) = level => Gone(t)
  <2>1. MaxTasks \in Nat /\ Waiting(level) \in SUBSET Ids
    BY <1>2, WaitingIds DEF SchedulerAssumption
  <2>2. Waiting(level) = {}
    BY <1>1, <1>2, <1>5, <2>1, TopHead DEF Listed
  <2> QED BY <2>2 DEF Waiting
<1>11. Levels'
  <2>1. ASSUME NEW t \in Read'
        PROVE  /\ Rank(t)' > level' => Gone(t)'
               /\ Rank(t)' < level' => TurnsIn(ran, t)' = {}
    <3>1. t \in Read /\ Rank(t)' = Rank(t) /\ Rank(t) \in Nat /\ (Gone(t)' <=> Gone(t))
      BY <1>3, <1>4
    <3>2. Rank(t) > p => Rank(t) = level \/ Rank(t) > level
      BY <1>1, <1>5, <3>1
    <3>3. Rank(t) > level => Gone(t)
      BY <1>1, <1>2, <3>1 DEF Levels
    <3> QED BY <1>1, <1>3, <1>6, <1>10, <3>1, <3>2, <3>3
  <2> QED BY <1>1, <1>5, <2>1 DEF Levels
<1> QED BY <1>3, <1>7, <1>8, <1>9, <1>11 DEF SchedInv

LEMMA ReturnInv ==
    ASSUME SchedulerAssumption, SchedInv, ScheduleReturn
    PROVE  SchedInv'
<1>1. /\ phase = "scheduling" /\ taskList[level] = NULL
      /\ policy = "priority_rr" => level = MIN_PRIORITY
      /\ phase' = "done" /\ level' = level /\ next_node' = next_node
      /\ UNCHANGED <<policy, tasks, remaining_burst, taskList, link, ran>>
  BY DEF ScheduleReturn
<1>2. Lines /\ Types /\ Listed /\ NoneRan /\ Accounts /\ Levels /\ Order
  BY DEF SchedInv
<1>3. /\ Lines' /\ Listed' /\ Accounts' /\ Order' /\ Read' = Read
      /\ (TimeSliced' <=> TimeSliced)
      /\ \A n : /\ (Gone(n)' <=> Gone(n)) /\ Rank(n)' = Rank(n)
                /\ TurnsIn(ran, n)' = TurnsIn(ran, n)
      /\ \A q : Waiting(q)' = Waiting(q)
  BY <1>1, <1>2, SameLists
<1>4. Types'
  BY <1>1, <1>2, <1>3 DEF Types
<1>5. \A t \in Read : Rank(t) = level => Gone(t)
  <2>1. MaxTasks \in Nat /\ Waiting(level) \in SUBSET Ids /\ level \in Lists
    BY <1>2, WaitingIds DEF SchedulerAssumption, Types
  <2>2. Waiting(level) = {}
    BY <1>1, <1>2, <2>1, TopHead DEF Listed
  <2> QED BY <2>2 DEF Waiting
<1>6. Levels'
  <2>1. ASSUME NEW t \in Read'
        PROVE  /\ Rank(t)' > level' => Gone(t)'
               /\ Rank(t)' = level' => Gone(t)'
               /\ Rank(t)' < level' => TurnsIn(ran, t)' = {}
    <3>1. t \in Read /\ Rank(t)' = Rank(t) /\ (Gone(t)' <=> Gone(t))
      BY <1>3
    <3> QED BY <1>1, <1>2, <1>3, <1>5, <3>1 DEF Levels
  <2>2. policy' = policy /\ (policy # "priority_rr" => level' = 0)
    BY <1>1, <1>2 DEF Levels
  <2> QED BY <1>1, <1>2, <2>1, <2>2 DEF Levels
<1>7. NoneRan' /\ Cursor' /\ Rounds'
  BY <1>1 DEF NoneRan, Cursor, Rounds
<1> QED BY <1>3, <1>4, <1>6, <1>7 DEF SchedInv

(* A turn of a task.                                                       *)
GetsTurn(r, t, d) ==
    /\ r \in Seq(Turns) /\ DOMAIN r = 1 .. Len(ran) + 1 /\ DOMAIN ran = 1 .. Len(ran)
    /\ Len(ran) \in Nat
    /\ \A k \in 1 .. Len(ran) : r[k] = ran[k]
    /\ r[Len(ran) + 1].task = t
    /\ \A k \in DOMAIN r : r[k].task \in Read
    /\ \A n : /\ TurnsIn(r, n) # {} <=> TurnsIn(ran, n) # {} \/ n = t
              /\ Cardinality(TurnsIn(ran, n)) \in Nat
              /\ Cardinality(TurnsIn(r, n))
                     = Cardinality(TurnsIn(ran, n)) + (IF n = t THEN 1 ELSE 0)
              /\ ServedIn(ran, n) \in Nat
              /\ ServedIn(r, n) = ServedIn(ran, n) + (IF n = t THEN d ELSE 0)

LEMMA OneTurn ==
    ASSUME Lines, Types, MaxTasks \in Nat, NEW t \in Read, NEW d \in Nat,
           NEW r, r = Append(ran, [task |-> t, slice |-> d])
    PROVE  GetsTurn(r, t, d)
<1> DEFINE e == [task |-> t, slice |-> d]
<1>1. ran \in Seq(Turns) /\ \A k \in DOMAIN ran : ran[k].task \in Read
  BY DEF Types
<1>2. t \in Ids
  BY WaitingIds
<1>3. e \in Turns /\ e.task = t /\ e.slice = d /\ r = Append(ran, e)
  BY <1>2 DEF Turns
<1> HIDE DEF e
<1>4. /\ r \in Seq(Turns) /\ DOMAIN r = 1 .. Len(ran) + 1 /\ DOMAIN ran = 1 .. Len(ran)
      /\ Len(ran) \in Nat
      /\ \A k \in 1 .. Len(ran) : r[k] = ran[k]
      /\ r[Len(ran) + 1] = e
  BY <1>1, <1>3
<1>5. \A k \in DOMAIN r : k = Len(ran) + 1 \/ k \in 1 .. Len(ran)
  BY <1>4
<1>6. \A k \in DOMAIN r : r[k].task \in Read
  BY <1>1, <1>3, <1>4, <1>5
<1>7. ASSUME NEW n
      PROVE  /\ TurnsIn(r, n) # {} <=> TurnsIn(ran, n) # {} \/ n = t
             /\ Cardinality(TurnsIn(ran, n)) \in Nat
             /\ Cardinality(TurnsIn(r, n))
                    = Cardinality(TurnsIn(ran, n)) + (IF n = t THEN 1 ELSE 0)
  <2>1. /\ ran \in Seq(Turns) /\ e \in Turns /\ r = Append(ran, e)
        /\ e.task = n <=> n = t
    BY <1>1, <1>3
  <2>2. /\ Cardinality(TurnsIn(ran, n)) \in Nat
        /\ TurnsIn(Append(ran, e), n) # {} <=> TurnsIn(ran, n) # {} \/ e.task = n
        /\ Cardinality(TurnsIn(Append(ran, e), n))
               = Cardinality(TurnsIn(ran, n)) + (IF e.task = n THEN 1 ELSE 0)
    BY ONLY <2>1, TurnsAppend
  <2> QED BY ONLY <2>1, <2>2
<1>8. ASSUME NEW n
      PROVE  /\ ServedIn(ran, n) \in Nat
             /\ ServedIn(r, n) = ServedIn(ran, n) + (IF n = t THEN d ELSE 0)
  BY <1>1, <1>3, ServedAppend
<1>9. r[Len(ran) + 1].task = t
  BY <1>3, <1>4
<1>10. \A n : /\ TurnsIn(r, n) # {} <=> TurnsIn(ran, n) # {} \/ n = t
              /\ Cardinality(TurnsIn(ran, n)) \in Nat
              /\ Cardinality(TurnsIn(r, n))
                     = Cardinality(TurnsIn(ran, n)) + (IF n = t THEN 1 ELSE 0)
              /\ ServedIn(ran, n) \in Nat
              /\ ServedIn(r, n) = ServedIn(ran, n) + (IF n = t THEN d ELSE 0)
  BY <1>7, <1>8
<1> QED BY ONLY <1>4, <1>6, <1>9, <1>10 DEF GetsTurn

LEMMA RunToEndInv ==
    ASSUME SchedulerAssumption, NamesApart, SchedInv, RunToEnd
    PROVE  SchedInv'
<1>1. PICK t :
      /\ t = pickNextTask(Chain(level)) /\ phase = "scheduling" /\ ~TimeSliced
      /\ taskList[level] # NULL /\ run(t, tasks[t].burst) /\ delete(level, t)
      /\ policy' = policy /\ phase' = phase /\ tasks' = tasks
      /\ remaining_burst' = remaining_burst /\ next_node' = next_node /\ level' = level
  BY DEF RunToEnd
<1>2. Lines /\ Types /\ Listed /\ NoneRan /\ Accounts /\ Levels /\ Order
  BY DEF SchedInv
<1>3. /\ Read = 1 .. Len(tasks) /\ Read \subseteq Ids /\ MaxTasks \in Nat
      /\ \A p : Waiting(p) \in SUBSET Ids /\ Waiting(p) \subseteq Read
  BY <1>2, WaitingIds DEF SchedulerAssumption
<1>4. /\ policy \in {"fcfs", "sjf", "priority"} /\ policy # "priority_rr"
      /\ level = 0 /\ level \in Lists
  BY <1>1, <1>2 DEF Types, TimeSliced, Levels, SchedulerAssumption
<1>5. \A n \in Read : tasks[n].burst \in Nat /\ tasks[n].priority \in Nat
  BY <1>2, TaskFields
<1> DEFINE S == Waiting(0)
<1>6. S # {} /\ Descends(Chain(level), S)
  BY <1>1, <1>2, <1>3, <1>4, TopHead, ChainDescends DEF Listed
<1>7. t \in S /\ \A n \in S : n # t => Precedes(t, n)
  <2>1. \A n \in S : tasks[n].burst \in Int /\ tasks[n].priority \in Int
    BY <1>3, <1>5
  <2> DEFINE c == Chain(level)
  <2> HIDE DEF S, c
  <2> QED BY <1>1, <1>3, <1>4, <1>6, <2>1, PickIsFirst DEF S, c
<1>8. \A n \in S : n # t => Comes(policy, tasks, t, n)
  BY <1>4, <1>7 DEF Precedes, Comes
<1>9. t \in Read /\ tasks[t].burst \in Nat /\ ~ Gone(t)
  BY <1>3, <1>5, <1>7 DEF Waiting
<1> DEFINE d == tasks[t].burst
           L == Len(ran)
<1>10. ran' = Append(ran, [task |-> t, slice |-> d])
  BY <1>1 DEF run
<1>11. /\ ran' \in Seq(Turns) /\ DOMAIN ran' = 1 .. L + 1 /\ DOMAIN ran = 1 .. L /\ L \in Nat
       /\ \A k \in 1 .. L : ran'[k] = ran[k]
       /\ ran'[L + 1].task = t
       /\ \A k \in DOMAIN ran' : ran'[k].task \in Read
       /\ \A n : /\ TurnsIn(ran', n) # {} <=> TurnsIn(ran, n) # {} \/ n = t
                 /\ ServedIn(ran, n) \in Nat
                 /\ ServedIn(ran', n) = ServedIn(ran, n) + (IF n = t THEN d ELSE 0)
  <2> DEFINE r == ran'
  <2>1. r = Append(ran, [task |-> t, slice |-> d])
    BY <1>10
  <2> HIDE DEF r, d
  <2>2. d \in Nat
    BY <1>9 DEF d
  <2>3. GetsTurn(r, t, d)
    BY <1>2, <1>3, <1>9, <2>1, <2>2, OneTurn
  <2> QED BY <2>3 DEF GetsTurn, r
<1> HIDE DEF S, d, L
<1>12. Read' = Read /\ (TimeSliced' <=> TimeSliced) /\ \A n : Rank(n)' = Rank(n)
  BY <1>1 DEF Read, TimeSliced, Rank
<1>13. \A n : Gone(n)' <=> Gone(n) \/ n = t
  BY <1>1, <1>11, <1>12 DEF Gone
<1>14. \A p : Waiting(p)' = Waiting(p) \ {t}
  BY <1>12, <1>13 DEF Waiting
<1>15. /\ taskList' \in [Lists -> Ids \cup {NULL}] /\ link' \in [Ids -> Ids \cup {NULL}]
       /\ \A q \in Lists : HoldsIn(taskList'[q], link', Waiting(q) \ {t})
  BY <1>1, <1>2, <1>4, <1>7, DeleteHolds DEF S
<1>16. Listed'
  <2> SUFFICES ASSUME NEW q \in Lists PROVE HoldsIn(taskList'[q], link', Waiting(q)')
    BY DEF Listed, Holds
  <2> QED BY <1>14, <1>15
<1>17. Lines'
  BY <1>1, <1>2, <1>12 DEF Lines
<1>18. Types'
  BY <1>1, <1>2, <1>11, <1>12, <1>15 DEF Types
<1>19. NoneRan' /\ Cursor' /\ Rounds'
  BY <1>1, <1>12 DEF NoneRan, Cursor, Rounds
<1>20. Accounts'
  <2> SUFFICES ASSUME NEW n \in Read
               PROVE  ServedIn(ran', n) = IF TurnsIn(ran', n) = {} THEN 0 ELSE tasks[n].burst
    BY <1>1, <1>12 DEF Accounts
  <2>1. ServedIn(ran, n) = IF TurnsIn(ran, n) = {} THEN 0 ELSE tasks[n].burst
    BY <1>1, <1>2 DEF Accounts
  <2>2. n = t => TurnsIn(ran, n) = {}
    BY <1>1, <1>9 DEF Gone
  <2>3. tasks[n].burst \in Nat
    BY <1>5
  <2>4. /\ (TurnsIn(ran', n) # {} <=> TurnsIn(ran, n) # {} \/ n = t)
        /\ ServedIn(ran', n) = ServedIn(ran, n) + (IF n = t THEN tasks[t].burst ELSE 0)
        /\ ServedIn(ran, n) \in Nat
    BY <1>11 DEF d
  <2>5. CASE n = t
    <3>1. TurnsIn(ran', n) # {} /\ ServedIn(ran, n) = 0
      BY <2>1, <2>2, <2>4, <2>5
    <3>2. ServedIn(ran', n) = 0 + tasks[n].burst
      BY <2>4, <2>5, <3>1
    <3> QED BY <2>3, <3>1, <3>2
  <2>6. CASE n # t
    BY <2>1, <2>4, <2>6
  <2> QED BY <2>5, <2>6
<1>21. Levels'
  <2>1. \A n \in Read : Rank(n) = 0
    BY <1>4 DEF Rank
  <2> QED BY <1>1, <1>2, <1>4, <1>12, <2>1 DEF Levels
<1>22. Order'
  <2>1. Waiting(0)' = S \ {t} /\ policy' = policy /\ tasks' = tasks
    BY <1>1, <1>14 DEF S
  <2>2. /\ \A i, j \in 1 .. L : i < j => Comes(policy, tasks, ran[i].task, ran[j].task)
        /\ \A i \in 1 .. L, n \in S : Comes(policy, tasks, ran[i].task, n)
    BY <1>1, <1>2, <1>11 DEF Order, S
  <2>3. \A i \in DOMAIN ran' : i = L + 1 \/ (i \in 1 .. L /\ i < L + 1)
    BY <1>11
  <2>4. ASSUME NEW i \in DOMAIN ran', NEW j \in DOMAIN ran', i < j
        PROVE  Comes(policy, tasks, ran'[i].task, ran'[j].task)
    <3>1. i \in 1 .. L
      BY <1>11, <2>4
    <3>2. CASE j \in 1 .. L
      BY <1>11, <2>2, <2>4, <3>1, <3>2
    <3>3. CASE j = L + 1
      BY <1>7, <1>11, <2>2, <3>1, <3>3
    <3> QED BY <2>3, <3>2, <3>3
  <2>5. ASSUME NEW i \in DOMAIN ran', NEW n \in S \ {t}
        PROVE  Comes(policy, tasks, ran'[i].task, n)
    BY <1>8, <1>11, <2>2, <2>3
  <2> QED BY <2>1, <2>4, <2>5 DEF Order
<1> QED BY <1>16, <1>17, <1>18, <1>19, <1>20, <1>21, <1>22 DEF SchedInv

(* next_node in the list w, whose head is head: where it goes on.          *)
LEMMA GoesOn ==
    ASSUME MaxTasks \in Nat, Lists # {}, NEW S \in SUBSET Ids, NEW t \in S, Holds(level, S),
           NEW x, x = After(t)
    PROVE  \/ /\ x \in S /\ x < t /\ \A n \in S : n < t => n <= x
           \/ /\ x \in S /\ t <= x
              /\ \A n \in S : n <= x /\ ~ (n < t)
<1>1. \A y \in S : y \in Nat /\ y >= 1
  BY DEF Ids
<1>2. S # {} => taskList[level] \in S /\ \A y \in S : y <= taskList[level]
  BY TopHead
<1>3. link[t] \in Older(S, t) \cup {NULL} /\ \A y \in Older(S, t) : y <= link[t]
  BY DEF Holds, HoldsIn, IsTop
<1>4. CASE link[t] # NULL
  <2>1. x = link[t] /\ x \in S /\ x < t
    BY <1>3, <1>4 DEF After, Older
  <2>2. \A n \in S : n < t => n <= x
    BY <1>3, <2>1 DEF Older
  <2> QED BY <2>1, <2>2
<1>5. CASE link[t] = NULL
  <2>1. x = taskList[level]
    BY <1>5 DEF After
  <2>2. x \in S /\ t <= x /\ \A n \in S : n <= x
    BY <1>2, <2>1
  <2>3. ASSUME NEW n \in S, n < t PROVE FALSE
    <3>1. n <= link[t]
      BY <1>3, <2>3 DEF Older
    <3>2. n <= 0
      BY <1>5, <3>1 DEF NULL
    <3> QED BY <1>1, <3>2
  <2> QED BY <2>2, <2>3
<1> QED BY <1>4, <1>5

LEMMA RunSliceInv ==
    ASSUME SchedulerAssumption, NamesApart, SchedInv, RunSlice
    PROVE  SchedInv'
<1>1. PICK t :
      /\ t = next_node /\ phase = "scheduling" /\ TimeSliced /\ taskList[level] # NULL
      /\ next_node' = After(t) /\ run(t, Slice(t))
      /\ remaining_burst' = [remaining_burst EXCEPT ![t] = @ - Slice(t)]
      /\ IF Through(t) THEN delete(level, t) ELSE taskList' = taskList /\ link' = link
      /\ policy' = policy /\ phase' = phase /\ tasks' = tasks /\ level' = level
  BY DEF RunSlice
<1>2. Lines /\ Types /\ Listed /\ NoneRan /\ Accounts /\ Levels /\ Cursor /\ Rounds
  BY DEF SchedInv
<1>3. /\ Read = 1 .. Len(tasks) /\ Read \subseteq Ids /\ MaxTasks \in Nat
      /\ \A p : Waiting(p) \in SUBSET Ids /\ Waiting(p) \subseteq Read
      /\ level \in Lists
  BY <1>2, WaitingIds DEF SchedulerAssumption, Types
<1> DEFINE S == Waiting(level)
           d == Slice(t)
           h == remaining_burst[t]
           L == Len(ran)
<1>4. Holds(level, S)
  BY <1>2, <1>3 DEF Listed
<1>5. t \in S
  <2>1. S # {}
    BY <1>1, <1>3, <1>4, TopHead
  <2> QED BY <1>1, <1>2, <2>1 DEF Cursor
<1>6. t \in Read /\ t \in Ids /\ ~ Gone(t) /\ Rank(t) = level
  BY <1>3, <1>5 DEF Waiting
<1>7. /\ h \in Nat /\ d \in Nat /\ d <= h /\ h - d \in Nat /\ h <= tasks[t].burst
      /\ remaining_burst'[t] = h - d
      /\ \A n \in Ids : n # t => remaining_burst'[n] = remaining_burst[n]
      /\ remaining_burst' \in [Ids -> Nat]
      /\ Through(t) <=> h - d = 0
  <2>1. /\ remaining_burst \in [Ids -> Nat]
        /\ h <= tasks[t].burst
    BY <1>2, <1>6 DEF Types
  <2>2. h \in Nat /\ d \in Nat /\ d <= h
    BY <1>6, <2>1 DEF Slice, SchedulerAssumption
  <2>3. h - d \in Nat
    BY <2>2
  <2>4. remaining_burst' = [remaining_burst EXCEPT ![t] = h - d]
    BY <1>1, <1>6, <2>1
  <2> HIDE DEF h, d
  <2> QED BY <1>6, <2>1, <2>2, <2>3, <2>4 DEF Through
<1>8. ran' = Append(ran, [task |-> t, slice |-> d])
  BY <1>1 DEF run
<1>9. /\ ran' \in Seq(Turns)
      /\ \A k \in DOMAIN ran' : ran'[k].task \in Read
      /\ \A n : /\ TurnsIn(ran', n) # {} <=> TurnsIn(ran, n) # {} \/ n = t
                /\ Cardinality(TurnsIn(ran, n)) \in Nat
                /\ Cardinality(TurnsIn(ran', n))
                       = Cardinality(TurnsIn(ran, n)) + (IF n = t THEN 1 ELSE 0)
                /\ ServedIn(ran, n) \in Nat
                /\ ServedIn(ran', n) = ServedIn(ran, n) + (IF n = t THEN d ELSE 0)
  <2> DEFINE r == ran'
  <2>1. r = Append(ran, [task |-> t, slice |-> d])
    BY <1>8
  <2> HIDE DEF r, d
  <2>2. GetsTurn(r, t, d)
    BY <1>2, <1>3, <1>6, <1>7, <2>1, OneTurn
  <2> QED BY <2>2 DEF GetsTurn, r
<1> HIDE DEF S, d, h, L
<1>10. Read' = Read /\ (TimeSliced' <=> TimeSliced) /\ \A n : Rank(n)' = Rank(n)
  BY <1>1 DEF Read, TimeSliced, Rank
<1>11. \A n \in Read : Gone(n)' <=> Gone(n) \/ (n = t /\ h - d = 0)
  <2> SUFFICES ASSUME NEW n \in Read
               PROVE  /\ TurnsIn(ran', n) # {} /\ remaining_burst'[n] = 0
                      <=> (TurnsIn(ran, n) # {} /\ remaining_burst[n] = 0) \/ (n = t /\ h - d = 0)
    BY <1>1, <1>10 DEF Gone
  <2>1. CASE n = t
    <3>1. ~ (TurnsIn(ran, t) # {} /\ remaining_burst[t] = 0)
      BY <1>1, <1>6 DEF Gone
    <3> QED BY <1>7, <1>9, <2>1, <3>1
  <2>2. CASE n # t
    BY <1>3, <1>7, <1>9, <2>2
  <2> QED BY <2>1, <2>2
<1>12. \A p : Waiting(p)' = IF h - d = 0 THEN Waiting(p) \ {t} ELSE Waiting(p)
  <2> SUFFICES ASSUME NEW p
               PROVE  Waiting(p)' = IF h - d = 0 THEN Waiting(p) \ {t} ELSE Waiting(p)
    OBVIOUS
  <2>1. \A n \in Read : n \in Waiting(p)' <=> Rank(n) = p /\ ~ Gone(n) /\ ~ (n = t /\ h - d = 0)
    BY <1>10, <1>11 DEF Waiting
  <2>2. Waiting(p)' \subseteq Read
    BY <1>10 DEF Waiting
  <2>3. \A n : n \in Waiting(p) <=> n \in Read /\ Rank(n) = p /\ ~ Gone(n)
    BY DEF Waiting
  <2> DEFINE W == Waiting(p)'
  <2> HIDE DEF W
  <2> QED BY <2>1, <2>2, <2>3 DEF W
<1>13. /\ taskList' \in [Lists -> Ids \cup {NULL}] /\ link' \in [Ids -> Ids \cup {NULL}]
       /\ \A q \in Lists : HoldsIn(taskList'[q], link', Waiting(q)')
  <2>1. CASE h - d = 0
    <3>1. delete(level, t)
      BY <1>1, <1>7, <2>1
    <3>2. /\ taskList' \in [Lists -> Ids \cup {NULL}] /\ link' \in [Ids -> Ids \cup {NULL}]
          /\ \A q \in Lists : HoldsIn(taskList'[q], link', Waiting(q) \ {t})
      BY <1>2, <1>3, <1>5, <3>1, DeleteHolds DEF S
    <3> QED BY <1>12, <2>1, <3>2
  <2>2. CASE h - d # 0
    <3>1. taskList' = taskList /\ link' = link
      BY <1>1, <1>7, <2>2
    <3> QED BY <1>2, <1>12, <2>2, <3>1 DEF Types, Listed, Holds
  <2> QED BY <2>1, <2>2
<1>14. Listed'
  BY <1>13 DEF Listed, Holds
<1>15. Lines'
  BY <1>1, <1>2, <1>10 DEF Lines
<1>16. PICK x : /\ x = next_node' /\ x = After(t)
  BY <1>1
<1>17. \/ /\ x \in S /\ x < t /\ \A n \in S : n < t => n <= x
       \/ /\ x \in S /\ t <= x
          /\ \A n \in S : n <= x /\ ~ (n < t)
  BY <1>3, <1>4, <1>5, <1>16, GoesOn DEF S
<1>18. Types'
  <2>1. \A n \in Ids : remaining_burst'[n] <= IF n \in Read THEN tasks[n].burst ELSE 0
    <3> SUFFICES ASSUME NEW n \in Ids
                 PROVE  remaining_burst'[n] <= IF n \in Read THEN tasks[n].burst ELSE 0
      OBVIOUS
    <3>1. CASE n = t
      <4>1. tasks[t].burst \in Nat
        BY <1>2, <1>6, TaskFields
      <4> QED BY <1>6, <1>7, <3>1, <4>1
    <3>2. CASE n # t
      BY <1>2, <1>7, <3>2 DEF Types
    <3> QED BY <3>1, <3>2
  <2>2. next_node' \in Ids \cup {NULL}
    BY <1>3, <1>16, <1>17 DEF S
  <2> QED BY <1>1, <1>2, <1>7, <1>9, <1>10, <1>13, <2>1, <2>2 DEF Types
<1>19. NoneRan' /\ Order'
  BY <1>1, <1>10 DEF NoneRan, Order
<1>20. Accounts'
  <2> SUFFICES ASSUME NEW n \in Read
               PROVE  ServedIn(ran', n) = tasks[n].burst - remaining_burst'[n]
    BY <1>1, <1>10 DEF Accounts
  <2>1. ServedIn(ran, n) = tasks[n].burst - remaining_burst[n]
    BY <1>1, <1>2 DEF Accounts
  <2>2. n \in Ids /\ remaining_burst[n] \in Nat
    BY <1>2, <1>3 DEF Types
  <2>3. ServedIn(ran', n) = ServedIn(ran, n) + (IF n = t THEN d ELSE 0)
    BY <1>9
  <2>4. tasks[n].burst \in Nat
    BY <1>2, TaskFields
  <2>5. CASE n = t
    BY <1>7, <2>1, <2>3, <2>4, <2>5 DEF h
  <2>6. CASE n # t
    BY <1>7, <2>1, <2>2, <2>3, <2>4, <2>6
  <2> QED BY <2>5, <2>6
<1>21. Levels'
  <2> SUFFICES ASSUME NEW n \in Read
               PROVE  /\ Rank(n) > level => Gone(n)'
                      /\ Rank(n) < level => TurnsIn(ran', n) = {}
    BY <1>1, <1>2, <1>10 DEF Levels
  <2>1. Rank(n) > level => Gone(n)
    BY <1>1, <1>2 DEF Levels
  <2>2. Rank(n) < level => TurnsIn(ran, n) = {} /\ n # t
    <3>1. level \in Nat
      BY <1>2, <1>3, RankIsList
    <3> QED BY <1>2, <1>6, <3>1 DEF Levels
  <2> QED BY <1>9, <1>11, <2>1, <2>2
<1>22. \A n \in S : n \in Nat
  BY <1>3 DEF S, Ids
<1>23. Cursor'
  <2> SUFFICES ASSUME Waiting(level)' # {} PROVE x \in Waiting(level)'
    BY <1>1, <1>16 DEF Cursor
  <2>1. Waiting(level)' = IF h - d = 0 THEN S \ {t} ELSE S
    BY <1>1, <1>12 DEF S
  <2>2. CASE h - d # 0
    BY <1>17, <2>1, <2>2
  <2>3. CASE h - d = 0
    <3>1. PICK n \in S : n # t
      BY <2>1, <2>3
    <3>2. x # t
      BY <1>5, <1>17, <1>22, <3>1
    <3> QED BY <1>17, <2>1, <2>3, <3>2
  <2> QED BY <2>2, <2>3
<1>24. Rounds'
  <2>1. PICK c \in Nat : Round(c)
    BY <1>1, <1>2 DEF Rounds
  <2> DEFINE had(n) == Cardinality(TurnsIn(ran, n))
             has(n) == Cardinality(TurnsIn(ran', n))
  <2>2. ASSUME NEW n \in Read, Rank(n) = level
        PROVE  /\ had(n) \in Nat
               /\ IF Gone(n) THEN had(n) <= c + 1 ELSE had(n) = IF n > t THEN c + 1 ELSE c
               /\ has(n) = IF n = t THEN had(n) + 1 ELSE had(n)
               /\ ~ Gone(n) => n \in S /\ n \in Nat
               /\ Gone(n) => n # t
               /\ Gone(n)' <=> Gone(n) \/ (n = t /\ h - d = 0)
    <3>1. had(n) \in Nat /\ has(n) = had(n) + (IF n = t THEN 1 ELSE 0)
      BY <1>9
    <3>2. IF Gone(n) THEN had(n) <= c + 1 ELSE had(n) = IF n > t THEN c + 1 ELSE c
      BY <1>1, <2>1, <2>2 DEF Round
    <3>3. ~ Gone(n) => n \in S
      BY <2>2 DEF S, Waiting
    <3>4. Gone(n)' <=> Gone(n) \/ (n = t /\ h - d = 0)
      BY <1>11
    <3>5. Gone(n) => n # t
      BY <1>6
    <3> HIDE DEF had, has
    <3> QED BY <1>22, <3>1, <3>2, <3>3, <3>4, <3>5
  <2>3. t \in Nat /\ x \in Nat
    BY <1>5, <1>17, <1>22
  <2> DEFINE Rule(n, e) == IF Gone(n) \/ (n = t /\ h - d = 0) THEN has(n) <= e + 1
                           ELSE has(n) = IF n > x THEN e + 1 ELSE e
  <2>4. ASSUME NEW e \in Nat, \A n \in Read : Rank(n) = level => Rule(n, e)
        PROVE  Rounds'
    <3>1. Round(e)'
      <4> SUFFICES ASSUME NEW n \in Read, Rank(n) = level
                   PROVE  IF Gone(n)' THEN has(n) <= e + 1
                          ELSE has(n) = IF n > x THEN e + 1 ELSE e
        BY <1>1, <1>10, <1>16 DEF Round
      <4> QED BY <1>11, <2>4
    <3> QED BY <3>1 DEF Rounds
  <2>5. CASE x < t /\ \A n \in S : n < t => n <= x
    <3>1. ASSUME NEW n \in Read, Rank(n) = level PROVE Rule(n, c)
      <4> HIDE DEF had, has
      <4>1. CASE n = t
        <5>1. ~ Gone(n) /\ had(n) = c /\ has(n) = c + 1 /\ n > x
          BY <2>2, <2>3, <2>5, <3>1, <4>1
        <5> QED BY <5>1
      <4>2. CASE n # t
        <5>1. CASE Gone(n)
          BY <2>2, <3>1, <4>2, <5>1
        <5>2. CASE ~ Gone(n)
          <6>1. n \in S /\ n \in Nat /\ has(n) = IF n > t THEN c + 1 ELSE c
            BY <2>2, <3>1, <4>2, <5>2
          <6>2. (n > t) <=> (n > x)
            BY <2>3, <2>5, <4>2, <6>1
          <6> QED BY <4>2, <5>2, <6>1, <6>2
        <5> QED BY <5>1, <5>2
      <4> QED BY <4>1, <4>2
    <3> HIDE DEF Rule
    <3> QED BY <2>4, <3>1
  <2>6. CASE t <= x /\ \A n \in S : n <= x /\ ~ (n < t)
    <3> DEFINE e == c + 1
    <3>1. ASSUME NEW n \in Read, Rank(n) = level PROVE Rule(n, e)
      <4> HIDE DEF had, has
      <4>1. CASE n = t
        <5>1. ~ Gone(n) /\ had(n) = c /\ has(n) = c + 1 /\ ~ (n > x)
          BY <2>2, <2>3, <2>6, <3>1, <4>1
        <5> QED BY <5>1
      <4>2. CASE n # t
        <5>1. CASE Gone(n)
          <6>1. has(n) = had(n) /\ had(n) <= c + 1 /\ had(n) \in Nat
            BY <2>2, <3>1, <4>2, <5>1
          <6> QED BY <4>2, <5>1, <6>1
        <5>2. CASE ~ Gone(n)
          <6>1. n \in S /\ n \in Nat /\ has(n) = IF n > t THEN c + 1 ELSE c
            BY <2>2, <3>1, <4>2, <5>2
          <6>2. n > t /\ ~ (n > x)
            BY <2>3, <2>6, <4>2, <6>1
          <6> QED BY <4>2, <5>2, <6>1, <6>2
        <5> QED BY <5>1, <5>2
      <4> QED BY <4>1, <4>2
    <3>2. e \in Nat
      OBVIOUS
    <3> HIDE DEF Rule, e
    <3> QED BY <2>4, <3>1, <3>2
  <2> QED BY <1>17, <2>5, <2>6
<1> QED BY <1>14, <1>15, <1>18, <1>19, <1>20, <1>21, <1>23, <1>24 DEF SchedInv

LEMMA SchedStutter ==
    ASSUME SchedInv, UNCHANGED schedVars
    PROVE  SchedInv'
<1>1. /\ policy' = policy /\ phase' = phase /\ tasks' = tasks
      /\ remaining_burst' = remaining_burst /\ taskList' = taskList /\ link' = link
      /\ next_node' = next_node /\ level' = level /\ ran' = ran
  BY DEF schedVars
<1>2. Lines /\ Types /\ Listed /\ NoneRan /\ Accounts /\ Levels /\ Cursor /\ Order /\ Rounds
  BY DEF SchedInv
<1>3. /\ Lines' /\ Listed' /\ Accounts' /\ Order' /\ Read' = Read
      /\ (TimeSliced' <=> TimeSliced)
      /\ \A n : /\ (Gone(n)' <=> Gone(n)) /\ Rank(n)' = Rank(n)
                /\ TurnsIn(ran, n)' = TurnsIn(ran, n)
      /\ \A p : Waiting(p)' = Waiting(p)
  BY <1>1, <1>2, SameLists
<1>4. Types' /\ NoneRan'
  BY <1>1, <1>2, <1>3 DEF Types, NoneRan
<1>5. Levels'
  BY <1>1, <1>2, <1>3 DEF Levels
<1>6. Waiting(level)' = Waiting(level)
  BY <1>1, <1>3
<1>7. Cursor'
  BY <1>1, <1>2, <1>3, <1>6 DEF Cursor
<1>8. Rounds'
  <2> SUFFICES ASSUME phase = "scheduling", TimeSliced PROVE \E c \in Nat : Round(c)'
    BY <1>1, <1>3 DEF Rounds
  <2>1. PICK c \in Nat : Round(c)
    BY <1>2 DEF Rounds
  <2>2. Round(c)'
    BY <1>1, <1>3, <2>1 DEF Round
  <2> QED BY <2>2
<1> QED BY <1>3, <1>4, <1>5, <1>7, <1>8 DEF SchedInv

(* The lists and what has run, at all times: each list of list.c holds the *)
(* tasks of its priority that are not through, the newest first; next_node *)
(* of the programs that slice time is one of them; tasks of higher         *)
(* priorities are through, those of lower ones have not run.               *)
THEOREM SchedInvariant ==
    ASSUME NamesApart
    PROVE  SchedSpec => []SchedInv
<1>1. SchedInit => SchedInv
  BY SchedulerAssumption, InitInv
<1>2. SchedInv /\ [SchedNext]_schedVars => SchedInv'
  <2> SUFFICES ASSUME SchedInv, [SchedNext]_schedVars PROVE SchedInv'
    OBVIOUS
  <2> USE SchedulerAssumption, NamesApart
  <2>1. CASE \E name \in Names, priority \in Priorities, burst \in Bursts :
                 add(name, priority, burst)
    BY <2>1, AddInv
  <2>2. CASE CallSchedule
    BY <2>2, CallInv
  <2>3. CASE RunToEnd
    BY <2>3, RunToEndInv
  <2>4. CASE RunSlice
    BY <2>4, RunSliceInv
  <2>5. CASE LowerPriority
    BY <2>5, LowerInv
  <2>6. CASE ScheduleReturn
    BY <2>6, ReturnInv
  <2>7. CASE UNCHANGED schedVars
    BY <2>7, SchedStutter
  <2> QED BY <2>1, <2>2, <2>3, <2>4, <2>5, <2>6, <2>7 DEF SchedNext, schedule, Exited
<1> QED BY <1>1, <1>2, PTL DEF SchedSpec

LEMMA TurnsAndServed ==
    \A t : TurnsOf(t) = TurnsIn(ran, t) /\ Served(t) = ServedIn(ran, t)
  BY DEF TurnsOf, TurnsIn, Served, ServedIn

(* next_node is computed before the task that just ran is deleted and used *)
(* after it, and still is a node of the list: for any number of tasks, any *)
(* bursts, priorities and quantum, as long as no two have one name.        *)
THEOREM NextNodeStays ==
    ASSUME NamesApart
    PROVE  SchedSpec => []NextNodeInList
<1>1. SchedInv => NextNodeInList
  <2> SUFFICES ASSUME SchedInv PROVE NextNodeInList
    OBVIOUS
  <2>1. Lines /\ Types /\ Listed /\ Cursor
    BY DEF SchedInv
  <2>2. /\ MaxTasks \in Nat /\ \A p : Waiting(p) \in SUBSET Ids
        /\ Read = 1 .. Len(tasks) /\ level \in Lists
    BY <2>1, WaitingIds, SchedulerAssumption DEF SchedulerAssumption, Types
  <2>3. remaining_burst \in [Ids -> UNION {0 .. burst : burst \in Bursts \cup {0}}]
    <3>1. \A n \in Ids : remaining_burst[n] \in Nat
      BY <2>1 DEF Types
    <3>2. ASSUME NEW n \in Ids
          PROVE  \E burst \in Bursts \cup {0} : remaining_burst[n] \in 0 .. burst
      <4>1. CASE n \in Read
        <5> DEFINE R == [name : Names, priority : Priorities, burst : Bursts]
        <5>1. tasks[n] \in R
          <6>1. tasks \in Seq(R) /\ n \in 1 .. Len(tasks)
            BY <2>1, <2>2, <4>1 DEF Lines
          <6> HIDE DEF R
          <6> QED BY <6>1
        <5>2. tasks[n].burst \in Bursts /\ tasks[n].burst \in Nat
          BY <5>1, SchedulerAssumption DEF SchedulerAssumption
        <5>3. remaining_burst[n] <= tasks[n].burst
          BY <2>1, <4>1 DEF Types
        <5>4. remaining_burst[n] \in 0 .. tasks[n].burst
          BY <3>1, <5>2, <5>3
        <5> QED BY <5>2, <5>4
      <4>2. CASE n \notin Read
        <5>1. remaining_burst[n] <= 0
          BY <2>1, <4>2 DEF Types
        <5>2. remaining_burst[n] \in 0 .. 0
          BY <3>1, <5>1
        <5> QED BY <5>2
      <4> QED BY <4>1, <4>2
    <3> QED BY <2>1, <3>2 DEF Types
  <2>4. SchedTypeOK
    BY <2>1, <2>3 DEF SchedTypeOK, Types, Lines
  <2>5. ASSUME phase = "scheduling", TimeSliced, taskList[level] # NULL
        PROVE  Contains(Chain(level), next_node)
    <3>1. Holds(level, Waiting(level))
      BY <2>1, <2>2 DEF Listed
    <3>2. Waiting(level) # {}
      BY <2>2, <2>5, <3>1, TopHead
    <3>3. next_node \in Waiting(level)
      BY <2>1, <2>5, <3>2 DEF Cursor
    <3>4. Descends(Chain(level), Waiting(level))
      BY <2>2, <3>1, ChainDescends
    <3> QED BY <3>3, <3>4 DEF Descends, Contains
  <2> QED BY <2>4, <2>5 DEF NextNodeInList
<1> QED BY <1>1, SchedInvariant, PTL

(* When schedule returns, every task of a priority it looks at has run for *)
(* its burst, and the others have not run.                                 *)
THEOREM BurstsServed ==
    ASSUME NamesApart
    PROVE  SchedSpec => []EachTaskGetsItsBurst
<1>1. SchedInv => EachTaskGetsItsBurst
  <2> SUFFICES ASSUME SchedInv, phase = "done", NEW t \in Read
               PROVE  IF Overlooked(t) THEN TurnsOf(t) = {}
                      ELSE TurnsOf(t) # {} /\ Served(t) = tasks[t].burst
    BY DEF EachTaskGetsItsBurst
  <2>1. Lines /\ Types /\ Accounts /\ Levels
    BY DEF SchedInv
  <2>2. /\ TurnsOf(t) = TurnsIn(ran, t) /\ Served(t) = ServedIn(ran, t)
    BY TurnsAndServed
  <2>3. Rank(t) \in Nat /\ level \in Nat /\ tasks[t].burst \in Nat
    BY <2>1, SchedulerAssumption, RankIsList, TaskFields DEF Types
  <2>4. CASE Overlooked(t)
    <3>1. Rank(t) < level
      BY <2>1, <2>4 DEF Overlooked, Rank, Levels
    <3> QED BY <2>1, <2>2, <2>4, <3>1 DEF Levels
  <2>5. CASE ~ Overlooked(t)
    <3>1. ~ (Rank(t) < level)
      <4>1. CASE policy = "priority_rr"
        <5>1. Rank(t) = tasks[t].priority /\ level = MIN_PRIORITY
              /\ ~ (tasks[t].priority < MIN_PRIORITY)
          BY <2>1, <2>5, <4>1 DEF Overlooked, Rank, Levels
        <5> QED BY <5>1
      <4>2. CASE policy # "priority_rr"
        <5>1. Rank(t) = 0 /\ level = 0
          BY <2>1, <4>2 DEF Rank, Levels
        <5> QED BY <5>1
      <4> QED BY <4>1, <4>2
    <3>2. Gone(t)
      BY <2>1, <2>3, <3>1 DEF Levels
    <3>3. TurnsIn(ran, t) # {} /\ ServedIn(ran, t) = tasks[t].burst
      BY <2>1, <2>3, <3>2 DEF Gone, Accounts
    <3> QED BY <2>2, <2>5, <3>3
  <2> QED BY <2>4, <2>5
<1> QED BY <1>1, SchedInvariant, PTL

(* FCFS, SJF and priority run the tasks in the order of the policy, and in *)
(* the order of arrival where it does not decide.                          *)
THEOREM PolicyOrder ==
    ASSUME NamesApart
    PROVE  SchedSpec => []TasksRunInPolicyOrder
<1>1. SchedInv => TasksRunInPolicyOrder
  <2> SUFFICES ASSUME SchedInv, ~TimeSliced, NEW i \in DOMAIN ran, NEW j \in DOMAIN ran, i < j
               PROVE  Precedes(ran[i].task, ran[j].task)
    BY DEF TasksRunInPolicyOrder
  <2>1. Comes(policy, tasks, ran[i].task, ran[j].task)
    BY DEF SchedInv, Order
  <2>2. policy \in {"fcfs", "sjf", "priority"}
    BY SchedulerAssumption DEF SchedInv, Types, SchedulerAssumption, TimeSliced
  <2> DEFINE s == ran[i].task
             t == ran[j].task
  <2> HIDE DEF s, t
  <2>3. Comes(policy, tasks, s, t) => Precedes(s, t)
    BY <2>2 DEF Comes, Precedes
  <2> QED BY <2>1, <2>3 DEF s, t
<1> QED BY <1>1, SchedInvariant, PTL

(* The round robins: tasks of one priority take turns, and one of a lower  *)
(* priority runs only when those of higher ones are through.               *)
THEOREM FairTurns ==
    ASSUME NamesApart
    PROVE  SchedSpec => []TurnsAreFair
<1>1. SchedInv => TurnsAreFair
  <2> SUFFICES ASSUME SchedInv, TimeSliced, phase = "scheduling", NEW s \in Read, NEW t \in Read
               PROVE  /\ Rank(s) = Rank(t) /\ Unfinished(t) =>
                             Cardinality(TurnsOf(s)) <= Cardinality(TurnsOf(t)) + 1
                      /\ Rank(s) < Rank(t) /\ TurnsOf(s) # {} => ~Unfinished(t)
    BY DEF TurnsAreFair
  <2>1. Lines /\ Types /\ Levels /\ Rounds
    BY DEF SchedInv
  <2>2. /\ Rank(s) \in Nat /\ Rank(t) \in Nat /\ level \in Nat
        /\ remaining_burst[t] \in Nat
    BY <2>1, SchedulerAssumption, RankIsList, WaitingIds DEF Types, SchedulerAssumption
  <2>3. /\ TurnsOf(s) = TurnsIn(ran, s) /\ TurnsOf(t) = TurnsIn(ran, t)
    BY TurnsAndServed
  <2>4. Unfinished(t) => ~ Gone(t)
    BY <2>2 DEF Unfinished, Gone
  <2>5. Unfinished(t) => ~ (Rank(t) > level)
    BY <2>1, <2>4 DEF Levels
  <2>6. ASSUME Rank(s) = Rank(t), Unfinished(t)
        PROVE  Cardinality(TurnsIn(ran, s)) <= Cardinality(TurnsIn(ran, t)) + 1
    <3> DEFINE a == Cardinality(TurnsIn(ran, s))
               b == Cardinality(TurnsIn(ran, t))
    <3>1. a \in Nat /\ b \in Nat
      <4>1. DOMAIN ran = 1 .. Len(ran) /\ Len(ran) \in Nat
        BY <2>1 DEF Types
      <4>2. IsFiniteSet(1 .. Len(ran))
        <5>1. 1 \in Int /\ Len(ran) \in Int
          BY <4>1
        <5> QED BY <5>1, FS_Interval
      <4>3. TurnsIn(ran, s) \subseteq 1 .. Len(ran) /\ TurnsIn(ran, t) \subseteq 1 .. Len(ran)
        BY <4>1 DEF TurnsIn
      <4> QED BY <4>2, <4>3, FS_Subset, FS_CardinalityType
    <3>2. CASE Rank(t) < level
      <4>1. a = 0
        BY <2>1, <2>6, <3>2, FS_EmptySet DEF Levels
      <4> HIDE DEF a, b
      <4> QED BY <3>1, <4>1 DEF a, b
    <3>3. CASE Rank(t) = level
      <4>1. PICK c \in Nat : Round(c)
        BY <2>1 DEF Rounds
      <4>2. b = c \/ b = c + 1
        BY <2>4, <2>6, <3>3, <4>1 DEF Round
      <4>3. a <= c + 1
        <5>1. IF Gone(s) THEN a <= c + 1 ELSE a = IF s > next_node THEN c + 1 ELSE c
          BY <2>6, <3>3, <4>1 DEF Round
        <5> HIDE DEF a
        <5> QED BY <5>1
      <4> HIDE DEF a, b
      <4> QED BY <3>1, <4>2, <4>3 DEF a, b
    <3> QED BY <2>2, <2>5, <2>6, <3>2, <3>3
  <2>7. ASSUME Rank(s) < Rank(t), TurnsIn(ran, s) # {} PROVE ~Unfinished(t)
    <3>1. ~ (Rank(s) < level)
      BY <2>1, <2>7 DEF Levels
    <3>2. Rank(t) > level
      BY <2>2, <2>7, <3>1
    <3> QED BY <2>5, <3>2
  <2> QED BY <2>3, <2>6, <2>7
<1> QED BY <1>1, SchedInvariant, PTL
=============================================================================
