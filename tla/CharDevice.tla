------------------------------ MODULE CharDevice ------------------------------
(***************************************************************************)
(* Open files of the character devices (webcamd.c, linux_file.c): worker   *)
(* threads take requests from cuse and call the driver's methods.  Closing *)
(* waits for the other requests of the file (cuse).  Every open file holds *)
(* the timer thread at its fast rate, and has a table of buffers that      *)
(* VIDIOC_QUERYBUF mapped.  Requests of 32-bit programs get scratch memory *)
(* that is per thread and freed when the request ends.                     *)
(*                                                                         *)
(*   timer_needed  the counter of need_timer()                             *)
(*   stage         of a file: closed, opening, open, closing               *)
(*   vma           handle->fixed_vma of a file                             *)
(*   f_flags       O_NONBLOCK in the file's flags                          *)
(*   call          what each worker does: the file and the method, or IDLE *)
(*   compat        in_compat32_call of each worker                         *)
(*   scratch       linux_tls_memory: ptr # NULL, and offset                *)
(*   owned         mappings the driver believes to exist (history)         *)
(*   given         scratch ranges handed out in this request (history)     *)
(*   failed        closes whose release() failed (history)                 *)
(***************************************************************************)
EXTENDS Integers, FiniteSets

CONSTANTS
    Files, Workers,
    Slots,          \* 0..LINUX_VMA_MAX-1
    PAGE_SIZE,
    Offsets, Lens,  \* what the driver's QUERYBUF answers, in bytes
    ALLOC_MAX,      \* WEBCAMD_USER_ALLOC_MAX
    Methods,        \* file -> the methods of its driver's file_operations
    MaxFailed,      \* bound: failing release() calls
    IDLE, NULL, FAILED

CallRecords == [file : Files, method : {"open", "release", "read", "write", "ioctl"}]

ASSUME CharDeviceAssumption ==
    /\ IsFiniteSet(Files)
    /\ PAGE_SIZE \in Nat \ {0} /\ ALLOC_MAX \in Nat /\ MaxFailed \in Nat
    /\ Offsets \subseteq Nat /\ Lens \subseteq Nat /\ Slots \subseteq Nat
    /\ Methods \in [Files -> SUBSET {"open", "release", "read", "write", "mmap", "ioctl", "compat_ioctl"}]
    /\ NULL # FAILED /\ {NULL, FAILED} \cap (Files \X Nat) = {}
    /\ IDLE \notin CallRecords

VARIABLES timer_needed, stage, vma, f_flags, call, compat, scratch, owned, given, failed

charVars == <<timer_needed, stage, vma, f_flags, call, compat, scratch, owned, given, failed>>

FreshVma == [i \in Slots |-> [len |-> 0, pgoff |-> 0, addr |-> NULL]]

CharInit ==
    /\ timer_needed = 0
    /\ stage = [f \in Files |-> "closed"]
    /\ vma = [f \in Files |-> FreshVma]
    /\ f_flags = [f \in Files |-> FALSE]
    /\ call = [w \in Workers |-> IDLE]
    /\ compat = [w \in Workers |-> FALSE]
    /\ scratch = [w \in Workers |-> [ptr |-> FALSE, offset |-> 0]]
    /\ owned = {}
    /\ given = [w \in Workers |-> {}]
    /\ failed = 0

Calls(w, f, m) == call' = [call EXCEPT ![w] = [file |-> f, method |-> m]]
Finish(w)      == call' = [call EXCEPT ![w] = IDLE]
In(w, m)       == call[w] # IDLE /\ call[w].method = m
Mapped(f, i)   == vma[f][i].addr \notin {NULL, FAILED}

-----------------------------------------------------------------------------
(* v4b_open(): the timer is taken before the driver's open() is called and *)
(* given back if that fails.  linux_open() starts with a fresh handle.     *)
v4b_open(w, f) ==
    /\ call[w] = IDLE /\ stage[f] = "closed"
    /\ timer_needed' = timer_needed + 1
    /\ stage' = [stage EXCEPT ![f] = "opening"]
    /\ Calls(w, f, "open")
    /\ UNCHANGED <<vma, f_flags, compat, scratch, owned, given, failed>>

OpenLeakMutant(w) ==
    LET f == call[w].file IN
    /\ In(w, "open")
    /\ Finish(w)
    /\ \/ /\ stage' = [stage EXCEPT ![f] = "open"]
          /\ vma' = [vma EXCEPT ![f] = FreshVma]
          /\ f_flags' = [f_flags EXCEPT ![f] = FALSE]
          /\ UNCHANGED timer_needed
       \/ /\ "open" \in Methods[f]    \* the driver refused
          /\ stage' = [stage EXCEPT ![f] = "closed"]
          /\ UNCHANGED <<vma, f_flags, timer_needed>>
    /\ UNCHANGED <<compat, scratch, owned, given, failed>>

linux_open_returns(w) ==
    LET f == call[w].file IN
    /\ In(w, "open")
    /\ Finish(w)
    /\ \/ /\ stage' = [stage EXCEPT ![f] = "open"]
          /\ vma' = [vma EXCEPT ![f] = FreshVma]
          /\ f_flags' = [f_flags EXCEPT ![f] = FALSE]
          /\ UNCHANGED timer_needed
       \/ /\ "open" \in Methods[f]    \* the driver refused
          /\ stage' = [stage EXCEPT ![f] = "closed"]
          /\ timer_needed' = timer_needed - 1
          /\ UNCHANGED <<vma, f_flags>>
    /\ UNCHANGED <<compat, scratch, owned, given, failed>>

(* v4b_close(): linux_close() closes the mappings and calls release(); the *)
(* handle is freed whatever release() says.                                *)
CloseMapped(f) == {i \in Slots : Mapped(f, i)}

(* cuse closes a file when its other requests have ended *)
NotInUse(f) == \A w \in Workers : call[w] # IDLE => call[w].file # f

linux_close(w, f) ==
    /\ call[w] = IDLE /\ stage[f] = "open" /\ NotInUse(f)
    /\ owned' = owned \ {<<f, i>> : i \in CloseMapped(f)}
    /\ vma' = [vma EXCEPT ![f] = [i \in Slots |->
                   IF i \in CloseMapped(f) THEN [@[i] EXCEPT !.addr = NULL] ELSE @[i]]]
    /\ stage' = [stage EXCEPT ![f] = "closing"]
    /\ Calls(w, f, "release")
    /\ UNCHANGED <<timer_needed, f_flags, compat, scratch, given, failed>>

release_returns(w) ==
    LET f == call[w].file IN
    /\ In(w, "release")
    /\ Finish(w)
    /\ stage' = [stage EXCEPT ![f] = "closed"]
    /\ \/ timer_needed' = timer_needed - 1 /\ UNCHANGED failed
       \/ /\ "release" \in Methods[f] /\ failed < MaxFailed
          /\ failed' = failed + 1
          /\ UNCHANGED timer_needed
    /\ UNCHANGED <<vma, f_flags, compat, scratch, owned, given>>

-----------------------------------------------------------------------------
(* linux_read(), linux_write() and linux_ioctl() up to the driver's method.*)
(* A driver without compat_ioctl() gets the 32-bit request through its     *)
(* ioctl(), not marked as one.  A missing method fails at once.            *)
Compat32(f, is32, m) == is32 /\ (m = "ioctl" => "compat_ioctl" \in Methods[f])

linux_io(w, f, m, is32, nonblock) ==
    /\ call[w] = IDLE /\ stage[f] = "open"
    /\ m \in {"read", "write", "ioctl"} \cap Methods[f]
    /\ f_flags' = [f_flags EXCEPT ![f] = nonblock]
    /\ compat' = [compat EXCEPT ![w] = Compat32(f, is32, m)]
    /\ Calls(w, f, m)
    /\ UNCHANGED <<timer_needed, stage, vma, scratch, owned, given, failed>>

(* compat_alloc_user_space() called by the driver's method: the block is   *)
(* allocated at the first call.  malloc() may fail.                        *)
Remaining(s) == ALLOC_MAX - s.offset

compat_alloc_user_space(w, len) ==
    LET s   == IF scratch[w].ptr THEN scratch[w] ELSE [ptr |-> TRUE, offset |-> 0]
        fit == len <= Remaining(s)
    IN
    /\ call[w] # IDLE /\ compat[w]
    /\ len <= ALLOC_MAX
    /\ scratch' = [scratch EXCEPT ![w] = [s EXCEPT !.offset = IF fit THEN @ + len ELSE @]]
    /\ given' = [given EXCEPT ![w] = @ \cup (IF fit THEN {<<s.offset, len>>} ELSE {})]
    /\ UNCHANGED <<timer_needed, stage, vma, f_flags, call, compat, owned, failed>>

(* The method returns: compat_free_all_user_space(), which leaves offset.  *)

EndOfCompat(w) ==
    /\ compat' = [compat EXCEPT ![w] = FALSE]
    /\ scratch' = [scratch EXCEPT ![w].ptr = IF compat[w] THEN FALSE ELSE @]
    /\ given' = [given EXCEPT ![w] = {}]

linux_io_returns(w) ==
    /\ \E m \in {"read", "write", "ioctl"} : In(w, m)
    /\ Finish(w)
    /\ EndOfCompat(w)
    /\ UNCHANGED <<timer_needed, stage, vma, f_flags, owned, failed>>

-----------------------------------------------------------------------------
(* v4b_ioctl() of VIDIOC_QUERYBUF: after the driver's answer the buffer is *)
(* mapped by linux_mmap(), which rounds the length up, looks for the same  *)
(* mapping and else takes the first free slot.  All start at PAGE_SIZE.    *)
RoundUp(len) == IF len % PAGE_SIZE = 0 THEN len
                ELSE ((len + PAGE_SIZE) \div PAGE_SIZE) * PAGE_SIZE

Already(f, off, len) ==
    {i \in Slots : /\ vma[f][i].len = RoundUp(len)
                   /\ vma[f][i].pgoff = off \div PAGE_SIZE
                   /\ Mapped(f, i)}

FreeSlotsMutant(f) == IF \A i \in Slots : Mapped(f, i) THEN {0} ELSE {i \in Slots : ~Mapped(f, i)}
FreeSlots(f) == {i \in Slots : ~Mapped(f, i)}

FirstOf(S) == CHOOSE i \in S : \A j \in S : i <= j

(* The address linux_mmap() answers without calling the driver. *)
MmapAnswer(f, off, len) ==
    IF "mmap" \notin Methods[f] \/ len = 0 \/ off % PAGE_SIZE # 0 THEN FAILED
    ELSE IF Already(f, off, len) # {} THEN vma[f][FirstOf(Already(f, off, len))].addr
    ELSE IF FreeSlots(f) = {} THEN FAILED ELSE NULL

(* The driver's mmap() sets the address of its buffer (remap_pfn_range(),  *)
(* vm_insert_page(), remap_vmalloc_range()), or fails.                     *)
linux_mmap(w, f, off, len) ==
    LET i == FirstOf(FreeSlots(f)) IN
    /\ In(w, "ioctl") /\ call[w].file = f
    /\ MmapAnswer(f, off, len) = NULL
    /\ \/ /\ vma' = [vma EXCEPT ![f][i] = [len |-> RoundUp(len), pgoff |-> off \div PAGE_SIZE,
                                            addr |-> <<f, off \div PAGE_SIZE>>]]
          /\ owned' = owned \cup {<<f, i>>}
       \/ /\ vma' = [vma EXCEPT ![f][i] = [len |-> RoundUp(len), pgoff |-> off \div PAGE_SIZE,
                                            addr |-> FAILED]]
          /\ UNCHANGED owned
    /\ Finish(w)
    /\ EndOfCompat(w)
    /\ UNCHANGED <<timer_needed, stage, f_flags, failed>>

(* linux_get_user_pages(): the pages of the first mapping that has them,   *)
(* as offsets into the driver's buffer; {} for failure.                    *)

HasPages(f, i, start, npages) ==
    LET end == PAGE_SIZE + vma[f][i].len IN
    /\ Mapped(f, i)
    /\ start >= PAGE_SIZE /\ start <= end
    /\ npages <= (end - start) \div PAGE_SIZE

linux_get_user_pages(f, start, npages) ==
    LET S == {i \in Slots : HasPages(f, i, start, npages)} IN
    IF npages <= 0 \/ start % PAGE_SIZE # 0 \/ S = {} THEN {}
    ELSE LET i == FirstOf(S) IN
         {<<i, start - PAGE_SIZE + j * PAGE_SIZE>> : j \in 0..npages-1}

-----------------------------------------------------------------------------
CharNext ==
    \E w \in Workers :
        \/ \E f \in Files :
               \/ v4b_open(w, f) \/ linux_close(w, f)
               \/ \E m \in {"read", "write", "ioctl"}, is32, nb \in BOOLEAN :
                      linux_io(w, f, m, is32, nb)
               \/ \E off \in Offsets, len \in Lens : linux_mmap(w, f, off, len)
        \/ linux_open_returns(w) \/ release_returns(w) \/ linux_io_returns(w)
        \/ \E len \in 1..ALLOC_MAX + 1 : compat_alloc_user_space(w, len)

CharSpec == CharInit /\ [][CharNext]_charVars

-----------------------------------------------------------------------------

(* The timer runs fast for every file a driver works on, from before its   *)
(* open() until after its release(), and for nothing else except the files *)
(* whose release() failed: those hold it for ever (v4b_close()).           *)
TimerExact ==
    timer_needed = Cardinality({f \in Files : stage[f] # "closed"}) + failed

(* The driver's mappings are those in the tables of open files: none is    *)
(* left when a file is closed, none is closed that the driver still has.   *)
MappingsMatch ==
    owned = {x \in Files \X Slots : stage[x[1]] = "open" /\ Mapped(x[1], x[2])}

(* QUERYBUF for a buffer answers with the address of that buffer or fails. *)
AnswerIsTheBuffer ==
    \A f \in Files, off \in Offsets, len \in Lens :
        stage[f] = "open" => MmapAnswer(f, off, len) \in {NULL, FAILED, <<f, off \div PAGE_SIZE>>}

(* linux_get_user_pages() never hands out a page outside the buffer.       *)
PagesOf(f, start, n) ==
    \A pg \in linux_get_user_pages(f, start, n) :
        0 <= pg[2] /\ pg[2] + PAGE_SIZE <= vma[f][pg[1]].len
PagesInside == \A f \in Files, start \in 0..4 * PAGE_SIZE, n \in 0..4 : PagesOf(f, start, n)

(* "Allocate zeroed memory which is automatically freed when the compat    *)
(* IOCTL(2) handler returns": an idle worker has none.  Within a request   *)
(* the ranges handed out are inside the block and do not overlap.          *)
ScratchOfRequest ==
    \A w \in Workers :
        /\ call[w] = IDLE => ~scratch[w].ptr /\ ~compat[w]
        /\ \A a \in given[w] : a[1] + a[2] <= ALLOC_MAX
        /\ \A a, b \in given[w] : a # b => a[1] + a[2] <= b[1] \/ b[1] + b[2] <= a[1]

(* CharDevice: need_timer() counts the open files, the driver's mappings   *)
(* are those in the tables of open files, VIDIOC_QUERYBUF answers with its *)
(* own buffer, linux_get_user_pages() stays inside the buffer, and scratch *)
(* memory of a 32-bit request belongs to this request.                     *)
FilesRight == TimerExact /\ MappingsMatch /\ AnswerIsTheBuffer /\ PagesInside /\ ScratchOfRequest

(* What QUERYBUF told a program stays true until close: linux_mmap() never *)
(* replaces a mapping, also not when the table is full.                    *)
KeepsMappings ==
    \A f \in Files, i \in Slots :
        Mapped(f, i) /\ stage[f] = "open" /\ stage'[f] = "open" => vma'[f][i] = vma[f][i]
MappingsStay == [][KeepsMappings]_charVars
=============================================================================
