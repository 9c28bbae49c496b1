------------------------- MODULE AllocatorInstance --------------------------
(***************************************************************************)
(* IAllocator::GetInstance(): the one allocator of the process is made by the *)
(* first caller, under a lock, and found by the others with a look at a plain  *)
(* pointer before they take the lock and a second look after.                 *)
(***************************************************************************)
EXTENDS Naturals

CONSTANTS
  Caller,         \* the threads that call GetInstance()
  MaxAllocators   \* bound on the allocators made

ASSUME AllocatorAssumption ==
  /\ MaxAllocators \in Nat
  /\ "nobody" \notin Caller

VARIABLES
  s_mutex,       \* the thread that holds it, or nobody
  s_pAllocator,  \* which allocator, 0 for nullptr
  getPc,         \* where each thread is in GetInstance()
  given,         \* what each thread's latest call returned, 0 for nullptr
  allocators     \* allocators made so far

allocatorVars == <<s_mutex, s_pAllocator, getPc, given, allocators>>

Unowned == "nobody"

AllocatorInit ==
  /\ s_mutex = Unowned
  /\ s_pAllocator = 0
  /\ getPc = [c \in Caller |-> "idle"]
  /\ given = [c \in Caller |-> 0]
  /\ allocators = 0

At(c, from, to) == getPc[c] = from /\ getPc' = [getPc EXCEPT ![c] = to]

\* The pointer is read without the lock while another thread may write it: the
\* caller may not see the write.
FirstLook(c) ==
  /\ \/ At(c, "idle", "lock") /\ UNCHANGED given
     \/ /\ s_pAllocator # 0
        /\ getPc[c] = "idle"
        /\ given' = [given EXCEPT ![c] = s_pAllocator]
        /\ UNCHANGED getPc
  /\ UNCHANGED <<s_mutex, s_pAllocator, allocators>>

NoSecondLook(c) ==
  /\ At(c, "lock", "make")
  /\ s_mutex = Unowned
  /\ s_mutex' = c
  /\ UNCHANGED <<s_pAllocator, given, allocators>>

SecondLook(c) ==
  /\ s_mutex = Unowned
  /\ \/ /\ s_pAllocator # 0
        /\ At(c, "lock", "idle")
        /\ given' = [given EXCEPT ![c] = s_pAllocator]
        /\ UNCHANGED s_mutex
     \/ /\ s_pAllocator = 0
        /\ At(c, "lock", "make")
        /\ s_mutex' = c
        /\ UNCHANGED given
  /\ UNCHANGED <<s_pAllocator, allocators>>

\* The allocator is published before Init() is called.
MakeAllocator(c) ==
  \/ /\ At(c, "make", "init")
     /\ allocators < MaxAllocators
     /\ allocators' = allocators + 1
     /\ s_pAllocator' = allocators + 1
     /\ UNCHANGED <<s_mutex, given>>
  \/ /\ At(c, "make", "idle")  \* out of memory
     /\ s_mutex' = Unowned
     /\ given' = [given EXCEPT ![c] = 0]
     /\ UNCHANGED <<s_pAllocator, allocators>>

\* Init() does nothing, and cannot fail.
InitAllocator(c) ==
  /\ At(c, "init", "idle")
  /\ given' = [given EXCEPT ![c] = s_pAllocator]
  /\ s_mutex' = Unowned
  /\ UNCHANGED <<s_pAllocator, allocators>>

AllocatorNext ==
  \E c \in Caller :
    \/ FirstLook(c)
    \/ SecondLook(c)
    \/ MakeAllocator(c)
    \/ InitAllocator(c)

AllocatorSpec == AllocatorInit /\ [][AllocatorNext]_allocatorVars

-----------------------------------------------------------------------------
AllocatorTypeOK ==
  /\ s_mutex \in Caller \cup {Unowned}
  /\ s_pAllocator \in 0 .. MaxAllocators
  /\ getPc \in [Caller -> {"idle", "lock", "make", "init"}]
  /\ given \in [Caller -> 0 .. MaxAllocators]
  /\ allocators \in 0 .. MaxAllocators

\* However the first calls race, and whichever of them run out of memory, the
\* process has one allocator: whoever was given one was given that, and none is lost.
OneAllocator ==
  /\ allocators <= 1
  /\ \A c \in Caller : given[c] \in {0, s_pAllocator}
=============================================================================
