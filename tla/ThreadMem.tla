------------------------------ MODULE ThreadMem -----------------------------
(***************************************************************************)
(* Threads as clients of the allocator: thread_create and thread_destroy   *)
(* of src/src/thread.c take and give back two blocks each, the structure   *)
(* of the thread and its stack, in four calls that other threads' calls    *)
(* interleave with.  A thread is named by the address of its structure.    *)
(* The scheduling of the created threads is the business of Thread; here   *)
(* they run until they exit.                                               *)
(***************************************************************************)
EXTENDS Mem

CONSTANTS ThreadSize,  \* sizeof(struct thread)
          StackSize    \* the stack_size of thread_create

ASSUME ThreadMemAssumption ==
  {ThreadSize, StackSize} \subseteq 1 .. SizeRange - 1

VARIABLES
  threads,  \* the stack and the state of the thread at each address
  pc,       \* where each caller is in thread_create or thread_destroy
  thread,   \* the local variable of that function, or NULL
  clients   \* the blocks of the other clients of malloc

threadvars == <<threads, pc, thread, clients>>
allvars    == <<tag, free_nodes, live, freeing, threads, pc, thread, clients>>

NoThread == [stack |-> NULL, state |-> "none"]

TypeOKThreads ==
  /\ threads \in [Word -> [stack : Word \cup {NULL}, state : {"none", "running", "dead"}]]
  /\ pc \in [Thread -> {"out", "stack", "nomem", "destroy"}]
  /\ thread \in [Thread -> Word \cup {NULL}]
  /\ clients \subseteq Word

ThreadInit ==
  /\ Init
  /\ threads = [w \in Word |-> NoThread]
  /\ pc = [t \in Thread |-> "out"]
  /\ thread = [t \in Thread |-> NULL]
  /\ clients = {}

\* The block that malloc(n) returns now.
Malloc(n) == FreeListFind(Current, ConvertToBlockSize(n))

At(t, label, block) ==
  /\ pc' = [pc EXCEPT ![t] = label]
  /\ thread' = [thread EXCEPT ![t] = block]

\* Calls of malloc and free by the rest of the kernel.
ClientAlloc(t, n) ==
  /\ pc[t] = "out"
  /\ \/ Alloc(t, n) /\ clients' = clients \cup {Malloc(n)}
     \/ AllocFails(t, n) /\ UNCHANGED clients
  /\ UNCHANGED <<threads, pc, thread>>

ClientFree(t, b) ==
  /\ pc[t] = "out"
  /\ b \in clients
  /\ FreeCall(t, b)
  /\ clients' = clients \ {b}
  /\ UNCHANGED <<threads, pc, thread>>

\* thread_create up to the first malloc; ERROR_NOMEM changes nothing.
CreateThread(t) ==
  /\ pc[t] = "out"
  /\ \/ Alloc(t, ThreadSize) /\ At(t, "stack", Malloc(ThreadSize))
     \/ AllocFails(t, ThreadSize) /\ UNCHANGED <<pc, thread>>
  /\ UNCHANGED <<threads, clients>>

\* The second malloc. If it succeeds thread_init sets up the structure and
\* the thread starts.
CreateStack(t) ==
  /\ pc[t] = "stack"
  /\ \/ /\ Alloc(t, StackSize)
        /\ threads' = [threads EXCEPT ![thread[t]] =
                         [stack |-> Malloc(StackSize), state |-> "running"]]
        /\ At(t, "out", NULL)
     \/ /\ AllocFails(t, StackSize)
        /\ At(t, "nomem", thread[t])
        /\ UNCHANGED threads
  /\ UNCHANGED clients

\* Faulty variant: the structure is kept when there is no stack.
CreateFailsLeaking(t) ==
  /\ pc[t] = "nomem"
  /\ At(t, "out", NULL)
  /\ UNCHANGED <<tag, free_nodes, live, freeing, threads, clients>>

\* free(thread), after the second malloc has failed.
CreateFails(t) ==
  /\ pc[t] = "nomem"
  /\ FreeCall(t, thread[t])
  /\ At(t, "out", NULL)
  /\ UNCHANGED <<threads, clients>>

\* thread_exit, by the thread at b.
Exit(b) ==
  /\ threads[b].state = "running"
  /\ threads' = [threads EXCEPT ![b].state = "dead"]
  /\ UNCHANGED <<tag, free_nodes, live, freeing, pc, thread, clients>>

\* Faulty variant: a thread that still runs is destroyed.
DestroyRunning(t, b) ==
  /\ pc[t] = "out"
  /\ threads[b].state # "none"
  /\ FreeCall(t, threads[b].stack)
  /\ At(t, "destroy", b)
  /\ UNCHANGED <<threads, clients>>

\* thread_destroy of a dead thread, by the one that has joined it:
\* free(thread->stack), then free(thread).
Destroy(t, b) ==
  /\ pc[t] = "out"
  /\ threads[b].state = "dead"
  /\ FreeCall(t, threads[b].stack)
  /\ threads' = [threads EXCEPT ![b] = NoThread]
  /\ At(t, "destroy", b)
  /\ UNCHANGED clients

DestroyStruct(t) ==
  /\ pc[t] = "destroy"
  /\ FreeCall(t, thread[t])
  /\ At(t, "out", NULL)
  /\ UNCHANGED <<threads, clients>>

ThreadNext ==
  \/ \E t \in Thread :
       \/ \E n \in Request : ClientAlloc(t, n)
       \/ \E b \in Word : ClientFree(t, b) \/ Destroy(t, b)
       \/ CreateThread(t) \/ CreateStack(t) \/ CreateFails(t) \/ DestroyStruct(t)
       \/ Free(t) /\ UNCHANGED threadvars
  \/ \E b \in Word : Exit(b) \/ (Write(b) /\ UNCHANGED threadvars)

ThreadSpec == ThreadInit /\ [][ThreadNext]_allvars

-----------------------------------------------------------------------------
Existing == {b \in Word : threads[b].state # "none"}

\* From thread_create to thread_destroy, a thread keeps a structure and a
\* stack of the sizes asked for, shared with no other thread or client,
\* whatever is allocated, freed or fails meanwhile.
ThreadsKeepMemory ==
  \A b \in Existing :
    /\ live[b] = ThreadSize /\ live[threads[b].stack] = StackSize
    /\ {b, threads[b].stack} \cap clients = {}
    /\ \A c \in Existing : b # c =>
         {b, threads[b].stack} \cap {c, threads[c].stack} = {}

\* Nothing leaks, the failure of thread_create's second malloc included:
\* every block in use belongs to a thread, a client or a call in progress, and
\* once all is given back the heap is the single free block of mem_setup.
NothingLeaked ==
  /\ {b \in Word : live[b] # 0} =
       clients \cup Existing \cup {threads[b].stack : b \in Existing}
       \cup ({thread[t] : t \in Thread} \ {NULL})
  /\ UsedBlocks = {} => free_nodes = <<0>> /\ tag[0].size = HeapWords
=============================================================================
