--------------------------------- MODULE Gpu --------------------------------
(***************************************************************************)
(* The GPU experiments (gpu/): a host program gives a kernel an array of   *)
(* num_pkts numbers, again and again, and compares what comes back (seqMem *)
(* only adds it up).  There are two kinds of programs.                     *)
(*   - Copying: every round the numbers are copied to the device, a kernel *)
(*     is launched for them and the results are copied back, all through a *)
(*     stream that the host waits for (streams, memcpyTime, unifiedMemory, *)
(*     cvg-compute, cvg-randMem, vectorAdd, seqMem).                       *)
(*   - Polling: one kernel runs all the time; its threads spin on a flag   *)
(*     in memory the host maps to the device, and the host spins on the    *)
(*     results (mappedMemory, mtMappedMemory).                             *)
(*                                                                         *)
(* A host program is three lists of operations, what it does once, in      *)
(* every round and at its end; prog says which program this is. What CUDA  *)
(* guarantees of its streams, of the copies and of the threads of a grid   *)
(* is modelled from how the programs use it.                               *)
(* Reads and writes of mapped memory take effect in program order.         *)
(***************************************************************************)
EXTENDS Integers, SequencesExt, FiniteSetsExt

CONSTANTS
  Programs,     \* the programs considered
  MaxPkts,      \* bound: num_pkts, given on the command line, is at most this
  ITERS,        \* rounds
  Resident,     \* threads of a grid the device can hold at a time
  DEPTH,        \* rounds of hashing or chasing in the cvg kernels
  COMPUTE,      \* rounds of vectorAdd
  LOG_CAP       \* entries of the log, a power of two; also bounds the words hashed

Copying == {"streams", "memcpyTime-async", "memcpyTime-synch", "unifiedMemory", "cvg-compute",
            "randMem", "cvg-randMem", "vectorAdd", "seqMem"}
Polling == {"mapped-time", "mapped-compute", "mapped-randMem", "mtMappedMemory"}

ASSUME GpuAssumption ==
  /\ Programs \subseteq Copying \union Polling
  /\ {MaxPkts, ITERS, DEPTH, COMPUTE, LOG_CAP} \subseteq Nat \ {0}
  /\ Resident \in Nat

Word == 0 .. LOG_CAP-1

VARIABLES
  prog,
  num_pkts,
  table,        \* the log or the hash function, by the program
  body,         \* its operations
  part, pc,     \* where the host is: "once", "loop" or "last", and the operation
  round,        \* the round it is in, from 0
  j,            \* the index of its inner loops
  A,            \* the host array of inputs, and of results where they come back to it
  B,            \* the array of results, where there is one
  cpu,          \* what the host compares with: a copy of the inputs, or the CPU's results
  D,            \* the array on the device
  stream,       \* operations issued to the stream and not finished
  ran,          \* threads of the first kernel of the stream that have run
  flag,         \* polling: the round the kernel may work on
  kernel,       \* polling: state, round and register of each thread
  ok            \* no comparison has failed

given == <<prog, num_pkts, table, body>>
place == <<part, pc, round, j>>
hostVars == <<place, A, B, cpu, ok>>
devVars  == <<D, stream, ran, kernel>>
vars == <<given, hostVars, devVars, flag>>

Pkt == 0 .. num_pkts-1
Fill(x) == [i \in 0 .. MaxPkts-1 |-> x]

-----------------------------------------------------------------------------
\* The operations of the host.  A copy with cudaMemcpy returns when it is
\* done; so does cudaMemcpyAsync from the device to memory that is not pinned.
Synchronous(op) == <<op, "sync">>
ToHostAsync(pinned) == IF pinned THEN <<"d2h">> ELSE Synchronous("d2h")

Async(pinned) == <<"h2d", "launch">> \o ToHostAsync(pinned) \o <<"sync">>
Sync == Synchronous("h2d") \o <<"launch", "sync">> \o Synchronous("d2h")

\* once before the rounds, in every round, once after them
Body(once, loop, last) == [once |-> once, loop |-> loop, last |-> last]

\* Mutant: the results are compared while the copy may still be going on.
streams_unsynchronised == Body(<<>>, <<"write", "h2d", "launch", "d2h", "check">>, <<>>)

streams == Body(<<>>, <<"write">> \o Async(TRUE) \o <<"check">>, <<>>)

\* memcpyTime does a round for warming up, with an array nobody has written.
memcpyTime_async == Body(Async(FALSE), <<"write">> \o Async(FALSE) \o <<"check">>, <<>>)
memcpyTime_synch == Body(Synchronous("h2d") \o <<"launch">> \o Synchronous("d2h"),
                         <<"write">> \o Sync, <<>>)
unifiedMemory == Body(<<>>, <<"write", "launch", "sync", "check">>, <<>>)

\* The packets are drawn once and the results of a round are the inputs of
\* the next (cvg-compute, randMem), or they are drawn in every round.
cvg_compute == Body(<<"write">>, <<"cpu_run">> \o Async(TRUE), <<"check">>)
randMem     == Body(<<"write">>, <<"cpu_run">> \o Async(TRUE), <<"check">>)
cvg_randMem == Body(<<>>, <<"write", "cpu_run">> \o Async(TRUE), <<"check">>)

\* The same with INCLUDE_COPY_TIME 0: nothing is asynchronous but the kernel.
cvg_compute_uncopied == Body(<<"write">>, <<"cpu_run">> \o Sync, <<"check">>)
randMem_uncopied     == Body(<<"write">>, <<"cpu_run">> \o Sync, <<"check">>)
cvg_randMem_uncopied == Body(<<>>, <<"write", "cpu_run">> \o Sync, <<"check">>)

vectorAdd == Body(<<"write", "cpu_run">>, Sync, <<"check">>)

\* seqMem adds the sums up right after the asynchronous copy.
seqMem == Body(<<>>, <<"launch", "sync">> \o ToHostAsync(FALSE) \o <<"check">>, <<>>)

\* Mutant: the results of the last round are not cleared.
gpu_run_uncleared == Body(<<>>, <<"write", "raise", "wait", "check">>, <<>>)

\* The thread gpu_run of the polling programs; main starts it before it
\* launches the kernel.
gpu_run == Body(<<>>, <<"memset", "write", "raise", "wait", "check">>, <<>>)

mapped_time    == gpu_run
mapped_compute == gpu_run
mapped_randMem == gpu_run
mtMappedMemory == gpu_run

Bodies(p) ==
  CASE p = "streams" -> {streams}
    [] p = "memcpyTime-async" -> {memcpyTime_async}
    [] p = "memcpyTime-synch" -> {memcpyTime_synch}
    [] p = "unifiedMemory" -> {unifiedMemory}
    [] p = "cvg-compute" -> {cvg_compute, cvg_compute_uncopied}
    [] p = "randMem" -> {randMem, randMem_uncopied}
    [] p = "cvg-randMem" -> {cvg_randMem, cvg_randMem_uncopied}
    [] p = "vectorAdd" -> {vectorAdd}
    [] p = "seqMem" -> {seqMem}
    [] p = "mapped-time" -> {mapped_time}
    [] p = "mapped-compute" -> {mapped_compute}
    [] p = "mapped-randMem" -> {mapped_randMem}
    [] p = "mtMappedMemory" -> {mtMappedMemory}

-----------------------------------------------------------------------------
\* The numbers the host may write for packet i in round r.
Inputs(i, r) ==
  CASE prog \in {"streams", "unifiedMemory"} -> {r + i}
    [] prog \in {"memcpyTime-async", "memcpyTime-synch"} -> {r}
    [] prog \in {"cvg-compute", "randMem", "cvg-randMem", "mapped-randMem"} -> Word
    [] prog = "vectorAdd" -> 0..2                 \* A[i] + B[i], each 0 or 1
    [] prog = "mapped-time" -> {r + 1}
    [] prog \in {"mapped-compute", "mtMappedMemory"} -> {i + r + 1}

Iterate(f, x, n) == FoldLeft(LAMBDA y, k : f[y], x, [k \in 1..n |-> k])

\* COMPUTE times C += s, C += C
Doubled(c, s) == FoldLeft(LAMBDA y, k : 2 * (y + s), c, [k \in 1..COMPUTE |-> k])

\* What a kernel thread makes of its number x.
Result(x) ==
  CASE prog \in {"streams", "memcpyTime-async", "memcpyTime-synch", "unifiedMemory"} -> x * x
    [] prog \in {"cvg-compute", "randMem", "cvg-randMem"} -> Iterate(table, x, DEPTH)
    [] prog = "vectorAdd" -> Doubled(0, x)
    [] prog = "mapped-time" -> x + 1
    [] prog = "mapped-compute" -> table[x]
    [] prog = "mapped-randMem" -> table[x]
    [] prog = "mtMappedMemory" -> x * 2

\* seqMem: thread i adds every num_pkts'th entry of the log, where log[k] = k,
\* or, if it is compiled with WR_ONLY, none.
Strided(i) == IF table = "WR_ONLY" THEN 0
              ELSE SumSet({k \in 0..LOG_CAP-1 : k % num_pkts = i})

\* cpu_run: vectorAdd's does not start from 0.
CpuResult(x, c) == IF prog = "vectorAdd" THEN Doubled(c, x) ELSE Result(x)

Tables ==
  CASE prog \in {"cvg-compute", "randMem"} -> [Word -> Word]
    [] prog = "cvg-randMem" -> {f \in [Word -> Word] : IsInjective(f)}   \* init_ht_log
    [] prog = "mapped-compute" -> [1 .. MaxPkts + ITERS - 1 -> Word]
    [] prog = "mapped-randMem" -> {[k \in Word |-> k + 1]}
    [] prog = "seqMem" -> {"WR_ONLY", "read"}
    [] OTHER -> {<<>>}

\* Memory from malloc holds anything: vectorAdd's h_C_CPU, memcpyTime's h_A.
Garbage == 0..1

Init ==
  /\ prog \in Programs
  /\ num_pkts \in 1..MaxPkts
  /\ prog = "seqMem" => LOG_CAP % num_pkts = 0
  /\ table \in Tables
  /\ body \in Bodies(prog)
  /\ part = IF body.once = <<>> THEN "loop" ELSE "once"
  /\ pc = 1 /\ round = 0 /\ j = 0
  /\ A \in {Fill(x) : x \in IF prog \in {"memcpyTime-async", "memcpyTime-synch"}
                             THEN Garbage ELSE {0}}
  /\ B = Fill(0)
  /\ cpu \in {Fill(x) : x \in IF prog = "vectorAdd" THEN Garbage ELSE {0}}
  /\ D = Fill(0)
  /\ stream = <<>>
  /\ ran = {}
  /\ flag = -1
  /\ kernel = [i \in 0 .. MaxPkts-1 |-> [at |-> "unlaunched", iter |-> 0, inp |-> 0]]
  /\ ok = TRUE

-----------------------------------------------------------------------------
\* The host.
Ops == CASE part = "once" -> body.once [] part = "loop" -> body.loop [] part = "last" -> body.last
AtEnd == pc > Len(Ops)

\* The next operation, or the first one of the next round or part.
Advance ==
  /\ j' = 0
  /\ IF part = "last" \/ pc < Len(Ops)
       THEN pc' = pc + 1 /\ UNCHANGED <<part, round>>
       ELSE /\ pc' = 1
            /\ part' = IF part = "once" \/ round + 1 < ITERS THEN "loop" ELSE "last"
            /\ round' = IF part = "loop" /\ round + 1 < ITERS THEN round + 1 ELSE round

\* One step of a loop over the packets, and the next operation after it.
Looping == IF j + 1 < num_pkts THEN j' = j + 1 /\ UNCHANGED <<part, pc, round>> ELSE Advance

Doing(op) == ok /\ ~AtEnd /\ Ops[pc] = op /\ UNCHANGED given

\* The inputs are written; the cvg programs keep a copy for the CPU.
Write ==
  /\ Doing("write")
  /\ \E x \in Inputs(j, round) :
       /\ A' = [A EXCEPT ![j] = x]
       /\ cpu' = IF prog = "vectorAdd" THEN cpu ELSE [cpu EXCEPT ![j] = x]
  /\ Looping
  /\ UNCHANGED <<B, ok, devVars, flag>>

CpuRun ==
  /\ Doing("cpu_run")
  /\ cpu' = [cpu EXCEPT ![j] = CpuResult(IF prog = "vectorAdd" THEN A[j] ELSE @, @)]
  /\ Looping
  /\ UNCHANGED <<A, B, ok, devVars, flag>>

\* Copies and kernels are put into the stream.
Issue ==
  /\ \E op \in {"h2d", "launch", "d2h"} : Doing(op) /\ stream' = Append(stream, op)
  /\ Advance
  /\ UNCHANGED <<A, B, cpu, ok, D, ran, kernel, flag>>

\* cudaStreamSynchronize, cudaDeviceSynchronize
Synchronize ==
  /\ Doing("sync")
  /\ stream = <<>>
  /\ Advance
  /\ UNCHANGED <<A, B, cpu, ok, devVars, flag>>

\* What the result of packet j is compared with.
Expected ==
  CASE prog \in {"cvg-compute", "randMem", "cvg-randMem", "vectorAdd"} -> cpu[j]
    [] prog = "seqMem" -> Strided(j)
    [] prog \in Polling -> Result(A[j])
    [] OTHER -> Result(cpu[j])

Actual == IF prog \in Polling \union {"unifiedMemory", "vectorAdd", "seqMem"} THEN B[j] ELSE A[j]

\* vectorAdd lets its numbers differ by one: fabs(...) > 1 of two ints.
Same(x, y) == IF prog = "vectorAdd" THEN y \in {x - 1, x, x + 1} ELSE y = x

\* The loop over the results.  That of seqMem adds them up and prints the sum;
\* here it compares what it reads with the sums the kernel is to leave.
Check ==
  /\ Doing("check")
  /\ ok' = Same(Expected, Actual)
  /\ Looping
  /\ UNCHANGED <<A, B, cpu, devVars, flag>>

\* The whole array at once: no thread of the kernel is storing a result then
\* (KernelInStep).
Memset ==
  /\ Doing("memset")
  /\ B' = Fill(0)
  /\ Advance
  /\ UNCHANGED <<A, cpu, ok, devVars, flag>>

\* Mutant: the flag is raised for the first round only.
RaiseOnce ==
  /\ Doing("raise")
  /\ flag' = 0
  /\ Advance
  /\ UNCHANGED <<A, B, cpu, ok, devVars>>

Raise ==
  /\ Doing("raise")
  /\ flag' = round
  /\ Advance
  /\ UNCHANGED <<A, B, cpu, ok, devVars>>

\* Mutant: one number that is not zero is enough.
waitForNonZero_any ==
  /\ Doing("wait")
  /\ \E i \in Pkt : B[i] # 0
  /\ Advance
  /\ UNCHANGED <<A, B, cpu, ok, devVars, flag>>

\* The results are read one after the other, again from the first one as
\* long as one of them is zero.  mtMappedMemory starts again at the first
\* zero; the others read on to the last result first, with the same outcome.
waitForNonZero ==
  /\ Doing("wait")
  /\ IF B[j] = 0 THEN j' = 0 /\ UNCHANGED <<part, pc, round>> ELSE Looping
  /\ UNCHANGED <<A, B, cpu, ok, devVars, flag>>

Host == Write \/ CpuRun \/ Issue \/ Synchronize \/ Check \/ Memset \/ Raise \/ waitForNonZero

-----------------------------------------------------------------------------
\* The device works its stream off in order.
First(op) == stream # <<>> /\ Head(stream) = op
Device == UNCHANGED <<given, place, cpu, ok, flag, kernel>>

CopyToDevice ==
  /\ First("h2d")
  /\ D' = A
  /\ stream' = Tail(stream)
  /\ Device /\ UNCHANGED <<A, B, ran>>

\* Thread i of the kernel; the threads run in any order.  A kernel is
\* finished with its last thread.
KernelThread(i) ==
  /\ First("launch")
  /\ i \in Pkt \ ran
  /\ IF prog = "unifiedMemory"
       THEN B' = [B EXCEPT ![i] = Result(A[i])] /\ UNCHANGED D
       ELSE /\ D' = [D EXCEPT ![i] = IF prog = "seqMem" THEN Strided(i) ELSE Result(@)]
            /\ UNCHANGED B
  /\ IF ran \union {i} = Pkt THEN ran' = {} /\ stream' = Tail(stream)
     ELSE ran' = ran \union {i} /\ UNCHANGED stream
  /\ Device /\ UNCHANGED A

CopyToHost ==
  /\ First("d2h")
  /\ IF prog \in {"vectorAdd", "seqMem"} THEN B' = D /\ UNCHANGED A ELSE A' = D /\ UNCHANGED B
  /\ stream' = Tail(stream)
  /\ Device /\ UNCHANGED <<D, ran>>

-----------------------------------------------------------------------------
\* The polling kernel.
Polls(i, from, to) ==
  /\ kernel[i].at = from
  /\ kernel' = [kernel EXCEPT ![i] = to]
  /\ UNCHANGED <<given, place, A, cpu, ok, D, stream, ran, flag>>

\* main launches the kernel; its threads wait for a place on the device.
Launch ==
  /\ prog \in Polling
  /\ \A i \in Pkt : kernel[i].at = "unlaunched"
  /\ kernel' = [i \in DOMAIN kernel |-> [kernel[i] EXCEPT !.at = IF i \in Pkt THEN "queued" ELSE @]]
  /\ UNCHANGED <<given, place, A, B, cpu, ok, D, stream, ran, flag>>

OnDevice == {i \in Pkt : kernel[i].at \in {"spin", "load", "store"}}

Place(i) ==
  /\ Cardinality(OnDevice) < Resident
  /\ Polls(i, "queued", [kernel[i] EXCEPT !.at = "spin"])
  /\ UNCHANGED B

\* The loop while(flag[0] == iter - 1), left
Seen(i) ==
  /\ flag # kernel[i].iter - 1
  /\ Polls(i, "spin", [kernel[i] EXCEPT !.at = "load"])
  /\ UNCHANGED B

Load(i) ==
  /\ Polls(i, "load", [kernel[i] EXCEPT !.at = "store", !.inp = A[i]])
  /\ UNCHANGED B

Store(i) ==
  /\ Polls(i, "store", [at |-> IF kernel[i].iter + 1 < ITERS THEN "spin" ELSE "finished",
                        iter |-> kernel[i].iter + 1, inp |-> 0])
  /\ B' = [B EXCEPT ![i] = Result(kernel[i].inp)]

Thread(i) == KernelThread(i) \/ Place(i) \/ Seen(i) \/ Load(i) \/ Store(i)

Next ==
  \/ Host
  \/ CopyToDevice \/ CopyToHost \/ Launch
  \/ \E i \in Pkt : Thread(i)

\* The host thread and the main thread are scheduled by the operating
\* system, copies and resident threads by the device.
Fairness ==
  /\ WF_vars(Host)
  /\ WF_vars(CopyToDevice \/ CopyToHost \/ Launch)
  /\ \A i \in 0 .. MaxPkts-1 : WF_vars(i \in Pkt /\ Thread(i))

Spec == Init /\ [][Next]_vars /\ Fairness

-----------------------------------------------------------------------------
(* No comparison of a program with its own expectation fails ("Kernel      *)
(* output mismatch error", "Result verification failed"), but that of      *)
(* vectorAdd when the memory its CPU results start from was not zero; and  *)
(* the numbers seqMem adds up are the sums of its kernel.                  *)
ResultsVerified ==
  ~ok => prog = "vectorAdd" /\ \E i \in Pkt : cpu[i] # Doubled(0, A[i])

(* The host touches an array only when no copy to or from it and no kernel *)
(* that works on it is under way: every round waits for its stream, or for *)
(* a copy that is synchronous because the array is not pinned.             *)
HostOwnsArrays == (~AtEnd /\ Ops[pc] \in {"write", "check"}) => stream = <<>>

(* Host and polling kernel stay in step with a single flag and no barrier: *)
(* no thread is more than one round behind the flag or ahead of it, it     *)
(* computes from the numbers of the round it is in, and a result that is   *)
(* not zero is one of the round the flag shows.                            *)
KernelInStep ==
  prog \in Polling =>
    \A i \in Pkt :
      /\ kernel[i].iter \in {flag, flag + 1}
      /\ kernel[i].at \in {"load", "store"} => kernel[i].iter = flag
      /\ kernel[i].at = "store" => kernel[i].inp = A[i]
      /\ B[i] # 0 => kernel[i].iter = flag + 1

\* What a polling program needs of its input: all threads fit on the device
\* at the same time, and no result is zero.
Servable ==
  prog \in Polling =>
    /\ num_pkts <= Resident
    /\ prog = "mapped-compute" => 0 \notin Range(table)

(* Every program comes to its end.  A polling program with more threads    *)
(* than the device can hold waits for ever (run.sh: "don't go up to        *)
(* 16384"), and so does one whose hash is 0 for some number.               *)
Terminates == Servable ~> (AtEnd \/ ~ok)
=============================================================================
