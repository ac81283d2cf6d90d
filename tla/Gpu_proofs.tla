----------------------------- MODULE Gpu_proofs -----------------------------
(***************************************************************************)
(* Proofs about Gpu for any number of packets, rounds and resident         *)
(* threads: the host never touches an array the stream works on, the       *)
(* threads of a polling kernel stay in step with the host, and what a      *)
(* program compares is what it expects.                                    *)
(***************************************************************************)
EXTENDS Gpu, TLAPS

-----------------------------------------------------------------------------
(* Programs: every list of operations waits for what it has issued.        *)

Issues == {"h2d", "launch", "d2h"}
Operation == Issues \union {"write", "cpu_run", "sync", "check", "memset", "raise", "wait"}

\* Before operation i, everything issued has been waited for.
Waited(ops, i) ==
  \A h \in 1 .. i-1 : ops[h] \in Issues => \E m \in h+1 .. i-1 : ops[m] = "sync"

\* A list that touches its arrays only then, and leaves nothing under way.
Synced(ops) ==
  /\ ops \in Seq(Operation)
  /\ \A i \in 1 .. Len(ops) : ops[i] \in {"write", "cpu_run", "check"} => Waited(ops, i)
  /\ Waited(ops, Len(ops) + 1)

LEMMA SyncedConcat ==
  ASSUME NEW s, NEW t, Synced(s), Synced(t)
  PROVE  Synced(s \o t)
<1> DEFINE u == s \o t
           n == Len(s)
<1>1. /\ s \in Seq(Operation) /\ t \in Seq(Operation) /\ u \in Seq(Operation)
      /\ n \in Nat /\ Len(t) \in Nat /\ Len(u) = n + Len(t)
  BY DEF Synced
<1>2. \A i \in 1..n : u[i] = s[i]
  BY <1>1
<1>3. \A i \in 1 .. Len(t) : u[n + i] = t[i]
  BY <1>1
<1> HIDE DEF u, n
<1>4. ASSUME NEW i \in 1 .. n+1, Waited(s, i)
      PROVE  Waited(u, i)
  BY <1>1, <1>2, <1>4 DEF Waited
<1>5. ASSUME NEW i \in 1 .. Len(t)+1, Waited(t, i)
      PROVE  Waited(u, n + i)
  <2>1. ASSUME NEW h \in 1 .. (n+i) - 1, u[h] \in Issues, h <= n
        PROVE  \E m \in h+1 .. (n+i) - 1 : u[m] = "sync"
    <3>1. Waited(s, n + 1)
      BY DEF Synced, n
    <3>2. PICK m \in h+1 .. n : s[m] = "sync"
      BY <1>1, <1>2, <2>1, <3>1 DEF Waited
    <3> QED
      BY <1>1, <1>2, <3>2
  <2>2. ASSUME NEW h \in 1 .. (n+i) - 1, u[h] \in Issues, h > n
        PROVE  \E m \in h+1 .. (n+i) - 1 : u[m] = "sync"
    <3>1. h - n \in 1 .. i-1 /\ h - n \in 1 .. Len(t) /\ n + (h - n) = h
      BY <1>1, <2>2
    <3>2. t[h - n] \in Issues
      BY <1>1, <1>3, <2>2, <3>1
    <3>3. PICK m \in (h - n) + 1 .. i-1 : t[m] = "sync"
      BY <1>5, <3>1, <3>2 DEF Waited
    <3>4. m \in 1 .. Len(t) /\ n + m \in h+1 .. (n+i) - 1
      BY <1>1, <3>1
    <3>5. u[n + m] = "sync"
      BY <1>3, <3>3, <3>4
    <3> QED
      BY <3>4, <3>5
  <2>3. \A h \in 1 .. (n+i) - 1 : h <= n \/ h > n
    BY <1>1
  <2>4. \A h \in 1 .. (n+i) - 1 : u[h] \in Issues => \E m \in h+1 .. (n+i) - 1 : u[m] = "sync"
    BY <2>1, <2>2, <2>3
  <2> QED
    BY <2>4 DEF Waited
<1>6. ASSUME NEW i \in 1 .. Len(u), u[i] \in {"write", "cpu_run", "check"}
      PROVE  Waited(u, i)
  <2>1. CASE i <= n
    BY <1>1, <1>2, <1>4, <1>6, <2>1 DEF Synced, n
  <2>2. CASE i > n
    <3>1. i - n \in 1 .. Len(t) /\ n + (i - n) = i
      BY <1>1, <2>2
    <3>2. Waited(t, i - n)
      BY <1>1, <1>3, <1>6, <3>1 DEF Synced
    <3> QED
      BY <1>1, <1>5, <3>1, <3>2
  <2> QED
    BY <1>1, <2>1, <2>2
<1>7. Waited(u, Len(u) + 1)
  <2>1. Waited(u, n + (Len(t) + 1))
    BY <1>1, <1>5 DEF Synced
  <2> QED
    BY <1>1, <2>1
<1> QED
  BY <1>1, <1>6, <1>7 DEF Synced, u

\* A list that issues nothing, and one that ends with waiting.
LEMMA SyncedSimple ==
  ASSUME NEW ops \in Seq(Operation), \A i \in 1 .. Len(ops) : ops[i] \notin Issues
  PROVE  Synced(ops)
<1>1. Len(ops) \in Nat
  OBVIOUS
<1>2. \A i \in 1 .. Len(ops)+1 : Waited(ops, i)
  BY <1>1 DEF Waited
<1> QED
  BY <1>1, <1>2 DEF Synced

LEMMA SyncedLast ==
  ASSUME NEW ops \in Seq(Operation), Len(ops) > 0, ops[Len(ops)] = "sync",
         \A i \in 1 .. Len(ops) : ops[i] \notin {"write", "cpu_run", "check"}
  PROVE  Synced(ops)
<1>1. Len(ops) \in Nat
  OBVIOUS
<1>2. Waited(ops, Len(ops) + 1)
  <2> SUFFICES ASSUME NEW h \in 1 .. Len(ops), ops[h] \in Issues
               PROVE  \E m \in h+1 .. Len(ops) : ops[m] = "sync"
    BY <1>1 DEF Waited
  <2>1. h # Len(ops)
    BY DEF Issues
  <2>2. Len(ops) \in h+1 .. Len(ops)
    BY <1>1, <2>1
  <2> QED
    BY <2>2
<1> QED
  BY <1>2 DEF Synced

LEMMA SyncedParts ==
  /\ Synced(<<>>)
  /\ \A op \in Operation \ Issues : Synced(<<op>>)
  /\ \A op \in Issues : Synced(Synchronous(op))
  /\ \A op \in Issues : Synced(<<op>> \o Synchronous("d2h"))
  /\ \A pinned \in BOOLEAN : Synced(Async(pinned))
  /\ Synced(Sync)
<1>1. Synced(<<>>)
  <2>1. <<>> \in Seq(Operation) /\ \A i \in 1 .. Len(<<>>) : <<>>[i] \notin Issues
    OBVIOUS
  <2> QED
    BY <2>1, SyncedSimple
<1>2. \A op \in Operation \ Issues : Synced(<<op>>)
  <2> TAKE op \in Operation \ Issues
  <2>1. <<op>> \in Seq(Operation) /\ Len(<<op>>) = 1 /\ <<op>>[1] = op
    OBVIOUS
  <2>2. \A i \in 1 .. Len(<<op>>) : <<op>>[i] \notin Issues
    BY <2>1
  <2> QED
    BY <2>1, <2>2, SyncedSimple
<1>3. ASSUME NEW ops \in Seq(Operation), NEW n \in Nat \ {0}, Len(ops) = n, ops[n] = "sync",
             \A i \in 1..n : ops[i] \in Issues \union {"sync"}
      PROVE  Synced(ops)
  BY <1>3, SyncedLast DEF Issues
<1>4. \A op \in Issues : Synced(Synchronous(op))
  <2> TAKE op \in Issues
  <2>1. /\ Synchronous(op) \in Seq(Operation) /\ Len(Synchronous(op)) = 2
        /\ Synchronous(op)[1] = op /\ Synchronous(op)[2] = "sync"
    BY DEF Synchronous, Operation
  <2>2. \A i \in 1..2 : Synchronous(op)[i] \in Issues \union {"sync"}
    BY <2>1
  <2> QED
    BY <1>3, <2>1, <2>2
<1>5. \A op \in Issues : Synced(<<op>> \o Synchronous("d2h"))
  <2> TAKE op \in Issues
  <2> DEFINE ops == <<op>> \o Synchronous("d2h")
  <2>1. ops \in Seq(Operation)
    BY DEF Synchronous, Operation, Issues
  <2>2. Len(ops) = 3 /\ ops[1] = op /\ ops[2] = "d2h" /\ ops[3] = "sync"
    BY DEF Synchronous
  <2> HIDE DEF ops
  <2>3. \A i \in 1..3 : ops[i] \in Issues \union {"sync"}
    BY <2>2 DEF Issues
  <2>4. Synced(ops)
    <3>1. 3 \in Nat \ {0} /\ Len(ops) = 3 /\ ops[3] = "sync"
      BY <2>2
    <3> QED
      BY <1>3, <2>1, <2>3, <3>1
  <2> QED
    BY <2>4 DEF ops
<1>6. ASSUME NEW pinned \in BOOLEAN
      PROVE  Synced(Async(pinned))
  <2> DEFINE n == IF pinned THEN 4 ELSE 5
  <2>1. Async(pinned) \in Seq(Operation)
    <3>1. <<"h2d", "launch">> \in Seq(Operation) /\ <<"sync">> \in Seq(Operation)
      BY DEF Operation, Issues
    <3>2. <<"d2h">> \in Seq(Operation) /\ <<"d2h", "sync">> \in Seq(Operation)
      BY DEF Operation, Issues
    <3> QED
      BY <3>1, <3>2 DEF Async, ToHostAsync, Synchronous
  <2>2. /\ Len(Async(pinned)) = n
        /\ Async(pinned)[1] = "h2d" /\ Async(pinned)[2] = "launch" /\ Async(pinned)[3] = "d2h"
        /\ \A i \in 4..n : Async(pinned)[i] = "sync"
    BY DEF Async, ToHostAsync, Synchronous
  <2>3. \A i \in 1..n : Async(pinned)[i] \in Issues \union {"sync"}
    BY <2>2 DEF Issues
  <2> QED
    BY <1>3, <2>1, <2>2, <2>3
<1>7. Synced(Sync)
  <2>1. Synced(Synchronous("launch"))
    BY <1>4 DEF Issues
  <2> QED
    BY <1>4, <2>1, SyncedConcat DEF Sync, Synchronous, Issues
<1> QED
  BY <1>1, <1>2, <1>4, <1>5, <1>6, <1>7

LEMMA BodiesSynced ==
  ASSUME NEW p \in Copying \union Polling, NEW b \in Bodies(p)
  PROVE  Synced(b.once) /\ Synced(b.loop) /\ Synced(b.last)
<1> DEFINE Fine(x) == Synced(x.once) /\ Synced(x.loop) /\ Synced(x.last)
<1>0. /\ Synced(<<"write">>) /\ Synced(<<"check">>) /\ Synced(<<"cpu_run">>)
      /\ Synced(<<"launch", "sync">>) /\ Synced(<<"write", "cpu_run">>)
  <2> DEFINE ops == <<"write", "cpu_run">>
  <2>1. /\ ops \in Seq(Operation) /\ \A i \in 1 .. Len(ops) : ops[i] \notin Issues
    BY DEF Operation, Issues
  <2>2. Synced(ops)
    BY <2>1, SyncedSimple
  <2> QED
    BY <2>2, SyncedParts DEF Operation, Issues, Synchronous
<1> USE SyncedParts, SyncedConcat, <1>0
<1>1. Fine(streams)
  BY DEF streams, Body
<1>2. Fine(memcpyTime_async)
  BY DEF memcpyTime_async, Body
<1>3. Fine(memcpyTime_synch)
  <2> DEFINE tail == <<"launch">> \o Synchronous("d2h")
  <2>1. Synced(Synchronous("h2d")) /\ Synced(tail)
    BY DEF Issues
  <2>2. Synced(Synchronous("h2d") \o tail)
    BY <2>1
  <2>3. Synchronous("h2d") \o <<"launch">> \o Synchronous("d2h") = Synchronous("h2d") \o tail
    BY DEF Synchronous
  <2> QED
    BY <2>2, <2>3 DEF memcpyTime_synch, Body
<1>4. Fine(unifiedMemory)
  <2> DEFINE ops == <<"write", "launch", "sync", "check">>
  <2>1. /\ ops \in Seq(Operation) /\ Len(ops) = 4
        /\ ops[1] = "write" /\ ops[2] = "launch" /\ ops[3] = "sync" /\ ops[4] = "check"
    BY DEF Operation, Issues
  <2> HIDE DEF ops
  <2>2. Waited(ops, 1) /\ Waited(ops, 4) /\ Waited(ops, 5)
    BY <2>1 DEF Waited, Issues
  <2>3. Synced(ops)
    BY <2>1, <2>2 DEF Synced
  <2> QED
    BY <2>3 DEF unifiedMemory, Body, ops
<1>5. Fine(cvg_compute)
  BY DEF cvg_compute, Body
<1>6. Fine(randMem)
  BY DEF randMem, Body
<1>7. Fine(cvg_randMem)
  BY DEF cvg_randMem, Body
<1>8. Fine(cvg_compute_uncopied)
  BY DEF cvg_compute_uncopied, Body
<1>9. Fine(randMem_uncopied)
  BY DEF randMem_uncopied, Body
<1>10. Fine(cvg_randMem_uncopied)
  BY DEF cvg_randMem_uncopied, Body
<1>11. Fine(vectorAdd)
  BY DEF vectorAdd, Body
<1>12. Fine(seqMem)
  BY DEF seqMem, Body, ToHostAsync, Issues
<1>13. Fine(gpu_run)
  <2>1. /\ gpu_run.loop \in Seq(Operation) /\ Len(gpu_run.loop) = 5
        /\ gpu_run.once = <<>> /\ gpu_run.last = <<>>
    BY DEF gpu_run, Body, Operation
  <2>2. \A i \in 1..5 : gpu_run.loop[i] \notin Issues
    BY DEF gpu_run, Body, Issues
  <2> QED
    BY <2>1, <2>2, SyncedSimple
<1> HIDE DEF Fine
<1>14. Fine(b)
  BY <1>1, <1>2, <1>3, <1>4, <1>5, <1>6, <1>7, <1>8, <1>9, <1>10, <1>11, <1>12, <1>13
  DEF Bodies, Copying, Polling, mapped_time, mapped_compute, mapped_randMem, mtMappedMemory
<1> QED
  BY <1>14 DEF Fine

-----------------------------------------------------------------------------
(* The inductive invariant.                                                *)

\* Where the host is.
Placed ==
  /\ prog \in Programs
  /\ num_pkts \in 1..MaxPkts
  /\ body \in Bodies(prog)
  /\ part \in {"once", "loop", "last"}
  /\ pc \in Nat \ {0}
  /\ round \in 0 .. ITERS-1
  /\ j \in Pkt

\* What has been waited for is done.
StreamInv == Waited(Ops, pc) => stream = <<>>

HostInv == Placed /\ StreamInv

Slot == 0 .. MaxPkts-1

\* The host of a polling program waits for the results of the round it has
\* asked for.
Waiting == part = "loop" /\ pc = 4

\* A polling program has raised its flag for the round it is in, or not yet.
FlagInv ==
  /\ part \in {"loop", "last"}
  /\ pc \in IF part = "loop" THEN 1..5 ELSE {1}
  /\ flag = IF part = "loop" /\ pc <= 3 THEN round - 1 ELSE round

MemoryInv ==
  /\ DOMAIN A = Slot /\ DOMAIN B = Slot /\ DOMAIN kernel = Slot
  /\ \A i \in Slot : DOMAIN kernel[i] = {"at", "iter", "inp"}

\* A thread has worked on the round of the flag, or it is about to, which it
\* can only be while the host is waiting.
ThreadInv(i) ==
  /\ kernel[i].iter \in {flag, flag + 1}
  /\ kernel[i].at \in {"load", "store"} => kernel[i].iter = flag
  /\ kernel[i].at = "store" => kernel[i].inp = A[i]
  /\ B[i] # 0 => kernel[i].iter = flag + 1
  /\ ~Waiting => kernel[i].iter = flag + 1
  /\ part = "loop" /\ pc \in {2, 3} => B[i] = 0
  /\ Waiting /\ i < j => B[i] # 0
  /\ part = "loop" /\ pc \in {4, 5} /\ kernel[i].iter = flag + 1 => B[i] = Result(A[i])

PollInv == prog \in Polling => FlagInv /\ MemoryInv /\ \A i \in Pkt : ThreadInv(i)

-----------------------------------------------------------------------------
(* The host and its stream.                                                *)

LEMMA OpsSynced ==
  ASSUME Placed
  PROVE  Synced(Ops) /\ Len(Ops) \in Nat
<1>1. Synced(body.once) /\ Synced(body.loop) /\ Synced(body.last)
  BY BodiesSynced, GpuAssumption DEF Placed
<1>2. Synced(Ops)
  BY <1>1 DEF Placed, Ops
<1> QED
  BY <1>2 DEF Synced

\* If all is waited for after an operation that is not sync, it was so before.
LEMMA WaitedBefore ==
  ASSUME NEW ops, NEW i \in Nat \ {0}, Waited(ops, i + 1), ops[i] # "sync"
  PROVE  Waited(ops, i) /\ ops[i] \notin Issues
<1>1. \A h \in 1..i : ops[h] \in Issues => \E m \in h+1 .. i : ops[m] = "sync"
  BY DEF Waited
<1>2. ops[i] \notin Issues
  BY <1>1
<1>3. ASSUME NEW h \in 1 .. i-1, ops[h] \in Issues
      PROVE  \E m \in h+1 .. i-1 : ops[m] = "sync"
  <2>1. PICK m \in h+1 .. i : ops[m] = "sync"
    BY <1>1, <1>3
  <2>2. m \in h+1 .. i-1
    BY <2>1
  <2> QED
    BY <2>1, <2>2
<1> QED
  BY <1>2, <1>3 DEF Waited

LEMMA AdvancePlaced ==
  ASSUME Placed, ~AtEnd, UNCHANGED given, Advance
  PROVE  /\ Placed'
         /\ Waited(Ops, pc)' => Waited(Ops, pc + 1)
<1>1. /\ Len(Ops) \in Nat /\ Synced(Ops) /\ pc \in Nat \ {0} /\ pc <= Len(Ops)
      /\ ITERS \in Nat \ {0} /\ num_pkts \in Nat \ {0} /\ round \in 0 .. ITERS-1
  BY OpsSynced, GpuAssumption DEF Placed, AtEnd
<1>2. Placed'
  BY <1>1 DEF Placed, Advance, Pkt, given
<1>3. CASE part = "last" \/ pc < Len(Ops)
  <2>1. pc' = pc + 1 /\ Ops' = Ops
    BY <1>3 DEF Advance, Ops, given
  <2> QED
    BY <1>2, <2>1
<1>4. CASE ~(part = "last" \/ pc < Len(Ops))
  <2>1. pc = Len(Ops)
    BY <1>1, <1>4
  <2> QED
    BY <1>1, <1>2, <2>1 DEF Synced
<1> QED
  BY <1>3, <1>4

\* An operation that leaves the stream alone, and is not sync.
LEMMA QuietStep ==
  ASSUME HostInv, NEW op, Doing(op), op # "sync", stream' = stream,
         Looping \/ Advance \/ (j' = 0 /\ UNCHANGED <<part, pc, round>>)
  PROVE  HostInv'
<1>1. /\ Placed /\ StreamInv /\ ~AtEnd /\ UNCHANGED given /\ Ops[pc] # "sync"
      /\ pc \in Nat \ {0}
  BY DEF HostInv, Doing, Placed
<1>2. CASE Advance
  <2>1. Placed' /\ (Waited(Ops, pc)' => Waited(Ops, pc + 1))
    BY <1>1, <1>2, AdvancePlaced
  <2> QED
    BY <1>1, <2>1, WaitedBefore DEF HostInv, StreamInv
<1>3. CASE ~Advance
  <2>1. UNCHANGED <<part, pc, round>> /\ (j' = 0 \/ (j + 1 < num_pkts /\ j' = j + 1))
    BY <1>3 DEF Looping
  <2>2. Ops' = Ops
    BY <1>1, <2>1 DEF Ops, given
  <2>3. j' \in Pkt'
    BY <1>1, <2>1, GpuAssumption DEF Placed, Pkt, given
  <2> QED
    BY <1>1, <2>1, <2>2, <2>3 DEF HostInv, Placed, StreamInv, given
<1> QED
  BY <1>2, <1>3

LEMMA HostStep ==
  ASSUME HostInv, Host
  PROVE  HostInv'
<1>1. CASE Write
  BY <1>1, QuietStep DEF Write, devVars
<1>2. CASE CpuRun
  BY <1>2, QuietStep DEF CpuRun, devVars
<1>3. CASE Check
  BY <1>3, QuietStep DEF Check, devVars
<1>4. CASE Memset
  BY <1>4, QuietStep DEF Memset, devVars
<1>5. CASE Raise
  BY <1>5, QuietStep DEF Raise, devVars
<1>6. CASE waitForNonZero
  <2>1. Looping \/ (j' = 0 /\ UNCHANGED <<part, pc, round>>)
    BY <1>6 DEF waitForNonZero
  <2> QED
    BY <1>6, <2>1, QuietStep DEF waitForNonZero, devVars
<1>7. CASE Issue
  <2>1. /\ Placed /\ ~AtEnd /\ UNCHANGED given /\ Advance /\ pc \in Nat \ {0}
        /\ Ops[pc] \in Issues
    BY <1>7 DEF Issue, HostInv, Doing, Issues, Placed
  <2>2. Placed' /\ (Waited(Ops, pc)' => Waited(Ops, pc + 1))
    BY <2>1, AdvancePlaced
  <2>3. ~Waited(Ops, pc + 1)
    BY <2>1, WaitedBefore DEF Issues
  <2> QED
    BY <2>2, <2>3 DEF HostInv, StreamInv
<1>8. CASE Synchronize
  <2>1. /\ Placed /\ ~AtEnd /\ UNCHANGED given /\ Advance /\ stream' = <<>>
    BY <1>8 DEF Synchronize, HostInv, Doing, devVars
  <2> QED
    BY <2>1, AdvancePlaced DEF HostInv, StreamInv
<1> QED
  BY <1>1, <1>2, <1>3, <1>4, <1>5, <1>6, <1>7, <1>8 DEF Host

\* The device and the kernel do not move the host, and only a stream with
\* something in it changes.
LEMMA DeviceStep ==
  ASSUME HostInv, UNCHANGED <<given, place>>, stream # <<>> \/ stream' = stream
  PROVE  HostInv'
<1>1. Ops' = Ops /\ pc' = pc
  BY DEF Ops, given, place
<1>2. Placed'
  BY DEF HostInv, Placed, given, place, Pkt
<1> QED
  BY <1>1, <1>2 DEF HostInv, StreamInv

LEMMA ThreadStill ==
  ASSUME NEW i, Thread(i)
  PROVE  UNCHANGED <<given, place>> /\ (stream # <<>> \/ stream' = stream)
<1>1. CASE KernelThread(i)
  BY <1>1 DEF KernelThread, First, Device
<1>2. CASE Place(i) \/ Seen(i) \/ Load(i) \/ Store(i)
  BY <1>2 DEF Place, Seen, Load, Store, Polls
<1> QED
  BY <1>1, <1>2 DEF Thread

LEMMA HostInvStep == HostInv /\ [Next]_vars => HostInv'
<1> SUFFICES ASSUME HostInv, [Next]_vars
             PROVE  HostInv'
  OBVIOUS
<1>1. CASE Host
  BY <1>1, HostStep
<1>2. CASE CopyToDevice \/ CopyToHost \/ Launch
  BY <1>2, DeviceStep DEF CopyToDevice, CopyToHost, Launch, First, Device
<1>3. CASE \E i \in Pkt : Thread(i)
  BY <1>3, DeviceStep, ThreadStill
<1>4. CASE UNCHANGED vars
  BY <1>4, DeviceStep DEF vars, hostVars, devVars
<1> QED
  BY <1>1, <1>2, <1>3, <1>4 DEF Next

LEMMA HostInvInit == Init => HostInv
<1> SUFFICES ASSUME Init
             PROVE  HostInv
  OBVIOUS
<1>1. Placed
  BY GpuAssumption DEF Init, Placed, Pkt
<1>2. stream = <<>>
  BY DEF Init
<1> QED
  BY <1>1, <1>2 DEF HostInv, StreamInv

(* In every program of gpu/ the stream is empty where the host has waited  *)
(* for all it has issued.                                                  *)
THEOREM HostInvariant == Spec => []HostInv
<1> QED
  BY HostInvInit, HostInvStep, PTL DEF Spec

(* The host touches an array only when nothing it has issued is under way, *)
(* in every program of gpu/ and for every number of packets and rounds.    *)
THEOREM ArraysOwned == Spec => []HostOwnsArrays
<1>1. HostInv => HostOwnsArrays
  <2> SUFFICES ASSUME HostInv, ~AtEnd, Ops[pc] \in {"write", "check"}
               PROVE  stream = <<>>
    BY DEF HostOwnsArrays
  <2>1. Synced(Ops) /\ Len(Ops) \in Nat
    BY OpsSynced DEF HostInv
  <2>2. pc \in 1 .. Len(Ops)
    BY <2>1 DEF HostInv, Placed, AtEnd
  <2> QED
    BY <2>1, <2>2 DEF Synced, HostInv, StreamInv
<1> QED
  BY <1>1, HostInvariant, PTL

-----------------------------------------------------------------------------
(* The polling programs.                                                   *)

LEMMA PollingBody ==
  ASSUME Placed, prog \in Polling
  PROVE  body = gpu_run
  BY DEF Placed, Bodies, Polling, mapped_time, mapped_compute, mapped_randMem, mtMappedMemory

\* What the operations of gpu_run are.
LEMMA PollingOps ==
  ASSUME Placed, prog \in Polling, part \in {"loop", "last"}
  PROVE  /\ part = "loop" => /\ Len(Ops) = 5
                             /\ Ops[1] = "memset" /\ Ops[2] = "write" /\ Ops[3] = "raise"
                             /\ Ops[4] = "wait" /\ Ops[5] = "check"
         /\ part = "last" => Len(Ops) = 0
<1>1. body = gpu_run
  BY PollingBody
<1> QED
  BY <1>1 DEF Ops, gpu_run, Body

\* Nothing is ever in its stream.
LEMMA PollingStream ==
  ASSUME HostInv, prog \in Polling, FlagInv
  PROVE  stream = <<>>
<1>1. /\ Placed /\ part \in {"loop", "last"}
      /\ pc \in IF part = "loop" THEN 1..5 ELSE {1}
  BY DEF HostInv, FlagInv
<1>2. CASE part = "loop"
  <2>1. \A i \in 1..5 : Ops[i] \notin Issues
    BY <1>1, <1>2, PollingOps DEF Issues
  <2>2. Waited(Ops, pc)
    BY <1>1, <1>2, <2>1 DEF Waited
  <2> QED
    BY <2>2 DEF HostInv, StreamInv
<1>3. CASE part = "last"
  <2>1. Waited(Ops, pc)
    BY <1>1, <1>3 DEF Waited
  <2> QED
    BY <2>1 DEF HostInv, StreamInv
<1> QED
  BY <1>1, <1>2, <1>3

LEMMA ResultStill ==
  ASSUME UNCHANGED given
  PROVE  \A i : Result(A[i])' = Result(A'[i])
  BY DEF Result, given

\* Where gpu_run goes from its operations.
LEMMA PollingAdvance ==
  ASSUME HostInv, prog \in Polling, FlagInv, ~AtEnd
  PROVE  /\ part = "loop" /\ pc \in 1..5
         /\ Advance => /\ j' = 0
                       /\ pc < 5 => pc' = pc + 1 /\ UNCHANGED <<part, round>>
                       /\ pc = 5 => /\ pc' = 1 /\ part' \in {"loop", "last"}
                                    /\ round' = IF part' = "loop" THEN round + 1 ELSE round
<1>1. /\ Placed /\ part \in {"loop", "last"}
      /\ pc \in IF part = "loop" THEN 1..5 ELSE {1}
  BY DEF HostInv, FlagInv
<1>2. part = "loop" /\ pc \in 1..5 /\ Len(Ops) = 5
  BY <1>1, PollingOps DEF AtEnd
<1> QED
  BY <1>2 DEF Advance

\* What the host has raised its flag for, when it goes on.
LEMMA FlagStep ==
  ASSUME HostInv, prog \in Polling, FlagInv, NEW op, Doing(op),
         Looping \/ Advance \/ (j' = 0 /\ UNCHANGED <<part, pc, round>>),
         flag' = IF op = "raise" THEN round ELSE flag,
         op = "raise" => Advance
  PROVE  FlagInv'
<1>1. ~AtEnd /\ Ops[pc] = op /\ Placed
  BY DEF Doing, HostInv
<1>2. /\ part = "loop" /\ pc \in 1..5 /\ round \in Nat
      /\ Advance => /\ j' = 0
                    /\ pc < 5 => pc' = pc + 1 /\ UNCHANGED <<part, round>>
                    /\ pc = 5 => /\ pc' = 1 /\ part' \in {"loop", "last"}
                                 /\ round' = IF part' = "loop" THEN round + 1 ELSE round
  BY <1>1, PollingAdvance, GpuAssumption DEF Placed
<1>3. op = "raise" <=> pc = 3
  BY <1>1, <1>2, PollingOps
<1>4. CASE Advance
  BY <1>2, <1>3, <1>4 DEF FlagInv
<1>5. CASE ~Advance
  BY <1>2, <1>3, <1>5 DEF FlagInv, Looping
<1> QED
  BY <1>4, <1>5

\* What a proof about a step of a polling program starts from.
LEMMA PollingFacts ==
  ASSUME HostInv, prog \in Polling, FlagInv
  PROVE  /\ Pkt \subseteq Slot /\ j \in Pkt /\ num_pkts \in Nat /\ round \in Nat /\ flag \in Int
         /\ \A i \in Pkt : i \in Nat /\ i < num_pkts
  BY GpuAssumption DEF HostInv, Placed, FlagInv, Pkt, Slot

LEMMA HostPollStep ==
  ASSUME HostInv, prog \in Polling, PollInv, Host
  PROVE  PollInv'
<1>1. FlagInv /\ MemoryInv /\ \A i \in Pkt : ThreadInv(i)
  BY DEF PollInv
<1>2. /\ Pkt \subseteq Slot /\ j \in Pkt /\ num_pkts \in Nat /\ round \in Nat /\ flag \in Int
      /\ \A i \in Pkt : i \in Nat /\ i < num_pkts
  BY <1>1, PollingFacts
<1>3. PICK op \in Operation : Doing(op)
  BY DEF Host, Write, CpuRun, Issue, Synchronize, Check, Memset, Raise, waitForNonZero,
         Operation, Issues
<1>4. /\ ~AtEnd /\ Ops[pc] = op /\ UNCHANGED given /\ Placed
  BY <1>3 DEF Doing, HostInv
<1>5. /\ part = "loop" /\ pc \in 1..5
      /\ op = "memset" <=> pc = 1
      /\ op = "write" <=> pc = 2
      /\ op = "raise" <=> pc = 3
      /\ op = "wait" <=> pc = 4
      /\ op = "check" <=> pc = 5
      /\ Advance => /\ j' = 0
                    /\ pc < 5 => pc' = pc + 1 /\ UNCHANGED <<part, round>>
                    /\ pc = 5 => pc' = 1
  BY <1>1, <1>4, PollingAdvance, PollingOps
<1>6. Pkt' = Pkt /\ prog' = prog /\ \A i : Result(A[i])' = Result(A'[i])
  BY <1>4, ResultStill DEF Pkt, given
<1>7. op \in {"memset", "write", "raise", "wait", "check"}
  BY <1>5
<1>8. kernel' = kernel
  BY DEF Host, Write, CpuRun, Issue, Synchronize, Check, Memset, Raise, waitForNonZero, devVars
<1>9. SUFFICES FlagInv' /\ DOMAIN A' = Slot /\ DOMAIN B' = Slot /\ \A i \in Pkt : ThreadInv(i)'
  BY <1>1, <1>6, <1>8 DEF PollInv, MemoryInv, Slot
<1>10. CASE op = "memset"
  <2>1. Memset
    BY <1>3, <1>10 DEF Host, Write, CpuRun, Issue, Synchronize, Check, Memset, Raise,
                       waitForNonZero, Doing
  <2>2. FlagInv'
    BY <1>1, <1>10, <2>1, FlagStep DEF Memset
  <2>3. pc' = 2 /\ UNCHANGED <<part, A, flag>> /\ B' = [i \in Slot |-> 0]
    BY <1>5, <1>10, <2>1 DEF Memset, Fill, Slot
  <2>4. ASSUME NEW i \in Pkt
        PROVE  ThreadInv(i)'
    BY <1>1, <1>2, <1>5, <1>8, <1>10, <2>3 DEF ThreadInv, Waiting
  <2> QED
    BY <1>1, <2>2, <2>3, <2>4 DEF MemoryInv
<1>11. CASE op = "write"
  <2>1. Write
    BY <1>3, <1>11 DEF Host, Write, CpuRun, Issue, Synchronize, Check, Memset, Raise,
                       waitForNonZero, Doing
  <2>2. FlagInv'
    BY <1>1, <1>11, <2>1, FlagStep DEF Write
  <2>3. pc' \in {2, 3} /\ UNCHANGED <<part, B, flag>> /\ DOMAIN A' = DOMAIN A
    BY <1>5, <1>11, <2>1 DEF Write, Looping
  <2>4. ASSUME NEW i \in Pkt
        PROVE  ThreadInv(i)'
    BY <1>1, <1>2, <1>5, <1>8, <1>11, <2>3 DEF ThreadInv, Waiting
  <2> QED
    BY <1>1, <2>2, <2>3, <2>4 DEF MemoryInv
<1>12. CASE op = "raise"
  <2>1. Raise
    BY <1>3, <1>12 DEF Host, Write, CpuRun, Issue, Synchronize, Check, Memset, Raise,
                       waitForNonZero, Doing
  <2>2. FlagInv'
    BY <1>1, <1>12, <2>1, FlagStep DEF Raise
  <2>3. pc' = 4 /\ j' = 0 /\ UNCHANGED <<part, A, B>> /\ flag' = flag + 1
    BY <1>1, <1>2, <1>5, <1>12, <2>1 DEF Raise, FlagInv
  <2>4. ASSUME NEW i \in Pkt
        PROVE  ThreadInv(i)'
    BY <1>1, <1>2, <1>5, <1>8, <1>12, <2>3 DEF ThreadInv, Waiting
  <2> QED
    BY <1>1, <2>2, <2>3, <2>4 DEF MemoryInv
<1>13. CASE op = "wait"
  <2>1. waitForNonZero
    BY <1>3, <1>13 DEF Host, Write, CpuRun, Issue, Synchronize, Check, Memset, Raise,
                       waitForNonZero, Doing
  <2>2. FlagInv'
    <3>1. Looping \/ (j' = 0 /\ UNCHANGED <<part, pc, round>>)
      BY <2>1 DEF waitForNonZero
    <3> QED
      BY <1>1, <1>3, <1>13, <2>1, <3>1, FlagStep DEF waitForNonZero
  <2>3. UNCHANGED <<part, A, B, flag>>
    BY <1>5, <1>13, <2>1 DEF waitForNonZero, Looping
  <2>4. \/ pc' = 4 /\ j' = 0
        \/ pc' = 4 /\ j' = j + 1 /\ B[j] # 0
        \/ pc' = 5 /\ B[j] # 0 /\ j + 1 >= num_pkts
    BY <1>2, <1>5, <1>13, <2>1 DEF waitForNonZero, Looping
  <2>5. part = "loop" /\ pc = 4 /\ Waiting
    BY <1>5, <1>13 DEF Waiting
  <2>6. ASSUME NEW i \in Pkt
        PROVE  ThreadInv(i)'
    <3>1. i \in Nat /\ j \in Nat /\ i < num_pkts /\ (i < j => B[i] # 0)
      BY <1>1, <1>2, <2>5 DEF ThreadInv
    <3>2. pc' = 5 => B[i] # 0
      BY <1>2, <2>4, <3>1
    <3>3. (pc' = 4 /\ i < j') => B[i] # 0
      BY <1>2, <2>4, <3>1
    <3>4. Result(A[i])' = Result(A[i])
      BY <1>6, <2>3
    <3> QED
      <4>1. ThreadInv(i) /\ pc' \in {4, 5} /\ (pc' = 5 => kernel[i].iter = flag + 1)
        BY <1>1, <2>4, <3>2 DEF ThreadInv
      <4> QED
        BY <1>2, <1>5, <1>8, <2>3, <2>5, <3>3, <3>4, <4>1 DEF ThreadInv, Waiting
  <2> QED
    BY <1>1, <2>2, <2>3, <2>6 DEF MemoryInv
<1>14. CASE op = "check"
  <2>1. Check
    BY <1>3, <1>14 DEF Host, Write, CpuRun, Issue, Synchronize, Check, Memset, Raise,
                       waitForNonZero, Doing
  <2>2. FlagInv'
    BY <1>1, <1>14, <2>1, FlagStep DEF Check
  <2>3. pc' \in {1, 5} /\ UNCHANGED <<A, B, flag>>
    BY <1>5, <1>14, <2>1 DEF Check, Looping
  <2>4. ASSUME NEW i \in Pkt
        PROVE  ThreadInv(i)'
    <3>1. Result(A[i])' = Result(A[i])
      BY <1>6, <2>3
    <3> QED
      BY <1>1, <1>2, <1>5, <1>8, <1>14, <2>3, <3>1 DEF ThreadInv, Waiting
  <2> QED
    BY <1>1, <2>2, <2>3, <2>4 DEF MemoryInv
<1> QED
  BY <1>7, <1>10, <1>11, <1>12, <1>13, <1>14

LEMMA KernelPollStep ==
  ASSUME HostInv, prog \in Polling, PollInv, NEW t \in Pkt,
         Place(t) \/ Seen(t) \/ Load(t) \/ Store(t)
  PROVE  PollInv'
<1>1. FlagInv /\ MemoryInv /\ \A i \in Pkt : ThreadInv(i)
  BY DEF PollInv
<1>2. /\ Pkt \subseteq Slot /\ j \in Pkt /\ num_pkts \in Nat /\ round \in Nat /\ flag \in Int
      /\ t \in Slot /\ ThreadInv(t)
  BY <1>1, PollingFacts
<1>3. UNCHANGED <<given, place, A, flag>>
  BY DEF Place, Seen, Load, Store, Polls
<1>4. /\ Pkt' = Pkt /\ prog' = prog /\ FlagInv' /\ Waiting' = Waiting
      /\ UNCHANGED <<part, pc, j>> /\ \A i : Result(A[i])' = Result(A[i])
  BY <1>1, <1>3, ResultStill DEF Pkt, given, place, FlagInv, Waiting
<1>5. DOMAIN kernel[t] = {"at", "iter", "inp"}
  BY <1>1, <1>2 DEF MemoryInv
\* It is enough to know what the thread's own state and result become.
<1>6. ASSUME NEW k, NEW b,
             kernel' = [kernel EXCEPT ![t] = k],
             B' = [B EXCEPT ![t] = b] \/ (B' = B /\ b = B[t]),
             /\ DOMAIN k = {"at", "iter", "inp"}
             /\ k.iter \in {flag, flag + 1}
             /\ k.at \in {"load", "store"} => k.iter = flag
             /\ k.at = "store" => k.inp = A[t]
             /\ b # 0 => k.iter = flag + 1
             /\ ~Waiting => k.iter = flag + 1
             /\ part = "loop" /\ pc \in {2, 3} => b = 0
             /\ Waiting /\ t < j => b # 0
             /\ part = "loop" /\ pc \in {4, 5} /\ k.iter = flag + 1 => b = Result(A[t])
      PROVE  PollInv'
  <2>1. /\ DOMAIN B' = Slot /\ B'[t] = b
        /\ \A i \in Pkt : i # t => B'[i] = B[i]
    BY <1>1, <1>2, <1>6 DEF MemoryInv
  <2>2. /\ DOMAIN kernel' = Slot /\ kernel'[t] = k
        /\ \A i \in Slot : i # t => kernel'[i] = kernel[i]
    BY <1>1, <1>2, <1>6 DEF MemoryInv
  <2>3. MemoryInv'
    BY <1>1, <1>2, <1>3, <1>6, <2>1, <2>2 DEF MemoryInv, Slot
  <2>4. ASSUME NEW i \in Pkt
        PROVE  ThreadInv(i)'
    <3>1. CASE i = t
      BY <1>3, <1>4, <1>6, <2>1, <2>2, <3>1 DEF ThreadInv
    <3>2. CASE i # t
      <4>1. kernel'[i] = kernel[i] /\ B'[i] = B[i] /\ ThreadInv(i)
        BY <1>1, <1>2, <2>1, <2>2, <3>2
      <4> QED
        BY <1>3, <1>4, <4>1 DEF ThreadInv
    <3> QED
      BY <3>1, <3>2
  <2> QED
    BY <1>4, <2>3, <2>4 DEF PollInv
<1>7. CASE Place(t)
  <2> DEFINE k == [kernel[t] EXCEPT !.at = "spin"]
  <2>1. kernel' = [kernel EXCEPT ![t] = k] /\ B' = B
    BY <1>7 DEF Place, Polls
  <2>2. /\ DOMAIN k = {"at", "iter", "inp"} /\ k.at = "spin" /\ k.iter = kernel[t].iter
    BY <1>5
  <2> HIDE DEF k
  <2> QED
    BY <1>2, <1>6, <2>1, <2>2 DEF ThreadInv
<1>8. CASE Seen(t)
  <2> DEFINE k == [kernel[t] EXCEPT !.at = "load"]
  <2>1. kernel' = [kernel EXCEPT ![t] = k] /\ B' = B /\ flag # kernel[t].iter - 1
    BY <1>8 DEF Seen, Polls
  <2>2. /\ DOMAIN k = {"at", "iter", "inp"} /\ k.at = "load" /\ k.iter = kernel[t].iter
    BY <1>5
  <2>3. kernel[t].iter = flag
    BY <1>2, <2>1 DEF ThreadInv
  <2> HIDE DEF k
  <2> QED
    BY <1>2, <1>6, <2>1, <2>2, <2>3 DEF ThreadInv
<1>9. CASE Load(t)
  <2> DEFINE k == [kernel[t] EXCEPT !.at = "store", !.inp = A[t]]
  <2>1. kernel' = [kernel EXCEPT ![t] = k] /\ B' = B /\ kernel[t].at = "load"
    BY <1>9 DEF Load, Polls
  <2>2. /\ DOMAIN k = {"at", "iter", "inp"} /\ k.at = "store" /\ k.iter = kernel[t].iter
        /\ k.inp = A[t]
    BY <1>5
  <2> HIDE DEF k
  <2> QED
    BY <1>2, <1>6, <2>1, <2>2 DEF ThreadInv
<1>10. CASE Store(t)
  <2> DEFINE k == [at |-> IF kernel[t].iter + 1 < ITERS THEN "spin" ELSE "finished",
                   iter |-> kernel[t].iter + 1, inp |-> 0]
  <2>1. /\ kernel' = [kernel EXCEPT ![t] = k]
        /\ B' = [B EXCEPT ![t] = Result(kernel[t].inp)] /\ kernel[t].at = "store"
    BY <1>10 DEF Store, Polls
  <2>2. /\ kernel[t].iter = flag /\ kernel[t].inp = A[t] /\ Waiting /\ B[t] = 0 /\ ~(t < j)
        /\ part = "loop" /\ pc = 4
    BY <1>2, <2>1 DEF ThreadInv, Waiting
  <2>3. /\ DOMAIN k = {"at", "iter", "inp"} /\ k.at \in {"spin", "finished"}
        /\ k.iter = flag + 1
    BY <2>2
  <2>4. Result(kernel[t].inp) = Result(A[t]) /\ pc \notin {2, 3}
    BY <2>2
  <2> HIDE DEF k
  <2> QED
    BY <1>6, <2>1, <2>2, <2>3, <2>4
<1> QED
  BY <1>7, <1>8, <1>9, <1>10

LEMMA LaunchPollStep ==
  ASSUME HostInv, prog \in Polling, PollInv, Launch
  PROVE  PollInv'
<1>1. FlagInv /\ MemoryInv /\ \A i \in Pkt : ThreadInv(i)
  BY DEF PollInv
<1>2. Pkt \subseteq Slot
  BY <1>1, PollingFacts
<1>3. UNCHANGED <<given, place, A, B, flag>>
  BY DEF Launch
<1>4. /\ Pkt' = Pkt /\ prog' = prog /\ FlagInv' /\ Waiting' = Waiting
      /\ UNCHANGED <<part, pc, j>> /\ \A i : Result(A[i])' = Result(A[i])
  BY <1>1, <1>3, ResultStill DEF Pkt, given, place, FlagInv, Waiting
<1>5. kernel' = [i \in Slot |-> [kernel[i] EXCEPT !.at = IF i \in Pkt THEN "queued" ELSE @]]
  BY <1>1 DEF Launch, MemoryInv
<1>6. ASSUME NEW i \in Slot
      PROVE  /\ DOMAIN kernel'[i] = {"at", "iter", "inp"} /\ kernel'[i].iter = kernel[i].iter
             /\ i \in Pkt => kernel'[i].at = "queued"
  BY <1>1, <1>5 DEF MemoryInv
<1>7. MemoryInv'
  BY <1>1, <1>3, <1>5, <1>6 DEF MemoryInv, Slot
<1>8. ASSUME NEW i \in Pkt
      PROVE  ThreadInv(i)'
  <2>1. kernel'[i].iter = kernel[i].iter /\ kernel'[i].at = "queued" /\ ThreadInv(i)
    BY <1>1, <1>2, <1>6
  <2> QED
    BY <1>3, <1>4, <2>1 DEF ThreadInv
<1> QED
  BY <1>4, <1>7, <1>8 DEF PollInv

LEMMA PollInvStep == HostInv /\ PollInv /\ [Next]_vars => PollInv'
<1> SUFFICES ASSUME HostInv, PollInv, [Next]_vars
             PROVE  PollInv'
  OBVIOUS
<1>1. prog' = prog
  BY DEF Next, Host, Write, CpuRun, Issue, Synchronize, Check, Memset, Raise, waitForNonZero,
         Doing, CopyToDevice, CopyToHost, Launch, Thread, KernelThread, Place, Seen, Load, Store,
         Polls, Device, vars, given
<1>2. CASE prog \notin Polling
  BY <1>1, <1>2 DEF PollInv
<1>3. CASE prog \in Polling
  <2>1. stream = <<>>
    BY <1>3, PollingStream DEF PollInv
  <2>2. CASE Host
    BY <1>3, <2>2, HostPollStep
  <2>3. CASE Launch
    BY <1>3, <2>3, LaunchPollStep
  <2>4. CASE \E i \in Pkt : Place(i) \/ Seen(i) \/ Load(i) \/ Store(i)
    BY <1>3, <2>4, KernelPollStep
  <2>5. ~CopyToDevice /\ ~CopyToHost /\ \A i : ~KernelThread(i)
    BY <2>1 DEF CopyToDevice, CopyToHost, KernelThread, First
  <2>6. CASE UNCHANGED vars
    <3>1. /\ UNCHANGED <<given, place, A, B, flag, kernel, part, pc, j, round>>
          /\ \A i : Result(A[i])' = Result(A[i])
      BY <2>6, ResultStill DEF vars, hostVars, devVars, place
    <3>2. Pkt' = Pkt /\ Waiting' = Waiting
      BY <3>1 DEF Pkt, Waiting, given
    <3>3. FlagInv' /\ MemoryInv'
      BY <1>3, <3>1 DEF PollInv, FlagInv, MemoryInv, Slot
    <3>4. \A i \in Pkt : ThreadInv(i)'
      BY <1>3, <3>1, <3>2 DEF PollInv, ThreadInv
    <3> QED
      BY <3>2, <3>3, <3>4 DEF PollInv
  <2> QED
    BY <2>2, <2>3, <2>4, <2>5, <2>6 DEF Next, Thread
<1> QED
  BY <1>2, <1>3

LEMMA PollInvInit == Init => PollInv
<1> SUFFICES ASSUME Init, prog \in Polling
             PROVE  FlagInv /\ MemoryInv /\ \A i \in Pkt : ThreadInv(i)
  BY DEF PollInv
<1>1. Placed
  BY HostInvInit DEF HostInv
<1>2. body = gpu_run
  BY <1>1, PollingBody
<1>3. part = "loop" /\ pc = 1 /\ round = 0 /\ j = 0 /\ flag = -1
  BY <1>2 DEF Init, gpu_run, Body
<1>4. FlagInv
  BY <1>3 DEF FlagInv
<1>5. Pkt \subseteq Slot
  BY <1>1, GpuAssumption DEF Placed, Pkt, Slot
<1>6. A = Fill(0) /\ B = Fill(0)
  BY DEF Init, Polling
<1>7. /\ DOMAIN A = Slot /\ DOMAIN B = Slot /\ DOMAIN kernel = Slot
      /\ \A i \in Slot : kernel[i] = [at |-> "unlaunched", iter |-> 0, inp |-> 0]
  BY <1>6 DEF Init, Fill, Slot
<1>8. \A i \in Slot : B[i] = 0
  BY <1>6 DEF Fill, Slot
<1>9. MemoryInv
  BY <1>7 DEF MemoryInv
<1>10. \A i \in Pkt : ThreadInv(i)
  BY <1>3, <1>5, <1>7, <1>8 DEF ThreadInv, Waiting
<1> QED
  BY <1>4, <1>9, <1>10

(* gpu_run raises its flag once a round, and each thread of the kernel has *)
(* stored the result of the flag's round, or will while the host waits.    *)
THEOREM PollInvariant == Spec => [](HostInv /\ PollInv)
<1> QED
  BY HostInvInit, HostInvStep, PollInvInit, PollInvStep, PTL DEF Spec

(* Host and polling kernel stay in step, whatever the number of threads,   *)
(* whether they all fit on the device or not, and for any hash function:   *)
(* a single flag is enough, because the host clears the results before it  *)
(* raises it and reads all of them before it goes on.                      *)
THEOREM StepKept == Spec => []KernelInStep
<1>1. PollInv => KernelInStep
  BY DEF PollInv, ThreadInv, KernelInStep
<1> QED
  BY <1>1, PollInvariant, PTL

-----------------------------------------------------------------------------
(* The copying programs: what a copy or a kernel finds is what it should.  *)

\* memcpyTime with synchronous copies does not look at its results.
Checked == Copying \ {"memcpyTime-synch"}
OnCpu == {"cvg-compute", "randMem", "cvg-randMem"}

\* The operations of a round on the device are done in this order; some
\* programs do without the first, one without the last.
Rank(op) == CASE op = "h2d" -> 1 [] op = "launch" -> 2 [] op = "d2h" -> 3
Before == IF prog \in {"unifiedMemory", "seqMem"} THEN 1 ELSE 0
After  == IF prog = "unifiedMemory" THEN 2 ELSE 3

\* The rank of the last one issued before operation i of a list.
Sent(ops, i, none) ==
  IF \E h \in 1 .. i-1 : ops[h] = "d2h" THEN 3
  ELSE IF \E h \in 1 .. i-1 : ops[h] = "launch" THEN 2
  ELSE IF \E h \in 1 .. i-1 : ops[h] = "h2d" THEN 1 ELSE none

Issued == IF part = "last" THEN After ELSE Sent(Ops, pc, Before)
Finished == Issued - Len(stream)

\* The stream holds what is issued and not finished, in that order.
OrderInv ==
  /\ stream \in Seq(Issues)
  /\ \A k \in 1 .. Len(stream) : Rank(stream[k]) = Finished + k /\ Rank(stream[k]) <= After
  /\ ran # {} => stream # <<>> /\ Head(stream) = "launch"
  /\ DOMAIN A = Slot /\ DOMAIN B = Slot /\ DOMAIN D = Slot /\ DOMAIN cpu = Slot
  /\ \A i \in Slot : kernel[i].at = "unlaunched"

\* What the result for packet i has to be, by the numbers a and c of A and cpu.
GoalOf(i, a, c) ==
  CASE prog \in OnCpu -> c
    [] prog = "vectorAdd" -> Result(a)
    [] prog = "seqMem" -> Strided(i)
    [] OTHER -> Result(c)

Goal(i) == GoalOf(i, A[i], cpu[i])

Output(i) == IF prog \in {"unifiedMemory", "vectorAdd", "seqMem"} THEN B[i] ELSE A[i]

\* What is finished has brought the result of packet i so far.
DeviceInv(i) ==
  CASE Finished = 0 -> Result(A[i]) = Goal(i)
    [] Finished = 1 -> IF i \in ran THEN (IF prog = "unifiedMemory" THEN B ELSE D)[i] = Goal(i)
                       ELSE prog # "seqMem" =>
                         Result((IF prog = "unifiedMemory" THEN A ELSE D)[i]) = Goal(i)
    [] Finished = 2 -> (IF prog = "unifiedMemory" THEN B ELSE D)[i] = Goal(i)
    [] Finished = 3 -> Output(i) = Goal(i)

\* The host has prepared packet i, or a round for it is under way.
PacketInv(i) ==
  IF ~AtEnd /\ Ops[pc] = "write"
    THEN prog # "vectorAdd" /\ i < j => A[i] = cpu[i]
  ELSE IF ~AtEnd /\ Ops[pc] = "cpu_run"
    THEN prog # "vectorAdd" => IF i < j THEN Result(A[i]) = cpu[i] ELSE A[i] = cpu[i]
  ELSE part # "once" => DeviceInv(i)

DataInv == prog \in Checked => OrderInv /\ \A i \in Pkt : PacketInv(i)

-----------------------------------------------------------------------------
(* The lists of operations of the copying programs.                        *)

\* Each list issues its operations in order, prepares before and checks after.
Straight(ops) ==
  \A i \in 1 .. Len(ops) :
    /\ ops[i] \in {"write", "cpu_run", "sync", "check"} \union Issues
    /\ ops[i] \in Issues => /\ Rank(ops[i]) = Sent(ops, i, Before) + 1
                            /\ Rank(ops[i]) <= After
    /\ ops[i] \in {"write", "cpu_run"} => Sent(ops, i, Before) = Before
    /\ ops[i] = "check" => Sent(ops, i, Before) = After

\* A round starts with its preparation, if it has one.
LoopShape(ops) ==
  /\ Len(ops) \in Nat \ {0}
  /\ Sent(ops, Len(ops) + 1, Before) = After
  /\ ops[1] \in {"write", "cpu_run"} \/ prog \in {"vectorAdd", "seqMem"}
  /\ \A i \in 1 .. Len(ops) :
       /\ ops[i] = "write" => /\ i = 1 /\ Len(ops) > 1 /\ prog \notin {"vectorAdd", "seqMem"}
                              /\ IF prog \in OnCpu THEN ops[2] = "cpu_run"
                                 ELSE ops[2] \in Issues
       /\ ops[i] = "cpu_run" => /\ prog \in OnCpu
                                /\ IF i = 1 THEN TRUE ELSE i = 2 /\ ops[1] = "write"
                                /\ i < Len(ops) /\ ops[i+1] \in Issues

OnceShape(ops, loop) ==
  \A i \in 1 .. Len(ops) :
    /\ ops[i] # "check"
    /\ ops[i] \in {"write", "cpu_run"} => prog \in OnCpu \union {"vectorAdd"}
    /\ prog \in OnCpu => Len(ops) = 1 /\ ops[1] = "write" /\ loop[1] = "cpu_run"

Shape ==
  /\ Straight(body.once) /\ OnceShape(body.once, body.loop)
  /\ Straight(body.loop) /\ LoopShape(body.loop)
  /\ \A i \in 1 .. Len(body.last) : body.last[i] = "check"

LEMMA ShapeStreams ==
  ASSUME prog = "streams", body = streams
  PROVE  Shape
<1> DEFINE ops == body.loop
<1>1. /\ Len(ops) = 6 /\ ops[1] = "write" /\ ops[2] = "h2d" /\ ops[3] = "launch"
      /\ ops[4] = "d2h" /\ ops[5] = "sync" /\ ops[6] = "check"
  BY DEF streams, Body, Async, ToHostAsync
<1>2. Len(body.once) = 0
  BY DEF streams, Body
<1>3. \A i \in 1 .. Len(body.last) : body.last[i] = "check"
  BY DEF streams, Body
<1> HIDE DEF ops
<1>4. Before = 0 /\ After = 3
  BY DEF Before, After
<1>5. /\ Sent(ops, 1, 0) = 0 /\ Sent(ops, 2, 0) = 0 /\ Sent(ops, 3, 0) = 1
      /\ Sent(ops, 4, 0) = 2 /\ Sent(ops, 5, 0) = 3 /\ Sent(ops, 6, 0) = 3
      /\ Sent(ops, 7, 0) = 3
  BY <1>1 DEF Sent
<1>6. Straight(ops)
  BY <1>1, <1>4, <1>5 DEF Straight, Issues, Rank
<1>7. LoopShape(ops)
  BY <1>1, <1>4, <1>5 DEF LoopShape, Issues, OnCpu
<1> QED
  BY <1>2, <1>3, <1>6, <1>7 DEF Shape, Straight, OnceShape, ops

LEMMA ShapeMemcpyTime ==
  ASSUME prog = "memcpyTime-async", body = memcpyTime_async
  PROVE  Shape
<1> DEFINE ops == body.loop
           pre == body.once
<1>1. /\ Len(ops) = 7 /\ ops[1] = "write" /\ ops[2] = "h2d" /\ ops[3] = "launch"
      /\ ops[4] = "d2h" /\ ops[5] = "sync" /\ ops[6] = "sync" /\ ops[7] = "check"
  BY DEF memcpyTime_async, Body, Async, ToHostAsync, Synchronous
<1>2. /\ Len(pre) = 5 /\ pre[1] = "h2d" /\ pre[2] = "launch" /\ pre[3] = "d2h"
      /\ pre[4] = "sync" /\ pre[5] = "sync"
  BY DEF memcpyTime_async, Body, Async, ToHostAsync, Synchronous
<1>3. \A i \in 1 .. Len(body.last) : body.last[i] = "check"
  BY DEF memcpyTime_async, Body
<1> HIDE DEF ops, pre
<1>4. Before = 0 /\ After = 3
  BY DEF Before, After
<1>5. /\ Sent(ops, 1, 0) = 0 /\ Sent(ops, 2, 0) = 0 /\ Sent(ops, 3, 0) = 1
      /\ Sent(ops, 4, 0) = 2 /\ Sent(ops, 5, 0) = 3 /\ Sent(ops, 6, 0) = 3
      /\ Sent(ops, 7, 0) = 3 /\ Sent(ops, 8, 0) = 3
  BY <1>1 DEF Sent
<1>6. Straight(ops)
  BY <1>1, <1>4, <1>5 DEF Straight, Issues, Rank
<1>7. LoopShape(ops)
  BY <1>1, <1>4, <1>5 DEF LoopShape, Issues, OnCpu
<1>8. /\ Sent(pre, 1, 0) = 0 /\ Sent(pre, 2, 0) = 1 /\ Sent(pre, 3, 0) = 2
      /\ Sent(pre, 4, 0) = 3 /\ Sent(pre, 5, 0) = 3
  BY <1>2 DEF Sent
<1>9. Straight(pre) /\ OnceShape(pre, ops)
  BY <1>1, <1>2, <1>4, <1>8 DEF Straight, OnceShape, Issues, Rank, OnCpu
<1> QED
  BY <1>3, <1>6, <1>7, <1>9 DEF Shape, ops, pre

LEMMA ShapeUnifiedMemory ==
  ASSUME prog = "unifiedMemory", body = unifiedMemory
  PROVE  Shape
<1> DEFINE ops == body.loop
<1>1. /\ Len(ops) = 4 /\ ops[1] = "write" /\ ops[2] = "launch" /\ ops[3] = "sync"
      /\ ops[4] = "check"
  BY DEF unifiedMemory, Body
<1>2. Len(body.once) = 0
  BY DEF unifiedMemory, Body
<1>3. \A i \in 1 .. Len(body.last) : body.last[i] = "check"
  BY DEF unifiedMemory, Body
<1> HIDE DEF ops
<1>4. Before = 1 /\ After = 2
  BY DEF Before, After
<1>5. /\ Sent(ops, 1, 1) = 1 /\ Sent(ops, 2, 1) = 1 /\ Sent(ops, 3, 1) = 2
      /\ Sent(ops, 4, 1) = 2 /\ Sent(ops, 5, 1) = 2
  BY <1>1 DEF Sent
<1>6. Straight(ops)
  BY <1>1, <1>4, <1>5 DEF Straight, Issues, Rank
<1>7. LoopShape(ops)
  BY <1>1, <1>4, <1>5 DEF LoopShape, Issues, OnCpu
<1> QED
  BY <1>2, <1>3, <1>6, <1>7 DEF Shape, Straight, OnceShape, ops

LEMMA ShapeCvgCompute ==
  ASSUME prog \in {"cvg-compute", "randMem"}, body \in {cvg_compute, randMem}
  PROVE  Shape
<1>0. body = cvg_compute
  BY DEF cvg_compute, randMem
<1> DEFINE ops == body.loop
           pre == body.once
<1>1. /\ Len(ops) = 5 /\ ops[1] = "cpu_run" /\ ops[2] = "h2d" /\ ops[3] = "launch"
      /\ ops[4] = "d2h" /\ ops[5] = "sync"
  BY <1>0 DEF cvg_compute, Body, Async, ToHostAsync
<1>2. /\ Len(pre) = 1 /\ pre[1] = "write"
  BY <1>0 DEF cvg_compute, Body
<1>3. \A i \in 1 .. Len(body.last) : body.last[i] = "check"
  BY <1>0 DEF cvg_compute, Body
<1> HIDE DEF ops, pre
<1>4. Before = 0 /\ After = 3
  BY DEF Before, After
<1>5. /\ Sent(ops, 1, 0) = 0 /\ Sent(ops, 2, 0) = 0 /\ Sent(ops, 3, 0) = 1
      /\ Sent(ops, 4, 0) = 2 /\ Sent(ops, 5, 0) = 3 /\ Sent(ops, 6, 0) = 3
  BY <1>1 DEF Sent
<1>6. Straight(ops)
  BY <1>1, <1>4, <1>5 DEF Straight, Issues, Rank
<1>7. LoopShape(ops)
  BY <1>1, <1>4, <1>5 DEF LoopShape, Issues, OnCpu
<1>8. /\ Sent(pre, 1, 0) = 0
  BY <1>2 DEF Sent
<1>9. Straight(pre) /\ OnceShape(pre, ops)
  BY <1>1, <1>2, <1>4, <1>8 DEF Straight, OnceShape, Issues, Rank, OnCpu
<1> QED
  BY <1>3, <1>6, <1>7, <1>9 DEF Shape, ops, pre

LEMMA ShapeCvgComputeUncopied ==
  ASSUME prog \in {"cvg-compute", "randMem"}, body \in {cvg_compute_uncopied, randMem_uncopied}
  PROVE  Shape
<1>0. body = cvg_compute_uncopied
  BY DEF cvg_compute_uncopied, randMem_uncopied
<1> DEFINE ops == body.loop
           pre == body.once
<1>1. /\ Len(ops) = 7 /\ ops[1] = "cpu_run" /\ ops[2] = "h2d" /\ ops[3] = "sync"
      /\ ops[4] = "launch" /\ ops[5] = "sync" /\ ops[6] = "d2h" /\ ops[7] = "sync"
  BY <1>0 DEF cvg_compute_uncopied, Body, Sync, Synchronous
<1>2. /\ Len(pre) = 1 /\ pre[1] = "write"
  BY <1>0 DEF cvg_compute_uncopied, Body
<1>3. \A i \in 1 .. Len(body.last) : body.last[i] = "check"
  BY <1>0 DEF cvg_compute_uncopied, Body
<1> HIDE DEF ops, pre
<1>4. Before = 0 /\ After = 3
  BY DEF Before, After
<1>5. /\ Sent(ops, 1, 0) = 0 /\ Sent(ops, 2, 0) = 0 /\ Sent(ops, 3, 0) = 1
      /\ Sent(ops, 4, 0) = 1 /\ Sent(ops, 5, 0) = 2 /\ Sent(ops, 6, 0) = 2
      /\ Sent(ops, 7, 0) = 3 /\ Sent(ops, 8, 0) = 3
  BY <1>1 DEF Sent
<1>6. Straight(ops)
  BY <1>1, <1>4, <1>5 DEF Straight, Issues, Rank
<1>7. LoopShape(ops)
  BY <1>1, <1>4, <1>5 DEF LoopShape, Issues, OnCpu
<1>8. /\ Sent(pre, 1, 0) = 0
  BY <1>2 DEF Sent
<1>9. Straight(pre) /\ OnceShape(pre, ops)
  BY <1>1, <1>2, <1>4, <1>8 DEF Straight, OnceShape, Issues, Rank, OnCpu
<1> QED
  BY <1>3, <1>6, <1>7, <1>9 DEF Shape, ops, pre

LEMMA ShapeCvgRandMem ==
  ASSUME prog = "cvg-randMem", body = cvg_randMem
  PROVE  Shape
<1> DEFINE ops == body.loop
<1>1. /\ Len(ops) = 6 /\ ops[1] = "write" /\ ops[2] = "cpu_run" /\ ops[3] = "h2d"
      /\ ops[4] = "launch" /\ ops[5] = "d2h" /\ ops[6] = "sync"
  BY DEF cvg_randMem, Body, Async, ToHostAsync
<1>2. Len(body.once) = 0
  BY DEF cvg_randMem, Body
<1>3. \A i \in 1 .. Len(body.last) : body.last[i] = "check"
  BY DEF cvg_randMem, Body
<1> HIDE DEF ops
<1>4. Before = 0 /\ After = 3
  BY DEF Before, After
<1>5. /\ Sent(ops, 1, 0) = 0 /\ Sent(ops, 2, 0) = 0 /\ Sent(ops, 3, 0) = 0
      /\ Sent(ops, 4, 0) = 1 /\ Sent(ops, 5, 0) = 2 /\ Sent(ops, 6, 0) = 3
      /\ Sent(ops, 7, 0) = 3
  BY <1>1 DEF Sent
<1>6. Straight(ops)
  BY <1>1, <1>4, <1>5 DEF Straight, Issues, Rank
<1>7. LoopShape(ops)
  BY <1>1, <1>4, <1>5 DEF LoopShape, Issues, OnCpu
<1> QED
  BY <1>2, <1>3, <1>6, <1>7 DEF Shape, Straight, OnceShape, ops

LEMMA ShapeCvgRandMemUncopied ==
  ASSUME prog = "cvg-randMem", body = cvg_randMem_uncopied
  PROVE  Shape
<1> DEFINE ops == body.loop
<1>1. /\ Len(ops) = 8 /\ ops[1] = "write" /\ ops[2] = "cpu_run" /\ ops[3] = "h2d"
      /\ ops[4] = "sync" /\ ops[5] = "launch" /\ ops[6] = "sync" /\ ops[7] = "d2h"
      /\ ops[8] = "sync"
  BY DEF cvg_randMem_uncopied, Body, Sync, Synchronous
<1>2. Len(body.once) = 0
  BY DEF cvg_randMem_uncopied, Body
<1>3. \A i \in 1 .. Len(body.last) : body.last[i] = "check"
  BY DEF cvg_randMem_uncopied, Body
<1> HIDE DEF ops
<1>4. Before = 0 /\ After = 3
  BY DEF Before, After
<1>5. /\ Sent(ops, 1, 0) = 0 /\ Sent(ops, 2, 0) = 0 /\ Sent(ops, 3, 0) = 0
      /\ Sent(ops, 4, 0) = 1 /\ Sent(ops, 5, 0) = 1 /\ Sent(ops, 6, 0) = 2
      /\ Sent(ops, 7, 0) = 2 /\ Sent(ops, 8, 0) = 3 /\ Sent(ops, 9, 0) = 3
  BY <1>1 DEF Sent
<1>6. Straight(ops)
  BY <1>1, <1>4, <1>5 DEF Straight, Issues, Rank
<1>7. LoopShape(ops)
  BY <1>1, <1>4, <1>5 DEF LoopShape, Issues, OnCpu
<1> QED
  BY <1>2, <1>3, <1>6, <1>7 DEF Shape, Straight, OnceShape, ops

LEMMA ShapeVectorAdd ==
  ASSUME prog = "vectorAdd", body = vectorAdd
  PROVE  Shape
<1> DEFINE ops == body.loop
           pre == body.once
<1>1. /\ Len(ops) = 6 /\ ops[1] = "h2d" /\ ops[2] = "sync" /\ ops[3] = "launch"
      /\ ops[4] = "sync" /\ ops[5] = "d2h" /\ ops[6] = "sync"
  BY DEF vectorAdd, Body, Sync, Synchronous
<1>2. /\ Len(pre) = 2 /\ pre[1] = "write" /\ pre[2] = "cpu_run"
  BY DEF vectorAdd, Body
<1>3. \A i \in 1 .. Len(body.last) : body.last[i] = "check"
  BY DEF vectorAdd, Body
<1> HIDE DEF ops, pre
<1>4. Before = 0 /\ After = 3
  BY DEF Before, After
<1>5. /\ Sent(ops, 1, 0) = 0 /\ Sent(ops, 2, 0) = 1 /\ Sent(ops, 3, 0) = 1
      /\ Sent(ops, 4, 0) = 2 /\ Sent(ops, 5, 0) = 2 /\ Sent(ops, 6, 0) = 3
      /\ Sent(ops, 7, 0) = 3
  BY <1>1 DEF Sent
<1>6. Straight(ops)
  BY <1>1, <1>4, <1>5 DEF Straight, Issues, Rank
<1>7. LoopShape(ops)
  BY <1>1, <1>4, <1>5 DEF LoopShape, Issues, OnCpu
<1>8. /\ Sent(pre, 1, 0) = 0 /\ Sent(pre, 2, 0) = 0
  BY <1>2 DEF Sent
<1>9. Straight(pre) /\ OnceShape(pre, ops)
  BY <1>1, <1>2, <1>4, <1>8 DEF Straight, OnceShape, Issues, Rank, OnCpu
<1> QED
  BY <1>3, <1>6, <1>7, <1>9 DEF Shape, ops, pre

LEMMA ShapeSeqMem ==
  ASSUME prog = "seqMem", body = seqMem
  PROVE  Shape
<1> DEFINE ops == body.loop
<1>1. /\ Len(ops) = 5 /\ ops[1] = "launch" /\ ops[2] = "sync" /\ ops[3] = "d2h"
      /\ ops[4] = "sync" /\ ops[5] = "check"
  BY DEF seqMem, Body, ToHostAsync, Synchronous
<1>2. Len(body.once) = 0
  BY DEF seqMem, Body
<1>3. \A i \in 1 .. Len(body.last) : body.last[i] = "check"
  BY DEF seqMem, Body
<1> HIDE DEF ops
<1>4. Before = 1 /\ After = 3
  BY DEF Before, After
<1>5. /\ Sent(ops, 1, 1) = 1 /\ Sent(ops, 2, 1) = 2 /\ Sent(ops, 3, 1) = 2
      /\ Sent(ops, 4, 1) = 3 /\ Sent(ops, 5, 1) = 3 /\ Sent(ops, 6, 1) = 3
  BY <1>1 DEF Sent
<1>6. Straight(ops)
  BY <1>1, <1>4, <1>5 DEF Straight, Issues, Rank
<1>7. LoopShape(ops)
  BY <1>1, <1>4, <1>5 DEF LoopShape, Issues, OnCpu
<1> QED
  BY <1>2, <1>3, <1>6, <1>7 DEF Shape, Straight, OnceShape, ops

LEMMA CheckedShape ==
  ASSUME Placed, prog \in Checked
  PROVE  Shape
<1>1. /\ prog = "streams" => body = streams
      /\ prog = "memcpyTime-async" => body = memcpyTime_async
      /\ prog = "unifiedMemory" => body = unifiedMemory
      /\ prog = "cvg-compute" => body \in {cvg_compute, cvg_compute_uncopied}
      /\ prog = "randMem" => body \in {randMem, randMem_uncopied}
      /\ prog = "cvg-randMem" => body \in {cvg_randMem, cvg_randMem_uncopied}
      /\ prog = "vectorAdd" => body = vectorAdd
      /\ prog = "seqMem" => body = seqMem
  BY DEF Placed, Bodies
<1> QED
  BY <1>1, ShapeStreams, ShapeMemcpyTime, ShapeUnifiedMemory, ShapeCvgCompute,
     ShapeCvgComputeUncopied, ShapeCvgRandMem, ShapeCvgRandMemUncopied, ShapeVectorAdd,
     ShapeSeqMem DEF Checked, Copying

LEMMA SentNext ==
  ASSUME NEW ops, NEW i \in Nat \ {0}, NEW none \in {0, 1}
  PROVE  /\ ops[i] \notin Issues => Sent(ops, i + 1, none) = Sent(ops, i, none)
         /\ ops[i] \in Issues /\ Rank(ops[i]) = Sent(ops, i, none) + 1
              => Sent(ops, i + 1, none) = Sent(ops, i, none) + 1
         /\ Sent(ops, i, none) \in 0..3
<1> DEFINE was(op) == \E h \in 1 .. i-1 : ops[h] = op
           is(op)  == \E h \in 1 .. (i+1)-1 : ops[h] = op
<1>1. \A op : is(op) <=> was(op) \/ ops[i] = op
  <2>1. (i + 1) - 1 = i /\ 1..i = (1 .. i-1) \union {i}
    OBVIOUS
  <2> QED
    BY <2>1
<1>2. /\ Sent(ops, i, none) = IF was("d2h") THEN 3 ELSE IF was("launch") THEN 2
                              ELSE IF was("h2d") THEN 1 ELSE none
      /\ Sent(ops, i + 1, none) = IF is("d2h") THEN 3 ELSE IF is("launch") THEN 2
                                  ELSE IF is("h2d") THEN 1 ELSE none
  BY DEF Sent
<1> HIDE DEF was, is
<1> QED
  BY <1>1, <1>2 DEF Issues, Rank

\* What changes only with the program.
LEMMA GivenStill ==
  ASSUME UNCHANGED given
  PROVE  /\ prog' = prog /\ Pkt' = Pkt /\ Before' = Before /\ After' = After
         /\ \A i : /\ Result(A[i])' = Result(A'[i]) /\ Result(D[i])' = Result(D'[i])
                   /\ Goal(i)' = GoalOf(i, A'[i], cpu'[i])
<1>1. prog' = prog /\ num_pkts' = num_pkts /\ table' = table
  BY DEF given
<1>2. \A i : /\ Result(A[i])' = Result(A'[i]) /\ Result(D[i])' = Result(D'[i])
             /\ Result(cpu[i])' = Result(cpu'[i])
  BY <1>1 DEF Result
<1>3. \A i : Strided(i)' = Strided(i)
  BY <1>1 DEF Strided
<1>4. \A i : Goal(i)' = GoalOf(i, A'[i], cpu'[i])
  BY <1>1, <1>2, <1>3 DEF Goal, GoalOf
<1> QED
  BY <1>1, <1>2, <1>4 DEF Pkt, Before, After

\* Where the host is after an operation, and what it has issued there.
LEMMA Position ==
  ASSUME Placed, prog \in Checked, ~AtEnd, UNCHANGED given, Advance
  PROVE  \/ /\ part = "last" \/ pc < Len(Ops)
            /\ UNCHANGED <<part, Ops>> /\ pc' = pc + 1
            /\ Issued' = IF part # "last" /\ Ops[pc] \in Issues THEN Issued + 1 ELSE Issued
         \/ /\ pc = Len(Ops) /\ part # "last" /\ pc' = 1
            /\ \/ part' = "loop" /\ Issued' = Before
               \/ part = "loop" /\ part' = "last" /\ Issued' = After
            /\ part = "loop" /\ Ops[pc] \notin Issues => Issued = After
<1>1. /\ Len(Ops) \in Nat /\ pc \in Nat \ {0} /\ pc <= Len(Ops) /\ part \in {"once", "loop", "last"}
      /\ Before \in {0, 1} /\ Before' = Before /\ After' = After
  BY OpsSynced, GivenStill DEF Placed, AtEnd, Before
<1>2. Shape
  BY CheckedShape
<1>3. part # "last" => Straight(Ops)
  BY <1>1, <1>2 DEF Shape, Ops
<1>4. part # "last" =>
        Sent(Ops, pc + 1, Before) = IF Ops[pc] \in Issues THEN Sent(Ops, pc, Before) + 1
                                    ELSE Sent(Ops, pc, Before)
  BY <1>1, <1>3, SentNext DEF Straight
<1>5. CASE part = "last" \/ pc < Len(Ops)
  <2>1. UNCHANGED <<part, Ops>> /\ pc' = pc + 1
    BY <1>5 DEF Advance, Ops, given
  <2>2. Issued' = IF part # "last" /\ Ops[pc] \in Issues THEN Issued + 1 ELSE Issued
    BY <1>1, <1>4, <2>1 DEF Issued
  <2> QED
    BY <1>5, <2>1, <2>2
<1>6. CASE ~(part = "last" \/ pc < Len(Ops))
  <2>1. /\ pc = Len(Ops) /\ part # "last" /\ pc' = 1 /\ part' \in {"loop", "last"}
        /\ part' = "last" => part = "loop"
    BY <1>1, <1>6 DEF Advance
  <2>2. part' = "loop" => Issued' = Before
    <3>1. ~\E h \in 1..0 : TRUE
      OBVIOUS
    <3> QED
      BY <1>1, <2>1, <3>1 DEF Issued, Sent
  <2>3. part' = "last" => Issued' = After
    BY <1>1 DEF Issued
  <2>4. part = "loop" /\ Ops[pc] \notin Issues => Issued = After
    BY <1>2, <1>4, <2>1 DEF Shape, LoopShape, Issued, Ops
  <2> QED
    BY <2>1, <2>2, <2>3, <2>4
<1> QED
  BY <1>5, <1>6

\* An operation that issues nothing, done.
LEMMA QuietAdvance ==
  ASSUME HostInv, prog \in Checked, OrderInv,
         NEW op, Doing(op), op \notin Issues, op = "sync" => stream = <<>>,
         Advance, UNCHANGED <<stream, ran, kernel>>,
         DOMAIN A' = DOMAIN A, DOMAIN B' = DOMAIN B, DOMAIN D' = DOMAIN D, DOMAIN cpu' = DOMAIN cpu
  PROVE  /\ OrderInv'
         /\ \/ /\ part = "last" \/ pc < Len(Ops)
               /\ UNCHANGED <<part, Ops>> /\ pc' = pc + 1 /\ Finished' = Finished
            \/ /\ pc = Len(Ops) /\ part # "last" /\ pc' = 1 /\ ran = {}
               /\ \/ part' = "loop" /\ Finished' = Before
                  \/ part = "loop" /\ part' = "last" /\ Finished' = After
               /\ part = "loop" => Finished = After
<1>1. /\ Placed /\ StreamInv /\ ~AtEnd /\ UNCHANGED given /\ Ops[pc] = op
      /\ pc \in Nat \ {0} /\ After' = After /\ After \in Nat /\ Before \in Nat
  BY GivenStill DEF HostInv, Doing, Placed, After, Before
<1>2. \/ /\ part = "last" \/ pc < Len(Ops)
         /\ UNCHANGED <<part, Ops>> /\ pc' = pc + 1 /\ Issued' = Issued
      \/ /\ pc = Len(Ops) /\ part # "last" /\ pc' = 1
         /\ \/ part' = "loop" /\ Issued' = Before
            \/ part = "loop" /\ part' = "last" /\ Issued' = After
         /\ part = "loop" => Issued = After
  BY <1>1, Position
<1>3. /\ stream' = stream /\ ran' = ran /\ kernel' = kernel
      /\ DOMAIN A' = Slot /\ DOMAIN B' = Slot /\ DOMAIN D' = Slot /\ DOMAIN cpu' = Slot
  BY DEF OrderInv
<1>4. CASE part = "last" \/ pc < Len(Ops)
  <2>1. UNCHANGED <<part, Ops>> /\ pc' = pc + 1 /\ Finished' = Finished
    BY <1>2, <1>3, <1>4 DEF Finished
  <2>2. OrderInv'
    BY <1>1, <1>3, <2>1 DEF OrderInv, Slot
  <2> QED
    BY <1>4, <2>1, <2>2
<1>5. CASE pc = Len(Ops) /\ part # "last"
  <2>1. Waited(Ops, pc + 1)
    BY <1>1, <1>5, OpsSynced DEF Synced
  <2>2. stream = <<>>
    BY <1>1, <2>1, WaitedBefore DEF StreamInv
  <2>3. Len(stream) = 0 /\ Len(stream') = 0 /\ ran = {}
    BY <1>3, <2>2 DEF OrderInv
  <2>4. /\ \/ part' = "loop" /\ Finished' = Before
           \/ part = "loop" /\ part' = "last" /\ Finished' = After
        /\ part = "loop" => Finished = After
        /\ pc' = 1
    BY <1>1, <1>2, <1>5, <2>3 DEF Finished
  <2>5. OrderInv'
    BY <1>3, <2>3 DEF OrderInv, Slot
  <2> QED
    BY <1>5, <2>3, <2>4, <2>5
<1> QED
  BY <1>2, <1>4, <1>5

\* An operation that goes on with the next packet.
LEMMA QuietLoop ==
  ASSUME prog \in Checked, OrderInv, UNCHANGED given,
         UNCHANGED <<part, pc, stream, ran, kernel>>,
         DOMAIN A' = DOMAIN A, DOMAIN B' = DOMAIN B, DOMAIN D' = DOMAIN D, DOMAIN cpu' = DOMAIN cpu
  PROVE  OrderInv' /\ Ops' = Ops /\ AtEnd' = AtEnd /\ Finished' = Finished
<1>1. Ops' = Ops /\ After' = After /\ Before' = Before
  BY GivenStill DEF Ops, given
<1>2. AtEnd' = AtEnd /\ Finished' = Finished
  BY <1>1 DEF AtEnd, Finished, Issued
<1> QED
  BY <1>1, <1>2 DEF OrderInv, Slot

\* A round begins: nothing of it is finished.
LEMMA FreshRound ==
  ASSUME UNCHANGED given, ran' = {}, Finished' = Before, NEW i,
         Result(A'[i]) = GoalOf(i, A'[i], cpu'[i]) \/ prog = "seqMem"
  PROVE  DeviceInv(i)'
<1>1. /\ prog' = prog /\ Result(A[i])' = Result(A'[i])
      /\ Goal(i)' = GoalOf(i, A'[i], cpu'[i])
  BY GivenStill
<1>2. CASE prog = "unifiedMemory"
  <2>1. Finished' = 1 /\ Result((IF prog = "unifiedMemory" THEN A ELSE D)[i])' = Goal(i)'
    BY <1>1, <1>2 DEF Before
  <2> QED
    BY <2>1 DEF DeviceInv
<1>3. CASE prog = "seqMem"
  BY <1>1, <1>3 DEF DeviceInv, Before
<1>4. CASE prog \notin {"unifiedMemory", "seqMem"}
  BY <1>1, <1>4 DEF DeviceInv, Before
<1> QED
  BY <1>2, <1>3, <1>4

\* The arrays are as they were.
LEMMA DeviceStill ==
  ASSUME UNCHANGED <<given, A, B, D, cpu, ran>>, Finished' = Finished, NEW i, DeviceInv(i)
  PROVE  DeviceInv(i)'
<1>1. /\ prog' = prog /\ Result(A[i])' = Result(A[i]) /\ Result(D[i])' = Result(D[i])
      /\ Goal(i)' = Goal(i) /\ Output(i)' = Output(i)
  BY GivenStill DEF Goal, Output
<1> QED
  BY <1>1 DEF DeviceInv

\* What a proof about an operation of a copying program starts from.
LEMMA DataFacts ==
  ASSUME HostInv, prog \in Checked, DataInv
  PROVE  /\ OrderInv /\ Shape /\ Pkt \subseteq Slot /\ j \in Pkt /\ num_pkts \in Nat
         /\ pc \in Nat \ {0} /\ part \in {"once", "loop", "last"} /\ Len(Ops) \in Nat
         /\ \A i \in Pkt : PacketInv(i) /\ i \in Nat /\ i < num_pkts
         /\ part = "once" => Ops = body.once
         /\ part = "loop" => Ops = body.loop
         /\ part = "last" => Ops = body.last
<1>1. Placed
  BY DEF HostInv
<1>2. OrderInv /\ \A i \in Pkt : PacketInv(i)
  BY DEF DataInv
<1>3. Shape /\ Len(Ops) \in Nat
  BY <1>1, CheckedShape, OpsSynced
<1>4. /\ Pkt \subseteq Slot /\ j \in Pkt /\ num_pkts \in Nat
      /\ \A i \in Pkt : i \in Nat /\ i < num_pkts
  BY <1>1, GpuAssumption DEF Placed, Pkt, Slot
<1> QED
  BY <1>1, <1>2, <1>3, <1>4 DEF Placed, Ops

\* Nothing is under way where the host prepares or checks.
LEMMA Prepares ==
  ASSUME HostInv, OrderInv, ~AtEnd, Ops[pc] \in {"write", "cpu_run", "check"}
  PROVE  stream = <<>> /\ Len(stream) = 0 /\ ran = {}
<1>1. Synced(Ops) /\ Len(Ops) \in Nat
  BY OpsSynced DEF HostInv
<1>2. pc \in 1 .. Len(Ops)
  BY <1>1 DEF HostInv, Placed, AtEnd
<1>3. stream = <<>>
  BY <1>1, <1>2 DEF Synced, HostInv, StreamInv
<1> QED
  BY <1>3 DEF OrderInv

LEMMA WriteData ==
  ASSUME HostInv, prog \in Checked, DataInv, Write
  PROVE  DataInv'
<1>1. /\ OrderInv /\ Shape /\ Pkt \subseteq Slot /\ j \in Pkt /\ num_pkts \in Nat
      /\ pc \in Nat \ {0} /\ part \in {"once", "loop", "last"} /\ Len(Ops) \in Nat
      /\ \A i \in Pkt : PacketInv(i) /\ i \in Nat /\ i < num_pkts
      /\ part = "once" => Ops = body.once
      /\ part = "loop" => Ops = body.loop
      /\ part = "last" => Ops = body.last
  BY DataFacts
<1>2. /\ Doing("write") /\ ~AtEnd /\ Ops[pc] = "write" /\ UNCHANGED given /\ pc \in 1 .. Len(Ops)
      /\ UNCHANGED <<B, D, stream, ran, kernel>> /\ Looping
  BY <1>1 DEF Write, Doing, devVars, AtEnd
<1>3. PICK x : /\ A' = [A EXCEPT ![j] = x]
               /\ cpu' = IF prog = "vectorAdd" THEN cpu ELSE [cpu EXCEPT ![j] = x]
  BY DEF Write
<1>4. /\ stream = <<>> /\ Len(stream) = 0 /\ ran = {}
  BY <1>1, <1>2, Prepares
<1>5. DOMAIN A' = DOMAIN A /\ DOMAIN cpu' = DOMAIN cpu
  BY <1>3
<1>6. ASSUME NEW i \in Pkt, prog # "vectorAdd", i <= j
      PROVE  A'[i] = cpu'[i]
  <2>1. i < j => A[i] = cpu[i]
    BY <1>1, <1>2, <1>6 DEF PacketInv
  <2>2. i = j \/ i < j
    BY <1>1, <1>6
  <2> QED
    BY <1>1, <1>3, <1>6, <2>1, <2>2 DEF OrderInv
<1>7. /\ prog' = prog /\ Pkt' = Pkt /\ body' = body
  BY <1>2, GivenStill DEF given
<1>8. CASE ~Advance
  <2>1. UNCHANGED <<part, pc>> /\ j' = j + 1
    BY <1>2, <1>8 DEF Looping
  <2>2. OrderInv' /\ Ops' = Ops /\ AtEnd' = AtEnd
    BY <1>1, <1>2, <1>5, <2>1, QuietLoop
  <2>3. ASSUME NEW i \in Pkt
        PROVE  PacketInv(i)'
    BY <1>1, <1>2, <1>6, <1>7, <2>1, <2>2 DEF PacketInv
  <2> QED
    BY <1>7, <2>2, <2>3 DEF DataInv
<1>9. CASE Advance
  <2>1. \A i \in Pkt : i <= j
    <3>1. ~(j + 1 < num_pkts) \/ (j' = 0 /\ j' = j + 1)
      BY <1>2, <1>9 DEF Looping, Advance
    <3> QED
      BY <1>1, <3>1
  <2>2. \A i \in Pkt : prog # "vectorAdd" => A'[i] = cpu'[i]
    BY <1>6, <2>1
  <2>3. /\ OrderInv'
        /\ \/ /\ part = "last" \/ pc < Len(Ops)
              /\ UNCHANGED <<part, Ops>> /\ pc' = pc + 1 /\ Finished' = Finished
           \/ /\ pc = Len(Ops) /\ part # "last" /\ pc' = 1 /\ ran = {}
              /\ \/ part' = "loop" /\ Finished' = Before
                 \/ part = "loop" /\ part' = "last" /\ Finished' = After
              /\ part = "loop" => Finished = After
    BY <1>1, <1>2, <1>4, <1>5, <1>9, QuietAdvance DEF Issues
  <2>4. j' = 0
    BY <1>9 DEF Advance
  <2>5. ASSUME NEW i \in Pkt
        PROVE  PacketInv(i)'
    <3>1. CASE part = "loop"
      <4>1. /\ pc = 1 /\ Len(Ops) > 1 /\ prog \notin {"vectorAdd", "seqMem"}
            /\ IF prog \in OnCpu THEN Ops[2] = "cpu_run" ELSE Ops[2] \in Issues
            /\ Issued = Before
        BY <1>1, <1>2, <3>1 DEF Shape, LoopShape, Straight, Issued
      <4>2. UNCHANGED <<part, Ops>> /\ pc' = 2 /\ Finished' = Before
        BY <1>4, <2>3, <3>1, <4>1 DEF Finished, Before
      <4>3. CASE prog \in OnCpu
        BY <1>1, <1>7, <2>2, <2>4, <4>1, <4>2, <4>3 DEF PacketInv, AtEnd
      <4>4. CASE prog \notin OnCpu
        <5>1. Result(A'[i]) = GoalOf(i, A'[i], cpu'[i])
          BY <2>2, <4>1, <4>4 DEF GoalOf
        <5>2. DeviceInv(i)'
          BY <1>2, <1>4, <4>2, <5>1, FreshRound
        <5> QED
          BY <4>1, <4>2, <4>4, <5>2 DEF PacketInv, Issues
      <4> QED
        BY <4>3, <4>4
    <3>2. CASE part = "once"
      <4>1. prog \in OnCpu \union {"vectorAdd"} /\ LoopShape(body.loop)
        BY <1>1, <1>2, <3>2 DEF Shape, OnceShape
      <4>2. CASE prog \in OnCpu
        <5>1. Len(Ops) = 1 /\ body.loop[1] = "cpu_run"
          BY <1>1, <1>2, <3>2, <4>2 DEF Shape, OnceShape
        <5>2. part' = "loop" /\ pc' = 1
          BY <1>1, <1>2, <2>3, <3>2, <5>1
        <5>3. Ops' = body.loop /\ ~AtEnd'
          BY <1>7, <4>1, <5>2 DEF Ops, AtEnd, LoopShape
        <5> QED
          BY <1>1, <1>7, <2>2, <2>4, <4>2, <5>1, <5>2, <5>3 DEF PacketInv, OnCpu
      <4>3. CASE prog = "vectorAdd"
        <5>1. part' = "once" \/ (part' = "loop" /\ Finished' = Before)
          BY <2>3, <3>2
        <5>2. Result(A'[i]) = GoalOf(i, A'[i], cpu'[i])
          BY <4>3 DEF GoalOf, OnCpu
        <5>3. part' = "once" \/ DeviceInv(i)'
          BY <1>2, <1>4, <5>1, <5>2, FreshRound
        <5> QED
          BY <1>7, <4>3, <5>3 DEF PacketInv
      <4> QED
        BY <4>1, <4>2, <4>3
    <3>3. part # "last"
      BY <1>1, <1>2 DEF Shape
    <3> QED
      BY <1>1, <3>1, <3>2, <3>3
  <2> QED
    BY <1>7, <2>3, <2>5 DEF DataInv
<1> QED
  BY <1>8, <1>9

LEMMA CpuRunData ==
  ASSUME HostInv, prog \in Checked, DataInv, CpuRun
  PROVE  DataInv'
<1>1. /\ OrderInv /\ Shape /\ Pkt \subseteq Slot /\ j \in Pkt /\ num_pkts \in Nat
      /\ pc \in Nat \ {0} /\ part \in {"once", "loop", "last"} /\ Len(Ops) \in Nat
      /\ \A i \in Pkt : PacketInv(i) /\ i \in Nat /\ i < num_pkts
      /\ part = "once" => Ops = body.once
      /\ part = "loop" => Ops = body.loop
      /\ part = "last" => Ops = body.last
  BY DataFacts
<1>2. /\ Doing("cpu_run") /\ ~AtEnd /\ Ops[pc] = "cpu_run" /\ UNCHANGED given
      /\ pc \in 1 .. Len(Ops) /\ UNCHANGED <<A, B, D, stream, ran, kernel>> /\ Looping
  BY <1>1 DEF CpuRun, Doing, devVars, AtEnd
<1>3. PICK x : cpu' = [cpu EXCEPT ![j] = x] /\ (prog # "vectorAdd" => x = Result(cpu[j]))
  BY DEF CpuRun, CpuResult
<1>4. /\ stream = <<>> /\ Len(stream) = 0 /\ ran = {}
  BY <1>1, <1>2, Prepares
<1>5. DOMAIN A' = DOMAIN A /\ DOMAIN cpu' = DOMAIN cpu
  BY <1>2, <1>3
<1>6. ASSUME NEW i \in Pkt, prog # "vectorAdd"
      PROVE  IF i <= j THEN Result(A'[i]) = cpu'[i] ELSE A'[i] = cpu'[i]
  <2>1. IF i < j THEN Result(A[i]) = cpu[i] ELSE A[i] = cpu[i]
    BY <1>1, <1>2, <1>6 DEF PacketInv
  <2>2. i \in Nat /\ j \in Nat
    BY <1>1
  <2>3. cpu'[i] = IF i = j THEN Result(cpu[i]) ELSE cpu[i]
    BY <1>1, <1>3, <1>6 DEF OrderInv
  <2> QED
    BY <1>2, <2>1, <2>2, <2>3
<1>7. /\ prog' = prog /\ Pkt' = Pkt /\ body' = body /\ \A i : Result(A[i])' = Result(A'[i])
  BY <1>2, GivenStill DEF given
<1>8. CASE ~Advance
  <2>1. UNCHANGED <<part, pc>> /\ j' = j + 1
    BY <1>2, <1>8 DEF Looping
  <2>2. OrderInv' /\ Ops' = Ops /\ AtEnd' = AtEnd
    BY <1>1, <1>2, <1>5, <2>1, QuietLoop
  <2>3. ASSUME NEW i \in Pkt
        PROVE  PacketInv(i)'
    <3>1. i \in Nat /\ j \in Nat /\ (i < j + 1 <=> i <= j)
      BY <1>1
    <3> QED
      BY <1>2, <1>6, <1>7, <2>1, <2>2, <3>1 DEF PacketInv
  <2> QED
    BY <1>7, <2>2, <2>3 DEF DataInv
<1>9. CASE Advance
  <2>1. \A i \in Pkt : i <= j
    <3>1. ~(j + 1 < num_pkts) \/ (j' = 0 /\ j' = j + 1)
      BY <1>2, <1>9 DEF Looping, Advance
    <3> QED
      BY <1>1, <3>1
  <2>2. \A i \in Pkt : prog # "vectorAdd" => Result(A'[i]) = cpu'[i]
    BY <1>6, <2>1
  <2>3. /\ OrderInv'
        /\ \/ /\ part = "last" \/ pc < Len(Ops)
              /\ UNCHANGED <<part, Ops>> /\ pc' = pc + 1 /\ Finished' = Finished
           \/ /\ pc = Len(Ops) /\ part # "last" /\ pc' = 1 /\ ran = {}
              /\ \/ part' = "loop" /\ Finished' = Before
                 \/ part = "loop" /\ part' = "last" /\ Finished' = After
              /\ part = "loop" => Finished = After
    BY <1>1, <1>2, <1>4, <1>5, <1>9, QuietAdvance DEF Issues
  <2>4. ASSUME NEW i \in Pkt
        PROVE  PacketInv(i)'
    <3>1. CASE part = "loop"
      <4>1. /\ prog \in OnCpu /\ pc < Len(Ops) /\ Ops[pc + 1] \in Issues /\ Issued = Before
        BY <1>1, <1>2, <3>1 DEF Shape, LoopShape, Straight, Issued
      <4>2. UNCHANGED <<part, Ops>> /\ pc' = pc + 1 /\ Finished' = Before
        BY <1>4, <2>3, <3>1, <4>1 DEF Finished, Before
      <4>3. Result(A'[i]) = GoalOf(i, A'[i], cpu'[i])
        BY <2>2, <4>1 DEF GoalOf, OnCpu
      <4>4. DeviceInv(i)'
        BY <1>2, <1>4, <4>2, <4>3, FreshRound
      <4> QED
        BY <4>1, <4>2, <4>4 DEF PacketInv, Issues
    <3>2. CASE part = "once"
      <4>1. prog = "vectorAdd"
        <5>1. prog \in OnCpu => Len(Ops) = 1 /\ Ops[1] = "write"
          BY <1>1, <1>2, <3>2 DEF Shape, OnceShape
        <5>2. prog \in OnCpu \union {"vectorAdd"}
          BY <1>1, <1>2, <3>2 DEF Shape, OnceShape
        <5> QED
          BY <1>2, <5>1, <5>2
      <4>2. part' = "once" \/ (part' = "loop" /\ Finished' = Before)
        BY <2>3, <3>2
      <4>3. Result(A'[i]) = GoalOf(i, A'[i], cpu'[i])
        BY <4>1 DEF GoalOf, OnCpu
      <4>4. part' = "once" \/ DeviceInv(i)'
        BY <1>2, <1>4, <4>2, <4>3, FreshRound
      <4> QED
        BY <1>7, <4>1, <4>4 DEF PacketInv
    <3>3. part # "last"
      BY <1>1, <1>2 DEF Shape
    <3> QED
      BY <1>1, <3>1, <3>2, <3>3
  <2> QED
    BY <1>7, <2>3, <2>4 DEF DataInv
<1> QED
  BY <1>8, <1>9

\* An operation that leaves the arrays alone: the round goes on, or it is
\* over and its results are the inputs of the next.
LEMMA PacketAdvance ==
  ASSUME HostInv, prog \in Checked, DataInv, NEW op, Doing(op), op \notin {"write", "cpu_run"},
         Advance, UNCHANGED <<A, B, D, cpu, ran>>, OrderInv',
         \/ /\ part = "last" \/ pc < Len(Ops)
            /\ UNCHANGED <<part, Ops>> /\ pc' = pc + 1 /\ Finished' = Finished
         \/ /\ pc = Len(Ops) /\ part # "last" /\ pc' = 1 /\ ran = {}
            /\ \/ part' = "loop" /\ Finished' = Before
               \/ part = "loop" /\ part' = "last" /\ Finished' = After
            /\ part = "loop" => Finished = After
  PROVE  DataInv'
<1>1. /\ OrderInv /\ Shape /\ Pkt \subseteq Slot /\ j \in Pkt /\ num_pkts \in Nat
      /\ pc \in Nat \ {0} /\ part \in {"once", "loop", "last"} /\ Len(Ops) \in Nat
      /\ \A i \in Pkt : PacketInv(i) /\ i \in Nat /\ i < num_pkts
      /\ part = "once" => Ops = body.once
      /\ part = "loop" => Ops = body.loop
      /\ part = "last" => Ops = body.last
  BY DataFacts
<1>2. /\ ~AtEnd /\ Ops[pc] = op /\ UNCHANGED given /\ pc \in 1 .. Len(Ops) /\ j' = 0
  BY <1>1 DEF Doing, AtEnd, Advance
<1>3. /\ prog' = prog /\ Pkt' = Pkt /\ body' = body
  BY <1>2, GivenStill DEF given
<1>4. ASSUME NEW i \in Pkt
      PROVE  PacketInv(i)'
  <2>1. part # "once" => DeviceInv(i)
    BY <1>1, <1>2 DEF PacketInv
  <2>2. CASE /\ part = "last" \/ pc < Len(Ops)
             /\ UNCHANGED <<part, Ops>> /\ pc' = pc + 1 /\ Finished' = Finished
    <3>1. part # "once" => DeviceInv(i)'
      BY <1>2, <2>1, <2>2, DeviceStill
    <3>2. ASSUME part \in {"loop", "last"}, ~AtEnd' PROVE Ops[pc + 1] \notin {"write", "cpu_run"}
      <4>1. pc + 1 \in 1 .. Len(Ops)
        BY <1>1, <1>2, <2>2, <3>2 DEF AtEnd
      <4>2. CASE part = "last"
        BY <1>1, <4>1, <4>2 DEF Shape
      <4>3. CASE part = "loop"
        BY <1>1, <1>2, <4>1, <4>3 DEF Shape, LoopShape
      <4> QED
        BY <3>2, <4>2, <4>3
    <3>3. CASE part # "once"
      BY <1>1, <2>2, <3>1, <3>2, <3>3 DEF PacketInv
    <3>4. CASE part = "once"
      <4>1. Len(Ops) > 1 /\ Straight(Ops) /\ OnceShape(Ops, body.loop)
        BY <1>1, <1>2, <2>2, <3>4 DEF Shape
      <4>2. prog \notin OnCpu /\ pc + 1 \in 1 .. Len(Ops)
        BY <1>1, <1>2, <2>2, <3>4, <4>1 DEF OnceShape
      <4>3. Ops[pc + 1] \in {"write", "cpu_run"} => prog = "vectorAdd"
        BY <4>1, <4>2 DEF OnceShape
      <4> QED
        BY <1>3, <2>2, <3>4, <4>3 DEF PacketInv
    <3> QED
      BY <3>3, <3>4
  <2>3. CASE part' = "last" /\ part = "loop" /\ Finished' = Finished
    <3>1. DeviceInv(i)'
      BY <1>2, <2>1, <2>3, DeviceStill
    <3>2. Ops' = body.last
      BY <1>3, <2>3 DEF Ops
    <3>3. ~AtEnd' => Ops'[pc'] = "check"
      BY <1>1, <3>2 DEF Shape, AtEnd
    <3> QED
      BY <3>1, <3>3 DEF PacketInv
  <2>4. CASE /\ part # "last" /\ part' = "loop" /\ pc' = 1 /\ ran = {} /\ Finished' = Before
             /\ part = "loop" => Finished = After
    <3>1. Ops' = body.loop /\ LoopShape(body.loop) /\ ~AtEnd'
      BY <1>1, <1>3, <2>4 DEF Ops, Shape, LoopShape, AtEnd
    <3>2. CASE body.loop[1] = "write"
      BY <1>1, <1>2, <2>4, <3>1, <3>2 DEF PacketInv
    <3>3. CASE body.loop[1] = "cpu_run"
      <4>1. prog \in OnCpu
        BY <3>1, <3>3 DEF LoopShape
      <4>2. part = "loop"
        <5>1. part = "once" => Len(Ops) = 1 /\ Ops[1] = "write"
          BY <1>1, <1>2, <4>1 DEF Shape, OnceShape
        <5> QED
          BY <1>1, <1>2, <2>4, <5>1
      <4>3. A[i] = cpu[i]
        <5>1. Finished = 3 /\ DeviceInv(i)
          BY <2>1, <2>4, <4>1, <4>2 DEF After, OnCpu
        <5>2. Output(i) = A[i] /\ Goal(i) = cpu[i]
          BY <4>1 DEF Output, Goal, GoalOf, OnCpu
        <5>3. Output(i) = Goal(i)
          BY <5>1 DEF DeviceInv
        <5> QED
          BY <5>2, <5>3
      <4> QED
        BY <1>1, <1>2, <1>3, <2>4, <3>1, <3>3, <4>3 DEF PacketInv
    <3>4. CASE body.loop[1] \notin {"write", "cpu_run"}
      <4>1. prog \in {"vectorAdd", "seqMem"}
        BY <3>1, <3>4 DEF LoopShape
      <4>2. Result(A'[i]) = GoalOf(i, A'[i], cpu'[i]) \/ prog = "seqMem"
        BY <4>1 DEF GoalOf, OnCpu
      <4>3. DeviceInv(i)'
        BY <1>2, <2>4, <4>2, FreshRound
      <4> QED
        BY <2>4, <3>1, <3>4, <4>3 DEF PacketInv
    <3> QED
      BY <3>2, <3>3, <3>4
  <2> QED
    BY <2>2, <2>3, <2>4
<1> QED
  BY <1>3, <1>4 DEF DataInv

LEMMA SynchronizeData ==
  ASSUME HostInv, prog \in Checked, DataInv, Synchronize
  PROVE  DataInv'
<1>1. /\ Doing("sync") /\ Advance /\ stream = <<>> /\ OrderInv
      /\ UNCHANGED <<A, B, D, cpu, stream, ran, kernel>>
  BY DEF Synchronize, devVars, DataInv
<1> QED
  BY <1>1, QuietAdvance, PacketAdvance DEF Issues

LEMMA CheckData ==
  ASSUME HostInv, prog \in Checked, DataInv, Check
  PROVE  DataInv'
<1>1. /\ Doing("check") /\ Looping /\ OrderInv /\ UNCHANGED given /\ Ops[pc] = "check"
      /\ UNCHANGED <<A, B, D, cpu, stream, ran, kernel>>
  BY DEF Check, Doing, devVars, DataInv
<1>2. CASE Advance
  BY <1>1, <1>2, QuietAdvance, PacketAdvance DEF Issues
<1>3. CASE ~Advance
  <2>1. UNCHANGED <<part, pc>>
    BY <1>1, <1>3 DEF Looping
  <2>2. OrderInv' /\ Ops' = Ops /\ AtEnd' = AtEnd /\ Finished' = Finished
    BY <1>1, <2>1, QuietLoop
  <2>3. prog' = prog /\ Pkt' = Pkt
    BY <1>1, GivenStill
  <2>4. ASSUME NEW i \in Pkt
        PROVE  PacketInv(i)'
    <3>1. part # "once" => DeviceInv(i)
      BY <1>1 DEF DataInv, PacketInv
    <3>2. part # "once" => DeviceInv(i)'
      BY <1>1, <2>2, <3>1, DeviceStill
    <3> QED
      BY <1>1, <2>1, <2>2, <3>2 DEF PacketInv
  <2> QED
    BY <2>2, <2>3, <2>4 DEF DataInv
<1> QED
  BY <1>2, <1>3

LEMMA IssueData ==
  ASSUME HostInv, prog \in Checked, DataInv, Issue
  PROVE  DataInv'
<1>1. /\ OrderInv /\ Shape /\ Pkt \subseteq Slot /\ j \in Pkt /\ num_pkts \in Nat
      /\ pc \in Nat \ {0} /\ part \in {"once", "loop", "last"} /\ Len(Ops) \in Nat
      /\ \A i \in Pkt : PacketInv(i) /\ i \in Nat /\ i < num_pkts
      /\ part = "once" => Ops = body.once
      /\ part = "loop" => Ops = body.loop
      /\ part = "last" => Ops = body.last
  BY DataFacts
<1>2. PICK op \in Issues : Doing(op) /\ stream' = Append(stream, op)
  BY DEF Issue, Issues
<1>3. /\ ~AtEnd /\ Ops[pc] = op /\ UNCHANGED given /\ Placed /\ Advance
      /\ UNCHANGED <<A, B, D, cpu, ran, kernel>> /\ pc \in 1 .. Len(Ops)
  BY <1>1, <1>2 DEF Issue, Doing, HostInv, AtEnd
<1>4. part # "last"
  BY <1>1, <1>2, <1>3 DEF Shape, Issues
<1>5. pc # Len(Ops)
  <2>1. Waited(Ops, Len(Ops) + 1)
    BY <1>3, OpsSynced DEF Synced
  <2> QED
    BY <1>1, <1>2, <1>3, <2>1, WaitedBefore DEF Issues
<1>6. /\ pc < Len(Ops) /\ UNCHANGED <<part, Ops>> /\ pc' = pc + 1 /\ Issued' = Issued + 1
  BY <1>2, <1>3, <1>4, <1>5, Position
<1>7. /\ Rank(op) = Issued + 1 /\ Rank(op) <= After /\ Issued \in Nat
  <2>1. Straight(Ops)
    BY <1>1, <1>4 DEF Shape
  <2>2. Rank(op) = Sent(Ops, pc, Before) + 1 /\ Rank(op) <= After
    BY <1>2, <1>3, <2>1 DEF Straight
  <2>3. Sent(Ops, pc, Before) \in 0..3
    BY <1>1, SentNext DEF Before
  <2> QED
    BY <1>4, <2>2, <2>3 DEF Issued
<1>8. /\ stream \in Seq(Issues) /\ Len(stream) \in Nat /\ Len(stream') = Len(stream) + 1
      /\ stream' \in Seq(Issues) /\ stream' # <<>>
      /\ stream'[Len(stream) + 1] = op
      /\ \A k \in 1 .. Len(stream) : stream'[k] = stream[k]
      /\ stream # <<>> => Head(stream') = Head(stream)
  BY <1>1, <1>2 DEF OrderInv
<1>9. Finished' = Finished
  BY <1>6, <1>7, <1>8 DEF Finished
<1>10. After' = After
  BY <1>3, GivenStill
<1>11. OrderInv'
  <2>1. ASSUME NEW k \in 1 .. Len(stream')
        PROVE  Rank(stream'[k]) = Finished + k /\ Rank(stream'[k]) <= After
    <3>1. CASE k = Len(stream) + 1
      BY <1>7, <1>8, <3>1 DEF Finished
    <3>2. CASE k \in 1 .. Len(stream)
      BY <1>1, <1>8, <3>2 DEF OrderInv
    <3> QED
      BY <1>8, <3>1, <3>2
  <2>2. \A k \in 1 .. Len(stream') : (Rank(stream[k]))' = Finished' + k /\ (Rank(stream[k]))' <= After'
    BY <1>9, <1>10, <2>1 DEF Rank
  <2>3. ran' # {} => stream' # <<>> /\ Head(stream') = "launch"
    BY <1>1, <1>3, <1>8 DEF OrderInv
  <2> QED
    BY <1>1, <1>3, <1>8, <2>2, <2>3 DEF OrderInv, Slot
<1> QED
  BY <1>2, <1>3, <1>6, <1>9, <1>11, PacketAdvance DEF Issues

-----------------------------------------------------------------------------
(* The device.                                                             *)

LEMMA DeviceFacts ==
  ASSUME HostInv, prog \in Checked, DataInv, UNCHANGED <<given, place>>
  PROVE  /\ prog' = prog /\ Pkt' = Pkt /\ After' = After /\ Ops' = Ops /\ AtEnd' = AtEnd
         /\ Issued' = Issued /\ UNCHANGED <<part, pc, j>>
         /\ stream # <<>> => ~(~AtEnd /\ Ops[pc] \in {"write", "cpu_run"})
         /\ \A i \in Pkt : stream # <<>> /\ part # "once" => DeviceInv(i)
<1>1. UNCHANGED <<part, pc, j>> /\ UNCHANGED given
  BY DEF place
<1>2. prog' = prog /\ Pkt' = Pkt /\ After' = After /\ Before' = Before
  BY <1>1, GivenStill
<1>3. Ops' = Ops
  BY <1>1 DEF Ops, given
<1>4. AtEnd' = AtEnd /\ Issued' = Issued
  BY <1>1, <1>2, <1>3 DEF AtEnd, Issued
<1>5. stream # <<>> => ~(~AtEnd /\ Ops[pc] \in {"write", "cpu_run"})
  BY Prepares DEF DataInv
<1>6. \A i \in Pkt : stream # <<>> /\ part # "once" => DeviceInv(i)
  BY <1>5 DEF DataInv, PacketInv
<1> QED
  BY <1>1, <1>2, <1>3, <1>4, <1>5, <1>6

\* The first operation of the stream and the rest.
LEMMA FirstFacts ==
  ASSUME OrderInv, NEW op, First(op)
  PROVE  /\ stream # <<>> /\ op \in Issues /\ Rank(op) = Finished + 1 /\ Rank(op) <= After
         /\ Tail(stream) \in Seq(Issues) /\ Len(stream) \in Nat \ {0}
         /\ Len(Tail(stream)) = Len(stream) - 1
         /\ \A k \in 1 .. Len(stream) - 1 : Tail(stream)[k] = stream[k + 1]
         /\ ran # {} => op = "launch"
<1>1. stream # <<>> /\ stream[1] = op /\ stream \in Seq(Issues) /\ Len(stream) \in Nat \ {0}
      /\ Head(stream) = op
  BY DEF First, OrderInv
<1>2. Rank(op) = Finished + 1 /\ Rank(op) <= After /\ (ran # {} => op = "launch")
  BY <1>1 DEF OrderInv
<1>3. op \in Issues
  BY <1>1
<1>4. /\ Tail(stream) \in Seq(Issues) /\ Len(Tail(stream)) = Len(stream) - 1
      /\ \A k \in 1 .. Len(stream) - 1 : Tail(stream)[k] = stream[k + 1]
  BY <1>1
<1> QED
  BY <1>1, <1>2, <1>3, <1>4

\* The first operation of the stream is finished.
LEMMA FinishOrder ==
  ASSUME HostInv, prog \in Checked, DataInv, NEW op, First(op), UNCHANGED <<given, place, cpu, kernel>>,
         stream' = Tail(stream), ran' = {}, DOMAIN A' = Slot, DOMAIN B' = Slot, DOMAIN D' = Slot
  PROVE  OrderInv' /\ Finished' = Finished + 1 /\ Finished \in Int
<1>1. /\ After' = After /\ Issued' = Issued /\ OrderInv
  BY DeviceFacts DEF DataInv
<1>2. /\ op \in Issues /\ Rank(op) = Finished + 1
      /\ Tail(stream) \in Seq(Issues) /\ Len(stream) \in Nat \ {0}
      /\ Len(Tail(stream)) = Len(stream) - 1
      /\ \A k \in 1 .. Len(stream) - 1 : Tail(stream)[k] = stream[k + 1]
  BY <1>1, FirstFacts
<1>3. Issued \in Nat
  <2>1. pc \in Nat \ {0} /\ Before \in {0, 1} /\ After \in Nat
    BY DEF HostInv, Placed, Before, After
  <2> QED
    BY <2>1, SentNext DEF Issued
<1>4. Finished' = Finished + 1 /\ Finished \in Int
  BY <1>1, <1>2, <1>3 DEF Finished
<1>5. ASSUME NEW k \in 1 .. Len(stream')
      PROVE  (Rank(stream[k]))' = Finished' + k /\ (Rank(stream[k]))' <= After'
  <2>1. k + 1 \in 1 .. Len(stream) /\ stream'[k] = stream[k + 1]
    BY <1>2
  <2>2. Rank(stream[k + 1]) = Finished + (k + 1) /\ Rank(stream[k + 1]) <= After
    BY <1>1, <2>1 DEF OrderInv
  <2>3. (Rank(stream[k]))' = Rank(stream[k + 1])
    BY <2>1 DEF Rank
  <2>4. k \in Int /\ Finished \in Int /\ Finished' = Finished + 1 /\ After' = After
    BY <1>1, <1>4
  <2>5. Finished' + k = Finished + (k + 1)
    BY <2>4
  <2> QED
    BY <2>2, <2>3, <2>4, <2>5
<1>6. OrderInv'
  BY <1>1, <1>2, <1>5 DEF OrderInv, Slot
<1> QED
  BY <1>4, <1>6

LEMMA CopyToDeviceData ==
  ASSUME HostInv, prog \in Checked, DataInv, CopyToDevice
  PROVE  DataInv'
<1>1. /\ First("h2d") /\ D' = A /\ stream' = Tail(stream)
      /\ UNCHANGED <<given, place, cpu, kernel, A, B, ran>> /\ OrderInv
  BY DEF CopyToDevice, Device, DataInv
<1>2. /\ stream # <<>> /\ Rank("h2d") = Finished + 1 /\ ran = {}
  BY <1>1, FirstFacts
<1>3. OrderInv' /\ Finished' = Finished + 1 /\ Finished \in Int
  <2>1. DOMAIN A' = Slot /\ DOMAIN B' = Slot /\ DOMAIN D' = Slot
    BY <1>1 DEF OrderInv
  <2> QED
    BY <1>1, <1>2, <2>1, FinishOrder
<1>4. Finished = 0 /\ Finished' = 1
  BY <1>2, <1>3 DEF Rank
<1>5. /\ prog' = prog /\ Pkt' = Pkt /\ Ops' = Ops /\ AtEnd' = AtEnd /\ UNCHANGED <<part, pc, j>>
      /\ ~(~AtEnd /\ Ops[pc] \in {"write", "cpu_run"})
      /\ \A i \in Pkt : part # "once" => DeviceInv(i)
  BY <1>1, <1>2, DeviceFacts
<1>6. /\ \A i : Result(A[i])' = Result(A[i]) /\ Result(D[i])' = Result(A[i]) /\ Goal(i)' = Goal(i)
  BY <1>1, GivenStill DEF Goal
<1>7. ASSUME NEW i \in Pkt, part # "once"
      PROVE  DeviceInv(i)'
  <2>1. Result(A[i]) = Goal(i)
    BY <1>4, <1>5, <1>7 DEF DeviceInv
  <2>2. Result((IF prog = "unifiedMemory" THEN A ELSE D)[i])' = Goal(i)'
    <3>1. CASE prog = "unifiedMemory"
      BY <1>5, <1>6, <2>1, <3>1
    <3>2. CASE prog # "unifiedMemory"
      BY <1>5, <1>6, <2>1, <3>2
    <3> QED
      BY <3>1, <3>2
  <2>3. i \notin ran'
    BY <1>1, <1>2
  <2> QED
    BY <1>4, <2>2, <2>3 DEF DeviceInv
<1>8. \A i \in Pkt : PacketInv(i)'
  BY <1>5, <1>7 DEF PacketInv
<1> QED
  BY <1>3, <1>5, <1>8 DEF DataInv

LEMMA CopyToHostData ==
  ASSUME HostInv, prog \in Checked, DataInv, CopyToHost
  PROVE  DataInv'
<1>1. /\ First("d2h") /\ stream' = Tail(stream)
      /\ IF prog \in {"vectorAdd", "seqMem"} THEN B' = D /\ A' = A ELSE A' = D /\ B' = B
      /\ UNCHANGED <<given, place, cpu, kernel, D, ran>> /\ OrderInv
  BY DEF CopyToHost, Device, DataInv
<1>2. /\ stream # <<>> /\ Rank("d2h") = Finished + 1 /\ ran = {} /\ Rank("d2h") <= After
  BY <1>1, FirstFacts
<1>3. OrderInv' /\ Finished' = Finished + 1 /\ Finished \in Int
  <2>1. DOMAIN A' = Slot /\ DOMAIN B' = Slot /\ DOMAIN D' = Slot
    BY <1>1 DEF OrderInv
  <2> QED
    BY <1>1, <1>2, <2>1, FinishOrder
<1>4. Finished = 2 /\ Finished' = 3 /\ prog # "unifiedMemory"
  BY <1>2, <1>3 DEF Rank, After
<1>5. /\ prog' = prog /\ Pkt' = Pkt /\ Ops' = Ops /\ AtEnd' = AtEnd /\ UNCHANGED <<part, pc, j>>
      /\ ~(~AtEnd /\ Ops[pc] \in {"write", "cpu_run"})
      /\ \A i \in Pkt : part # "once" => DeviceInv(i)
  BY <1>1, <1>2, DeviceFacts
<1>6. \A i : Goal(i)' = Goal(i)
  <2>1. \A i : Goal(i)' = GoalOf(i, A'[i], cpu'[i])
    BY <1>1, GivenStill
  <2> QED
    BY <1>1, <2>1 DEF Goal, GoalOf
<1>7. ASSUME NEW i \in Pkt, part # "once"
      PROVE  DeviceInv(i)'
  <2>1. D[i] = Goal(i)
    BY <1>4, <1>5, <1>7 DEF DeviceInv
  <2>2. Output(i)' = D[i]
    BY <1>1, <1>4, <1>5 DEF Output
  <2> QED
    BY <1>4, <1>6, <2>1, <2>2 DEF DeviceInv
<1>8. \A i \in Pkt : PacketInv(i)'
  BY <1>5, <1>7 DEF PacketInv
<1> QED
  BY <1>3, <1>5, <1>8 DEF DataInv

LEMMA KernelThreadData ==
  ASSUME HostInv, prog \in Checked, DataInv, NEW t \in Pkt, KernelThread(t)
  PROVE  DataInv'
<1> DEFINE work == IF prog = "unifiedMemory" THEN B ELSE D
           from == IF prog = "unifiedMemory" THEN A ELSE D
<1>1. /\ First("launch") /\ t \notin ran /\ UNCHANGED <<given, place, cpu, kernel, A>> /\ OrderInv
      /\ IF prog = "unifiedMemory"
           THEN B' = [B EXCEPT ![t] = Result(A[t])] /\ D' = D
           ELSE /\ D' = [D EXCEPT ![t] = IF prog = "seqMem" THEN Strided(t) ELSE Result(@)]
                /\ B' = B
      /\ IF ran \union {t} = Pkt THEN ran' = {} /\ stream' = Tail(stream)
         ELSE ran' = ran \union {t} /\ stream' = stream
  BY DEF KernelThread, Device, DataInv
<1>2. /\ stream # <<>> /\ Rank("launch") = Finished + 1
  BY <1>1, FirstFacts
<1>3. Issued \in Nat /\ Len(stream) \in Nat /\ t \in Slot
  <2>1. pc \in Nat \ {0} /\ Before \in {0, 1} /\ After \in Nat /\ Pkt \subseteq Slot
    BY DataFacts DEF Before, After
  <2>2. Issued \in Nat
    BY <2>1, SentNext DEF Issued
  <2>3. Len(stream) \in Nat
    BY <1>1, FirstFacts
  <2> QED
    BY <2>1, <2>2, <2>3
<1>4. Finished = 1
  BY <1>2, <1>3 DEF Rank, Finished
<1>5. /\ prog' = prog /\ Pkt' = Pkt /\ Ops' = Ops /\ AtEnd' = AtEnd /\ UNCHANGED <<part, pc, j>>
      /\ ~(~AtEnd /\ Ops[pc] \in {"write", "cpu_run"}) /\ After' = After /\ Issued' = Issued
      /\ \A i \in Pkt : part # "once" => DeviceInv(i)
  BY <1>1, <1>2, DeviceFacts
<1>6. DOMAIN A' = Slot /\ DOMAIN B' = Slot /\ DOMAIN D' = Slot
  BY <1>1 DEF OrderInv
<1>7. \A i : /\ Goal(i)' = Goal(i)
             /\ Result(A[i])' = Result(A'[i]) /\ Result(D[i])' = Result(D'[i])
  BY <1>1, GivenStill DEF Goal
<1>8. ASSUME NEW i \in Pkt, i # t
      PROVE  work'[i] = work[i] /\ Result(from[i])' = Result(from[i])
  <2>1. A'[i] = A[i] /\ B'[i] = B[i] /\ D'[i] = D[i]
    <3>1. i \in DOMAIN B /\ i \in DOMAIN D
      BY <1>1, DataFacts DEF OrderInv
    <3> QED
      BY <1>1, <1>8, <3>1
  <2>2. CASE prog = "unifiedMemory"
    BY <1>5, <1>7, <2>1, <2>2
  <2>3. CASE prog # "unifiedMemory"
    BY <1>5, <1>7, <2>1, <2>3
  <2> QED
    BY <2>2, <2>3
<1>9. ASSUME part # "once"
      PROVE  work'[t] = Goal(t)
  <2>1. prog # "seqMem" => Result(from[t]) = Goal(t)
    BY <1>1, <1>4, <1>5, <1>9 DEF DeviceInv
  <2>2. prog = "seqMem" => Strided(t) = Goal(t)
    BY DEF Goal, GoalOf, OnCpu
  <2>3. CASE prog = "unifiedMemory"
    BY <1>1, <1>3, <1>5, <2>1, <2>3 DEF OrderInv
  <2>4. CASE prog # "unifiedMemory"
    BY <1>1, <1>3, <1>5, <2>1, <2>2, <2>4 DEF OrderInv
  <2> QED
    BY <2>3, <2>4
<1>10. ASSUME NEW i \in Pkt, part # "once"
       PROVE  /\ i \in ran => work[i] = Goal(i)
              /\ i \notin ran /\ prog # "seqMem" => Result(from[i]) = Goal(i)
  BY <1>4, <1>5, <1>10 DEF DeviceInv
<1>11. CASE ran \union {t} = Pkt
  <2>1. ran' = {} /\ stream' = Tail(stream)
    BY <1>1, <1>11
  <2>2. OrderInv' /\ Finished' = 2
    BY <1>1, <1>4, <1>6, <2>1, FinishOrder
  <2>3. ASSUME NEW i \in Pkt, part # "once"
        PROVE  DeviceInv(i)'
    <3>1. work'[i] = Goal(i)
      BY <1>8, <1>9, <1>10, <1>11, <2>3
    <3> QED
      BY <1>5, <1>7, <2>2, <3>1 DEF DeviceInv
  <2> QED
    BY <1>5, <2>2, <2>3 DEF DataInv, PacketInv
<1>12. CASE ran \union {t} # Pkt
  <2>1. ran' = ran \union {t} /\ stream' = stream
    BY <1>1, <1>12
  <2>2. Finished' = 1
    BY <1>4, <1>5, <2>1 DEF Finished
  <2>3. OrderInv'
    <3>1. \A k \in 1 .. Len(stream') : (Rank(stream[k]))' = Finished' + k /\ (Rank(stream[k]))' <= After'
      BY <1>1, <1>4, <1>5, <2>1, <2>2 DEF OrderInv, Rank
    <3> QED
      BY <1>1, <1>2, <1>6, <2>1, <3>1 DEF OrderInv, First, Slot
  <2>4. ASSUME NEW i \in Pkt, part # "once"
        PROVE  DeviceInv(i)'
    <3>1. i \in ran' => work'[i] = Goal(i)
      BY <1>8, <1>9, <1>10, <2>1, <2>4
    <3>2. i \notin ran' /\ prog # "seqMem" => Result(from[i])' = Goal(i)
      BY <1>8, <1>10, <2>1, <2>4
    <3> QED
      BY <1>5, <1>7, <2>2, <3>1, <3>2 DEF DeviceInv
  <2> QED
    BY <1>5, <2>3, <2>4 DEF DataInv, PacketInv
<1> QED
  BY <1>11, <1>12

LEMMA DataInvStep == HostInv /\ DataInv /\ [Next]_vars => DataInv'
<1> SUFFICES ASSUME HostInv, DataInv, [Next]_vars
             PROVE  DataInv'
  OBVIOUS
<1>1. prog' = prog
  BY DEF Next, Host, Write, CpuRun, Issue, Synchronize, Check, Memset, Raise, waitForNonZero,
         Doing, CopyToDevice, CopyToHost, Launch, Thread, KernelThread, Place, Seen, Load, Store,
         Polls, Device, vars, given
<1>2. CASE prog \notin Checked
  BY <1>1, <1>2 DEF DataInv
<1>3. CASE prog \in Checked
  <2>1. /\ OrderInv /\ Shape /\ Pkt \subseteq Slot /\ Len(Ops) \in Nat /\ pc \in Nat \ {0}
        /\ part \in {"once", "loop", "last"}
        /\ part = "once" => Ops = body.once
        /\ part = "loop" => Ops = body.loop
        /\ part = "last" => Ops = body.last
    BY <1>3, DataFacts
  <2>2. ~Memset /\ ~Raise /\ ~waitForNonZero
    <3>1. ~AtEnd => Ops[pc] \in {"write", "cpu_run", "sync", "check"} \union Issues
      BY <2>1 DEF AtEnd, Shape, Straight
    <3> QED
      BY <3>1 DEF Memset, Raise, waitForNonZero, Doing, Issues
  <2>3. CASE Host
    BY <1>3, <2>2, <2>3, WriteData, CpuRunData, IssueData, SynchronizeData, CheckData DEF Host
  <2>4. CASE CopyToDevice
    BY <1>3, <2>4, CopyToDeviceData
  <2>5. CASE CopyToHost
    BY <1>3, <2>5, CopyToHostData
  <2>6. CASE \E i \in Pkt : KernelThread(i)
    BY <1>3, <2>6, KernelThreadData
  <2>7. ~Launch
    BY <1>3 DEF Launch, Checked, Copying, Polling
  <2>8. \A i \in Pkt : ~(Place(i) \/ Seen(i) \/ Load(i) \/ Store(i))
    BY <2>1 DEF OrderInv, Place, Seen, Load, Store, Polls
  <2>9. CASE UNCHANGED vars
    <3>1. /\ UNCHANGED <<given, place>>
          /\ UNCHANGED <<A, B, D, cpu, stream, ran, kernel>> /\ UNCHANGED <<part, pc, j>>
      BY <2>9 DEF vars, hostVars, devVars, place
    <3>2. OrderInv' /\ Ops' = Ops /\ AtEnd' = AtEnd /\ Finished' = Finished /\ Pkt' = Pkt
      BY <1>3, <2>1, <3>1, QuietLoop, GivenStill
    <3>3. ASSUME NEW i \in Pkt
          PROVE  PacketInv(i)'
      <4>1. PacketInv(i) /\ (DeviceInv(i) => DeviceInv(i)') /\ Result(A[i])' = Result(A[i])
        BY <1>3, <3>1, <3>2, DeviceStill, GivenStill DEF DataInv
      <4> QED
        BY <1>1, <3>1, <3>2, <4>1 DEF PacketInv
    <3> QED
      BY <3>2, <3>3 DEF DataInv
  <2> QED
    BY <2>3, <2>4, <2>5, <2>6, <2>7, <2>8, <2>9 DEF Next, Thread
<1> QED
  BY <1>2, <1>3

LEMMA DataInvInit == Init => DataInv
<1> SUFFICES ASSUME Init, prog \in Checked
             PROVE  OrderInv /\ \A i \in Pkt : PacketInv(i)
  BY DEF DataInv
<1>1. Placed /\ Shape
  BY HostInvInit, CheckedShape DEF HostInv
<1>2. /\ pc = 1 /\ j = 0 /\ stream = <<>> /\ ran = {}
      /\ part = IF body.once = <<>> THEN "loop" ELSE "once"
      /\ D = Fill(0) /\ B = Fill(0)
      /\ \E x : A = Fill(x)
      /\ \E x : cpu = Fill(x)
      /\ prog \in OnCpu => A = Fill(0) /\ cpu = Fill(0)
  BY DEF Init, OnCpu
<1>3. \A x : DOMAIN Fill(x) = Slot /\ \A i \in Slot : Fill(x)[i] = x
  BY DEF Fill, Slot
<1>4. Len(stream) = 0 /\ stream \in Seq(Issues)
  BY <1>2
<1>5. \A i \in Slot : kernel[i].at = "unlaunched"
  BY DEF Init, Slot
<1>6. OrderInv
  BY <1>2, <1>3, <1>4, <1>5 DEF OrderInv
<1>7. ASSUME NEW i \in Pkt
      PROVE  PacketInv(i)
  <2>1. i \in Nat /\ i \in Slot /\ ~(i < j)
    BY <1>1, <1>2, GpuAssumption DEF Placed, Pkt, Slot
  <2>2. CASE part = "once"
    <3>1. Ops = body.once /\ OnceShape(Ops, body.loop) /\ Len(Ops) \in Nat
      BY <1>1, <2>2, OpsSynced DEF Ops, Shape
    <3>2. ~AtEnd /\ Ops[1] = "cpu_run" => prog = "vectorAdd"
      BY <1>2, <3>1 DEF OnceShape, AtEnd
    <3> QED
      BY <1>2, <2>1, <2>2, <3>2 DEF PacketInv
  <2>3. CASE part = "loop"
    <3>1. Ops = body.loop /\ LoopShape(Ops) /\ Len(Ops) \in Nat \ {0}
      BY <1>1, <2>3 DEF Ops, Shape, LoopShape
    <3>2. ~AtEnd /\ 1 \in 1 .. Len(Ops)
      BY <1>2, <3>1 DEF AtEnd
    <3>3. CASE Ops[1] = "write"
      BY <1>2, <2>1, <3>2, <3>3 DEF PacketInv
    <3>4. CASE Ops[1] = "cpu_run"
      <4>1. prog \in OnCpu
        BY <3>1, <3>2, <3>4 DEF LoopShape
      <4>2. A[i] = cpu[i]
        BY <1>2, <1>3, <2>1, <4>1
      <4> QED
        BY <1>2, <2>1, <3>2, <3>4, <4>2 DEF PacketInv
    <3>5. CASE Ops[1] \notin {"write", "cpu_run"}
      <4>1. prog \in {"vectorAdd", "seqMem"}
        BY <3>1, <3>5 DEF LoopShape
      <4>2. Issued = Before /\ Before \in Nat
        <5>1. 1 .. pc-1 = {}
          BY <1>2
        <5> QED
          BY <2>3, <5>1 DEF Issued, Sent, Before
      <4>3. Finished = Before
        BY <1>4, <4>2 DEF Finished
      <4>4. prog = "vectorAdd" => Result(A[i]) = Goal(i)
        BY DEF Goal, GoalOf, OnCpu
      <4>5. DeviceInv(i)
        <5>1. CASE prog = "vectorAdd"
          <6>1. Finished = 0
            BY <4>3, <5>1 DEF Before
          <6> QED
            BY <4>4, <5>1, <6>1 DEF DeviceInv
        <5>2. CASE prog = "seqMem"
          <6>1. Finished = 1 /\ i \notin ran
            BY <1>2, <4>3, <5>2 DEF Before
          <6> QED
            BY <5>2, <6>1 DEF DeviceInv
        <5> QED
          BY <4>1, <5>1, <5>2
      <4> QED
        BY <1>2, <3>5, <4>5 DEF PacketInv
    <3> QED
      BY <3>3, <3>4, <3>5
  <2> QED
    BY <1>2, <2>2, <2>3
<1> QED
  BY <1>6, <1>7

(* In a copying program, what is finished of a round has brought every     *)
(* packet's result so far, and the host has prepared what is not issued.   *)
THEOREM DataInvariant == Spec => [](HostInv /\ PollInv /\ DataInv)
<1>1. Init => HostInv /\ PollInv /\ DataInv
  BY HostInvInit, PollInvInit, DataInvInit
<1>2. HostInv /\ PollInv /\ DataInv /\ [Next]_vars => (HostInv /\ PollInv /\ DataInv)'
  BY HostInvStep, PollInvStep, DataInvStep
<1> QED
  BY <1>1, <1>2, PTL DEF Spec

-----------------------------------------------------------------------------
(* What the host compares.                                                 *)

\* The memory vectorAdd's results on the CPU start from was not zero.
Uncleared == prog = "vectorAdd" /\ \E i \in Pkt : cpu[i] # Doubled(0, A[i])

\* A host that polls compares when every thread has stored its result.
LEMMA CheckPolling ==
  ASSUME HostInv, PollInv, prog \in Polling, Doing("check")
  PROVE  Actual = Expected
<1>1. FlagInv /\ Placed /\ ~AtEnd /\ Ops[pc] = "check" /\ \A i \in Pkt : ThreadInv(i)
  BY DEF PollInv, HostInv, Doing
<1>2. part = "loop" /\ pc = 5
  BY <1>1, PollingAdvance, PollingOps
<1>3. j \in Pkt /\ ~Waiting
  BY <1>1, <1>2, PollingFacts DEF Waiting
<1>4. B[j] = Result(A[j])
  BY <1>1, <1>2, <1>3 DEF ThreadInv
<1> QED
  BY <1>4 DEF Expected, Actual, Polling

\* A host that copies compares when the round is finished.
LEMMA CheckCopying ==
  ASSUME HostInv, DataInv, prog \in Checked, Doing("check")
  PROVE  Output(j) = Goal(j)
<1>1. ~AtEnd /\ Ops[pc] = "check"
  BY DEF Doing
<1>2. /\ OrderInv /\ Shape /\ j \in Pkt /\ pc \in Nat \ {0} /\ Len(Ops) \in Nat
      /\ part \in {"once", "loop", "last"} /\ PacketInv(j)
      /\ part = "once" => Ops = body.once
      /\ part = "loop" => Ops = body.loop
  BY DataFacts
<1>3. pc \in 1 .. Len(Ops) /\ stream = <<>> /\ Len(stream) = 0
  BY <1>1, <1>2, Prepares DEF AtEnd
<1>4. part # "once"
  BY <1>1, <1>2, <1>3 DEF Shape, OnceShape
<1>5. Issued = After
  BY <1>1, <1>2, <1>3, <1>4 DEF Issued, Shape, Straight
<1>6. Finished = IF prog = "unifiedMemory" THEN 2 ELSE 3
  BY <1>3, <1>5 DEF Finished, After
<1>7. DeviceInv(j)
  BY <1>1, <1>2, <1>4 DEF PacketInv
<1>8. CASE prog = "unifiedMemory"
  <2>1. Finished = 2
    BY <1>6, <1>8
  <2> QED
    BY <1>7, <1>8, <2>1 DEF DeviceInv, Output
<1>9. CASE prog # "unifiedMemory"
  <2>1. Finished = 3
    BY <1>6, <1>9
  <2> QED
    BY <1>7, <2>1 DEF DeviceInv
<1> QED
  BY <1>8, <1>9

\* memcpyTime with synchronous copies compares nothing.
LEMMA CheckNothing ==
  ASSUME HostInv, prog = "memcpyTime-synch"
  PROVE  ~Doing("check")
<1>1. /\ Placed /\ body = memcpyTime_synch /\ pc \in Nat \ {0} /\ Len(Ops) \in Nat
      /\ part \in {"once", "loop", "last"}
  BY OpsSynced DEF HostInv, Placed, Bodies
<1>2. /\ Len(body.once) = 5 /\ Len(body.loop) = 7 /\ Len(body.last) = 0
      /\ \A i \in 1..5 : body.once[i] # "check"
      /\ \A i \in 1..7 : body.loop[i] # "check"
  BY <1>1 DEF memcpyTime_synch, Body, Sync, Synchronous
<1>3. \A i \in 1 .. Len(Ops) : Ops[i] # "check"
  <2>1. CASE part = "once"
    BY <1>2, <2>1 DEF Ops
  <2>2. CASE part = "loop"
    BY <1>2, <2>2 DEF Ops
  <2>3. CASE part = "last"
    BY <1>2, <2>3 DEF Ops
  <2> QED
    BY <1>1, <2>1, <2>2, <2>3
<1> QED
  BY <1>1, <1>3 DEF Doing, AtEnd

LEMMA CheckSame ==
  ASSUME HostInv, PollInv, DataInv, Doing("check")
  PROVE  Same(Expected, Actual) \/ Uncleared
<1>1. prog \in Copying \union Polling
  BY GpuAssumption DEF HostInv, Placed
<1>2. CASE prog \in Polling
  BY <1>2, CheckPolling DEF Same, Polling
<1>3. CASE prog \in Checked
  <2>1. Output(j) = Goal(j) /\ j \in Pkt
    BY <1>3, CheckCopying, DataFacts
  <2>2. CASE prog = "vectorAdd"
    <3>1. B[j] = Result(A[j]) /\ Result(A[j]) = Doubled(0, A[j])
      BY <2>1, <2>2 DEF Output, Goal, GoalOf, OnCpu, Result
    <3>2. Expected = cpu[j] /\ Actual = B[j]
      BY <2>2 DEF Expected, Actual, Polling
    <3>3. CASE cpu[j] = Doubled(0, A[j])
      BY <2>2, <3>1, <3>2, <3>3 DEF Same
    <3>4. CASE cpu[j] # Doubled(0, A[j])
      BY <2>1, <2>2, <3>4 DEF Uncleared
    <3> QED
      BY <3>3, <3>4
  <2>3. CASE prog # "vectorAdd"
    <3>1. Expected = Goal(j)
      BY <1>3, <2>3 DEF Expected, Goal, GoalOf, OnCpu, Checked, Copying, Polling
    <3>2. Actual = Output(j)
      BY <1>3, <2>3 DEF Actual, Output, Checked, Copying, Polling
    <3> QED
      BY <2>1, <2>3, <3>1, <3>2 DEF Same
  <2> QED
    BY <2>2, <2>3
<1>4. CASE prog = "memcpyTime-synch"
  BY <1>4, CheckNothing
<1> QED
  BY <1>1, <1>2, <1>3, <1>4 DEF Checked

\* Nothing but a comparison finds that results differ, and the host stops then.
LEMMA OkStep ==
  ASSUME Next, ResultsVerified, ~Check
  PROVE  ResultsVerified'
<1>1. UNCHANGED ok
  BY DEF Next, Host, Write, CpuRun, Issue, Synchronize, Memset, Raise, waitForNonZero,
     CopyToDevice, CopyToHost, Device, Launch, Thread, KernelThread, Place, Seen, Load, Store, Polls
<1>2. CASE ok
  BY <1>1, <1>2 DEF ResultsVerified
<1>3. CASE ~ok
  <2>1. ~Host
    BY <1>3 DEF Host, Write, CpuRun, Issue, Synchronize, Check, Memset, Raise, waitForNonZero, Doing
  <2>2. UNCHANGED <<given, cpu>> /\ (prog = "vectorAdd" => A' = A)
    BY <2>1 DEF Next, CopyToDevice, CopyToHost, Device, Launch, Thread, KernelThread, Place,
       Seen, Load, Store, Polls
  <2>3. prog' = prog /\ Pkt' = Pkt
    BY <2>2 DEF given, Pkt
  <2> QED
    BY <1>1, <1>3, <2>2, <2>3 DEF ResultsVerified
<1> QED
  BY <1>2, <1>3

(* No comparison of a program of gpu/ with its own expectation fails, for  *)
(* any number of packets and rounds, but that of vectorAdd when the memory *)
(* its CPU results start from was not zero; seqMem adds up the sums of its *)
(* kernel.                                                                 *)
THEOREM ResultsKept == Spec => []ResultsVerified
<1>1. Init => ResultsVerified
  BY DEF Init, ResultsVerified
<1>2. HostInv /\ PollInv /\ DataInv /\ ResultsVerified /\ [Next]_vars => ResultsVerified'
  <2> SUFFICES ASSUME HostInv, PollInv, DataInv, ResultsVerified, [Next]_vars
               PROVE  ResultsVerified'
    OBVIOUS
  <2>1. CASE Check
    <3>1. /\ Doing("check") /\ UNCHANGED <<prog, num_pkts, A, cpu>>
          /\ ok' = Same(Expected, Actual)
      BY <2>1 DEF Check, Doing, given
    <3>2. ok' \/ Uncleared
      BY <3>1, CheckSame
    <3>3. Pkt' = Pkt
      BY <3>1 DEF Pkt
    <3> QED
      BY <3>1, <3>2, <3>3 DEF ResultsVerified, Uncleared
  <2>2. CASE Next /\ ~Check
    BY <2>2, OkStep
  <2>3. CASE UNCHANGED vars
    <3>1. UNCHANGED <<prog, num_pkts, A, cpu, ok>> /\ Pkt' = Pkt
      BY <2>3 DEF vars, given, hostVars, Pkt
    <3> QED
      BY <3>1 DEF ResultsVerified
  <2> QED
    BY <2>1, <2>2, <2>3
<1> QED
  BY <1>1, <1>2, DataInvariant, PTL DEF Spec
=============================================================================
