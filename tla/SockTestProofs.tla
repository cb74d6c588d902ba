-------------------------- MODULE SockTestProofs --------------------------
(***************************************************************************)
(* Proofs about SockTest, for any number of threads, descriptors and open  *)
(* files, every program of tools/, every socket family and every failing   *)
(* call.                                                                   *)
(*                                                                         *)
(* The inductive invariant says where each thread is in its script, which  *)
(* numbers the table, the variables and the threads inside calls share,    *)
(* and what has become of a number that was closed.  A step is first       *)
(* reduced to its effect on those variables (Effects): the state of the    *)
(* open files does not matter to them, and is treated by itself at the     *)
(* end.  What the scripts contribute is in SockScriptsProofs.              *)
(***************************************************************************)
EXTENDS SockScriptsProofs, FiniteSetTheorems, WellFoundedInduction

USE DEF Opening, AtOnce, Blocking, Names

----------------------------------------------------------------------------
\* Thread t was created and has a call left.
Live(t) == pc[t] > 0 /\ ~Ended(t)

\* The states of an open file.
FileStates ==
    [kind : {"tty", "pipe_r", "pipe_w", "pair", "sock"},
     peer : {NoFile} \cup Files,
     phase : {"fresh", "bound", "listening", "connected", "refused"},
     shut : BOOLEAN, nonblock : BOOLEAN, data : BOOLEAN,
     queue : Seq({NoFile} \cup Files)]

\* Types of the variables other than file.
TypeInv ==
    /\ program \in Programs
    /\ exit \in {"running", "returned", "error", "killed"}
    /\ pc \in [Threads -> Nat]
    /\ local \in [Threads -> [Names -> 0 .. Address]]
    /\ stale \in [Threads -> SUBSET Names]
    /\ fdtable \in [0 .. MaxFd -> {NoFile} \cup Files]
    /\ holds \in [Threads -> {NoFile} \cup Files]
    /\ reserved \in [Threads -> 0 .. Unset]

\* Where the threads are: a created one is within its script, a thread inside a
\* call is at a call that blocks, a thread exists once main is past its creation
\* and has ended once main is past its join.
ThreadInv ==
    /\ pc[Main] > 0
    /\ \A t \in Threads : pc[t] > 0 =>
         (t = Main \/ t \in DOMAIN P.threads) /\ pc[t] <= Len(Script(t)) + 1
    /\ \A t \in Threads : holds[t] # NoFile => Live(t) /\ Call(t).op \in Blocking
    /\ \A u \in DOMAIN P.threads :
         pc[u] > 0 <=> \E i \in 1 .. pc[Main] - 1 : Creates(P, i, u)
    /\ \A u \in DOMAIN P.threads, i \in 1 .. pc[Main] - 1 : Joins(P, i, u) => Ended(u)
    /\ exit = "returned" => Ended(Main)

\* The descriptor table: numbers set aside by accept() are free and differ, no two
\* numbers name one file, and the file that a thread is inside has no other number
\* than the one the thread entered it by.
TableInv ==
    /\ fdtable[0] = Tty
    /\ \A t \in Threads : reserved[t] # Unset =>
         /\ holds[t] # NoFile /\ Call(t).op = "accept"
         /\ reserved[t] \in 0 .. MaxFd /\ fdtable[reserved[t]] = NoFile
    /\ \A t, u \in Threads : reserved[t] = reserved[u] /\ reserved[t] # Unset => t = u
    /\ \A t \in Threads :
         holds[t] # NoFile /\ Call(t).op = "accept" => reserved[t] # Unset
    /\ \A n, m \in 0 .. MaxFd : fdtable[n] = fdtable[m] /\ fdtable[n] # NoFile => n = m
    /\ \A t \in Threads, n \in 0 .. MaxFd :
         holds[t] # NoFile /\ fdtable[n] = holds[t] => n = local[t][Call(t).on]

\* The variables: 0 comes only from the NULL argument of a thread that closes
\* nothing.
VariableInv ==
    /\ \A u \in Threads, v \in Names : local[u][v] = 0 =>
         /\ u # Main /\ v = "arg"
         /\ \A k \in DOMAIN P.threads[u] : P.threads[u][k].op # "close"
    /\ local[Main]["arg"] = Unset
    /\ \A u \in Threads : pc[u] = 0 => \A v \in Names : local[u][v] = Unset

\* What the shape of the program makes of the variables.
ClassInv ==
    /\ NeverCloses(P) => \A u \in Threads : stale[u] = {}
    /\ SocketsOnly(P) => local[Main]["fd2"] = Unset
    /\ Sequential(P) /\ OneNumber(P) =>
         \A u \in Threads, v \in Names : local[u][v] \in {local[Main]["fd"], Unset}

\* NoAstrayCall, made inductive: no number that a live thread holds in a variable
\* that was closed is open, nor set aside to be opened.
StaleInv ==
    \A t \in Threads : Live(t) => \A v \in stale[t] : local[t][v] \in 0 .. MaxFd =>
        fdtable[local[t][v]] = NoFile /\ local[t][v] \notin Range(reserved)

\* A number that was not closed since the variable was set is open.
NamedInv ==
    \A t \in Threads : \A v \in Names \ stale[t] : local[t][v] \in 0 .. MaxFd =>
        fdtable[local[t][v]] # NoFile

\* A close was made.
ClosedOne == \E u \in Threads : \E c \in 1 .. pc[u] - 1 : Script(u)[c].op = "close"

\* In the programs that close one descriptor under their threads, the close
\* makes every variable that holds the number stale.
CloseInv ==
    ClosesOne(P) =>
      /\ \A u \in Threads \ {Main} : pc[u] > 0 => local[u]["arg"] = local[Main]["fd"]
      /\ ClosedOne /\ local[Main]["fd"] \in 0 .. MaxFd =>
           \A u \in Threads, v \in Names : local[u][v] = local[Main]["fd"] => v \in stale[u]

\* The turns of do_pipe_pipe_pipe: at most the two ends of one pipe are open.
PipeInv ==
    program = "pipe_pipe_pipe" =>
      /\ exit = "running" \/ fault = "pipe"
      /\ pc[Main] \in 1 .. 4
      /\ \A n \in 1 .. MaxFd : fdtable[n] # NoFile =>
           \/ pc[Main] = 2 /\ n \in {local[Main]["fd"], local[Main]["fd2"]}
           \/ pc[Main] = 3 /\ n = local[Main]["fd2"]
      /\ \A t \in Threads : holds[t] = NoFile

\* Types of the rest.
FileInv ==
    /\ family \in Families \cup {"unix"}
    /\ file \in [Files -> FileStates]
    /\ remotes \in 0 .. MaxRemote

\* Main ended in an error at the call before its next one.
ErrorInv ==
    MustsFirst(P) /\ exit = "error" =>
        \E j \in DOMAIN P.main : pc[Main] = j + 1 /\ P.main[j].must

\* The inductive invariant.
Inv ==
    TypeInv /\ ThreadInv /\ TableInv /\ VariableInv /\ ClassInv /\ StaleInv /\ NamedInv
      /\ CloseInv

----------------------------------------------------------------------------
\* What a step of thread t does to the variables that Inv speaks of.
Runs(t) == exit = "running" /\ Live(t)

\* The call of t returns, and when it failed and had to succeed the program ends.
Returns(t) ==
    /\ pc' = [pc EXCEPT ![t] = @ + 1]
    /\ holds' = [holds EXCEPT ![t] = NoFile]
    /\ reserved' = [reserved EXCEPT ![t] = Unset]
    /\ \/ exit' = exit
       \/ Call(t).must /\ exit' = "error"
    /\ program' = program /\ fault' = fault

\* No thread moves: the process ends, or something happens outside it.
Stops ==
    /\ UNCHANGED <<program, fault, pc, local, stale, fdtable, holds, reserved>>
    /\ \/ exit' = exit
       \/ exit' = "killed" /\ \E t \in Threads : Runs(t) /\ Call(t).op = "write"
       \/ exit' = "returned" /\ Ended(Main)

\* A call that opens and closes nothing returns.
Passes(t) ==
    /\ Runs(t)
    /\ Call(t).op \notin Opening \cup {"close", "create", "goto"}
    /\ Call(t).op = "join" => Ended(Call(t).num)
    /\ Returns(t)
    /\ UNCHANGED <<local, stale, fdtable>>

\* t enters a call that blocks.
Enters(t) ==
    /\ Runs(t) /\ holds[t] = NoFile /\ Call(t).op \in Blocking
    /\ Named(t) # NoFile
    /\ holds' = [holds EXCEPT ![t] = Named(t)]
    /\ \/ Call(t).op # "accept" /\ reserved' = reserved
       \/ /\ Call(t).op = "accept"
          /\ \E n \in FreeNumbers : reserved' = [reserved EXCEPT ![t] = n]
    /\ UNCHANGED <<program, fault, exit, pc, local, stale, fdtable>>

\* read() returned 0, and the loop of main reads again.
Drops(t) ==
    /\ Runs(t) /\ holds[t] # NoFile /\ Call(t).op = "read_until"
    /\ holds' = [holds EXCEPT ![t] = NoFile]
    /\ UNCHANGED <<program, fault, exit, pc, local, stale, fdtable, reserved>>

\* The files that no number and no thread holds.
Unheld == {f \in Files : f \notin Range(fdtable) \cup Range(holds)}

\* socket() succeeds.
OpensOne(t) ==
    /\ Runs(t) /\ holds[t] = NoFile /\ Call(t).op = "socket"
    /\ Returns(t) /\ exit' = exit
    /\ \E n \in FreeNumbers, f \in Unheld :
         /\ fdtable' = [fdtable EXCEPT ![n] = f]
         /\ local' = [local EXCEPT ![t][Call(t).on] = n]
         /\ stale' = [stale EXCEPT ![t] = @ \ {Call(t).on}]

\* pipe() or socketpair() succeeds.
OpensTwo(t) ==
    /\ Runs(t) /\ holds[t] = NoFile /\ Call(t).op \in {"pipe", "pair"}
    /\ Returns(t) /\ exit' = exit
    /\ \E n0, n1 \in FreeNumbers, f0, f1 \in Unheld :
         /\ n0 # n1 /\ f0 # f1
         /\ fdtable' = [fdtable EXCEPT ![n0] = f0, ![n1] = f1]
         /\ local' = [local EXCEPT ![t]["fd"] = n0, ![t]["fd2"] = n1]
         /\ stale' = [stale EXCEPT ![t] = @ \ {"fd", "fd2"}]

\* socket(), pipe() or socketpair() fails.
FailsToOpen(t) ==
    /\ Runs(t) /\ holds[t] = NoFile /\ Call(t).op \in Opening
    /\ Call(t).op = "pipe" => fault = "pipe" \/ Cardinality(FreeNumbers) < 2
    /\ Returns(t)
    /\ LET names == IF Call(t).op = "socket" THEN {Call(t).on} ELSE {"fd", "fd2"}
       IN  /\ local' = [local EXCEPT ![t] =
                           [v \in Names |-> IF v \in names THEN Unset ELSE @[v]]]
           /\ stale' = [stale EXCEPT ![t] = @ \ names]
    /\ fdtable' = fdtable

\* close()
Closes(t) ==
    /\ Runs(t) /\ holds[t] = NoFile /\ Call(t).op = "close"
    /\ Returns(t)
    /\ fdtable' = [n \in 0 .. MaxFd |-> IF n = local[t][Call(t).on] THEN NoFile ELSE fdtable[n]]
    /\ stale' = [u \in Threads |->
                   stale[u] \cup {v \in Names : local[u][v] = local[t][Call(t).on]}]
    /\ local' = local

\* accept() returns a connection under the number that was set aside.
Accepts(t) ==
    /\ Runs(t) /\ holds[t] # NoFile /\ Call(t).op = "accept"
    /\ Returns(t)
    /\ \E f \in Unheld : fdtable' = [fdtable EXCEPT ![reserved[t]] = f]
    /\ UNCHANGED <<local, stale>>

\* pthread_create()
Spawns(t) ==
    /\ Runs(t) /\ holds[t] = NoFile /\ Call(t).op = "create"
    /\ LET u == Call(t).num
           v == Call(t).on
       IN  /\ pc' = [pc EXCEPT ![t] = @ + 1, ![u] = 1]
           /\ local' = [local EXCEPT ![u]["arg"] = ValueOf(t, v)]
           /\ stale' = [stale EXCEPT ![u] = IF v \in stale[t] THEN {"arg"} ELSE {}]
    /\ UNCHANGED <<program, fault, exit, fdtable, holds, reserved>>

\* The end of a turn of a loop.
Jumps(t) ==
    /\ Runs(t) /\ holds[t] = NoFile /\ Call(t).op = "goto"
    /\ pc' = [pc EXCEPT ![t] = Call(t).num]
    /\ UNCHANGED <<program, fault, exit, local, stale, fdtable, holds, reserved>>

Effect(t) ==
    Passes(t) \/ Enters(t) \/ Drops(t) \/ OpensOne(t) \/ OpensTwo(t) \/ FailsToOpen(t)
      \/ Closes(t) \/ Accepts(t) \/ Spawns(t) \/ Jumps(t)

----------------------------------------------------------------------------
\* The least element of a set of numbers.
LessThan == {ss \in Nat \X Nat : ss[1] < ss[2]}

\* The lowest number of a set is one of it.
LEMMA LowestIn ==
    ASSUME NEW S \in SUBSET Nat, S # {}
    PROVE  Lowest(S) \in S
<1>0. IsWellFoundedOn(LessThan, Nat)
  BY NatLessThanWellFounded DEF OpToRel, LessThan
<1>1. PICK x \in S : \A y \in S : ~(<<y, x>> \in LessThan)
  BY <1>0, WFMin
<1>2. \A y \in S : ~(y < x)
  BY <1>1 DEF LessThan
<1>3. \A y \in S : x <= y
  BY <1>2
<1> QED
  BY <1>3 DEF Lowest

\* pipe() and socketpair() take two different numbers, and two different files.
LEMMA LowestTwo ==
    ASSUME NEW S \in SUBSET Nat, Cardinality(S) >= 2
    PROVE  /\ Lowest(S) \in S
           /\ Lowest(S \ {Lowest(S)}) \in S
           /\ Lowest(S \ {Lowest(S)}) # Lowest(S)
<1>1. ASSUME NEW x \in S
      PROVE  S # {x}
  <2>1. Cardinality({x}) = 1
    BY FS_Singleton
  <2> QED
    BY <2>1
<1>2. S # {}
  BY FS_EmptySet
<1>3. Lowest(S) \in S
  BY <1>2, LowestIn
<1>4. S \ {Lowest(S)} # {}
  BY <1>1, <1>3
<1>5. Lowest(S \ {Lowest(S)}) \in S \ {Lowest(S)}
  BY <1>4, LowestIn
<1> QED
  BY <1>3, <1>5

\* Numbers, files and threads.
LEMMA Domains ==
    /\ MaxFd \in Nat /\ Unset = MaxFd + 1 /\ Address = MaxFd + 2
    /\ Unset \notin 0 .. MaxFd /\ Address \notin 0 .. MaxFd
    /\ NoFile \notin Files /\ Tty \in Files /\ Tty # NoFile
    /\ Main \in Threads /\ Threads \subseteq Nat
    /\ \A u \in 1 .. Many : u \in Threads /\ u # Main
    /\ Files \subseteq Nat
  BY BoundsAssumption, ManyAssumption DEF Unset, Address, NoFile, Files, Tty, Main, Threads

\* A free number is not open and not set aside; a free file is held by nobody.
LEMMA FreeFacts ==
    ASSUME TypeInv
    PROVE  /\ FreeNumbers \subseteq 0 .. MaxFd /\ FreeNumbers \in SUBSET Nat
           /\ FreeFiles \in SUBSET Nat
           /\ \A n \in FreeNumbers : fdtable[n] = NoFile /\ \A t \in Threads : reserved[t] # n
           /\ FreeFiles \subseteq Unheld
           /\ \A f \in Unheld : /\ f \in Files /\ f # NoFile
                                /\ \A n \in 0 .. MaxFd : fdtable[n] # f
                                /\ \A t \in Threads : holds[t] # f
<1>1. DOMAIN fdtable = 0 .. MaxFd /\ DOMAIN reserved = Threads /\ DOMAIN holds = Threads
  BY DEF TypeInv
<1>2. /\ FreeNumbers \subseteq 0 .. MaxFd
      /\ \A n \in FreeNumbers : fdtable[n] = NoFile /\ \A t \in Threads : reserved[t] # n
  BY <1>1 DEF FreeNumbers, Range
<1>3. FreeFiles \subseteq Unheld /\ FreeFiles \subseteq Files
  BY DEF FreeFiles, Unheld, Alive, InUse
<1>4. ASSUME NEW f \in Unheld
      PROVE  /\ f \in Files /\ f # NoFile
             /\ \A n \in 0 .. MaxFd : fdtable[n] # f
             /\ \A t \in Threads : holds[t] # f
  BY <1>1, Domains DEF Unheld, Range
<1>5. FreeNumbers \in SUBSET Nat /\ FreeFiles \in SUBSET Nat
  BY <1>2, <1>3, Domains
<1> QED
  BY <1>2, <1>3, <1>4, <1>5

\* The program that runs has the shape of all programs.
LEMMA GoodProgram == ASSUME TypeInv PROVE Good(P)
  BY ProgramsAssumption, AllGood DEF TypeInv, P

\* What the next call of a live thread can be.
LEMMA LiveCalls ==
    ASSUME TypeInv, ThreadInv, NEW t \in Threads, Live(t)
    PROVE  /\ pc[t] \in DOMAIN Script(t) /\ pc[t] \in Nat /\ Call(t) = Script(t)[pc[t]]
           /\ pc[t] + 1 <= Len(Script(t)) + 1
           /\ t = Main => Script(t) = P.main /\ MainCall(P, Call(t))
           /\ t # Main => t \in DOMAIN P.threads /\ Script(t) = P.threads[t]
              /\ ThreadCall(Call(t))
<1>1. Typed(P)
  BY GoodProgram DEF Good
<1>2. /\ t = Main => Script(t) = P.main
      /\ t # Main => t \in DOMAIN P.threads /\ Script(t) = P.threads[t]
  BY DEF Script, P, ThreadInv, Live
<1>3. IsScript(Script(t)) /\ (t # Main => \A i \in DOMAIN Script(t) : ThreadCall(Script(t)[i]))
  BY <1>1, <1>2 DEF Typed
<1>4. pc[t] \in Nat /\ pc[t] > 0 /\ pc[t] <= Len(Script(t))
  BY <1>3 DEF TypeInv, Live, Ended, IsScript
<1>5. pc[t] \in DOMAIN Script(t) /\ pc[t] + 1 <= Len(Script(t)) + 1
  BY <1>3, <1>4 DEF IsScript
<1>6. t = Main => MainCall(P, Script(t)[pc[t]])
  BY <1>1, <1>2, <1>5 DEF Typed
<1> QED
  BY <1>2, <1>3, <1>4, <1>5, <1>6 DEF Call

\* A thread that is at a call runs it, and so does one that is inside.
LEMMA AtRuns ==
    ASSUME NEW t \in Threads, NEW op, At(t, op)
    PROVE  Runs(t) /\ holds[t] = NoFile /\ Call(t).op = op
  BY DEF At, Runs, Live, Call

LEMMA InsideRuns ==
    ASSUME ThreadInv, NEW t \in Threads, NEW op, Inside(t, op)
    PROVE  Runs(t) /\ holds[t] # NoFile /\ Call(t).op = op
  BY DEF Inside, Runs, ThreadInv

LEMMA ReturnReturns ==
    ASSUME NEW t \in Threads, NEW failed, Return(t, failed)
    PROVE  Returns(t)
  BY DEF Return, Returns

\* Every step of SockTest has one of the effects above.
LEMMA Effects ==
    ASSUME TypeInv, ThreadInv, TableInv, [Next]_vars
    PROVE  Stops \/ \E t \in Threads : Effect(t)
<1>1. ASSUME NEW t \in Threads, Step(t)
      PROVE  Stops \/ Effect(t)
  <2>1. CASE Socket(t)
    <3>1. Runs(t) /\ holds[t] = NoFile /\ Call(t).op = "socket"
      BY <2>1, AtRuns DEF Socket
    <3>2. CASE OpenFails(t, {Call(t).on})
      <4>1. FailsToOpen(t)
        BY <3>1, <3>2, ReturnReturns DEF OpenFails, FailsToOpen
      <4> QED
        BY <4>1 DEF Effect
    <3>3. CASE ~OpenFails(t, {Call(t).on})
      <4> DEFINE n == Lowest(FreeNumbers)
                 f == Lowest(FreeFiles)
      <4>1. /\ FreeNumbers # {} /\ FreeFiles # {}
            /\ fdtable' = [fdtable EXCEPT ![n] = f]
            /\ local' = [local EXCEPT ![t][Call(t).on] = n]
            /\ stale' = [stale EXCEPT ![t] = @ \ {Call(t).on}]
            /\ Return(t, FALSE)
        BY <2>1, <3>3 DEF Socket
      <4>2. n \in FreeNumbers /\ f \in Unheld
        <5>1. FreeNumbers \in SUBSET Nat /\ FreeFiles \in SUBSET Nat
              /\ FreeFiles \subseteq Unheld
          BY FreeFacts
        <5> QED
          BY <4>1, <5>1, LowestIn
      <4> HIDE DEF n, f
      <4>3. OpensOne(t)
        BY <3>1, <4>1, <4>2, ReturnReturns DEF OpensOne, Return
      <4> QED
        BY <4>3 DEF Effect
    <3> QED
      BY <3>2, <3>3
  <2>2. ASSUME NEW op \in {"pipe", "pair"}, NEW kind0, NEW kind1, Pipe(t, op, kind0, kind1)
        PROVE  Effect(t)
    <3>1. Runs(t) /\ holds[t] = NoFile /\ Call(t).op = op
      BY <2>2, AtRuns DEF Pipe
    <3>2. CASE (fault = "pipe" \/ Cardinality(FreeNumbers) < 2) /\ OpenFails(t, {"fd", "fd2"})
      <4>1. FailsToOpen(t)
        BY <3>1, <3>2, ReturnReturns DEF OpenFails, FailsToOpen
      <4> QED
        BY <4>1 DEF Effect
    <3>3. CASE ~((fault = "pipe" \/ Cardinality(FreeNumbers) < 2)
          /\ OpenFails(t, {"fd", "fd2"}))
      <4> DEFINE n0 == Lowest(FreeNumbers)
                 n1 == Lowest(FreeNumbers \ {n0})
                 f0 == Lowest(FreeFiles)
                 f1 == Lowest(FreeFiles \ {f0})
      <4>1. /\ Cardinality(FreeNumbers) >= 2 /\ Cardinality(FreeFiles) >= 2
            /\ fdtable' = [fdtable EXCEPT ![n0] = f0, ![n1] = f1]
            /\ local' = [local EXCEPT ![t]["fd"] = n0, ![t]["fd2"] = n1]
            /\ stale' = [stale EXCEPT ![t] = @ \ {"fd", "fd2"}]
            /\ Return(t, FALSE)
        BY <2>2, <3>3 DEF Pipe
      <4>2. FreeNumbers \in SUBSET Nat /\ FreeFiles \in SUBSET Nat /\ FreeFiles \subseteq Unheld
        BY FreeFacts
      <4>4. n0 \in FreeNumbers /\ n1 \in FreeNumbers /\ n0 # n1
        BY <4>1, <4>2, LowestTwo
      <4>5. f0 \in Unheld /\ f1 \in Unheld /\ f0 # f1
        BY <4>1, <4>2, LowestTwo
      <4> HIDE DEF n0, n1, f0, f1
      <4>6. OpensTwo(t)
        BY <3>1, <4>1, <4>4, <4>5, ReturnReturns DEF OpensTwo, Return
      <4> QED
        BY <4>6 DEF Effect
    <3> QED
      BY <3>2, <3>3
  <2>3. ASSUME NEW op \in {"bind", "listen", "nonblock", "shutdown", "poll", "pollin", "read",
                           "read_until", "accept", "connect", "write", "join"},
               Runs(t), Call(t).op = op, NEW failed, Return(t, failed),
               UNCHANGED <<local, stale, fdtable>>, op = "join" => Ended(Call(t).num)
        PROVE  Effect(t)
    <3>1. Returns(t)
      BY <2>3, ReturnReturns
    <3>2. Passes(t)
      BY <2>3, <3>1 DEF Passes
    <3> QED
      BY <3>2 DEF Effect
  <2>4. CASE Bind(t)
    <3>1. Runs(t) /\ Call(t).op = "bind"
      BY <2>4, AtRuns DEF Bind, SetPhase
    <3>2. \E failed : Return(t, failed) /\ UNCHANGED <<local, stale, fdtable>>
      BY <2>4 DEF Bind, SetPhase, OnFile, Untouched
    <3> QED
      BY <2>3, <3>1, <3>2
  <2>5. CASE Listen(t)
    <3>1. Runs(t) /\ Call(t).op = "listen"
      BY <2>5, AtRuns DEF Listen, SetPhase
    <3>2. \E failed : Return(t, failed) /\ UNCHANGED <<local, stale, fdtable>>
      BY <2>5 DEF Listen, SetPhase, OnFile, Untouched
    <3> QED
      BY <2>3, <3>1, <3>2
  <2>6. CASE SetNonblock(t)
    <3>1. Runs(t) /\ Call(t).op = "nonblock"
      BY <2>6, AtRuns DEF SetNonblock
    <3>2. \E failed : Return(t, failed) /\ UNCHANGED <<local, stale, fdtable>>
      BY <2>6 DEF SetNonblock, OnFile, Untouched
    <3> QED
      BY <2>3, <3>1, <3>2
  <2>7. CASE Shutdown(t)
    <3>1. Runs(t) /\ Call(t).op = "shutdown"
      BY <2>7, AtRuns DEF Shutdown
    <3>2. \E failed : Return(t, failed) /\ UNCHANGED <<local, stale, fdtable>>
      BY <2>7 DEF Shutdown, Untouched
    <3> QED
      BY <2>3, <3>1, <3>2
  <2>8. CASE Write(t)
    <3>1. Runs(t) /\ Call(t).op = "write" /\ UNCHANGED <<local, stale, fdtable>>
      BY <2>8, AtRuns DEF Write, Untouched
    <3>2. CASE \E failed : Return(t, failed)
      BY <2>3, <3>1, <3>2
    <3>3. CASE exit' = "killed"
          /\ UNCHANGED <<program, family, fault, pc, holds, reserved, file>>
      BY <3>1, <3>3 DEF Stops
    <3> QED
      BY <2>8, <3>2, <3>3 DEF Write
  <2>9. CASE Close(t)
    <3>1. Runs(t) /\ holds[t] = NoFile /\ Call(t).op = "close"
      BY <2>9, AtRuns DEF Close
    <3> DEFINE n == local[t][Call(t).on]
    <3>2. /\ Returns(t)
          /\ fdtable' = IF n \in DOMAIN fdtable THEN [fdtable EXCEPT ![n] = NoFile] ELSE fdtable
          /\ stale' = [u \in Threads |-> stale[u] \cup {v \in Names : local[u][v] = n}]
          /\ local' = local
      BY <2>9, ReturnReturns DEF Close
    <3> HIDE DEF n
    <3>3. fdtable' = [m \in 0 .. MaxFd |-> IF m = n THEN NoFile ELSE fdtable[m]]
      BY <3>2 DEF TypeInv
    <3>4. Closes(t)
      BY <3>1, <3>2, <3>3 DEF Closes, n
    <3> QED
      BY <3>4 DEF Effect
  <2>10. CASE Enter(t)
    <3>1. Runs(t) /\ holds[t] = NoFile /\ Call(t).op \in Blocking
      BY <2>10, AtRuns DEF Enter
    <3>2. UNCHANGED <<local, stale, fdtable>>
      BY <2>10 DEF Enter, Untouched
    <3>3. CASE Return(t, TRUE)
      BY <2>3, <3>1, <3>2, <3>3
    <3>4. CASE ~Return(t, TRUE)
      <4>1. /\ Named(t) # NoFile
            /\ Call(t).op = "accept" => FreeNumbers # {}
            /\ holds' = [holds EXCEPT ![t] = Named(t)]
            /\ reserved' = [reserved EXCEPT ![t] =
                              IF Call(t).op = "accept" THEN Lowest(FreeNumbers) ELSE @]
            /\ UNCHANGED <<program, family, fault, exit, pc>>
        BY <2>10, <3>4 DEF Enter
      <4>2. Call(t).op = "accept" => Lowest(FreeNumbers) \in FreeNumbers
        <5>1. FreeNumbers \in SUBSET Nat
          BY FreeFacts, Domains
        <5> QED
          BY <4>1, <5>1, LowestIn
      <4>3. Call(t).op # "accept" => reserved' = reserved
        BY <4>1 DEF TypeInv
      <4>4. Enters(t)
        BY <3>1, <3>2, <4>1, <4>2, <4>3 DEF Enters
      <4> QED
        BY <4>4 DEF Effect
    <3> QED
      BY <3>3, <3>4
  <2>11. ASSUME NEW op \in {"poll", "pollin"}, PollReturns(t, op)
         PROVE  Effect(t)
    <3>1. Runs(t) /\ Call(t).op = op
      BY <2>11, InsideRuns DEF PollReturns
    <3>2. Return(t, FALSE) /\ UNCHANGED <<local, stale, fdtable>>
      BY <2>11 DEF PollReturns, Untouched
    <3> QED
      BY <2>3, <3>1, <3>2
  <2>12. CASE ReadReturns(t)
    <3>1. Runs(t) /\ Call(t).op = "read"
      BY <2>12, InsideRuns DEF ReadReturns
    <3>2. Return(t, FALSE) /\ UNCHANGED <<local, stale, fdtable>>
      BY <2>12 DEF ReadReturns, Untouched
    <3> QED
      BY <2>3, <3>1, <3>2
  <2>13. CASE ReadUntilReturns(t)
    <3>1. Runs(t) /\ holds[t] # NoFile /\ Call(t).op = "read_until"
      BY <2>13, InsideRuns DEF ReadUntilReturns
    <3>2. UNCHANGED <<local, stale, fdtable>>
      BY <2>13 DEF ReadUntilReturns, Untouched
    <3>3. CASE Return(t, FALSE)
      BY <2>3, <3>1, <3>2, <3>3
    <3>4. CASE /\ holds' = [holds EXCEPT ![t] = NoFile]
               /\ UNCHANGED <<program, family, fault, exit, pc, reserved, file>>
      <4>1. Drops(t)
        BY <3>1, <3>2, <3>4 DEF Drops
      <4> QED
        BY <4>1 DEF Effect
    <3> QED
      BY <2>13, <3>3, <3>4 DEF ReadUntilReturns
  <2>14. CASE AcceptReturns(t)
    <3>1. Runs(t) /\ holds[t] # NoFile /\ Call(t).op = "accept"
      BY <2>14, InsideRuns DEF AcceptReturns
    <3>2. UNCHANGED <<local, stale>>
      BY <2>14 DEF AcceptReturns
    <3>3. CASE Return(t, TRUE) /\ UNCHANGED fdtable
      BY <2>3, <3>1, <3>2, <3>3
    <3>4. CASE /\ FreeFiles # {} /\ Return(t, FALSE)
               /\ fdtable' = [fdtable EXCEPT ![reserved[t]] = Lowest(FreeFiles)]
      <4>1. Lowest(FreeFiles) \in Unheld
        <5>1. FreeFiles \in SUBSET Nat /\ FreeFiles \subseteq Unheld
          BY FreeFacts
        <5> QED
          BY <3>4, <5>1, LowestIn
      <4>2. Accepts(t)
        BY <3>1, <3>2, <3>4, <4>1, ReturnReturns DEF Accepts
      <4> QED
        BY <4>2 DEF Effect
    <3> QED
      BY <2>14, <3>3, <3>4 DEF AcceptReturns
  <2>15. CASE ConnectReturns(t)
    <3>1. Runs(t) /\ Call(t).op = "connect"
      BY <2>15, InsideRuns DEF ConnectReturns
    <3>2. \E failed : Return(t, failed) /\ UNCHANGED <<local, stale, fdtable>>
      BY <2>15 DEF ConnectReturns, Untouched
    <3> QED
      BY <2>3, <3>1, <3>2
  <2>16. CASE CreateThread(t)
    <3>1. Spawns(t)
      BY <2>16, AtRuns DEF CreateThread, Spawns
    <3> QED
      BY <3>1 DEF Effect
  <2>17. CASE JoinThread(t)
    <3>1. Runs(t) /\ Call(t).op = "join"
      BY <2>17, AtRuns DEF JoinThread
    <3>2. Return(t, FALSE) /\ UNCHANGED <<local, stale, fdtable>> /\ Ended(Call(t).num)
      BY <2>17 DEF JoinThread, Untouched
    <3> QED
      BY <2>3, <3>1, <3>2
  <2>18. CASE JumpBack(t)
    <3>1. Jumps(t)
      BY <2>18, AtRuns DEF JumpBack, Jumps, Untouched
    <3> QED
      BY <3>1 DEF Effect
  <2> QED
    BY <1>1, <2>1, <2>2, <2>4, <2>5, <2>6, <2>7, <2>8, <2>9, <2>10, <2>11, <2>12, <2>13, <2>14,
       <2>15, <2>16, <2>17, <2>18 DEF Step
<1>2. CASE MainReturns
  BY <1>2 DEF MainReturns, Stops
<1>3. CASE RemoteConnects \/ RemoteAnswers \/ RemoteActs
  BY <1>3 DEF RemoteConnects, RemoteAnswers, RemoteActs, Stops
<1>4. CASE UNCHANGED vars
  BY <1>4 DEF vars, Stops
<1> QED
  BY <1>1, <1>2, <1>3, <1>4 DEF Next

----------------------------------------------------------------------------
\* Every step preserves the types.
LEMMA TypePreserved ==
    ASSUME TypeInv, ThreadInv, VariableInv, NEW t \in Threads, Effect(t)
    PROVE  TypeInv'
<1>1. pc[t] \in Nat /\ Unset \in 0 .. Unset /\ Unset \in 0 .. Address
      /\ 0 .. MaxFd \subseteq 0 .. Unset
      /\ 0 .. MaxFd \subseteq 0 .. Address
  BY Domains DEF TypeInv
<1>2. ASSUME Returns(t)
      PROVE  /\ program' \in Programs /\ exit' \in {"running", "returned", "error", "killed"}
             /\ pc' \in [Threads -> Nat] /\ holds' \in [Threads -> {NoFile} \cup Files]
             /\ reserved' \in [Threads -> 0 .. Unset]
  BY <1>1, <1>2 DEF Returns, TypeInv
<1>3. CASE Passes(t)
  BY <1>2, <1>3 DEF Passes, TypeInv
<1>4. CASE Enters(t)
  <2>1. Named(t) \in {NoFile} \cup Files
    BY DEF Named, TypeInv
  <2>2. holds' \in [Threads -> {NoFile} \cup Files]
    BY <1>4, <2>1 DEF Enters, TypeInv
  <2>3. reserved' \in [Threads -> 0 .. Unset]
    BY <1>1, <1>4, FreeFacts DEF Enters, TypeInv
  <2> QED
    BY <1>4, <2>2, <2>3 DEF Enters, TypeInv
<1>5. CASE Drops(t)
  BY <1>5 DEF Drops, TypeInv
<1>6. ASSUME Runs(t), Call(t).op \in Opening
      PROVE  Call(t).on \in Names /\ (t = Main => Call(t).on # "arg")
  BY <1>6, LiveCalls DEF Runs, MainCall, ThreadCall
<1>7. CASE OpensOne(t)
  <2>1. PICK n \in FreeNumbers, f \in Unheld :
         /\ fdtable' = [fdtable EXCEPT ![n] = f]
         /\ local' = [local EXCEPT ![t][Call(t).on] = n]
         /\ stale' = [stale EXCEPT ![t] = @ \ {Call(t).on}]
    BY <1>7 DEF OpensOne
  <2>2. n \in 0 .. MaxFd /\ f \in Files
    BY FreeFacts
  <2>3. fdtable' \in [0 .. MaxFd -> {NoFile} \cup Files]
    BY <2>1, <2>2 DEF TypeInv
  <2>4. local' \in [Threads -> [Names -> 0 .. Address]]
    BY <1>1, <2>1, <2>2 DEF TypeInv
  <2>5. stale' \in [Threads -> SUBSET Names]
    BY <2>1 DEF TypeInv
  <2> QED
    BY <1>2, <1>7, <2>3, <2>4, <2>5 DEF OpensOne, TypeInv
<1>8. CASE OpensTwo(t)
  <2>1. PICK n0, n1 \in FreeNumbers, f0, f1 \in Unheld :
         /\ n0 # n1 /\ f0 # f1
         /\ fdtable' = [fdtable EXCEPT ![n0] = f0, ![n1] = f1]
         /\ local' = [local EXCEPT ![t]["fd"] = n0, ![t]["fd2"] = n1]
         /\ stale' = [stale EXCEPT ![t] = @ \ {"fd", "fd2"}]
    BY <1>8 DEF OpensTwo
  <2>2. n0 \in 0 .. MaxFd /\ f0 \in Files /\ n1 \in 0 .. MaxFd /\ f1 \in Files
    BY FreeFacts
  <2>3. fdtable' \in [0 .. MaxFd -> {NoFile} \cup Files]
    BY <2>1, <2>2 DEF TypeInv
  <2>4. local' \in [Threads -> [Names -> 0 .. Address]]
    <3>1. [local EXCEPT ![t]["fd"] = n0] \in [Threads -> [Names -> 0 .. Address]]
      BY <1>1, <2>2 DEF TypeInv
    <3> QED
      BY <1>1, <2>1, <2>2, <3>1
  <2>5. stale' \in [Threads -> SUBSET Names]
    BY <2>1 DEF TypeInv
  <2> QED
    BY <1>2, <1>8, <2>3, <2>4, <2>5 DEF OpensTwo, TypeInv
<1>9. CASE FailsToOpen(t)
  <2> DEFINE names == IF Call(t).op = "socket" THEN {Call(t).on} ELSE {"fd", "fd2"}
  <2>1. /\ local' = [local EXCEPT ![t] = [v \in Names |-> IF v \in names THEN Unset ELSE @[v]]]
        /\ stale' = [stale EXCEPT ![t] = @ \ names]
        /\ fdtable' = fdtable
    BY <1>9 DEF FailsToOpen
  <2> HIDE DEF names
  <2>2. local' \in [Threads -> [Names -> 0 .. Address]]
    BY <1>1, <2>1 DEF TypeInv
  <2>3. stale' \in [Threads -> SUBSET Names]
    BY <2>1 DEF TypeInv
  <2> QED
    BY <1>2, <1>9, <2>1, <2>2, <2>3 DEF FailsToOpen, TypeInv
<1>10. CASE Closes(t)
  <2>1. fdtable' \in [0 .. MaxFd -> {NoFile} \cup Files]
    BY <1>10 DEF Closes, TypeInv
  <2>2. stale' \in [Threads -> SUBSET Names]
    BY <1>10 DEF Closes, TypeInv
  <2> QED
    BY <1>2, <1>10, <2>1, <2>2 DEF Closes, TypeInv
<1>11. CASE Accepts(t)
  <2>1. fdtable' \in [0 .. MaxFd -> {NoFile} \cup Files]
    BY <1>11, FreeFacts DEF Accepts, TypeInv
  <2> QED
    BY <1>2, <1>11, <2>1 DEF Accepts, TypeInv
<1>12. CASE Spawns(t)
  <2> DEFINE u == Call(t).num
             v == Call(t).on
  <2>1. v \in {"fd", "fd2", "NULL", "&fd2"} /\ u \in Threads
    BY <1>12, LiveCalls, GoodProgram, Domains
       DEF Spawns, Runs, MainCall, ThreadCall, Good, Typed
  <2>3. /\ pc' = [pc EXCEPT ![t] = @ + 1, ![u] = 1]
        /\ local' = [local EXCEPT ![u]["arg"] = ValueOf(t, v)]
        /\ stale' = [stale EXCEPT ![u] = IF v \in stale[t] THEN {"arg"} ELSE {}]
    BY <1>12 DEF Spawns
  <2> HIDE DEF u, v
  <2>2. ValueOf(t, v) \in 0 .. Address
    <3>1. 0 \in 0 .. Address /\ Address \in 0 .. Address
      BY Domains
    <3>2. local[t]["fd"] \in 0 .. Address /\ local[t]["fd2"] \in 0 .. Address
      BY DEF TypeInv
    <3> QED
      BY <2>1, <3>1, <3>2 DEF ValueOf
  <2>4. pc' \in [Threads -> Nat]
    <3>1. [pc EXCEPT ![t] = @ + 1] \in [Threads -> Nat]
      BY <1>1 DEF TypeInv
    <3> QED
      BY <2>1, <2>3, <3>1
  <2>5. local' \in [Threads -> [Names -> 0 .. Address]]
    BY <2>1, <2>2, <2>3 DEF TypeInv
  <2>6. stale' \in [Threads -> SUBSET Names]
    BY <2>1, <2>3 DEF TypeInv
  <2> QED
    BY <1>12, <2>4, <2>5, <2>6 DEF Spawns, TypeInv
<1>13. CASE Jumps(t)
  <2>1. Call(t).num \in Nat
    BY <1>13, LiveCalls, GoodProgram
       DEF Jumps, Runs, MainCall, ThreadCall, Good, Typed, IsScript
  <2> QED
    BY <1>13, <2>1 DEF Jumps, TypeInv
<1> QED
  BY <1>3, <1>4, <1>5, <1>7, <1>8, <1>9, <1>10, <1>11, <1>12, <1>13 DEF Effect

\* ThreadInv

\* Only main creates a thread, and none that exists.
LEMMA Created ==
    ASSUME TypeInv, ThreadInv, NEW t \in Threads, Runs(t), Call(t).op = "create"
    PROVE  /\ t = Main /\ Call(t).num \in DOMAIN P.threads /\ pc[Call(t).num] = 0
           /\ Call(t).num \in Threads /\ Call(t).num # Main
           /\ Call(t).on \in {"fd", "fd2", "NULL", "&fd2"}
           /\ Creates(P, pc[Main], Call(t).num)
<1>1. /\ t = Main /\ Call(t).num \in DOMAIN P.threads
      /\ Call(t).on \in {"fd", "fd2", "NULL", "&fd2"}
  BY LiveCalls DEF Runs, MainCall, ThreadCall
<1>2. Creates(P, pc[Main], Call(t).num)
  BY <1>1, LiveCalls DEF Runs, Creates
<1>3. Call(t).num \in Threads /\ Call(t).num # Main
  BY <1>1, GoodProgram, Domains DEF Good, Typed
<1>4. pc[Call(t).num] = 0
  <2>1. Forks(P) /\ pc[Main] \in Nat /\ pc[Call(t).num] \in Nat
    BY <1>3, GoodProgram, Domains DEF Good, TypeInv
  <2>2. \A i \in DOMAIN P.main : Creates(P, i, Call(t).num) => i = pc[Main]
    BY <1>1, <1>2, <2>1 DEF Forks, Creates
  <2>3. ~ \E i \in 1 .. pc[Main] - 1 : Creates(P, i, Call(t).num)
    BY <2>1, <2>2 DEF Creates
  <2> QED
    BY <1>1, <2>1, <2>3 DEF ThreadInv
<1> QED
  BY <1>1, <1>2, <1>3, <1>4

\* What an advance of t leaves as it was.
LEMMA Others ==
    ASSUME TypeInv, ThreadInv, NEW t \in Threads, Runs(t), Returns(t)
    PROVE  /\ P' = P /\ \A u \in Threads : Script(u)' = Script(u)
           /\ pc'[t] = pc[t] + 1 /\ pc'[t] \in Nat
           /\ \A u \in Threads \ {t} : /\ pc'[u] = pc[u] /\ Call(u)' = Call(u)
                                      /\ holds'[u] = holds[u] /\ reserved'[u] = reserved[u]
           /\ holds'[t] = NoFile /\ reserved'[t] = Unset
           /\ \A u \in Threads : (Live(u)' => Live(u)) /\ (Ended(u) => Ended(u)')
<1>1. /\ P' = P /\ \A u \in Threads : Script(u)' = Script(u)
      /\ pc'[t] = pc[t] + 1 /\ pc'[t] \in Nat
      /\ \A u \in Threads \ {t} : pc'[u] = pc[u]
      /\ \A u \in Threads \ {t} : holds'[u] = holds[u] /\ reserved'[u] = reserved[u]
      /\ holds'[t] = NoFile /\ reserved'[t] = Unset
  BY DEF Returns, TypeInv, P, Script
<1>2. \A u \in Threads \ {t} : Call(u)' = Call(u)
  BY <1>1 DEF Call
<1>3. Live(t)
  BY DEF Runs
<1>4. \A u \in Threads : (Live(u)' => Live(u)) /\ (Ended(u) => Ended(u)')
  BY <1>1, <1>3 DEF Live, Ended
<1> QED
  BY <1>1, <1>2, <1>4

\* A call that returns leaves the threads where ThreadInv has them.
LEMMA ThreadsReturn ==
    ASSUME TypeInv, ThreadInv, NEW t \in Threads, Runs(t), Returns(t),
           Call(t).op \notin {"create", "goto"}, Call(t).op = "join" => Ended(Call(t).num)
    PROVE  ThreadInv'
<1>1. /\ P' = P /\ \A u \in Threads : Script(u)' = Script(u)
      /\ pc'[t] = pc[t] + 1 /\ pc'[t] \in Nat
      /\ \A u \in Threads \ {t} : pc'[u] = pc[u] /\ Call(u)' = Call(u) /\ holds'[u] = holds[u]
      /\ holds'[t] = NoFile
      /\ \A u \in Threads : (Live(u)' => Live(u)) /\ (Ended(u) => Ended(u)')
  BY Others
<1>2. /\ pc[t] \in DOMAIN Script(t) /\ pc[t] \in Nat /\ pc[t] + 1 <= Len(Script(t)) + 1
      /\ t = Main => Script(t) = P.main /\ MainCall(P, Call(t))
      /\ t # Main => t \in DOMAIN P.threads
  BY LiveCalls DEF Runs
<1>3. pc[t] > 0 /\ pc[Main] > 0 /\ pc[Main] \in Nat /\ \A u \in Threads : pc[u] \in Nat
  BY Domains DEF Runs, Live, ThreadInv, TypeInv
<1>4. pc'[Main] > 0
  BY <1>1, <1>3, Domains
<1>5. ASSUME NEW u \in Threads, pc'[u] > 0
      PROVE  (u = Main \/ u \in DOMAIN P.threads) /\ pc'[u] <= Len(Script(u)) + 1
  <2>1. CASE u = t
    BY <1>1, <1>2, <2>1
  <2>2. CASE u # t
    BY <1>1, <1>5, <2>2 DEF ThreadInv
  <2> QED
    BY <2>1, <2>2
<1>6. ASSUME NEW u \in Threads, holds'[u] # NoFile
      PROVE  Live(u)' /\ (Call(u)').op \in Blocking
  <2>1. u # t /\ holds[u] # NoFile
    BY <1>1, <1>6
  <2>2. Live(u) /\ Call(u).op \in Blocking
    BY <2>1 DEF ThreadInv
  <2> QED
    BY <1>1, <2>1, <2>2 DEF Live, Ended
<1>7. pc'[Main] \in Nat /\ (pc'[Main] = pc[Main] \/ (t = Main /\ pc'[Main] = pc[Main] + 1))
  BY <1>1, <1>3, Domains
<1>8. ASSUME NEW u, NEW i \in 1 .. pc'[Main] - 1, Creates(P, i, u)
      PROVE  i \in 1 .. pc[Main] - 1
  <2>1. CASE t = Main /\ i = pc[Main]
    <3>1. P.main[i].op = Call(t).op
      BY <1>2, <2>1, Domains DEF Call
    <3> QED
      BY <1>8, <3>1 DEF Creates
  <2> QED
    BY <1>3, <1>7, <2>1
<1>9. ASSUME NEW u \in DOMAIN P.threads
      PROVE  pc'[u] > 0 <=> \E i \in 1 .. pc'[Main] - 1 : Creates(P, i, u)
  <2>1. u \in Threads
    BY GoodProgram, Domains DEF Good, Typed
  <2>2. pc'[u] > 0 <=> pc[u] > 0
    BY <1>1, <1>3, <2>1
  <2>3. pc[u] > 0 <=> \E i \in 1 .. pc[Main] - 1 : Creates(P, i, u)
    BY DEF ThreadInv
  <2>4. \A i \in 1 .. pc[Main] - 1 : i \in 1 .. pc'[Main] - 1
    BY <1>3, <1>7
  <2> QED
    BY <1>8, <2>2, <2>3, <2>4
<1>10. ASSUME NEW u \in DOMAIN P.threads, NEW i \in 1 .. pc'[Main] - 1, Joins(P, i, u)
       PROVE  Ended(u)'
  <2>0. u \in Threads
    BY GoodProgram, Domains DEF Good, Typed
  <2>1. CASE t = Main /\ i = pc[Main]
    <3>1. P.main[i] = Call(t)
      BY <1>2, <2>1, Domains DEF Call
    <3>2. Ended(u)
      BY <1>10, <3>1 DEF Joins
    <3> QED
      BY <1>1, <2>0, <3>2
  <2>2. CASE i \in 1 .. pc[Main] - 1
    BY <1>1, <1>10, <2>0, <2>2 DEF ThreadInv
  <2> QED
    BY <1>3, <1>7, <2>1, <2>2
<1>11. exit' # "returned"
  BY DEF Runs, Returns
<1> QED
  BY <1>1, <1>4, <1>5, <1>6, <1>9, <1>10, <1>11 DEF ThreadInv

\* Every step preserves ThreadInv.
LEMMA ThreadPreserved ==
    ASSUME TypeInv, ThreadInv, NEW t \in Threads, Effect(t)
    PROVE  ThreadInv'
<1>1. CASE Passes(t)
  BY <1>1, ThreadsReturn DEF Passes
<1>2. CASE OpensOne(t)
  BY <1>2, ThreadsReturn DEF OpensOne
<1>3. CASE OpensTwo(t)
  <2>1. Runs(t) /\ Returns(t) /\ Call(t).op \notin {"create", "goto", "join"}
    BY <1>3 DEF OpensTwo
  <2> QED
    BY <2>1, ThreadsReturn
<1>4. CASE FailsToOpen(t)
  <2>1. Runs(t) /\ Returns(t) /\ Call(t).op \notin {"create", "goto", "join"}
    BY <1>4 DEF FailsToOpen
  <2> QED
    BY <2>1, ThreadsReturn
<1>5. CASE Closes(t)
  BY <1>5, ThreadsReturn DEF Closes
<1>6. CASE Accepts(t)
  BY <1>6, ThreadsReturn DEF Accepts
<1>7. ASSUME Runs(t), pc' = pc, program' = program, exit' = exit, Call(t).op \in Blocking,
             NEW f, holds' = [holds EXCEPT ![t] = f]
      PROVE  ThreadInv'
  <2>1. /\ P' = P /\ \A u \in Threads : Script(u)' = Script(u) /\ Call(u)' = Call(u)
        /\ \A u : Ended(u)' <=> pc[u] > 0 /\ pc[u] > Len(Script(u)')
    BY <1>7 DEF P, Script, Call, Ended
  <2>2. \A u \in Threads : (Ended(u)' <=> Ended(u)) /\ (Live(u)' <=> Live(u))
    BY <1>7, <2>1 DEF Ended, Live
  <2>3. \A u \in Threads : u # t => holds'[u] = holds[u]
    BY <1>7 DEF TypeInv
  <2>4. \A u \in Threads : holds'[u] # NoFile => Live(u) /\ Call(u).op \in Blocking
    BY <1>7, <2>3 DEF ThreadInv, Runs
  <2>5. \A u \in DOMAIN P.threads : u \in Threads
    BY GoodProgram, Domains DEF Good, Typed
  <2>6. exit' # "returned"
    BY <1>7 DEF Runs
  <2> QED
    BY <1>7, <2>1, <2>2, <2>4, <2>5, <2>6 DEF ThreadInv
<1>8. CASE Enters(t)
  BY <1>7, <1>8 DEF Enters
<1>9. CASE Drops(t)
  BY <1>7, <1>9 DEF Drops
<1>10. CASE Spawns(t)
  <2> DEFINE u == Call(t).num
  <2>1. /\ t = Main /\ u \in DOMAIN P.threads /\ pc[u] = 0 /\ u \in Threads /\ u # Main
        /\ Creates(P, pc[Main], u) /\ Call(t).op = "create"
    BY <1>10, Created DEF Spawns
  <2>2. /\ pc[Main] \in DOMAIN P.main /\ pc[Main] \in Nat /\ pc[Main] + 1 <= Len(P.main) + 1
        /\ Call(t) = P.main[pc[Main]] /\ Script(Main) = P.main
    BY <1>10, <2>1, LiveCalls DEF Spawns, Runs
  <2>3. pc' = [pc EXCEPT ![t] = @ + 1, ![u] = 1]
    BY <1>10 DEF Spawns
  <2>4. program' = program /\ holds' = holds /\ exit' = "running"
    BY <1>10 DEF Spawns, Runs
  <2> HIDE DEF u
  <2>5. /\ pc'[Main] = pc[Main] + 1 /\ pc'[u] = 1
        /\ \A w \in Threads : w # Main /\ w # u => pc'[w] = pc[w]
    BY <2>1, <2>3, Domains DEF TypeInv
  <2>6. P' = P /\ \A w \in Threads : Script(w)' = Script(w)
    BY <2>4 DEF P, Script
  <2>7. \A w \in DOMAIN P.threads : w \in Threads /\ w # Main
    BY GoodProgram, Domains DEF Good, Typed
  <2>8. Typed(P) /\ Forks(P) /\ Script(u) = P.threads[u]
    BY <2>1, GoodProgram DEF Good, Script, P
  <2>9. Len(Script(u)) \in Nat
    BY <2>1, <2>8 DEF Typed, IsScript
  <2>10. ASSUME NEW w \in Threads, pc'[w] > 0
         PROVE  (w = Main \/ w \in DOMAIN P.threads) /\ pc'[w] <= Len(Script(w)) + 1
    <3>1. CASE w = Main
      BY <2>2, <2>5, <3>1
    <3>2. CASE w = u
      BY <2>1, <2>5, <2>9, <3>2
    <3>3. CASE w # Main /\ w # u
      BY <2>5, <2>10, <3>3 DEF ThreadInv
    <3> QED
      BY <3>1, <3>2, <3>3
  <2>11. holds[Main] = NoFile /\ holds[u] = NoFile
    BY <1>10, <2>1, Domains DEF Spawns, ThreadInv, Live
  <2>12. ASSUME NEW w \in Threads, holds'[w] # NoFile
         PROVE  Live(w)' /\ (Call(w)').op \in Blocking
    <3>1. w # Main /\ w # u /\ Live(w) /\ Call(w).op \in Blocking
      BY <2>4, <2>11, <2>12 DEF ThreadInv
    <3> QED
      BY <2>5, <2>6, <3>1 DEF Live, Ended, Call
  <2>13. ASSUME NEW w \in DOMAIN P.threads
         PROVE  pc'[w] > 0 <=> \E i \in 1 .. pc'[Main] - 1 : Creates(P, i, w)
    <3>1. pc[w] > 0 <=> \E i \in 1 .. pc[Main] - 1 : Creates(P, i, w)
      BY DEF ThreadInv
    <3>2. \A i : i \in 1 .. pc'[Main] - 1 <=> i \in 1 .. pc[Main] - 1 \/ i = pc[Main]
      BY <2>2, <2>5 DEF ThreadInv
    <3>3. CASE w = u
      BY <2>1, <2>5, <3>2, <3>3
    <3>4. CASE w # u
      <4>1. ~Creates(P, pc[Main], w)
        BY <2>1, <3>4 DEF Creates
      <4> QED
        BY <2>5, <2>7, <3>1, <3>2, <3>4, <4>1
    <3> QED
      BY <3>3, <3>4
  <2>14. ASSUME NEW w \in DOMAIN P.threads, NEW i \in 1 .. pc'[Main] - 1, Joins(P, i, w)
         PROVE  Ended(w)'
    <3>1. i # pc[Main]
      BY <2>1, <2>2, <2>14 DEF Joins
    <3>2. i \in 1 .. pc[Main] - 1
      BY <2>2, <2>5, <3>1
    <3>3. Ended(w)
      BY <2>14, <3>2 DEF ThreadInv
    <3>4. w # u
      BY <2>1, <3>3 DEF Ended
    <3> QED
      BY <2>5, <2>6, <2>7, <3>3, <3>4 DEF Ended
  <2>15. pc'[Main] > 0
    BY <2>2, <2>5 DEF ThreadInv
  <2> QED
    BY <2>4, <2>6, <2>10, <2>12, <2>13, <2>14, <2>15 DEF ThreadInv
<1>11. CASE Jumps(t)
  <2>1. /\ t = Main /\ Call(t).num \in DOMAIN P.main /\ Call(t).op = "goto"
        /\ pc[Main] \in DOMAIN P.main /\ Call(t) = P.main[pc[Main]] /\ Script(Main) = P.main
    BY <1>11, LiveCalls DEF Jumps, Runs, MainCall, ThreadCall
  <2>2. IsScript(P.main) /\ \A i \in DOMAIN P.main : P.main[i].op \notin {"create", "join"}
    BY <2>1, GoodProgram DEF Good, Typed, Forks
  <2>3. \A i, u : ~Creates(P, i, u) /\ ~Joins(P, i, u)
    BY <2>2 DEF Creates, Joins
  <2>4. /\ pc'[Main] = Call(t).num /\ \A u \in Threads : u # Main => pc'[u] = pc[u]
        /\ program' = program /\ holds' = holds /\ exit' # "returned" /\ holds[Main] = NoFile
    BY <1>11, <2>1 DEF Jumps, Runs, TypeInv
  <2>5. P' = P /\ \A u \in Threads : Script(u)' = Script(u)
    BY <2>4 DEF P, Script
  <2>6. pc'[Main] > 0 /\ pc'[Main] <= Len(P.main) + 1
    BY <2>1, <2>2, <2>4 DEF IsScript
  <2>7. \A u \in DOMAIN P.threads : u \in Threads /\ u # Main
    BY GoodProgram, Domains DEF Good, Typed
  <2>8. ASSUME NEW w \in Threads, holds'[w] # NoFile
        PROVE  Live(w)' /\ (Call(w)').op \in Blocking
    <3>1. w # Main /\ Live(w) /\ Call(w).op \in Blocking
      BY <2>4, <2>8 DEF ThreadInv
    <3> QED
      BY <2>4, <2>5, <3>1 DEF Live, Ended, Call
  <2>9. \A u \in Threads : pc'[u] > 0 =>
          (u = Main \/ u \in DOMAIN P.threads) /\ pc'[u] <= Len(Script(u)) + 1
    BY <2>1, <2>4, <2>6 DEF ThreadInv
  <2>10. \A u \in DOMAIN P.threads : ~(pc'[u] > 0)
    BY <2>3, <2>4, <2>7 DEF ThreadInv
  <2> QED
    BY <2>3, <2>4, <2>5, <2>6, <2>8, <2>9, <2>10 DEF ThreadInv
<1> QED
  BY <1>1, <1>2, <1>3, <1>4, <1>5, <1>6, <1>8, <1>9, <1>10, <1>11 DEF Effect

\* A call that returns preserves TableInv when it leaves the table right for the
\* other threads.
LEMMA TableReturn ==
    ASSUME TypeInv, ThreadInv, TableInv, NEW t \in Threads, Runs(t), Returns(t),
           \A u \in Threads \ {t} : local'[u] = local[u],
           fdtable'[0] = Tty,
           \A u \in Threads \ {t} : reserved[u] # Unset => fdtable'[reserved[u]] = NoFile,
           \A n, m \in 0 .. MaxFd :
             fdtable'[n] = fdtable'[m] /\ fdtable'[n] # NoFile => n = m,
           \A u \in Threads \ {t}, n \in 0 .. MaxFd :
             holds[u] # NoFile /\ fdtable'[n] = holds[u] => fdtable[n] = holds[u]
    PROVE  TableInv'
<1>1. /\ \A u \in Threads \ {t} : /\ Call(u)' = Call(u) /\ holds'[u] = holds[u]
                                 /\ reserved'[u] = reserved[u]
      /\ holds'[t] = NoFile /\ reserved'[t] = Unset
  BY Others
<1>2. \A u \in Threads : reserved'[u] # Unset =>
         /\ holds'[u] # NoFile /\ (Call(u)').op = "accept"
         /\ reserved'[u] \in 0 .. MaxFd /\ fdtable'[reserved'[u]] = NoFile
  BY <1>1 DEF TableInv
<1>3. \A u, w \in Threads : reserved'[u] = reserved'[w] /\ reserved'[u] # Unset => u = w
  BY <1>1 DEF TableInv
<1>4. \A u \in Threads :
         holds'[u] # NoFile /\ (Call(u)').op = "accept" => reserved'[u] # Unset
  BY <1>1 DEF TableInv
<1>5. \A u \in Threads, n \in 0 .. MaxFd :
         holds'[u] # NoFile /\ fdtable'[n] = holds'[u] => n = local'[u][(Call(u)').on]
  BY <1>1 DEF TableInv
<1> QED
  BY <1>2, <1>3, <1>4, <1>5 DEF TableInv

\* Every step preserves TableInv.
LEMMA TablePreserved ==
    ASSUME TypeInv, ThreadInv, TableInv, VariableInv, NEW t \in Threads, Effect(t)
    PROVE  TableInv'
<1>1. 0 \in 0 .. MaxFd
  BY Domains
<1>2. CASE Passes(t)
  BY <1>1, <1>2, TableReturn DEF Passes, TableInv
<1>3. CASE Enters(t)
  <2> DEFINE n0 == local[t][Call(t).on]
  <2>1. n0 \in 0 .. MaxFd /\ Named(t) = fdtable[n0] /\ fdtable[n0] # NoFile
    BY <1>3 DEF Enters, Named, TypeInv
  <2>2. /\ \A u \in Threads : Call(u)' = Call(u)
        /\ holds'[t] = fdtable[n0] /\ \A u \in Threads \ {t} : holds'[u] = holds[u]
        /\ fdtable' = fdtable /\ local' = local
    BY <1>3, <2>1 DEF Enters, Call, Script, TypeInv
  <2>3. /\ \A u \in Threads \ {t} : reserved'[u] = reserved[u]
        /\ Call(t).op # "accept" => reserved'[t] = reserved[t]
        /\ Call(t).op = "accept" => reserved'[t] \in FreeNumbers
    BY <1>3 DEF Enters, TypeInv
  <2>4. holds[t] = NoFile /\ reserved[t] = Unset
    BY <1>3 DEF Enters, TableInv
  <2>5. /\ \A n \in FreeNumbers : /\ n \in 0 .. MaxFd /\ n # Unset /\ fdtable[n] = NoFile
                                  /\ \A u \in Threads : reserved[u] # n
    BY FreeFacts, Domains
  <2> HIDE DEF n0
  <2>6. \A u \in Threads : reserved'[u] # Unset =>
           /\ holds'[u] # NoFile /\ (Call(u)').op = "accept"
           /\ reserved'[u] \in 0 .. MaxFd /\ fdtable'[reserved'[u]] = NoFile
    BY <2>1, <2>2, <2>3, <2>4, <2>5 DEF TableInv
  <2>7. \A u, w \in Threads : reserved'[u] = reserved'[w] /\ reserved'[u] # Unset => u = w
    BY <2>3, <2>4, <2>5 DEF TableInv
  <2>8. \A u \in Threads :
           holds'[u] # NoFile /\ (Call(u)').op = "accept" => reserved'[u] # Unset
    BY <2>2, <2>3, <2>5 DEF TableInv
  <2>9. \A u \in Threads, n \in 0 .. MaxFd :
           holds'[u] # NoFile /\ fdtable'[n] = holds'[u] => n = local'[u][(Call(u)').on]
    BY <2>1, <2>2 DEF TableInv, n0
  <2> QED
    BY <2>2, <2>6, <2>7, <2>8, <2>9 DEF TableInv
<1>4. CASE Drops(t)
  <2>1. /\ \A u \in Threads : Call(u)' = Call(u)
        /\ holds'[t] = NoFile /\ \A u \in Threads \ {t} : holds'[u] = holds[u]
        /\ fdtable' = fdtable /\ local' = local /\ reserved' = reserved
    BY <1>4 DEF Drops, Call, Script, TypeInv
  <2>2. reserved[t] = Unset
    BY <1>4 DEF Drops, TableInv
  <2> QED
    BY <2>1, <2>2 DEF TableInv
<1>5. CASE OpensOne(t)
  <2>1. PICK n \in FreeNumbers, f \in Unheld :
         /\ fdtable' = [fdtable EXCEPT ![n] = f]
         /\ local' = [local EXCEPT ![t][Call(t).on] = n]
         /\ stale' = [stale EXCEPT ![t] = @ \ {Call(t).on}]
    BY <1>5 DEF OpensOne
  <2>2. /\ n \in 0 .. MaxFd /\ fdtable[n] = NoFile /\ n # 0 /\ f # NoFile
        /\ \A u \in Threads : reserved[u] # n /\ holds[u] # f
        /\ \A m \in 0 .. MaxFd : fdtable[m] # f
    BY FreeFacts, Domains DEF TableInv
  <2>3. fdtable'[n] = f /\ \A m \in 0 .. MaxFd : m # n => fdtable'[m] = fdtable[m]
    BY <2>1, <2>2 DEF TypeInv
  <2>4. \A u \in Threads \ {t} : local'[u] = local[u]
    BY <2>1 DEF TypeInv
  <2>5. \A u \in Threads \ {t} : reserved[u] # Unset => fdtable'[reserved[u]] = NoFile
    BY <2>2, <2>3 DEF TableInv
  <2>6. \A m, k \in 0 .. MaxFd :
             fdtable'[m] = fdtable'[k] /\ fdtable'[m] # NoFile => m = k
    BY <2>2, <2>3 DEF TableInv
  <2>7. \A u \in Threads \ {t}, m \in 0 .. MaxFd :
             holds[u] # NoFile /\ fdtable'[m] = holds[u] => fdtable[m] = holds[u]
    BY <2>2, <2>3
  <2>8. fdtable'[0] = Tty
    BY <1>1, <2>2, <2>3 DEF TableInv
  <2> QED
    BY <1>5, <2>4, <2>5, <2>6, <2>7, <2>8, TableReturn DEF OpensOne
<1>6. CASE OpensTwo(t)
  <2>1. PICK n0, n1 \in FreeNumbers, f0, f1 \in Unheld :
         /\ n0 # n1 /\ f0 # f1
         /\ fdtable' = [fdtable EXCEPT ![n0] = f0, ![n1] = f1]
         /\ local' = [local EXCEPT ![t]["fd"] = n0, ![t]["fd2"] = n1]
         /\ stale' = [stale EXCEPT ![t] = @ \ {"fd", "fd2"}]
    BY <1>6 DEF OpensTwo
  <2>2. /\ n0 \in 0 .. MaxFd /\ fdtable[n0] = NoFile /\ n0 # 0 /\ f0 # NoFile
        /\ n1 \in 0 .. MaxFd /\ fdtable[n1] = NoFile /\ n1 # 0 /\ f1 # NoFile
        /\ \A u \in Threads : reserved[u] # n0 /\ holds[u] # f0
        /\ \A u \in Threads : reserved[u] # n1 /\ holds[u] # f1
        /\ \A m \in 0 .. MaxFd : fdtable[m] # f0 /\ fdtable[m] # f1
    BY FreeFacts, Domains DEF TableInv
  <2>3. /\ fdtable'[n0] = f0 /\ fdtable'[n1] = f1
        /\ \A m \in 0 .. MaxFd : m # n0 /\ m # n1 => fdtable'[m] = fdtable[m]
    BY <2>1, <2>2 DEF TypeInv
  <2>4. \A u \in Threads \ {t} : local'[u] = local[u]
    BY <2>1 DEF TypeInv
  <2>5. \A u \in Threads \ {t} : reserved[u] # Unset => fdtable'[reserved[u]] = NoFile
    BY <2>2, <2>3 DEF TableInv
  <2>6. \A m, k \in 0 .. MaxFd :
             fdtable'[m] = fdtable'[k] /\ fdtable'[m] # NoFile => m = k
    BY <2>1, <2>2, <2>3 DEF TableInv
  <2>7. \A u \in Threads \ {t}, m \in 0 .. MaxFd :
             holds[u] # NoFile /\ fdtable'[m] = holds[u] => fdtable[m] = holds[u]
    BY <2>2, <2>3
  <2>8. fdtable'[0] = Tty
    BY <1>1, <2>2, <2>3 DEF TableInv
  <2> QED
    BY <1>6, <2>4, <2>5, <2>6, <2>7, <2>8, TableReturn DEF OpensTwo
<1>7. CASE FailsToOpen(t)
  <2>1. \A u \in Threads \ {t} : local'[u] = local[u]
    BY <1>7 DEF FailsToOpen, TypeInv
  <2>2. Runs(t) /\ Returns(t) /\ fdtable' = fdtable
    BY <1>7 DEF FailsToOpen
  <2> QED
    BY <2>1, <2>2, TableReturn DEF TableInv
<1>8. CASE Closes(t)
  <2> DEFINE n == local[t][Call(t).on]
  <2>1. \A m \in 0 .. MaxFd : fdtable'[m] = IF m = n THEN NoFile ELSE fdtable[m]
    BY <1>8 DEF Closes
  <2>2. Runs(t) /\ Returns(t) /\ local' = local /\ Call(t).op = "close"
    BY <1>8 DEF Closes
  <2>3. n # 0
    <3>1. Call(t).on \in Names
      BY <2>2, LiveCalls DEF Runs, MainCall, ThreadCall
    <3>2. CASE t = Main
      BY <3>1, <3>2 DEF VariableInv
    <3>3. CASE t # Main
      <4>1. pc[t] \in DOMAIN P.threads[t] /\ P.threads[t][pc[t]].op = "close"
        BY <2>2, <3>3, LiveCalls DEF Runs
      <4> QED
        BY <3>1, <4>1 DEF VariableInv
    <3> QED
      BY <3>2, <3>3
  <2> HIDE DEF n
  <2>4. fdtable'[0] = Tty
    BY <1>1, <2>1, <2>3 DEF TableInv
  <2>5. \A u \in Threads \ {t} : reserved[u] # Unset => fdtable'[reserved[u]] = NoFile
    BY <2>1 DEF TableInv
  <2>6. \A m, k \in 0 .. MaxFd :
             fdtable'[m] = fdtable'[k] /\ fdtable'[m] # NoFile => m = k
    BY <2>1 DEF TableInv
  <2>7. \A u \in Threads \ {t}, m \in 0 .. MaxFd :
             holds[u] # NoFile /\ fdtable'[m] = holds[u] => fdtable[m] = holds[u]
    BY <2>1
  <2> QED
    BY <2>2, <2>4, <2>5, <2>6, <2>7, TableReturn
<1>9. CASE Accepts(t)
  <2> DEFINE n == reserved[t]
  <2>1. PICK f \in Unheld : fdtable' = [fdtable EXCEPT ![n] = f]
    BY <1>9 DEF Accepts
  <2>2. /\ n \in 0 .. MaxFd /\ fdtable[n] = NoFile /\ n # 0 /\ f # NoFile
        /\ \A u \in Threads : holds[u] # f
        /\ \A u \in Threads : u # t => reserved[u] # n
        /\ \A m \in 0 .. MaxFd : fdtable[m] # f
    BY <1>9, FreeFacts, Domains DEF TableInv, Accepts
  <2> HIDE DEF n
  <2>3. fdtable'[n] = f /\ \A m \in 0 .. MaxFd : m # n => fdtable'[m] = fdtable[m]
    BY <2>1, <2>2 DEF TypeInv
  <2>5. \A u \in Threads \ {t} : reserved[u] # Unset => fdtable'[reserved[u]] = NoFile
    BY <2>2, <2>3 DEF TableInv
  <2>6. \A m, k \in 0 .. MaxFd :
             fdtable'[m] = fdtable'[k] /\ fdtable'[m] # NoFile => m = k
    BY <2>2, <2>3 DEF TableInv
  <2>7. \A u \in Threads \ {t}, m \in 0 .. MaxFd :
             holds[u] # NoFile /\ fdtable'[m] = holds[u] => fdtable[m] = holds[u]
    BY <2>2, <2>3
  <2>8. fdtable'[0] = Tty
    BY <1>1, <2>2, <2>3 DEF TableInv
  <2> QED
    BY <1>9, <2>5, <2>6, <2>7, <2>8, TableReturn DEF Accepts
<1>10. ASSUME NEW w \in Threads, holds[w] = NoFile, holds' = holds, reserved' = reserved,
              fdtable' = fdtable,
              \A u \in Threads : holds[u] # NoFile => local'[u] = local[u] /\ Call(u)' = Call(u)
       PROVE  TableInv'
  BY <1>10 DEF TableInv
<1>11. CASE Spawns(t)
  <2>1. /\ t = Main /\ Call(t).num \in Threads /\ pc[Call(t).num] = 0
    BY <1>11, Created DEF Spawns
  <2>2. holds[Call(t).num] = NoFile /\ holds[t] = NoFile
    BY <1>11, <2>1 DEF Spawns, ThreadInv, Live
  <2>3. \A u \in Threads : u # t /\ u # Call(t).num => local'[u] = local[u]
        /\ Call(u)' = Call(u)
    BY <1>11 DEF Spawns, Call, Script, TypeInv
  <2> QED
    BY <1>10, <1>11, <2>2, <2>3 DEF Spawns
<1>12. CASE Jumps(t)
  <2>1. \A u \in Threads : u # t => Call(u)' = Call(u)
    BY <1>12 DEF Jumps, Call, Script, TypeInv
  <2> QED
    BY <1>10, <1>12, <2>1 DEF Jumps
<1> QED
  BY <1>2, <1>3, <1>4, <1>5, <1>6, <1>7, <1>8, <1>9, <1>11, <1>12 DEF Effect

\* Every step preserves VariableInv: a close of 0 would be one of NULL.
LEMMA VariablePreserved ==
    ASSUME TypeInv, ThreadInv, TableInv, VariableInv, NEW t \in Threads, Effect(t)
    PROVE  VariableInv'
<1>1. Unset # 0 /\ Main \in Threads
  BY Domains
\* Only t sets variables of its own, not to 0, and if it is main not "arg".
<1>2. ASSUME Runs(t), Returns(t), \A u \in Threads \ {t} : local'[u] = local[u],
             \A v \in Names : local'[t][v] = 0 => local[t][v] = 0,
             t = Main => local'[t]["arg"] \in {local[t]["arg"], Unset}
      PROVE  VariableInv'
  <2>1. P' = P /\ pc'[t] # 0 /\ \A u \in Threads \ {t} : pc'[u] = pc[u]
    BY <1>2, Others DEF TypeInv
  <2>2. \A u \in Threads, v \in Names : local'[u][v] = 0 => local[u][v] = 0
    BY <1>2
  <2>3. local'[Main]["arg"] = Unset
    BY <1>1, <1>2 DEF VariableInv
  <2>4. \A u \in Threads : pc'[u] = 0 => \A v \in Names : local'[u][v] = Unset
    BY <1>2, <2>1 DEF VariableInv
  <2> QED
    BY <2>1, <2>2, <2>3, <2>4 DEF VariableInv
<1>3. CASE Passes(t)
  BY <1>2, <1>3 DEF Passes
<1>4. ASSUME pc' = pc, local' = local, program' = program
      PROVE  VariableInv'
  BY <1>4 DEF VariableInv, P
<1>5. CASE Enters(t) \/ Drops(t)
  BY <1>4, <1>5 DEF Enters, Drops
<1>6. \A n \in FreeNumbers : n # 0
  BY FreeFacts, Domains DEF TableInv
<1>7. ASSUME Runs(t), Call(t).op \in Opening
      PROVE  Call(t).on \in Names /\ (t = Main => Call(t).on # "arg")
  BY <1>7, LiveCalls DEF Runs, MainCall, ThreadCall
<1>8. CASE OpensOne(t)
  <2>1. PICK n \in FreeNumbers, f \in Unheld :
         /\ fdtable' = [fdtable EXCEPT ![n] = f]
         /\ local' = [local EXCEPT ![t][Call(t).on] = n]
         /\ stale' = [stale EXCEPT ![t] = @ \ {Call(t).on}]
    BY <1>8 DEF OpensOne
  <2>2. Call(t).on \in Names /\ (t = Main => Call(t).on # "arg")
    BY <1>7, <1>8 DEF OpensOne
  <2>3. /\ \A u \in Threads \ {t} : local'[u] = local[u]
        /\ \A v \in Names : local'[t][v] = IF v = Call(t).on THEN n ELSE local[t][v]
    BY <2>1, <2>2 DEF TypeInv
  <2> QED
    BY <1>2, <1>6, <1>8, <2>2, <2>3 DEF OpensOne
<1>9. CASE OpensTwo(t)
  <2>1. PICK n0, n1 \in FreeNumbers, f0, f1 \in Unheld :
         /\ n0 # n1 /\ f0 # f1
         /\ fdtable' = [fdtable EXCEPT ![n0] = f0, ![n1] = f1]
         /\ local' = [local EXCEPT ![t]["fd"] = n0, ![t]["fd2"] = n1]
         /\ stale' = [stale EXCEPT ![t] = @ \ {"fd", "fd2"}]
    BY <1>9 DEF OpensTwo
  <2>2. /\ \A u \in Threads \ {t} : local'[u] = local[u]
        /\ local'[t]["fd"] = n0 /\ local'[t]["fd2"] = n1 /\ local'[t]["arg"] = local[t]["arg"]
    BY <2>1 DEF TypeInv
  <2> QED
    BY <1>2, <1>6, <1>9, <2>2 DEF OpensTwo
<1>10. CASE FailsToOpen(t)
  <2>1. /\ \A u \in Threads \ {t} : local'[u] = local[u]
        /\ \A v \in Names : local'[t][v] \in {local[t][v], Unset}
    BY <1>10 DEF FailsToOpen, TypeInv
  <2>2. \A v \in Names : local'[t][v] = 0 => local[t][v] = 0
    BY <1>1, <2>1
  <2> QED
    BY <1>2, <1>10, <2>1, <2>2 DEF FailsToOpen
<1>11. CASE Closes(t)
  BY <1>2, <1>11 DEF Closes
<1>12. CASE Accepts(t)
  BY <1>2, <1>12 DEF Accepts
<1>13. CASE Spawns(t)
  <2> DEFINE u == Call(t).num
             v == Call(t).on
  <2>1. /\ t = Main /\ u \in DOMAIN P.threads /\ pc[u] = 0 /\ u \in Threads /\ u # Main
        /\ v \in {"fd", "fd2", "NULL", "&fd2"} /\ Creates(P, pc[Main], u)
        /\ Call(t) = P.main[pc[Main]]
    BY <1>13, Created, LiveCalls DEF Spawns, Runs
  <2>2. /\ pc' = [pc EXCEPT ![t] = @ + 1, ![u] = 1]
        /\ local' = [local EXCEPT ![u]["arg"] = ValueOf(t, v)] /\ program' = program
    BY <1>13 DEF Spawns
  <2>3. v = "NULL" => \A k \in DOMAIN P.threads[u] : P.threads[u][k].op # "close"
    BY <2>1, GoodProgram DEF Good, NullsKept, Creates
  <2> HIDE DEF u, v
  <2>4. /\ pc'[u] # 0 /\ pc'[t] # 0 /\ \A w \in Threads : w # t /\ w # u => pc'[w] = pc[w]
    BY <2>1, <2>2, Domains DEF TypeInv
  <2>5. /\ local'[u]["arg"] = ValueOf(t, v)
        /\ local'[u]["fd"] = local[u]["fd"] /\ local'[u]["fd2"] = local[u]["fd2"]
        /\ \A w \in Threads : w # u => local'[w] = local[w]
    BY <2>1, <2>2 DEF TypeInv
  <2>6. ValueOf(t, v) = 0 => v = "NULL"
    <3>1. local[t]["fd"] # 0 /\ local[t]["fd2"] # 0
      BY <2>1 DEF VariableInv
    <3>2. Address # 0
      BY Domains
    <3> QED
      BY <2>1, <3>1, <3>2 DEF ValueOf
  <2>7. P' = P
    BY <2>2 DEF P
  <2>8. ASSUME NEW w \in Threads, NEW x \in Names, local'[w][x] = 0
        PROVE  /\ w # Main /\ x = "arg"
               /\ \A k \in DOMAIN P.threads[w] : P.threads[w][k].op # "close"
    <3>1. CASE w = u /\ x = "arg"
      BY <2>1, <2>3, <2>5, <2>6, <2>8, <3>1
    <3>2. CASE ~(w = u /\ x = "arg")
      <4>1. local[w][x] = 0
        BY <2>5, <2>8, <3>2
      <4> QED
        BY <4>1 DEF VariableInv
    <3> QED
      BY <3>1, <3>2
  <2>9. local'[Main]["arg"] = Unset
    BY <1>1, <2>1, <2>5 DEF VariableInv
  <2>10. \A w \in Threads : pc'[w] = 0 => \A x \in Names : local'[w][x] = Unset
    BY <2>4, <2>5 DEF VariableInv
  <2> QED
    BY <2>7, <2>8, <2>9, <2>10 DEF VariableInv
<1>14. CASE Jumps(t)
  <2>1. t = Main /\ pc'[Main] # 0 /\ \A u \in Threads : u # Main => pc'[u] = pc[u]
    <3>1. t = Main /\ Call(t).num \in DOMAIN P.main
      BY <1>14, LiveCalls DEF Jumps, Runs, MainCall, ThreadCall
    <3>2. Call(t).num \in Nat \ {0}
      BY <3>1, GoodProgram DEF Good, Typed, IsScript
    <3> QED
      BY <1>14, <3>1, <3>2 DEF Jumps, TypeInv
  <2>2. local' = local /\ P' = P /\ local[Main] = local[Main]
    BY <1>14 DEF Jumps, P
  <2> QED
    BY <2>1, <2>2 DEF VariableInv
<1> QED
  BY <1>3, <1>5, <1>8, <1>9, <1>10, <1>11, <1>12, <1>13, <1>14 DEF Effect

\* ClassInv

\* When a sequential program opens a descriptor it is main that does, and every
\* thread that it created has ended.
LEMMA OpensAlone ==
    ASSUME TypeInv, ThreadInv, NEW t \in Threads, Runs(t), Call(t).op \in Opening,
           Sequential(P)
    PROVE  /\ t = Main
           /\ \A u \in Threads : Live(u) => u = Main
<1>1. t = Main
  BY LiveCalls DEF Sequential, Runs
<1>2. /\ pc[Main] \in DOMAIN P.main /\ P.main[pc[Main]].op \in Opening
      /\ \A u \in DOMAIN P.threads : u \in Threads /\ u # Main
  BY <1>1, LiveCalls, GoodProgram, Domains DEF Runs, Good, Typed
<1>3. ASSUME NEW u \in Threads, Live(u), u # Main
      PROVE  FALSE
  <2>1. u \in DOMAIN P.threads /\ pc[u] > 0
    BY <1>3 DEF ThreadInv, Live
  <2>2. PICK i \in 1 .. pc[Main] - 1 : Creates(P, i, u)
    BY <2>1 DEF ThreadInv
  <2>3. PICK k \in 1 .. pc[Main] - 1 : Joins(P, k, u)
    BY <1>2, <2>1, <2>2 DEF Sequential
  <2>4. Ended(u)
    BY <2>1, <2>3 DEF ThreadInv
  <2> QED
    BY <1>3, <2>4 DEF Live
<1> QED
  BY <1>1, <1>3

\* A program with one number opens it before it creates a thread.
LEMMA OpensFirst ==
    ASSUME TypeInv, ThreadInv, VariableInv, ClassInv, NEW t \in Threads, Runs(t),
           Call(t).op \in Opening, Sequential(P), OneNumber(P)
    PROVE  /\ t = Main /\ Call(t).op = "socket" /\ Call(t).on = "fd"
           /\ \A u \in Threads : u # Main => pc[u] = 0
           /\ \A u \in Threads, v \in Names : u # Main \/ v # "fd" => local[u][v] = Unset
<1>1. t = Main
  BY OpensAlone
<1>2. pc[Main] \in DOMAIN P.main /\ Call(t) = P.main[pc[Main]]
  BY <1>1, LiveCalls DEF Runs
<1>3. /\ Call(t).op = "socket" /\ Call(t).on = "fd" /\ pc[Main] = 1 /\ SocketsOnly(P)
  BY <1>2 DEF OneNumber, SocketsOnly
<1>4. ASSUME NEW u \in Threads, u # Main
      PROVE  pc[u] = 0
  <2>1. pc[u] \in Nat
    BY DEF TypeInv
  <2>2. CASE u \notin DOMAIN P.threads
    BY <1>4, <2>1, <2>2 DEF ThreadInv
  <2>3. CASE u \in DOMAIN P.threads
    <3>1. ~ \E i \in 1 .. pc[Main] - 1 : Creates(P, i, u)
      BY <1>3
    <3> QED
      BY <2>1, <2>3, <3>1 DEF ThreadInv
  <2> QED
    BY <2>2, <2>3
<1>5. \A u \in Threads, v \in Names : u # Main \/ v # "fd" => local[u][v] = Unset
  BY <1>3, <1>4 DEF VariableInv, ClassInv
<1> QED
  BY <1>1, <1>3, <1>4, <1>5

\* Every step preserves ClassInv.
LEMMA ClassPreserved ==
    ASSUME TypeInv, ThreadInv, VariableInv, ClassInv, NEW t \in Threads, Effect(t)
    PROVE  ClassInv'
<1>1. P' = P /\ Main \in Threads
  BY Domains
     DEF Effect, Passes, Enters, Drops, OpensOne, OpensTwo, FailsToOpen, Closes, Accepts,
     Spawns, Jumps, Returns, P
<1>2. CASE Passes(t) \/ Enters(t) \/ Drops(t) \/ Accepts(t) \/ Jumps(t)
  BY <1>1, <1>2 DEF Passes, Enters, Drops, Accepts, Jumps, ClassInv
<1>3. ASSUME Runs(t), Call(t).op \in Opening, NEW names,
    stale' = [stale EXCEPT ![t] = @ \ names],
             \A u \in Threads \ {t} : local'[u] = local[u],
             Call(t).op = "socket" => names = {Call(t).on},
             \A v \in Names \ names : local'[t][v] = local[t][v]
      PROVE  ClassInv'
  <2>1. NeverCloses(P) => \A u \in Threads : stale'[u] = {}
    BY <1>3 DEF ClassInv, TypeInv
  <2>2. ASSUME SocketsOnly(P)
        PROVE  local'[Main]["fd2"] = Unset
    <3>1. CASE t # Main
      BY <1>1, <1>3, <2>2, <3>1 DEF ClassInv
    <3>2. CASE t = Main
      <4>1. names = {"fd"}
        BY <1>3, <2>2, <3>2, LiveCalls DEF SocketsOnly, Runs
      <4> QED
        BY <1>3, <2>2, <3>2, <4>1 DEF ClassInv
    <3> QED
      BY <3>1, <3>2
  <2>3. ASSUME Sequential(P), OneNumber(P), NEW u \in Threads, NEW v \in Names
        PROVE  local'[u][v] \in {local'[Main]["fd"], Unset}
    <3>1. t = Main /\ Call(t).op = "socket" /\ Call(t).on = "fd"
      BY <1>3, <2>3, OpensFirst
    <3>2. u # Main \/ v # "fd" => local[u][v] = Unset
      BY <1>3, <2>3, OpensFirst
    <3>3. u # Main \/ v # "fd" => local'[u][v] = local[u][v]
      BY <1>3, <3>1
    <3> QED
      BY <3>2, <3>3
  <2> QED
    BY <1>1, <2>1, <2>2, <2>3 DEF ClassInv
<1>4. CASE OpensOne(t)
  <2>1. PICK n \in FreeNumbers, f \in Unheld :
         /\ fdtable' = [fdtable EXCEPT ![n] = f]
         /\ local' = [local EXCEPT ![t][Call(t).on] = n]
         /\ stale' = [stale EXCEPT ![t] = @ \ {Call(t).on}]
    BY <1>4 DEF OpensOne
  <2>2. /\ \A u \in Threads \ {t} : local'[u] = local[u]
        /\ \A v \in Names \ {Call(t).on} : local'[t][v] = local[t][v]
    BY <2>1 DEF TypeInv
  <2>3. Runs(t) /\ Call(t).op \in Opening
    BY <1>4 DEF OpensOne
  <2> QED
    BY <1>3, <2>1, <2>2, <2>3
<1>5. CASE OpensTwo(t)
  <2>1. PICK n0, n1 \in FreeNumbers, f0, f1 \in Unheld :
         /\ n0 # n1 /\ f0 # f1
         /\ fdtable' = [fdtable EXCEPT ![n0] = f0, ![n1] = f1]
         /\ local' = [local EXCEPT ![t]["fd"] = n0, ![t]["fd2"] = n1]
         /\ stale' = [stale EXCEPT ![t] = @ \ {"fd", "fd2"}]
    BY <1>5 DEF OpensTwo
  <2>2. /\ \A u \in Threads \ {t} : local'[u] = local[u]
        /\ \A v \in Names \ {"fd", "fd2"} : local'[t][v] = local[t][v]
    BY <2>1 DEF TypeInv
  <2>3. Runs(t) /\ Call(t).op \in Opening /\ Call(t).op # "socket"
    BY <1>5 DEF OpensTwo
  <2> QED
    BY <1>3, <2>1, <2>2, <2>3
<1>6. CASE FailsToOpen(t)
  <2> DEFINE names == IF Call(t).op = "socket" THEN {Call(t).on} ELSE {"fd", "fd2"}
  <2>1. /\ local' = [local EXCEPT ![t] = [v \in Names |-> IF v \in names THEN Unset ELSE @[v]]]
        /\ stale' = [stale EXCEPT ![t] = @ \ names]
        /\ Runs(t) /\ Call(t).op \in Opening
    BY <1>6 DEF FailsToOpen
  <2>2. Call(t).op = "socket" => names = {Call(t).on}
    OBVIOUS
  <2> HIDE DEF names
  <2>3. /\ \A u \in Threads \ {t} : local'[u] = local[u]
        /\ \A v \in Names \ names : local'[t][v] = local[t][v]
    BY <2>1 DEF TypeInv
  <2> QED
    BY <1>3, <2>1, <2>2, <2>3
<1>7. CASE Closes(t)
  <2>1. ~NeverCloses(P)
    BY <1>7, LiveCalls DEF Closes, Runs, NeverCloses
  <2>2. local' = local
    BY <1>7 DEF Closes
  <2> QED
    BY <1>1, <2>1, <2>2 DEF ClassInv
<1>8. CASE Spawns(t)
  <2> DEFINE u == Call(t).num
             v == Call(t).on
  <2>1. /\ t = Main /\ u \in Threads /\ u # Main
        /\ v \in {"fd", "fd2", "NULL", "&fd2"} /\ Creates(P, pc[Main], u)
        /\ Call(t) = P.main[pc[Main]]
    BY <1>8, Created, LiveCalls DEF Spawns, Runs
  <2>2. /\ local' = [local EXCEPT ![u]["arg"] = ValueOf(t, v)]
        /\ stale' = [stale EXCEPT ![u] = IF v \in stale[t] THEN {"arg"} ELSE {}]
    BY <1>8 DEF Spawns
  <2>3. OneNumber(P) => v = "fd"
    BY <2>1 DEF OneNumber, Creates
  <2> HIDE DEF u, v
  <2>4. NeverCloses(P) => \A w \in Threads : stale'[w] = {}
    BY <2>2 DEF ClassInv, TypeInv
  <2>5. /\ local'[u]["arg"] = ValueOf(t, v)
        /\ local'[u]["fd"] = local[u]["fd"] /\ local'[u]["fd2"] = local[u]["fd2"]
        /\ \A w \in Threads : w # u => local'[w] = local[w]
    BY <2>1, <2>2 DEF TypeInv
  <2>6. v = "fd" => ValueOf(t, v) = local[Main]["fd"]
    BY <2>1 DEF ValueOf
  <2> QED
    BY <1>1, <2>1, <2>3, <2>4, <2>5, <2>6 DEF ClassInv
<1> QED
  BY <1>2, <1>4, <1>5, <1>6, <1>7, <1>8 DEF Effect

\* StaleInv, NamedInv.

\* t sets the variables in names, and what is opened or set aside is no number
\* that a live thread has in a stale variable that stays as it was.
SetsOnly(t, names) ==
    /\ stale' = [stale EXCEPT ![t] = @ \ names]
    /\ \A u \in Threads, v \in Names : u # t \/ v \notin names => local'[u][v] = local[u][v]
    /\ \A n \in 0 .. MaxFd : fdtable'[n] # NoFile /\ fdtable[n] = NoFile =>
         \A u \in Threads : Live(u) =>
           \A v \in Names : (u # t \/ v \notin names) /\ v \in stale[u] => local[u][v] # n

\* Such a step preserves StaleInv.
LEMMA StaleReturn ==
    ASSUME TypeInv, ThreadInv, StaleInv, NEW t \in Threads, Runs(t), Returns(t),
           NEW names, SetsOnly(t, names)
    PROVE  StaleInv'
<1>1. ASSUME NEW u \in Threads, Live(u)', NEW v \in stale'[u], local'[u][v] \in 0 .. MaxFd
      PROVE  fdtable'[local'[u][v]] = NoFile /\ local'[u][v] \notin Range(reserved')
  <2>1. Live(u) /\ v \in Names /\ v \in stale[u] /\ (u # t \/ v \notin names)
    BY <1>1, Others DEF TypeInv, SetsOnly
  <2>2. local'[u][v] = local[u][v]
    BY <2>1 DEF SetsOnly
  <2>3. fdtable[local[u][v]] = NoFile /\ local[u][v] \notin Range(reserved)
    BY <1>1, <2>1, <2>2 DEF StaleInv
  <2>4. fdtable'[local[u][v]] = NoFile
    BY <1>1, <2>1, <2>2, <2>3 DEF SetsOnly
  <2>5. \A w \in Threads : reserved'[w] = reserved[w] \/ reserved'[w] \notin 0 .. MaxFd
    BY Others, Domains
  <2>6. DOMAIN reserved = Threads /\ DOMAIN reserved' = Threads
    BY DEF TypeInv, Returns
  <2>7. local[u][v] \notin Range(reserved')
    BY <1>1, <2>2, <2>3, <2>5, <2>6 DEF Range
  <2> QED
    BY <2>2, <2>4, <2>7
<1> QED
  BY <1>1 DEF StaleInv

\* When a program that closes descriptors opens one, no live thread has a stale
\* number, except main in the variables it now sets.
LEMMA NothingToLose ==
    ASSUME TypeInv, ThreadInv, VariableInv, ClassInv, NEW t \in Threads, Runs(t),
           Call(t).op \in Opening,
           NEW names, names = IF Call(t).op = "socket" THEN {Call(t).on} ELSE {"fd", "fd2"},
           NEW u \in Threads, Live(u), NEW v \in stale[u], u # t \/ v \notin names
    PROVE  local[u][v] = Unset
<1>1. Harmless(P) /\ v \in Names
  BY GoodProgram DEF Good, TypeInv
<1>2. Sequential(P) /\ (PairsOnly(P) \/ SocketsOnly(P))
  BY <1>1 DEF Harmless, ClassInv
<1>3. t = Main /\ u = Main
  BY <1>2, OpensAlone
<1>4. pc[Main] \in DOMAIN P.main /\ Call(t) = P.main[pc[Main]]
  BY <1>3, LiveCalls DEF Runs
<1>5. CASE PairsOnly(P)
  <2>1. names = {"fd", "fd2"}
    BY <1>4, <1>5 DEF PairsOnly
  <2> QED
    BY <1>1, <1>3, <2>1 DEF VariableInv
<1>6. CASE SocketsOnly(P)
  <2>1. names = {"fd"}
    BY <1>4, <1>6 DEF SocketsOnly
  <2> QED
    BY <1>1, <1>3, <1>6, <2>1 DEF VariableInv, ClassInv
<1> QED
  BY <1>2, <1>5, <1>6

\* Every step preserves StaleInv.
LEMMA StalePreserved ==
    ASSUME TypeInv, ThreadInv, TableInv, VariableInv, ClassInv, StaleInv, NamedInv,
           NEW t \in Threads, Effect(t)
    PROVE  StaleInv'
<1>1. stale = [stale EXCEPT ![t] = @ \ {}]
  BY DEF TypeInv
<1>2. CASE Passes(t)
  <2>1. stale' = [stale EXCEPT ![t] = @ \ {}] /\ Runs(t) /\ Returns(t) /\ local' = local
        /\ fdtable' = fdtable
    BY <1>1, <1>2 DEF Passes
  <2>2. SetsOnly(t, {})
    BY <2>1 DEF SetsOnly
  <2> QED
    BY <2>1, <2>2, StaleReturn
<1>3. CASE Enters(t)
  <2>1. /\ \A u \in Threads : Live(u)' <=> Live(u)
        /\ stale' = stale /\ local' = local /\ fdtable' = fdtable
    BY <1>3 DEF Enters, Live, Ended, Script
  <2>2. CASE reserved' = reserved
    BY <2>1, <2>2 DEF StaleInv
  <2>3. CASE Call(t).op = "accept"
        /\ \E n \in FreeNumbers : reserved' = [reserved EXCEPT ![t] = n]
    <3>1. PICK n \in FreeNumbers : reserved' = [reserved EXCEPT ![t] = n]
      BY <2>3
    <3>2. \A m : m \in Range(reserved') => m \in Range(reserved) \/ m = n
      BY <3>1 DEF Range, TypeInv
    <3>3. ASSUME NEW u \in Threads, Live(u), NEW v \in stale[u], local[u][v] \in 0 .. MaxFd
          PROVE  local[u][v] # n
      <4>1. Harmless(P) /\ v \in Names
        BY GoodProgram DEF Good, TypeInv
      <4>2. ~NoAccept(P)
        BY <1>3, <2>3, LiveCalls DEF NoAccept, Enters, Runs
      <4>3. Sequential(P) /\ OneNumber(P)
        BY <3>3, <4>1, <4>2 DEF Harmless, ClassInv
      <4>4. Call(t).on \in Names
        BY <1>3, <2>3, LiveCalls DEF Enters, Runs, MainCall, ThreadCall
      <4>5. local[t][Call(t).on] \in 0 .. MaxFd /\ fdtable[local[t][Call(t).on]] # NoFile
        BY <1>3 DEF Enters, Named, TypeInv
      <4>6. local[u][v] = local[Main]["fd"] /\ local[t][Call(t).on] = local[Main]["fd"]
        BY <3>3, <4>1, <4>3, <4>4, <4>5, Domains DEF ClassInv
      <4> QED
        BY <4>5, <4>6, FreeFacts
    <3> QED
      BY <2>1, <3>2, <3>3 DEF StaleInv
  <2> QED
    BY <1>3, <2>2, <2>3 DEF Enters
<1>4. CASE Drops(t)
  <2>1. /\ \A u \in Threads : Live(u)' <=> Live(u)
        /\ stale' = stale /\ local' = local /\ fdtable' = fdtable /\ reserved' = reserved
    BY <1>4 DEF Drops, Live, Ended, Script
  <2> QED
    BY <2>1 DEF StaleInv
<1>5. CASE OpensOne(t)
  <2> DEFINE names == {Call(t).on}
  <2>1. PICK n \in FreeNumbers, f \in Unheld :
         /\ fdtable' = [fdtable EXCEPT ![n] = f]
         /\ local' = [local EXCEPT ![t][Call(t).on] = n]
         /\ stale' = [stale EXCEPT ![t] = @ \ {Call(t).on}]
    BY <1>5 DEF OpensOne
  <2>2. Runs(t) /\ Returns(t) /\ Call(t).op = "socket"
    BY <1>5 DEF OpensOne
  <2>3. \A u \in Threads, v \in Names : u # t \/ v \notin names => local'[u][v] = local[u][v]
    BY <2>1 DEF TypeInv
  <2>4. \A u \in Threads : Live(u) =>
          \A v \in Names : (u # t \/ v \notin names)
          /\ v \in stale[u] => local[u][v] \notin 0 .. MaxFd
    BY <2>2, NothingToLose, Domains
  <2>5. stale' = [stale EXCEPT ![t] = @ \ names]
    BY <2>1
  <2> HIDE DEF names
  <2>6. SetsOnly(t, names)
    BY <2>3, <2>4, <2>5 DEF SetsOnly
  <2> QED
    BY <2>2, <2>6, StaleReturn
<1>6. CASE OpensTwo(t)
  <2> DEFINE names == {"fd", "fd2"}
  <2>1. PICK n0, n1 \in FreeNumbers, f0, f1 \in Unheld :
         /\ n0 # n1 /\ f0 # f1
         /\ fdtable' = [fdtable EXCEPT ![n0] = f0, ![n1] = f1]
         /\ local' = [local EXCEPT ![t]["fd"] = n0, ![t]["fd2"] = n1]
         /\ stale' = [stale EXCEPT ![t] = @ \ {"fd", "fd2"}]
    BY <1>6 DEF OpensTwo
  <2>2. Runs(t) /\ Returns(t) /\ Call(t).op \in Opening /\ Call(t).op # "socket"
    BY <1>6 DEF OpensTwo
  <2>3. \A u \in Threads, v \in Names : u # t \/ v \notin names => local'[u][v] = local[u][v]
    BY <2>1 DEF TypeInv
  <2>4. \A u \in Threads : Live(u) =>
          \A v \in Names : (u # t \/ v \notin names)
          /\ v \in stale[u] => local[u][v] \notin 0 .. MaxFd
    BY <2>2, NothingToLose, Domains
  <2>5. stale' = [stale EXCEPT ![t] = @ \ names]
    BY <2>1
  <2> HIDE DEF names
  <2>6. SetsOnly(t, names)
    BY <2>3, <2>4, <2>5 DEF SetsOnly
  <2> QED
    BY <2>2, <2>6, StaleReturn
<1>7. CASE FailsToOpen(t)
  <2> DEFINE names == IF Call(t).op = "socket" THEN {Call(t).on} ELSE {"fd", "fd2"}
  <2>1. /\ local' = [local EXCEPT ![t] = [v \in Names |-> IF v \in names THEN Unset ELSE @[v]]]
        /\ stale' = [stale EXCEPT ![t] = @ \ names]
        /\ Runs(t) /\ Returns(t) /\ fdtable' = fdtable
    BY <1>7 DEF FailsToOpen
  <2> HIDE DEF names
  <2>3. \A u \in Threads, v \in Names : u # t \/ v \notin names => local'[u][v] = local[u][v]
    BY <2>1 DEF TypeInv
  <2>4. SetsOnly(t, names)
    BY <2>1, <2>3 DEF SetsOnly
  <2> QED
    BY <2>1, <2>4, StaleReturn
<1>8. CASE Closes(t)
  <2> DEFINE n == local[t][Call(t).on]
  <2>1. /\ Runs(t) /\ Returns(t) /\ local' = local
        /\ \A m \in 0 .. MaxFd : fdtable'[m] = IF m = n THEN NoFile ELSE fdtable[m]
        /\ \A u \in Threads : stale'[u] = stale[u] \cup {v \in Names : local[u][v] = n}
    BY <1>8 DEF Closes
  <2>2. Call(t).on \in Names
    BY <1>8, LiveCalls DEF Closes, Runs, MainCall, ThreadCall
  <2>3. n \in 0 .. MaxFd => n \notin Range(reserved)
    <3>1. CASE Call(t).on \in stale[t]
      BY <2>1, <3>1 DEF StaleInv, Runs
    <3>2. CASE Call(t).on \notin stale[t]
      <4>1. n \in 0 .. MaxFd => fdtable[n] # NoFile
        BY <2>2, <3>2 DEF NamedInv
      <4>2. \A w \in Threads : reserved[w] \in 0 .. MaxFd => fdtable[reserved[w]] = NoFile
        BY Domains DEF TableInv
      <4> QED
        BY <4>1, <4>2 DEF Range, TypeInv
    <3> QED
      BY <3>1, <3>2
  <2> HIDE DEF n
  <2>4. \A w \in Threads : reserved'[w] = reserved[w] \/ reserved'[w] \notin 0 .. MaxFd
    BY <2>1, Others, Domains
  <2>5. DOMAIN reserved = Threads /\ DOMAIN reserved' = Threads
    BY <2>1 DEF TypeInv, Returns
  <2>6. ASSUME NEW u \in Threads, Live(u)', NEW v \in stale'[u], local'[u][v] \in 0 .. MaxFd
        PROVE  fdtable'[local'[u][v]] = NoFile /\ local'[u][v] \notin Range(reserved')
    <3>1. Live(u) /\ (v \in stale[u] \/ local[u][v] = n)
      BY <2>1, <2>6, Others
    <3>2. CASE local[u][v] = n
      BY <2>1, <2>3, <2>4, <2>5, <2>6, <3>2 DEF Range
    <3>3. CASE v \in stale[u]
      <4>1. fdtable[local[u][v]] = NoFile /\ local[u][v] \notin Range(reserved)
        BY <2>1, <2>6, <3>1, <3>3 DEF StaleInv
      <4> QED
        BY <2>1, <2>4, <2>5, <2>6, <4>1 DEF Range
    <3> QED
      BY <3>1, <3>2, <3>3
  <2> QED
    BY <2>6 DEF StaleInv
<1>9. CASE Accepts(t)
  <2>1. PICK f \in Unheld : fdtable' = [fdtable EXCEPT ![reserved[t]] = f]
    BY <1>9 DEF Accepts
  <2>2. /\ stale' = [stale EXCEPT ![t] = @ \ {}] /\ Runs(t) /\ Returns(t) /\ local' = local
    BY <1>1, <1>9 DEF Accepts
  <2>3. /\ reserved[t] \in Range(reserved)
        /\ \A m \in 0 .. MaxFd : m # reserved[t] => fdtable'[m] = fdtable[m]
    BY <2>1 DEF TypeInv, Range
  <2>4. SetsOnly(t, {})
    BY <2>2, <2>3 DEF SetsOnly, StaleInv
  <2> QED
    BY <2>2, <2>4, StaleReturn
<1>10. CASE Spawns(t)
  <2> DEFINE u == Call(t).num
             v == Call(t).on
  <2>1. /\ t = Main /\ u \in Threads /\ u # Main /\ pc[u] = 0
        /\ v \in {"fd", "fd2", "NULL", "&fd2"} /\ Live(t)
    BY <1>10, Created DEF Spawns, Runs
  <2>2. /\ local' = [local EXCEPT ![u]["arg"] = ValueOf(t, v)]
        /\ stale' = [stale EXCEPT ![u] = IF v \in stale[t] THEN {"arg"} ELSE {}]
        /\ pc' = [pc EXCEPT ![t] = @ + 1, ![u] = 1]
        /\ program' = program /\ fdtable' = fdtable /\ reserved' = reserved
    BY <1>10 DEF Spawns
  <2> HIDE DEF u, v
  <2>3. /\ local'[u]["arg"] = ValueOf(t, v)
        /\ stale'[u] = IF v \in stale[t] THEN {"arg"} ELSE {}
        /\ \A w \in Threads : w # u => local'[w] = local[w] /\ stale'[w] = stale[w]
    BY <2>1, <2>2 DEF TypeInv
  <2>4. v \in stale[t] => v \in {"fd", "fd2"} /\ ValueOf(t, v) = local[t][v]
    BY <2>1 DEF ValueOf, TypeInv
  <2>5. ASSUME NEW w \in Threads, w # u, Live(w)'
        PROVE  Live(w)
    <3>1. Script(w)' = Script(w)
      BY <2>2 DEF Script
    <3>2. CASE w = t
      BY <2>1, <3>2
    <3>3. CASE w # t
      <4>1. pc'[w] = pc[w]
        BY <2>2, <2>5, <3>3 DEF TypeInv
      <4> QED
        BY <2>5, <3>1, <4>1 DEF Live, Ended
    <3> QED
      BY <3>2, <3>3
  <2>6. ASSUME NEW w \in Threads, Live(w)', NEW x \in stale'[w], local'[w][x] \in 0 .. MaxFd
        PROVE  fdtable'[local'[w][x]] = NoFile /\ local'[w][x] \notin Range(reserved')
    <3>1. CASE w = u
      <4>1. v \in stale[t] /\ x = "arg"
        BY <2>3, <2>6, <3>1
      <4> QED
        BY <2>1, <2>2, <2>3, <2>4, <2>6, <3>1, <4>1 DEF StaleInv
    <3>2. CASE w # u
      BY <2>2, <2>3, <2>5, <2>6, <3>2 DEF StaleInv
    <3> QED
      BY <3>1, <3>2
  <2> QED
    BY <2>6 DEF StaleInv
<1>11. CASE Jumps(t)
  <2>1. /\ \A u \in Threads : Live(u)' => Live(u)
        /\ stale' = stale /\ local' = local /\ fdtable' = fdtable /\ reserved' = reserved
    BY <1>11 DEF Jumps, Runs, Live, Ended, Script, TypeInv
  <2> QED
    BY <2>1 DEF StaleInv
<1> QED
  BY <1>2, <1>3, <1>4, <1>5, <1>6, <1>7, <1>8, <1>9, <1>10, <1>11 DEF Effect

\* Every step preserves NamedInv.
LEMMA NamedPreserved ==
    ASSUME TypeInv, ThreadInv, TableInv, VariableInv, NamedInv, NEW t \in Threads, Effect(t)
    PROVE  NamedInv'
<1>1. CASE Passes(t) \/ Enters(t) \/ Drops(t) \/ Jumps(t)
  BY <1>1 DEF Passes, Enters, Drops, Jumps, NamedInv
<1>2. CASE OpensOne(t)
  <2>1. PICK n \in FreeNumbers, f \in Unheld :
         /\ fdtable' = [fdtable EXCEPT ![n] = f]
         /\ local' = [local EXCEPT ![t][Call(t).on] = n]
         /\ stale' = [stale EXCEPT ![t] = @ \ {Call(t).on}]
    BY <1>2 DEF OpensOne
  <2>2. n \in 0 .. MaxFd /\ f # NoFile
    BY FreeFacts
  <2>3. fdtable'[n] # NoFile
        /\ \A m \in 0 .. MaxFd : fdtable[m] # NoFile => fdtable'[m] # NoFile
    BY <2>1, <2>2 DEF TypeInv
  <2>4. \A u \in Threads, v \in Names : IF u = t /\ v = Call(t).on THEN local'[u][v] = n
          ELSE local'[u][v] = local[u][v] /\ (v \in stale[u] => v \in stale'[u])
    BY <2>1 DEF TypeInv
  <2> QED
    BY <2>3, <2>4 DEF NamedInv
<1>3. CASE OpensTwo(t)
  <2>1. PICK n0, n1 \in FreeNumbers, f0, f1 \in Unheld :
         /\ n0 # n1 /\ f0 # f1
         /\ fdtable' = [fdtable EXCEPT ![n0] = f0, ![n1] = f1]
         /\ local' = [local EXCEPT ![t]["fd"] = n0, ![t]["fd2"] = n1]
         /\ stale' = [stale EXCEPT ![t] = @ \ {"fd", "fd2"}]
    BY <1>3 DEF OpensTwo
  <2>2. n0 \in 0 .. MaxFd /\ f0 # NoFile /\ n1 \in 0 .. MaxFd /\ f1 # NoFile
    BY FreeFacts
  <2>3. /\ fdtable'[n0] # NoFile /\ fdtable'[n1] # NoFile
        /\ \A m \in 0 .. MaxFd : fdtable[m] # NoFile => fdtable'[m] # NoFile
    BY <2>1, <2>2 DEF TypeInv
  <2>4. \A u \in Threads, v \in Names : IF u = t
        /\ v \in {"fd", "fd2"} THEN local'[u][v] \in {n0, n1}
          ELSE local'[u][v] = local[u][v] /\ (v \in stale[u] => v \in stale'[u])
    BY <2>1 DEF TypeInv
  <2> QED
    BY <2>3, <2>4 DEF NamedInv
<1>4. CASE FailsToOpen(t)
  <2> DEFINE names == IF Call(t).op = "socket" THEN {Call(t).on} ELSE {"fd", "fd2"}
  <2>1. /\ local' = [local EXCEPT ![t] = [v \in Names |-> IF v \in names THEN Unset ELSE @[v]]]
        /\ stale' = [stale EXCEPT ![t] = @ \ names] /\ fdtable' = fdtable
    BY <1>4 DEF FailsToOpen
  <2> HIDE DEF names
  <2>2. \A u \in Threads, v \in Names : IF u = t /\ v \in names THEN local'[u][v] = Unset
          ELSE local'[u][v] = local[u][v] /\ (v \in stale[u] => v \in stale'[u])
    BY <2>1 DEF TypeInv
  <2> QED
    BY <2>1, <2>2, Domains DEF NamedInv
<1>5. CASE Closes(t)
  <2> DEFINE n == local[t][Call(t).on]
  <2>1. /\ local' = local
        /\ \A m \in 0 .. MaxFd : fdtable'[m] = IF m = n THEN NoFile ELSE fdtable[m]
        /\ \A u \in Threads : stale'[u] = stale[u] \cup {v \in Names : local[u][v] = n}
    BY <1>5 DEF Closes
  <2> HIDE DEF n
  <2> QED
    BY <2>1 DEF NamedInv
<1>6. CASE Accepts(t)
  <2>1. PICK f \in Unheld : fdtable' = [fdtable EXCEPT ![reserved[t]] = f]
    BY <1>6 DEF Accepts
  <2>2. f # NoFile
    BY FreeFacts
  <2>3. \A m \in 0 .. MaxFd : fdtable[m] # NoFile => fdtable'[m] # NoFile
    BY <2>1, <2>2 DEF TypeInv
  <2> QED
    BY <1>6, <2>3 DEF Accepts, NamedInv
<1>7. CASE Spawns(t)
  <2> DEFINE u == Call(t).num
             v == Call(t).on
  <2>1. /\ t = Main /\ u \in Threads /\ u # Main /\ pc[u] = 0
        /\ v \in {"fd", "fd2", "NULL", "&fd2"}
    BY <1>7, Created DEF Spawns
  <2>2. /\ local' = [local EXCEPT ![u]["arg"] = ValueOf(t, v)]
        /\ stale' = [stale EXCEPT ![u] = IF v \in stale[t] THEN {"arg"} ELSE {}]
        /\ fdtable' = fdtable
    BY <1>7 DEF Spawns
  <2> HIDE DEF u, v
  <2>3. /\ local'[u]["arg"] = ValueOf(t, v)
        /\ local'[u]["fd"] = Unset /\ local'[u]["fd2"] = Unset
        /\ stale'[u] = IF v \in stale[t] THEN {"arg"} ELSE {}
        /\ \A w \in Threads : w # u => local'[w] = local[w] /\ stale'[w] = stale[w]
    BY <2>1, <2>2 DEF TypeInv, VariableInv
  <2>4. v \notin stale[t] /\ ValueOf(t, v) \in 0 .. MaxFd => fdtable[ValueOf(t, v)] # NoFile
    <3>1. CASE v = "NULL"
      BY <3>1, Domains DEF ValueOf, TableInv
    <3>2. CASE v = "&fd2"
      BY <3>2, Domains DEF ValueOf
    <3>3. CASE v \in {"fd", "fd2"}
      BY <3>3 DEF ValueOf, NamedInv
    <3> QED
      BY <2>1, <3>1, <3>2, <3>3
  <2>5. ASSUME NEW w \in Threads, NEW x \in Names \ stale'[w], local'[w][x] \in 0 .. MaxFd
        PROVE  fdtable'[local'[w][x]] # NoFile
    <3>1. CASE w = u
      <4>1. x = "arg" /\ v \notin stale[t]
        BY <2>3, <2>5, <3>1, Domains
      <4> QED
        BY <2>2, <2>3, <2>4, <2>5, <3>1, <4>1
    <3>2. CASE w # u
      BY <2>2, <2>3, <2>5, <3>2 DEF NamedInv
    <3> QED
      BY <3>1, <3>2
  <2> QED
    BY <2>5 DEF NamedInv
<1> QED
  BY <1>1, <1>2, <1>3, <1>4, <1>5, <1>6, <1>7 DEF Effect

\* Every step preserves CloseInv.
LEMMA ClosePreserved ==
    ASSUME TypeInv, ThreadInv, VariableInv, CloseInv, NEW t \in Threads, Effect(t)
    PROVE  CloseInv'
<1>1. P' = P /\ Main \in Threads /\ \A u \in Threads : Script(u)' = Script(u)
  BY Domains
     DEF Effect, Passes, Enters, Drops, OpensOne, OpensTwo, FailsToOpen, Closes, Accepts,
     Spawns, Jumps, Returns, P, Script
<1> SUFFICES ASSUME ClosesOne(P)
             PROVE  CloseInv'
  BY <1>1 DEF CloseInv
<1>2. /\ \A u \in Threads \ {Main} : pc[u] > 0 => local[u]["arg"] = local[Main]["fd"]
      /\ ClosedOne /\ local[Main]["fd"] \in 0 .. MaxFd =>
           \A u \in Threads, v \in Names : local[u][v] = local[Main]["fd"] => v \in stale[u]
  BY DEF CloseInv
<1>3. ClosedOne' <=> \E u \in Threads : \E c \in 1 .. pc'[u] - 1 : Script(u)[c].op = "close"
  BY <1>1 DEF ClosedOne
\* A call that is no close closes nothing.
<1>4. ASSUME Runs(t), Returns(t), Call(t).op # "close", ClosedOne'
      PROVE  ClosedOne
  <2>0. PICK u \in Threads : \E c \in 1 .. pc'[u] - 1 : Script(u)[c].op = "close"
    BY <1>3, <1>4
  <2>1. PICK c \in 1 .. pc'[u] - 1 : Script(u)[c].op = "close"
    BY <2>0
  <2>2. c \in 1 .. pc[u] - 1
    <3>1. CASE u # t
      BY <1>4, <3>1, Others
    <3>2. CASE u = t
      <4>1. pc'[u] = pc[u] + 1 /\ pc[u] \in Nat
        BY <1>4, <3>2, Others DEF TypeInv
      <4>2. c # pc[u]
        BY <1>4, <2>1, <3>2 DEF Call
      <4> QED
        BY <4>1, <4>2
    <3> QED
      BY <3>1, <3>2
  <2> QED
    BY <2>1, <2>2 DEF ClosedOne
<1>5. ASSUME Runs(t), Returns(t), NEW u \in Threads, pc'[u] > 0
      PROVE  pc[u] > 0
  BY <1>5, Others DEF Runs, Live
<1>6. CASE Passes(t) \/ Accepts(t)
  <2>1. /\ Runs(t) /\ Returns(t) /\ Call(t).op # "close" /\ local' = local /\ stale' = stale
    BY <1>6 DEF Passes, Accepts
  <2> QED
    BY <1>1, <1>2, <1>4, <1>5, <2>1 DEF CloseInv
<1>7. CASE Enters(t) \/ Drops(t)
  <2>1. local' = local /\ stale' = stale /\ pc' = pc
    BY <1>7 DEF Enters, Drops
  <2>2. ClosedOne' <=> ClosedOne
    BY <1>3, <2>1 DEF ClosedOne
  <2> QED
    BY <1>1, <1>2, <2>1, <2>2 DEF CloseInv
<1>8. CASE OpensOne(t) \/ OpensTwo(t) \/ FailsToOpen(t)
  <2>1. Runs(t) /\ Returns(t) /\ Call(t).op \in Opening
    BY <1>8 DEF OpensOne, OpensTwo, FailsToOpen
  <2>2. t = Main
    BY <2>1, LiveCalls DEF Runs, ClosesOne
  <2>3. pc[Main] = 1
    BY <2>1, <2>2, LiveCalls DEF Runs, ClosesOne
  <2>4. ASSUME NEW u \in Threads, u # Main
        PROVE  ~(pc[u] > 0)
    <3>1. CASE u \notin DOMAIN P.threads
      BY <2>4, <3>1 DEF ThreadInv
    <3>2. CASE u \in DOMAIN P.threads
      <4>1. ~ \E i \in 1 .. pc[Main] - 1 : Creates(P, i, u)
        BY <2>3
      <4> QED
        BY <3>2, <4>1 DEF ThreadInv
    <3> QED
      BY <3>1, <3>2
  <2>5. ~ClosedOne
    <3>1. ASSUME NEW u \in Threads
          PROVE  pc[u] = 0 \/ pc[u] = 1
      <4>1. pc[u] \in Nat
        BY DEF TypeInv
      <4> QED
        BY <2>3, <2>4, <4>1
    <3>2. \A u \in Threads : \A c \in 1 .. pc[u] - 1 : FALSE
      BY <3>1
    <3> QED
      BY <3>2 DEF ClosedOne
  <2> QED
    BY <1>4, <1>5, <2>1, <2>4, <2>5 DEF CloseInv
<1>9. CASE Closes(t)
  <2>1. /\ Runs(t) /\ Returns(t) /\ local' = local /\ Call(t).op = "close"
        /\ \A u \in Threads : stale'[u] = stale[u]
           \cup {v \in Names : local[u][v] = local[t][Call(t).on]}
    BY <1>9 DEF Closes
  <2>2. local[t][Call(t).on] = local[Main]["fd"]
    <3>1. CASE t = Main
      BY <2>1, <3>1, LiveCalls DEF Runs, ClosesOne
    <3>2. CASE t # Main
      <4>1. Call(t).on = "arg" /\ pc[t] > 0
        BY <2>1, <3>2, LiveCalls DEF Runs, Live, ClosesOne
      <4> QED
        BY <1>2, <3>2, <4>1
    <3> QED
      BY <3>1, <3>2
  <2> QED
    BY <1>1, <1>2, <1>5, <2>1, <2>2 DEF CloseInv
<1>10. CASE Spawns(t)
  <2> DEFINE u == Call(t).num
             v == Call(t).on
  <2>1. /\ t = Main /\ u \in Threads /\ u # Main /\ pc[u] = 0 /\ Creates(P, pc[Main], u)
        /\ Runs(t) /\ Call(t).op = "create"
    BY <1>10, Created DEF Spawns
  <2>2. v = "fd"
    BY <2>1, LiveCalls DEF Runs, ClosesOne
  <2>3. /\ local' = [local EXCEPT ![u]["arg"] = local[Main]["fd"]]
        /\ stale' = [stale EXCEPT ![u] = IF "fd" \in stale[Main] THEN {"arg"} ELSE {}]
        /\ pc' = [pc EXCEPT ![t] = @ + 1, ![u] = 1]
    BY <1>10, <2>1, <2>2 DEF Spawns, ValueOf
  <2> HIDE DEF u, v
  <2>4. /\ local'[u]["arg"] = local[Main]["fd"]
        /\ local'[u]["fd"] = Unset /\ local'[u]["fd2"] = Unset
        /\ stale'[u] = IF "fd" \in stale[Main] THEN {"arg"} ELSE {}
        /\ \A w \in Threads : w # u => local'[w] = local[w] /\ stale'[w] = stale[w]
    BY <2>1, <2>3 DEF TypeInv, VariableInv
  <2>5. /\ pc'[Main] = pc[Main] + 1 /\ pc'[u] = 1 /\ pc[Main] \in Nat
        /\ \A w \in Threads : w # u /\ w # Main => pc'[w] = pc[w]
    BY <1>1, <2>1, <2>3 DEF TypeInv
  <2>6. ASSUME ClosedOne'
        PROVE  ClosedOne
    <3>0. PICK w \in Threads : \E c \in 1 .. pc'[w] - 1 : Script(w)[c].op = "close"
      BY <1>3, <2>6
    <3>1. PICK c \in 1 .. pc'[w] - 1 : Script(w)[c].op = "close"
      BY <3>0
    <3>2. w # u
      BY <2>5, <3>1
    <3>3. w = Main => c # pc[Main]
      BY <2>1, <3>1 DEF Call
    <3>4. c \in 1 .. pc[w] - 1
      BY <2>5, <3>2, <3>3
    <3> QED
      BY <3>1, <3>4 DEF ClosedOne
  <2>7. \A w \in Threads \ {Main} : pc'[w] > 0 => local'[w]["arg"] = local'[Main]["fd"]
    BY <1>1, <1>2, <2>1, <2>4, <2>5
  <2>8. ASSUME ClosedOne', local'[Main]["fd"] \in 0 .. MaxFd, NEW w \in Threads,
      NEW x \in Names,
               local'[w][x] = local'[Main]["fd"]
        PROVE  x \in stale'[w]
    <3>1. /\ local'[Main]["fd"] = local[Main]["fd"]
          /\ \A y \in Threads, z \in Names : local[y][z] = local[Main]["fd"] => z \in stale[y]
      BY <1>1, <1>2, <2>1, <2>4, <2>6, <2>8
    <3>2. CASE w = u
      <4>1. x = "arg"
        BY <2>4, <2>8, <3>2, Domains
      <4>2. "fd" \in stale[Main]
        BY <1>1, <3>1
      <4> QED
        BY <2>4, <3>2, <4>1, <4>2
    <3>3. CASE w # u
      BY <2>4, <2>8, <3>1, <3>3
    <3> QED
      BY <3>2, <3>3
  <2> QED
    BY <2>7, <2>8 DEF CloseInv
<1>11. CASE Jumps(t)
  BY <1>11, LiveCalls DEF Jumps, Runs, ClosesOne, MainCall, ThreadCall
<1> QED
  BY <1>6, <1>7, <1>8, <1>9, <1>10, <1>11 DEF Effect

\* The numbers are finitely many.
LEMMA FreeFinite == ASSUME TypeInv PROVE IsFiniteSet(FreeNumbers)
<1>1. IsFiniteSet(0 .. MaxFd)
  <2>1. 0 \in Int /\ MaxFd \in Int
    BY Domains
  <2> QED
    BY <2>1, FS_Interval
<1>2. FreeNumbers \subseteq 0 .. MaxFd
  BY FreeFacts
<1> QED
  BY <1>1, <1>2, FS_Subset

\* Every step preserves PipeInv: with numbers 1 and 2 free, pipe() does not run
\* out of descriptors.
LEMMA PipePreserved ==
    ASSUME MaxFd >= 2, TypeInv, ThreadInv, TableInv, PipeInv, NEW t \in Threads, Effect(t)
    PROVE  PipeInv'
<1>1. program' = program /\ fault' = fault /\ Runs(t)
  BY DEF Effect, Passes, Enters, Drops, OpensOne, OpensTwo, FailsToOpen, Closes, Accepts,
     Spawns, Jumps, Returns
<1> SUFFICES ASSUME program = "pipe_pipe_pipe"
             PROVE  PipeInv'
  BY <1>1 DEF PipeInv
<1>2. /\ t = Main /\ pc[Main] \in 1 .. 4 /\ Call(t) = P.main[pc[Main]]
      /\ \A u \in Threads : holds[u] = NoFile
  BY <1>1, PipeLoopCalls, LiveCalls DEF Runs, PipeInv
<1>3. \/ pc[Main] = 1 /\ Call(t).op = "pipe"
      \/ pc[Main] = 2 /\ Call(t).op = "close" /\ Call(t).on = "fd" /\ ~Call(t).must
      \/ pc[Main] = 3 /\ Call(t).op = "close" /\ Call(t).on = "fd2" /\ ~Call(t).must
      \/ pc[Main] = 4 /\ Call(t).op = "goto" /\ Call(t).num = 1
  BY <1>2, PipeLoopCalls
<1>4. \A n \in 1 .. MaxFd : fdtable[n] # NoFile =>
           \/ pc[Main] = 2 /\ n \in {local[Main]["fd"], local[Main]["fd2"]}
           \/ pc[Main] = 3 /\ n = local[Main]["fd2"]
  BY DEF PipeInv
<1>5. ASSUME Returns(t)
      PROVE  pc'[Main] = pc[Main] + 1 /\ \A u \in Threads : holds'[u] = NoFile
  BY <1>1, <1>2, <1>5, Others
<1>6. CASE Passes(t) \/ Enters(t) \/ Drops(t) \/ OpensOne(t) \/ Accepts(t) \/ Spawns(t)
  BY <1>3, <1>6 DEF Passes, Enters, Drops, OpensOne, Accepts, Spawns
<1>7. CASE OpensTwo(t)
  <2>1. pc[Main] = 1 /\ Returns(t) /\ exit' = exit
    BY <1>3, <1>7 DEF OpensTwo
  <2>2. PICK n0, n1 \in FreeNumbers, f0, f1 \in Unheld :
         /\ n0 # n1 /\ f0 # f1
         /\ fdtable' = [fdtable EXCEPT ![n0] = f0, ![n1] = f1]
         /\ local' = [local EXCEPT ![t]["fd"] = n0, ![t]["fd2"] = n1]
         /\ stale' = [stale EXCEPT ![t] = @ \ {"fd", "fd2"}]
    BY <1>7 DEF OpensTwo
  <2>3. /\ \A n \in 0 .. MaxFd : n # n0 /\ n # n1 => fdtable'[n] = fdtable[n]
        /\ local'[Main]["fd"] = n0 /\ local'[Main]["fd2"] = n1
    BY <1>2, <2>2, Domains DEF TypeInv
  <2>4. \A n \in 1 .. MaxFd : fdtable'[n] # NoFile => n \in {n0, n1}
    BY <1>4, <2>1, <2>3, Domains
  <2>5. pc'[Main] = 2 /\ \A u \in Threads : holds'[u] = NoFile
    BY <1>5, <2>1
  <2>6. exit' = "running"
    BY <1>1, <2>1 DEF Runs
  <2> QED
    BY <2>3, <2>4, <2>5, <2>6 DEF PipeInv
<1>8. CASE FailsToOpen(t)
  <2>1. pc[Main] = 1 /\ Returns(t) /\ fdtable' = fdtable
        /\ (fault = "pipe" \/ Cardinality(FreeNumbers) < 2)
    BY <1>3, <1>8 DEF FailsToOpen
  <2>2. Cardinality(FreeNumbers) >= 2
    <3>1. 1 \in 0 .. MaxFd /\ 2 \in 0 .. MaxFd /\ 1 \in 1 .. MaxFd /\ 2 \in 1 .. MaxFd
      BY Domains
    <3>2. fdtable[1] = NoFile /\ fdtable[2] = NoFile
      BY <1>4, <2>1, <3>1
    <3>3. \A u \in Threads : reserved[u] = Unset
      BY <1>2 DEF TableInv
    <3>4. {1, 2} \subseteq FreeNumbers
      BY <3>1, <3>2, <3>3, Domains DEF FreeNumbers, Range, TypeInv
    <3>5. IsFiniteSet(FreeNumbers)
      BY FreeFinite
    <3>6. Cardinality({1, 2}) = 2
      <4>1. IsFiniteSet({1}) /\ Cardinality({1}) = 1
        BY FS_Singleton
      <4>2. {1, 2} = {1} \cup {2} /\ 2 \notin {1}
        OBVIOUS
      <4> QED
        BY <4>1, <4>2, FS_AddElement
    <3>7. Cardinality(FreeNumbers) \in Nat
      BY <3>5, FS_CardinalityType
    <3> QED
      BY <3>4, <3>5, <3>6, <3>7, FS_Subset
  <2>3. fault' = "pipe"
    <3>1. Cardinality(FreeNumbers) \in Nat
      BY FreeFinite, FS_CardinalityType
    <3> QED
      BY <1>1, <2>1, <2>2, <3>1
  <2>4. pc'[Main] = 2 /\ \A u \in Threads : holds'[u] = NoFile
    BY <1>5, <2>1
  <2>5. \A n \in 1 .. MaxFd : ~(fdtable'[n] # NoFile)
    BY <1>4, <2>1
  <2> QED
    BY <2>3, <2>4, <2>5 DEF PipeInv
<1>9. CASE Closes(t)
  <2>1. /\ Returns(t) /\ local' = local /\ pc[Main] \in {2, 3} /\ ~Call(t).must
        /\ \A n \in 0 .. MaxFd :
             fdtable'[n] = IF n = local[Main][Call(t).on] THEN NoFile ELSE fdtable[n]
    BY <1>2, <1>3, <1>9 DEF Closes
  <2>2. exit' = "running"
    BY <1>1, <2>1 DEF Runs, Returns
  <2>3. pc'[Main] = pc[Main] + 1 /\ \A u \in Threads : holds'[u] = NoFile
    BY <1>5, <2>1
  <2>4. \A n \in 1 .. MaxFd : n \in 0 .. MaxFd
    BY Domains
  <2>5. CASE pc[Main] = 2
    <3>1. \A n \in 1 .. MaxFd : fdtable'[n] # NoFile => n = local'[Main]["fd2"]
      BY <1>3, <1>4, <2>1, <2>4, <2>5
    <3> QED
      BY <2>2, <2>3, <2>5, <3>1 DEF PipeInv
  <2>6. CASE pc[Main] = 3
    <3>1. \A n \in 1 .. MaxFd : ~(fdtable'[n] # NoFile)
      BY <1>3, <1>4, <2>1, <2>4, <2>6
    <3> QED
      BY <2>2, <2>3, <2>6, <3>1 DEF PipeInv
  <2> QED
    BY <2>1, <2>5, <2>6
<1>10. CASE Jumps(t)
  <2>1. pc[Main] = 4 /\ Call(t).num = 1
    BY <1>3, <1>10 DEF Jumps
  <2>2. pc'[Main] = 1 /\ exit' = "running" /\ fdtable' = fdtable /\ holds' = holds
    BY <1>1, <1>2, <1>10, <2>1 DEF Jumps, Runs, TypeInv
  <2>3. \A n \in 1 .. MaxFd : ~(fdtable'[n] # NoFile)
    BY <1>4, <2>1, <2>2
  <2> QED
    BY <1>2, <2>2, <2>3 DEF PipeInv
<1> QED
  BY <1>6, <1>7, <1>8, <1>9, <1>10 DEF Effect

\* A step that moves no thread preserves everything.
LEMMA StopsPreserve ==
    ASSUME TypeInv, ThreadInv, Stops
    PROVE  /\ TypeInv' /\ ThreadInv'
           /\ TableInv => TableInv'
           /\ VariableInv => VariableInv'
           /\ ClassInv => ClassInv'
           /\ StaleInv => StaleInv'
           /\ NamedInv => NamedInv'
           /\ CloseInv => CloseInv'
           /\ PipeInv => PipeInv'
<1>1. /\ program' = program /\ fault' = fault /\ pc' = pc /\ local' = local /\ stale' = stale
      /\ fdtable' = fdtable /\ holds' = holds /\ reserved' = reserved
      /\ P' = P /\ \A u \in Threads : Script(u)' = Script(u) /\ Call(u)' = Call(u)
  BY DEF Stops, P, Script, Call
<1>2. Main \in Threads /\ \A u \in Threads : (Ended(u)' <=> Ended(u)) /\ (Live(u)' <=> Live(u))
  BY <1>1, Domains DEF Live, Ended
<1>3. TypeInv'
  BY DEF Stops, TypeInv
<1>4. ThreadInv'
  <2>1. \A u \in DOMAIN P.threads : u \in Threads
    BY GoodProgram, Domains DEF Good, Typed
  <2>2. exit' = "returned" => Ended(Main)
    BY DEF Stops, ThreadInv
  <2> QED
    BY <1>1, <1>2, <2>1, <2>2 DEF ThreadInv
<1>5. TableInv => TableInv'
  BY <1>1 DEF TableInv
<1>6. VariableInv => VariableInv'
  BY <1>1 DEF VariableInv
<1>7. ClassInv => ClassInv'
  BY <1>1 DEF ClassInv
<1>8. StaleInv => StaleInv'
  BY <1>1, <1>2 DEF StaleInv
<1>9. NamedInv => NamedInv'
  BY <1>1 DEF NamedInv
<1>10. CloseInv => CloseInv'
  <2>1. ClosedOne' <=> ClosedOne
    BY <1>1 DEF ClosedOne
  <2> QED
    BY <1>1, <2>1 DEF CloseInv
<1>11. PipeInv => PipeInv'
  <2>1. ASSUME PipeInv, program = "pipe_pipe_pipe"
        PROVE  exit' = exit
    <3>1. pc[Main] \in 1 .. 4 /\ Len(P.main) = 4 /\ DOMAIN P.threads = {}
      BY <2>1, PipeLoopCalls DEF PipeInv
    <3>2. ~Ended(Main)
      <4>1. Script(Main) = P.main
        BY DEF Script, P
      <4>2. Len(Script(Main)) = 4 /\ pc[Main] \in 1 .. 4
        BY <3>1, <4>1
      <4>3. ~(pc[Main] > Len(Script(Main)))
        BY <4>2
      <4> QED
        BY <4>3 DEF Ended
    <3>3. ASSUME NEW t \in Threads, Runs(t), Call(t).op = "write"
          PROVE  FALSE
      <4>1. t = Main /\ Call(t) = P.main[pc[Main]]
        BY <3>1, <3>3, LiveCalls DEF Runs
      <4> QED
        BY <2>1, <3>1, <3>3, <4>1, PipeLoopCalls
    <3> QED
      BY <3>2, <3>3 DEF Stops
  <2> QED
    BY <1>1, <2>1 DEF PipeInv
<1> QED
  BY <1>3, <1>4, <1>5, <1>6, <1>7, <1>8, <1>9, <1>10, <1>11

\* The initial states satisfy everything.
LEMMA StartsWell ==
    Init => /\ TypeInv /\ ThreadInv /\ TableInv /\ VariableInv /\ ClassInv /\ StaleInv
            /\ NamedInv /\ CloseInv /\ PipeInv
<1> SUFFICES ASSUME Init
             PROVE  /\ TypeInv /\ ThreadInv /\ TableInv /\ VariableInv /\ ClassInv /\ StaleInv
                    /\ NamedInv /\ CloseInv /\ PipeInv
  OBVIOUS
<1> USE Domains
<1>1. TypeInv
  BY DEF Init, TypeInv
<1>2. /\ pc[Main] = 1 /\ \A t \in Threads : t # Main => pc[t] = 0
      /\ \A t \in Threads : holds[t] = NoFile /\ reserved[t] = Unset /\ stale[t] = {}
      /\ \A t \in Threads, v \in Names : local[t][v] = Unset
      /\ \A n \in 0 .. MaxFd : fdtable[n] = IF n = 0 THEN Tty ELSE NoFile
      /\ exit = "running"
  BY DEF Init
<1>3. Typed(P) /\ \A u \in DOMAIN P.threads : u \in Threads /\ u # Main
  BY <1>1, GoodProgram DEF Good, Typed
<1>4. ThreadInv
  <2>1. Script(Main) = P.main /\ Len(P.main) \in Nat
    BY <1>3 DEF Script, P, Typed, IsScript
  <2>2. \A i \in 1 .. pc[Main] - 1 : FALSE
    BY <1>2
  <2>3. ASSUME NEW u \in DOMAIN P.threads
        PROVE  ~(pc[u] > 0)
    <3>1. u \in Threads /\ u # Main
      BY <1>3
    <3>2. pc[u] = 0
      BY <1>2, <3>1
    <3> QED
      BY <3>2
  <2>4. \A t \in Threads : pc[t] > 0 => t = Main
    BY <1>2
  <2>5. pc[Main] > 0 /\ pc[Main] <= Len(Script(Main)) + 1 /\ exit # "returned"
    BY <1>2, <2>1
  <2> QED
    BY <1>2, <2>2, <2>3, <2>4, <2>5 DEF ThreadInv
<1>5. TableInv
  <2>1. 0 \in 0 .. MaxFd /\ Tty # NoFile
    OBVIOUS
  <2>2. \A n, m \in 0 .. MaxFd : fdtable[n] = fdtable[m] /\ fdtable[n] # NoFile => n = m
    BY <1>2
  <2> QED
    BY <1>2, <2>1, <2>2 DEF TableInv
<1>6. VariableInv
  BY <1>2 DEF VariableInv
<1>7. ClassInv
  BY <1>2 DEF ClassInv
<1>8. StaleInv
  BY <1>2 DEF StaleInv
<1>9. NamedInv
  BY <1>2 DEF NamedInv
<1>10. CloseInv
  <2>1. \A u \in Threads : \A c \in 1 .. pc[u] - 1 : FALSE
    BY <1>2
  <2>2. ~ClosedOne
    BY <2>1 DEF ClosedOne
  <2>3. \A u \in Threads \ {Main} : ~(pc[u] > 0)
    BY <1>2
  <2> QED
    BY <2>2, <2>3 DEF CloseInv
<1>11. PipeInv
  BY <1>2 DEF PipeInv
<1> QED
  BY <1>1, <1>4, <1>5, <1>6, <1>7, <1>8, <1>9, <1>10, <1>11

\* The inductive invariant holds in every run of every program.
THEOREM InvHolds == Spec => []Inv
<1>1. Init => Inv
  BY StartsWell DEF Inv
<1>2. Inv /\ [Next]_vars => Inv'
  <2> SUFFICES ASSUME Inv, [Next]_vars
               PROVE  Inv'
    OBVIOUS
  <2>1. /\ TypeInv /\ ThreadInv /\ TableInv /\ VariableInv /\ ClassInv /\ StaleInv /\ NamedInv
        /\ CloseInv
    BY DEF Inv
  <2>2. CASE Stops
    BY <2>1, <2>2, StopsPreserve DEF Inv
  <2>3. ASSUME NEW t \in Threads, Effect(t)
        PROVE  Inv'
    BY <2>1, <2>3, TypePreserved, ThreadPreserved, TablePreserved, VariablePreserved,
       ClassPreserved, StalePreserved, NamedPreserved, ClosePreserved DEF Inv
  <2> QED
    BY <2>1, <2>2, <2>3, Effects
<1> QED
  BY <1>1, <1>2, PTL DEF Spec

\* No call is made with a number that was closed and has been opened again for
\* something else: the descriptor races that the tools provoke stay inside the
\* kernel (tools/pipetest.c:358-393, tools/socktest.c).
THEOREM ClosedNumbersAreNotUsed == Spec => []NoAstrayCall
<1>1. Inv => NoAstrayCall
  <2> SUFFICES ASSUME Inv, NEW t \in Threads, pc[t] > 0, ~Ended(t), Call(t).on \in stale[t]
               PROVE  Named(t) = NoFile
    BY DEF NoAstrayCall
  <2> DEFINE n == local[t][Call(t).on]
  <2>1. n \in 0 .. MaxFd => fdtable[n] = NoFile
    BY DEF Inv, StaleInv, Live
  <2>2. DOMAIN fdtable = 0 .. MaxFd
    BY DEF Inv, TypeInv
  <2>3. Named(t) = IF n \in DOMAIN fdtable THEN fdtable[n] ELSE NoFile
    BY DEF Named
  <2> QED
    BY <2>1, <2>2, <2>3
<1> QED
  BY <1>1, InvHolds, PTL

\* A step that ends main in an error is one of main, at a call that had to
\* succeed.
LEMMA ErrorPreserved ==
    ASSUME TypeInv, ThreadInv, ErrorInv, Stops \/ \E t \in Threads : Effect(t)
    PROVE  ErrorInv'
<1> SUFFICES ASSUME MustsFirst(P'), exit' = "error"
             PROVE  \E j \in DOMAIN P'.main : pc'[Main] = j + 1 /\ P'.main[j].must
  BY DEF ErrorInv
<1>1. P' = P
  <2>1. program' = program
    BY DEF Stops, Effect, Passes, Enters, Drops, OpensOne, OpensTwo, FailsToOpen, Closes,
           Accepts, Spawns, Jumps, Returns
  <2> QED
    BY <2>1 DEF P
<1>2. CASE Stops
  BY <1>1, <1>2 DEF Stops, ErrorInv
<1>3. ASSUME NEW t \in Threads, Effect(t)
      PROVE  \E j \in DOMAIN P.main : pc'[Main] = j + 1 /\ P.main[j].must
  <2>1. Runs(t) /\ exit = "running"
    BY <1>3 DEF Effect, Passes, Enters, Drops, OpensOne, OpensTwo, FailsToOpen, Closes,
                Accepts, Spawns, Jumps, Runs
  <2>2. Returns(t) /\ Call(t).must
    BY <1>3, <2>1 DEF Effect, Passes, Enters, Drops, OpensOne, OpensTwo, FailsToOpen, Closes,
                      Accepts, Spawns, Jumps, Returns
  <2>3. /\ pc[t] \in DOMAIN Script(t) /\ Call(t) = Script(t)[pc[t]]
        /\ t = Main => Script(t) = P.main
        /\ t # Main => t \in DOMAIN P.threads /\ Script(t) = P.threads[t]
    BY <2>1, LiveCalls DEF Runs
  <2>4. t = Main
    BY <1>1, <2>2, <2>3 DEF MustsFirst
  <2>5. pc'[Main] = pc[Main] + 1
    BY <2>2, <2>4 DEF Returns, TypeInv
  <2> QED
    BY <2>2, <2>3, <2>4, <2>5
<1> QED
  BY <1>1, <1>2, <1>3

\* When main returns, every thread that reads its struct thread_args from the
\* stack of a do_ function has ended (tools/socktest.c:449, 475, 499, 587, 705,
\* 734); when it returns an error there is no such thread yet, but for
\* connected_read1_shutdown1 (socktest.c:699).
THEOREM ArgumentsOutliveThreads == Spec => []ArgsOutliveThreads
<1>1. ASSUME Inv, exit = "returned", NEW u \in P.byRef
      PROVE  Ended(u)
  <2>1. TypeInv /\ ThreadInv
    BY <1>1 DEF Inv
  <2>2. Typed(P) /\ Forks(P)
    BY <2>1, GoodProgram DEF Good
  <2>3. u \in DOMAIN P.threads
    BY <2>2 DEF Typed
  <2>4. PICK i \in DOMAIN P.main : Joins(P, i, u)
    BY <2>2 DEF Forks
  <2>5. i \in 1 .. pc[Main] - 1
    <3>1. Script(Main) = P.main /\ IsScript(P.main) /\ Ended(Main) /\ pc[Main] \in Nat
      BY <1>1, <2>1, <2>2, Domains DEF Typed, ThreadInv, TypeInv, Script, P
    <3>2. pc[Main] > Len(P.main) /\ i \in 1 .. Len(P.main) /\ Len(P.main) \in Nat
      BY <3>1 DEF Ended, IsScript
    <3> QED
      BY <3>1, <3>2
  <2> QED
    BY <2>1, <2>3, <2>4, <2>5 DEF ThreadInv
<1>2. ASSUME Inv, ErrorInv, exit = "error", program # "connected_read1_shutdown1",
             NEW u \in P.byRef
      PROVE  pc[u] = 0
  <2>1. TypeInv /\ ThreadInv
    BY <1>2 DEF Inv
  <2>2. Typed(P) /\ MustsFirst(P)
    BY <1>2, <2>1, GoodProgram, ErrorsBeforeThreads, ProgramsAssumption DEF Good, TypeInv, P
  <2>3. u \in DOMAIN P.threads /\ u \in Threads /\ pc[u] \in Nat
    BY <2>1, <2>2, Domains DEF Typed, TypeInv
  <2>4. PICK j \in DOMAIN P.main : pc[Main] = j + 1 /\ P.main[j].must
    BY <1>2, <2>2 DEF ErrorInv
  <2>5. \A i \in 1 .. pc[Main] - 1 : ~Creates(P, i, u)
    <3> SUFFICES ASSUME NEW i \in 1 .. pc[Main] - 1, Creates(P, i, u) PROVE FALSE
      OBVIOUS
    <3>1. DOMAIN P.main \subseteq Nat
      BY <2>2 DEF Typed, IsScript
    <3>2. i <= j /\ i \in DOMAIN P.main /\ P.main[i].op = "create"
      BY <2>4, <3>1 DEF Creates
    <3> QED
      BY <2>2, <2>4, <3>2 DEF MustsFirst
  <2> QED
    BY <2>1, <2>3, <2>5 DEF ThreadInv
<1>3. Inv /\ ErrorInv => ArgsOutliveThreads
  BY <1>1, <1>2 DEF ArgsOutliveThreads, P
<1>4. Init => ErrorInv
  BY DEF Init, ErrorInv
<1>5. Inv /\ ErrorInv /\ [Next]_vars => ErrorInv'
  BY Effects, ErrorPreserved DEF Inv
<1> QED
  BY <1>3, <1>4, <1>5, InvHolds, PTL DEF Spec


\* do_pipe_pipe_pipe never fails to open a pipe in a process that may have two
\* descriptors besides the standard ones: it leaks none
\* (tools/pipetest.c:255-263).
THEOREM PipeLoopKeepsRunning == ASSUME MaxFd >= 2 PROVE Spec => []PipeLoopNeverFails
<1>1. Init => Inv /\ PipeInv
  BY StartsWell DEF Inv
<1>2. Inv /\ PipeInv /\ Inv' /\ [Next]_vars => PipeInv'
  <2> SUFFICES ASSUME Inv, PipeInv, [Next]_vars
               PROVE  PipeInv'
    OBVIOUS
  <2>1. TypeInv /\ ThreadInv /\ TableInv
    BY DEF Inv
  <2>2. CASE Stops
    BY <2>1, <2>2, StopsPreserve
  <2>3. ASSUME NEW t \in Threads, Effect(t)
        PROVE  PipeInv'
    BY <2>1, <2>3, PipePreserved
  <2> QED
    BY <2>1, <2>2, <2>3, Effects
<1>3. PipeInv => PipeLoopNeverFails
  BY DEF PipeInv, PipeLoopNeverFails
<1> QED
  BY <1>1, <1>2, <1>3, InvHolds, PTL DEF Spec

\* A program of Closing that is stuck has made its close: main waits only after
\* it, or after it created a thread that makes it and waits for nothing.
LEMMA StuckClosed ==
    ASSUME TypeInv, ThreadInv, ClosesOne(P), exit = "running", ~Ended(Main),
           \A t \in Threads : Waits(t)
    PROVE  ClosedOne
<1>1. Typed(P) /\ Main \in Threads /\ \A u \in DOMAIN P.threads : u \in Threads /\ u # Main
  BY GoodProgram, Domains DEF Good, Typed
<1>2. Live(Main) /\ pc[Main] > 0
  BY DEF ThreadInv, Live
<1>3. Call(Main).op \in Blocking \cup {"join"}
  <2>1. Waits(Main)
    BY <1>1
  <2>2. At(Main, "join") \/ holds[Main] # NoFile
    BY <1>2, <2>1 DEF Waits, Live
  <2> QED
    BY <1>1, <2>2 DEF At, Call, ThreadInv
<1>4. /\ pc[Main] \in DOMAIN P.main /\ Call(Main) = P.main[pc[Main]] /\ Script(Main) = P.main
  BY <1>1, <1>2, LiveCalls
<1>5. \/ \E c \in 1 .. pc[Main] - 1 : P.main[c].op = "close"
      \/ \E c \in 1 .. pc[Main] - 1, u \in DOMAIN P.threads :
           /\ Creates(P, c, u)
           /\ Len(P.threads[u]) >= 1 /\ P.threads[u][1].op = "close"
           /\ \A k \in DOMAIN P.threads[u] : P.threads[u][k].op \notin Blocking
  BY <1>3, <1>4 DEF ClosesOne
<1>6. CASE \E c \in 1 .. pc[Main] - 1 : P.main[c].op = "close"
  BY <1>1, <1>4, <1>6 DEF ClosedOne
<1>7. CASE \E c \in 1 .. pc[Main] - 1, u \in DOMAIN P.threads :
             /\ Creates(P, c, u)
             /\ Len(P.threads[u]) >= 1 /\ P.threads[u][1].op = "close"
             /\ \A k \in DOMAIN P.threads[u] : P.threads[u][k].op \notin Blocking
  <2>1. PICK c \in 1 .. pc[Main] - 1, u \in DOMAIN P.threads :
             /\ Creates(P, c, u)
             /\ Len(P.threads[u]) >= 1 /\ P.threads[u][1].op = "close"
             /\ \A k \in DOMAIN P.threads[u] : P.threads[u][k].op \notin Blocking
    BY <1>7
  <2>2. u \in Threads /\ u # Main /\ Script(u) = P.threads[u]
    BY <1>1 DEF Script, P
  <2>3. pc[u] > 0 /\ pc[u] \in Nat
    <3>1. pc[u] > 0
      BY <2>1 DEF ThreadInv
    <3> QED
      BY <2>2, <3>1 DEF TypeInv
  <2>4. Ended(u)
    <3> SUFFICES ASSUME ~Ended(u)
                 PROVE  FALSE
      OBVIOUS
    <3>1. Live(u)
      BY <2>3 DEF Live
    <3>2. Call(u) = P.threads[u][pc[u]] /\ pc[u] \in DOMAIN P.threads[u] /\ ThreadCall(Call(u))
      BY <2>2, <3>1, LiveCalls
    <3>3. Call(u).op \notin Blocking /\ Call(u).op # "join"
      BY <2>1, <3>2 DEF ThreadCall
    <3>4. Waits(u) /\ holds[u] = NoFile
      BY <2>2, <3>3 DEF ThreadInv
    <3>5. ~At(u, "join")
      BY <3>3 DEF At, Call
    <3> QED
      BY <2>3, <3>4, <3>5 DEF Waits
  <2>5. 1 \in 1 .. pc[u] - 1
    <3>1. pc[u] > Len(P.threads[u]) /\ Len(P.threads[u]) \in Nat
      BY <1>1, <2>2, <2>4 DEF Ended, Typed, IsScript
    <3> QED
      BY <2>1, <2>3, <3>1
  <2> QED
    BY <2>1, <2>2, <2>5 DEF ClosedOne
<1> QED
  BY <1>5, <1>6, <1>7

\* When a program that closes a descriptor under its threads is stuck, every
\* thread that is inside a call is in a file that no number names any more
\* (the close under a poll, read or accept of tools/socktest.c and pipetest.c).
THEOREM StuckThreadsHoldClosedFiles == Spec => []StuckOnlyOnClosed
<1>1. Inv => StuckOnlyOnClosed
  <2> SUFFICES ASSUME Inv, Closing, exit = "running", ~Ended(Main), \A u \in Threads : Waits(u),
                      NEW t \in Threads, holds[t] # NoFile, holds[t] \in Range(fdtable)
               PROVE  FALSE
    BY DEF StuckOnlyOnClosed
  <2>1. TypeInv /\ ThreadInv /\ TableInv /\ StaleInv /\ CloseInv /\ ClosesOne(P)
    BY ClosingCloses DEF Inv
  <2>2. ClosedOne
    BY <2>1, StuckClosed
  <2>3. PICK n \in 0 .. MaxFd : fdtable[n] = holds[t]
    BY <2>1 DEF Range, TypeInv
  <2>4. n = local[t][Call(t).on]
    BY <2>1, <2>3 DEF TableInv
  <2>5. Live(t) /\ Call(t).op \in Blocking
    BY <2>1 DEF ThreadInv
  <2>6. Call(t).on \in Names /\ local[t][Call(t).on] = local[Main]["fd"]
    <3>1. CASE t = Main
      <4>1. pc[Main] \in DOMAIN P.main /\ Call(t) = P.main[pc[Main]]
        BY <2>1, <2>5, <3>1, LiveCalls
      <4>2. Call(t).on = "fd"
        BY <2>1, <2>5, <4>1 DEF ClosesOne
      <4> QED
        BY <3>1, <4>2
    <3>2. CASE t # Main
      <4>1. t \in DOMAIN P.threads /\ pc[t] \in DOMAIN P.threads[t]
            /\ Call(t) = P.threads[t][pc[t]]
        BY <2>1, <2>5, <3>2, LiveCalls
      <4>2. Call(t).on = "arg"
        BY <2>1, <4>1 DEF ClosesOne
      <4>3. local[t]["arg"] = local[Main]["fd"]
        BY <2>1, <2>5, <3>2 DEF CloseInv, Live
      <4> QED
        BY <4>2, <4>3
    <3> QED
      BY <3>1, <3>2
  <2>7. Call(t).on \in stale[t]
    BY <2>1, <2>2, <2>3, <2>4, <2>6 DEF CloseInv
  <2>8. fdtable[n] = NoFile
    BY <2>1, <2>3, <2>4, <2>5, <2>7 DEF StaleInv
  <2> QED
    BY <2>3, <2>8
<1> QED
  BY <1>1, InvHolds, PTL

\* Every update of an open file gives an open file.
LEMMA FileUpdates ==
    ASSUME NEW s \in FileStates
    PROVE  /\ \A x \in {"fresh", "bound", "listening", "connected", "refused"} :
                [s EXCEPT !.phase = x] \in FileStates
           /\ \A b \in BOOLEAN : /\ [s EXCEPT !.shut = b] \in FileStates
                                 /\ [s EXCEPT !.nonblock = b] \in FileStates
                                 /\ [s EXCEPT !.data = b] \in FileStates
           /\ \A q \in Seq({NoFile} \cup Files) : [s EXCEPT !.queue = q] \in FileStates
           /\ \A f \in {NoFile} \cup Files : [s EXCEPT !.peer = f] \in FileStates
  BY DEF FileStates

\* What socket, pipe and socketpair make are open files.
LEMMA NewFiles ==
    \A kind \in {"tty", "pipe_r", "pipe_w", "pair", "sock"}, peer \in {NoFile} \cup Files :
       NewFile(kind, peer) \in FileStates
<1>1. <<>> \in Seq({NoFile} \cup Files)
  OBVIOUS
<1> QED
  BY <1>1 DEF NewFile, FileStates

\* Every step preserves the types of open files and the bound on remotes.
LEMMA FilePreserved ==
    ASSUME TypeInv, FileInv, [Next]_vars
    PROVE  FileInv'
<1> USE DEF FileInv
<1>0. file \in [Files -> FileStates]
  OBVIOUS
<1>1. ASSUME family' = family, remotes' = remotes,
             \/ file' = file
             \/ \E f \in Files, s \in FileStates : file' = [file EXCEPT ![f] = s]
             \/ \E f, g \in Files, s, r \in FileStates :
                  file' = [file EXCEPT ![f] = s, ![g] = r]
      PROVE  FileInv'
  BY <1>1
<1>2. /\ FreeFiles \in SUBSET Nat /\ FreeFiles \subseteq Files
      /\ \A t \in Threads : holds[t] # NoFile => holds[t] \in Files
      /\ \A t \in Threads : Named(t) # NoFile => Named(t) \in Files
  BY FreeFacts DEF TypeInv, Named
<1>3. ASSUME NEW t \in Threads, Step(t)
      PROVE  FileInv'
  <2>1. ASSUME NEW failed, Return(t, failed)
        PROVE  family' = family
    BY <2>1 DEF Return
  <2>2. CASE Socket(t)
    <3>1. CASE OpenFails(t, {Call(t).on})
      BY <1>1, <2>1, <3>1 DEF OpenFails
    <3>2. CASE ~OpenFails(t, {Call(t).on})
      <4> DEFINE f == Lowest(FreeFiles)
      <4>1. /\ FreeFiles # {} /\ file' = [file EXCEPT ![f] = NewFile("sock", NoFile)]
            /\ Return(t, FALSE) /\ remotes' = remotes
        BY <2>2, <3>2 DEF Socket
      <4>2. f \in Files
        BY <1>2, <4>1, LowestIn
      <4> HIDE DEF f
      <4> QED
        BY <1>1, <2>1, <4>1, <4>2, NewFiles
    <3> QED
      BY <3>1, <3>2
  <2>3. ASSUME NEW op, NEW kind0 \in {"pipe_r", "pair"}, NEW kind1 \in {"pipe_w", "pair"},
               Pipe(t, op, kind0, kind1)
        PROVE  FileInv'
    <3>1. CASE OpenFails(t, {"fd", "fd2"})
      BY <1>1, <2>1, <3>1 DEF OpenFails
    <3>2. CASE ~OpenFails(t, {"fd", "fd2"})
      <4> DEFINE f0 == Lowest(FreeFiles)
                 f1 == Lowest(FreeFiles \ {f0})
      <4>1. /\ Cardinality(FreeFiles) >= 2
            /\ file' = [file EXCEPT ![f0] = NewFile(kind0, f1), ![f1] = NewFile(kind1, f0)]
            /\ Return(t, FALSE) /\ remotes' = remotes
        BY <2>3, <3>2 DEF Pipe
      <4>2. f0 \in Files /\ f1 \in Files
        BY <1>2, <4>1, LowestTwo
      <4> HIDE DEF f0, f1
      <4>3. NewFile(kind0, f1) \in FileStates /\ NewFile(kind1, f0) \in FileStates
        BY <4>2, NewFiles
      <4> QED
        BY <1>1, <2>1, <4>1, <4>2, <4>3
    <3> QED
      BY <3>1, <3>2
  <2>4. ASSUME NEW failed, Return(t, failed), Untouched,
               \/ file' = file
               \/ \E f \in Files, s \in FileStates : file' = [file EXCEPT ![f] = s]
        PROVE  FileInv'
    BY <1>1, <2>1, <2>4 DEF Untouched
  <2>5. ASSUME Bind(t)
        PROVE  FileInv'
    <3>1. CASE Return(t, TRUE) /\ UNCHANGED file /\ Untouched
      BY <2>4, <3>1
    <3>2. CASE SetPhase(t, "bind", "bound")
      <4>1. /\ Return(t, Named(t) = NoFile) /\ Untouched
            /\ file' = IF Named(t) = NoFile THEN file
                       ELSE [file EXCEPT ![Named(t)] = [file[Named(t)] EXCEPT !.phase = "bound"]]
        BY <3>2 DEF SetPhase, OnFile
      <4> QED
        BY <1>0, <1>2, <2>4, <4>1, FileUpdates
    <3> QED
      BY <2>5, <3>1, <3>2 DEF Bind
  <2>6. CASE Listen(t)
    <3>1. /\ Return(t, Named(t) = NoFile) /\ Untouched
          /\ file' = IF Named(t) = NoFile THEN file
                     ELSE [file EXCEPT ![Named(t)] = [file[Named(t)] EXCEPT !.phase = "listening"]]
      BY <2>6 DEF Listen, SetPhase, OnFile
    <3> QED
      BY <1>0, <1>2, <2>4, <3>1, FileUpdates
  <2>7. CASE SetNonblock(t)
    <3>1. /\ Return(t, Named(t) = NoFile) /\ Untouched
          /\ file' = IF Named(t) = NoFile THEN file
                     ELSE [file EXCEPT ![Named(t)] = [file[Named(t)] EXCEPT !.nonblock = TRUE]]
      BY <2>7 DEF SetNonblock, OnFile
    <3> QED
      BY <1>0, <1>2, <2>4, <3>1, FileUpdates
  <2>8. CASE Shutdown(t)
    <3>1. /\ family' = family /\ remotes' = remotes
          /\ \E both : file' = [f \in Files |->
                 IF f \notin both THEN file[f]
                 ELSE [file[f] EXCEPT !.shut = TRUE,
                         !.phase = IF Connecting(f) THEN "refused" ELSE @]]
      BY <2>8, <2>1 DEF Shutdown, Untouched
    <3>2. ASSUME NEW f \in Files
          PROVE  [file[f] EXCEPT !.shut = TRUE,
                    !.phase = IF Connecting(f) THEN "refused" ELSE @] \in FileStates
      <4> DEFINE s == [file[f] EXCEPT !.shut = TRUE]
                 x == IF Connecting(f) THEN "refused" ELSE file[f].phase
      <4>1. file[f] \in FileStates /\ s \in FileStates
        BY <1>0, FileUpdates
      <4>2. x \in {"fresh", "bound", "listening", "connected", "refused"}
        BY <4>1 DEF FileStates
      <4>3. [file[f] EXCEPT !.shut = TRUE, !.phase = IF Connecting(f) THEN "refused" ELSE @]
              = [s EXCEPT !.phase = x]
        OBVIOUS
      <4> HIDE DEF s, x
      <4>4. [s EXCEPT !.phase = x] \in FileStates
        BY <4>1, <4>2, FileUpdates
      <4> QED
        BY <4>3, <4>4
    <3>3. PICK both : file' = [f \in Files |->
                 IF f \notin both THEN file[f]
                 ELSE [file[f] EXCEPT !.shut = TRUE,
                         !.phase = IF Connecting(f) THEN "refused" ELSE @]]
      BY <3>1
    <3> DEFINE new(f) == [file[f] EXCEPT !.shut = TRUE,
                            !.phase = IF Connecting(f) THEN "refused" ELSE @]
    <3>4. \A f \in Files : new(f) \in FileStates
      BY <3>2
    <3>5. file' = [f \in Files |-> IF f \notin both THEN file[f] ELSE new(f)]
      BY <3>3
    <3> HIDE DEF new
    <3>6. file' \in [Files -> FileStates]
      BY <1>0, <3>4, <3>5
    <3> QED
      BY <3>1, <3>6
  <2>9. CASE Write(t)
    <3> DEFINE f == Named(t)
    <3>1. CASE UNCHANGED <<family, file>> /\ Untouched
      BY <1>1, <3>1 DEF Untouched
    <3>2. CASE /\ Return(t, f = NoFile) /\ Untouched
               /\ file' = IF f = NoFile \/ file[f].peer = NoFile THEN file
                          ELSE [file EXCEPT ![file[f].peer].data = TRUE]
      <4>1. CASE f = NoFile \/ file[f].peer = NoFile
        BY <2>4, <3>2, <4>1
      <4>2. CASE ~(f = NoFile \/ file[f].peer = NoFile)
        <5>1. f \in Files
          BY <1>2, <4>2
        <5>2. file[f].peer \in Files
          BY <1>0, <4>2, <5>1 DEF FileStates
        <5> DEFINE g == file[f].peer
        <5>3. file' = [file EXCEPT ![g] = [file[g] EXCEPT !.data = TRUE]]
          BY <3>2, <4>2
        <5> HIDE DEF f, g
        <5>4. [file[g] EXCEPT !.data = TRUE] \in FileStates
          BY <1>0, <5>2, FileUpdates DEF g
        <5>5. g \in Files
          BY <5>2 DEF g
        <5> QED
          BY <2>4, <3>2, <5>3, <5>4, <5>5
      <4> QED
        BY <4>1, <4>2
    <3> QED
      BY <2>9, <3>1, <3>2 DEF Write
  <2>10. CASE Close(t)
    BY <1>1, <2>1, <2>10 DEF Close
  <2>11. CASE Enter(t)
    BY <1>1, <2>1, <2>11 DEF Enter, Untouched
  <2>12. ASSUME NEW op, PollReturns(t, op)
         PROVE  FileInv'
    BY <2>4, <2>12 DEF PollReturns
  <2>13. CASE ReadReturns(t)
    <3>1. /\ holds[t] \in Files /\ Return(t, FALSE) /\ Untouched
          /\ file' = [file EXCEPT ![holds[t]] = [file[holds[t]] EXCEPT !.data = FALSE]]
      BY <1>2, <2>13 DEF ReadReturns, Inside
    <3> QED
      BY <1>0, <2>4, <3>1, FileUpdates
  <2>14. CASE ReadUntilReturns(t)
    <3>1. holds[t] \in Files /\ Untouched
      BY <1>2, <2>14 DEF ReadUntilReturns, Inside
    <3>2. CASE UNCHANGED <<family, file>>
      BY <1>1, <3>1, <3>2 DEF Untouched
    <3>3. CASE /\ Return(t, FALSE)
               /\ file' = [file EXCEPT ![holds[t]] = [file[holds[t]] EXCEPT !.data = FALSE]]
      BY <1>0, <2>4, <3>1, <3>3, FileUpdates
    <3> QED
      BY <2>14, <3>2, <3>3 DEF ReadUntilReturns
  <2>15. CASE AcceptReturns(t)
    <3> DEFINE l == holds[t]
               f == Lowest(FreeFiles)
               client == Head(file[l].queue)
               new == [NewFile("sock", client) EXCEPT !.phase = "connected"]
    <3>1. l \in Files /\ remotes' = remotes
      BY <1>2, <2>15 DEF AcceptReturns, Inside
    <3>2. CASE Return(t, TRUE) /\ UNCHANGED file
      BY <1>1, <2>1, <3>1, <3>2
    <3>3. CASE /\ file[l].queue # <<>> /\ FreeFiles # {} /\ Return(t, FALSE)
               /\ file' = [g \in Files |->
                    CASE g = f -> new
                      [] g = l -> [file[l] EXCEPT !.queue = Tail(@)]
                      [] g = client -> [file[g] EXCEPT !.peer = f]
                      [] OTHER -> file[g]]
      <4>1. file[l].queue \in Seq({NoFile} \cup Files) /\ file[l] \in FileStates
        BY <1>0, <3>1 DEF FileStates
      <4>2. client \in {NoFile} \cup Files /\ Tail(file[l].queue) \in Seq({NoFile} \cup Files)
        BY <3>3, <4>1
      <4>3. f \in Files
        BY <1>2, <3>3, LowestIn
      <4>4. new \in FileStates
        <5>1. NewFile("sock", client) \in FileStates
          BY <4>2, NewFiles
        <5> QED
          BY <5>1, FileUpdates
      <4>5. [file[l] EXCEPT !.queue = Tail(@)] \in FileStates
        BY <4>1, <4>2, FileUpdates
      <4>6. \A g \in Files : [file[g] EXCEPT !.peer = f] \in FileStates
        BY <1>0, <4>3, FileUpdates
      <4> HIDE DEF l, f, client, new
      <4>7. file' \in [Files -> FileStates]
        BY <1>0, <3>3, <4>4, <4>5, <4>6
      <4> QED
        BY <2>1, <3>1, <3>3, <4>7
    <3> QED
      BY <2>15, <3>2, <3>3 DEF AcceptReturns
  <2>16. CASE ConnectReturns(t)
    <3> DEFINE f == holds[t]
    <3>1. f \in Files /\ Untouched
      BY <1>2, <2>16 DEF ConnectReturns, Inside
    <3>2. CASE UNCHANGED file /\ \E failed : Return(t, failed)
      BY <2>4, <3>1, <3>2
    <3>3. CASE \E l \in LocalListener :
                 /\ file' = [file EXCEPT ![l].queue = Append(@, f), ![f].phase = "connected"]
                 /\ Return(t, FALSE)
      <4>1. PICK l \in LocalListener :
                 /\ file' = [file EXCEPT ![l].queue = Append(@, f), ![f].phase = "connected"]
                 /\ Return(t, FALSE)
        BY <3>3
      <4>2. l \in Files
        BY DEF LocalListener
      <4> DEFINE s == [file[l] EXCEPT !.queue = Append(@, f)]
                 file1 == [file EXCEPT ![l] = s]
                 r == [file1[f] EXCEPT !.phase = "connected"]
      <4>3. s \in FileStates
        <5>1. file[l] \in FileStates /\ file[l].queue \in Seq({NoFile} \cup Files)
          BY <1>0, <4>2 DEF FileStates
        <5>2. Append(file[l].queue, f) \in Seq({NoFile} \cup Files)
          BY <3>1, <5>1
        <5> QED
          BY <5>1, <5>2, FileUpdates
      <4> HIDE DEF s, f
      <4>4. file1 \in [Files -> FileStates]
        BY <1>0, <4>2, <4>3
      <4>5. file' = [file1 EXCEPT ![f] = r]
        BY <4>1 DEF f, s
      <4> HIDE DEF file1
      <4>6. r \in FileStates
        BY <3>1, <4>4, FileUpdates
      <4> HIDE DEF r
      <4>7. file' \in [Files -> FileStates]
        BY <4>4, <4>5, <4>6
      <4> QED
        BY <2>1, <3>1, <4>1, <4>7 DEF Untouched
    <3> QED
      BY <2>16, <3>2, <3>3 DEF ConnectReturns
  <2>17. CASE CreateThread(t)
    BY <1>1, <2>17 DEF CreateThread
  <2>18. CASE JoinThread(t)
    BY <2>4, <2>18 DEF JoinThread
  <2>19. CASE JumpBack(t)
    BY <1>1, <2>19 DEF JumpBack, Untouched
  <2> QED
    BY <1>3, <2>2, <2>3, <2>5, <2>6, <2>7, <2>8, <2>9, <2>10, <2>11, <2>12, <2>13, <2>14, <2>15,
       <2>16, <2>17, <2>18, <2>19 DEF Step
<1>4. CASE MainReturns
  BY <1>1, <1>4 DEF MainReturns
<1>5. CASE RemoteConnects
  <2>1. PICK l \in Files : file' = [file EXCEPT ![l].queue = Append(@, NoFile)]
    BY <1>5 DEF RemoteConnects, LocalListener
  <2>2. file[l] \in FileStates /\ Append(file[l].queue, NoFile) \in Seq({NoFile} \cup Files)
    BY <1>0 DEF FileStates
  <2>3. [file[l] EXCEPT !.queue = Append(@, NoFile)] \in FileStates
    BY <2>2, FileUpdates
  <2>4. file' = [file EXCEPT ![l] = [file[l] EXCEPT !.queue = Append(@, NoFile)]]
    BY <2>1
  <2>5. file' \in [Files -> FileStates]
    BY <1>0, <2>3, <2>4
  <2>6. family' = family /\ remotes' = remotes + 1 /\ remotes < MaxRemote
    BY <1>5 DEF RemoteConnects
  <2> QED
    BY <2>5, <2>6, BoundsAssumption
<1>6. CASE RemoteAnswers
  <2>1. PICK t \in Threads, answer \in {"connected", "refused"} :
          holds[t] # NoFile /\ file' = [file EXCEPT ![holds[t]].phase = answer]
    BY <1>6 DEF RemoteAnswers
  <2>2. holds[t] \in Files
    BY <1>2, <2>1
  <2>3. [file[holds[t]] EXCEPT !.phase = answer] \in FileStates
    BY <1>0, <2>2, FileUpdates
  <2>4. file' = [file EXCEPT ![holds[t]] = [file[holds[t]] EXCEPT !.phase = answer]]
    BY <2>1
  <2>5. file' \in [Files -> FileStates]
    BY <1>0, <2>3, <2>4
  <2>6. family' = family /\ remotes' = remotes + 1 /\ remotes < MaxRemote
    BY <1>6 DEF RemoteAnswers
  <2> QED
    BY <2>5, <2>6, BoundsAssumption
<1>7. CASE RemoteActs
  <2>1. family' = family /\ remotes' = remotes
    BY <1>7 DEF RemoteActs
  <2>2. PICK f \in Files : \/ file' = [file EXCEPT ![f].data = TRUE]
                           \/ file' = [file EXCEPT ![f].shut = TRUE]
    BY <1>7 DEF RemoteActs
  <2>3. /\ [file[f] EXCEPT !.data = TRUE] \in FileStates
        /\ [file[f] EXCEPT !.shut = TRUE] \in FileStates
    BY <1>0, FileUpdates
  <2>4. \E s \in FileStates : file' = [file EXCEPT ![f] = s]
    BY <2>2, <2>3
  <2> QED
    BY <1>1, <2>1, <2>4
<1>8. CASE UNCHANGED vars
  BY <1>1, <1>8 DEF vars
<1> QED
  BY <1>3, <1>4, <1>5, <1>6, <1>7, <1>8 DEF Next

\* The variables have their types in every run: every descriptor, file and queue
\* entry that the tools get to see is one that exists.
THEOREM TypesHold == Spec => []TypeOK
<1>1. Init => FileInv
  <2> SUFFICES ASSUME Init
               PROVE  FileInv
    OBVIOUS
  <2>1. family \in Families \cup {"unix"}
    BY DEF Init
  <2>2. file \in [Files -> FileStates]
    BY NewFiles DEF Init
  <2>3. remotes \in 0 .. MaxRemote
    BY BoundsAssumption DEF Init
  <2> QED
    BY <2>1, <2>2, <2>3 DEF FileInv
<1>2. Inv /\ FileInv /\ [Next]_vars => FileInv'
  BY FilePreserved DEF Inv
<1>3. Inv /\ FileInv => TypeOK
  <2> SUFFICES ASSUME Inv, FileInv
               PROVE  TypeOK
    OBVIOUS
  <2>1. TypeInv /\ ThreadInv
    BY DEF Inv
  <2>2. pc[Main] \in 1 .. Len(Script(Main)) + 1
    <3>1. Typed(P) /\ Script(Main) = P.main /\ Main \in Threads
      BY <2>1, GoodProgram, Domains DEF Good, Script, P
    <3>2. Len(Script(Main)) \in Nat
      BY <3>1 DEF Typed, IsScript
    <3>3. pc[Main] \in Nat /\ pc[Main] > 0 /\ pc[Main] <= Len(Script(Main)) + 1
      BY <2>1, <3>1 DEF TypeInv, ThreadInv
    <3> QED
      BY <3>2, <3>3
  <2>3. ASSUME NEW t \in Threads \ {Main}
        PROVE  pc[t] \in {0, 1} \/ pc[t] <= Len(Script(t)) + 1
    BY <2>1 DEF TypeInv, ThreadInv
  <2> QED
    BY <2>1, <2>2, <2>3 DEF TypeInv, FileInv, FileStates, TypeOK
<1> QED
  BY <1>1, <1>2, <1>3, InvHolds, PTL DEF Spec
=============================================================================
