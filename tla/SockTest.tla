---- MODULE SockTest ----
(* The programs of SockScripts, run on a model of what they use of the       *)
(* kernel: descriptor numbers, open files, and calls that block.  The kernel *)
(* is not part of the repository; it is modelled from what the tools rely on *)
(* and from what they set out to show: shutdown() wakes every thread that is *)
(* inside a call on the socket, close() wakes none.                          *)
EXTENDS SockScripts, FiniteSets

CONSTANTS
    Programs,       \* the programs that a run looks at, by name
    Families,       \* socket types, from {"unix", "tcp", "bt"}
    MaxFd,          \* the process may open descriptors up to this number
    MaxFile,        \* bound on open files that exist at a time
    MaxRemote       \* bound on connections that other processes make

\* The programs of two tables, by name.
Both(f, g) == [p \in DOMAIN f \cup DOMAIN g |-> IF p \in DOMAIN f THEN f[p] ELSE g[p]]

\* The tools that share a name share the function.
AllPrograms ==
    Both(SocktestActions, Both(AsocketActions, Both(ShutdownTestActions,
        Both(PipetestFunctions, ShutdownBugs))))

ASSUME ProgramsAssumption == Programs \subseteq DOMAIN AllPrograms
ASSUME FamiliesAssumption == Families \subseteq {"unix", "tcp", "bt"}
ASSUME BoundsAssumption == MaxFd \in Nat /\ MaxFile \in Nat \ {0} /\ MaxRemote \in Nat

Main == 0

Threads == 0 .. Many

Names == {"fd", "fd2", "arg"}

Unset == MaxFd + 1      \* -1, what a failed _socket leaves in fd

Address == MaxFd + 2    \* a pointer taken for a descriptor: no such number

NoFile == 0             \* nothing is open under the number

\* Number 0 stands for the three standard descriptors, file 1 for the terminal.
Tty == 1

Files == 1 .. MaxFile

VARIABLES
    program,    \* the name of the program that runs
    family,     \* the socket type on its command line
    fault,      \* the call that may fail: "none", "socket", "pipe" or "bind"
    exit,       \* "running", "returned", "error" (main returned -1), "killed"
    pc,         \* for each thread, the next call; 0: not created
    local,      \* for each thread, the numbers in its variables
    stale,      \* history: the variables whose number was closed since it was set
    fdtable,    \* for each number, the file that is open under it
    file,       \* for each file, its state in the kernel
    holds,      \* for each thread, the file of the call it is inside
    reserved,   \* for each thread, the number set aside for its accept()
    remotes     \* connections made from outside so far

vars == <<program, family, fault, exit, pc, local, stale, fdtable, file, holds, reserved,
          remotes>>

\* The state of an open file: kind is "tty", "pipe_r", "pipe_w", "pair" or
\* "sock", phase how far a socket is, data whether there is a byte to read,
\* queue the connections a listener has not accepted (NoFile: from outside).
NewFile(kind, peer) ==
    [kind |-> kind, peer |-> peer, phase |-> "fresh", shut |-> FALSE,
     nonblock |-> FALSE, data |-> FALSE, queue |-> <<>>]

Init ==
    /\ program \in Programs
    /\ family \in IF program \in DOMAIN PipetestFunctions THEN {"unix"} ELSE Families
    /\ fault \in {"none", "socket", "pipe", "bind"}
    /\ exit = "running"
    /\ pc = [t \in Threads |-> IF t = Main THEN 1 ELSE 0]
    /\ local = [t \in Threads |-> [v \in Names |-> Unset]]
    /\ stale = [t \in Threads |-> {}]
    /\ fdtable = [n \in 0 .. MaxFd |-> IF n = 0 THEN Tty ELSE NoFile]
    /\ file = [f \in Files |-> NewFile("tty", NoFile)]
    /\ holds = [t \in Threads |-> NoFile]
    /\ reserved = [t \in Threads |-> Unset]
    /\ remotes = 0

----------------------------------------------------------------------------
(* Threads.                                                                  *)

Script(t) ==
    IF t = Main THEN AllPrograms[program].main ELSE AllPrograms[program].threads[t]

Ended(t) == pc[t] > 0 /\ pc[t] > Len(Script(t))

\* Thread t runs and its next call, not yet entered, is op.
At(t, op) ==
    /\ exit = "running"
    /\ pc[t] > 0 /\ ~Ended(t)
    /\ holds[t] = NoFile
    /\ Script(t)[pc[t]].op = op

Call(t) == Script(t)[pc[t]]

\* The file that the descriptor of the call of t names.
Named(t) ==
    LET n == local[t][Call(t).on]
    IN  IF n \in DOMAIN fdtable THEN fdtable[n] ELSE NoFile

\* The call of t returns.  A must-call that failed ends main, and with it the
\* process.
Return(t, failed) ==
    /\ pc' = [pc EXCEPT ![t] = @ + 1]
    /\ holds' = [holds EXCEPT ![t] = NoFile]
    /\ reserved' = [reserved EXCEPT ![t] = Unset]
    /\ exit' = IF failed /\ Call(t).must THEN "error" ELSE exit
    /\ UNCHANGED <<program, family, fault>>

----------------------------------------------------------------------------
(* Open files.  A file lives as long as a number names it, a call is inside  *)
(* it or it waits to be accepted.                                            *)

InUse(f) == f \in Range(fdtable) \cup Range(holds)

Alive(f) ==
    InUse(f) \/ \E l \in Files : InUse(l) /\ f \in ToSet(file[l].queue)

FreeFiles == {f \in Files : ~Alive(f) /\ \A g \in Files : file[g].peer = f => ~Alive(g)}

FreeNumbers == {n \in DOMAIN fdtable : fdtable[n] = NoFile} \ Range(reserved)

\* The other end is gone, or the socket was shut down.
HungUp(f) ==
    \/ file[f].shut
    \/ file[f].peer # NoFile /\ ~Alive(file[f].peer)

\* A socket that was never connected hangs up at once, except a Bluetooth one.
Unconnected(f) ==
    file[f].kind = "sock" /\ file[f].phase = "fresh" /\ family # "bt"

Listening(f) == file[f].kind = "sock" /\ file[f].phase = "listening"

\* connect() reaches a listener of this process, when there is one; a Bluetooth
\* address is always another device's.
LocalListener == {f \in Files : InUse(f) /\ Listening(f) /\ ~file[f].shut}

\* A call inside f can return.
Ready(op, f) ==
    CASE op = "poll" -> HungUp(f) \/ Unconnected(f)
      [] op = "pollin" -> HungUp(f) \/ Unconnected(f) \/ file[f].data
      [] op \in {"read", "read_until"} ->
            HungUp(f) \/ file[f].data \/ Unconnected(f) \/ Listening(f)
      [] op = "accept" ->
            file[f].shut \/ file[f].nonblock \/ ~Listening(f) \/ file[f].queue # <<>>
      [] op = "connect" ->
            \/ file[f].nonblock
            \/ file[f].phase \in {"connected", "refused"}
            \/ family # "bt" /\ \A l \in LocalListener : Len(file[l].queue) < 2

Blocking == {"poll", "pollin", "read", "read_until", "accept", "connect"}

----------------------------------------------------------------------------
(* Calls that open descriptors.  They wait while MaxFile leaves no file.     *)

OpenFails(t, names) ==
    /\ local' = [local EXCEPT ![t] = [v \in Names |-> IF v \in names THEN Unset ELSE @[v]]]
    /\ stale' = [stale EXCEPT ![t] = @ \ names]
    /\ Return(t, TRUE)
    /\ UNCHANGED <<fdtable, file, remotes>>

Lowest(S) == CHOOSE x \in S : \A y \in S : x <= y

\* socket(): the lowest free number
Socket(t) ==
    /\ At(t, "socket")
    /\ \/ /\ FreeNumbers # {} /\ FreeFiles # {}
          /\ LET v == Call(t).on
                 n == Lowest(FreeNumbers)
                 f == Lowest(FreeFiles)
             IN  /\ fdtable' = [fdtable EXCEPT ![n] = f]
                 /\ local' = [local EXCEPT ![t][v] = n]
                 /\ stale' = [stale EXCEPT ![t] = @ \ {v}]
                 /\ file' = [file EXCEPT ![f] = NewFile("sock", NoFile)]
          /\ Return(t, FALSE)
          /\ UNCHANGED remotes
       \/ /\ fault = "socket" \/ FreeNumbers = {}
          /\ OpenFails(t, {Call(t).on})

\* pipe() and socketpair(): two ends, the two lowest free numbers
Pipe(t, op, kind0, kind1) ==
    /\ At(t, op)
    /\ \/ /\ Cardinality(FreeNumbers) >= 2 /\ Cardinality(FreeFiles) >= 2
          /\ LET n0 == Lowest(FreeNumbers)
                 n1 == Lowest(FreeNumbers \ {n0})
                 f0 == Lowest(FreeFiles)
                 f1 == Lowest(FreeFiles \ {f0})
             IN  /\ fdtable' = [fdtable EXCEPT ![n0] = f0, ![n1] = f1]
                 /\ local' = [local EXCEPT ![t]["fd"] = n0, ![t]["fd2"] = n1]
                 /\ stale' = [stale EXCEPT ![t] = @ \ {"fd", "fd2"}]
                 /\ file' = [file EXCEPT ![f0] = NewFile(kind0, f1),
                                         ![f1] = NewFile(kind1, f0)]
          /\ Return(t, FALSE)
          /\ UNCHANGED remotes
       \/ /\ fault = "pipe" \/ Cardinality(FreeNumbers) < 2
          /\ OpenFails(t, {"fd", "fd2"})

----------------------------------------------------------------------------
(* Calls that return at once.                                                *)

Untouched == UNCHANGED <<local, stale, fdtable, remotes>>

\* The call fails when the number names nothing, and does nothing then.
OnFile(t, change(_)) ==
    /\ Return(t, Named(t) = NoFile)
    /\ file' = IF Named(t) = NoFile THEN file
               ELSE [file EXCEPT ![Named(t)] = change(@)]
    /\ Untouched

SetPhase(t, op, phase) ==
    At(t, op) /\ OnFile(t, LAMBDA f : [f EXCEPT !.phase = phase])

Bind(t) ==
    \/ SetPhase(t, "bind", "bound")
    \/ At(t, "bind") /\ fault = "bind" /\ Return(t, TRUE)
         /\ UNCHANGED file /\ Untouched

Listen(t) == SetPhase(t, "listen", "listening")

SetNonblock(t) ==
    At(t, "nonblock") /\ OnFile(t, LAMBDA f : [f EXCEPT !.nonblock = TRUE])

\* shutdown(SHUT_RDWR) takes both ends of a connection.  A connect() in progress
\* fails; one that starts later is not affected.
Connecting(f) ==
    \E t \in Threads : holds[t] = f /\ f # NoFile /\ Call(t).op = "connect"

Shutdown(t) ==
    /\ At(t, "shutdown")
    /\ Return(t, Named(t) = NoFile)
    /\ LET both == {Named(t)} \cup
                     IF Named(t) = NoFile THEN {} ELSE {file[Named(t)].peer}
       IN  file' = [f \in Files |->
                      IF f \notin both THEN file[f]
                      ELSE [file[f] EXCEPT !.shut = TRUE,
                              !.phase = IF Connecting(f) THEN "refused" ELSE @]]
    /\ Untouched

\* write(): a byte for the other end; SIGPIPE when there is none any more, or
\* on a TCP socket that is not connected.
Broken(f) ==
    HungUp(f) \/ (file[f].kind = "sock" /\ family = "tcp" /\ file[f].phase # "connected")

Write(t) ==
    /\ At(t, "write")
    /\ LET f == Named(t)
       IN  IF f # NoFile /\ Broken(f)
           THEN /\ exit' = "killed"
                /\ UNCHANGED <<program, family, fault, pc, holds, reserved, file>>
           ELSE /\ Return(t, f = NoFile)
                /\ file' = IF f = NoFile \/ file[f].peer = NoFile THEN file
                           ELSE [file EXCEPT ![file[f].peer].data = TRUE]
    /\ Untouched

\* close() frees the number; threads that are inside a call stay there.
Close(t) ==
    /\ At(t, "close")
    /\ LET n == local[t][Call(t).on]
       IN  /\ Return(t, Named(t) = NoFile)
           /\ fdtable' = IF n \in DOMAIN fdtable THEN [fdtable EXCEPT ![n] = NoFile]
                         ELSE fdtable
           /\ stale' = [u \in Threads |-> stale[u] \cup {v \in Names : local[u][v] = n}]
    /\ UNCHANGED <<local, file, remotes>>

----------------------------------------------------------------------------
(* Calls that block: t enters the file that the number names then, and stays *)
(* with it whatever becomes of the number.                                   *)

\* accept() sets the number of the connection aside before it waits.
Enter(t) ==
    /\ \E op \in Blocking : At(t, op)
    /\ IF Named(t) # NoFile /\ ~(Call(t).op = "accept" /\ FreeNumbers = {})
       THEN /\ holds' = [holds EXCEPT ![t] = Named(t)]
            /\ reserved' = [reserved EXCEPT ![t] =
                              IF Call(t).op = "accept" THEN Lowest(FreeNumbers) ELSE @]
            /\ UNCHANGED <<program, family, fault, exit, pc>>
       ELSE \* poll() of a negative descriptor waits for nothing, for ever
            /\ ~(Call(t).op \in {"poll", "pollin"} /\ local[t][Call(t).on] = Unset)
            /\ Return(t, TRUE)
    /\ UNCHANGED file
    /\ Untouched

Inside(t, op) ==
    /\ exit = "running"
    /\ holds[t] # NoFile
    /\ Call(t).op = op
    /\ Ready(op, holds[t])

PollReturns(t, op) ==
    /\ Inside(t, op)
    /\ Return(t, FALSE)
    /\ UNCHANGED file
    /\ Untouched

ReadReturns(t) ==
    /\ Inside(t, "read")
    /\ Return(t, FALSE)
    /\ file' = [file EXCEPT ![holds[t]].data = FALSE]
    /\ Untouched

\* read() = 0, the end of the file, makes the loop read once more.
ReadUntilReturns(t) ==
    /\ Inside(t, "read_until")
    /\ IF HungUp(holds[t]) /\ ~file[holds[t]].data
       THEN /\ holds' = [holds EXCEPT ![t] = NoFile]
            /\ UNCHANGED <<program, family, fault, exit, pc, reserved, file>>
       ELSE /\ Return(t, FALSE)
            /\ file' = [file EXCEPT ![holds[t]].data = FALSE]
    /\ Untouched

\* No variable of the tools keeps the number that accept() returns.
AcceptReturns(t) ==
    /\ Inside(t, "accept")
    /\ LET l == holds[t]
           f == Lowest(FreeFiles)
           client == Head(file[l].queue)
       IN  IF file[l].shut \/ file[l].queue = <<>>
           THEN Return(t, TRUE) /\ UNCHANGED <<file, fdtable>>
           ELSE /\ FreeFiles # {}
                /\ Return(t, FALSE)
                /\ fdtable' = [fdtable EXCEPT ![reserved[t]] = f]
                /\ file' = [g \in Files |->
                     CASE g = f -> [NewFile("sock", client) EXCEPT !.phase = "connected"]
                       [] g = l -> [file[l] EXCEPT !.queue = Tail(@)]
                       [] g = client -> [file[g] EXCEPT !.peer = f]
                       [] OTHER -> file[g]]
    /\ UNCHANGED <<local, stale, remotes>>

ConnectReturns(t) ==
    /\ Inside(t, "connect")
    /\ LET f == holds[t]
           open == {l \in LocalListener : Len(file[l].queue) < 2}
       IN  IF family # "bt" /\ file[f].phase = "fresh" /\ open # {}
           THEN \E l \in open :
                  /\ file' = [file EXCEPT ![l].queue = Append(@, f),
                                          ![f].phase = "connected"]
                  /\ Return(t, FALSE)
           ELSE /\ UNCHANGED file
                /\ Return(t, file[f].phase # "connected")
    /\ Untouched

----------------------------------------------------------------------------
(* Threads and the end of the process.                                       *)

ValueOf(t, v) ==
    CASE v = "NULL" -> 0 [] v = "&fd2" -> Address [] OTHER -> local[t][v]

CreateThread(t) ==
    /\ At(t, "create")
    /\ LET u == Call(t).num
           v == Call(t).on
       IN  /\ pc' = [pc EXCEPT ![t] = @ + 1, ![u] = 1]
           /\ local' = [local EXCEPT ![u]["arg"] = ValueOf(t, v)]
           /\ stale' = [stale EXCEPT ![u] = IF v \in stale[t] THEN {"arg"} ELSE {}]
    /\ UNCHANGED <<program, family, fault, exit, fdtable, file, holds, reserved, remotes>>

JoinThread(t) ==
    /\ At(t, "join")
    /\ Ended(Call(t).num)
    /\ Return(t, FALSE)
    /\ UNCHANGED file
    /\ Untouched

JumpBack(t) ==
    /\ At(t, "goto")
    /\ pc' = [pc EXCEPT ![t] = Call(t).num]
    /\ UNCHANGED <<program, family, fault, exit, holds, reserved, file>>
    /\ Untouched

\* main returns what the do_ function returns: the process ends, and its threads.
MainReturns ==
    /\ exit = "running"
    /\ Ended(Main)
    /\ exit' = "returned"
    /\ UNCHANGED <<program, family, fault, pc, local, stale, fdtable, file, holds,
                   reserved, remotes>>

----------------------------------------------------------------------------
(* Other processes and devices.                                              *)

RemoteConnects ==
    /\ exit = "running"
    /\ remotes < MaxRemote
    /\ \E l \in LocalListener :
         /\ Len(file[l].queue) < 2
         /\ file' = [file EXCEPT ![l].queue = Append(@, NoFile)]
    /\ remotes' = remotes + 1
    /\ UNCHANGED <<program, family, fault, exit, pc, local, stale, fdtable, holds,
                   reserved>>

\* The other device accepts or refuses a Bluetooth connection.
RemoteAnswers ==
    /\ exit = "running"
    /\ family = "bt"
    /\ remotes < MaxRemote
    /\ \E t \in Threads, answer \in {"connected", "refused"} :
         /\ holds[t] # NoFile
         /\ Call(t).op = "connect"
         /\ file[holds[t]].phase = "fresh"
         /\ file' = [file EXCEPT ![holds[t]].phase = answer]
    /\ remotes' = remotes + 1
    /\ UNCHANGED <<program, family, fault, exit, pc, local, stale, fdtable, holds,
                   reserved>>

\* The device at the other end of a Bluetooth connection sends, or hangs up.
RemoteActs ==
    /\ exit = "running"
    /\ family = "bt"
    /\ \E f \in Files :
         /\ InUse(f) /\ file[f].phase = "connected"
         /\ \/ file' = [file EXCEPT ![f].data = TRUE]
            \/ file' = [file EXCEPT ![f].shut = TRUE]
    /\ UNCHANGED <<program, family, fault, exit, pc, local, stale, fdtable, holds,
                   reserved, remotes>>

----------------------------------------------------------------------------
Step(t) ==
    \/ Socket(t)
    \/ Pipe(t, "pipe", "pipe_r", "pipe_w")
    \/ Pipe(t, "pair", "pair", "pair")
    \/ Bind(t)
    \/ Listen(t)
    \/ SetNonblock(t)
    \/ Shutdown(t)
    \/ Write(t)
    \/ Close(t)
    \/ Enter(t)
    \/ PollReturns(t, "poll")
    \/ PollReturns(t, "pollin")
    \/ ReadReturns(t)
    \/ ReadUntilReturns(t)
    \/ AcceptReturns(t)
    \/ ConnectReturns(t)
    \/ CreateThread(t)
    \/ JoinThread(t)
    \/ JumpBack(t)

Next ==
    \/ \E t \in Threads : Step(t)
    \/ MainReturns
    \/ RemoteConnects
    \/ RemoteAnswers
    \/ RemoteActs

Spec == Init /\ [][Next]_vars

\* The scheduler runs every thread that can run.  Nobody outside has to connect
\* or to answer.
Fairness == WF_vars(MainReturns) /\ \A t \in Threads : WF_vars(Step(t))

FairSpec == Spec /\ Fairness
====
