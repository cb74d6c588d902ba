---- MODULE SockTestProperties ----
(* What the programs of tools/ must do, on the kernel model of SockTest.     *)
EXTENDS SockTest

\* Types, and the bounds of the counters: main has a next call, or none left
\* (tools/socktest.c:811), a thread also none yet.
TypeOK ==
    /\ program \in Programs
    /\ family \in Families \cup {"unix"}
    /\ exit \in {"running", "returned", "error", "killed"}
    /\ pc[Main] \in 1 .. Len(Script(Main)) + 1
    /\ \A t \in Threads \ {Main} : pc[t] \in {0, 1} \/ pc[t] <= Len(Script(t)) + 1
    /\ file \in [Files ->
          [kind : {"tty", "pipe_r", "pipe_w", "pair", "sock"},
           peer : {NoFile} \cup Files,
           phase : {"fresh", "bound", "listening", "connected", "refused"},
           shut : BOOLEAN, nonblock : BOOLEAN, data : BOOLEAN,
           queue : Seq({NoFile} \cup Files)]]
    /\ local \in [Threads -> [Names -> 0 .. Address]]
    /\ stale \in [Threads -> SUBSET Names]
    /\ fdtable \in [0 .. MaxFd -> {NoFile} \cup Files]
    /\ holds \in [Threads -> {NoFile} \cup Files]
    /\ reserved \in [Threads -> 0 .. Unset]
    /\ remotes \in 0 .. MaxRemote

\* A number that was closed is no longer used for anything that is open: when a
\* thread is about to make a call with a variable whose number was closed since
\* the variable was set, nothing is open under that number.  What keeps this
\* true is the join that ends each turn of pipe_close_w_close_r_repeat
\* (tools/pipetest.c:380), and that no program opens a descriptor while another
\* of its threads still has a closed number to use.
NoAstrayCall ==
    exit = "running" =>
        \A t \in Threads :
            (pc[t] > 0 /\ ~Ended(t) /\ holds[t] = NoFile /\ Call(t).on \in stale[t])
                => Named(t) = NoFile

\* The struct thread_args that a thread reads lies on the stack of main: the
\* do_ function has not returned while such a thread still runs
\* (tools/socktest.c:449, 475, 499, 587, 705, 734), by its last line or by
\* `goto error`.  There is one exception, which the code does not avoid: when
\* the connect of connected_read1_shutdown1 fails (socktest.c:699,
\* asocket_test.c:627), the function returns -1 and joins nobody, and the first
\* thread still has the address of a1.
ArgsOutliveThreads ==
    exit = "returned" \/ (exit = "error" /\ program # "connected_read1_shutdown1") =>
        \A t \in AllPrograms[program].byRef : pc[t] = 0 \/ Ended(t)

\* do_pipe_pipe_pipe opens pipes for ever and never runs out of descriptors
\* (tools/pipetest.c:255-263).
PipeLoopNeverFails ==
    program = "pipe_pipe_pipe" /\ fault # "pipe" => exit = "running"

\* Thread t cannot go on by itself.
Waits(t) ==
    \/ pc[t] = 0
    \/ Ended(t)
    \/ At(t, "join") /\ ~Ended(Call(t).num)
    \/ holds[t] # NoFile /\ ~Ready(Call(t).op, holds[t])

\* The programs that close a descriptor under their other threads.
Closing ==
    program \in {"accept_and_close", "accept_close_write", "poll_poll_poll_close",
                 "read_read_read_close", "socketpair_poll1_close1"}

\* When a program that closes a descriptor under its other threads gets stuck
\* (the close leaves those inside a call where they are), each thread inside a
\* call is in a file that the process has no number for any more: the close was
\* made, and no thread waits on something that could still be shut down.
StuckOnlyOnClosed ==
    (Closing /\ exit = "running" /\ ~Ended(Main) /\ \A t \in Threads : Waits(t)) =>
        \A t \in Threads : holds[t] # NoFile => holds[t] \notin Range(fdtable)

----------------------------------------------------------------------------
(* Liveness, under FairSpec.                                                 *)

\* The programs that shut down, write to or hang up everything their threads
\* wait for, whatever order the threads run in.  In connect_shutdown only the
\* sleep makes the shutdown come after the connect, so a Bluetooth connect may
\* outlast it; the local ones are refused.  bug_tcp ends in a sleep of
\* 2000000000 seconds.
Ending ==
    \/ program \in {"accept_shutdown", "poll_poll_poll_shutdown",
                    "read_read_read_shutdown", "connectnb_shutdown",
                    "connectnb_close", "socketpair_poll1_shutdown2",
                    "socketpair_poll1_shutdown1", "socketpair_read1_shutdown1",
                    "pollin_pollin_write",
                    "pollin_pollin_pollin_write_pollin_pollin_pollin",
                    "poll_poll_shutdown", "close_poll_poll_poll",
                    "close_close_close", "pipe_close_w_close_w_repeat",
                    "bug_l2cap"}
    \/ program \in {"connect_shutdown", "accept_connect_connect"} /\ family # "bt"

\* Those programs end: every join returns, so every thread was woken, whether it
\* was inside its call at the time of the shutdown, the write or the hang-up, or
\* came to it afterwards.  (With a failing socket() four of them poll descriptor
\* -1, for ever.)  accept_connect_connect accepts once, and its queue holds two more:
\* room for its own two threads and for one connection from outside.  When there
\* are more, a thread's connect may wait for ever.
Crowded == program = "accept_connect_connect" /\ remotes > 1
ShutdownEndsThem == Ending /\ fault # "socket" ~> exit # "running" \/ Crowded
====
