---- MODULE SockScripts ----
(* The programs that tools/ runs against the kernel's sockets and pipes:     *)
(* pipetest, socktest, asocket_test, sock_shutdown_test and the three        *)
(* sock_shutdown_bug programs.  A program is the sequence of system calls of *)
(* its do_ function (the main thread) and those of the threads it creates,   *)
(* one operator per function of the source.  What the calls do is the        *)
(* subject of SockTest.                                                      *)
(*                                                                           *)
(* A call names a local variable of the thread that makes it: "fd" (fd,      *)
(* fd1 or fd[0]), "fd2" (fd2 or fd[1]), and "arg", what pthread_create       *)
(* handed to the thread (args->fd of a struct thread_args, which is set      *)
(* before the thread starts, counts as that).  A sleep or usleep of seconds  *)
(* guarantees no order and is left out; one of 2000000000 never ends.        *)
EXTENDS Naturals, Sequences, SequencesExt

CONSTANT
    Many    \* stands for MAX_T (32 or 10) and THREADS (100)

ASSUME ManyAssumption == Many \in Nat /\ Many >= 2

----------------------------------------------------------------------------
(* Calls.  A must-call that fails ends the main function: `goto error` or    *)
(* `return -1`.                                                              *)

Do(op, v) == [op |-> op, on |-> v, num |-> 0, must |-> FALSE]

Must(op, v) == [Do(op, v) EXCEPT !.must = TRUE]

\* pthread_create of thread t with v as its argument, and pthread_join of t
Create(t, v) == [Do("create", v) EXCEPT !.num = t]

Join(t) == [Do("join", "none") EXCEPT !.num = t]

\* mutated: calls counted from 0
GoToFromZero(i) == [Do("goto", "none") EXCEPT !.num = i - 1]

\* back to the i-th call: while (1)
GoTo(i) == [Do("goto", "none") EXCEPT !.num = i]

CreateAll(v) == [t \in 1 .. Many |-> Create(t, v)]

JoinAll == [t \in 1 .. Many |-> Join(t)]

\* main's calls, each thread's calls, and the threads that reach their
\* arguments through a pointer to the stack of the main thread
Program(main, threads, byRef) ==
    [main |-> main, threads |-> threads, byRef |-> byRef]

Each(script) == [t \in 1 .. Many |-> script]

----------------------------------------------------------------------------
(* The functions that threads run.                                           *)

thread_poll == <<Do("poll", "arg")>>
thread_pollin == <<Do("pollin", "arg")>>
thread_pollin_rand_delay == <<Do("pollin", "arg")>>
thread_read == <<Do("read", "arg")>>
thread_close == <<Do("close", "arg")>>
thread_delay_close == <<Do("close", "arg")>>
thread_shutdown == <<Do("shutdown", "arg")>>
thread_accept == <<Do("accept", "arg")>>
thread_connect == <<Do("connect", "arg")>>
thread_delay_close_write == <<Do("close", "arg"), Do("write", "arg")>>

\* The descriptor that accept returns is dropped: the write is to the listener.
thread_accept_write == <<Do("accept", "arg"), Do("write", "arg")>>

thread_delay_connect == <<Do("socket", "arg"), Do("connect", "arg")>>

----------------------------------------------------------------------------
(* socktest: one operator per action.                                        *)

Listener(v) == <<Must("socket", v), Must("bind", v), Must("listen", v)>>

do_accept_accept_accept ==
    Program(Listener("fd") \o <<Do("accept", "fd"), GoTo(4)>>, <<>>, {})

\* mutated: main does not wait for the thread that has its arguments.
AcceptAndCloseWithoutJoin ==
    Program(Listener("fd") \o <<Create(1, "fd"), Do("accept", "fd")>>,
            <<thread_delay_close>>, {1})

do_accept_and_close ==
    Program(Listener("fd") \o
              <<Create(1, "fd"), Do("accept", "fd"), Join(1)>>,
            <<thread_delay_close>>, {1})

do_accept_shutdown ==
    Program(Listener("fd") \o
              <<Create(1, "fd"), Do("shutdown", "fd"), Join(1), Do("close", "fd")>>,
            <<thread_accept>>, {1})

do_connect_shutdown ==
    Program(<<Must("socket", "fd"), Create(1, "fd"), Do("shutdown", "fd"),
              Join(1), Do("close", "fd")>>,
            <<thread_connect>>, {1})

do_connectnb_shutdown ==
    Program(<<Must("socket", "fd"), Must("nonblock", "fd"), Do("connect", "fd"),
              Do("shutdown", "fd"), Do("close", "fd")>>,
            <<>>, {})

do_connectnb_close ==
    Program(<<Must("socket", "fd"), Must("nonblock", "fd"), Do("connect", "fd"),
              Do("close", "fd")>>,
            <<>>, {})

do_accept_close_write ==
    Program(Listener("fd") \o
              <<Create(1, "fd"), Do("accept", "fd"), Join(1)>>,
            <<thread_delay_close_write>>, {1})

\* Here the result of _socket is not looked at.
do_poll_poll_poll_shutdown ==
    Program(<<Do("socket", "fd")>> \o CreateAll("fd") \o <<Do("shutdown", "fd")>>
              \o JoinAll \o <<Do("close", "fd")>>,
            Each(thread_poll), {})

do_poll_poll_poll_close ==
    Program(<<Do("socket", "fd")>> \o CreateAll("fd") \o <<Do("close", "fd")>>
              \o JoinAll,
            Each(thread_poll), {})

\* mutated: the close left out.
ReadCloseWithoutClose ==
    Program(<<Do("socket", "fd")>> \o CreateAll("fd") \o JoinAll,
            Each(thread_read), {})

do_read_read_read_close ==
    Program(<<Do("socket", "fd")>> \o CreateAll("fd") \o <<Do("close", "fd")>>
              \o JoinAll,
            Each(thread_read), {})

\* mutated: closed before it is shut down.
ReadShutdownAfterClose ==
    Program(<<Do("socket", "fd")>> \o CreateAll("fd") \o
              <<Do("close", "fd"), Do("shutdown", "fd")>> \o JoinAll,
            Each(thread_read), {})

do_read_read_read_shutdown ==
    Program(<<Do("socket", "fd")>> \o CreateAll("fd") \o <<Do("shutdown", "fd")>>
              \o JoinAll \o <<Do("close", "fd")>>,
            Each(thread_read), {})

\* thread_shutdown takes a descriptor and is given the address of fd2.
\* `while (1) if (_read(fd2)) break;` reads again only after an end of file.
do_connected_read1_shutdown1 ==
    Program(Listener("fd") \o
              <<Create(1, "fd"), Do("socket", "fd2"), Must("connect", "fd2"),
                Create(2, "&fd2"), Do("read_until", "fd2"), Join(1), Join(2)>>,
            <<thread_accept_write, thread_shutdown>>, {1})

do_accept_connect_connect ==
    Program(Listener("fd") \o
              <<Create(1, "fd"), Create(2, "fd"), Do("accept", "fd"),
                Join(1), Join(2)>>,
            <<thread_delay_connect, thread_delay_connect>>, {1, 2})

SocktestActions ==
    [accept_accept_accept |-> do_accept_accept_accept,
     accept_and_close |-> do_accept_and_close,
     accept_shutdown |-> do_accept_shutdown,
     connect_shutdown |-> do_connect_shutdown,
     connectnb_shutdown |-> do_connectnb_shutdown,
     connectnb_close |-> do_connectnb_close,
     accept_close_write |-> do_accept_close_write,
     accept_connect_connect |-> do_accept_connect_connect,
     poll_poll_poll_shutdown |-> do_poll_poll_poll_shutdown,
     poll_poll_poll_close |-> do_poll_poll_poll_close,
     read_read_read_shutdown |-> do_read_read_read_shutdown,
     read_read_read_close |-> do_read_read_read_close,
     connected_read1_shutdown1 |-> do_connected_read1_shutdown1]

\* asocket_test has the functions of socktest line by line, the non-blocking
\* connects excepted.
AsocketActions ==
    [a \in DOMAIN SocktestActions \ {"connectnb_shutdown", "connectnb_close"}
       |-> SocktestActions[a]]

\* sock_shutdown_test has one action.
ShutdownTestActions == [accept_shutdown |-> do_accept_shutdown]

----------------------------------------------------------------------------
(* pipetest: one operator per entry of function_table.                       *)

do_poll_poll_close ==
    Program(<<Must("pipe", "fd"), Create(1, "NULL"), Create(2, "NULL"),
              Do("close", "fd2"), Join(1), Join(2)>>,
            <<thread_poll, thread_poll>>, {})

do_socketpair_poll1_shutdown2 ==
    Program(<<Must("pair", "fd"), Create(1, "fd2"), Do("shutdown", "fd"),
              Do("close", "fd"), Join(1)>>,
            <<thread_poll>>, {})

do_socketpair_poll1_shutdown1 ==
    Program(<<Must("pair", "fd"), Create(1, "fd"), Do("shutdown", "fd"),
              Do("close", "fd"), Join(1)>>,
            <<thread_poll>>, {})

do_socketpair_poll1_close1 ==
    Program(<<Must("pair", "fd"), Create(1, "fd"), Do("close", "fd"), Join(1)>>,
            <<thread_poll>>, {})

do_socketpair_read1_shutdown1 ==
    Program(<<Must("pair", "fd"), Create(1, "fd"), Do("shutdown", "fd"),
              Do("close", "fd"), Join(1)>>,
            <<thread_read>>, {})

\* mutated: one end of the pipe not closed.
PipeLoopKeepsOneEnd ==
    Program(<<Must("pipe", "fd"), Do("close", "fd"), GoTo(1)>>, <<>>, {})

do_pipe_pipe_pipe ==
    Program(<<Must("pipe", "fd"), Do("close", "fd"), Do("close", "fd2"), GoTo(1)>>,
            <<>>, {})

do_pollin_pollin_write ==
    Program(<<Must("pipe", "fd"), Create(1, "fd"), Create(2, "fd")>>
              \o [i \in 1 .. Many |-> Do("write", "fd2")] \o <<Join(1), Join(2)>>,
            <<thread_pollin, thread_pollin>>, {})

do_pollin_pollin_pollin_write_pollin_pollin_pollin ==
    Program(<<Must("pipe", "fd")>> \o CreateAll("fd") \o <<Do("write", "fd2")>>
              \o JoinAll \o <<Do("close", "fd"), Do("close", "fd2")>>,
            Each(thread_pollin_rand_delay), {})

\* The body is compiled out (#if 0) and the function returns -1.
do_poll_poll_shutdown == Program(<<>>, <<>>, {})

do_close_poll_poll_poll ==
    Program(<<Must("pipe", "fd"), Do("close", "fd2")>> \o CreateAll("fd")
              \o JoinAll,
            Each(thread_poll), {})

\* The threads take the two ends in turn and nobody joins them.
do_close_close_close ==
    Program(<<Must("pipe", "fd")>> \o
              [i \in 1 .. Many |-> Create(i, IF i % 2 = 1 THEN "fd" ELSE "fd2")],
            Each(thread_close), {})

\* mutated: the join left out of a turn of the loop.
CloseWCloseRWithoutJoin(i) ==
    <<Must("pipe", "fd"), Create(i, "fd"), Do("close", "fd2"), Do("close", "fd")>>

\* One turn of the loop: the thread of the i-th turn is thread i.
CloseWCloseR(i) ==
    <<Must("pipe", "fd"), Create(i, "fd"), Do("close", "fd2"), Do("close", "fd"),
      Join(i)>>

pipe_close_w_close_r_repeat ==
    LET turn == Len(CloseWCloseR(1))
    IN  Program([k \in 1 .. turn * Many |->
                   CloseWCloseR(1 + ((k - 1) \div turn))[1 + ((k - 1) % turn)]],
                Each(thread_poll), {})

PipetestFunctions ==
    [socketpair_poll1_shutdown2 |-> do_socketpair_poll1_shutdown2,
     socketpair_poll1_shutdown1 |-> do_socketpair_poll1_shutdown1,
     socketpair_poll1_close1 |-> do_socketpair_poll1_close1,
     socketpair_read1_shutdown1 |-> do_socketpair_read1_shutdown1,
     pipe_pipe_pipe |-> do_pipe_pipe_pipe,
     poll_poll_close |-> do_poll_poll_close,
     pollin_pollin_write |-> do_pollin_pollin_write,
     pollin_pollin_pollin_write_pollin_pollin_pollin |->
         do_pollin_pollin_pollin_write_pollin_pollin_pollin,
     poll_poll_shutdown |-> do_poll_poll_shutdown,
     close_poll_poll_poll |-> do_close_poll_poll_poll,
     close_close_close |-> do_close_close_close,
     pipe_close_w_close_w_repeat |-> pipe_close_w_close_r_repeat]

----------------------------------------------------------------------------
(* The sock_shutdown_bug programs.                                           *)

bug_tcp ==
    Program(<<Do("socket", "fd"), Do("bind", "fd"), Do("listen", "fd"),
              Do("close", "fd"), Do("socket", "fd"), Do("bind", "fd"),
              Do("sleep", "none")>>,
            <<>>, {})

\* The first descriptor is shut down and forgotten, not closed.
bug_rfcomm ==
    Program(<<Do("socket", "fd"), Do("nonblock", "fd"), Do("connect", "fd"),
              Do("shutdown", "fd"), Do("socket", "fd"), Do("connect", "fd"),
              Do("shutdown", "fd")>>,
            <<>>, {})

bug_l2cap ==
    Program(<<Do("socket", "fd"), Do("nonblock", "fd"), Do("connect", "fd"),
              Do("shutdown", "fd"), Do("close", "fd")>>,
            <<>>, {})

ShutdownBugs ==
    [bug_tcp |-> bug_tcp, bug_rfcomm |-> bug_rfcomm, bug_l2cap |-> bug_l2cap]
====
