------------------------ MODULE SockScriptsProofs ------------------------
(***************************************************************************)
(* What all the programs of tools/ have in common, for any number of       *)
(* threads: the facts about their scripts that the proofs of SockTest rest *)
(* on.  No lemma here speaks of a run; each program has one, proved from   *)
(* the calls that its functions make.                                      *)
(***************************************************************************)
EXTENDS SockTestProperties, SequenceTheorems, TLAPS

-----------------------------------------------------------------------------
(* Shapes of scripts.                                                      *)

\* The calls that open descriptors, and the others that never wait.
Opening == {"socket", "pipe", "pair"}
AtOnce == {"bind", "listen", "nonblock", "shutdown", "write", "close"}

\* A script is a sequence of calls.
IsScript(s) == Len(s) \in Nat /\ DOMAIN s = 1 .. Len(s)

\* The calls of a thread that is not main, and those of main.
ThreadCall(c) == c.op \in Opening \cup AtOnce \cup Blocking /\ c.on \in Names

MainCall(p, c) ==
    \/ ThreadCall(c) /\ c.on # "arg"
    \/ c.op = "create" /\ c.num \in DOMAIN p.threads /\ c.on \in {"fd", "fd2", "NULL", "&fd2"}
    \/ c.op = "join" /\ c.num \in DOMAIN p.threads
    \/ c.op = "goto" /\ c.num \in DOMAIN p.main
    \/ c.op = "sleep"

\* The i-th call of main creates, or joins, thread u.
Creates(p, i, u) == i \in DOMAIN p.main /\ p.main[i].op = "create" /\ p.main[i].num = u
Joins(p, i, u) == i \in DOMAIN p.main /\ p.main[i].op = "join" /\ p.main[i].num = u

\* Every call of the program p is one that the model knows, on a variable that
\* the thread has.
Typed(p) ==
    /\ IsScript(p.main)
    /\ \A i \in DOMAIN p.main : MainCall(p, p.main[i])
    /\ DOMAIN p.threads \subseteq 1 .. Many
    /\ \A t \in DOMAIN p.threads :
         IsScript(p.threads[t]) /\ \A i \in DOMAIN p.threads[t] : ThreadCall(p.threads[t][i])
    /\ p.byRef \subseteq DOMAIN p.threads

\* A thread is created once, a program that loops has none, and a thread that
\* has its arguments on the stack of main is joined.
Forks(p) ==
    /\ \A i, j \in DOMAIN p.main, u \in DOMAIN p.threads : Creates(p, i, u)
       /\ Creates(p, j, u) => i = j
    /\ (\E i \in DOMAIN p.main : p.main[i].op = "goto") =>
          \A i \in DOMAIN p.main : p.main[i].op \notin {"create", "join"}
    /\ \A u \in p.byRef : \E i \in DOMAIN p.main : Joins(p, i, u)

\* Why no program opens a descriptor while one of its threads has a closed number
\* to use.  Either it closes none...
NeverCloses(p) ==
    /\ \A i \in DOMAIN p.main : p.main[i].op # "close"
    /\ \A t \in DOMAIN p.threads : \A i \in DOMAIN p.threads[t] : p.threads[t][i].op # "close"

\* ... or only main opens any, after a join of each thread it has created ...
Sequential(p) ==
    /\ \A t \in DOMAIN p.threads : \A i \in DOMAIN p.threads[t] :
         p.threads[t][i].op \notin Opening
    /\ \A j \in DOMAIN p.main : p.main[j].op \in Opening =>
         \A i \in 1 .. j - 1, u \in DOMAIN p.threads :
            Creates(p, i, u) => \E k \in 1 .. j - 1 : Joins(p, k, u)

\* ... always both of its variables, or always the same one ...
PairsOnly(p) == \A i \in DOMAIN p.main : p.main[i].op \in Opening => p.main[i].op # "socket"
SocketsOnly(p) == \A i \in DOMAIN p.main : p.main[i].op \in Opening =>
                      p.main[i].op = "socket" /\ p.main[i].on = "fd"

\* ... and accept(), which opens one too, is not called, or the one socket of the
\* program is opened at the start, so that a closed number is everybody's.
NoAccept(p) ==
    /\ \A i \in DOMAIN p.main : p.main[i].op # "accept"
    /\ \A t \in DOMAIN p.threads : \A i \in DOMAIN p.threads[t] : p.threads[t][i].op # "accept"
OneNumber(p) ==
    /\ SocketsOnly(p)
    /\ \A i \in DOMAIN p.main : p.main[i].op \in Opening => i = 1
    /\ \A i \in DOMAIN p.main : p.main[i].op \in {"create"} => p.main[i].on = "fd"
    /\ \A i \in DOMAIN p.main : p.main[i].op # "goto"

Harmless(p) ==
   \/ NeverCloses(p)
   \/ Sequential(p) /\ (PairsOnly(p) \/ SocketsOnly(p)) /\ (NoAccept(p) \/ OneNumber(p))

\* A thread with NULL for its argument does not close it: it would be descriptor
\* 0 (tools/pipetest.c:132-133).
NullsKept(p) == \A i \in DOMAIN p.main : p.main[i].op = "create" /\ p.main[i].on = "NULL" =>
   \A k \in DOMAIN p.threads[p.main[i].num] : p.threads[p.main[i].num][k].op # "close"

\* One descriptor, opened by the first call, is everything that threads use, and
\* main waits only after a close of it, or after it created a thread that closes
\* it without waiting for anything first.
ClosesOne(p) ==
    /\ \A u \in DOMAIN p.threads : \A k \in DOMAIN p.threads[u] :
         p.threads[u][k].op \notin Opening /\ p.threads[u][k].on = "arg"
    /\ \A i \in DOMAIN p.main :
         /\ p.main[i].op \in Opening => i = 1
         /\ p.main[i].op = "create" => p.main[i].on = "fd"
         /\ p.main[i].op # "goto"
         /\ p.main[i].op \in Blocking \cup {"close"} => p.main[i].on = "fd"
         /\ p.main[i].op \in Blocking \cup {"join"} =>
              \/ \E c \in 1 .. i - 1 : p.main[c].op = "close"
              \/ \E c \in 1 .. i - 1, u \in DOMAIN p.threads :
                   /\ Creates(p, c, u)
                   /\ Len(p.threads[u]) >= 1 /\ p.threads[u][1].op = "close"
                   /\ \A k \in DOMAIN p.threads[u] : p.threads[u][k].op \notin Blocking

\* Main can fail only before it creates a thread, and no thread can.
MustsFirst(p) ==
    /\ \A i, j \in DOMAIN p.main : p.main[i].op = "create" /\ i <= j => ~p.main[j].must
    /\ \A u \in DOMAIN p.threads : \A k \in DOMAIN p.threads[u] : ~p.threads[u][k].must

\* What all programs have in common.
Good(p) == Typed(p) /\ Forks(p) /\ Harmless(p) /\ NullsKept(p)

\* The records that Do, Must, Create, Join and GoTo make.
Verbs == Opening \cup AtOnce \cup Blocking \cup {"create", "join", "goto", "sleep"}
Words == Names \cup {"NULL", "&fd2", "none"}
Calls == [op : Verbs, on : Words, num : Nat, must : BOOLEAN]

\* Do, Must, Create, Join and GoTo make calls.
LEMMA CallsAreCalls ==
    /\ \A op \in Verbs, v \in Words : Do(op, v) \in Calls /\ Must(op, v) \in Calls
    /\ \A t \in Nat, v \in Words : Create(t, v) \in Calls
    /\ \A t \in Nat : Join(t) \in Calls /\ GoTo(t) \in Calls
<1>1. \A op \in Verbs, v \in Words : Do(op, v) \in Calls /\ Must(op, v) \in Calls
  <2> SUFFICES ASSUME NEW op \in Verbs, NEW v \in Words
               PROVE Do(op, v) \in Calls /\ Must(op, v) \in Calls
    OBVIOUS
  <2>1. Do(op, v) \in Calls
    BY DEF Do, Calls
  <2> QED
    BY <2>1 DEF Must, Calls
<1>2. "none" \in Words /\ {"create", "join", "goto"} \subseteq Verbs
  BY DEF Words, Verbs
<1>3. \A t \in Nat, v \in Words : Create(t, v) \in Calls
  BY <1>1, <1>2 DEF Create, Calls
<1>4. \A t \in Nat : Join(t) \in Calls /\ GoTo(t) \in Calls
  <2> SUFFICES ASSUME NEW t \in Nat PROVE Join(t) \in Calls /\ GoTo(t) \in Calls
    OBVIOUS
  <2>1. Do("join", "none") \in Calls /\ Do("goto", "none") \in Calls
    BY <1>1, <1>2
  <2> QED
    BY <2>1 DEF Join, GoTo, Calls
<1> QED
  BY <1>1, <1>3, <1>4

USE DEF Verbs, Words, Opening, AtOnce, Blocking, Names

\* The fields of a call that the proofs look at.
LEMMA CallParts ==
    /\ \A op, v : /\ Do(op, v).op = op /\ Do(op, v).on = v /\ ~Do(op, v).must
                  /\ Must(op, v).op = op /\ Must(op, v).on = v /\ Must(op, v).must
    /\ \A t, v : /\ Create(t, v).op = "create" /\ Create(t, v).num = t
                 /\ Create(t, v).on = v /\ ~Create(t, v).must
    /\ \A t : Join(t).op = "join" /\ Join(t).num = t /\ ~Join(t).must
    /\ \A t : GoTo(t).op = "goto" /\ GoTo(t).num = t
  BY DEF Do, Must, Create, Join, GoTo

\* The fields of a program.
LEMMA ProgramParts ==
    \A m, t, b : Program(m, t, b).main = m /\ Program(m, t, b).threads = t
    /\ Program(m, t, b).byRef = b
  BY DEF Program

\* The thread_ functions, call by call.
LEMMA ThreadScripts ==
    /\ \A s \in {thread_poll, thread_pollin, thread_pollin_rand_delay, thread_read,
                 thread_close, thread_delay_close,
                 thread_shutdown, thread_accept, thread_connect} : Len(s) = 1 /\ DOMAIN s = {1}
    /\ \A s \in {thread_delay_close_write, thread_accept_write, thread_delay_connect} :
         Len(s) = 2 /\ DOMAIN s = {1, 2}
    /\ thread_poll[1] = Do("poll", "arg") /\ thread_pollin[1] = Do("pollin", "arg")
    /\ thread_pollin_rand_delay[1] = Do("pollin", "arg") /\ thread_read[1] = Do("read", "arg")
    /\ thread_close[1] = Do("close", "arg") /\ thread_delay_close[1] = Do("close", "arg")
    /\ thread_shutdown[1] = Do("shutdown", "arg") /\ thread_accept[1] = Do("accept", "arg")
    /\ thread_connect[1] = Do("connect", "arg")
    /\ thread_delay_close_write[1] = Do("close", "arg")
       /\ thread_delay_close_write[2] = Do("write", "arg")
    /\ thread_accept_write[1] = Do("accept", "arg")
       /\ thread_accept_write[2] = Do("write", "arg")
    /\ thread_delay_connect[1] = Do("socket", "arg")
       /\ thread_delay_connect[2] = Do("connect", "arg")
  BY
     DEF thread_poll, thread_pollin, thread_pollin_rand_delay, thread_read, thread_close,
         thread_delay_close,
         thread_shutdown, thread_accept, thread_connect, thread_delay_close_write,
            thread_accept_write, thread_delay_connect

\* r is a followed by b.
IsCat(r, a, b) ==
    /\ r \in Seq(Calls) /\ Len(a) \in Nat /\ Len(b) \in Nat /\ Len(r) = Len(a) + Len(b)
    /\ DOMAIN r = 1 .. Len(a) + Len(b)
    /\ \A i \in 1 .. Len(a) : r[i] = a[i]
    /\ \A i \in Len(a) + 1 .. Len(a) + Len(b) : r[i] = b[i - Len(a)]

\* Concatenation of scripts, in the form that the long programs need.
LEMMA Cat == \A a, b \in Seq(Calls) : IsCat(a \o b, a, b)
<1> SUFFICES ASSUME NEW a \in Seq(Calls), NEW b \in Seq(Calls) PROVE IsCat(a \o b, a, b)
  OBVIOUS
<1> DEFINE r == a \o b
<1>1. Len(a) \in Nat /\ Len(b) \in Nat
  BY LenProperties
<1>2. /\ r \in Seq(Calls) /\ Len(r) = Len(a) + Len(b)
      /\ \A i \in 1 .. Len(a) + Len(b) : r[i] = IF i <= Len(a) THEN a[i] ELSE b[i - Len(a)]
  BY ConcatProperties
<1> HIDE DEF r
<1>3. DOMAIN r = 1 .. Len(r)
  BY <1>2, LenProperties
<1>4. IsCat(r, a, b)
  BY <1>1, <1>2, <1>3 DEF IsCat
<1> QED
  BY <1>4 DEF r

\* m opens a listener and goes on with s.
AfterListener(m, s) ==
    /\ Len(s) \in Nat /\ Len(m) = 3 + Len(s) /\ DOMAIN m = 1 .. 3 + Len(s)
    /\ m[1] = Must("socket", "fd") /\ m[2] = Must("bind", "fd") /\ m[3] = Must("listen", "fd")
    /\ \A i \in 4 .. 3 + Len(s) : m[i] = s[i - 3]

\* The programs that begin with socket, bind and listen.
LEMMA ListenerThen == \A s \in Seq(Calls) : AfterListener(Listener("fd") \o s, s)
<1> SUFFICES ASSUME NEW s \in Seq(Calls) PROVE AfterListener(Listener("fd") \o s, s)
  OBVIOUS
<1> DEFINE l == Listener("fd")
           m == l \o s
<1>1. /\ l \in Seq(Calls) /\ Len(l) = 3
      /\ l[1] = Must("socket", "fd") /\ l[2] = Must("bind", "fd") /\ l[3] = Must("listen", "fd")
  <2>1. Must("socket", "fd") \in Calls /\ Must("bind", "fd") \in Calls
        /\ Must("listen", "fd") \in Calls
    BY CallsAreCalls
  <2> QED
    BY <2>1 DEF Listener
<1> HIDE DEF l
<1>2. IsCat(m, l, s)
  BY <1>1, Cat
<1> HIDE DEF m
<1>3. AfterListener(m, s)
  BY <1>1, <1>2 DEF IsCat, AfterListener
<1> QED
  BY <1>3 DEF m, l

\* The loops that create, join or write Many times.
LEMMA Loops ==
    /\ CreateAll("fd") \in Seq(Calls) /\ Len(CreateAll("fd")) = Many
    /\ JoinAll \in Seq(Calls) /\ Len(JoinAll) = Many
    /\ [n \in 1 .. Many |-> Do("write", "fd2")] \in Seq(Calls)
    /\ Len([n \in 1 .. Many |-> Do("write", "fd2")]) = Many
    /\ [n \in 1 .. Many |-> Create(n, IF n % 2 = 1 THEN "fd" ELSE "fd2")] \in Seq(Calls)
    /\ Len([n \in 1 .. Many |-> Create(n, IF n % 2 = 1 THEN "fd" ELSE "fd2")]) = Many
<1>1. Many \in Nat
  BY ManyAssumption
<1>2. \A i \in 1 .. Many : /\ Create(i, "fd") \in Calls /\ Join(i) \in Calls
      /\ Do("write", "fd2") \in Calls
                           /\ Create(i, IF i % 2 = 1 THEN "fd" ELSE "fd2") \in Calls
  BY <1>1, CallsAreCalls
<1> QED
  BY <1>1, <1>2, IsASeq DEF CreateAll, JoinAll

\* do_accept_accept_accept closes no descriptor.
LEMMA Good_do_accept_accept_accept == Good(do_accept_accept_accept)
<1> DEFINE p == do_accept_accept_accept
             s == <<Do("accept", "fd"), GoTo(4)>>
<1>1. /\ s \in Seq(Calls) /\ Len(s) = 2 /\ s[1] = Do("accept", "fd") /\ s[2] = GoTo(4)
  <2>1. /\ Do("accept", "fd") \in Calls /\ GoTo(4) \in Calls
    BY CallsAreCalls
  <2> QED
    BY <2>1
<1> HIDE DEF s
<1>2. p.main = Listener("fd") \o s
  BY ProgramParts DEF do_accept_accept_accept, s
<1>3. /\ p.byRef = {} /\ DOMAIN p.threads = {}
  BY ProgramParts DEF do_accept_accept_accept
<1>4. /\ Len(p.main) = 5 /\ DOMAIN p.main = 1 .. 5 /\ p.main[1] = Must("socket", "fd")
      /\ p.main[2] = Must("bind", "fd") /\ p.main[3] = Must("listen", "fd")
      /\ p.main[4] = Do("accept", "fd") /\ p.main[5] = GoTo(4)
  <2>1. AfterListener(p.main, s)
    BY <1>1, <1>2, ListenerThen
  <2> HIDE DEF p
  <2> QED
    BY <1>1, <2>1 DEF AfterListener
<1>5. /\ p.byRef = {} /\ DOMAIN p.threads = {} /\ Len(p.main) = 5 /\ DOMAIN p.main = 1 .. 5
      /\ p.main[1].op = "socket" /\ p.main[1].on = "fd" /\ p.main[2].op = "bind"
      /\ p.main[2].on = "fd" /\ p.main[3].op = "listen" /\ p.main[3].on = "fd"
      /\ p.main[4].op = "accept" /\ p.main[4].on = "fd" /\ p.main[5].op = "goto"
      /\ p.main[5].num = 4
  BY <1>3, <1>4, CallParts, ThreadScripts
<1> HIDE DEF p
<1>6. Typed(p)
  BY <1>5, ManyAssumption DEF Typed, IsScript, MainCall, ThreadCall
<1>7. Forks(p)
  BY <1>5, ManyAssumption DEF Forks, Creates, Joins
<1>8. Harmless(p)
  <2>1. NeverCloses(p)
    BY <1>5 DEF NeverCloses
  <2> QED
    BY <2>1 DEF Harmless
<1>9. NullsKept(p)
  BY <1>5, ManyAssumption DEF NullsKept
<1> QED
  BY <1>6, <1>7, <1>8, <1>9 DEF p, Good

\* do_accept_and_close opens its descriptors before it creates a thread, and closes
\* one before anyone waits for ever.
LEMMA Good_do_accept_and_close == Good(do_accept_and_close) /\ ClosesOne(do_accept_and_close)
<1> DEFINE p == do_accept_and_close
             s == <<Create(1, "fd"), Do("accept", "fd"), Join(1)>>
<1>1. /\ s \in Seq(Calls) /\ Len(s) = 3 /\ s[1] = Create(1, "fd") /\ s[2] = Do("accept", "fd")
      /\ s[3] = Join(1)
  <2>1. /\ Create(1, "fd") \in Calls /\ Do("accept", "fd") \in Calls /\ Join(1) \in Calls
    BY CallsAreCalls
  <2> QED
    BY <2>1
<1> HIDE DEF s
<1>2. p.main = Listener("fd") \o s
  BY ProgramParts DEF do_accept_and_close, s
<1>3. /\ p.byRef = {1} /\ DOMAIN p.threads = {1} /\ p.threads[1] = thread_delay_close
  BY ProgramParts DEF do_accept_and_close
<1>4. /\ Len(p.main) = 6 /\ DOMAIN p.main = 1 .. 6 /\ p.main[1] = Must("socket", "fd")
      /\ p.main[2] = Must("bind", "fd") /\ p.main[3] = Must("listen", "fd")
      /\ p.main[4] = Create(1, "fd") /\ p.main[5] = Do("accept", "fd") /\ p.main[6] = Join(1)
  <2>1. AfterListener(p.main, s)
    BY <1>1, <1>2, ListenerThen
  <2> HIDE DEF p
  <2> QED
    BY <1>1, <2>1 DEF AfterListener
<1>5. /\ p.byRef = {1} /\ DOMAIN p.threads = {1} /\ Len(p.threads[1]) = 1
      /\ DOMAIN p.threads[1] = {1} /\ p.threads[1][1].op = "close" /\ p.threads[1][1].on = "arg"
      /\ Len(p.main) = 6 /\ DOMAIN p.main = 1 .. 6 /\ p.main[1].op = "socket"
      /\ p.main[1].on = "fd" /\ p.main[2].op = "bind" /\ p.main[2].on = "fd"
      /\ p.main[3].op = "listen" /\ p.main[3].on = "fd" /\ p.main[4].op = "create"
      /\ p.main[4].num = 1 /\ p.main[4].on = "fd" /\ p.main[5].op = "accept"
      /\ p.main[5].on = "fd" /\ p.main[6].op = "join" /\ p.main[6].num = 1
  BY <1>3, <1>4, CallParts, ThreadScripts
<1> HIDE DEF p
<1>6. Typed(p)
  BY <1>5, ManyAssumption DEF Typed, IsScript, MainCall, ThreadCall
<1>7. Forks(p)
  BY <1>5, ManyAssumption DEF Forks, Creates, Joins
<1>8. Harmless(p)
  <2>1. Sequential(p)
    BY <1>5, ManyAssumption DEF Sequential, Creates, Joins
  <2>2. SocketsOnly(p)
    BY <1>5, ManyAssumption DEF SocketsOnly
  <2>3. OneNumber(p)
    BY <1>5, ManyAssumption DEF OneNumber, SocketsOnly
  <2> QED
    BY <2>1, <2>2, <2>3 DEF Harmless
<1>9. NullsKept(p)
  BY <1>5, ManyAssumption DEF NullsKept
<1>10. ClosesOne(p)
  <2>1. \A u \in DOMAIN p.threads : \A n \in DOMAIN p.threads[u] :
          p.threads[u][n].op \notin Opening /\ p.threads[u][n].on = "arg"
    BY <1>5
  <2>2. ASSUME NEW i \in DOMAIN p.main
        PROVE  /\ p.main[i].op \in Opening => i = 1
               /\ p.main[i].op = "create" => p.main[i].on = "fd"
               /\ p.main[i].op # "goto"
               /\ p.main[i].op \in Blocking \cup {"close"} => p.main[i].on = "fd"
    BY <1>5, ManyAssumption
  <2>3. ASSUME NEW i \in DOMAIN p.main, p.main[i].op \in Blocking \cup {"join"}
        PROVE  4 \in 1 .. i - 1
    BY <1>5, <2>3, ManyAssumption
  <2>4. /\ Creates(p, 4, 1) /\ 1 \in DOMAIN p.threads
        /\ Len(p.threads[1]) >= 1 /\ p.threads[1][1].op = "close"
        /\ \A n \in DOMAIN p.threads[1] : p.threads[1][n].op \notin Blocking
    BY <1>5 DEF Creates
  <2> QED
    BY <2>1, <2>2, <2>3, <2>4 DEF ClosesOne
<1>11. Good(p)
  BY <1>6, <1>7, <1>8, <1>9 DEF Good
<1> QED
  BY <1>10, <1>11 DEF p

\* do_accept_shutdown opens its descriptors before it creates a thread.
LEMMA Good_do_accept_shutdown == Good(do_accept_shutdown)
<1> DEFINE p == do_accept_shutdown
             s == <<Create(1, "fd"), Do("shutdown", "fd"), Join(1), Do("close", "fd")>>
<1>1. /\ s \in Seq(Calls) /\ Len(s) = 4 /\ s[1] = Create(1, "fd") /\ s[2] = Do("shutdown", "fd")
      /\ s[3] = Join(1) /\ s[4] = Do("close", "fd")
  <2>1. /\ Create(1, "fd") \in Calls /\ Do("shutdown", "fd") \in Calls /\ Join(1) \in Calls
        /\ Do("close", "fd") \in Calls
    BY CallsAreCalls
  <2> QED
    BY <2>1
<1> HIDE DEF s
<1>2. p.main = Listener("fd") \o s
  BY ProgramParts DEF do_accept_shutdown, s
<1>3. /\ p.byRef = {1} /\ DOMAIN p.threads = {1} /\ p.threads[1] = thread_accept
  BY ProgramParts DEF do_accept_shutdown
<1>4. /\ Len(p.main) = 7 /\ DOMAIN p.main = 1 .. 7 /\ p.main[1] = Must("socket", "fd")
      /\ p.main[2] = Must("bind", "fd") /\ p.main[3] = Must("listen", "fd")
      /\ p.main[4] = Create(1, "fd") /\ p.main[5] = Do("shutdown", "fd") /\ p.main[6] = Join(1)
      /\ p.main[7] = Do("close", "fd")
  <2>1. AfterListener(p.main, s)
    BY <1>1, <1>2, ListenerThen
  <2> HIDE DEF p
  <2> QED
    BY <1>1, <2>1 DEF AfterListener
<1>5. /\ p.byRef = {1} /\ DOMAIN p.threads = {1} /\ Len(p.threads[1]) = 1
      /\ DOMAIN p.threads[1] = {1} /\ p.threads[1][1].op = "accept"
      /\ p.threads[1][1].on = "arg" /\ Len(p.main) = 7 /\ DOMAIN p.main = 1 .. 7
      /\ p.main[1].op = "socket" /\ p.main[1].on = "fd" /\ p.main[2].op = "bind"
      /\ p.main[2].on = "fd" /\ p.main[3].op = "listen" /\ p.main[3].on = "fd"
      /\ p.main[4].op = "create" /\ p.main[4].num = 1 /\ p.main[4].on = "fd"
      /\ p.main[5].op = "shutdown" /\ p.main[5].on = "fd" /\ p.main[6].op = "join"
      /\ p.main[6].num = 1 /\ p.main[7].op = "close" /\ p.main[7].on = "fd"
  BY <1>3, <1>4, CallParts, ThreadScripts
<1> HIDE DEF p
<1>6. Typed(p)
  BY <1>5, ManyAssumption DEF Typed, IsScript, MainCall, ThreadCall
<1>7. Forks(p)
  <2>1. \A i \in DOMAIN p.main, u \in DOMAIN p.threads :
           Creates(p, i, u) => (i = 4 /\ u = 1)
    BY <1>5 DEF Creates
  <2>2. \A i \in DOMAIN p.main : p.main[i].op # "goto"
    BY <1>5
  <2>3. \A u \in p.byRef : \E i \in DOMAIN p.main : Joins(p, i, u)
    <3>1. Joins(p, 6, 1) /\ 6 \in DOMAIN p.main
      BY <1>5 DEF Joins
    <3> QED
      BY <1>5, <3>1
  <2> QED
    BY <2>1, <2>2, <2>3 DEF Forks
<1>8. Harmless(p)
  <2>1. Sequential(p)
    BY <1>5, ManyAssumption DEF Sequential, Creates, Joins
  <2>2. SocketsOnly(p)
    BY <1>5, ManyAssumption DEF SocketsOnly
  <2>3. OneNumber(p)
    BY <1>5, ManyAssumption DEF OneNumber, SocketsOnly
  <2> QED
    BY <2>1, <2>2, <2>3 DEF Harmless
<1>9. NullsKept(p)
  BY <1>5, ManyAssumption DEF NullsKept
<1> QED
  BY <1>6, <1>7, <1>8, <1>9 DEF p, Good

\* do_accept_close_write opens its descriptors before it creates a thread, and closes
\* one before anyone waits for ever.
LEMMA Good_do_accept_close_write ==
    Good(do_accept_close_write) /\ ClosesOne(do_accept_close_write)
<1> DEFINE p == do_accept_close_write
             s == <<Create(1, "fd"), Do("accept", "fd"), Join(1)>>
<1>1. /\ s \in Seq(Calls) /\ Len(s) = 3 /\ s[1] = Create(1, "fd") /\ s[2] = Do("accept", "fd")
      /\ s[3] = Join(1)
  <2>1. /\ Create(1, "fd") \in Calls /\ Do("accept", "fd") \in Calls /\ Join(1) \in Calls
    BY CallsAreCalls
  <2> QED
    BY <2>1
<1> HIDE DEF s
<1>2. p.main = Listener("fd") \o s
  BY ProgramParts DEF do_accept_close_write, s
<1>3. /\ p.byRef = {1} /\ DOMAIN p.threads = {1} /\ p.threads[1] = thread_delay_close_write
  BY ProgramParts DEF do_accept_close_write
<1>4. /\ Len(p.main) = 6 /\ DOMAIN p.main = 1 .. 6 /\ p.main[1] = Must("socket", "fd")
      /\ p.main[2] = Must("bind", "fd") /\ p.main[3] = Must("listen", "fd")
      /\ p.main[4] = Create(1, "fd") /\ p.main[5] = Do("accept", "fd") /\ p.main[6] = Join(1)
  <2>1. AfterListener(p.main, s)
    BY <1>1, <1>2, ListenerThen
  <2> HIDE DEF p
  <2> QED
    BY <1>1, <2>1 DEF AfterListener
<1>5. /\ p.byRef = {1} /\ DOMAIN p.threads = {1} /\ Len(p.threads[1]) = 2
      /\ DOMAIN p.threads[1] = {1, 2} /\ p.threads[1][1].op = "close"
      /\ p.threads[1][1].on = "arg" /\ p.threads[1][2].op = "write"
      /\ p.threads[1][2].on = "arg" /\ Len(p.main) = 6 /\ DOMAIN p.main = 1 .. 6
      /\ p.main[1].op = "socket" /\ p.main[1].on = "fd" /\ p.main[2].op = "bind"
      /\ p.main[2].on = "fd" /\ p.main[3].op = "listen" /\ p.main[3].on = "fd"
      /\ p.main[4].op = "create" /\ p.main[4].num = 1 /\ p.main[4].on = "fd"
      /\ p.main[5].op = "accept" /\ p.main[5].on = "fd" /\ p.main[6].op = "join"
      /\ p.main[6].num = 1
  BY <1>3, <1>4, CallParts, ThreadScripts
<1> HIDE DEF p
<1>6. Typed(p)
  BY <1>5, ManyAssumption DEF Typed, IsScript, MainCall, ThreadCall
<1>7. Forks(p)
  BY <1>5, ManyAssumption DEF Forks, Creates, Joins
<1>8. Harmless(p)
  <2>1. Sequential(p)
    BY <1>5, ManyAssumption DEF Sequential, Creates, Joins
  <2>2. SocketsOnly(p)
    BY <1>5, ManyAssumption DEF SocketsOnly
  <2>3. OneNumber(p)
    BY <1>5, ManyAssumption DEF OneNumber, SocketsOnly
  <2> QED
    BY <2>1, <2>2, <2>3 DEF Harmless
<1>9. NullsKept(p)
  BY <1>5, ManyAssumption DEF NullsKept
<1>10. ClosesOne(p)
  <2>1. \A u \in DOMAIN p.threads : \A n \in DOMAIN p.threads[u] :
          p.threads[u][n].op \notin Opening /\ p.threads[u][n].on = "arg"
    BY <1>5
  <2>2. ASSUME NEW i \in DOMAIN p.main
        PROVE  /\ p.main[i].op \in Opening => i = 1
               /\ p.main[i].op = "create" => p.main[i].on = "fd"
               /\ p.main[i].op # "goto"
               /\ p.main[i].op \in Blocking \cup {"close"} => p.main[i].on = "fd"
    BY <1>5, ManyAssumption
  <2>3. ASSUME NEW i \in DOMAIN p.main, p.main[i].op \in Blocking \cup {"join"}
        PROVE  4 \in 1 .. i - 1
    BY <1>5, <2>3, ManyAssumption
  <2>4. /\ Creates(p, 4, 1) /\ 1 \in DOMAIN p.threads
        /\ Len(p.threads[1]) >= 1 /\ p.threads[1][1].op = "close"
        /\ \A n \in DOMAIN p.threads[1] : p.threads[1][n].op \notin Blocking
    BY <1>5 DEF Creates
  <2> QED
    BY <2>1, <2>2, <2>3, <2>4 DEF ClosesOne
<1>11. Good(p)
  BY <1>6, <1>7, <1>8, <1>9 DEF Good
<1> QED
  BY <1>10, <1>11 DEF p

\* do_connected_read1_shutdown1 closes no descriptor.
LEMMA Good_do_connected_read1_shutdown1 == Good(do_connected_read1_shutdown1)
<1> DEFINE p == do_connected_read1_shutdown1
             s == <<Create(1, "fd"), Do("socket", "fd2"), Must("connect", "fd2"),
                    Create(2, "&fd2"), Do("read_until", "fd2"), Join(1), Join(2)>>
<1>1. /\ s \in Seq(Calls) /\ Len(s) = 7 /\ s[1] = Create(1, "fd") /\ s[2] = Do("socket", "fd2")
      /\ s[3] = Must("connect", "fd2") /\ s[4] = Create(2, "&fd2")
      /\ s[5] = Do("read_until", "fd2") /\ s[6] = Join(1) /\ s[7] = Join(2)
  <2>1. /\ Create(1, "fd") \in Calls /\ Do("socket", "fd2") \in Calls
        /\ Must("connect", "fd2") \in Calls /\ Create(2, "&fd2") \in Calls
        /\ Do("read_until", "fd2") \in Calls /\ Join(1) \in Calls /\ Join(2) \in Calls
    BY CallsAreCalls
  <2> QED
    BY <2>1
<1> HIDE DEF s
<1>2. p.main = Listener("fd") \o s
  BY ProgramParts DEF do_connected_read1_shutdown1, s
<1>3. /\ p.byRef = {1} /\ DOMAIN p.threads = {1, 2} /\ p.threads[1] = thread_accept_write
      /\ p.threads[2] = thread_shutdown
  BY ProgramParts DEF do_connected_read1_shutdown1
<1>4. /\ Len(p.main) = 10 /\ DOMAIN p.main = 1 .. 10 /\ p.main[1] = Must("socket", "fd")
      /\ p.main[2] = Must("bind", "fd") /\ p.main[3] = Must("listen", "fd")
      /\ p.main[4] = Create(1, "fd") /\ p.main[5] = Do("socket", "fd2")
      /\ p.main[6] = Must("connect", "fd2") /\ p.main[7] = Create(2, "&fd2")
      /\ p.main[8] = Do("read_until", "fd2") /\ p.main[9] = Join(1) /\ p.main[10] = Join(2)
  <2>1. AfterListener(p.main, s)
    BY <1>1, <1>2, ListenerThen
  <2> HIDE DEF p
  <2> QED
    BY <1>1, <2>1 DEF AfterListener
<1>5. /\ p.byRef = {1} /\ DOMAIN p.threads = {1, 2} /\ Len(p.threads[1]) = 2
      /\ DOMAIN p.threads[1] = {1, 2} /\ p.threads[1][1].op = "accept"
      /\ p.threads[1][1].on = "arg" /\ p.threads[1][2].op = "write"
      /\ p.threads[1][2].on = "arg" /\ Len(p.threads[2]) = 1 /\ DOMAIN p.threads[2] = {1}
      /\ p.threads[2][1].op = "shutdown" /\ p.threads[2][1].on = "arg" /\ Len(p.main) = 10
      /\ DOMAIN p.main = 1 .. 10 /\ p.main[1].op = "socket" /\ p.main[1].on = "fd"
      /\ p.main[2].op = "bind" /\ p.main[2].on = "fd" /\ p.main[3].op = "listen"
      /\ p.main[3].on = "fd" /\ p.main[4].op = "create" /\ p.main[4].num = 1
      /\ p.main[4].on = "fd" /\ p.main[5].op = "socket" /\ p.main[5].on = "fd2"
      /\ p.main[6].op = "connect" /\ p.main[6].on = "fd2" /\ p.main[7].op = "create"
      /\ p.main[7].num = 2 /\ p.main[7].on = "&fd2" /\ p.main[8].op = "read_until"
      /\ p.main[8].on = "fd2" /\ p.main[9].op = "join" /\ p.main[9].num = 1
      /\ p.main[10].op = "join" /\ p.main[10].num = 2
  BY <1>3, <1>4, CallParts, ThreadScripts
<1> HIDE DEF p
<1>6. Typed(p)
  <2>1. \A i \in DOMAIN p.main : MainCall(p, p.main[i])
    BY <1>5 DEF MainCall, ThreadCall
  <2>2. \A t \in DOMAIN p.threads :
          IsScript(p.threads[t]) /\ \A i \in DOMAIN p.threads[t] : ThreadCall(p.threads[t][i])
    BY <1>5 DEF IsScript, ThreadCall
  <2>3. IsScript(p.main) /\ DOMAIN p.threads \subseteq 1 .. Many /\ p.byRef \subseteq DOMAIN p.threads
    BY <1>5, ManyAssumption DEF IsScript
  <2> QED
    BY <2>1, <2>2, <2>3 DEF Typed
<1>7. Forks(p)
  <2>1. \A i \in DOMAIN p.main, u \in DOMAIN p.threads :
           Creates(p, i, u) => (i = 4 /\ u = 1) \/ (i = 7 /\ u = 2)
    BY <1>5 DEF Creates
  <2>2. \A i \in DOMAIN p.main : p.main[i].op # "goto"
    BY <1>5
  <2>3. \A u \in p.byRef : \E i \in DOMAIN p.main : Joins(p, i, u)
    <3>1. Joins(p, 9, 1) /\ 9 \in DOMAIN p.main
      BY <1>5 DEF Joins
    <3> QED
      BY <1>5, <3>1
  <2> QED
    BY <2>1, <2>2, <2>3 DEF Forks
<1>8. Harmless(p)
  <2>1. NeverCloses(p)
    BY <1>5 DEF NeverCloses
  <2> QED
    BY <2>1 DEF Harmless
<1>9. NullsKept(p)
  BY <1>5, ManyAssumption DEF NullsKept
<1> QED
  BY <1>6, <1>7, <1>8, <1>9 DEF p, Good

\* do_accept_connect_connect closes no descriptor.
LEMMA Good_do_accept_connect_connect == Good(do_accept_connect_connect)
<1> DEFINE p == do_accept_connect_connect
             s == <<Create(1, "fd"), Create(2, "fd"), Do("accept", "fd"), Join(1), Join(2)>>
<1>1. /\ s \in Seq(Calls) /\ Len(s) = 5 /\ s[1] = Create(1, "fd") /\ s[2] = Create(2, "fd")
      /\ s[3] = Do("accept", "fd") /\ s[4] = Join(1) /\ s[5] = Join(2)
  <2>1. /\ Create(1, "fd") \in Calls /\ Create(2, "fd") \in Calls
        /\ Do("accept", "fd") \in Calls /\ Join(1) \in Calls /\ Join(2) \in Calls
    BY CallsAreCalls
  <2> QED
    BY <2>1
<1> HIDE DEF s
<1>2. p.main = Listener("fd") \o s
  BY ProgramParts DEF do_accept_connect_connect, s
<1>3. /\ p.byRef = {1, 2} /\ DOMAIN p.threads = {1, 2} /\ p.threads[1] = thread_delay_connect
      /\ p.threads[2] = thread_delay_connect
  BY ProgramParts DEF do_accept_connect_connect
<1>4. /\ Len(p.main) = 8 /\ DOMAIN p.main = 1 .. 8 /\ p.main[1] = Must("socket", "fd")
      /\ p.main[2] = Must("bind", "fd") /\ p.main[3] = Must("listen", "fd")
      /\ p.main[4] = Create(1, "fd") /\ p.main[5] = Create(2, "fd")
      /\ p.main[6] = Do("accept", "fd") /\ p.main[7] = Join(1) /\ p.main[8] = Join(2)
  <2>1. AfterListener(p.main, s)
    BY <1>1, <1>2, ListenerThen
  <2> HIDE DEF p
  <2> QED
    BY <1>1, <2>1 DEF AfterListener
<1>5. /\ p.byRef = {1, 2} /\ DOMAIN p.threads = {1, 2} /\ Len(p.threads[1]) = 2
      /\ DOMAIN p.threads[1] = {1, 2} /\ p.threads[1][1].op = "socket"
      /\ p.threads[1][1].on = "arg" /\ p.threads[1][2].op = "connect"
      /\ p.threads[1][2].on = "arg" /\ Len(p.threads[2]) = 2 /\ DOMAIN p.threads[2] = {1, 2}
      /\ p.threads[2][1].op = "socket" /\ p.threads[2][1].on = "arg"
      /\ p.threads[2][2].op = "connect" /\ p.threads[2][2].on = "arg" /\ Len(p.main) = 8
      /\ DOMAIN p.main = 1 .. 8 /\ p.main[1].op = "socket" /\ p.main[1].on = "fd"
      /\ p.main[2].op = "bind" /\ p.main[2].on = "fd" /\ p.main[3].op = "listen"
      /\ p.main[3].on = "fd" /\ p.main[4].op = "create" /\ p.main[4].num = 1
      /\ p.main[4].on = "fd" /\ p.main[5].op = "create" /\ p.main[5].num = 2
      /\ p.main[5].on = "fd" /\ p.main[6].op = "accept" /\ p.main[6].on = "fd"
      /\ p.main[7].op = "join" /\ p.main[7].num = 1 /\ p.main[8].op = "join"
      /\ p.main[8].num = 2
  BY <1>3, <1>4, CallParts, ThreadScripts
<1> HIDE DEF p
<1>6. Typed(p)
  BY <1>5, ManyAssumption DEF Typed, IsScript, MainCall, ThreadCall
<1>7. Forks(p)
  <2>1. \A i \in DOMAIN p.main, u \in DOMAIN p.threads :
           Creates(p, i, u) => (i = 4 /\ u = 1) \/ (i = 5 /\ u = 2)
    BY <1>5 DEF Creates
  <2>2. \A i \in DOMAIN p.main : p.main[i].op # "goto"
    BY <1>5
  <2>3. \A u \in p.byRef : \E i \in DOMAIN p.main : Joins(p, i, u)
    <3>1. Joins(p, 7, 1) /\ Joins(p, 8, 2) /\ 7 \in DOMAIN p.main /\ 8 \in DOMAIN p.main
      BY <1>5 DEF Joins
    <3> QED
      BY <1>5, <3>1
  <2> QED
    BY <2>1, <2>2, <2>3 DEF Forks
<1>8. Harmless(p)
  <2>1. NeverCloses(p)
    BY <1>5 DEF NeverCloses
  <2> QED
    BY <2>1 DEF Harmless
<1>9. NullsKept(p)
  BY <1>5, ManyAssumption DEF NullsKept
<1> QED
  BY <1>6, <1>7, <1>8, <1>9 DEF p, Good

\* do_connect_shutdown opens its descriptors before it creates a thread.
LEMMA Good_do_connect_shutdown == Good(do_connect_shutdown)
<1> DEFINE p == do_connect_shutdown
<1>1. p.main = <<Must("socket", "fd"), Create(1, "fd"), Do("shutdown", "fd"), Join(1),
                 Do("close", "fd")>>
  BY ProgramParts DEF do_connect_shutdown
<1>2. /\ p.byRef = {1} /\ DOMAIN p.threads = {1} /\ p.threads[1] = thread_connect
  BY ProgramParts DEF do_connect_shutdown
<1>3. /\ Len(p.main) = 5 /\ DOMAIN p.main = 1 .. 5 /\ p.main[1] = Must("socket", "fd")
      /\ p.main[2] = Create(1, "fd") /\ p.main[3] = Do("shutdown", "fd") /\ p.main[4] = Join(1)
      /\ p.main[5] = Do("close", "fd")
  BY <1>1
<1>4. /\ p.byRef = {1} /\ DOMAIN p.threads = {1} /\ Len(p.threads[1]) = 1
      /\ DOMAIN p.threads[1] = {1} /\ p.threads[1][1].op = "connect"
      /\ p.threads[1][1].on = "arg" /\ Len(p.main) = 5 /\ DOMAIN p.main = 1 .. 5
      /\ p.main[1].op = "socket" /\ p.main[1].on = "fd" /\ p.main[2].op = "create"
      /\ p.main[2].num = 1 /\ p.main[2].on = "fd" /\ p.main[3].op = "shutdown"
      /\ p.main[3].on = "fd" /\ p.main[4].op = "join" /\ p.main[4].num = 1
      /\ p.main[5].op = "close" /\ p.main[5].on = "fd"
  BY <1>2, <1>3, CallParts, ThreadScripts
<1> HIDE DEF p
<1>5. Typed(p)
  BY <1>4, ManyAssumption DEF Typed, IsScript, MainCall, ThreadCall
<1>6. Forks(p)
  BY <1>4, ManyAssumption DEF Forks, Creates, Joins
<1>7. Harmless(p)
  <2>1. Sequential(p)
    BY <1>4, ManyAssumption DEF Sequential, Creates, Joins
  <2>2. SocketsOnly(p)
    BY <1>4, ManyAssumption DEF SocketsOnly
  <2>3. NoAccept(p)
    BY <1>4, ManyAssumption DEF NoAccept, SocketsOnly
  <2> QED
    BY <2>1, <2>2, <2>3 DEF Harmless
<1>8. NullsKept(p)
  BY <1>4, ManyAssumption DEF NullsKept
<1> QED
  BY <1>5, <1>6, <1>7, <1>8 DEF p, Good

\* do_connectnb_shutdown has one thread.
LEMMA Good_do_connectnb_shutdown == Good(do_connectnb_shutdown)
<1> DEFINE p == do_connectnb_shutdown
<1>1. p.main = <<Must("socket", "fd"), Must("nonblock", "fd"), Do("connect", "fd"),
                 Do("shutdown", "fd"), Do("close", "fd")>>
  BY ProgramParts DEF do_connectnb_shutdown
<1>2. /\ p.byRef = {} /\ DOMAIN p.threads = {}
  BY ProgramParts DEF do_connectnb_shutdown
<1>3. /\ Len(p.main) = 5 /\ DOMAIN p.main = 1 .. 5 /\ p.main[1] = Must("socket", "fd")
      /\ p.main[2] = Must("nonblock", "fd") /\ p.main[3] = Do("connect", "fd")
      /\ p.main[4] = Do("shutdown", "fd") /\ p.main[5] = Do("close", "fd")
  BY <1>1
<1>4. /\ p.byRef = {} /\ DOMAIN p.threads = {} /\ Len(p.main) = 5 /\ DOMAIN p.main = 1 .. 5
      /\ p.main[1].op = "socket" /\ p.main[1].on = "fd" /\ p.main[2].op = "nonblock"
      /\ p.main[2].on = "fd" /\ p.main[3].op = "connect" /\ p.main[3].on = "fd"
      /\ p.main[4].op = "shutdown" /\ p.main[4].on = "fd" /\ p.main[5].op = "close"
      /\ p.main[5].on = "fd"
  BY <1>2, <1>3, CallParts, ThreadScripts
<1> HIDE DEF p
<1>5. Typed(p)
  BY <1>4, ManyAssumption DEF Typed, IsScript, MainCall, ThreadCall
<1>6. Forks(p)
  BY <1>4, ManyAssumption DEF Forks, Creates, Joins
<1>7. Harmless(p)
  <2>1. Sequential(p)
    BY <1>4, ManyAssumption DEF Sequential, Creates, Joins
  <2>2. SocketsOnly(p)
    BY <1>4, ManyAssumption DEF SocketsOnly
  <2>3. NoAccept(p)
    BY <1>4, ManyAssumption DEF NoAccept, SocketsOnly
  <2> QED
    BY <2>1, <2>2, <2>3 DEF Harmless
<1>8. NullsKept(p)
  BY <1>4, ManyAssumption DEF NullsKept
<1> QED
  BY <1>5, <1>6, <1>7, <1>8 DEF p, Good

\* do_connectnb_close has one thread.
LEMMA Good_do_connectnb_close == Good(do_connectnb_close)
<1> DEFINE p == do_connectnb_close
<1>1. p.main = <<Must("socket", "fd"), Must("nonblock", "fd"), Do("connect", "fd"),
                 Do("close", "fd")>>
  BY ProgramParts DEF do_connectnb_close
<1>2. /\ p.byRef = {} /\ DOMAIN p.threads = {}
  BY ProgramParts DEF do_connectnb_close
<1>3. /\ Len(p.main) = 4 /\ DOMAIN p.main = 1 .. 4 /\ p.main[1] = Must("socket", "fd")
      /\ p.main[2] = Must("nonblock", "fd") /\ p.main[3] = Do("connect", "fd")
      /\ p.main[4] = Do("close", "fd")
  BY <1>1
<1>4. /\ p.byRef = {} /\ DOMAIN p.threads = {} /\ Len(p.main) = 4 /\ DOMAIN p.main = 1 .. 4
      /\ p.main[1].op = "socket" /\ p.main[1].on = "fd" /\ p.main[2].op = "nonblock"
      /\ p.main[2].on = "fd" /\ p.main[3].op = "connect" /\ p.main[3].on = "fd"
      /\ p.main[4].op = "close" /\ p.main[4].on = "fd"
  BY <1>2, <1>3, CallParts, ThreadScripts
<1> HIDE DEF p
<1>5. Typed(p)
  BY <1>4, ManyAssumption DEF Typed, IsScript, MainCall, ThreadCall
<1>6. Forks(p)
  BY <1>4, ManyAssumption DEF Forks, Creates, Joins
<1>7. Harmless(p)
  <2>1. Sequential(p)
    BY <1>4, ManyAssumption DEF Sequential, Creates, Joins
  <2>2. SocketsOnly(p)
    BY <1>4, ManyAssumption DEF SocketsOnly
  <2>3. NoAccept(p)
    BY <1>4, ManyAssumption DEF NoAccept, SocketsOnly
  <2> QED
    BY <2>1, <2>2, <2>3 DEF Harmless
<1>8. NullsKept(p)
  BY <1>4, ManyAssumption DEF NullsKept
<1> QED
  BY <1>5, <1>6, <1>7, <1>8 DEF p, Good

\* do_poll_poll_close opens its descriptors before it creates a thread.
LEMMA Good_do_poll_poll_close == Good(do_poll_poll_close)
<1> DEFINE p == do_poll_poll_close
<1>1. p.main = <<Must("pipe", "fd"), Create(1, "NULL"), Create(2, "NULL"), Do("close", "fd2"),
                 Join(1), Join(2)>>
  BY ProgramParts DEF do_poll_poll_close
<1>2. /\ p.byRef = {} /\ DOMAIN p.threads = {1, 2} /\ p.threads[1] = thread_poll
      /\ p.threads[2] = thread_poll
  BY ProgramParts DEF do_poll_poll_close
<1>3. /\ Len(p.main) = 6 /\ DOMAIN p.main = 1 .. 6 /\ p.main[1] = Must("pipe", "fd")
      /\ p.main[2] = Create(1, "NULL") /\ p.main[3] = Create(2, "NULL")
      /\ p.main[4] = Do("close", "fd2") /\ p.main[5] = Join(1) /\ p.main[6] = Join(2)
  BY <1>1
<1>4. /\ p.byRef = {} /\ DOMAIN p.threads = {1, 2} /\ Len(p.threads[1]) = 1
      /\ DOMAIN p.threads[1] = {1} /\ p.threads[1][1].op = "poll" /\ p.threads[1][1].on = "arg"
      /\ Len(p.threads[2]) = 1 /\ DOMAIN p.threads[2] = {1} /\ p.threads[2][1].op = "poll"
      /\ p.threads[2][1].on = "arg" /\ Len(p.main) = 6 /\ DOMAIN p.main = 1 .. 6
      /\ p.main[1].op = "pipe" /\ p.main[1].on = "fd" /\ p.main[2].op = "create"
      /\ p.main[2].num = 1 /\ p.main[2].on = "NULL" /\ p.main[3].op = "create"
      /\ p.main[3].num = 2 /\ p.main[3].on = "NULL" /\ p.main[4].op = "close"
      /\ p.main[4].on = "fd2" /\ p.main[5].op = "join" /\ p.main[5].num = 1
      /\ p.main[6].op = "join" /\ p.main[6].num = 2
  BY <1>2, <1>3, CallParts, ThreadScripts
<1> HIDE DEF p
<1>5. Typed(p)
  BY <1>4, ManyAssumption DEF Typed, IsScript, MainCall, ThreadCall
<1>6. Forks(p)
  BY <1>4, ManyAssumption DEF Forks, Creates, Joins
<1>7. Harmless(p)
  <2>1. Sequential(p)
    BY <1>4, ManyAssumption DEF Sequential, Creates, Joins
  <2>2. PairsOnly(p)
    BY <1>4, ManyAssumption DEF PairsOnly
  <2>3. NoAccept(p)
    BY <1>4, ManyAssumption DEF NoAccept, SocketsOnly
  <2> QED
    BY <2>1, <2>2, <2>3 DEF Harmless
<1>8. NullsKept(p)
  BY <1>4, ManyAssumption DEF NullsKept
<1> QED
  BY <1>5, <1>6, <1>7, <1>8 DEF p, Good

\* do_socketpair_poll1_shutdown2 opens its descriptors before it creates a thread.
LEMMA Good_do_socketpair_poll1_shutdown2 == Good(do_socketpair_poll1_shutdown2)
<1> DEFINE p == do_socketpair_poll1_shutdown2
<1>1. p.main = <<Must("pair", "fd"), Create(1, "fd2"), Do("shutdown", "fd"), Do("close", "fd"),
                 Join(1)>>
  BY ProgramParts DEF do_socketpair_poll1_shutdown2
<1>2. /\ p.byRef = {} /\ DOMAIN p.threads = {1} /\ p.threads[1] = thread_poll
  BY ProgramParts DEF do_socketpair_poll1_shutdown2
<1>3. /\ Len(p.main) = 5 /\ DOMAIN p.main = 1 .. 5 /\ p.main[1] = Must("pair", "fd")
      /\ p.main[2] = Create(1, "fd2") /\ p.main[3] = Do("shutdown", "fd")
      /\ p.main[4] = Do("close", "fd") /\ p.main[5] = Join(1)
  BY <1>1
<1>4. /\ p.byRef = {} /\ DOMAIN p.threads = {1} /\ Len(p.threads[1]) = 1
      /\ DOMAIN p.threads[1] = {1} /\ p.threads[1][1].op = "poll" /\ p.threads[1][1].on = "arg"
      /\ Len(p.main) = 5 /\ DOMAIN p.main = 1 .. 5 /\ p.main[1].op = "pair"
      /\ p.main[1].on = "fd" /\ p.main[2].op = "create" /\ p.main[2].num = 1
      /\ p.main[2].on = "fd2" /\ p.main[3].op = "shutdown" /\ p.main[3].on = "fd"
      /\ p.main[4].op = "close" /\ p.main[4].on = "fd" /\ p.main[5].op = "join"
      /\ p.main[5].num = 1
  BY <1>2, <1>3, CallParts, ThreadScripts
<1> HIDE DEF p
<1>5. Typed(p)
  BY <1>4, ManyAssumption DEF Typed, IsScript, MainCall, ThreadCall
<1>6. Forks(p)
  BY <1>4, ManyAssumption DEF Forks, Creates, Joins
<1>7. Harmless(p)
  <2>1. Sequential(p)
    BY <1>4, ManyAssumption DEF Sequential, Creates, Joins
  <2>2. PairsOnly(p)
    BY <1>4, ManyAssumption DEF PairsOnly
  <2>3. NoAccept(p)
    BY <1>4, ManyAssumption DEF NoAccept, SocketsOnly
  <2> QED
    BY <2>1, <2>2, <2>3 DEF Harmless
<1>8. NullsKept(p)
  BY <1>4, ManyAssumption DEF NullsKept
<1> QED
  BY <1>5, <1>6, <1>7, <1>8 DEF p, Good

\* do_socketpair_poll1_shutdown1 opens its descriptors before it creates a thread.
LEMMA Good_do_socketpair_poll1_shutdown1 == Good(do_socketpair_poll1_shutdown1)
<1> DEFINE p == do_socketpair_poll1_shutdown1
<1>1. p.main = <<Must("pair", "fd"), Create(1, "fd"), Do("shutdown", "fd"), Do("close", "fd"),
                 Join(1)>>
  BY ProgramParts DEF do_socketpair_poll1_shutdown1
<1>2. /\ p.byRef = {} /\ DOMAIN p.threads = {1} /\ p.threads[1] = thread_poll
  BY ProgramParts DEF do_socketpair_poll1_shutdown1
<1>3. /\ Len(p.main) = 5 /\ DOMAIN p.main = 1 .. 5 /\ p.main[1] = Must("pair", "fd")
      /\ p.main[2] = Create(1, "fd") /\ p.main[3] = Do("shutdown", "fd")
      /\ p.main[4] = Do("close", "fd") /\ p.main[5] = Join(1)
  BY <1>1
<1>4. /\ p.byRef = {} /\ DOMAIN p.threads = {1} /\ Len(p.threads[1]) = 1
      /\ DOMAIN p.threads[1] = {1} /\ p.threads[1][1].op = "poll" /\ p.threads[1][1].on = "arg"
      /\ Len(p.main) = 5 /\ DOMAIN p.main = 1 .. 5 /\ p.main[1].op = "pair"
      /\ p.main[1].on = "fd" /\ p.main[2].op = "create" /\ p.main[2].num = 1
      /\ p.main[2].on = "fd" /\ p.main[3].op = "shutdown" /\ p.main[3].on = "fd"
      /\ p.main[4].op = "close" /\ p.main[4].on = "fd" /\ p.main[5].op = "join"
      /\ p.main[5].num = 1
  BY <1>2, <1>3, CallParts, ThreadScripts
<1> HIDE DEF p
<1>5. Typed(p)
  BY <1>4, ManyAssumption DEF Typed, IsScript, MainCall, ThreadCall
<1>6. Forks(p)
  BY <1>4, ManyAssumption DEF Forks, Creates, Joins
<1>7. Harmless(p)
  <2>1. Sequential(p)
    BY <1>4, ManyAssumption DEF Sequential, Creates, Joins
  <2>2. PairsOnly(p)
    BY <1>4, ManyAssumption DEF PairsOnly
  <2>3. NoAccept(p)
    BY <1>4, ManyAssumption DEF NoAccept, SocketsOnly
  <2> QED
    BY <2>1, <2>2, <2>3 DEF Harmless
<1>8. NullsKept(p)
  BY <1>4, ManyAssumption DEF NullsKept
<1> QED
  BY <1>5, <1>6, <1>7, <1>8 DEF p, Good

\* do_socketpair_poll1_close1 opens its descriptors before it creates a thread, and closes
\* one before anyone waits for ever.
LEMMA Good_do_socketpair_poll1_close1 ==
    Good(do_socketpair_poll1_close1) /\ ClosesOne(do_socketpair_poll1_close1)
<1> DEFINE p == do_socketpair_poll1_close1
<1>1. p.main = <<Must("pair", "fd"), Create(1, "fd"), Do("close", "fd"), Join(1)>>
  BY ProgramParts DEF do_socketpair_poll1_close1
<1>2. /\ p.byRef = {} /\ DOMAIN p.threads = {1} /\ p.threads[1] = thread_poll
  BY ProgramParts DEF do_socketpair_poll1_close1
<1>3. /\ Len(p.main) = 4 /\ DOMAIN p.main = 1 .. 4 /\ p.main[1] = Must("pair", "fd")
      /\ p.main[2] = Create(1, "fd") /\ p.main[3] = Do("close", "fd") /\ p.main[4] = Join(1)
  BY <1>1
<1>4. /\ p.byRef = {} /\ DOMAIN p.threads = {1} /\ Len(p.threads[1]) = 1
      /\ DOMAIN p.threads[1] = {1} /\ p.threads[1][1].op = "poll" /\ p.threads[1][1].on = "arg"
      /\ Len(p.main) = 4 /\ DOMAIN p.main = 1 .. 4 /\ p.main[1].op = "pair"
      /\ p.main[1].on = "fd" /\ p.main[2].op = "create" /\ p.main[2].num = 1
      /\ p.main[2].on = "fd" /\ p.main[3].op = "close" /\ p.main[3].on = "fd"
      /\ p.main[4].op = "join" /\ p.main[4].num = 1
  BY <1>2, <1>3, CallParts, ThreadScripts
<1> HIDE DEF p
<1>5. Typed(p)
  BY <1>4, ManyAssumption DEF Typed, IsScript, MainCall, ThreadCall
<1>6. Forks(p)
  BY <1>4, ManyAssumption DEF Forks, Creates, Joins
<1>7. Harmless(p)
  <2>1. Sequential(p)
    BY <1>4, ManyAssumption DEF Sequential, Creates, Joins
  <2>2. PairsOnly(p)
    BY <1>4, ManyAssumption DEF PairsOnly
  <2>3. NoAccept(p)
    BY <1>4, ManyAssumption DEF NoAccept, SocketsOnly
  <2> QED
    BY <2>1, <2>2, <2>3 DEF Harmless
<1>8. NullsKept(p)
  BY <1>4, ManyAssumption DEF NullsKept
<1>9. ClosesOne(p)
  <2>1. \A u \in DOMAIN p.threads : \A n \in DOMAIN p.threads[u] :
          p.threads[u][n].op \notin Opening /\ p.threads[u][n].on = "arg"
    BY <1>4
  <2>2. ASSUME NEW i \in DOMAIN p.main
        PROVE  /\ p.main[i].op \in Opening => i = 1
               /\ p.main[i].op = "create" => p.main[i].on = "fd"
               /\ p.main[i].op # "goto"
               /\ p.main[i].op \in Blocking \cup {"close"} => p.main[i].on = "fd"
    BY <1>4, ManyAssumption
  <2>3. ASSUME NEW i \in DOMAIN p.main, p.main[i].op \in Blocking \cup {"join"}
        PROVE  3 \in 1 .. i - 1
    BY <1>4, <2>3, ManyAssumption
  <2>4. p.main[3].op = "close"
    BY <1>4
  <2> QED
    BY <2>1, <2>2, <2>3, <2>4 DEF ClosesOne
<1>10. Good(p)
  BY <1>5, <1>6, <1>7, <1>8 DEF Good
<1> QED
  BY <1>9, <1>10 DEF p

\* do_socketpair_read1_shutdown1 opens its descriptors before it creates a thread.
LEMMA Good_do_socketpair_read1_shutdown1 == Good(do_socketpair_read1_shutdown1)
<1> DEFINE p == do_socketpair_read1_shutdown1
<1>1. p.main = <<Must("pair", "fd"), Create(1, "fd"), Do("shutdown", "fd"), Do("close", "fd"),
                 Join(1)>>
  BY ProgramParts DEF do_socketpair_read1_shutdown1
<1>2. /\ p.byRef = {} /\ DOMAIN p.threads = {1} /\ p.threads[1] = thread_read
  BY ProgramParts DEF do_socketpair_read1_shutdown1
<1>3. /\ Len(p.main) = 5 /\ DOMAIN p.main = 1 .. 5 /\ p.main[1] = Must("pair", "fd")
      /\ p.main[2] = Create(1, "fd") /\ p.main[3] = Do("shutdown", "fd")
      /\ p.main[4] = Do("close", "fd") /\ p.main[5] = Join(1)
  BY <1>1
<1>4. /\ p.byRef = {} /\ DOMAIN p.threads = {1} /\ Len(p.threads[1]) = 1
      /\ DOMAIN p.threads[1] = {1} /\ p.threads[1][1].op = "read" /\ p.threads[1][1].on = "arg"
      /\ Len(p.main) = 5 /\ DOMAIN p.main = 1 .. 5 /\ p.main[1].op = "pair"
      /\ p.main[1].on = "fd" /\ p.main[2].op = "create" /\ p.main[2].num = 1
      /\ p.main[2].on = "fd" /\ p.main[3].op = "shutdown" /\ p.main[3].on = "fd"
      /\ p.main[4].op = "close" /\ p.main[4].on = "fd" /\ p.main[5].op = "join"
      /\ p.main[5].num = 1
  BY <1>2, <1>3, CallParts, ThreadScripts
<1> HIDE DEF p
<1>5. Typed(p)
  BY <1>4, ManyAssumption DEF Typed, IsScript, MainCall, ThreadCall
<1>6. Forks(p)
  BY <1>4, ManyAssumption DEF Forks, Creates, Joins
<1>7. Harmless(p)
  <2>1. Sequential(p)
    BY <1>4, ManyAssumption DEF Sequential, Creates, Joins
  <2>2. PairsOnly(p)
    BY <1>4, ManyAssumption DEF PairsOnly
  <2>3. NoAccept(p)
    BY <1>4, ManyAssumption DEF NoAccept, SocketsOnly
  <2> QED
    BY <2>1, <2>2, <2>3 DEF Harmless
<1>8. NullsKept(p)
  BY <1>4, ManyAssumption DEF NullsKept
<1> QED
  BY <1>5, <1>6, <1>7, <1>8 DEF p, Good

\* do_pipe_pipe_pipe has one thread.
LEMMA Good_do_pipe_pipe_pipe == Good(do_pipe_pipe_pipe)
<1> DEFINE p == do_pipe_pipe_pipe
<1>1. p.main = <<Must("pipe", "fd"), Do("close", "fd"), Do("close", "fd2"), GoTo(1)>>
  BY ProgramParts DEF do_pipe_pipe_pipe
<1>2. /\ p.byRef = {} /\ DOMAIN p.threads = {}
  BY ProgramParts DEF do_pipe_pipe_pipe
<1>3. /\ Len(p.main) = 4 /\ DOMAIN p.main = 1 .. 4 /\ p.main[1] = Must("pipe", "fd")
      /\ p.main[2] = Do("close", "fd") /\ p.main[3] = Do("close", "fd2") /\ p.main[4] = GoTo(1)
  BY <1>1
<1>4. /\ p.byRef = {} /\ DOMAIN p.threads = {} /\ Len(p.main) = 4 /\ DOMAIN p.main = 1 .. 4
      /\ p.main[1].op = "pipe" /\ p.main[1].on = "fd" /\ p.main[2].op = "close"
      /\ p.main[2].on = "fd" /\ p.main[3].op = "close" /\ p.main[3].on = "fd2"
      /\ p.main[4].op = "goto" /\ p.main[4].num = 1
  BY <1>2, <1>3, CallParts, ThreadScripts
<1> HIDE DEF p
<1>5. Typed(p)
  BY <1>4, ManyAssumption DEF Typed, IsScript, MainCall, ThreadCall
<1>6. Forks(p)
  BY <1>4, ManyAssumption DEF Forks, Creates, Joins
<1>7. Harmless(p)
  <2>1. Sequential(p)
    BY <1>4, ManyAssumption DEF Sequential, Creates, Joins
  <2>2. PairsOnly(p)
    BY <1>4, ManyAssumption DEF PairsOnly
  <2>3. NoAccept(p)
    BY <1>4, ManyAssumption DEF NoAccept, SocketsOnly
  <2> QED
    BY <2>1, <2>2, <2>3 DEF Harmless
<1>8. NullsKept(p)
  BY <1>4, ManyAssumption DEF NullsKept
<1> QED
  BY <1>5, <1>6, <1>7, <1>8 DEF p, Good

\* do_poll_poll_shutdown closes no descriptor.
LEMMA Good_do_poll_poll_shutdown == Good(do_poll_poll_shutdown)
<1> DEFINE p == do_poll_poll_shutdown
<1>1. p.main = <<>>
  BY ProgramParts DEF do_poll_poll_shutdown
<1>2. /\ p.byRef = {} /\ DOMAIN p.threads = {}
  BY ProgramParts DEF do_poll_poll_shutdown
<1>3. /\ Len(p.main) = 0 /\ DOMAIN p.main = 1 .. 0
  BY <1>1
<1>4. /\ p.byRef = {} /\ DOMAIN p.threads = {} /\ Len(p.main) = 0 /\ DOMAIN p.main = 1 .. 0
  BY <1>2, <1>3, CallParts, ThreadScripts
<1> HIDE DEF p
<1>5. Typed(p)
  BY <1>4, ManyAssumption DEF Typed, IsScript, MainCall, ThreadCall
<1>6. Forks(p)
  BY <1>4, ManyAssumption DEF Forks, Creates, Joins
<1>7. Harmless(p)
  <2>1. NeverCloses(p)
    BY <1>4 DEF NeverCloses
  <2> QED
    BY <2>1 DEF Harmless
<1>8. NullsKept(p)
  BY <1>4, ManyAssumption DEF NullsKept
<1> QED
  BY <1>5, <1>6, <1>7, <1>8 DEF p, Good

\* bug_tcp has one thread.
LEMMA Good_bug_tcp == Good(bug_tcp)
<1> DEFINE p == bug_tcp
<1>1. p.main = <<Do("socket", "fd"), Do("bind", "fd"), Do("listen", "fd"), Do("close", "fd"),
                 Do("socket", "fd"), Do("bind", "fd"), Do("sleep", "none")>>
  BY ProgramParts DEF bug_tcp
<1>2. /\ p.byRef = {} /\ DOMAIN p.threads = {}
  BY ProgramParts DEF bug_tcp
<1>3. /\ Len(p.main) = 7 /\ DOMAIN p.main = 1 .. 7 /\ p.main[1] = Do("socket", "fd")
      /\ p.main[2] = Do("bind", "fd") /\ p.main[3] = Do("listen", "fd")
      /\ p.main[4] = Do("close", "fd") /\ p.main[5] = Do("socket", "fd")
      /\ p.main[6] = Do("bind", "fd") /\ p.main[7] = Do("sleep", "none")
  BY <1>1
<1>4. /\ p.byRef = {} /\ DOMAIN p.threads = {} /\ Len(p.main) = 7 /\ DOMAIN p.main = 1 .. 7
      /\ p.main[1].op = "socket" /\ p.main[1].on = "fd" /\ p.main[2].op = "bind"
      /\ p.main[2].on = "fd" /\ p.main[3].op = "listen" /\ p.main[3].on = "fd"
      /\ p.main[4].op = "close" /\ p.main[4].on = "fd" /\ p.main[5].op = "socket"
      /\ p.main[5].on = "fd" /\ p.main[6].op = "bind" /\ p.main[6].on = "fd"
      /\ p.main[7].op = "sleep"
  BY <1>2, <1>3, CallParts, ThreadScripts
<1> HIDE DEF p
<1>5. Typed(p)
  BY <1>4, ManyAssumption DEF Typed, IsScript, MainCall, ThreadCall
<1>6. Forks(p)
  BY <1>4, ManyAssumption DEF Forks, Creates, Joins
<1>7. Harmless(p)
  <2>1. Sequential(p)
    BY <1>4, ManyAssumption DEF Sequential, Creates, Joins
  <2>2. SocketsOnly(p)
    BY <1>4, ManyAssumption DEF SocketsOnly
  <2>3. NoAccept(p)
    BY <1>4, ManyAssumption DEF NoAccept, SocketsOnly
  <2> QED
    BY <2>1, <2>2, <2>3 DEF Harmless
<1>8. NullsKept(p)
  BY <1>4, ManyAssumption DEF NullsKept
<1> QED
  BY <1>5, <1>6, <1>7, <1>8 DEF p, Good

\* bug_rfcomm closes no descriptor.
LEMMA Good_bug_rfcomm == Good(bug_rfcomm)
<1> DEFINE p == bug_rfcomm
<1>1. p.main = <<Do("socket", "fd"), Do("nonblock", "fd"), Do("connect", "fd"),
                 Do("shutdown", "fd"), Do("socket", "fd"), Do("connect", "fd"),
                     Do("shutdown", "fd")>>
  BY ProgramParts DEF bug_rfcomm
<1>2. /\ p.byRef = {} /\ DOMAIN p.threads = {}
  BY ProgramParts DEF bug_rfcomm
<1>3. /\ Len(p.main) = 7 /\ DOMAIN p.main = 1 .. 7 /\ p.main[1] = Do("socket", "fd")
      /\ p.main[2] = Do("nonblock", "fd") /\ p.main[3] = Do("connect", "fd")
      /\ p.main[4] = Do("shutdown", "fd") /\ p.main[5] = Do("socket", "fd")
      /\ p.main[6] = Do("connect", "fd") /\ p.main[7] = Do("shutdown", "fd")
  BY <1>1
<1>4. /\ p.byRef = {} /\ DOMAIN p.threads = {} /\ Len(p.main) = 7 /\ DOMAIN p.main = 1 .. 7
      /\ p.main[1].op = "socket" /\ p.main[1].on = "fd" /\ p.main[2].op = "nonblock"
      /\ p.main[2].on = "fd" /\ p.main[3].op = "connect" /\ p.main[3].on = "fd"
      /\ p.main[4].op = "shutdown" /\ p.main[4].on = "fd" /\ p.main[5].op = "socket"
      /\ p.main[5].on = "fd" /\ p.main[6].op = "connect" /\ p.main[6].on = "fd"
      /\ p.main[7].op = "shutdown" /\ p.main[7].on = "fd"
  BY <1>2, <1>3, CallParts, ThreadScripts
<1> HIDE DEF p
<1>5. Typed(p)
  BY <1>4, ManyAssumption DEF Typed, IsScript, MainCall, ThreadCall
<1>6. Forks(p)
  BY <1>4, ManyAssumption DEF Forks, Creates, Joins
<1>7. Harmless(p)
  <2>1. NeverCloses(p)
    BY <1>4 DEF NeverCloses
  <2> QED
    BY <2>1 DEF Harmless
<1>8. NullsKept(p)
  BY <1>4, ManyAssumption DEF NullsKept
<1> QED
  BY <1>5, <1>6, <1>7, <1>8 DEF p, Good

\* bug_l2cap has one thread.
LEMMA Good_bug_l2cap == Good(bug_l2cap)
<1> DEFINE p == bug_l2cap
<1>1. p.main = <<Do("socket", "fd"), Do("nonblock", "fd"), Do("connect", "fd"),
                 Do("shutdown", "fd"), Do("close", "fd")>>
  BY ProgramParts DEF bug_l2cap
<1>2. /\ p.byRef = {} /\ DOMAIN p.threads = {}
  BY ProgramParts DEF bug_l2cap
<1>3. /\ Len(p.main) = 5 /\ DOMAIN p.main = 1 .. 5 /\ p.main[1] = Do("socket", "fd")
      /\ p.main[2] = Do("nonblock", "fd") /\ p.main[3] = Do("connect", "fd")
      /\ p.main[4] = Do("shutdown", "fd") /\ p.main[5] = Do("close", "fd")
  BY <1>1
<1>4. /\ p.byRef = {} /\ DOMAIN p.threads = {} /\ Len(p.main) = 5 /\ DOMAIN p.main = 1 .. 5
      /\ p.main[1].op = "socket" /\ p.main[1].on = "fd" /\ p.main[2].op = "nonblock"
      /\ p.main[2].on = "fd" /\ p.main[3].op = "connect" /\ p.main[3].on = "fd"
      /\ p.main[4].op = "shutdown" /\ p.main[4].on = "fd" /\ p.main[5].op = "close"
      /\ p.main[5].on = "fd"
  BY <1>2, <1>3, CallParts, ThreadScripts
<1> HIDE DEF p
<1>5. Typed(p)
  BY <1>4, ManyAssumption DEF Typed, IsScript, MainCall, ThreadCall
<1>6. Forks(p)
  BY <1>4, ManyAssumption DEF Forks, Creates, Joins
<1>7. Harmless(p)
  <2>1. Sequential(p)
    BY <1>4, ManyAssumption DEF Sequential, Creates, Joins
  <2>2. SocketsOnly(p)
    BY <1>4, ManyAssumption DEF SocketsOnly
  <2>3. NoAccept(p)
    BY <1>4, ManyAssumption DEF NoAccept, SocketsOnly
  <2> QED
    BY <2>1, <2>2, <2>3 DEF Harmless
<1>8. NullsKept(p)
  BY <1>4, ManyAssumption DEF NullsKept
<1> QED
  BY <1>5, <1>6, <1>7, <1>8 DEF p, Good

\* do_poll_poll_poll_shutdown opens its descriptors before it creates a thread.
LEMMA Good_do_poll_poll_poll_shutdown == Good(do_poll_poll_poll_shutdown)
<1> DEFINE p == do_poll_poll_poll_shutdown
             s1 == <<Do("socket", "fd")>>
             s2 == CreateAll("fd")
             s3 == <<Do("shutdown", "fd")>>
             s4 == JoinAll
             s5 == <<Do("close", "fd")>>
<1>1. /\ s1 \in Seq(Calls) /\ Len(s1) = 1 /\ s2 \in Seq(Calls) /\ Len(s2) = Many
      /\ s3 \in Seq(Calls) /\ Len(s3) = 1 /\ s4 \in Seq(Calls) /\ Len(s4) = Many
      /\ s5 \in Seq(Calls) /\ Len(s5) = 1
  <2>1. /\ Do("socket", "fd") \in Calls /\ Do("shutdown", "fd") \in Calls
        /\ Do("close", "fd") \in Calls
    BY CallsAreCalls
  <2> QED
    BY <2>1, Loops
<1>2. p.main = s1 \o s2 \o s3 \o s4 \o s5
  BY ProgramParts DEF do_poll_poll_poll_shutdown
<1>3. /\ p.byRef = {} /\ DOMAIN p.threads = 1 .. Many
      /\ \A t \in 1 .. Many : p.threads[t] = thread_poll
  <2>1. p.byRef = {} /\ p.threads = Each(thread_poll)
    BY ProgramParts DEF do_poll_poll_poll_shutdown
  <2> QED
    BY <2>1 DEF Each
<1>4. /\ s1[1] = Do("socket", "fd") /\ \A i \in 1 .. Many : s2[i] = Create(i, "fd")
      /\ s3[1] = Do("shutdown", "fd") /\ \A i \in 1 .. Many : s4[i] = Join(i)
      /\ s5[1] = Do("close", "fd")
  BY DEF CreateAll, JoinAll
<1> HIDE DEF s1, s2, s3, s4, s5
<1> DEFINE m2 == s1 \o s2
<1>m2. IsCat(m2, s1, s2)
  BY <1>1, Cat
<1> HIDE DEF m2
<1> DEFINE m3 == m2 \o s3
<1>m3. IsCat(m3, m2, s3)
  BY <1>1, <1>m2, Cat DEF IsCat
<1> HIDE DEF m3
<1> DEFINE m4 == m3 \o s4
<1>m4. IsCat(m4, m3, s4)
  BY <1>1, <1>m3, Cat DEF IsCat
<1> HIDE DEF m4
<1> DEFINE m5 == m4 \o s5
<1>m5. IsCat(m5, m4, s5)
  BY <1>1, <1>m4, Cat DEF IsCat
<1> HIDE DEF m5
<1>5. p.main = m5
  BY <1>2 DEF m2, m3, m4, m5
<1>6. Len(p.main) = 2 * Many + 3 /\ DOMAIN p.main = 1 .. Len(p.main)
  <2>1. Many \in Nat
    BY ManyAssumption
  <2>2. Len(m2) = Many + 1
    BY <1>1, <1>m2, <2>1 DEF IsCat
  <2>3. Len(m3) = Many + 2
    BY <1>1, <1>m3, <2>1, <2>2 DEF IsCat
  <2>4. Len(m4) = 2 * Many + 2
    BY <1>1, <1>m4, <2>1, <2>3 DEF IsCat
  <2>5. Len(m5) = 2 * Many + 3
    BY <1>1, <1>m5, <2>1, <2>4 DEF IsCat
  <2> QED
    BY <1>5, <1>m5, <2>5 DEF IsCat
<1>7. /\ p.main[1] = s1[1] /\ \A i \in 2 .. Many + 1 : p.main[i] = s2[i - 1]
      /\ p.main[Many + 2] = s3[1]
      /\ \A i \in Many + 3 .. 2 * Many + 2 : p.main[i] = s4[i - (Many + 2)]
      /\ p.main[2 * Many + 3] = s5[1]
  <2> HIDE DEF p
  <2>1. /\ p.main = m5 /\ Len(s1) = 1 /\ Len(m2) = Many + 1 /\ Len(m3) = Many + 2
        /\ Len(m4) = 2 * Many + 2 /\ Len(s2) = Many /\ Len(s3) = 1 /\ Len(s4) = Many
        /\ Len(s5) = 1 /\ Many \in Nat
    BY <1>1, <1>5, <1>m2, <1>m3, <1>m4, ManyAssumption DEF IsCat
  <2>2. \A i \in 1 .. 2 * Many + 2 : p.main[i] = m4[i]
    BY <2>1, <1>m5 DEF IsCat
  <2>3. p.main[2 * Many + 3] = s5[1]
    BY <2>1, <1>m5 DEF IsCat
  <2>4. \A i \in 1 .. Many + 2 : m4[i] = m3[i]
    BY <2>1, <1>m4 DEF IsCat
  <2>5. \A i \in Many + 3 .. 2 * Many + 2 : m4[i] = s4[i - (Many + 2)]
    BY <2>1, <1>m4 DEF IsCat
  <2>6. \A i \in 1 .. Many + 1 : m3[i] = m2[i]
    BY <2>1, <1>m3 DEF IsCat
  <2>7. m3[Many + 2] = s3[1]
    <3> DEFINE k == Many + 2
    <3>1. k \in Len(m2) + 1 .. Len(m2) + Len(s3) /\ k - Len(m2) = 1
      BY <2>1
    <3>2. \A i \in Len(m2) + 1 .. Len(m2) + Len(s3) : m3[i] = s3[i - Len(m2)]
      BY <1>m3 DEF IsCat
    <3> HIDE DEF k
    <3>3. m3[k] = s3[1]
      BY <3>1, <3>2
    <3> QED
      BY <3>3 DEF k
  <2>8. m2[1] = s1[1] /\ \A i \in 2 .. Many + 1 : m2[i] = s2[i - 1]
    BY <2>1, <1>m2 DEF IsCat
  <2>9. p.main[1] = s1[1] /\ \A i \in 2 .. Many + 1 : p.main[i] = s2[i - 1]
    BY <2>1, <2>2, <2>4, <2>6, <2>8
  <2>10. p.main[Many + 2] = s3[1]
    BY <2>1, <2>2, <2>4, <2>7
  <2>11. \A i \in Many + 3 .. 2 * Many + 2 : p.main[i] = s4[i - (Many + 2)]
    BY <2>1, <2>2, <2>5
  <2> QED
    BY <2>3, <2>9, <2>10, <2>11
<1> HIDE DEF p
<1>8. /\ Len(p.main) \in Nat /\ DOMAIN p.main = 1 .. Len(p.main) /\ Len(p.main) = 2 * Many + 3
      /\ p.main[1] = Do("socket", "fd")
      /\ \A i \in 2 .. Many + 1 : p.main[i] = Create(i - 1, "fd")
      /\ p.main[Many + 2] = Do("shutdown", "fd")
      /\ \A i \in Many + 3 .. 2 * Many + 2 : p.main[i] = Join(i - Many - 2)
      /\ p.main[2 * Many + 3] = Do("close", "fd")
  BY <1>4, <1>5, <1>6, <1>7, ManyAssumption
<1>9. /\ p.byRef = {} /\ DOMAIN p.threads = 1 .. Many
      /\ \A t \in 1 .. Many :
           /\ Len(p.threads[t]) = 1 /\ DOMAIN p.threads[t] = {1} /\ p.threads[t][1].op = "poll"
           /\ p.threads[t][1].on = "arg"
      /\ Len(p.main) \in Nat /\ DOMAIN p.main = 1 .. Len(p.main) /\ Len(p.main) = 2 * Many + 3
      /\ p.main[1].op = "socket" /\ p.main[1].on = "fd"
      /\ \A i \in 2 .. Many + 1 :
           /\ p.main[i].op = "create" /\ p.main[i].num = i - 1 /\ p.main[i].on = "fd"
      /\ p.main[Many + 2].op = "shutdown" /\ p.main[Many + 2].on = "fd"
      /\ \A i \in Many + 3 .. 2 * Many + 2 :
           /\ p.main[i].op = "join" /\ p.main[i].num = i - Many - 2
      /\ p.main[2 * Many + 3].op = "close" /\ p.main[2 * Many + 3].on = "fd"
  <2>1. /\ p.byRef = {} /\ DOMAIN p.threads = 1 .. Many
        /\ \A t \in 1 .. Many :
             /\ Len(p.threads[t]) = 1 /\ DOMAIN p.threads[t] = {1}
             /\ p.threads[t][1].op = "poll" /\ p.threads[t][1].on = "arg"
    BY <1>3, CallParts, ThreadScripts
  <2>2. /\ Len(p.main) \in Nat /\ DOMAIN p.main = 1 .. Len(p.main) /\ Len(p.main) = 2 * Many + 3
        /\ p.main[1].op = "socket" /\ p.main[1].on = "fd"
        /\ \A i \in 2 .. Many + 1 :
             /\ p.main[i].op = "create" /\ p.main[i].num = i - 1 /\ p.main[i].on = "fd"
        /\ p.main[Many + 2].op = "shutdown" /\ p.main[Many + 2].on = "fd"
        /\ \A i \in Many + 3 .. 2 * Many + 2 :
             /\ p.main[i].op = "join" /\ p.main[i].num = i - Many - 2
        /\ p.main[2 * Many + 3].op = "close" /\ p.main[2 * Many + 3].on = "fd"
    BY <1>8, CallParts
  <2> QED
    BY <2>1, <2>2
<1> HIDE DEF p
<1>10. /\ p.byRef = {} /\ DOMAIN p.threads = 1 .. Many
       /\ \A t \in 1 .. Many :
            /\ Len(p.threads[t]) = 1 /\ DOMAIN p.threads[t] = {1} /\ p.threads[t][1].op = "poll"
            /\ p.threads[t][1].on = "arg"
       /\ Len(p.main) \in Nat /\ DOMAIN p.main = 1 .. Len(p.main)
  BY <1>9
<1>11. \A i \in DOMAIN p.main :
         \/ i = 1 /\ p.main[i].op = "socket" /\ p.main[i].on = "fd"
         \/ i \in 2 .. Many + 1 /\ p.main[i].op = "create" /\ p.main[i].num = i - 1
            /\ p.main[i].on = "fd"
         \/ i = Many + 2 /\ p.main[i].op = "shutdown" /\ p.main[i].on = "fd"
         \/ i \in Many + 3 .. 2 * Many + 2 /\ p.main[i].op = "join"
            /\ p.main[i].num = i - Many - 2
         \/ i = 2 * Many + 3 /\ p.main[i].op = "close" /\ p.main[i].on = "fd"
  <2> SUFFICES ASSUME NEW i \in DOMAIN p.main
               PROVE  \/ i = 1 /\ p.main[i].op = "socket" /\ p.main[i].on = "fd"
                      \/ i \in 2 .. Many + 1 /\ p.main[i].op = "create"
                         /\ p.main[i].num = i - 1 /\ p.main[i].on = "fd"
                      \/ i = Many + 2 /\ p.main[i].op = "shutdown" /\ p.main[i].on = "fd"
                      \/ i \in Many + 3 .. 2 * Many + 2 /\ p.main[i].op = "join"
                         /\ p.main[i].num = i - Many - 2
                      \/ i = 2 * Many + 3 /\ p.main[i].op = "close" /\ p.main[i].on = "fd"
    OBVIOUS
  <2>1. i = 1 \/ i \in 2 .. Many + 1 \/ i = Many + 2 \/ i \in Many + 3 .. 2 * Many + 2
        \/ i = 2 * Many + 3
    <3>1. DOMAIN p.main = 1 .. 2 * Many + 3
      BY <1>9
    <3> QED
      BY <3>1, ManyAssumption
  <2> QED
    BY <1>9, <2>1
<1>12. Typed(p)
  <2>1. ASSUME NEW i \in DOMAIN p.main PROVE MainCall(p, p.main[i])
    BY <1>10, <1>11, ManyAssumption DEF MainCall, ThreadCall
  <2>2. ASSUME NEW t \in DOMAIN p.threads
        PROVE  IsScript(p.threads[t])
               /\ \A i \in DOMAIN p.threads[t] : ThreadCall(p.threads[t][i])
    BY <1>10 DEF IsScript, ThreadCall
  <2> QED
    BY <1>10, <2>1, <2>2, ManyAssumption DEF Typed, IsScript
<1>13. Forks(p)
  <2>1. ASSUME NEW i \in DOMAIN p.main, NEW j \in DOMAIN p.main, NEW u \in DOMAIN p.threads,
               Creates(p, i, u), Creates(p, j, u)
        PROVE  i = j
    <3>1. ASSUME NEW k \in DOMAIN p.main, Creates(p, k, u)
          PROVE  (k \in 2 .. Many + 1 /\ u = k - 1)
      BY <3>1, <1>11, ManyAssumption DEF Creates
    <3> QED
      BY <2>1, <3>1, ManyAssumption
  <2>2. \A i \in DOMAIN p.main : p.main[i].op # "goto"
    BY <1>10, <1>11, ManyAssumption
  <2> QED
    BY <1>10, <2>1, <2>2 DEF Forks
<1>14. Harmless(p)
  <2>1. Sequential(p)
    <3>1. ASSUME NEW j \in DOMAIN p.main, p.main[j].op \in Opening PROVE j = 1
      BY <3>1, <1>11
    <3> QED
      BY <1>10, <3>1 DEF Sequential
  <2>2. SocketsOnly(p)
    BY <1>10, <1>11, ManyAssumption DEF SocketsOnly
  <2>3. NoAccept(p)
    BY <1>10, <1>11, ManyAssumption DEF NoAccept, SocketsOnly
  <2> QED
    BY <2>1, <2>2, <2>3 DEF Harmless
<1>15. NullsKept(p)
  BY <1>10, <1>11, ManyAssumption DEF NullsKept
<1> QED
  BY <1>12, <1>13, <1>14, <1>15 DEF p, Good

\* do_poll_poll_poll_close opens its descriptors before it creates a thread, and closes
\* one before anyone waits for ever.
LEMMA Good_do_poll_poll_poll_close ==
    Good(do_poll_poll_poll_close) /\ ClosesOne(do_poll_poll_poll_close)
<1> DEFINE p == do_poll_poll_poll_close
             s1 == <<Do("socket", "fd")>>
             s2 == CreateAll("fd")
             s3 == <<Do("close", "fd")>>
             s4 == JoinAll
<1>1. /\ s1 \in Seq(Calls) /\ Len(s1) = 1 /\ s2 \in Seq(Calls) /\ Len(s2) = Many
      /\ s3 \in Seq(Calls) /\ Len(s3) = 1 /\ s4 \in Seq(Calls) /\ Len(s4) = Many
  <2>1. /\ Do("socket", "fd") \in Calls /\ Do("close", "fd") \in Calls
    BY CallsAreCalls
  <2> QED
    BY <2>1, Loops
<1>2. p.main = s1 \o s2 \o s3 \o s4
  BY ProgramParts DEF do_poll_poll_poll_close
<1>3. /\ p.byRef = {} /\ DOMAIN p.threads = 1 .. Many
      /\ \A t \in 1 .. Many : p.threads[t] = thread_poll
  <2>1. p.byRef = {} /\ p.threads = Each(thread_poll)
    BY ProgramParts DEF do_poll_poll_poll_close
  <2> QED
    BY <2>1 DEF Each
<1>4. /\ s1[1] = Do("socket", "fd") /\ \A i \in 1 .. Many : s2[i] = Create(i, "fd")
      /\ s3[1] = Do("close", "fd") /\ \A i \in 1 .. Many : s4[i] = Join(i)
  BY DEF CreateAll, JoinAll
<1> HIDE DEF s1, s2, s3, s4
<1> DEFINE m2 == s1 \o s2
<1>m2. IsCat(m2, s1, s2)
  BY <1>1, Cat
<1> HIDE DEF m2
<1> DEFINE m3 == m2 \o s3
<1>m3. IsCat(m3, m2, s3)
  BY <1>1, <1>m2, Cat DEF IsCat
<1> HIDE DEF m3
<1> DEFINE m4 == m3 \o s4
<1>m4. IsCat(m4, m3, s4)
  BY <1>1, <1>m3, Cat DEF IsCat
<1> HIDE DEF m4
<1>5. p.main = m4
  BY <1>2 DEF m2, m3, m4
<1>6. Len(p.main) = 2 * Many + 2 /\ DOMAIN p.main = 1 .. Len(p.main)
  <2>1. Many \in Nat
    BY ManyAssumption
  <2>2. Len(m2) = Many + 1
    BY <1>1, <1>m2, <2>1 DEF IsCat
  <2>3. Len(m3) = Many + 2
    BY <1>1, <1>m3, <2>1, <2>2 DEF IsCat
  <2>4. Len(m4) = 2 * Many + 2
    BY <1>1, <1>m4, <2>1, <2>3 DEF IsCat
  <2> QED
    BY <1>5, <1>m4, <2>4 DEF IsCat
<1>7. /\ p.main[1] = s1[1] /\ \A i \in 2 .. Many + 1 : p.main[i] = s2[i - 1]
      /\ p.main[Many + 2] = s3[1]
      /\ \A i \in Many + 3 .. 2 * Many + 2 : p.main[i] = s4[i - (Many + 2)]
  <2> HIDE DEF p
  <2> QED
    BY <1>1, <1>5, <1>m2, <1>m3, <1>m4, ManyAssumption DEF IsCat
<1> HIDE DEF p
<1>8. /\ Len(p.main) \in Nat /\ DOMAIN p.main = 1 .. Len(p.main) /\ Len(p.main) = 2 * Many + 2
      /\ p.main[1] = Do("socket", "fd")
      /\ \A i \in 2 .. Many + 1 : p.main[i] = Create(i - 1, "fd")
      /\ p.main[Many + 2] = Do("close", "fd")
      /\ \A i \in Many + 3 .. 2 * Many + 2 : p.main[i] = Join(i - Many - 2)
  BY <1>4, <1>5, <1>6, <1>7, ManyAssumption
<1>9. /\ p.byRef = {} /\ DOMAIN p.threads = 1 .. Many
      /\ \A t \in 1 .. Many :
           /\ Len(p.threads[t]) = 1 /\ DOMAIN p.threads[t] = {1} /\ p.threads[t][1].op = "poll"
           /\ p.threads[t][1].on = "arg"
      /\ Len(p.main) \in Nat /\ DOMAIN p.main = 1 .. Len(p.main) /\ Len(p.main) = 2 * Many + 2
      /\ p.main[1].op = "socket" /\ p.main[1].on = "fd"
      /\ \A i \in 2 .. Many + 1 :
           /\ p.main[i].op = "create" /\ p.main[i].num = i - 1 /\ p.main[i].on = "fd"
      /\ p.main[Many + 2].op = "close" /\ p.main[Many + 2].on = "fd"
      /\ \A i \in Many + 3 .. 2 * Many + 2 :
           /\ p.main[i].op = "join" /\ p.main[i].num = i - Many - 2
  <2>1. /\ p.byRef = {} /\ DOMAIN p.threads = 1 .. Many
        /\ \A t \in 1 .. Many :
             /\ Len(p.threads[t]) = 1 /\ DOMAIN p.threads[t] = {1}
             /\ p.threads[t][1].op = "poll" /\ p.threads[t][1].on = "arg"
    BY <1>3, CallParts, ThreadScripts
  <2>2. /\ Len(p.main) \in Nat /\ DOMAIN p.main = 1 .. Len(p.main) /\ Len(p.main) = 2 * Many + 2
        /\ p.main[1].op = "socket" /\ p.main[1].on = "fd"
        /\ \A i \in 2 .. Many + 1 :
             /\ p.main[i].op = "create" /\ p.main[i].num = i - 1 /\ p.main[i].on = "fd"
        /\ p.main[Many + 2].op = "close" /\ p.main[Many + 2].on = "fd"
        /\ \A i \in Many + 3 .. 2 * Many + 2 :
             /\ p.main[i].op = "join" /\ p.main[i].num = i - Many - 2
    BY <1>8, CallParts
  <2> QED
    BY <2>1, <2>2
<1> HIDE DEF p
<1>10. /\ p.byRef = {} /\ DOMAIN p.threads = 1 .. Many
       /\ \A t \in 1 .. Many :
            /\ Len(p.threads[t]) = 1 /\ DOMAIN p.threads[t] = {1} /\ p.threads[t][1].op = "poll"
            /\ p.threads[t][1].on = "arg"
       /\ Len(p.main) \in Nat /\ DOMAIN p.main = 1 .. Len(p.main)
  BY <1>9
<1>11. \A i \in DOMAIN p.main :
         \/ i = 1 /\ p.main[i].op = "socket" /\ p.main[i].on = "fd"
         \/ i \in 2 .. Many + 1 /\ p.main[i].op = "create" /\ p.main[i].num = i - 1
            /\ p.main[i].on = "fd"
         \/ i = Many + 2 /\ p.main[i].op = "close" /\ p.main[i].on = "fd"
         \/ i \in Many + 3 .. 2 * Many + 2 /\ p.main[i].op = "join"
            /\ p.main[i].num = i - Many - 2
  <2> SUFFICES ASSUME NEW i \in DOMAIN p.main
               PROVE  \/ i = 1 /\ p.main[i].op = "socket" /\ p.main[i].on = "fd"
                      \/ i \in 2 .. Many + 1 /\ p.main[i].op = "create"
                         /\ p.main[i].num = i - 1 /\ p.main[i].on = "fd"
                      \/ i = Many + 2 /\ p.main[i].op = "close" /\ p.main[i].on = "fd"
                      \/ i \in Many + 3 .. 2 * Many + 2 /\ p.main[i].op = "join"
                         /\ p.main[i].num = i - Many - 2
    OBVIOUS
  <2>1. i = 1 \/ i \in 2 .. Many + 1 \/ i = Many + 2 \/ i \in Many + 3 .. 2 * Many + 2
    <3>1. DOMAIN p.main = 1 .. 2 * Many + 2
      BY <1>9
    <3> QED
      BY <3>1, ManyAssumption
  <2> QED
    BY <1>9, <2>1
<1>12. Typed(p)
  <2>1. ASSUME NEW i \in DOMAIN p.main PROVE MainCall(p, p.main[i])
    BY <1>10, <1>11, ManyAssumption DEF MainCall, ThreadCall
  <2>2. ASSUME NEW t \in DOMAIN p.threads
        PROVE  IsScript(p.threads[t])
               /\ \A i \in DOMAIN p.threads[t] : ThreadCall(p.threads[t][i])
    BY <1>10 DEF IsScript, ThreadCall
  <2> QED
    BY <1>10, <2>1, <2>2, ManyAssumption DEF Typed, IsScript
<1>13. Forks(p)
  <2>1. ASSUME NEW i \in DOMAIN p.main, NEW j \in DOMAIN p.main, NEW u \in DOMAIN p.threads,
               Creates(p, i, u), Creates(p, j, u)
        PROVE  i = j
    <3>1. ASSUME NEW k \in DOMAIN p.main, Creates(p, k, u)
          PROVE  (k \in 2 .. Many + 1 /\ u = k - 1)
      BY <3>1, <1>11, ManyAssumption DEF Creates
    <3> QED
      BY <2>1, <3>1, ManyAssumption
  <2>2. \A i \in DOMAIN p.main : p.main[i].op # "goto"
    BY <1>10, <1>11, ManyAssumption
  <2> QED
    BY <1>10, <2>1, <2>2 DEF Forks
<1>14. Harmless(p)
  <2>1. Sequential(p)
    <3>1. ASSUME NEW j \in DOMAIN p.main, p.main[j].op \in Opening PROVE j = 1
      BY <3>1, <1>11
    <3> QED
      BY <1>10, <3>1 DEF Sequential
  <2>2. SocketsOnly(p)
    BY <1>10, <1>11, ManyAssumption DEF SocketsOnly
  <2>3. NoAccept(p)
    BY <1>10, <1>11, ManyAssumption DEF NoAccept, SocketsOnly
  <2> QED
    BY <2>1, <2>2, <2>3 DEF Harmless
<1>15. NullsKept(p)
  BY <1>10, <1>11, ManyAssumption DEF NullsKept
<1>16. ClosesOne(p)
  <2>1. \A u \in DOMAIN p.threads : \A n \in DOMAIN p.threads[u] :
          p.threads[u][n].op \notin Opening /\ p.threads[u][n].on = "arg"
    BY <1>10, <1>11
  <2>2. ASSUME NEW i \in DOMAIN p.main
        PROVE  /\ p.main[i].op \in Opening => i = 1
               /\ p.main[i].op = "create" => p.main[i].on = "fd"
               /\ p.main[i].op # "goto"
               /\ p.main[i].op \in Blocking \cup {"close"} => p.main[i].on = "fd"
    BY <1>10, <1>11, ManyAssumption
  <2>3. ASSUME NEW i \in DOMAIN p.main, p.main[i].op \in Blocking \cup {"join"}
        PROVE  Many + 2 \in 1 .. i - 1
    BY <1>10, <1>11, <2>3, ManyAssumption
  <2>4. p.main[Many + 2].op = "close"
    BY <1>9
  <2> QED
    BY <2>1, <2>2, <2>3, <2>4 DEF ClosesOne
<1>17. Good(p)
  BY <1>12, <1>13, <1>14, <1>15 DEF Good
<1> QED
  BY <1>16, <1>17 DEF p

\* do_read_read_read_close opens its descriptors before it creates a thread, and closes
\* one before anyone waits for ever.
LEMMA Good_do_read_read_read_close ==
    Good(do_read_read_read_close) /\ ClosesOne(do_read_read_read_close)
<1> DEFINE p == do_read_read_read_close
             s1 == <<Do("socket", "fd")>>
             s2 == CreateAll("fd")
             s3 == <<Do("close", "fd")>>
             s4 == JoinAll
<1>1. /\ s1 \in Seq(Calls) /\ Len(s1) = 1 /\ s2 \in Seq(Calls) /\ Len(s2) = Many
      /\ s3 \in Seq(Calls) /\ Len(s3) = 1 /\ s4 \in Seq(Calls) /\ Len(s4) = Many
  <2>1. /\ Do("socket", "fd") \in Calls /\ Do("close", "fd") \in Calls
    BY CallsAreCalls
  <2> QED
    BY <2>1, Loops
<1>2. p.main = s1 \o s2 \o s3 \o s4
  BY ProgramParts DEF do_read_read_read_close
<1>3. /\ p.byRef = {} /\ DOMAIN p.threads = 1 .. Many
      /\ \A t \in 1 .. Many : p.threads[t] = thread_read
  <2>1. p.byRef = {} /\ p.threads = Each(thread_read)
    BY ProgramParts DEF do_read_read_read_close
  <2> QED
    BY <2>1 DEF Each
<1>4. /\ s1[1] = Do("socket", "fd") /\ \A i \in 1 .. Many : s2[i] = Create(i, "fd")
      /\ s3[1] = Do("close", "fd") /\ \A i \in 1 .. Many : s4[i] = Join(i)
  BY DEF CreateAll, JoinAll
<1> HIDE DEF s1, s2, s3, s4
<1> DEFINE m2 == s1 \o s2
<1>m2. IsCat(m2, s1, s2)
  BY <1>1, Cat
<1> HIDE DEF m2
<1> DEFINE m3 == m2 \o s3
<1>m3. IsCat(m3, m2, s3)
  BY <1>1, <1>m2, Cat DEF IsCat
<1> HIDE DEF m3
<1> DEFINE m4 == m3 \o s4
<1>m4. IsCat(m4, m3, s4)
  BY <1>1, <1>m3, Cat DEF IsCat
<1> HIDE DEF m4
<1>5. p.main = m4
  BY <1>2 DEF m2, m3, m4
<1>6. Len(p.main) = 2 * Many + 2 /\ DOMAIN p.main = 1 .. Len(p.main)
  <2>1. Many \in Nat
    BY ManyAssumption
  <2>2. Len(m2) = Many + 1
    BY <1>1, <1>m2, <2>1 DEF IsCat
  <2>3. Len(m3) = Many + 2
    BY <1>1, <1>m3, <2>1, <2>2 DEF IsCat
  <2>4. Len(m4) = 2 * Many + 2
    BY <1>1, <1>m4, <2>1, <2>3 DEF IsCat
  <2> QED
    BY <1>5, <1>m4, <2>4 DEF IsCat
<1>7. /\ p.main[1] = s1[1] /\ \A i \in 2 .. Many + 1 : p.main[i] = s2[i - 1]
      /\ p.main[Many + 2] = s3[1]
      /\ \A i \in Many + 3 .. 2 * Many + 2 : p.main[i] = s4[i - (Many + 2)]
  <2> HIDE DEF p
  <2> QED
    BY <1>1, <1>5, <1>m2, <1>m3, <1>m4, ManyAssumption DEF IsCat
<1> HIDE DEF p
<1>8. /\ Len(p.main) \in Nat /\ DOMAIN p.main = 1 .. Len(p.main) /\ Len(p.main) = 2 * Many + 2
      /\ p.main[1] = Do("socket", "fd")
      /\ \A i \in 2 .. Many + 1 : p.main[i] = Create(i - 1, "fd")
      /\ p.main[Many + 2] = Do("close", "fd")
      /\ \A i \in Many + 3 .. 2 * Many + 2 : p.main[i] = Join(i - Many - 2)
  BY <1>4, <1>5, <1>6, <1>7, ManyAssumption
<1>9. /\ p.byRef = {} /\ DOMAIN p.threads = 1 .. Many
      /\ \A t \in 1 .. Many :
           /\ Len(p.threads[t]) = 1 /\ DOMAIN p.threads[t] = {1} /\ p.threads[t][1].op = "read"
           /\ p.threads[t][1].on = "arg"
      /\ Len(p.main) \in Nat /\ DOMAIN p.main = 1 .. Len(p.main) /\ Len(p.main) = 2 * Many + 2
      /\ p.main[1].op = "socket" /\ p.main[1].on = "fd"
      /\ \A i \in 2 .. Many + 1 :
           /\ p.main[i].op = "create" /\ p.main[i].num = i - 1 /\ p.main[i].on = "fd"
      /\ p.main[Many + 2].op = "close" /\ p.main[Many + 2].on = "fd"
      /\ \A i \in Many + 3 .. 2 * Many + 2 :
           /\ p.main[i].op = "join" /\ p.main[i].num = i - Many - 2
  <2>1. /\ p.byRef = {} /\ DOMAIN p.threads = 1 .. Many
        /\ \A t \in 1 .. Many :
             /\ Len(p.threads[t]) = 1 /\ DOMAIN p.threads[t] = {1}
             /\ p.threads[t][1].op = "read" /\ p.threads[t][1].on = "arg"
    BY <1>3, CallParts, ThreadScripts
  <2>2. /\ Len(p.main) \in Nat /\ DOMAIN p.main = 1 .. Len(p.main) /\ Len(p.main) = 2 * Many + 2
        /\ p.main[1].op = "socket" /\ p.main[1].on = "fd"
        /\ \A i \in 2 .. Many + 1 :
             /\ p.main[i].op = "create" /\ p.main[i].num = i - 1 /\ p.main[i].on = "fd"
        /\ p.main[Many + 2].op = "close" /\ p.main[Many + 2].on = "fd"
        /\ \A i \in Many + 3 .. 2 * Many + 2 :
             /\ p.main[i].op = "join" /\ p.main[i].num = i - Many - 2
    BY <1>8, CallParts
  <2> QED
    BY <2>1, <2>2
<1> HIDE DEF p
<1>10. /\ p.byRef = {} /\ DOMAIN p.threads = 1 .. Many
       /\ \A t \in 1 .. Many :
            /\ Len(p.threads[t]) = 1 /\ DOMAIN p.threads[t] = {1} /\ p.threads[t][1].op = "read"
            /\ p.threads[t][1].on = "arg"
       /\ Len(p.main) \in Nat /\ DOMAIN p.main = 1 .. Len(p.main)
  BY <1>9
<1>11. \A i \in DOMAIN p.main :
         \/ i = 1 /\ p.main[i].op = "socket" /\ p.main[i].on = "fd"
         \/ i \in 2 .. Many + 1 /\ p.main[i].op = "create" /\ p.main[i].num = i - 1
            /\ p.main[i].on = "fd"
         \/ i = Many + 2 /\ p.main[i].op = "close" /\ p.main[i].on = "fd"
         \/ i \in Many + 3 .. 2 * Many + 2 /\ p.main[i].op = "join"
            /\ p.main[i].num = i - Many - 2
  <2> SUFFICES ASSUME NEW i \in DOMAIN p.main
               PROVE  \/ i = 1 /\ p.main[i].op = "socket" /\ p.main[i].on = "fd"
                      \/ i \in 2 .. Many + 1 /\ p.main[i].op = "create"
                         /\ p.main[i].num = i - 1 /\ p.main[i].on = "fd"
                      \/ i = Many + 2 /\ p.main[i].op = "close" /\ p.main[i].on = "fd"
                      \/ i \in Many + 3 .. 2 * Many + 2 /\ p.main[i].op = "join"
                         /\ p.main[i].num = i - Many - 2
    OBVIOUS
  <2>1. i = 1 \/ i \in 2 .. Many + 1 \/ i = Many + 2 \/ i \in Many + 3 .. 2 * Many + 2
    <3>1. DOMAIN p.main = 1 .. 2 * Many + 2
      BY <1>9
    <3> QED
      BY <3>1, ManyAssumption
  <2> QED
    BY <1>9, <2>1
<1>12. Typed(p)
  <2>1. ASSUME NEW i \in DOMAIN p.main PROVE MainCall(p, p.main[i])
    BY <1>10, <1>11, ManyAssumption DEF MainCall, ThreadCall
  <2>2. ASSUME NEW t \in DOMAIN p.threads
        PROVE  IsScript(p.threads[t])
               /\ \A i \in DOMAIN p.threads[t] : ThreadCall(p.threads[t][i])
    BY <1>10 DEF IsScript, ThreadCall
  <2> QED
    BY <1>10, <2>1, <2>2, ManyAssumption DEF Typed, IsScript
<1>13. Forks(p)
  <2>1. ASSUME NEW i \in DOMAIN p.main, NEW j \in DOMAIN p.main, NEW u \in DOMAIN p.threads,
               Creates(p, i, u), Creates(p, j, u)
        PROVE  i = j
    <3>1. ASSUME NEW k \in DOMAIN p.main, Creates(p, k, u)
          PROVE  (k \in 2 .. Many + 1 /\ u = k - 1)
      BY <3>1, <1>11, ManyAssumption DEF Creates
    <3> QED
      BY <2>1, <3>1, ManyAssumption
  <2>2. \A i \in DOMAIN p.main : p.main[i].op # "goto"
    BY <1>10, <1>11, ManyAssumption
  <2> QED
    BY <1>10, <2>1, <2>2 DEF Forks
<1>14. Harmless(p)
  <2>1. Sequential(p)
    <3>1. ASSUME NEW j \in DOMAIN p.main, p.main[j].op \in Opening PROVE j = 1
      BY <3>1, <1>11
    <3> QED
      BY <1>10, <3>1 DEF Sequential
  <2>2. SocketsOnly(p)
    BY <1>10, <1>11, ManyAssumption DEF SocketsOnly
  <2>3. NoAccept(p)
    BY <1>10, <1>11, ManyAssumption DEF NoAccept, SocketsOnly
  <2> QED
    BY <2>1, <2>2, <2>3 DEF Harmless
<1>15. NullsKept(p)
  BY <1>10, <1>11, ManyAssumption DEF NullsKept
<1>16. ClosesOne(p)
  <2>1. \A u \in DOMAIN p.threads : \A n \in DOMAIN p.threads[u] :
          p.threads[u][n].op \notin Opening /\ p.threads[u][n].on = "arg"
    BY <1>10, <1>11
  <2>2. ASSUME NEW i \in DOMAIN p.main
        PROVE  /\ p.main[i].op \in Opening => i = 1
               /\ p.main[i].op = "create" => p.main[i].on = "fd"
               /\ p.main[i].op # "goto"
               /\ p.main[i].op \in Blocking \cup {"close"} => p.main[i].on = "fd"
    BY <1>10, <1>11, ManyAssumption
  <2>3. ASSUME NEW i \in DOMAIN p.main, p.main[i].op \in Blocking \cup {"join"}
        PROVE  Many + 2 \in 1 .. i - 1
    BY <1>10, <1>11, <2>3, ManyAssumption
  <2>4. p.main[Many + 2].op = "close"
    BY <1>9
  <2> QED
    BY <2>1, <2>2, <2>3, <2>4 DEF ClosesOne
<1>17. Good(p)
  BY <1>12, <1>13, <1>14, <1>15 DEF Good
<1> QED
  BY <1>16, <1>17 DEF p

\* do_read_read_read_shutdown opens its descriptors before it creates a thread.
LEMMA Good_do_read_read_read_shutdown == Good(do_read_read_read_shutdown)
<1> DEFINE p == do_read_read_read_shutdown
             s1 == <<Do("socket", "fd")>>
             s2 == CreateAll("fd")
             s3 == <<Do("shutdown", "fd")>>
             s4 == JoinAll
             s5 == <<Do("close", "fd")>>
<1>1. /\ s1 \in Seq(Calls) /\ Len(s1) = 1 /\ s2 \in Seq(Calls) /\ Len(s2) = Many
      /\ s3 \in Seq(Calls) /\ Len(s3) = 1 /\ s4 \in Seq(Calls) /\ Len(s4) = Many
      /\ s5 \in Seq(Calls) /\ Len(s5) = 1
  <2>1. /\ Do("socket", "fd") \in Calls /\ Do("shutdown", "fd") \in Calls
        /\ Do("close", "fd") \in Calls
    BY CallsAreCalls
  <2> QED
    BY <2>1, Loops
<1>2. p.main = s1 \o s2 \o s3 \o s4 \o s5
  BY ProgramParts DEF do_read_read_read_shutdown
<1>3. /\ p.byRef = {} /\ DOMAIN p.threads = 1 .. Many
      /\ \A t \in 1 .. Many : p.threads[t] = thread_read
  <2>1. p.byRef = {} /\ p.threads = Each(thread_read)
    BY ProgramParts DEF do_read_read_read_shutdown
  <2> QED
    BY <2>1 DEF Each
<1>4. /\ s1[1] = Do("socket", "fd") /\ \A i \in 1 .. Many : s2[i] = Create(i, "fd")
      /\ s3[1] = Do("shutdown", "fd") /\ \A i \in 1 .. Many : s4[i] = Join(i)
      /\ s5[1] = Do("close", "fd")
  BY DEF CreateAll, JoinAll
<1> HIDE DEF s1, s2, s3, s4, s5
<1> DEFINE m2 == s1 \o s2
<1>m2. IsCat(m2, s1, s2)
  BY <1>1, Cat
<1> HIDE DEF m2
<1> DEFINE m3 == m2 \o s3
<1>m3. IsCat(m3, m2, s3)
  BY <1>1, <1>m2, Cat DEF IsCat
<1> HIDE DEF m3
<1> DEFINE m4 == m3 \o s4
<1>m4. IsCat(m4, m3, s4)
  BY <1>1, <1>m3, Cat DEF IsCat
<1> HIDE DEF m4
<1> DEFINE m5 == m4 \o s5
<1>m5. IsCat(m5, m4, s5)
  BY <1>1, <1>m4, Cat DEF IsCat
<1> HIDE DEF m5
<1>5. p.main = m5
  BY <1>2 DEF m2, m3, m4, m5
<1>6. Len(p.main) = 2 * Many + 3 /\ DOMAIN p.main = 1 .. Len(p.main)
  <2>1. Many \in Nat
    BY ManyAssumption
  <2>2. Len(m2) = Many + 1
    BY <1>1, <1>m2, <2>1 DEF IsCat
  <2>3. Len(m3) = Many + 2
    BY <1>1, <1>m3, <2>1, <2>2 DEF IsCat
  <2>4. Len(m4) = 2 * Many + 2
    BY <1>1, <1>m4, <2>1, <2>3 DEF IsCat
  <2>5. Len(m5) = 2 * Many + 3
    BY <1>1, <1>m5, <2>1, <2>4 DEF IsCat
  <2> QED
    BY <1>5, <1>m5, <2>5 DEF IsCat
<1>7. /\ p.main[1] = s1[1] /\ \A i \in 2 .. Many + 1 : p.main[i] = s2[i - 1]
      /\ p.main[Many + 2] = s3[1]
      /\ \A i \in Many + 3 .. 2 * Many + 2 : p.main[i] = s4[i - (Many + 2)]
      /\ p.main[2 * Many + 3] = s5[1]
  <2> HIDE DEF p
  <2>1. /\ p.main = m5 /\ Len(s1) = 1 /\ Len(m2) = Many + 1 /\ Len(m3) = Many + 2
        /\ Len(m4) = 2 * Many + 2 /\ Len(s2) = Many /\ Len(s3) = 1 /\ Len(s4) = Many
        /\ Len(s5) = 1 /\ Many \in Nat
    BY <1>1, <1>5, <1>m2, <1>m3, <1>m4, ManyAssumption DEF IsCat
  <2>2. \A i \in 1 .. 2 * Many + 2 : p.main[i] = m4[i]
    BY <2>1, <1>m5 DEF IsCat
  <2>3. p.main[2 * Many + 3] = s5[1]
    BY <2>1, <1>m5 DEF IsCat
  <2>4. \A i \in 1 .. Many + 2 : m4[i] = m3[i]
    BY <2>1, <1>m4 DEF IsCat
  <2>5. \A i \in Many + 3 .. 2 * Many + 2 : m4[i] = s4[i - (Many + 2)]
    BY <2>1, <1>m4 DEF IsCat
  <2>6. \A i \in 1 .. Many + 1 : m3[i] = m2[i]
    BY <2>1, <1>m3 DEF IsCat
  <2>7. m3[Many + 2] = s3[1]
    <3> DEFINE k == Many + 2
    <3>1. k \in Len(m2) + 1 .. Len(m2) + Len(s3) /\ k - Len(m2) = 1
      BY <2>1
    <3>2. \A i \in Len(m2) + 1 .. Len(m2) + Len(s3) : m3[i] = s3[i - Len(m2)]
      BY <1>m3 DEF IsCat
    <3> HIDE DEF k
    <3>3. m3[k] = s3[1]
      BY <3>1, <3>2
    <3> QED
      BY <3>3 DEF k
  <2>8. m2[1] = s1[1] /\ \A i \in 2 .. Many + 1 : m2[i] = s2[i - 1]
    BY <2>1, <1>m2 DEF IsCat
  <2>9. p.main[1] = s1[1] /\ \A i \in 2 .. Many + 1 : p.main[i] = s2[i - 1]
    BY <2>1, <2>2, <2>4, <2>6, <2>8
  <2>10. p.main[Many + 2] = s3[1]
    BY <2>1, <2>2, <2>4, <2>7
  <2>11. \A i \in Many + 3 .. 2 * Many + 2 : p.main[i] = s4[i - (Many + 2)]
    BY <2>1, <2>2, <2>5
  <2> QED
    BY <2>3, <2>9, <2>10, <2>11
<1> HIDE DEF p
<1>8. /\ Len(p.main) \in Nat /\ DOMAIN p.main = 1 .. Len(p.main) /\ Len(p.main) = 2 * Many + 3
      /\ p.main[1] = Do("socket", "fd")
      /\ \A i \in 2 .. Many + 1 : p.main[i] = Create(i - 1, "fd")
      /\ p.main[Many + 2] = Do("shutdown", "fd")
      /\ \A i \in Many + 3 .. 2 * Many + 2 : p.main[i] = Join(i - Many - 2)
      /\ p.main[2 * Many + 3] = Do("close", "fd")
  BY <1>4, <1>5, <1>6, <1>7, ManyAssumption
<1>9. /\ p.byRef = {} /\ DOMAIN p.threads = 1 .. Many
      /\ \A t \in 1 .. Many :
           /\ Len(p.threads[t]) = 1 /\ DOMAIN p.threads[t] = {1} /\ p.threads[t][1].op = "read"
           /\ p.threads[t][1].on = "arg"
      /\ Len(p.main) \in Nat /\ DOMAIN p.main = 1 .. Len(p.main) /\ Len(p.main) = 2 * Many + 3
      /\ p.main[1].op = "socket" /\ p.main[1].on = "fd"
      /\ \A i \in 2 .. Many + 1 :
           /\ p.main[i].op = "create" /\ p.main[i].num = i - 1 /\ p.main[i].on = "fd"
      /\ p.main[Many + 2].op = "shutdown" /\ p.main[Many + 2].on = "fd"
      /\ \A i \in Many + 3 .. 2 * Many + 2 :
           /\ p.main[i].op = "join" /\ p.main[i].num = i - Many - 2
      /\ p.main[2 * Many + 3].op = "close" /\ p.main[2 * Many + 3].on = "fd"
  <2>1. /\ p.byRef = {} /\ DOMAIN p.threads = 1 .. Many
        /\ \A t \in 1 .. Many :
             /\ Len(p.threads[t]) = 1 /\ DOMAIN p.threads[t] = {1}
             /\ p.threads[t][1].op = "read" /\ p.threads[t][1].on = "arg"
    BY <1>3, CallParts, ThreadScripts
  <2>2. /\ Len(p.main) \in Nat /\ DOMAIN p.main = 1 .. Len(p.main) /\ Len(p.main) = 2 * Many + 3
        /\ p.main[1].op = "socket" /\ p.main[1].on = "fd"
        /\ \A i \in 2 .. Many + 1 :
             /\ p.main[i].op = "create" /\ p.main[i].num = i - 1 /\ p.main[i].on = "fd"
        /\ p.main[Many + 2].op = "shutdown" /\ p.main[Many + 2].on = "fd"
        /\ \A i \in Many + 3 .. 2 * Many + 2 :
             /\ p.main[i].op = "join" /\ p.main[i].num = i - Many - 2
        /\ p.main[2 * Many + 3].op = "close" /\ p.main[2 * Many + 3].on = "fd"
    BY <1>8, CallParts
  <2> QED
    BY <2>1, <2>2
<1> HIDE DEF p
<1>10. /\ p.byRef = {} /\ DOMAIN p.threads = 1 .. Many
       /\ \A t \in 1 .. Many :
            /\ Len(p.threads[t]) = 1 /\ DOMAIN p.threads[t] = {1} /\ p.threads[t][1].op = "read"
            /\ p.threads[t][1].on = "arg"
       /\ Len(p.main) \in Nat /\ DOMAIN p.main = 1 .. Len(p.main)
  BY <1>9
<1>11. \A i \in DOMAIN p.main :
         \/ i = 1 /\ p.main[i].op = "socket" /\ p.main[i].on = "fd"
         \/ i \in 2 .. Many + 1 /\ p.main[i].op = "create" /\ p.main[i].num = i - 1
            /\ p.main[i].on = "fd"
         \/ i = Many + 2 /\ p.main[i].op = "shutdown" /\ p.main[i].on = "fd"
         \/ i \in Many + 3 .. 2 * Many + 2 /\ p.main[i].op = "join"
            /\ p.main[i].num = i - Many - 2
         \/ i = 2 * Many + 3 /\ p.main[i].op = "close" /\ p.main[i].on = "fd"
  <2> SUFFICES ASSUME NEW i \in DOMAIN p.main
               PROVE  \/ i = 1 /\ p.main[i].op = "socket" /\ p.main[i].on = "fd"
                      \/ i \in 2 .. Many + 1 /\ p.main[i].op = "create"
                         /\ p.main[i].num = i - 1 /\ p.main[i].on = "fd"
                      \/ i = Many + 2 /\ p.main[i].op = "shutdown" /\ p.main[i].on = "fd"
                      \/ i \in Many + 3 .. 2 * Many + 2 /\ p.main[i].op = "join"
                         /\ p.main[i].num = i - Many - 2
                      \/ i = 2 * Many + 3 /\ p.main[i].op = "close" /\ p.main[i].on = "fd"
    OBVIOUS
  <2>1. i = 1 \/ i \in 2 .. Many + 1 \/ i = Many + 2 \/ i \in Many + 3 .. 2 * Many + 2
        \/ i = 2 * Many + 3
    <3>1. DOMAIN p.main = 1 .. 2 * Many + 3
      BY <1>9
    <3> QED
      BY <3>1, ManyAssumption
  <2> QED
    BY <1>9, <2>1
<1>12. Typed(p)
  <2>1. ASSUME NEW i \in DOMAIN p.main PROVE MainCall(p, p.main[i])
    BY <1>10, <1>11, ManyAssumption DEF MainCall, ThreadCall
  <2>2. ASSUME NEW t \in DOMAIN p.threads
        PROVE  IsScript(p.threads[t])
               /\ \A i \in DOMAIN p.threads[t] : ThreadCall(p.threads[t][i])
    BY <1>10 DEF IsScript, ThreadCall
  <2> QED
    BY <1>10, <2>1, <2>2, ManyAssumption DEF Typed, IsScript
<1>13. Forks(p)
  <2>1. ASSUME NEW i \in DOMAIN p.main, NEW j \in DOMAIN p.main, NEW u \in DOMAIN p.threads,
               Creates(p, i, u), Creates(p, j, u)
        PROVE  i = j
    <3>1. ASSUME NEW k \in DOMAIN p.main, Creates(p, k, u)
          PROVE  (k \in 2 .. Many + 1 /\ u = k - 1)
      BY <3>1, <1>11, ManyAssumption DEF Creates
    <3> QED
      BY <2>1, <3>1, ManyAssumption
  <2>2. \A i \in DOMAIN p.main : p.main[i].op # "goto"
    BY <1>10, <1>11, ManyAssumption
  <2> QED
    BY <1>10, <2>1, <2>2 DEF Forks
<1>14. Harmless(p)
  <2>1. Sequential(p)
    <3>1. ASSUME NEW j \in DOMAIN p.main, p.main[j].op \in Opening PROVE j = 1
      BY <3>1, <1>11
    <3> QED
      BY <1>10, <3>1 DEF Sequential
  <2>2. SocketsOnly(p)
    BY <1>10, <1>11, ManyAssumption DEF SocketsOnly
  <2>3. NoAccept(p)
    BY <1>10, <1>11, ManyAssumption DEF NoAccept, SocketsOnly
  <2> QED
    BY <2>1, <2>2, <2>3 DEF Harmless
<1>15. NullsKept(p)
  BY <1>10, <1>11, ManyAssumption DEF NullsKept
<1> QED
  BY <1>12, <1>13, <1>14, <1>15 DEF p, Good

\* do_pollin_pollin_write opens its descriptors before it creates a thread.
LEMMA Good_do_pollin_pollin_write == Good(do_pollin_pollin_write)
<1> DEFINE p == do_pollin_pollin_write
             s1 == <<Must("pipe", "fd"), Create(1, "fd"), Create(2, "fd")>>
             s2 == [i \in 1 .. Many |-> Do("write", "fd2")]
             s3 == <<Join(1), Join(2)>>
<1>1. /\ s1 \in Seq(Calls) /\ Len(s1) = 3 /\ s2 \in Seq(Calls) /\ Len(s2) = Many
      /\ s3 \in Seq(Calls) /\ Len(s3) = 2
  <2>1. /\ Must("pipe", "fd") \in Calls /\ Create(1, "fd") \in Calls
        /\ Create(2, "fd") \in Calls /\ Join(1) \in Calls /\ Join(2) \in Calls
    BY CallsAreCalls
  <2> QED
    BY <2>1, Loops
<1>2. p.main = s1 \o s2 \o s3
  BY ProgramParts DEF do_pollin_pollin_write
<1>3. /\ p.byRef = {} /\ DOMAIN p.threads = {1, 2} /\ p.threads[1] = thread_pollin
      /\ p.threads[2] = thread_pollin
  BY ProgramParts DEF do_pollin_pollin_write
<1>4. /\ s1[1] = Must("pipe", "fd") /\ s1[2] = Create(1, "fd") /\ s1[3] = Create(2, "fd")
      /\ \A n \in 1 .. Many : s2[n] = Do("write", "fd2")
      /\ s3[1] = Join(1) /\ s3[2] = Join(2)
  BY DEF CreateAll, JoinAll
<1> HIDE DEF s1, s2, s3
<1> DEFINE m2 == s1 \o s2
<1>m2. IsCat(m2, s1, s2)
  BY <1>1, Cat
<1> HIDE DEF m2
<1> DEFINE m3 == m2 \o s3
<1>m3. IsCat(m3, m2, s3)
  BY <1>1, <1>m2, Cat DEF IsCat
<1> HIDE DEF m3
<1>5. p.main = m3
  BY <1>2 DEF m2, m3
<1>6. Len(p.main) = Many + 5 /\ DOMAIN p.main = 1 .. Len(p.main)
  <2>1. Many \in Nat
    BY ManyAssumption
  <2>2. Len(m2) = Many + 3
    BY <1>1, <1>m2, <2>1 DEF IsCat
  <2>3. Len(m3) = Many + 5
    BY <1>1, <1>m3, <2>1, <2>2 DEF IsCat
  <2> QED
    BY <1>5, <1>m3, <2>3 DEF IsCat
<1>7. /\ p.main[1] = s1[1] /\ p.main[2] = s1[2] /\ p.main[3] = s1[3]
      /\ \A i \in 4 .. Many + 3 : p.main[i] = s2[i - 3]
      /\ p.main[Many + 4] = s3[1] /\ p.main[Many + 5] = s3[2]
  <2> HIDE DEF p
  <2> QED
    BY <1>1, <1>5, <1>m2, <1>m3, ManyAssumption DEF IsCat
<1> HIDE DEF p
<1>8. /\ Len(p.main) \in Nat /\ DOMAIN p.main = 1 .. Len(p.main) /\ Len(p.main) = Many + 5
      /\ p.main[1] = Must("pipe", "fd") /\ p.main[2] = Create(1, "fd")
      /\ p.main[3] = Create(2, "fd") /\ \A i \in 4 .. Many + 3 : p.main[i] = Do("write", "fd2")
      /\ p.main[Many + 4] = Join(1) /\ p.main[Many + 5] = Join(2)
  BY <1>4, <1>5, <1>6, <1>7, ManyAssumption
<1>9. /\ p.byRef = {} /\ DOMAIN p.threads = {1, 2} /\ Len(p.threads[1]) = 1
      /\ DOMAIN p.threads[1] = {1} /\ p.threads[1][1].op = "pollin"
      /\ p.threads[1][1].on = "arg" /\ Len(p.threads[2]) = 1 /\ DOMAIN p.threads[2] = {1}
      /\ p.threads[2][1].op = "pollin" /\ p.threads[2][1].on = "arg" /\ Len(p.main) \in Nat
      /\ DOMAIN p.main = 1 .. Len(p.main) /\ Len(p.main) = Many + 5 /\ p.main[1].op = "pipe"
      /\ p.main[1].on = "fd" /\ p.main[2].op = "create" /\ p.main[2].num = 1
      /\ p.main[2].on = "fd" /\ p.main[3].op = "create" /\ p.main[3].num = 2
      /\ p.main[3].on = "fd"
      /\ \A i \in 4 .. Many + 3 : p.main[i].op = "write" /\ p.main[i].on = "fd2"
      /\ p.main[Many + 4].op = "join" /\ p.main[Many + 4].num = 1
      /\ p.main[Many + 5].op = "join" /\ p.main[Many + 5].num = 2
  <2>1. /\ p.byRef = {} /\ DOMAIN p.threads = {1, 2} /\ Len(p.threads[1]) = 1
        /\ DOMAIN p.threads[1] = {1} /\ p.threads[1][1].op = "pollin"
        /\ p.threads[1][1].on = "arg" /\ Len(p.threads[2]) = 1 /\ DOMAIN p.threads[2] = {1}
        /\ p.threads[2][1].op = "pollin" /\ p.threads[2][1].on = "arg"
    BY <1>3, CallParts, ThreadScripts
  <2>2. /\ Len(p.main) \in Nat /\ DOMAIN p.main = 1 .. Len(p.main) /\ Len(p.main) = Many + 5
        /\ p.main[1].op = "pipe" /\ p.main[1].on = "fd" /\ p.main[2].op = "create"
        /\ p.main[2].num = 1 /\ p.main[2].on = "fd" /\ p.main[3].op = "create"
        /\ p.main[3].num = 2 /\ p.main[3].on = "fd"
        /\ \A i \in 4 .. Many + 3 : p.main[i].op = "write" /\ p.main[i].on = "fd2"
        /\ p.main[Many + 4].op = "join" /\ p.main[Many + 4].num = 1
        /\ p.main[Many + 5].op = "join" /\ p.main[Many + 5].num = 2
    BY <1>8, CallParts
  <2> QED
    BY <2>1, <2>2
<1> HIDE DEF p
<1>10. /\ p.byRef = {} /\ DOMAIN p.threads = {1, 2} /\ Len(p.threads[1]) = 1
       /\ DOMAIN p.threads[1] = {1} /\ p.threads[1][1].op = "pollin"
       /\ p.threads[1][1].on = "arg" /\ Len(p.threads[2]) = 1 /\ DOMAIN p.threads[2] = {1}
       /\ p.threads[2][1].op = "pollin" /\ p.threads[2][1].on = "arg" /\ Len(p.main) \in Nat
       /\ DOMAIN p.main = 1 .. Len(p.main)
  BY <1>9
<1>11. \A i \in DOMAIN p.main :
         \/ i = 1 /\ p.main[i].op = "pipe" /\ p.main[i].on = "fd"
         \/ i = 2 /\ p.main[i].op = "create" /\ p.main[i].num = 1 /\ p.main[i].on = "fd"
         \/ i = 3 /\ p.main[i].op = "create" /\ p.main[i].num = 2 /\ p.main[i].on = "fd"
         \/ i \in 4 .. Many + 3 /\ p.main[i].op = "write" /\ p.main[i].on = "fd2"
         \/ i = Many + 4 /\ p.main[i].op = "join" /\ p.main[i].num = 1
         \/ i = Many + 5 /\ p.main[i].op = "join" /\ p.main[i].num = 2
  <2> SUFFICES ASSUME NEW i \in DOMAIN p.main
               PROVE  \/ i = 1 /\ p.main[i].op = "pipe" /\ p.main[i].on = "fd"
                      \/ i = 2 /\ p.main[i].op = "create" /\ p.main[i].num = 1
                         /\ p.main[i].on = "fd"
                      \/ i = 3 /\ p.main[i].op = "create" /\ p.main[i].num = 2
                         /\ p.main[i].on = "fd"
                      \/ i \in 4 .. Many + 3 /\ p.main[i].op = "write" /\ p.main[i].on = "fd2"
                      \/ i = Many + 4 /\ p.main[i].op = "join" /\ p.main[i].num = 1
                      \/ i = Many + 5 /\ p.main[i].op = "join" /\ p.main[i].num = 2
    OBVIOUS
  <2>1. i = 1 \/ i = 2 \/ i = 3 \/ i \in 4 .. Many + 3 \/ i = Many + 4 \/ i = Many + 5
    <3>1. DOMAIN p.main = 1 .. Many + 5
      BY <1>9
    <3> QED
      BY <3>1, ManyAssumption
  <2> QED
    BY <1>9, <2>1
<1>12. Typed(p)
  <2>1. ASSUME NEW i \in DOMAIN p.main PROVE MainCall(p, p.main[i])
    BY <1>10, <1>11, ManyAssumption DEF MainCall, ThreadCall
  <2>2. ASSUME NEW t \in DOMAIN p.threads
        PROVE  IsScript(p.threads[t])
               /\ \A i \in DOMAIN p.threads[t] : ThreadCall(p.threads[t][i])
    BY <1>10 DEF IsScript, ThreadCall
  <2> QED
    BY <1>10, <2>1, <2>2, ManyAssumption DEF Typed, IsScript
<1>13. Forks(p)
  <2>1. ASSUME NEW i \in DOMAIN p.main, NEW j \in DOMAIN p.main, NEW u \in DOMAIN p.threads,
               Creates(p, i, u), Creates(p, j, u)
        PROVE  i = j
    <3>1. ASSUME NEW k \in DOMAIN p.main, Creates(p, k, u)
          PROVE  (k = 2 /\ u = 1) \/ (k = 3 /\ u = 2)
      BY <3>1, <1>11, ManyAssumption DEF Creates
    <3> QED
      BY <2>1, <3>1, ManyAssumption
  <2>2. \A i \in DOMAIN p.main : p.main[i].op # "goto"
    BY <1>10, <1>11, ManyAssumption
  <2> QED
    BY <1>10, <2>1, <2>2 DEF Forks
<1>14. Harmless(p)
  <2>1. Sequential(p)
    <3>1. ASSUME NEW j \in DOMAIN p.main, p.main[j].op \in Opening PROVE j = 1
      BY <3>1, <1>11
    <3> QED
      BY <1>10, <3>1 DEF Sequential
  <2>2. PairsOnly(p)
    BY <1>10, <1>11, ManyAssumption DEF PairsOnly
  <2>3. NoAccept(p)
    BY <1>10, <1>11, ManyAssumption DEF NoAccept, SocketsOnly
  <2> QED
    BY <2>1, <2>2, <2>3 DEF Harmless
<1>15. NullsKept(p)
  BY <1>10, <1>11, ManyAssumption DEF NullsKept
<1> QED
  BY <1>12, <1>13, <1>14, <1>15 DEF p, Good

\* do_pollin_pollin_pollin_write_pollin_pollin_pollin
\* opens its descriptors before it creates a thread.
LEMMA Good_do_pollin_pollin_pollin_write_pollin_pollin_pollin ==
    Good(do_pollin_pollin_pollin_write_pollin_pollin_pollin)
<1> DEFINE p == do_pollin_pollin_pollin_write_pollin_pollin_pollin
             s1 == <<Must("pipe", "fd")>>
             s2 == CreateAll("fd")
             s3 == <<Do("write", "fd2")>>
             s4 == JoinAll
             s5 == <<Do("close", "fd"), Do("close", "fd2")>>
<1>1. /\ s1 \in Seq(Calls) /\ Len(s1) = 1 /\ s2 \in Seq(Calls) /\ Len(s2) = Many
      /\ s3 \in Seq(Calls) /\ Len(s3) = 1 /\ s4 \in Seq(Calls) /\ Len(s4) = Many
      /\ s5 \in Seq(Calls) /\ Len(s5) = 2
  <2>1. /\ Must("pipe", "fd") \in Calls /\ Do("write", "fd2") \in Calls
        /\ Do("close", "fd") \in Calls /\ Do("close", "fd2") \in Calls
    BY CallsAreCalls
  <2> QED
    BY <2>1, Loops
<1>2. p.main = s1 \o s2 \o s3 \o s4 \o s5
  BY ProgramParts DEF do_pollin_pollin_pollin_write_pollin_pollin_pollin
<1>3. /\ p.byRef = {} /\ DOMAIN p.threads = 1 .. Many
      /\ \A t \in 1 .. Many : p.threads[t] = thread_pollin_rand_delay
  <2>1. p.byRef = {} /\ p.threads = Each(thread_pollin_rand_delay)
    BY ProgramParts DEF do_pollin_pollin_pollin_write_pollin_pollin_pollin
  <2> QED
    BY <2>1 DEF Each
<1>4. /\ s1[1] = Must("pipe", "fd") /\ \A i \in 1 .. Many : s2[i] = Create(i, "fd")
      /\ s3[1] = Do("write", "fd2") /\ \A i \in 1 .. Many : s4[i] = Join(i)
      /\ s5[1] = Do("close", "fd") /\ s5[2] = Do("close", "fd2")
  BY DEF CreateAll, JoinAll
<1> HIDE DEF s1, s2, s3, s4, s5
<1> DEFINE m2 == s1 \o s2
<1>m2. IsCat(m2, s1, s2)
  BY <1>1, Cat
<1> HIDE DEF m2
<1> DEFINE m3 == m2 \o s3
<1>m3. IsCat(m3, m2, s3)
  BY <1>1, <1>m2, Cat DEF IsCat
<1> HIDE DEF m3
<1> DEFINE m4 == m3 \o s4
<1>m4. IsCat(m4, m3, s4)
  BY <1>1, <1>m3, Cat DEF IsCat
<1> HIDE DEF m4
<1> DEFINE m5 == m4 \o s5
<1>m5. IsCat(m5, m4, s5)
  BY <1>1, <1>m4, Cat DEF IsCat
<1> HIDE DEF m5
<1>5. p.main = m5
  BY <1>2 DEF m2, m3, m4, m5
<1>6. Len(p.main) = 2 * Many + 4 /\ DOMAIN p.main = 1 .. Len(p.main)
  <2>1. Many \in Nat
    BY ManyAssumption
  <2>2. Len(m2) = Many + 1
    BY <1>1, <1>m2, <2>1 DEF IsCat
  <2>3. Len(m3) = Many + 2
    BY <1>1, <1>m3, <2>1, <2>2 DEF IsCat
  <2>4. Len(m4) = 2 * Many + 2
    BY <1>1, <1>m4, <2>1, <2>3 DEF IsCat
  <2>5. Len(m5) = 2 * Many + 4
    BY <1>1, <1>m5, <2>1, <2>4 DEF IsCat
  <2> QED
    BY <1>5, <1>m5, <2>5 DEF IsCat
<1>7. /\ p.main[1] = s1[1] /\ \A i \in 2 .. Many + 1 : p.main[i] = s2[i - 1]
      /\ p.main[Many + 2] = s3[1]
      /\ \A i \in Many + 3 .. 2 * Many + 2 : p.main[i] = s4[i - (Many + 2)]
      /\ p.main[2 * Many + 3] = s5[1] /\ p.main[2 * Many + 4] = s5[2]
  <2> HIDE DEF p
  <2> QED
    BY <1>1, <1>5, <1>m2, <1>m3, <1>m4, <1>m5, ManyAssumption DEF IsCat
<1> HIDE DEF p
<1>8. /\ Len(p.main) \in Nat /\ DOMAIN p.main = 1 .. Len(p.main) /\ Len(p.main) = 2 * Many + 4
      /\ p.main[1] = Must("pipe", "fd")
      /\ \A i \in 2 .. Many + 1 : p.main[i] = Create(i - 1, "fd")
      /\ p.main[Many + 2] = Do("write", "fd2")
      /\ \A i \in Many + 3 .. 2 * Many + 2 : p.main[i] = Join(i - Many - 2)
      /\ p.main[2 * Many + 3] = Do("close", "fd") /\ p.main[2 * Many + 4] = Do("close", "fd2")
  BY <1>4, <1>5, <1>6, <1>7, ManyAssumption
<1>9. /\ p.byRef = {} /\ DOMAIN p.threads = 1 .. Many
      /\ \A t \in 1 .. Many :
           /\ Len(p.threads[t]) = 1 /\ DOMAIN p.threads[t] = {1}
           /\ p.threads[t][1].op = "pollin" /\ p.threads[t][1].on = "arg"
      /\ Len(p.main) \in Nat /\ DOMAIN p.main = 1 .. Len(p.main) /\ Len(p.main) = 2 * Many + 4
      /\ p.main[1].op = "pipe" /\ p.main[1].on = "fd"
      /\ \A i \in 2 .. Many + 1 :
           /\ p.main[i].op = "create" /\ p.main[i].num = i - 1 /\ p.main[i].on = "fd"
      /\ p.main[Many + 2].op = "write" /\ p.main[Many + 2].on = "fd2"
      /\ \A i \in Many + 3 .. 2 * Many + 2 :
           /\ p.main[i].op = "join" /\ p.main[i].num = i - Many - 2
      /\ p.main[2 * Many + 3].op = "close" /\ p.main[2 * Many + 3].on = "fd"
      /\ p.main[2 * Many + 4].op = "close" /\ p.main[2 * Many + 4].on = "fd2"
  <2>1. /\ p.byRef = {} /\ DOMAIN p.threads = 1 .. Many
        /\ \A t \in 1 .. Many :
             /\ Len(p.threads[t]) = 1 /\ DOMAIN p.threads[t] = {1}
             /\ p.threads[t][1].op = "pollin" /\ p.threads[t][1].on = "arg"
    BY <1>3, CallParts, ThreadScripts
  <2>2. /\ Len(p.main) \in Nat /\ DOMAIN p.main = 1 .. Len(p.main) /\ Len(p.main) = 2 * Many + 4
        /\ p.main[1].op = "pipe" /\ p.main[1].on = "fd"
        /\ \A i \in 2 .. Many + 1 :
             /\ p.main[i].op = "create" /\ p.main[i].num = i - 1 /\ p.main[i].on = "fd"
        /\ p.main[Many + 2].op = "write" /\ p.main[Many + 2].on = "fd2"
        /\ \A i \in Many + 3 .. 2 * Many + 2 :
             /\ p.main[i].op = "join" /\ p.main[i].num = i - Many - 2
        /\ p.main[2 * Many + 3].op = "close" /\ p.main[2 * Many + 3].on = "fd"
        /\ p.main[2 * Many + 4].op = "close" /\ p.main[2 * Many + 4].on = "fd2"
    BY <1>8, CallParts
  <2> QED
    BY <2>1, <2>2
<1> HIDE DEF p
<1>10. /\ p.byRef = {} /\ DOMAIN p.threads = 1 .. Many
       /\ \A t \in 1 .. Many :
            /\ Len(p.threads[t]) = 1 /\ DOMAIN p.threads[t] = {1}
            /\ p.threads[t][1].op = "pollin" /\ p.threads[t][1].on = "arg"
       /\ Len(p.main) \in Nat /\ DOMAIN p.main = 1 .. Len(p.main)
  BY <1>9
<1>11. \A i \in DOMAIN p.main :
         \/ i = 1 /\ p.main[i].op = "pipe" /\ p.main[i].on = "fd"
         \/ i \in 2 .. Many + 1 /\ p.main[i].op = "create" /\ p.main[i].num = i - 1
            /\ p.main[i].on = "fd"
         \/ i = Many + 2 /\ p.main[i].op = "write" /\ p.main[i].on = "fd2"
         \/ i \in Many + 3 .. 2 * Many + 2 /\ p.main[i].op = "join"
            /\ p.main[i].num = i - Many - 2
         \/ i = 2 * Many + 3 /\ p.main[i].op = "close" /\ p.main[i].on = "fd"
         \/ i = 2 * Many + 4 /\ p.main[i].op = "close" /\ p.main[i].on = "fd2"
  <2> SUFFICES ASSUME NEW i \in DOMAIN p.main
               PROVE  \/ i = 1 /\ p.main[i].op = "pipe" /\ p.main[i].on = "fd"
                      \/ i \in 2 .. Many + 1 /\ p.main[i].op = "create"
                         /\ p.main[i].num = i - 1 /\ p.main[i].on = "fd"
                      \/ i = Many + 2 /\ p.main[i].op = "write" /\ p.main[i].on = "fd2"
                      \/ i \in Many + 3 .. 2 * Many + 2 /\ p.main[i].op = "join"
                         /\ p.main[i].num = i - Many - 2
                      \/ i = 2 * Many + 3 /\ p.main[i].op = "close" /\ p.main[i].on = "fd"
                      \/ i = 2 * Many + 4 /\ p.main[i].op = "close" /\ p.main[i].on = "fd2"
    OBVIOUS
  <2>1. i = 1 \/ i \in 2 .. Many + 1 \/ i = Many + 2 \/ i \in Many + 3 .. 2 * Many + 2
        \/ i = 2 * Many + 3 \/ i = 2 * Many + 4
    <3>1. DOMAIN p.main = 1 .. 2 * Many + 4
      BY <1>9
    <3> QED
      BY <3>1, ManyAssumption
  <2> QED
    BY <1>9, <2>1
<1>12. Typed(p)
  <2>1. ASSUME NEW i \in DOMAIN p.main PROVE MainCall(p, p.main[i])
    BY <1>10, <1>11, ManyAssumption DEF MainCall, ThreadCall
  <2>2. ASSUME NEW t \in DOMAIN p.threads
        PROVE  IsScript(p.threads[t])
               /\ \A i \in DOMAIN p.threads[t] : ThreadCall(p.threads[t][i])
    BY <1>10 DEF IsScript, ThreadCall
  <2> QED
    BY <1>10, <2>1, <2>2, ManyAssumption DEF Typed, IsScript
<1>13. Forks(p)
  <2>1. ASSUME NEW i \in DOMAIN p.main, NEW j \in DOMAIN p.main, NEW u \in DOMAIN p.threads,
               Creates(p, i, u), Creates(p, j, u)
        PROVE  i = j
    <3>1. ASSUME NEW k \in DOMAIN p.main, Creates(p, k, u)
          PROVE  (k \in 2 .. Many + 1 /\ u = k - 1)
      BY <3>1, <1>11, ManyAssumption DEF Creates
    <3> QED
      BY <2>1, <3>1, ManyAssumption
  <2>2. \A i \in DOMAIN p.main : p.main[i].op # "goto"
    BY <1>10, <1>11, ManyAssumption
  <2> QED
    BY <1>10, <2>1, <2>2 DEF Forks
<1>14. Harmless(p)
  <2>1. Sequential(p)
    <3>1. ASSUME NEW j \in DOMAIN p.main, p.main[j].op \in Opening PROVE j = 1
      BY <3>1, <1>11
    <3> QED
      BY <1>10, <3>1 DEF Sequential
  <2>2. PairsOnly(p)
    BY <1>10, <1>11, ManyAssumption DEF PairsOnly
  <2>3. NoAccept(p)
    BY <1>10, <1>11, ManyAssumption DEF NoAccept, SocketsOnly
  <2> QED
    BY <2>1, <2>2, <2>3 DEF Harmless
<1>15. NullsKept(p)
  BY <1>10, <1>11, ManyAssumption DEF NullsKept
<1> QED
  BY <1>12, <1>13, <1>14, <1>15 DEF p, Good

\* do_close_poll_poll_poll opens its descriptors before it creates a thread.
LEMMA Good_do_close_poll_poll_poll == Good(do_close_poll_poll_poll)
<1> DEFINE p == do_close_poll_poll_poll
             s1 == <<Must("pipe", "fd"), Do("close", "fd2")>>
             s2 == CreateAll("fd")
             s3 == JoinAll
<1>1. /\ s1 \in Seq(Calls) /\ Len(s1) = 2 /\ s2 \in Seq(Calls) /\ Len(s2) = Many
      /\ s3 \in Seq(Calls) /\ Len(s3) = Many
  <2>1. /\ Must("pipe", "fd") \in Calls /\ Do("close", "fd2") \in Calls
    BY CallsAreCalls
  <2> QED
    BY <2>1, Loops
<1>2. p.main = s1 \o s2 \o s3
  BY ProgramParts DEF do_close_poll_poll_poll
<1>3. /\ p.byRef = {} /\ DOMAIN p.threads = 1 .. Many
      /\ \A t \in 1 .. Many : p.threads[t] = thread_poll
  <2>1. p.byRef = {} /\ p.threads = Each(thread_poll)
    BY ProgramParts DEF do_close_poll_poll_poll
  <2> QED
    BY <2>1 DEF Each
<1>4. /\ s1[1] = Must("pipe", "fd") /\ s1[2] = Do("close", "fd2")
      /\ \A i \in 1 .. Many : s2[i] = Create(i, "fd")
      /\ \A i \in 1 .. Many : s3[i] = Join(i)
  BY DEF CreateAll, JoinAll
<1> HIDE DEF s1, s2, s3
<1> DEFINE m2 == s1 \o s2
<1>m2. IsCat(m2, s1, s2)
  BY <1>1, Cat
<1> HIDE DEF m2
<1> DEFINE m3 == m2 \o s3
<1>m3. IsCat(m3, m2, s3)
  BY <1>1, <1>m2, Cat DEF IsCat
<1> HIDE DEF m3
<1>5. p.main = m3
  BY <1>2 DEF m2, m3
<1>6. Len(p.main) = 2 * Many + 2 /\ DOMAIN p.main = 1 .. Len(p.main)
  <2>1. Many \in Nat
    BY ManyAssumption
  <2>2. Len(m2) = Many + 2
    BY <1>1, <1>m2, <2>1 DEF IsCat
  <2>3. Len(m3) = 2 * Many + 2
    BY <1>1, <1>m3, <2>1, <2>2 DEF IsCat
  <2> QED
    BY <1>5, <1>m3, <2>3 DEF IsCat
<1>7. /\ p.main[1] = s1[1] /\ p.main[2] = s1[2]
      /\ \A i \in 3 .. Many + 2 : p.main[i] = s2[i - 2]
      /\ \A i \in Many + 3 .. 2 * Many + 2 : p.main[i] = s3[i - (Many + 2)]
  <2> HIDE DEF p
  <2> QED
    BY <1>1, <1>5, <1>m2, <1>m3, ManyAssumption DEF IsCat
<1> HIDE DEF p
<1>8. /\ Len(p.main) \in Nat /\ DOMAIN p.main = 1 .. Len(p.main) /\ Len(p.main) = 2 * Many + 2
      /\ p.main[1] = Must("pipe", "fd") /\ p.main[2] = Do("close", "fd2")
      /\ \A i \in 3 .. Many + 2 : p.main[i] = Create(i - 2, "fd")
      /\ \A i \in Many + 3 .. 2 * Many + 2 : p.main[i] = Join(i - Many - 2)
  BY <1>4, <1>5, <1>6, <1>7, ManyAssumption
<1>9. /\ p.byRef = {} /\ DOMAIN p.threads = 1 .. Many
      /\ \A t \in 1 .. Many :
           /\ Len(p.threads[t]) = 1 /\ DOMAIN p.threads[t] = {1} /\ p.threads[t][1].op = "poll"
           /\ p.threads[t][1].on = "arg"
      /\ Len(p.main) \in Nat /\ DOMAIN p.main = 1 .. Len(p.main) /\ Len(p.main) = 2 * Many + 2
      /\ p.main[1].op = "pipe" /\ p.main[1].on = "fd" /\ p.main[2].op = "close"
      /\ p.main[2].on = "fd2"
      /\ \A i \in 3 .. Many + 2 :
           /\ p.main[i].op = "create" /\ p.main[i].num = i - 2 /\ p.main[i].on = "fd"
      /\ \A i \in Many + 3 .. 2 * Many + 2 :
           /\ p.main[i].op = "join" /\ p.main[i].num = i - Many - 2
  <2>1. /\ p.byRef = {} /\ DOMAIN p.threads = 1 .. Many
        /\ \A t \in 1 .. Many :
             /\ Len(p.threads[t]) = 1 /\ DOMAIN p.threads[t] = {1}
             /\ p.threads[t][1].op = "poll" /\ p.threads[t][1].on = "arg"
    BY <1>3, CallParts, ThreadScripts
  <2>2. /\ Len(p.main) \in Nat /\ DOMAIN p.main = 1 .. Len(p.main) /\ Len(p.main) = 2 * Many + 2
        /\ p.main[1].op = "pipe" /\ p.main[1].on = "fd" /\ p.main[2].op = "close"
        /\ p.main[2].on = "fd2"
        /\ \A i \in 3 .. Many + 2 :
             /\ p.main[i].op = "create" /\ p.main[i].num = i - 2 /\ p.main[i].on = "fd"
        /\ \A i \in Many + 3 .. 2 * Many + 2 :
             /\ p.main[i].op = "join" /\ p.main[i].num = i - Many - 2
    BY <1>8, CallParts
  <2> QED
    BY <2>1, <2>2
<1> HIDE DEF p
<1>10. /\ p.byRef = {} /\ DOMAIN p.threads = 1 .. Many
       /\ \A t \in 1 .. Many :
            /\ Len(p.threads[t]) = 1 /\ DOMAIN p.threads[t] = {1} /\ p.threads[t][1].op = "poll"
            /\ p.threads[t][1].on = "arg"
       /\ Len(p.main) \in Nat /\ DOMAIN p.main = 1 .. Len(p.main)
  BY <1>9
<1>11. \A i \in DOMAIN p.main :
         \/ i = 1 /\ p.main[i].op = "pipe" /\ p.main[i].on = "fd"
         \/ i = 2 /\ p.main[i].op = "close" /\ p.main[i].on = "fd2"
         \/ i \in 3 .. Many + 2 /\ p.main[i].op = "create" /\ p.main[i].num = i - 2
            /\ p.main[i].on = "fd"
         \/ i \in Many + 3 .. 2 * Many + 2 /\ p.main[i].op = "join"
            /\ p.main[i].num = i - Many - 2
  <2> SUFFICES ASSUME NEW i \in DOMAIN p.main
               PROVE  \/ i = 1 /\ p.main[i].op = "pipe" /\ p.main[i].on = "fd"
                      \/ i = 2 /\ p.main[i].op = "close" /\ p.main[i].on = "fd2"
                      \/ i \in 3 .. Many + 2 /\ p.main[i].op = "create"
                         /\ p.main[i].num = i - 2 /\ p.main[i].on = "fd"
                      \/ i \in Many + 3 .. 2 * Many + 2 /\ p.main[i].op = "join"
                         /\ p.main[i].num = i - Many - 2
    OBVIOUS
  <2>1. i = 1 \/ i = 2 \/ i \in 3 .. Many + 2 \/ i \in Many + 3 .. 2 * Many + 2
    <3>1. DOMAIN p.main = 1 .. 2 * Many + 2
      BY <1>9
    <3> QED
      BY <3>1, ManyAssumption
  <2> QED
    BY <1>9, <2>1
<1>12. Typed(p)
  <2>1. ASSUME NEW i \in DOMAIN p.main PROVE MainCall(p, p.main[i])
    BY <1>10, <1>11, ManyAssumption DEF MainCall, ThreadCall
  <2>2. ASSUME NEW t \in DOMAIN p.threads
        PROVE  IsScript(p.threads[t])
               /\ \A i \in DOMAIN p.threads[t] : ThreadCall(p.threads[t][i])
    BY <1>10 DEF IsScript, ThreadCall
  <2> QED
    BY <1>10, <2>1, <2>2, ManyAssumption DEF Typed, IsScript
<1>13. Forks(p)
  <2>1. ASSUME NEW i \in DOMAIN p.main, NEW j \in DOMAIN p.main, NEW u \in DOMAIN p.threads,
               Creates(p, i, u), Creates(p, j, u)
        PROVE  i = j
    <3>1. ASSUME NEW k \in DOMAIN p.main, Creates(p, k, u)
          PROVE  (k \in 3 .. Many + 2 /\ u = k - 2)
      BY <3>1, <1>11, ManyAssumption DEF Creates
    <3> QED
      BY <2>1, <3>1, ManyAssumption
  <2>2. \A i \in DOMAIN p.main : p.main[i].op # "goto"
    BY <1>10, <1>11, ManyAssumption
  <2> QED
    BY <1>10, <2>1, <2>2 DEF Forks
<1>14. Harmless(p)
  <2>1. Sequential(p)
    <3>1. ASSUME NEW j \in DOMAIN p.main, p.main[j].op \in Opening PROVE j = 1
      BY <3>1, <1>11
    <3> QED
      BY <1>10, <3>1 DEF Sequential
  <2>2. PairsOnly(p)
    BY <1>10, <1>11, ManyAssumption DEF PairsOnly
  <2>3. NoAccept(p)
    BY <1>10, <1>11, ManyAssumption DEF NoAccept, SocketsOnly
  <2> QED
    BY <2>1, <2>2, <2>3 DEF Harmless
<1>15. NullsKept(p)
  BY <1>10, <1>11, ManyAssumption DEF NullsKept
<1> QED
  BY <1>12, <1>13, <1>14, <1>15 DEF p, Good

\* do_close_close_close opens its descriptors before it creates a thread.
LEMMA Good_do_close_close_close == Good(do_close_close_close)
<1> DEFINE p == do_close_close_close
             s1 == <<Must("pipe", "fd")>>
             s2 == [n \in 1 .. Many |-> Create(n, IF n % 2 = 1 THEN "fd" ELSE "fd2")]
<1>1. /\ s1 \in Seq(Calls) /\ Len(s1) = 1 /\ s2 \in Seq(Calls) /\ Len(s2) = Many
  <2>1. /\ Must("pipe", "fd") \in Calls
    BY CallsAreCalls
  <2> QED
    BY <2>1, Loops
<1>2. p.main = s1 \o s2
  BY ProgramParts DEF do_close_close_close
<1>3. /\ p.byRef = {} /\ DOMAIN p.threads = 1 .. Many
      /\ \A t \in 1 .. Many : p.threads[t] = thread_close
  <2>1. p.byRef = {} /\ p.threads = Each(thread_close)
    BY ProgramParts DEF do_close_close_close
  <2> QED
    BY <2>1 DEF Each
<1>4. /\ s1[1] = Must("pipe", "fd")
      /\ \A n \in 1 .. Many : s2[n] = Create(n, IF n % 2 = 1 THEN "fd" ELSE "fd2")
  BY DEF CreateAll, JoinAll
<1> HIDE DEF s1, s2
<1> DEFINE m2 == s1 \o s2
<1>m2. IsCat(m2, s1, s2)
  BY <1>1, Cat
<1> HIDE DEF m2
<1>5. p.main = m2
  BY <1>2 DEF m2
<1>6. Len(p.main) = Many + 1 /\ DOMAIN p.main = 1 .. Len(p.main)
  <2>1. Many \in Nat
    BY ManyAssumption
  <2>2. Len(m2) = Many + 1
    BY <1>1, <1>m2, <2>1 DEF IsCat
  <2> QED
    BY <1>5, <1>m2, <2>2 DEF IsCat
<1>7. /\ p.main[1] = s1[1] /\ \A i \in 2 .. Many + 1 : p.main[i] = s2[i - 1]
  <2> HIDE DEF p
  <2> QED
    BY <1>1, <1>5, <1>m2, ManyAssumption DEF IsCat
<1> HIDE DEF p
<1>8. /\ Len(p.main) \in Nat /\ DOMAIN p.main = 1 .. Len(p.main) /\ Len(p.main) = Many + 1
      /\ p.main[1] = Must("pipe", "fd")
      /\ \A i \in 2 .. Many + 1 :
           /\ p.main[i] = Create(i - 1, IF (i - 1) % 2 = 1 THEN "fd" ELSE "fd2")
  BY <1>4, <1>5, <1>6, <1>7, ManyAssumption
<1>9. /\ p.byRef = {} /\ DOMAIN p.threads = 1 .. Many
      /\ \A t \in 1 .. Many :
           /\ Len(p.threads[t]) = 1 /\ DOMAIN p.threads[t] = {1} /\ p.threads[t][1].op = "close"
           /\ p.threads[t][1].on = "arg"
      /\ Len(p.main) \in Nat /\ DOMAIN p.main = 1 .. Len(p.main) /\ Len(p.main) = Many + 1
      /\ p.main[1].op = "pipe" /\ p.main[1].on = "fd"
      /\ \A i \in 2 .. Many + 1 :
           /\ p.main[i].op = "create" /\ p.main[i].num = i - 1
           /\ p.main[i].on = IF (i - 1) % 2 = 1 THEN "fd" ELSE "fd2"
  <2>1. /\ p.byRef = {} /\ DOMAIN p.threads = 1 .. Many
        /\ \A t \in 1 .. Many :
             /\ Len(p.threads[t]) = 1 /\ DOMAIN p.threads[t] = {1}
             /\ p.threads[t][1].op = "close" /\ p.threads[t][1].on = "arg"
    BY <1>3, CallParts, ThreadScripts
  <2>2. /\ Len(p.main) \in Nat /\ DOMAIN p.main = 1 .. Len(p.main) /\ Len(p.main) = Many + 1
        /\ p.main[1].op = "pipe" /\ p.main[1].on = "fd"
        /\ \A i \in 2 .. Many + 1 :
             /\ p.main[i].op = "create" /\ p.main[i].num = i - 1
             /\ p.main[i].on = IF (i - 1) % 2 = 1 THEN "fd" ELSE "fd2"
    BY <1>8, CallParts
  <2> QED
    BY <2>1, <2>2
<1> HIDE DEF p
<1>10. /\ p.byRef = {} /\ DOMAIN p.threads = 1 .. Many
       /\ \A t \in 1 .. Many :
            /\ Len(p.threads[t]) = 1 /\ DOMAIN p.threads[t] = {1}
            /\ p.threads[t][1].op = "close" /\ p.threads[t][1].on = "arg"
       /\ Len(p.main) \in Nat /\ DOMAIN p.main = 1 .. Len(p.main)
  BY <1>9
<1>11. \A i \in DOMAIN p.main :
         \/ i = 1 /\ p.main[i].op = "pipe" /\ p.main[i].on = "fd"
         \/ i \in 2 .. Many + 1 /\ p.main[i].op = "create" /\ p.main[i].num = i - 1
            /\ p.main[i].on = IF (i - 1) % 2 = 1 THEN "fd" ELSE "fd2"
  <2> SUFFICES ASSUME NEW i \in DOMAIN p.main
               PROVE  \/ i = 1 /\ p.main[i].op = "pipe" /\ p.main[i].on = "fd"
                      \/ i \in 2 .. Many + 1 /\ p.main[i].op = "create"
                         /\ p.main[i].num = i - 1
                            /\ p.main[i].on = IF (i - 1) % 2 = 1 THEN "fd" ELSE "fd2"
    OBVIOUS
  <2>1. i = 1 \/ i \in 2 .. Many + 1
    <3>1. DOMAIN p.main = 1 .. Many + 1
      BY <1>9
    <3> QED
      BY <3>1, ManyAssumption
  <2> QED
    BY <1>9, <2>1
<1>12. Typed(p)
  <2>1. ASSUME NEW i \in DOMAIN p.main PROVE MainCall(p, p.main[i])
    BY <1>10, <1>11, ManyAssumption DEF MainCall, ThreadCall
  <2>2. ASSUME NEW t \in DOMAIN p.threads
        PROVE  IsScript(p.threads[t])
               /\ \A i \in DOMAIN p.threads[t] : ThreadCall(p.threads[t][i])
    BY <1>10 DEF IsScript, ThreadCall
  <2> QED
    BY <1>10, <2>1, <2>2, ManyAssumption DEF Typed, IsScript
<1>13. Forks(p)
  <2>1. ASSUME NEW i \in DOMAIN p.main, NEW j \in DOMAIN p.main, NEW u \in DOMAIN p.threads,
               Creates(p, i, u), Creates(p, j, u)
        PROVE  i = j
    <3>1. ASSUME NEW k \in DOMAIN p.main, Creates(p, k, u)
          PROVE  (k \in 2 .. Many + 1 /\ u = k - 1)
      BY <3>1, <1>11, ManyAssumption DEF Creates
    <3> QED
      BY <2>1, <3>1, ManyAssumption
  <2>2. \A i \in DOMAIN p.main : p.main[i].op # "goto"
    BY <1>10, <1>11, ManyAssumption
  <2> QED
    BY <1>10, <2>1, <2>2 DEF Forks
<1>14. Harmless(p)
  <2>1. Sequential(p)
    <3>1. ASSUME NEW j \in DOMAIN p.main, p.main[j].op \in Opening PROVE j = 1
      BY <3>1, <1>11
    <3> QED
      BY <1>10, <3>1 DEF Sequential
  <2>2. PairsOnly(p)
    BY <1>10, <1>11, ManyAssumption DEF PairsOnly
  <2>3. NoAccept(p)
    BY <1>10, <1>11, ManyAssumption DEF NoAccept, SocketsOnly
  <2> QED
    BY <2>1, <2>2, <2>3 DEF Harmless
<1>15. NullsKept(p)
  BY <1>10, <1>11, ManyAssumption DEF NullsKept
<1> QED
  BY <1>12, <1>13, <1>14, <1>15 DEF p, Good

\* Each turn of pipe_close_w_close_r_repeat joins its thread before the next
\* one opens a pipe.
LEMMA Good_pipe_close_w_close_r_repeat == Good(pipe_close_w_close_r_repeat)
<1> DEFINE p == pipe_close_w_close_r_repeat
           s(k) == CloseWCloseR(1 + ((k - 1) \div 5))[1 + ((k - 1) % 5)]
           m == [k \in 1 .. 5 * Many |-> s(k)]
<1>1. Many \in Nat /\ 5 * Many \in Nat
  BY ManyAssumption
<1>2. Len(CloseWCloseR(1)) = 5
  BY DEF CloseWCloseR
<1>3. p.main = m /\ p.threads = Each(thread_poll) /\ p.byRef = {}
  <2>1. p = Program(m, Each(thread_poll), {})
    <3> DEFINE t == Len(CloseWCloseR(1))
               w(n) == Program([k \in 1 .. n * Many |->
                                  CloseWCloseR(1 + ((k - 1) \div n))[1 + ((k - 1) % n)]],
                               Each(thread_poll), {})
    <3>1. p = w(t)
      BY DEF pipe_close_w_close_r_repeat
    <3>2. t = 5
      BY <1>2
    <3>3. w(5) = Program(m, Each(thread_poll), {})
      OBVIOUS
    <3> HIDE DEF t, w, p, m
    <3> QED
      BY <3>1, <3>2, <3>3
  <2> HIDE DEF p, m
  <2> QED
    BY <2>1, ProgramParts
<1>4. ASSUME NEW k \in 1 .. 5 * Many
      PROVE  \E q \in 0 .. Many - 1 :
                \/ k = 5 * q + 1 /\ s(k) = Must("pipe", "fd")
                \/ k = 5 * q + 2 /\ s(k) = Create(q + 1, "fd")
                \/ k = 5 * q + 3 /\ s(k) = Do("close", "fd2")
                \/ k = 5 * q + 4 /\ s(k) = Do("close", "fd")
                \/ k = 5 * q + 5 /\ s(k) = Join(q + 1)
  <2> DEFINE q == (k - 1) \div 5
             r == (k - 1) % 5
  <2>1. q \in 0 .. Many - 1 /\ r \in 0 .. 4 /\ k = 5 * q + r + 1
    BY <1>1
  <2>2. s(k) = <<Must("pipe", "fd"), Create(1 + q, "fd"), Do("close", "fd2"), Do("close", "fd"),
                 Join(1 + q)>>[1 + r]
    BY DEF CloseWCloseR
  <2> HIDE DEF q, r, s
  <2>3. 1 + q = q + 1
    BY <2>1
  <2>4. \/ k = 5 * q + 1 /\ s(k) = Must("pipe", "fd")
        \/ k = 5 * q + 2 /\ s(k) = Create(q + 1, "fd")
        \/ k = 5 * q + 3 /\ s(k) = Do("close", "fd2")
        \/ k = 5 * q + 4 /\ s(k) = Do("close", "fd")
        \/ k = 5 * q + 5 /\ s(k) = Join(q + 1)
    <3>1. CASE r = 0
      BY <3>1, <2>1, <2>2
    <3>2. CASE r = 1
      BY <3>2, <2>1, <2>2, <2>3
    <3>3. CASE r = 2
      BY <3>3, <2>1, <2>2
    <3>4. CASE r = 3
      BY <3>4, <2>1, <2>2
    <3>5. CASE r = 4
      BY <3>5, <2>1, <2>2, <2>3
    <3> QED
      BY <2>1, <3>1, <3>2, <3>3, <3>4, <3>5
  <2> QED
    BY <2>1, <2>4
<1> HIDE DEF s
<1>5. \A k \in 1 .. 5 * Many : s(k) \in Calls
  <2>1. ASSUME NEW k \in 1 .. 5 * Many
        PROVE  s(k) \in Calls
    <3>1. PICK q \in 0 .. Many - 1 :
                \/ s(k) = Must("pipe", "fd")
                \/ s(k) = Create(q + 1, "fd")
                \/ s(k) = Do("close", "fd2")
                \/ s(k) = Do("close", "fd")
                \/ s(k) = Join(q + 1)
      BY <1>4
    <3>2. q + 1 \in Nat
      BY <1>1
    <3> QED
      BY <3>1, <3>2, CallsAreCalls
  <2> QED
    BY <2>1
<1>6. m \in Seq(Calls) /\ Len(m) = 5 * Many /\ DOMAIN m = 1 .. 5 * Many
  BY <1>1, <1>5, IsASeq
<1>7. \A k \in 1 .. 5 * Many : m[k] = s(k)
  OBVIOUS
<1> HIDE DEF m
<1>8. /\ p.byRef = {} /\ DOMAIN p.threads = 1 .. Many
      /\ \A t \in 1 .. Many :
           /\ Len(p.threads[t]) = 1 /\ DOMAIN p.threads[t] = {1}
           /\ p.threads[t][1].op = "poll" /\ p.threads[t][1].on = "arg"
      /\ Len(p.main) = 5 * Many /\ DOMAIN p.main = 1 .. 5 * Many
  <2> HIDE DEF p
  <2> QED
    BY <1>3, <1>6, CallParts, ThreadScripts DEF Each
<1>9. ASSUME NEW i \in 1 .. 5 * Many
      PROVE  \E q \in 0 .. Many - 1 :
                \/ i = 5 * q + 1 /\ p.main[i].op = "pipe" /\ p.main[i].on = "fd"
                \/ /\ i = 5 * q + 2 /\ p.main[i].op = "create" /\ p.main[i].num = q + 1
                   /\ p.main[i].on = "fd"
                \/ i = 5 * q + 3 /\ p.main[i].op = "close" /\ p.main[i].on = "fd2"
                \/ i = 5 * q + 4 /\ p.main[i].op = "close" /\ p.main[i].on = "fd"
                \/ i = 5 * q + 5 /\ p.main[i].op = "join" /\ p.main[i].num = q + 1
  <2>1. p.main[i] = s(i)
    BY <1>3, <1>7
  <2> HIDE DEF p
  <2> QED
    BY <1>4, <2>1, CallParts
<1> HIDE DEF p
<1>10. \A u \in 1 .. Many : Joins(p, 5 * u, u)
  <2>1. ASSUME NEW u \in 1 .. Many
        PROVE  Joins(p, 5 * u, u)
    <3>1. 5 * u \in 1 .. 5 * Many
      BY <1>1
    <3>2. p.main[5 * u].op = "join" /\ p.main[5 * u].num = u
      BY <1>9, <3>1
    <3> QED
      BY <1>8, <3>1, <3>2 DEF Joins
  <2> QED
    BY <2>1
<1>11. ASSUME NEW i \in 1 .. 5 * Many, NEW u \in 1 .. Many, Creates(p, i, u)
       PROVE  i = 5 * u - 3
  BY <1>1, <1>9, <1>11 DEF Creates
<1>12. Typed(p)
  <2>1. ASSUME NEW i \in DOMAIN p.main
        PROVE  MainCall(p, p.main[i])
    BY <1>1, <1>8, <1>9 DEF MainCall, ThreadCall
  <2>2. IsScript(p.main)
    BY <1>1, <1>8 DEF IsScript
  <2>3. ASSUME NEW t \in DOMAIN p.threads
        PROVE  IsScript(p.threads[t])
               /\ \A i \in DOMAIN p.threads[t] : ThreadCall(p.threads[t][i])
    BY <1>8 DEF IsScript, ThreadCall
  <2> QED
    BY <1>8, <2>1, <2>2, <2>3 DEF Typed
<1>13. Forks(p)
  <2>1. \A i \in DOMAIN p.main : p.main[i].op # "goto"
    BY <1>8, <1>9
  <2> QED
    BY <1>8, <1>11, <2>1 DEF Forks
<1>14. Harmless(p)
  <2>1. Sequential(p)
    <3>1. ASSUME NEW j \in DOMAIN p.main, p.main[j].op \in Opening,
                 NEW i \in 1 .. j - 1, NEW u \in DOMAIN p.threads, Creates(p, i, u)
          PROVE  \E k \in 1 .. j - 1 : Joins(p, k, u)
      <4>1. PICK q \in 0 .. Many - 1 : j = 5 * q + 1
        BY <1>8, <1>9, <3>1
      <4>2. i \in 1 .. 5 * Many /\ u \in 1 .. Many
        BY <1>1, <1>8
      <4>3. i = 5 * u - 3
        BY <1>11, <3>1, <4>2
      <4>4. 5 * u \in 1 .. j - 1
        BY <1>1, <4>1, <4>2, <4>3
      <4> QED
        BY <1>10, <4>2, <4>4
    <3>2. ASSUME NEW t \in DOMAIN p.threads, NEW i \in DOMAIN p.threads[t]
          PROVE  p.threads[t][i].op \notin Opening
      BY <1>8
    <3> QED
      BY <3>1, <3>2 DEF Sequential
  <2>2. PairsOnly(p)
    BY <1>8, <1>9 DEF PairsOnly
  <2>3. NoAccept(p)
    BY <1>8, <1>9 DEF NoAccept
  <2> QED
    BY <2>1, <2>2, <2>3 DEF Harmless
<1>15. NullsKept(p)
  BY <1>8, <1>9 DEF NullsKept
<1> QED
  BY <1>12, <1>13, <1>14, <1>15 DEF p, Good

\* The names of all programs.
Tools == DOMAIN SocktestActions \cup DOMAIN AsocketActions \cup DOMAIN ShutdownTestActions
             \cup DOMAIN PipetestFunctions \cup DOMAIN ShutdownBugs

\* The actions of the tools: asocket_test and sock_shutdown_test have some of
\* those of socktest.
LEMMA ToolNames ==
    /\ DOMAIN SocktestActions =
         {"accept_accept_accept", "accept_and_close", "accept_shutdown", "connect_shutdown",
          "connectnb_shutdown", "connectnb_close", "accept_close_write",
          "accept_connect_connect", "poll_poll_poll_shutdown", "poll_poll_poll_close",
          "read_read_read_shutdown", "read_read_read_close", "connected_read1_shutdown1"}
    /\ DOMAIN AsocketActions \subseteq DOMAIN SocktestActions
    /\ \A a \in DOMAIN AsocketActions : AsocketActions[a] = SocktestActions[a]
    /\ DOMAIN ShutdownTestActions = {"accept_shutdown"}
    /\ ShutdownTestActions["accept_shutdown"] = SocktestActions["accept_shutdown"]
    /\ DOMAIN PipetestFunctions =
         {"socketpair_poll1_shutdown2", "socketpair_poll1_shutdown1", "socketpair_poll1_close1",
          "socketpair_read1_shutdown1", "pipe_pipe_pipe", "poll_poll_close",
          "pollin_pollin_write", "pollin_pollin_pollin_write_pollin_pollin_pollin",
          "poll_poll_shutdown", "close_poll_poll_poll", "close_close_close",
          "pipe_close_w_close_w_repeat"}
    /\ DOMAIN ShutdownBugs = {"bug_tcp", "bug_rfcomm", "bug_l2cap"}
  BY DEF SocktestActions, AsocketActions, ShutdownTestActions, PipetestFunctions, ShutdownBugs

\* A program is an action of socktest, a function of pipetest or a bug program.
LEMMA ToolCases ==
    /\ DOMAIN AllPrograms = Tools
    /\ \A q \in DOMAIN SocktestActions : AllPrograms[q] = SocktestActions[q]
    /\ \A q \in DOMAIN PipetestFunctions : AllPrograms[q] = PipetestFunctions[q]
    /\ \A q \in DOMAIN ShutdownBugs : AllPrograms[q] = ShutdownBugs[q]
    /\ DOMAIN AllPrograms = DOMAIN SocktestActions \cup DOMAIN PipetestFunctions
       \cup DOMAIN ShutdownBugs
<1> USE ToolNames
<1>1. DOMAIN AllPrograms = Tools
  BY DEF AllPrograms, Both, Tools
<1>2. Tools = DOMAIN SocktestActions \cup DOMAIN PipetestFunctions \cup DOMAIN ShutdownBugs
  BY DEF Tools
<1>3. ASSUME NEW q \in DOMAIN SocktestActions
      PROVE  AllPrograms[q] = SocktestActions[q]
  <2>1. /\ q \in DOMAIN AsocketActions => AsocketActions[q] = SocktestActions[q]
        /\ q \in DOMAIN ShutdownTestActions => ShutdownTestActions[q] = SocktestActions[q]
        /\ q \notin DOMAIN PipetestFunctions /\ q \notin DOMAIN ShutdownBugs
    OBVIOUS
  <2> QED
    BY <2>1 DEF AllPrograms, Both
<1>4. ASSUME NEW q \in DOMAIN PipetestFunctions
      PROVE  AllPrograms[q] = PipetestFunctions[q]
  BY DEF AllPrograms, Both
<1>5. ASSUME NEW q \in DOMAIN ShutdownBugs
      PROVE  AllPrograms[q] = ShutdownBugs[q]
  BY DEF AllPrograms, Both
<1> QED
  BY <1>1, <1>2, <1>3, <1>4, <1>5

\* Every program has the shape that the proofs of SockTest need.
LEMMA AllGood == \A q \in DOMAIN AllPrograms : Good(AllPrograms[q])
<1>1. \A q \in DOMAIN SocktestActions : Good(SocktestActions[q])
  BY Good_do_accept_accept_accept, Good_do_accept_and_close, Good_do_accept_shutdown,
     Good_do_connect_shutdown, Good_do_connectnb_shutdown, Good_do_connectnb_close,
     Good_do_accept_close_write, Good_do_accept_connect_connect,
     Good_do_poll_poll_poll_shutdown, Good_do_poll_poll_poll_close,
     Good_do_read_read_read_shutdown, Good_do_read_read_read_close,
     Good_do_connected_read1_shutdown1 DEF SocktestActions
<1>2. \A q \in DOMAIN PipetestFunctions : Good(PipetestFunctions[q])
  BY Good_do_socketpair_poll1_shutdown2, Good_do_socketpair_poll1_shutdown1,
     Good_do_socketpair_poll1_close1, Good_do_socketpair_read1_shutdown1,
     Good_do_pipe_pipe_pipe, Good_do_poll_poll_close, Good_do_pollin_pollin_write,
     Good_do_pollin_pollin_pollin_write_pollin_pollin_pollin, Good_do_poll_poll_shutdown,
     Good_do_close_poll_poll_poll, Good_do_close_close_close,
     Good_pipe_close_w_close_r_repeat DEF PipetestFunctions
<1>3. \A q \in DOMAIN ShutdownBugs : Good(ShutdownBugs[q])
  BY Good_bug_tcp, Good_bug_rfcomm, Good_bug_l2cap DEF ShutdownBugs
<1> QED
  BY <1>1, <1>2, <1>3, ToolCases

\* A program that begins with a listener, and fails no more behind it.
LEMMA MustsOfListener ==
    ASSUME NEW p, NEW s \in Seq(Calls), p.main = Listener("fd") \o s,
           \A k \in DOMAIN s : ~s[k].must,
           \A u \in DOMAIN p.threads : \A k \in DOMAIN p.threads[u] : ~p.threads[u][k].must
    PROVE  MustsFirst(p)
<1>1. AfterListener(p.main, s) /\ DOMAIN s = 1 .. Len(s)
  BY ListenerThen, LenProperties
<1>2. \A i \in 1 .. 3 : p.main[i].op # "create"
  <2>1. p.main[1].op = "socket" /\ p.main[2].op = "bind" /\ p.main[3].op = "listen"
    BY <1>1, CallParts DEF AfterListener
  <2>2. \A i \in 1 .. 3 : i = 1 \/ i = 2 \/ i = 3
    OBVIOUS
  <2> QED
    BY <2>1, <2>2, Zenon
<1>3. ASSUME NEW i \in DOMAIN p.main, i \notin 1 .. 3
      PROVE  ~p.main[i].must
  <2>1. i \in 4 .. 3 + Len(s) /\ Len(s) \in Nat
    BY <1>1, <1>3 DEF AfterListener
  <2>2. i - 3 \in DOMAIN s /\ p.main[i] = s[i - 3]
    BY <1>1, <2>1 DEF AfterListener
  <2> QED
    BY <2>2
<1>4. ASSUME NEW i \in DOMAIN p.main, NEW j \in DOMAIN p.main,
             p.main[i].op = "create", i <= j
      PROVE  ~p.main[j].must
  <2>1. i \notin 1 .. 3
    BY <1>2, <1>4
  <2>2. DOMAIN p.main = 1 .. 3 + Len(s) /\ Len(s) \in Nat
    BY <1>1 DEF AfterListener
  <2>3. j \notin 1 .. 3
    BY <1>4, <2>1, <2>2
  <2> QED
    BY <1>3, <2>3
<1> QED
  BY <1>4 DEF MustsFirst

\* The calls of these threads need not succeed.
LEMMA ThreadsGoOn ==
    \A s \in {thread_delay_close, thread_accept, thread_delay_close_write,
              thread_delay_connect} : \A k \in DOMAIN s : ~s[k].must
<1>1. /\ DOMAIN thread_delay_close = {1} /\ ~thread_delay_close[1].must
      /\ DOMAIN thread_accept = {1} /\ ~thread_accept[1].must
  BY ThreadScripts, CallParts
<1>2. /\ DOMAIN thread_delay_close_write = {1, 2}
      /\ ~thread_delay_close_write[1].must /\ ~thread_delay_close_write[2].must
  BY ThreadScripts, CallParts
<1>3. /\ DOMAIN thread_delay_connect = {1, 2}
      /\ ~thread_delay_connect[1].must /\ ~thread_delay_connect[2].must
  BY ThreadScripts, CallParts
<1> QED
  BY <1>1, <1>2, <1>3

\* do_accept_and_close fails, if at all, before it creates a thread.
LEMMA Musts_do_accept_and_close == MustsFirst(do_accept_and_close)
<1> DEFINE p == do_accept_and_close
             s == <<Create(1, "fd"), Do("accept", "fd"), Join(1)>>
<1>1. /\ s \in Seq(Calls) /\ DOMAIN s = 1 .. 3
      /\ s[1] = Create(1, "fd") /\ s[2] = Do("accept", "fd") /\ s[3] = Join(1)
  <2>1. Create(1, "fd") \in Calls /\ Do("accept", "fd") \in Calls /\ Join(1) \in Calls
    BY CallsAreCalls
  <2> QED
    BY <2>1
<1> HIDE DEF s
<1>2. p.main = Listener("fd") \o s
  BY ProgramParts DEF do_accept_and_close, s
<1>3. DOMAIN p.threads = {1} /\ p.threads[1] = thread_delay_close
  BY ProgramParts DEF do_accept_and_close
<1> HIDE DEF p
<1>4. \A k \in DOMAIN s : ~s[k].must
  <2>1. ~s[1].must /\ ~s[2].must /\ ~s[3].must
    BY <1>1, CallParts
  <2> QED
    BY <1>1, <2>1
<1>5. \A u \in DOMAIN p.threads : \A k \in DOMAIN p.threads[u] : ~p.threads[u][k].must
  BY <1>3, ThreadsGoOn
<1> QED
  BY <1>1, <1>2, <1>4, <1>5, MustsOfListener DEF p

\* do_accept_shutdown fails, if at all, before it creates a thread.
LEMMA Musts_do_accept_shutdown == MustsFirst(do_accept_shutdown)
<1> DEFINE p == do_accept_shutdown
             s == <<Create(1, "fd"), Do("shutdown", "fd"), Join(1), Do("close", "fd")>>
<1>1. /\ s \in Seq(Calls) /\ DOMAIN s = 1 .. 4
      /\ s[1] = Create(1, "fd") /\ s[2] = Do("shutdown", "fd") /\ s[3] = Join(1) /\ s[4]
         = Do("close", "fd")
  <2>1. Create(1, "fd") \in Calls /\ Do("shutdown", "fd") \in Calls /\ Join(1) \in Calls
        /\ Do("close", "fd") \in Calls
    BY CallsAreCalls
  <2> QED
    BY <2>1
<1> HIDE DEF s
<1>2. p.main = Listener("fd") \o s
  BY ProgramParts DEF do_accept_shutdown, s
<1>3. DOMAIN p.threads = {1} /\ p.threads[1] = thread_accept
  BY ProgramParts DEF do_accept_shutdown
<1> HIDE DEF p
<1>4. \A k \in DOMAIN s : ~s[k].must
  <2>1. ~s[1].must /\ ~s[2].must /\ ~s[3].must /\ ~s[4].must
    BY <1>1, CallParts
  <2> QED
    BY <1>1, <2>1
<1>5. \A u \in DOMAIN p.threads : \A k \in DOMAIN p.threads[u] : ~p.threads[u][k].must
  BY <1>3, ThreadsGoOn
<1> QED
  BY <1>1, <1>2, <1>4, <1>5, MustsOfListener DEF p

\* do_accept_close_write fails, if at all, before it creates a thread.
LEMMA Musts_do_accept_close_write == MustsFirst(do_accept_close_write)
<1> DEFINE p == do_accept_close_write
             s == <<Create(1, "fd"), Do("accept", "fd"), Join(1)>>
<1>1. /\ s \in Seq(Calls) /\ DOMAIN s = 1 .. 3
      /\ s[1] = Create(1, "fd") /\ s[2] = Do("accept", "fd") /\ s[3] = Join(1)
  <2>1. Create(1, "fd") \in Calls /\ Do("accept", "fd") \in Calls /\ Join(1) \in Calls
    BY CallsAreCalls
  <2> QED
    BY <2>1
<1> HIDE DEF s
<1>2. p.main = Listener("fd") \o s
  BY ProgramParts DEF do_accept_close_write, s
<1>3. DOMAIN p.threads = {1} /\ p.threads[1] = thread_delay_close_write
  BY ProgramParts DEF do_accept_close_write
<1> HIDE DEF p
<1>4. \A k \in DOMAIN s : ~s[k].must
  <2>1. ~s[1].must /\ ~s[2].must /\ ~s[3].must
    BY <1>1, CallParts
  <2> QED
    BY <1>1, <2>1
<1>5. \A u \in DOMAIN p.threads : \A k \in DOMAIN p.threads[u] : ~p.threads[u][k].must
  BY <1>3, ThreadsGoOn
<1> QED
  BY <1>1, <1>2, <1>4, <1>5, MustsOfListener DEF p

\* do_accept_connect_connect fails, if at all, before it creates a thread.
LEMMA Musts_do_accept_connect_connect == MustsFirst(do_accept_connect_connect)
<1> DEFINE p == do_accept_connect_connect
             s == <<Create(1, "fd"), Create(2, "fd"), Do("accept", "fd"), Join(1),
                    Join(2)>>
<1>1. /\ s \in Seq(Calls) /\ DOMAIN s = 1 .. 5
      /\ s[1] = Create(1, "fd") /\ s[2] = Create(2, "fd") /\ s[3] = Do("accept", "fd")
         /\ s[4] = Join(1) /\ s[5] = Join(2)
  <2>1. Create(1, "fd") \in Calls /\ Create(2, "fd") \in Calls /\ Do("accept", "fd") \in
        Calls /\ Join(1) \in Calls /\ Join(2) \in Calls
    BY CallsAreCalls
  <2> QED
    BY <2>1
<1> HIDE DEF s
<1>2. p.main = Listener("fd") \o s
  BY ProgramParts DEF do_accept_connect_connect, s
<1>3. DOMAIN p.threads = {1, 2} /\ p.threads[1] = thread_delay_connect /\ p.threads[2] = thread_delay_connect
  BY ProgramParts DEF do_accept_connect_connect
<1> HIDE DEF p
<1>4. \A k \in DOMAIN s : ~s[k].must
  <2>1. ~s[1].must /\ ~s[2].must /\ ~s[3].must /\ ~s[4].must /\ ~s[5].must
    BY <1>1, CallParts
  <2> QED
    BY <1>1, <2>1
<1>5. \A u \in DOMAIN p.threads : \A k \in DOMAIN p.threads[u] : ~p.threads[u][k].must
  BY <1>3, ThreadsGoOn
<1> QED
  BY <1>1, <1>2, <1>4, <1>5, MustsOfListener DEF p

\* do_connect_shutdown fails, if at all, at its first call.
LEMMA MustsOfConnect == MustsFirst(do_connect_shutdown)
<1> DEFINE p == do_connect_shutdown
<1>1. p.main = <<Must("socket", "fd"), Create(1, "fd"), Do("shutdown", "fd"), Join(1),
                 Do("close", "fd")>>
  BY ProgramParts DEF do_connect_shutdown
<1>2. DOMAIN p.threads = {1} /\ p.threads[1] = thread_connect
  BY ProgramParts DEF do_connect_shutdown
<1>3. /\ DOMAIN p.main = 1 .. 5 /\ p.main[1].op = "socket"
      /\ ~p.main[2].must /\ ~p.main[3].must /\ ~p.main[4].must /\ ~p.main[5].must
  BY <1>1, CallParts
<1>4. DOMAIN p.threads[1] = {1} /\ ~p.threads[1][1].must
  BY <1>2, ThreadScripts, CallParts
<1> HIDE DEF p
<1>5. MustsFirst(p)
  BY <1>2, <1>3, <1>4 DEF MustsFirst
<1> QED
  BY <1>5 DEF p

\* But for connected_read1_shutdown1, a program whose threads read the stack of
\* main fails before it has created them, if at all.
LEMMA ErrorsBeforeThreads ==
    \A q \in DOMAIN AllPrograms \ {"connected_read1_shutdown1"} :
      AllPrograms[q].byRef = {} \/ MustsFirst(AllPrograms[q])
<1>1. \A q \in DOMAIN SocktestActions \ {"connected_read1_shutdown1"} :
        SocktestActions[q].byRef = {} \/ MustsFirst(SocktestActions[q])
  <2>1. \A p \in {do_accept_accept_accept, do_connectnb_shutdown, do_connectnb_close,
                  do_poll_poll_poll_shutdown, do_poll_poll_poll_close,
                  do_read_read_read_shutdown, do_read_read_read_close} : p.byRef = {}
    BY ProgramParts
       DEF do_accept_accept_accept, do_connectnb_shutdown, do_connectnb_close,
           do_poll_poll_poll_shutdown, do_poll_poll_poll_close,
           do_read_read_read_shutdown, do_read_read_read_close
  <2> QED
    BY <2>1, Musts_do_accept_and_close, Musts_do_accept_shutdown,
       Musts_do_accept_close_write, Musts_do_accept_connect_connect, MustsOfConnect,
       ToolNames DEF SocktestActions
<1>2. \A q \in DOMAIN PipetestFunctions : PipetestFunctions[q].byRef = {}
  <2>1. \A p \in {do_socketpair_poll1_shutdown2, do_socketpair_poll1_shutdown1,
                  do_socketpair_poll1_close1, do_socketpair_read1_shutdown1,
                  do_pipe_pipe_pipe, do_poll_poll_close, do_pollin_pollin_write,
                  do_pollin_pollin_pollin_write_pollin_pollin_pollin,
                  do_poll_poll_shutdown, do_close_poll_poll_poll, do_close_close_close,
                  pipe_close_w_close_r_repeat} : p.byRef = {}
    BY ProgramParts
       DEF do_socketpair_poll1_shutdown2, do_socketpair_poll1_shutdown1,
           do_socketpair_poll1_close1, do_socketpair_read1_shutdown1,
           do_pipe_pipe_pipe, do_poll_poll_close, do_pollin_pollin_write,
           do_pollin_pollin_pollin_write_pollin_pollin_pollin,
           do_poll_poll_shutdown, do_close_poll_poll_poll, do_close_close_close,
           pipe_close_w_close_r_repeat
  <2> QED
    BY <2>1, ToolNames DEF PipetestFunctions
<1>3. \A q \in DOMAIN ShutdownBugs : ShutdownBugs[q].byRef = {}
  <2>1. \A p \in {bug_tcp, bug_rfcomm, bug_l2cap} : p.byRef = {}
    BY ProgramParts DEF bug_tcp, bug_rfcomm, bug_l2cap
  <2> QED
    BY <2>1, ToolNames DEF ShutdownBugs
<1> QED
  BY <1>1, <1>2, <1>3, ToolCases

\* The programs that SockTestProperties names.
LEMMA ByName ==
    /\ AllPrograms["pipe_pipe_pipe"] = do_pipe_pipe_pipe
    /\ AllPrograms["poll_poll_poll_close"] = do_poll_poll_poll_close
    /\ AllPrograms["read_read_read_close"] = do_read_read_read_close
    /\ AllPrograms["accept_and_close"] = do_accept_and_close
    /\ AllPrograms["accept_close_write"] = do_accept_close_write
    /\ AllPrograms["socketpair_poll1_close1"] = do_socketpair_poll1_close1
<1>1. /\ AllPrograms["pipe_pipe_pipe"] = PipetestFunctions["pipe_pipe_pipe"]
      /\ AllPrograms["poll_poll_poll_close"] = SocktestActions["poll_poll_poll_close"]
      /\ AllPrograms["read_read_read_close"] = SocktestActions["read_read_read_close"]
      /\ AllPrograms["accept_and_close"] = SocktestActions["accept_and_close"]
      /\ AllPrograms["accept_close_write"] = SocktestActions["accept_close_write"]
      /\ AllPrograms["socketpair_poll1_close1"] = PipetestFunctions["socketpair_poll1_close1"]
  BY ToolCases, ToolNames
<1> QED
  BY <1>1 DEF SocktestActions, PipetestFunctions

\* The program that runs.
P == AllPrograms[program]

\* The programs of Closing close the one descriptor that everybody uses.
LEMMA ClosingCloses == Closing => ClosesOne(P)
<1>1. /\ ClosesOne(do_accept_and_close) /\ ClosesOne(do_accept_close_write)
      /\ ClosesOne(do_poll_poll_poll_close) /\ ClosesOne(do_read_read_read_close)
      /\ ClosesOne(do_socketpair_poll1_close1)
  BY Good_do_accept_and_close, Good_do_accept_close_write, Good_do_poll_poll_poll_close,
     Good_do_read_read_read_close, Good_do_socketpair_poll1_close1
<1> QED
  BY <1>1, ByName DEF Closing, P

\* The turn of do_pipe_pipe_pipe: a pipe, and a close of either end.
LEMMA PipeLoopCalls ==
    program = "pipe_pipe_pipe" =>
      /\ DOMAIN P.threads = {} /\ Len(P.main) = 4
      /\ P.main[1].op = "pipe" /\ P.main[2].op = "close" /\ P.main[2].on = "fd"
         /\ ~P.main[2].must
      /\ P.main[3].op = "close" /\ P.main[3].on = "fd2" /\ ~P.main[3].must
      /\ P.main[4].op = "goto" /\ P.main[4].num = 1
<1> DEFINE p == do_pipe_pipe_pipe
<1>1. p.main = <<Must("pipe", "fd"), Do("close", "fd"), Do("close", "fd2"), GoTo(1)>>
  BY ProgramParts DEF do_pipe_pipe_pipe
<1>2. p.threads = <<>>
  BY ProgramParts DEF do_pipe_pipe_pipe
<1>3. /\ Len(p.main) = 4
      /\ p.main[1] = Must("pipe", "fd") /\ p.main[2] = Do("close", "fd")
      /\ p.main[3] = Do("close", "fd2") /\ p.main[4] = GoTo(1)
  BY <1>1
<1>4. DOMAIN p.threads = {}
  BY <1>2
<1> HIDE DEF p
<1>5. program = "pipe_pipe_pipe" => P = p
  BY ByName DEF P, p
<1> QED
  BY <1>3, <1>4, <1>5, CallParts
=============================================================================
