------------------------------ MODULE MpPort -------------------------------
(***************************************************************************)
(* The MicroPython port: the threads of mp_port/mpthreadport.c, and the    *)
(* console of mp_thread.c, on which the main task runs the REPL.           *)
(*                                                                         *)
(* Python runs in the task that has the GIL.  The console has one netconn, *)
(* one netbuf that is read character by character, and waits with the GIL. *)
(* Every task may print; only the main task reads.  The main task has a    *)
(* lower priority than the others; all interleavings are allowed here.     *)
(***************************************************************************)
EXTENDS Naturals, Sequences

CONSTANTS
    Main, Threads,  \* the task of the REPL, and the tasks it may get
    Nobody,
    MaxSize         \* bound of the model: characters of a netbuf

ASSUME MpAssumption ==
    Main \notin Threads /\ Nobody \notin Threads \cup {Main} /\ MaxSize \in Nat \ {0}

VARIABLES
    thread,        \* the linked list, first node first
    gil,           \* who has the GIL
    thread_mutex,
    task,          \* where each task is
    console        \* whether the REPL runs; new_connection, its peer, the netbuf
                   \* and what is left of it; whether the line being typed has
                   \* characters

mpVars == <<thread, gil, thread_mutex, task, console>>

NoConsole == [repl |-> FALSE, conn |-> FALSE, peer |-> FALSE, netbuf |-> FALSE,
              size |-> 0, line |-> FALSE]

\* mp_thread_init, mp_init; the main task executes the script of the card.
MpInit ==
    /\ thread = <<[id |-> Main, ready |-> TRUE]>>
    /\ gil = Main
    /\ thread_mutex = Nobody
    /\ task = [t \in Threads \cup {Main} |-> IF t = Main THEN "python" ELSE "none"]
    /\ console = NoConsole

At(t, pc) == task[t] = pc
To(t, pc) == task' = [task EXCEPT ![t] = pc]
Python(t) == gil = t /\ At(t, "python")
-----------------------------------------------------------------------------
(* Threads.                                                                *)

\* The VM lets others in now and then, and so does a lock of Python.
GilExit(t) ==
    /\ Python(t)
    /\ gil' = Nobody
    /\ UNCHANGED <<thread, thread_mutex, task, console>>

GilEnter(t) ==
    /\ gil = Nobody
    /\ task[t] \in {"python", "start"}
    /\ gil' = t
    /\ UNCHANGED <<thread, thread_mutex, task, console>>

\* mp_thread_create: the task exists, and may run, before its node is linked.
\* (The size it is told is adjusted at the end, which has no part here.)
CreateTask(t, u) ==
    /\ Python(t) /\ At(u, "none")
    /\ thread_mutex = Nobody
    /\ thread_mutex' = t
    /\ task' = [task EXCEPT ![t] = "link", ![u] = "entry"]
    /\ UNCHANGED <<thread, gil, console>>

\* The task that is not in the list yet.
Unlinked(u) == u \in Threads /\ ~At(u, "none") /\ \A i \in DOMAIN thread : thread[i].id # u

CreateLink(t) ==
    /\ At(t, "link")
    /\ \E u \in Threads : Unlinked(u) /\ thread' = <<[id |-> u, ready |-> FALSE]>> \o thread
    /\ thread_mutex' = Nobody
    /\ To(t, "python")
    /\ UNCHANGED <<gil, console>>

\* freertos_entry, thread_entry up to MP_THREAD_GIL_ENTER: without the GIL.
ThreadEntry(t) ==
    /\ At(t, "entry")
    /\ To(t, "start")
    /\ UNCHANGED <<thread, gil, thread_mutex, console>>

\* The node of a task in the list, looked up under the mutex.
SetReady(t, value) ==
    /\ thread_mutex = Nobody
    /\ thread' = [i \in DOMAIN thread |->
                     IF thread[i].id = t THEN [thread[i] EXCEPT !.ready = value]
                     ELSE thread[i]]

mp_thread_start_first_node(t) ==
    /\ At(t, "start") /\ gil = t
    /\ thread' = [thread EXCEPT ![1].ready = TRUE]
    /\ To(t, "python")
    /\ UNCHANGED <<gil, thread_mutex, console>>

mp_thread_start(t) ==
    /\ At(t, "start") /\ gil = t
    /\ SetReady(t, TRUE)
    /\ To(t, "python")
    /\ UNCHANGED <<gil, thread_mutex, console>>

\* The function of the thread has ended: mp_thread_finish, then the GIL is
\* given up and the task deleted.  The node stays in the list.
mp_thread_finish(t) ==
    /\ t # Main /\ Python(t)
    /\ SetReady(t, FALSE)
    /\ To(t, "gone")
    /\ gil' = Nobody
    /\ UNCHANGED <<thread_mutex, console>>

\* mp_thread_gc_others marks the nodes it passes and what they point to, and
\* scans the stacks of the other tasks that are ready.
Nodes   == {thread[i].id : i \in DOMAIN thread}
Scanned == {thread[i].id : i \in {j \in DOMAIN thread : thread[j].ready}}
-----------------------------------------------------------------------------
(* The console.                                                            *)

close_connection ==
    [console EXCEPT !.conn = FALSE, !.peer = FALSE, !.netbuf = FALSE, !.size = 0]

ClientLeaves ==
    /\ console.peer
    /\ console' = [console EXCEPT !.peer = FALSE]
    /\ UNCHANGED <<thread, gil, thread_mutex, task>>

\* TASK_MicroPython: the script ends and setup_connection is called.  Without
\* a connection to listen on, or when netconn_accept fails, the task delays for
\* ever.
ScriptEnds ==
    /\ Python(Main) /\ ~console.repl
    /\ To(Main, "accept") \/ To(Main, "halted")
    /\ UNCHANGED <<thread, gil, thread_mutex, console>>

Accept ==
    /\ At(Main, "accept")
    /\ \/ /\ console' = [console EXCEPT !.repl = TRUE, !.conn = TRUE, !.peer = TRUE]
          /\ To(Main, "python")
       \/ To(Main, "halted") /\ UNCHANGED console
    /\ UNCHANGED <<thread, gil, thread_mutex>>

\* The REPL returns, the connection is closed and another one awaited.
ReplEnds ==
    /\ console' = [close_connection EXCEPT !.line = FALSE]
    /\ To(Main, "accept")

SystemExit ==
    /\ Python(Main) /\ console.repl
    /\ ReplEnds
    /\ UNCHANGED <<thread, gil, thread_mutex>>

\* mp_carbon_stdout; without a connection the text goes to the UART.
mp_carbon_stdout(t) ==
    /\ Python(t)
    /\ console.conn /\ ~console.peer
    /\ console' = close_connection
    /\ UNCHANGED <<thread, gil, thread_mutex, task>>

\* What readline and the REPL make of a character, and of CTRL-D, which ends
\* the REPL on an empty line only.
Typed(c) ==
    /\ console' \in {c, [c EXCEPT !.line = ~@]}
    /\ To(Main, "python")

EndOfInput(c) ==
    IF c.line THEN console' = c /\ To(Main, "python") ELSE ReplEnds

stdin_gil_released ==
    /\ Python(Main) /\ console.conn /\ console.size = 0
    /\ console' = [console EXCEPT !.netbuf = FALSE]
    /\ To(Main, "recv")
    /\ gil' = Nobody
    /\ UNCHANGED <<thread, thread_mutex>>

\* mp_carbon_stdint: nothing left, so the netbuf is deleted and another is
\* waited for, with the GIL.  Without a connection it returns 0 at once, which
\* the REPL ignores.
StdinWait ==
    /\ Python(Main) /\ console.conn /\ console.size = 0
    /\ console' = [console EXCEPT !.netbuf = FALSE]
    /\ To(Main, "recv")
    /\ UNCHANGED <<thread, gil, thread_mutex>>

StdinReceived ==
    /\ At(Main, "recv")
    /\ \E n \in 1..MaxSize :
        LET c == [console EXCEPT !.netbuf = TRUE, !.size = n - 1]
        IN  Typed(c) \/ EndOfInput(c)
    /\ UNCHANGED <<thread, gil, thread_mutex>>

\* An error is passed on as CTRL-D.
StdinError ==
    /\ At(Main, "recv") /\ ~console.peer
    /\ EndOfInput(console)
    /\ UNCHANGED <<thread, gil, thread_mutex>>

StdinNext ==
    /\ Python(Main) /\ console.conn /\ console.size > 0
    /\ LET c == [console EXCEPT !.size = @ - 1]
       IN  Typed(c) \/ EndOfInput(c)
    /\ UNCHANGED <<thread, gil, thread_mutex>>

MpNext ==
    \/ \E t \in Threads \cup {Main} :
        \/ GilExit(t) \/ GilEnter(t)
        \/ \E u \in Threads : CreateTask(t, u)
        \/ CreateLink(t)
        \/ ThreadEntry(t) \/ mp_thread_start(t) \/ mp_thread_finish(t)
        \/ mp_carbon_stdout(t)
    \/ ClientLeaves \/ ScriptEnds \/ Accept \/ SystemExit
    \/ StdinWait \/ StdinReceived \/ StdinError \/ StdinNext
-----------------------------------------------------------------------------
(* Properties.                                                             *)

\* Whenever a task may collect garbage, nothing another task lives on is
\* collected: the stack of a task that was interrupted in Python is scanned,
\* and a task that has not started Python yet is in the list with its arguments.
RootsKept ==
    \A t \in Threads \cup {Main} : Python(t) =>
        \A u \in Threads \cup {Main} :
            /\ u # t /\ task[u] = "python" => u \in Scanned
            /\ task[u] \in {"entry", "start"} => u \in Nodes

\* The connection is not closed under the main task that waits on it, although
\* every task closes it when a print fails, and no character is taken from a
\* netbuf or a connection that is gone.
ConsoleInUse ==
    /\ At(Main, "recv") => console.conn
    /\ console.size > 0 => console.netbuf /\ console.conn
=============================================================================
