------------------------------ MODULE Terminal ------------------------------
(***************************************************************************)
(* The terminal of an interactive run, in src/src/runtime.rs: the user's   *)
(* one in raw mode, the container's one kept at its size, and the threads  *)
(* between them, from ConsoleSocket::bind to the drops of RawMode and      *)
(* ResizeForwarder.  SIGWINCH interrupts the main thread, or another one,  *)
(* at any point.  A process has one such run and exits after it; the rest  *)
(* of the run is Runtime's.                                                *)
(***************************************************************************)
EXTENDS Integers, FiniteSets

CONSTANTS
    Windows,    \* sizes of the user's window
    PipeSize,   \* bytes the resize pipe holds
    BufSize,    \* bytes its thread reads at a time
    MaxOutput,  \* bound on the pieces of output the app writes
    MaxResizes  \* bound on the user's resizes

ASSUME TerminalAssumption ==
    /\ PipeSize \in Nat \ {0} /\ BufSize \in 1..PipeSize
    /\ MaxOutput \in Nat /\ MaxResizes \in Nat

VARIABLES
    pc,         \* where the main thread is
    ok,         \* whether the closure of run() returns an exit code
    app,        \* the app: "none", "created", "running" or "ended"
    produced,   \* how much it has written to its terminal
    mode,       \* the user's terminal: "cooked" or "raw"
    window,     \* its size
    term,       \* the size of the container's terminal
    resizes     \* how often the user has changed it

VARIABLES
    winch,      \* whether a SIGWINCH is pending
    caught,     \* whether notify_resize() is its handler
    RESIZE_PIPE,\* -1, or the number of the pipe's write end
    notify,     \* notify_resize() on each thread
    pipe,       \* the write end: "none", "open" or "closed"
    bytes,      \* what is in the pipe
    resizer,    \* the thread that reads it
    seen,       \* the size it has read
    reader      \* the thread that copies the output

VARIABLES
    written,    \* how much output the user has been shown
    broken,     \* whether writing that has failed
    missed,     \* history: a resize nobody was told of, and none since
    mangled,    \* history: output shown outside raw mode
    stray       \* history: the threads that wrote to a descriptor not the pipe's

mainVars == <<pc, ok>>
appVars == <<app, produced>>
userVars == <<mode, window, resizes>>
pipeVars == <<pipe, bytes>>
sigVars == <<winch, caught, RESIZE_PIPE, notify, stray>>
threadVars == <<resizer, seen>>
outVars == <<reader, written, broken, mangled>>
vars == <<mainVars, appVars, userVars, term, sigVars, pipeVars, threadVars, outVars, missed>>

Threads == {"main", "other"}
Fd == 3
NoFd == -1

At(label) == pc = label /\ notify["main"] = "none"
Goto(label) == pc' = label /\ UNCHANGED ok
-----------------------------------------------------------------------------
(* The main thread *)

\* ConsoleSocket::bind(), then build(): youki makes the terminal and sends it.
build ==
    /\ At("build")
    /\ \/ Goto("failed") /\ UNCHANGED app
       \/ Goto("into_master") /\ app' = "created"
    /\ UNCHANGED <<produced, userVars, term, sigVars, pipeVars, threadVars, outVars, missed>>

\* into_master() gives the container's terminal the size of the user's; then the
\* pid is published and the bridge started.
into_master ==
    /\ At("into_master")
    /\ \/ Goto("failed") /\ UNCHANGED <<term, missed>>
       \/ Goto("start") /\ term' = window /\ missed' = FALSE
    /\ UNCHANGED <<appVars, userVars, sigVars, pipeVars, threadVars, outVars>>

\* Mutant: the output is copied from the start of the app on.
start_pumps ==
    /\ At("start")
    /\ \/ Goto("returned") /\ UNCHANGED <<app, reader>>
       \/ Goto("raw_enable") /\ app' = "running" /\ reader' = "read"
    /\ UNCHANGED <<produced, userVars, term, sigVars, pipeVars, threadVars, written, broken,
                   mangled, missed>>

\* container.start()
start ==
    /\ At("start")
    /\ \/ Goto("returned") /\ UNCHANGED app
       \/ Goto("raw_enable") /\ app' = "running"
    /\ UNCHANGED <<produced, userVars, term, sigVars, pipeVars, threadVars, outVars, missed>>

\* RawMode::enable()
raw_enable ==
    /\ At("raw_enable")
    /\ \/ Goto("returned") /\ UNCHANGED mode
       \/ Goto("install_pipe") /\ mode' = "raw"
    /\ UNCHANGED <<appVars, window, resizes, term, sigVars, pipeVars, threadVars, outVars, missed>>

\* ResizeForwarder::install(): the pipe and its thread,
install_pipe ==
    /\ At("install_pipe")
    /\ \/ Goto("raw_restore") /\ UNCHANGED <<pipe, resizer>>
       \/ Goto("install_handler") /\ pipe' = "open" /\ resizer' = "read"
    /\ UNCHANGED <<appVars, userVars, term, sigVars, bytes, seen, outVars, missed>>

\* the handler, whose failure closes the pipe and so ends the thread,
install_handler ==
    /\ At("install_handler")
    /\ \/ Goto("raw_restore") /\ pipe' = "closed" /\ UNCHANGED caught
       \/ Goto("install_store") /\ caught' = TRUE /\ UNCHANGED pipe
    /\ UNCHANGED <<appVars, userVars, term, winch, RESIZE_PIPE, notify, stray, bytes,
                   threadVars, outVars, missed>>

\* and the descriptor.
install_store ==
    /\ At("install_store")
    /\ RESIZE_PIPE' = Fd
    /\ Goto("pump")
    /\ UNCHANGED <<appVars, userVars, term, winch, caught, notify, stray, pipeVars,
                   threadVars, outVars, missed>>

\* pump(): the thread that copies the input lasts as long as the process.
pump ==
    /\ At("pump")
    /\ reader' = "read"
    /\ Goto("wait")
    /\ UNCHANGED <<appVars, userVars, term, sigVars, pipeVars, threadVars, written, broken,
                   mangled, missed>>

\* wait(); nothing else collects the container, so it finds it.
wait ==
    /\ At("wait") /\ app = "ended"
    /\ pc' = "join" /\ ok' = TRUE
    /\ UNCHANGED <<appVars, userVars, term, sigVars, pipeVars, threadVars, outVars, missed>>

\* Mutant: the thread is left to itself.
join_not ==
    /\ At("join")
    /\ Goto("drop_handler")
    /\ UNCHANGED <<appVars, userVars, term, sigVars, pipeVars, threadVars, outVars, missed>>

\* reader.join(): the output thread
join ==
    /\ At("join") /\ reader = "ended"
    /\ Goto("drop_handler")
    /\ UNCHANGED <<appVars, userVars, term, sigVars, pipeVars, threadVars, outVars, missed>>

\* Mutant: the pipe is closed before the handler is turned off.
drop_handler_last ==
    /\ At("drop_handler")
    /\ pipe' = "closed"
    /\ Goto("drop_store")
    /\ UNCHANGED <<appVars, userVars, term, sigVars, bytes, threadVars, outVars, missed>>

\* ResizeForwarder::drop(): the handler is turned off, which discards a pending
\* signal, as it is one that is ignored by default;
drop_handler ==
    /\ At("drop_handler")
    /\ caught' = FALSE /\ winch' = FALSE
    /\ Goto("drop_store")
    /\ UNCHANGED <<appVars, userVars, term, RESIZE_PIPE, notify, stray, pipeVars, threadVars,
                   outVars, missed>>

drop_store ==
    /\ At("drop_store")
    /\ RESIZE_PIPE' = NoFd
    /\ Goto("drop_pipe")
    /\ UNCHANGED <<appVars, userVars, term, winch, caught, notify, stray, pipeVars, threadVars,
                   outVars, missed>>

\* Mutant: the pipe is only closed with the forwarder's fields, after the join.
drop_pipe_late ==
    /\ At("drop_pipe")
    /\ Goto("drop_join")
    /\ UNCHANGED <<appVars, userVars, term, sigVars, pipeVars, threadVars, outVars, missed>>

drop_pipe ==
    /\ At("drop_pipe")
    /\ pipe' = "closed"
    /\ Goto("drop_join")
    /\ UNCHANGED <<appVars, userVars, term, sigVars, bytes, threadVars, outVars, missed>>

drop_join ==
    /\ At("drop_join") /\ resizer = "ended"
    /\ Goto("raw_restore")
    /\ UNCHANGED <<appVars, userVars, term, sigVars, pipeVars, threadVars, outVars, missed>>

\* RawMode::drop()
raw_restore ==
    /\ At("raw_restore")
    /\ mode' = "cooked"
    /\ Goto("returned")
    /\ UNCHANGED <<appVars, window, resizes, term, sigVars, pipeVars, threadVars, outVars, missed>>

Main ==
    \/ build \/ into_master \/ start \/ raw_enable
    \/ install_pipe \/ install_handler \/ install_store \/ pump \/ wait \/ join
    \/ drop_handler \/ drop_store \/ drop_pipe \/ drop_join \/ raw_restore
-----------------------------------------------------------------------------
(* Resizes *)

\* The user resizes the window; without a handler the signal is ignored.
resize(size) ==
    /\ resizes < MaxResizes /\ size # window
    /\ window' = size
    /\ resizes' = resizes + 1
    /\ winch' = caught
    /\ missed' = (RESIZE_PIPE = NoFd)
    /\ UNCHANGED <<mainVars, appVars, mode, term, caught, RESIZE_PIPE, notify, stray, pipeVars,
                   threadVars, outVars>>

\* Any thread may get the signal; those that outlive the forwarder are the main one
\* and the input thread, or that of the loopback bridge.
receive(t) ==
    /\ winch /\ caught /\ notify[t] = "none"
    /\ t = "other" => pc \in {"wait", "join", "drop_handler", "drop_store", "drop_pipe", "drop_join"}
    /\ winch' = FALSE
    /\ notify' = [notify EXCEPT ![t] = "load"]
    /\ UNCHANGED <<mainVars, appVars, userVars, term, caught, RESIZE_PIPE, stray, pipeVars,
                   threadVars, outVars, missed>>

\* notify_resize(): RESIZE_PIPE.load
notify_load(t) ==
    /\ notify[t] = "load"
    /\ notify' = [notify EXCEPT ![t] = IF RESIZE_PIPE = NoFd THEN "none" ELSE "write"]
    /\ UNCHANGED <<mainVars, appVars, userVars, term, winch, caught, RESIZE_PIPE, stray,
                   pipeVars, threadVars, outVars, missed>>

\* A byte into the pipe, unless that is full
notify_write(t) ==
    /\ notify[t] = "write"
    /\ bytes' = IF pipe = "open" /\ bytes < PipeSize THEN bytes + 1 ELSE bytes
    /\ stray' = IF pipe = "open" THEN stray ELSE stray \cup {t}
    /\ notify' = [notify EXCEPT ![t] = "none"]
    /\ UNCHANGED <<mainVars, appVars, userVars, term, winch, caught, RESIZE_PIPE, pipe,
                   threadVars, outVars, missed>>

notify_resize(t) == notify_load(t) \/ notify_write(t)

\* The thread of ResizeForwarder: it reads what is there, or the end of the pipe,
resizer_read ==
    /\ resizer = "read"
    /\ \/ bytes > 0 /\ resizer' = "size"
       \/ bytes = 0 /\ pipe = "closed" /\ resizer' = "ended"
    /\ bytes' = IF bytes < BufSize THEN 0 ELSE bytes - BufSize
    /\ UNCHANGED <<mainVars, appVars, userVars, term, sigVars, pipe, seen, outVars, missed>>

\* asks for the size,
window_size ==
    /\ resizer = "size"
    /\ seen' = window
    /\ resizer' = "set"
    /\ UNCHANGED <<mainVars, appVars, userVars, term, sigVars, pipeVars, outVars, missed>>

\* Mutant: notices that have come in by then count as dealt with.
tcsetwinsize_drains ==
    /\ resizer = "set"
    /\ term' = seen
    /\ bytes' = 0
    /\ resizer' = "read"
    /\ UNCHANGED <<mainVars, appVars, userVars, sigVars, pipe, seen, outVars, missed>>

\* and hands it on.
tcsetwinsize ==
    /\ resizer = "set"
    /\ term' = seen
    /\ resizer' = "read"
    /\ UNCHANGED <<mainVars, appVars, userVars, sigVars, pipeVars, seen, outVars, missed>>

Resizer == resizer_read \/ window_size \/ tcsetwinsize
-----------------------------------------------------------------------------
(* Output *)

app_writes ==
    /\ app = "running" /\ produced < MaxOutput
    /\ produced' = produced + 1
    /\ UNCHANGED <<mainVars, app, userVars, term, sigVars, pipeVars, threadVars, outVars, missed>>

\* The app ends, and with it every process that has its terminal.
app_ends ==
    /\ app \in {"created", "running"}
    /\ app' = "ended"
    /\ UNCHANGED <<mainVars, produced, userVars, term, sigVars, pipeVars, threadVars, outVars,
                   missed>>

\* copy(): what the app has written is read and shown; an error ends it, and so does
\* the end of the terminal, which comes after what was written to it.
copy ==
    /\ reader = "read"
    /\ \/ /\ written < produced
          /\ \/ written' = written + 1 /\ UNCHANGED <<broken, reader>>
             \/ broken' = TRUE /\ reader' = "ended" /\ UNCHANGED written
          /\ mangled' = (mangled \/ mode # "raw")
       \/ /\ written = produced /\ app = "ended"
          /\ reader' = "ended"
          /\ UNCHANGED <<written, broken, mangled>>
    /\ UNCHANGED <<mainVars, appVars, userVars, term, sigVars, pipeVars, threadVars, missed>>
-----------------------------------------------------------------------------
Init ==
    /\ pc = "build" /\ ok = FALSE
    /\ app = "none" /\ produced = 0
    /\ mode = "cooked" /\ window \in Windows /\ resizes = 0
    /\ term = window
    /\ winch = FALSE /\ caught = FALSE /\ RESIZE_PIPE = NoFd
    /\ notify = [t \in Threads |-> "none"] /\ stray = {}
    /\ pipe = "none" /\ bytes = 0
    /\ resizer = "none" /\ seen = window
    /\ reader = "none" /\ written = 0 /\ broken = FALSE /\ mangled = FALSE
    /\ missed = FALSE

Handler == \E t \in Threads : receive(t) \/ notify_resize(t)

Next ==
    \/ Main \/ Resizer \/ copy \/ Handler
    \/ \E size \in Windows : resize(size)
    \/ app_writes \/ app_ends

Spec == Init /\ [][Next]_vars

\* The threads are scheduled and the user's terminal takes output; nothing makes an
\* app end or the user act.
FairSpec ==
    /\ Spec
    /\ WF_vars(Main) /\ WF_vars(Resizer) /\ WF_vars(copy)
    /\ \A t \in Threads : WF_vars(notify_resize(t))
    /\ WF_vars(receive("main"))
-----------------------------------------------------------------------------
PcLabels ==
    {"build", "into_master", "start", "raw_enable", "install_pipe", "install_handler",
     "install_store", "pump", "wait", "join", "drop_handler", "drop_store", "drop_pipe",
     "drop_join", "raw_restore", "returned", "failed"}

TypeOK ==
    /\ pc \in PcLabels /\ ok \in BOOLEAN
    /\ app \in {"none", "created", "running", "ended"} /\ produced \in 0..MaxOutput
    /\ mode \in {"cooked", "raw"} /\ window \in Windows /\ resizes \in 0..MaxResizes
    /\ term \in Windows /\ seen \in Windows
    /\ winch \in BOOLEAN /\ caught \in BOOLEAN /\ RESIZE_PIPE \in {NoFd, Fd}
    /\ notify \in [Threads -> {"none", "load", "write"}] /\ stray \subseteq Threads
    /\ pipe \in {"none", "open", "closed"} /\ bytes \in 0..PipeSize
    /\ resizer \in {"none", "read", "size", "set", "ended"}
    /\ reader \in {"none", "read", "ended"} /\ written \in 0..produced
    /\ broken \in BOOLEAN /\ missed \in BOOLEAN /\ mangled \in BOOLEAN
    /\ RESIZE_PIPE = Fd => pipe = "open"

\* runtime.rs:286-287, "Turn the handler off before closing the pipe, or a late signal
\* could write to a descriptor number something else now owns": no handler that
\* interrupts the drop does.  One on a thread that runs beside it still may.
NoStrayWrite == stray \subseteq {"other"}

\* runtime.rs:63-65 and 144: once run() returns, whichever step failed, the user's
\* terminal is as it was, and not before the last of the output, which is shown in raw
\* mode.  A run that has an exit code has shown all the app wrote, unless the user's
\* terminal did not take it: the output is "waited for so that no output is lost".
Restored ==
    /\ pc \in {"returned", "failed"} => mode = "cooked"
    /\ pc = "returned" /\ ok => written = produced \/ broken
    /\ ~mangled

\* runtime.rs:237, "Keeps the container's terminal the same size as the user's": a resize
\* once the pipe is there reaches the container, however signals and the thread's two
\* calls interleave.  (One between into_master and that point is `missed` until the next.)
SizeFollows ==
    (pc = "wait" /\ ~missed /\ term # window)
        ~> (missed \/ term = window \/ pc # "wait")

\* A run whose app has ended returns: neither thread keeps the drops waiting.
RunEnds == pc = "wait" /\ app = "ended" ~> pc = "returned"
=============================================================================
