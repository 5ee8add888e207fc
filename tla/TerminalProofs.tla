--------------------------- MODULE TerminalProofs ---------------------------
(***************************************************************************)
(* The user's terminal is left as it was, for any sizes of the pipe and of *)
(* its reads and any amount of output and resizes.                         *)
(***************************************************************************)
EXTENDS Terminal, TLAPS

-----------------------------------------------------------------------------
(* The inductive invariant *)

PipePcs ==
    {"install_handler", "install_store", "pump", "wait", "join", "drop_handler", "drop_store",
     "drop_pipe"}
RawPcs == {"install_pipe", "drop_join", "raw_restore"} \cup PipePcs
JoinedPcs == {"drop_handler", "drop_store", "drop_pipe", "drop_join", "raw_restore", "returned"}

\* RESIZE_PIPE names the pipe while that is open, and a handler that interrupts
\* the main thread between its load and its write keeps it from closing it.
PipeOK ==
    /\ pc \in PipePcs => pipe = "open"
    /\ RESIZE_PIPE = Fd => pc \in {"pump", "wait", "join", "drop_handler", "drop_store"}
    /\ notify["main"] = "write" => pipe = "open"

\* Raw mode spans the forwarder and the threads that copy.
ModeOK == mode = IF pc \in RawPcs THEN "raw" ELSE "cooked"

\* The output thread is there in raw mode only, and ends once all is shown.
OutputOK ==
    /\ reader # "none" => pc \in {"wait", "join"} \cup JoinedPcs
    /\ reader = "read" => pc \in {"wait", "join"}
    /\ reader = "ended" => broken \/ (written = produced /\ app = "ended")
    /\ ok => pc \in {"join"} \cup JoinedPcs
    /\ ok /\ pc \in JoinedPcs => reader = "ended"

IInv == TypeOK /\ PipeOK /\ NoStrayWrite /\ ModeOK /\ OutputOK /\ ~mangled
-----------------------------------------------------------------------------
\* The conjuncts of TypeOK
Flags ==
    /\ ok \in BOOLEAN /\ winch \in BOOLEAN /\ caught \in BOOLEAN
    /\ broken \in BOOLEAN /\ missed \in BOOLEAN /\ mangled \in BOOLEAN
Values ==
    /\ pc \in PcLabels
    /\ app \in {"none", "created", "running", "ended"} /\ produced \in 0..MaxOutput
    /\ mode \in {"cooked", "raw"} /\ window \in Windows /\ resizes \in 0..MaxResizes
    /\ term \in Windows /\ seen \in Windows
    /\ RESIZE_PIPE \in {NoFd, Fd}
    /\ notify \in [Threads -> {"none", "load", "write"}] /\ stray \subseteq Threads
    /\ pipe \in {"none", "open", "closed"} /\ bytes \in 0..PipeSize
    /\ resizer \in {"none", "read", "size", "set", "ended"}
    /\ reader \in {"none", "read", "ended"} /\ written \in 0..produced
    /\ RESIZE_PIPE = Fd => pipe = "open"

LEMMA TypeParts == (TypeOK <=> Flags /\ Values) /\ (TypeOK' <=> Flags' /\ Values')
BY DEF TypeOK, Flags, Values

LEMMA InitIInv == Init => IInv
<1> SUFFICES ASSUME Init PROVE IInv
  OBVIOUS
<1>1. Flags
  BY DEF Init, Flags
<1>2. Values
  BY TerminalAssumption DEF Init, Values, PcLabels, Threads, Fd, NoFd
<1>3. PipeOK /\ NoStrayWrite
  BY DEF Init, PipeOK, NoStrayWrite, PipePcs, Threads, Fd, NoFd
<1>4. ModeOK /\ OutputOK /\ ~mangled
  BY DEF Init, ModeOK, OutputOK, RawPcs, PipePcs, JoinedPcs
<1> QED BY <1>1, <1>2, <1>3, <1>4, TypeParts DEF IInv

LEMMA NextFlags == Flags /\ [Next]_vars => Flags'
<1> SUFFICES ASSUME Flags, [Next]_vars PROVE Flags'
  OBVIOUS
<1> USE DEF Flags, Goto, mainVars, appVars, userVars, pipeVars, sigVars, threadVars, outVars
<1>1. CASE UNCHANGED vars
  BY <1>1 DEF vars
<1>2. CASE build
  BY <1>2 DEF build
<1>3. CASE into_master
  BY <1>3 DEF into_master
<1>4. CASE start
  BY <1>4 DEF start
<1>5. CASE raw_enable
  BY <1>5 DEF raw_enable
<1>6. CASE install_pipe
  BY <1>6 DEF install_pipe
<1>7. CASE install_handler
  BY <1>7 DEF install_handler
<1>8. CASE install_store
  BY <1>8 DEF install_store
<1>9. CASE pump
  BY <1>9 DEF pump
<1>10. CASE wait
  BY <1>10 DEF wait
<1>11. CASE join
  BY <1>11 DEF join
<1>12. CASE drop_handler
  BY <1>12 DEF drop_handler
<1>13. CASE drop_store
  BY <1>13 DEF drop_store
<1>14. CASE drop_pipe
  BY <1>14 DEF drop_pipe
<1>15. CASE drop_join
  BY <1>15 DEF drop_join
<1>16. CASE raw_restore
  BY <1>16 DEF raw_restore
<1>17. CASE resizer_read
  BY <1>17 DEF resizer_read
<1>18. CASE window_size
  BY <1>18 DEF window_size
<1>19. CASE tcsetwinsize
  BY <1>19 DEF tcsetwinsize
<1>20. CASE copy
  BY <1>20 DEF copy
<1>21. CASE app_writes
  BY <1>21 DEF app_writes
<1>22. CASE app_ends
  BY <1>22 DEF app_ends
<1>23. ASSUME NEW t \in Threads, receive(t) PROVE Flags'
  BY <1>23 DEF receive
<1>24. ASSUME NEW t \in Threads, notify_load(t) PROVE Flags'
  BY <1>24 DEF notify_load
<1>25. ASSUME NEW t \in Threads, notify_write(t) PROVE Flags'
  BY <1>25 DEF notify_write
<1>26. ASSUME NEW size \in Windows, resize(size) PROVE Flags'
  BY <1>26 DEF resize
<1> QED BY <1>1, <1>2, <1>3, <1>4, <1>5, <1>6, <1>7, <1>8, <1>9, <1>10, <1>11, <1>12,
       <1>13, <1>14, <1>15, <1>16, <1>17, <1>18, <1>19, <1>20, <1>21, <1>22, <1>23, <1>24,
       <1>25, <1>26 DEF Next, Main, Resizer, Handler, notify_resize

LEMMA NextValues == Values /\ PipeOK /\ [Next]_vars => Values'
<1> SUFFICES ASSUME Values, PipeOK, [Next]_vars PROVE Values'
  OBVIOUS
<1> USE TerminalAssumption
    DEF Values, PcLabels, At, Goto, Fd, NoFd, mainVars, appVars, userVars, pipeVars, sigVars,
        threadVars, outVars
<1>1. CASE UNCHANGED vars
  BY <1>1 DEF vars
<1>2. CASE build
  BY <1>2 DEF build
<1>3. CASE into_master
  BY <1>3 DEF into_master
<1>4. CASE start
  BY <1>4 DEF start
<1>5. CASE raw_enable
  BY <1>5 DEF raw_enable
<1>6. CASE install_pipe
  BY <1>6 DEF install_pipe, PipeOK
<1>7. CASE install_handler
  BY <1>7 DEF install_handler, PipeOK
<1>8. CASE install_store
  BY <1>8 DEF install_store, PipeOK, PipePcs
<1>9. CASE pump
  BY <1>9 DEF pump
<1>10. CASE wait
  BY <1>10 DEF wait
<1>11. CASE join
  BY <1>11 DEF join
<1>12. CASE drop_handler
  BY <1>12 DEF drop_handler
<1>13. CASE drop_store
  BY <1>13 DEF drop_store
<1>14. CASE drop_pipe
  BY <1>14 DEF drop_pipe, PipeOK
<1>15. CASE drop_join
  BY <1>15 DEF drop_join
<1>16. CASE raw_restore
  BY <1>16 DEF raw_restore
<1>17. CASE resizer_read
  BY <1>17 DEF resizer_read
<1>18. CASE window_size
  BY <1>18 DEF window_size
<1>19. CASE tcsetwinsize
  BY <1>19 DEF tcsetwinsize
<1>20. CASE copy
  BY <1>20 DEF copy
<1>21. CASE app_writes
  BY <1>21 DEF app_writes
<1>22. CASE app_ends
  BY <1>22 DEF app_ends
<1>23. ASSUME NEW t \in Threads, receive(t) PROVE Values'
  BY <1>23 DEF receive
<1>24. ASSUME NEW t \in Threads, notify_load(t) PROVE Values'
  BY <1>24 DEF notify_load
<1>25. ASSUME NEW t \in Threads, notify_write(t) PROVE Values'
  BY <1>25 DEF notify_write
<1>26. ASSUME NEW size \in Windows, resize(size) PROVE Values'
  BY <1>26 DEF resize
<1> QED BY <1>1, <1>2, <1>3, <1>4, <1>5, <1>6, <1>7, <1>8, <1>9, <1>10, <1>11, <1>12,
       <1>13, <1>14, <1>15, <1>16, <1>17, <1>18, <1>19, <1>20, <1>21, <1>22, <1>23, <1>24,
       <1>25, <1>26 DEF Next, Main, Resizer, Handler, notify_resize

LEMMA NextTypes == TypeOK /\ PipeOK /\ [Next]_vars => TypeOK'
BY NextFlags, NextValues, TypeParts

LEMMA NextPipe == TypeOK /\ PipeOK /\ NoStrayWrite /\ [Next]_vars => PipeOK' /\ NoStrayWrite'
<1> SUFFICES ASSUME TypeOK, PipeOK, NoStrayWrite, [Next]_vars PROVE PipeOK' /\ NoStrayWrite'
  OBVIOUS
<1> USE DEF TypeOK, PipeOK, NoStrayWrite, PipePcs, Threads, At, Goto, Fd, NoFd, mainVars, appVars,
            userVars, pipeVars, sigVars, threadVars, outVars
<1>1. CASE UNCHANGED vars
  BY <1>1 DEF vars
<1>2. CASE build
  BY <1>2 DEF build
<1>3. CASE into_master
  BY <1>3 DEF into_master
<1>4. CASE start
  BY <1>4 DEF start
<1>5. CASE raw_enable
  BY <1>5 DEF raw_enable
<1>6. CASE install_pipe
  BY <1>6 DEF install_pipe
<1>7. CASE install_handler
  BY <1>7 DEF install_handler
<1>8. CASE install_store
  BY <1>8 DEF install_store
<1>9. CASE pump
  BY <1>9 DEF pump
<1>10. CASE wait
  BY <1>10 DEF wait
<1>11. CASE join
  BY <1>11 DEF join
<1>12. CASE drop_handler
  BY <1>12 DEF drop_handler
<1>13. CASE drop_store
  BY <1>13 DEF drop_store
<1>14. CASE drop_pipe
  BY <1>14 DEF drop_pipe
<1>15. CASE drop_join
  BY <1>15 DEF drop_join
<1>16. CASE raw_restore
  BY <1>16 DEF raw_restore
<1>17. CASE resizer_read
  BY <1>17 DEF resizer_read
<1>18. CASE window_size
  BY <1>18 DEF window_size
<1>19. CASE tcsetwinsize
  BY <1>19 DEF tcsetwinsize
<1>20. CASE copy
  BY <1>20 DEF copy
<1>21. CASE app_writes
  BY <1>21 DEF app_writes
<1>22. CASE app_ends
  BY <1>22 DEF app_ends
<1>23. ASSUME NEW t \in Threads, receive(t) PROVE PipeOK' /\ NoStrayWrite'
  BY <1>23 DEF receive
<1>24. ASSUME NEW t \in Threads, notify_load(t) PROVE PipeOK' /\ NoStrayWrite'
  BY <1>24 DEF notify_load
<1>25. ASSUME NEW t \in Threads, notify_write(t) PROVE PipeOK' /\ NoStrayWrite'
  BY <1>25 DEF notify_write
<1>26. ASSUME NEW size \in Windows, resize(size) PROVE PipeOK' /\ NoStrayWrite'
  BY <1>26 DEF resize
<1> QED BY <1>1, <1>2, <1>3, <1>4, <1>5, <1>6, <1>7, <1>8, <1>9, <1>10, <1>11, <1>12,
       <1>13, <1>14, <1>15, <1>16, <1>17, <1>18, <1>19, <1>20, <1>21, <1>22, <1>23, <1>24,
       <1>25, <1>26 DEF Next, Main, Resizer, Handler, notify_resize

LEMMA NextOutput ==
    TypeOK /\ ModeOK /\ OutputOK /\ ~mangled /\ [Next]_vars => ModeOK' /\ OutputOK' /\ ~mangled'
<1> SUFFICES ASSUME TypeOK, ModeOK, OutputOK, ~mangled, [Next]_vars
             PROVE  ModeOK' /\ OutputOK' /\ ~mangled'
  OBVIOUS
<1> USE DEF TypeOK, ModeOK, OutputOK, RawPcs, PipePcs, JoinedPcs, At, Goto, mainVars, appVars,
            userVars, pipeVars, sigVars, threadVars, outVars
<1>1. CASE UNCHANGED vars
  BY <1>1 DEF vars
<1>2. CASE build
  BY <1>2 DEF build
<1>3. CASE into_master
  BY <1>3 DEF into_master
<1>4. CASE start
  BY <1>4 DEF start
<1>5. CASE raw_enable
  BY <1>5 DEF raw_enable
<1>6. CASE install_pipe
  BY <1>6 DEF install_pipe
<1>7. CASE install_handler
  BY <1>7 DEF install_handler
<1>8. CASE install_store
  BY <1>8 DEF install_store
<1>9. CASE pump
  BY <1>9 DEF pump
<1>10. CASE wait
  BY <1>10 DEF wait
<1>11. CASE join
  BY <1>11 DEF join
<1>12. CASE drop_handler
  BY <1>12 DEF drop_handler
<1>13. CASE drop_store
  BY <1>13 DEF drop_store
<1>14. CASE drop_pipe
  BY <1>14 DEF drop_pipe
<1>15. CASE drop_join
  BY <1>15 DEF drop_join
<1>16. CASE raw_restore
  BY <1>16 DEF raw_restore
<1>17. CASE resizer_read
  BY <1>17 DEF resizer_read
<1>18. CASE window_size
  BY <1>18 DEF window_size
<1>19. CASE tcsetwinsize
  BY <1>19 DEF tcsetwinsize
<1>20. CASE copy
  BY <1>20 DEF copy
<1>21. CASE app_writes
  BY <1>21 DEF app_writes
<1>22. CASE app_ends
  BY <1>22 DEF app_ends
<1>23. ASSUME NEW t \in Threads, receive(t) PROVE ModeOK' /\ OutputOK' /\ ~mangled'
  BY <1>23 DEF receive
<1>24. ASSUME NEW t \in Threads, notify_load(t) PROVE ModeOK' /\ OutputOK' /\ ~mangled'
  BY <1>24 DEF notify_load
<1>25. ASSUME NEW t \in Threads, notify_write(t) PROVE ModeOK' /\ OutputOK' /\ ~mangled'
  BY <1>25 DEF notify_write
<1>26. ASSUME NEW size \in Windows, resize(size) PROVE ModeOK' /\ OutputOK' /\ ~mangled'
  BY <1>26 DEF resize
<1> QED BY <1>1, <1>2, <1>3, <1>4, <1>5, <1>6, <1>7, <1>8, <1>9, <1>10, <1>11, <1>12,
       <1>13, <1>14, <1>15, <1>16, <1>17, <1>18, <1>19, <1>20, <1>21, <1>22, <1>23, <1>24,
       <1>25, <1>26 DEF Next, Main, Resizer, Handler, notify_resize

LEMMA NextIInv == IInv /\ [Next]_vars => IInv'
BY NextTypes, NextPipe, NextOutput DEF IInv

LEMMA Invariant == Spec => []IInv
BY InitIInv, NextIInv, PTL DEF Spec

\* Sizes and counts stay in their ranges, and RESIZE_PIPE names an open pipe.
THEOREM TerminalTypeCorrect == Spec => []TypeOK
BY Invariant, PTL DEF IInv

\* runtime.rs:286-287: no handler that interrupts the drop of ResizeForwarder
\* writes to a descriptor the pipe has given up.
THEOREM TerminalNoStrayWrite == Spec => []NoStrayWrite
BY Invariant, PTL DEF IInv

\* runtime.rs:63-65, 144: run() returns, from whichever step, with the user's
\* terminal as it was, after all the output, which was shown in raw mode.
THEOREM TerminalRestored == Spec => []Restored
<1>1. IInv => Restored
  BY DEF IInv, ModeOK, OutputOK, RawPcs, PipePcs, JoinedPcs, Restored
<1> QED BY <1>1, Invariant, PTL
=============================================================================
