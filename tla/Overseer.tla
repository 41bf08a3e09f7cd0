------------------------------- MODULE Overseer -------------------------------
(***************************************************************************)
(* The overseer of the Java server: Server.Start, its HTTP server and end  *)
(* (mcserver/mc-server.go, cmd/runserver/run-server.go), and the           *)
(* McProcessHolder (mcprocess/process.go, util/processutil): commands from *)
(* several goroutines into one console pipe, the contexts, interrupt and   *)
(* kill, and the two goroutines that wait for the same exec.Cmd.           *)
(*                                                                         *)
(* Java and package os/exec of Go 1.23 (its stdin-copying goroutine and    *)
(* Cmd.Wait) are external.                                                 *)
(***************************************************************************)
EXTENDS Naturals, Sequences

CONSTANTS
  Calls,        \* calls of Exec; bounds how many there are
  Startup,      \* the one that executes the startup commands
  HttpCalls,    \* those of POST /command; others: the account manager's and
                \* the operator's, which do not end with the HTTP server
  Lines,        \* Lines[c]: how many command lines a call has
  Free,         \* no holder of cmdMu
  PipeCapacity  \* bound: lines the pipe to Java's stdin holds

ASSUME CallsAssumption ==
  /\ Startup \in Calls /\ HttpCalls \subseteq Calls \ {Startup}
  /\ Free \notin Calls
  /\ Lines \in [Calls -> Nat]
ASSUME PipeAssumption == PipeCapacity \in Nat \ {0}

\* The two goroutines that call command.Wait: waitEnd, and the one that
\* InterruptAndKill starts.
Waits == {"waitEnd", "interrupt"}

VARIABLES
  phase,      \* of runserver: before Start, serving, returned nil or an error
  cancelled,  \* s.ctx, and with it m.ctx
  http,       \* the HTTP server
  watched,    \* watchJava has seen cmdDone
  cmdMu,      \* the call that holds it
  pc,         \* Exec: not called, waits for cmdMu, waits for a write, answered
  pos,        \* the line it is at
  writers,    \* lines whose writer goroutine blocks in commandsPipe.Write
  stream,     \* lines that the copying goroutine took, in order
  delivered,  \* how many of them it has written to Java's stdin
  executed,   \* how many of these Java has read
  copier,     \* that goroutine: alive, or ended with its result in the channel
  result,     \* the channel holds the result: there is only one
  errs,       \* Cmd.goroutineErrs is not nil
  wait,       \* the calls of command.Wait
  awaiting,   \* those that receive from the channel, in order
  killer,     \* watchContext: its select, in InterruptAndKill, ended
  java        \* the process

exec == <<cmdMu, pc, pos, writers>>
console == <<stream, delivered, executed>>
cmd == <<copier, result, errs, wait, awaiting>>
server == <<phase, http, watched>>
vars == <<server, cancelled, exec, console, cmd, killer, java>>

CmdLines == UNION {{c} \X (1 .. Lines[c]) : c \in Calls}

TypeOK ==
  /\ phase \in {"new", "running", "ended", "failed"}
  /\ cancelled \in BOOLEAN /\ watched \in BOOLEAN
  /\ http \in {"new", "listening", "failed", "closed"}
  /\ cmdMu \in Calls \cup {Free}
  /\ pc \in [Calls -> {"idle", "lock", "write", "ok", "failed"}]
  /\ pos \in [Calls -> Nat]
  /\ writers \subseteq CmdLines
  /\ stream \in Seq(CmdLines)
  /\ executed \in Nat /\ delivered \in executed .. Len(stream)
  /\ delivered <= executed + PipeCapacity /\ Len(stream) <= delivered + 1
  /\ copier \in {"alive", "ended"} /\ result \in BOOLEAN /\ errs \in BOOLEAN
  /\ wait \in [Waits -> {"none", "start", "process", "await", "returned"}]
  /\ awaiting \in Seq(Waits)
  /\ killer \in {"watch", "interrupted", "end"}
  /\ java \in {"none", "running", "exited"}

Init ==
  /\ phase = "new" /\ cancelled = FALSE /\ http = "new" /\ watched = FALSE
  /\ cmdMu = Free
  /\ pc = [c \in Calls |-> "idle"] /\ pos = [c \in Calls |-> 0]
  /\ writers = {}
  /\ stream = <<>> /\ delivered = 0 /\ executed = 0
  /\ copier = "alive" /\ result = FALSE /\ errs = TRUE
  /\ wait = [w \in Waits |-> "none"] /\ awaiting = <<>>
  /\ killer = "watch"
  /\ java = "none"

-----------------------------------------------------------------------------
\* Commands.  exec writes each line in a goroutine of its own and waits for it
\* or for the context.

\* A fault: the empty piece behind a last newline is not skipped.
ProceedBlank(c, n) ==
  IF n <= Lines[c] + 1
  THEN /\ cmdMu' = c
       /\ pc' = [pc EXCEPT ![c] = "write"]
       /\ pos' = [pos EXCEPT ![c] = n]
       /\ writers' = writers \cup {<<c, n>>}
  ELSE /\ cmdMu' = Free
       /\ pc' = [pc EXCEPT ![c] = "ok"]
       /\ UNCHANGED <<pos, writers>>

\* The call holds cmdMu: it goes on to its n-th line, or has done them all.
Proceed(c, n) ==
  IF n <= Lines[c]
  THEN /\ cmdMu' = c
       /\ pc' = [pc EXCEPT ![c] = "write"]
       /\ pos' = [pos EXCEPT ![c] = n]
       /\ writers' = writers \cup {<<c, n>>}
  ELSE /\ cmdMu' = Free
       /\ pc' = [pc EXCEPT ![c] = "ok"]
       /\ UNCHANGED <<pos, writers>>

\* handleCommand, processInput or the account manager calls Exec.
Call(c) ==
  /\ c # Startup /\ pc[c] = "idle"
  /\ c \in HttpCalls => http = "listening"
  /\ pc' = [pc EXCEPT ![c] = "lock"]
  /\ UNCHANGED <<server, cancelled, cmdMu, pos, writers, console, cmd, killer, java>>

\* A fault: Exec does not take cmdMu.
LockNothing(c) ==
  /\ pc[c] = "lock"
  /\ Proceed(c, 1)
  /\ UNCHANGED <<server, cancelled, console, cmd, killer, java>>

Lock(c) ==
  /\ pc[c] = "lock" /\ cmdMu = Free
  /\ Proceed(c, 1)
  /\ UNCHANGED <<server, cancelled, console, cmd, killer, java>>

\* The writer goroutine has closed writeWaiter.
Written(c) ==
  /\ pc[c] = "write" /\ <<c, pos[c]>> \notin writers
  /\ Proceed(c, pos[c] + 1)
  /\ UNCHANGED <<server, cancelled, console, cmd, killer, java>>

\* A fault: exec waits for the write alone.
AbandonNothing(c) ==
  /\ pc[c] = "write" /\ cancelled /\ <<c, pos[c]>> \notin writers
  /\ cmdMu' = Free
  /\ pc' = [pc EXCEPT ![c] = "failed"]
  /\ UNCHANGED <<server, cancelled, pos, writers, console, cmd, killer, java>>

\* m.ctx is done: the call fails, but a writer goroutine that is still blocked
\* stays behind.  The m.cancel after failed startup commands has no effect:
\* they only fail once the context is cancelled.
Abandon(c) ==
  /\ pc[c] = "write" /\ cancelled
  /\ cmdMu' = Free
  /\ pc' = [pc EXCEPT ![c] = "failed"]
  /\ UNCHANGED <<server, cancelled, pos, writers, console, cmd, killer, java>>

-----------------------------------------------------------------------------
\* External: the goroutine of os/exec that copies the pipe to Java's stdin,
\* Cmd.Wait, and the Java process.

\* A write into an io.Pipe lasts until the other end has read it; which of two
\* blocked writers is next is left open.
CopierReads ==
  /\ copier = "alive" /\ delivered = Len(stream)
  /\ \E l \in writers :
       /\ writers' = writers \ {l}
       /\ stream' = Append(stream, l)
  /\ UNCHANGED <<server, cancelled, cmdMu, pc, pos, delivered, executed, cmd, killer, java>>

CopierWrites ==
  /\ copier = "alive" /\ delivered < Len(stream)
  /\ java = "running" /\ delivered < executed + PipeCapacity
  /\ delivered' = delivered + 1
  /\ UNCHANGED <<server, cancelled, exec, stream, executed, cmd, killer, java>>

\* Only a write tells it that Java is gone.
CopierFails ==
  /\ copier = "alive" /\ delivered < Len(stream)
  /\ java = "exited"
  /\ copier' = "ended" /\ result' = TRUE
  /\ UNCHANGED <<server, cancelled, exec, console, errs, wait, awaiting, killer, java>>

JavaReads ==
  /\ java = "running" /\ executed < delivered
  /\ executed' = executed + 1
  /\ UNCHANGED <<server, cancelled, exec, stream, delivered, cmd, killer, java>>

\* Java is stopped by a command or obeys an interrupt, or it crashes.
JavaExits ==
  /\ java = "running"
  /\ java' = "exited"
  /\ UNCHANGED <<server, cancelled, exec, console, cmd, killer>>

\* Process.Wait has returned, to both callers.  Wait goes on to the goroutines,
\* unless another call has been through with them.
WaitProcess(w) ==
  /\ wait[w] = "process" /\ java = "exited"
  /\ IF errs
     THEN wait' = [wait EXCEPT ![w] = "await"] /\ awaiting' = Append(awaiting, w)
     ELSE wait' = [wait EXCEPT ![w] = "returned"] /\ UNCHANGED awaiting
  /\ UNCHANGED <<server, cancelled, exec, console, copier, result, errs, killer, java>>

\* awaitGoroutines: the channel gives its one value to who waits longest.
WaitGoroutines ==
  /\ result /\ awaiting # <<>>
  /\ result' = FALSE /\ errs' = FALSE
  /\ wait' = [wait EXCEPT ![Head(awaiting)] = "returned"]
  /\ awaiting' = Tail(awaiting)
  /\ UNCHANGED <<server, cancelled, exec, console, copier, killer, java>>

-----------------------------------------------------------------------------
\* The end of the process.

cmdDone == wait["waitEnd"] = "returned"

WatchEnds ==
  /\ killer = "watch" /\ cmdDone
  /\ killer' = "end"
  /\ UNCHANGED <<server, cancelled, exec, console, cmd, java>>

\* InterruptAndKill starts its goroutine and sends the signal, which Java may
\* obey sooner or later or not at all.
Interrupt ==
  /\ killer = "watch" /\ cancelled
  /\ killer' = "interrupted"
  /\ wait' = [wait EXCEPT !["interrupt"] = "start"]
  /\ UNCHANGED <<server, cancelled, exec, console, copier, result, errs, awaiting, java>>

\* A fault, and what Go did before 1.20: the second Wait returns at once.
SecondWaitRefused ==
  /\ wait["interrupt"] = "start"
  /\ wait' = [wait EXCEPT !["interrupt"] = "returned"]
  /\ UNCHANGED <<server, cancelled, exec, console, copier, result, errs, awaiting,
                 killer, java>>

\* "Wait was already called" is only said once the first call has a
\* ProcessState; before, both wait for the process.
SecondWait ==
  /\ wait["interrupt"] = "start"
  /\ wait' = [wait EXCEPT !["interrupt"] =
                IF wait["waitEnd"] = "process" THEN "process" ELSE "returned"]
  /\ UNCHANGED <<server, cancelled, exec, console, copier, result, errs, awaiting,
                 killer, java>>

InterruptEnds ==
  /\ killer = "interrupted" /\ wait["interrupt"] = "returned"
  /\ killer' = "end"
  /\ UNCHANGED <<server, cancelled, exec, console, cmd, java>>

\* Without effect on a process that has ended.
TimeoutKill ==
  /\ killer = "interrupted"
  /\ killer' = "end"
  /\ java' = "exited"
  /\ UNCHANGED <<server, cancelled, exec, console, cmd>>

-----------------------------------------------------------------------------
\* The server.

\* configure or command.Start fails: runserver returns the error, main exits
\* with status 1.
StartFails ==
  /\ phase = "new"
  /\ phase' = "failed"
  /\ cancelled' = TRUE
  /\ UNCHANGED <<http, watched, exec, console, cmd, killer, java>>

\* cmdMu is taken for the startup commands before anybody else can call Exec.
Start ==
  /\ phase = "new"
  /\ phase' = "running"
  /\ java' = "running"
  /\ wait' = [wait EXCEPT !["waitEnd"] = "process"]
  /\ Proceed(Startup, 1)
  /\ UNCHANGED <<cancelled, http, watched, console, copier, result, errs, awaiting,
                 killer>>

\* ListenAndServe: the port may be in use, or the server closed already.
Listen ==
  /\ http = "new"
  /\ http' \in IF cancelled THEN {"closed"} ELSE {"listening", "failed"}
  /\ UNCHANGED <<phase, watched, cancelled, exec, console, cmd, killer, java>>

\* POST /shutdown.
Shutdown ==
  /\ http = "listening"
  /\ cancelled' = TRUE
  /\ UNCHANGED <<server, exec, console, cmd, killer, java>>

\* ListenAndServe returns as soon as srv.Shutdown is called.
CloseHttp ==
  /\ http = "listening" /\ cancelled
  /\ http' = "closed"
  /\ UNCHANGED <<phase, watched, cancelled, exec, console, cmd, killer, java>>

\* A fault: watchJava does not cancel the context.
WatchJavaOnly ==
  /\ cmdDone /\ ~watched
  /\ watched' = TRUE
  /\ UNCHANGED <<phase, http, cancelled, exec, console, cmd, killer, java>>

WatchJava ==
  /\ cmdDone /\ ~watched
  /\ watched' = TRUE
  /\ cancelled' = TRUE
  /\ UNCHANGED <<phase, http, exec, console, cmd, killer, java>>

\* A fault: watchJava does not add itself to the wait group.
EndWithHttp ==
  /\ http \in {"failed", "closed"}
  /\ phase' = "ended"
  /\ cancelled' = TRUE
  /\ UNCHANGED <<http, watched, exec, console, cmd, killer, java>>

\* watchWg: both goroutines of the wait group have ended.  doneC is closed,
\* runserver returns nil and main exits with
\* status 0, whatever Java ended with: waitEnd has only logged it.
End ==
  /\ watched /\ http \in {"failed", "closed"}
  /\ phase' = "ended"
  /\ cancelled' = TRUE
  /\ UNCHANGED <<http, watched, exec, console, cmd, killer, java>>

CallStep(c) == Lock(c) \/ Written(c) \/ Abandon(c)
CopierStep == CopierReads \/ CopierWrites \/ CopierFails
HttpStep == Listen \/ CloseHttp

Running ==
  \/ \E c \in Calls : Call(c) \/ CallStep(c)
  \/ CopierStep
  \/ JavaReads \/ JavaExits
  \/ (\E w \in Waits : WaitProcess(w)) \/ WaitGoroutines
  \/ WatchEnds \/ Interrupt \/ SecondWait \/ InterruptEnds \/ TimeoutKill
  \/ HttpStep \/ Shutdown \/ WatchJava \/ End

Next == Start \/ StartFails \/ (phase = "running" /\ Running)

\* The overseer's goroutines run on, and so does Java's reading while it lives.
\* Nobody has to call Exec or ask for a shutdown, and Java may ignore an
\* interrupt, but the timer fires.
Fairness ==
  /\ WF_vars(Start)
  /\ \A c \in Calls : WF_vars(phase = "running" /\ CallStep(c))
  /\ WF_vars(phase = "running" /\ CopierStep) /\ WF_vars(phase = "running" /\ JavaReads)
  /\ \A w \in Waits : WF_vars(phase = "running" /\ WaitProcess(w))
  /\ WF_vars(phase = "running" /\ WaitGoroutines)
  /\ WF_vars(phase = "running" /\ Interrupt) /\ WF_vars(phase = "running" /\ SecondWait)
  /\ WF_vars(phase = "running" /\ TimeoutKill)
  /\ WF_vars(phase = "running" /\ HttpStep)
  /\ WF_vars(phase = "running" /\ WatchJava) /\ WF_vars(phase = "running" /\ End)

Spec == Init /\ [][Next]_vars /\ Fairness

-----------------------------------------------------------------------------
\* What a writer goroutine may write after its call was cut off: the line the call
\* was at.
Stray(i) ==
  LET c == stream[i][1]
  IN pc[c] = "failed" /\ stream[i][2] = pos[c]

\* Of every call, answered or not, the lines reach the console in order and once each,
\* and not mixed with those of others; out of place is at most the very line at which
\* a call was cut off, be it between the lines of another call or behind them.
SerialConsole ==
  /\ \A i, j \in 1 .. Len(stream) :
       i < j /\ stream[i][1] = stream[j][1] => stream[i][2] < stream[j][2]
  /\ \A i, j, k \in 1 .. Len(stream) :
       i < j /\ j < k /\ stream[i][1] = stream[k][1] /\ stream[j][1] # stream[i][1] =>
         Stray(j) \/ Stray(k)

\* The overseer never ends while its Java process lives, whether the HTTP server
\* failed, a shutdown was asked for or Java itself ended.
NoOrphanJava == phase \in {"ended", "failed"} => java # "running"

\* Every call of Exec is answered, or the overseer ends: a command blocked by a
\* dead Java is itself what makes the death known, and the context then frees all.
CallsReturn ==
  \A c \in Calls : pc[c] \in {"lock", "write"} ~> pc[c] \in {"ok", "failed"} \/ phase = "ended"

\* After a shutdown request Java does not live on, be it deaf to interrupts.
JavaEnds == cancelled ~> java # "running"

\* When Java has ended by itself and nobody interrupts it, the next command ends
\* the overseer.
DeathNoticed ==
  (wait["waitEnd"] = "await" /\ wait["interrupt"] \notin {"process", "await"} /\ errs /\ writers # {})
    ~> phase = "ended"

\* "kill java timeout" (process.go:20) bounds how long a shutdown may take: after
\* /shutdown the overseer ends.  Violated: waitEnd waits for the copying goroutine,
\* which waits for one more command, and even then the one result may go to the
\* Wait of InterruptAndKill.
ShutdownEnds == cancelled ~> phase \in {"ended", "failed"}
=============================================================================
