---------------------------- MODULE OverseerProofs ----------------------------
(***************************************************************************)
(* Overseer keeps its types, leaves no Java process behind and writes the  *)
(* lines of commands to the console in order, but for those calls were cut *)
(* off at, for every set of calls with any number of lines and every       *)
(* capacity of the pipe.                                                   *)
(***************************************************************************)
EXTENDS Overseer, TLAPS

USE DEF exec, console, cmd, server, vars

\* What the processes are when the overseer has not started or has ended, and
\* what it takes for a Wait to get as far as the goroutines.
Processes ==
  /\ wait \in [Waits -> {"none", "start", "process", "await", "returned"}]
  /\ phase \in {"new", "failed"} =>
       java = "none" /\ ~watched /\ \A w \in Waits : wait[w] = "none"
  /\ awaiting # <<>> => java = "exited"
  /\ watched => cmdDone
  /\ cmdDone => java = "exited"
  /\ phase = "ended" => java = "exited"

\* Every step keeps it: only a Java that has exited lets a Wait return.
LEMMA ProcessesStep == Processes /\ [Next]_vars => Processes'
<1> SUFFICES ASSUME Processes, [Next]_vars PROVE Processes'
  OBVIOUS
<1> USE DEF Processes, cmdDone, Waits
<1>1. CASE Start \/ StartFails
  <2>1. CASE Start
    BY <2>1 DEF Start
  <2>2. CASE StartFails
    BY <2>2 DEF StartFails
  <2> QED
    BY <1>1, <2>1, <2>2
<1>2. CASE phase = "running" /\ \E c \in Calls : Call(c) \/ CallStep(c)
  BY <1>2 DEF Call, CallStep, Lock, Written, Abandon
<1>3. CASE phase = "running" /\ (CopierStep \/ JavaReads \/ JavaExits)
  BY <1>3 DEF CopierStep, CopierReads, CopierWrites, CopierFails, JavaReads, JavaExits
<1>4. ASSUME phase = "running", NEW w \in Waits, WaitProcess(w) PROVE Processes'
  BY <1>4 DEF WaitProcess
<1>5. CASE phase = "running" /\ WaitGoroutines
  BY <1>5 DEF WaitGoroutines
<1>6. CASE phase = "running" /\ (WatchEnds \/ InterruptEnds \/ TimeoutKill \/ HttpStep \/ Shutdown)
  BY <1>6 DEF WatchEnds, InterruptEnds, TimeoutKill, HttpStep, Listen, CloseHttp, Shutdown
<1>7. CASE phase = "running" /\ Interrupt
  BY <1>7 DEF Interrupt
<1>8. CASE phase = "running" /\ SecondWait
  BY <1>8 DEF SecondWait
<1>9. CASE phase = "running" /\ (WatchJava \/ End)
  BY <1>9 DEF WatchJava, End
<1>10. CASE UNCHANGED vars
  BY <1>10
<1> QED
  BY <1>1, <1>2, <1>3, <1>4, <1>5, <1>6, <1>7, <1>8, <1>9, <1>10 DEF Next, Running

\* The overseer never ends while Java lives: main waits for the wait group, that for
\* watchJava, and that for a Wait which only Java's exit lets go on.
THEOREM NoOrphan == Spec => []NoOrphanJava
<1>1. Init => Processes
  BY DEF Init, Processes, cmdDone, Waits
<1>2. Processes => NoOrphanJava
  BY DEF Processes, NoOrphanJava
<1> QED
  BY <1>1, <1>2, ProcessesStep, PTL DEF Spec

-----------------------------------------------------------------------------
\* The type invariant in parts.
Flags == cancelled \in BOOLEAN /\ watched \in BOOLEAN /\ result \in BOOLEAN /\ errs \in BOOLEAN
Control ==
  /\ phase \in {"new", "running", "ended", "failed"}
  /\ http \in {"new", "listening", "failed", "closed"}
  /\ copier \in {"alive", "ended"}
  /\ killer \in {"watch", "interrupted", "end"}
  /\ java \in {"none", "running", "exited"}
  /\ wait \in [Waits -> {"none", "start", "process", "await", "returned"}]
  /\ awaiting \in Seq(Waits)
Callers ==
  /\ cmdMu \in Calls \cup {Free}
  /\ pc \in [Calls -> {"idle", "lock", "write", "ok", "failed"}]
  /\ pos \in [Calls -> Nat]
  /\ writers \subseteq CmdLines
Pipe ==
  /\ stream \in Seq(CmdLines)
  /\ executed \in Nat /\ delivered \in executed .. Len(stream)
  /\ delivered <= executed + PipeCapacity /\ Len(stream) <= delivered + 1

\* Together they are the type invariant.
LEMMA TypeParts == TypeOK <=> Flags /\ Control /\ Callers /\ Pipe
BY DEF TypeOK, Flags, Control, Callers, Pipe

\* The contexts, watchJava and the channel of the copying goroutine.
LEMMA FlagsStep == Flags /\ [Next]_vars => Flags'
<1> SUFFICES ASSUME Flags, [Next]_vars PROVE Flags'
  OBVIOUS
<1> USE DEF Flags
<1>1. CASE Start
  BY <1>1 DEF Start
<1>2. CASE StartFails
  BY <1>2 DEF StartFails
<1>3. ASSUME NEW c \in Calls, Call(c) \/ CallStep(c) PROVE Flags'
  BY <1>3 DEF Call, CallStep, Lock, Written, Abandon
<1>4. CASE CopierStep
  BY <1>4 DEF CopierStep, CopierReads, CopierWrites, CopierFails
<1>5. CASE JavaReads \/ JavaExits \/ \E w \in Waits : WaitProcess(w)
  BY <1>5 DEF JavaReads, JavaExits, WaitProcess
<1>6. CASE WaitGoroutines
  BY <1>6 DEF WaitGoroutines
<1>7. CASE WatchEnds \/ Interrupt \/ SecondWait \/ InterruptEnds \/ TimeoutKill
  BY <1>7 DEF WatchEnds, Interrupt, SecondWait, InterruptEnds, TimeoutKill
<1>8. CASE HttpStep
  BY <1>8 DEF HttpStep, Listen, CloseHttp
<1>9. CASE Shutdown
  BY <1>9 DEF Shutdown
<1>10. CASE WatchJava
  BY <1>10 DEF WatchJava
<1>11. CASE End
  BY <1>11 DEF End
<1>12. CASE UNCHANGED vars
  BY <1>12
<1> QED
  BY <1>1, <1>2, <1>3, <1>4, <1>5, <1>6, <1>7, <1>8, <1>9, <1>10, <1>11, <1>12 DEF Next, Running

\* The goroutines, the Waits and the process.
LEMMA ControlStep == Control /\ [Next]_vars => Control'
<1> SUFFICES ASSUME Control, [Next]_vars PROVE Control'
  OBVIOUS
<1> USE DEF Control
<1>1. CASE Start \/ StartFails
  BY <1>1 DEF Start, StartFails, Waits
<1>2. ASSUME NEW c \in Calls, Call(c) \/ CallStep(c) PROVE Control'
  BY <1>2 DEF Call, CallStep, Lock, Written, Abandon
<1>3. CASE CopierStep \/ JavaReads \/ JavaExits
  BY <1>3 DEF CopierStep, CopierReads, CopierWrites, CopierFails, JavaReads, JavaExits
<1>4. ASSUME NEW w \in Waits, WaitProcess(w) PROVE Control'
  <2>1. /\ \/ wait' = [wait EXCEPT ![w] = "await"] /\ awaiting' = Append(awaiting, w)
           \/ wait' = [wait EXCEPT ![w] = "returned"] /\ UNCHANGED awaiting
        /\ UNCHANGED <<phase, http, copier, killer, java>>
    BY <1>4 DEF WaitProcess
  <2> QED
    BY <2>1
<1>5. CASE WaitGoroutines
  <2>1. awaiting' \in Seq(Waits)
    BY <1>5 DEF WaitGoroutines
  <2> QED
    BY <1>5, <2>1 DEF WaitGoroutines
<1>6. CASE WatchEnds \/ InterruptEnds \/ TimeoutKill
  BY <1>6 DEF WatchEnds, InterruptEnds, TimeoutKill
<1>7. CASE Interrupt \/ SecondWait
  BY <1>7 DEF Interrupt, SecondWait, Waits
<1>8. CASE HttpStep \/ Shutdown \/ WatchJava \/ End
  BY <1>8 DEF HttpStep, Listen, CloseHttp, Shutdown, WatchJava, End
<1>9. CASE UNCHANGED vars
  BY <1>9
<1> QED
  BY <1>1, <1>2, <1>3, <1>4, <1>5, <1>6, <1>7, <1>8, <1>9 DEF Next, Running

\* A line that Proceed writes is one of the call.
LEMMA ProceedTypes ==
  ASSUME Callers, NEW c \in Calls, NEW n \in Nat \ {0}, Proceed(c, n)
  PROVE  Callers'
<1>1. CASE n <= Lines[c]
  <2>1. <<c, n>> \in CmdLines
    BY <1>1, CallsAssumption DEF CmdLines
  <2> QED
    BY <1>1, <2>1 DEF Proceed, Callers
<1>2. CASE ~(n <= Lines[c])
  BY <1>2 DEF Proceed, Callers
<1> QED
  BY <1>1, <1>2

\* The calls of Exec and their lines.
LEMMA CallersStep == Callers /\ [Next]_vars => Callers'
<1> SUFFICES ASSUME Callers, [Next]_vars PROVE Callers'
  OBVIOUS
<1>1. CASE Start
  BY <1>1, CallsAssumption, ProceedTypes DEF Start
<1>2. ASSUME NEW c \in Calls, Call(c) \/ Abandon(c) PROVE Callers'
  BY <1>2 DEF Call, Abandon, Callers
<1>3. ASSUME NEW c \in Calls, Lock(c) PROVE Callers'
  BY <1>3, ProceedTypes DEF Lock
<1>4. ASSUME NEW c \in Calls, Written(c) PROVE Callers'
  <2>1. Proceed(c, pos[c] + 1) /\ pos[c] + 1 \in Nat \ {0}
    BY <1>4 DEF Written, Callers
  <2> QED
    BY <2>1, ProceedTypes
<1>5. CASE CopierStep \/ JavaReads \/ JavaExits
  BY <1>5 DEF CopierStep, CopierReads, CopierWrites, CopierFails, JavaReads, JavaExits, Callers
<1>6. CASE (\E w \in Waits : WaitProcess(w)) \/ WaitGoroutines \/ WatchEnds \/ Interrupt
  BY <1>6 DEF WaitProcess, WaitGoroutines, WatchEnds, Interrupt, Callers
<1>7. CASE SecondWait \/ InterruptEnds \/ TimeoutKill \/ HttpStep \/ Shutdown \/ WatchJava \/ End
  BY <1>7
     DEF SecondWait, InterruptEnds, TimeoutKill, HttpStep, Listen, CloseHttp, Shutdown,
         WatchJava, End, Callers
<1>8. CASE StartFails \/ UNCHANGED vars
  BY <1>8 DEF StartFails, Callers
<1> QED
  BY <1>1, <1>2, <1>3, <1>4, <1>5, <1>6, <1>7, <1>8 DEF Next, Running, CallStep

\* The pipe and Java's stdin.
LEMMA PipeStep == Pipe /\ Callers /\ [Next]_vars => Pipe'
<1> SUFFICES ASSUME Pipe, Callers, [Next]_vars PROVE Pipe'
  OBVIOUS
<1>1. PipeCapacity \in Nat /\ Len(stream) \in Nat /\ delivered \in Nat
  BY PipeAssumption DEF Pipe
<1>2. CASE CopierReads
  <2>1. PICK l \in writers : writers' = writers \ {l} /\ stream' = Append(stream, l)
    BY <1>2 DEF CopierReads
  <2>2. stream' \in Seq(CmdLines) /\ Len(stream') = Len(stream) + 1
    BY <2>1 DEF Pipe, Callers
  <2> QED
    BY <1>1, <1>2, <2>2 DEF CopierReads, Pipe
<1>3. CASE CopierWrites
  BY <1>1, <1>3 DEF CopierWrites, Pipe
<1>4. CASE JavaReads
  BY <1>1, <1>4 DEF JavaReads, Pipe
<1>5. ASSUME UNCHANGED console PROVE Pipe'
  BY <1>5 DEF Pipe
<1>6. CASE Start \/ StartFails \/ \E c \in Calls : Call(c) \/ CallStep(c)
  BY <1>5, <1>6 DEF Start, StartFails, Call, CallStep, Lock, Written, Abandon
<1>7. CASE CopierFails \/ JavaExits \/ (\E w \in Waits : WaitProcess(w)) \/ WaitGoroutines
  BY <1>5, <1>7 DEF CopierFails, JavaExits, WaitProcess, WaitGoroutines
<1>8. CASE WatchEnds \/ Interrupt \/ SecondWait \/ InterruptEnds \/ TimeoutKill \/ HttpStep
  BY <1>5, <1>8 DEF WatchEnds, Interrupt, SecondWait, InterruptEnds, TimeoutKill,
                    HttpStep, Listen, CloseHttp
<1>9. CASE Shutdown \/ WatchJava \/ End \/ UNCHANGED vars
  BY <1>5, <1>9 DEF Shutdown, WatchJava, End
<1> QED
  BY <1>2, <1>3, <1>4, <1>6, <1>7, <1>8, <1>9 DEF Next, Running, CopierStep

\* Every step keeps the types.
LEMMA TypeStep == TypeOK /\ [Next]_vars => TypeOK'
<1> SUFFICES ASSUME TypeOK, [Next]_vars PROVE Flags' /\ Control' /\ Callers' /\ Pipe'
  BY DEF TypeOK, Flags, Control, Callers, Pipe
<1> QED
  BY TypeParts, FlagsStep, ControlStep, CallersStep, PipeStep

\* The start is typed.
LEMMA InitTypes == Init => TypeOK
<1> SUFFICES ASSUME Init PROVE Flags /\ Control /\ Callers /\ Pipe
  BY TypeParts
<1>1. Flags
  BY DEF Init, Flags
<1>2. Control
  BY DEF Init, Control, Waits
<1>3. Callers
  BY DEF Init, Callers
<1>4. Pipe
  BY PipeAssumption DEF Init, Pipe
<1> QED
  BY <1>1, <1>2, <1>3, <1>4

\* The types are kept, the pipe to Java within its capacity, and what Java has
\* read within what was delivered, for every pipe and all calls.
THEOREM TypeCorrect == Spec => []TypeOK
BY InitTypes, TypeStep, PTL DEF Spec

-----------------------------------------------------------------------------
\* Who writes has the mutex; the only line of a call that is not in the console is the
\* one it is at; what comes behind a line of the call that writes is its own or stray.
Before == phase = "new" => cmdMu = Free /\ \A c \in Calls : pc[c] = "idle"
Holder == \A c \in Calls : pc[c] = "write" => cmdMu = c
Unwritten ==
  \A c \in Calls : pc[c] \in {"idle", "lock"} =>
    /\ \A l \in writers : l[1] # c
    /\ \A i \in 1 .. Len(stream) : stream[i][1] # c
Blocked == \A l \in writers : pc[l[1]] \in {"write", "failed"} /\ l[2] = pos[l[1]]
Earlier ==
  \A i \in 1 .. Len(stream) :
    LET c == stream[i][1]
    IN stream[i][2] <= pos[c] /\ (<<c, pos[c]>> \in writers => stream[i][2] < pos[c])
WriterLast ==
  \A i, j \in 1 .. Len(stream) :
    i < j /\ pc[stream[i][1]] = "write" /\ stream[j][1] # stream[i][1] => Stray(j)
InOrder ==
  \A i, j \in 1 .. Len(stream) :
    i < j /\ stream[i][1] = stream[j][1] => stream[i][2] < stream[j][2]
Apart ==
  \A i, j, k \in 1 .. Len(stream) :
    i < j /\ j < k /\ stream[i][1] = stream[k][1] /\ stream[j][1] # stream[i][1] =>
      Stray(j) \/ Stray(k)
SerialInv ==
  /\ Before /\ Holder /\ Unwritten /\ Blocked /\ Earlier /\ WriterLast /\ InOrder /\ Apart

\* The lines and who they are of.
LEMMA LineTypes ==
  ASSUME Callers, Pipe
  PROVE  /\ Len(stream) \in Nat
         /\ \A l \in writers : l \in CmdLines
         /\ \A i \in 1 .. Len(stream) : stream[i] \in CmdLines
         /\ \A l \in CmdLines : l[1] \in Calls /\ l[2] \in Nat /\ l = <<l[1], l[2]>>
BY CallsAssumption DEF Callers, Pipe, CmdLines

\* A line that is stray remains so, as a call that has failed does nothing more.
LEMMA StrayStays ==
  ASSUME Callers, Pipe, UNCHANGED stream,
         \A c \in Calls : pc[c] = "failed" => pc'[c] = "failed" /\ pos'[c] = pos[c]
  PROVE  \A i \in 1 .. Len(stream) : Stray(i) => Stray(i)'
BY LineTypes DEF Stray

\* A call begins with its first line, or goes on to its next one, or is done; its
\* earlier lines are all in the console.
LEMMA ProceedKeeps ==
  ASSUME Callers, Pipe, Callers', SerialInv, NEW c \in Calls, NEW n \in Nat \ {0}, Proceed(c, n),
         phase' # "new",
         \/ pc[c] \in {"idle", "lock"} /\ (\A d \in Calls : pc[d] # "write")
         \/ pc[c] = "write" /\ n = pos[c] + 1 /\ <<c, pos[c]>> \notin writers,
         UNCHANGED stream
  PROVE  SerialInv'
<1> USE DEF SerialInv
<1>1. \A l \in writers : l[1] # c
  BY LineTypes DEF Unwritten, Blocked
<1>2. \A i \in 1 .. Len(stream) : stream[i][1] = c =>
        pc[c] = "write" /\ stream[i][2] < n /\ stream[i][2] <= pos[c]
  BY LineTypes DEF Unwritten, Earlier, Callers
<1>3. \A d \in Calls : pc'[d] = "write" => d = c
  BY CallsAssumption DEF Holder, Proceed, Callers
<1>4. /\ pc'[c] \in {"write", "ok"}
      /\ \A d \in Calls \ {c} : pc'[d] = pc[d] /\ pos'[d] = pos[d]
      /\ (pc'[c] = "write" => cmdMu' = c /\ pos'[c] = n /\ writers' = writers \cup {<<c, n>>})
      /\ (pc'[c] = "ok" => writers' = writers /\ pos'[c] = pos[c])
  BY DEF Proceed, Callers
<1>5. Before' /\ Holder'
  BY <1>3, <1>4 DEF Before, Holder
<1>6. Unwritten'
  BY <1>4 DEF Unwritten
<1>7. Blocked'
  <2> SUFFICES ASSUME NEW l \in writers'
               PROVE  pc'[l[1]] \in {"write", "failed"} /\ l[2] = pos'[l[1]]
    BY DEF Blocked
  <2>1. CASE l \in writers
    BY <1>1, <1>4, <2>1, LineTypes DEF Blocked
  <2>2. CASE l \notin writers
    BY <1>4, <2>2
  <2> QED
    BY <2>1, <2>2
<1>8. Earlier'
  <2> SUFFICES ASSUME NEW i \in 1 .. Len(stream), NEW d, d = stream[i][1]
               PROVE  /\ stream[i][2] <= pos'[d]
                      /\ <<d, pos'[d]>> \in writers' => stream[i][2] < pos'[d]
    BY DEF Earlier
  <2>1. d \in Calls /\ stream[i][2] \in Nat
    BY LineTypes
  <2>2. CASE d = c
    <3>1. CASE pc'[c] = "write"
      <4>1. stream[i][2] < n /\ pos'[d] = n
        BY <1>2, <1>4, <2>2, <3>1
      <4> QED
        BY <2>1, <4>1
    <3>2. CASE pc'[c] = "ok"
      BY <1>1, <1>2, <1>4, <2>2, <3>2, LineTypes
    <3> QED
      BY <1>4, <3>1, <3>2
  <2>3. CASE d # c
    <3>1. pos'[d] = pos[d] /\ (<<d, pos[d]>> \in writers' => <<d, pos[d]>> \in writers)
      BY <1>4, <2>1, <2>3
    <3> QED
      BY <3>1 DEF Earlier
  <2> QED
    BY <2>2, <2>3
<1>9. \A i \in 1 .. Len(stream) : Stray(i) => Stray(i)'
  <2>1. pc[c] # "failed"
    OBVIOUS
  <2>2. \A d \in Calls : pc[d] = "failed" => pc'[d] = "failed" /\ pos'[d] = pos[d]
    BY <1>4, <2>1
  <2> QED
    BY <2>2, StrayStays
<1>10. WriterLast'
  <2> SUFFICES ASSUME NEW i \in 1 .. Len(stream), NEW j \in 1 .. Len(stream), i < j,
                      pc'[stream[i][1]] = "write", stream[j][1] # stream[i][1]
               PROVE  Stray(j)'
    BY DEF WriterLast
  <2>1. stream[i][1] = c
    BY <1>3, LineTypes
  <2>2. pc[c] = "write"
    BY <1>2, <2>1
  <2> QED
    BY <1>9, <2>1, <2>2 DEF WriterLast
<1>11. InOrder' /\ Apart'
  BY <1>9 DEF InOrder, Apart
<1> QED
  BY <1>5, <1>6, <1>7, <1>8, <1>10, <1>11

\* The goroutine of os/exec takes a line: of the call that writes, behind all its
\* others, or one that a failed call has left, which is stray.
LEMMA ReadKeeps ==
  ASSUME Callers, Pipe, SerialInv, CopierReads
  PROVE  SerialInv'
<1> USE DEF SerialInv
<1>1. PICK l \in writers : writers' = writers \ {l} /\ stream' = Append(stream, l)
  BY DEF CopierReads
<1>2. UNCHANGED <<phase, cmdMu, pc, pos>>
  BY DEF CopierReads
<1> DEFINE N == Len(stream)
<1>3. /\ N \in Nat /\ Len(stream') = N + 1 /\ stream'[N + 1] = l
      /\ \A i \in 1 .. N : stream'[i] = stream[i]
      /\ \A i \in 1 .. N + 1 : i \in 1 .. N \/ i = N + 1
  BY <1>1 DEF Pipe
<1>4. /\ l[1] \in Calls /\ l = <<l[1], l[2]>>
      /\ pc[l[1]] \in {"write", "failed"} /\ l[2] = pos[l[1]] /\ pos[l[1]] \in Nat
  BY LineTypes DEF Blocked, Callers
<1>5. Before' /\ Holder' /\ Unwritten' /\ Blocked'
  <2>1. Before' /\ Holder' /\ Blocked'
    BY <1>1, <1>2 DEF Before, Holder, Blocked
  <2>2. ASSUME NEW c \in Calls, pc[c] \in {"idle", "lock"}
        PROVE  /\ \A m \in writers' : m[1] # c
               /\ \A i \in 1 .. Len(stream') : stream'[i][1] # c
    BY <1>1, <1>3, <1>4, <2>2 DEF Unwritten
  <2> QED
    BY <1>2, <2>1, <2>2 DEF Unwritten
<1>6. \A i \in 1 .. N : stream[i][1] = l[1] => stream[i][2] < l[2]
  BY <1>4 DEF Earlier
<1>7. Earlier'
  <2> SUFFICES ASSUME NEW i \in 1 .. N + 1
               PROVE  LET c == stream'[i][1]
                      IN stream'[i][2] <= pos[c]
                         /\ (<<c, pos[c]>> \in writers' => stream'[i][2] < pos[c])
    BY <1>2, <1>3 DEF Earlier
  <2>1. CASE i = N + 1
    <3>1. stream'[i] = l /\ l[2] = pos[l[1]] /\ <<l[1], pos[l[1]]>> \notin writers'
      BY <1>1, <1>3, <1>4, <2>1
    <3> QED
      BY <1>4, <3>1
  <2>2. CASE i \in 1 .. N
    BY <1>1, <1>3, <2>2 DEF Earlier
  <2> QED
    BY <1>3, <2>1, <2>2
<1>8. /\ \A i \in 1 .. N : Stray(i) => Stray(i)'
      /\ \A i \in 1 .. N + 1 : i = N + 1 /\ pc[l[1]] = "failed" => Stray(i)'
  <2>1. ASSUME NEW i \in 1 .. N, Stray(i) PROVE Stray(i)'
    BY <1>2, <1>3, <2>1 DEF Stray
  <2>2. ASSUME NEW i \in 1 .. N + 1, i = N + 1, pc[l[1]] = "failed" PROVE Stray(i)'
    BY <1>2, <1>3, <1>4, <2>2 DEF Stray
  <2> QED
    BY <2>1, <2>2
<1>9. WriterLast'
  <2> SUFFICES ASSUME NEW i \in 1 .. N + 1, NEW j \in 1 .. N + 1, i < j,
                      pc[stream'[i][1]] = "write", stream'[j][1] # stream'[i][1]
               PROVE  Stray(j)'
    BY <1>2, <1>3 DEF WriterLast
  <2>1. i \in 1 .. N /\ stream'[i] = stream[i]
    BY <1>3
  <2>2. CASE j = N + 1
    <3>1. stream[i][1] \in Calls /\ stream[i][1] # l[1] /\ pc[stream[i][1]] = "write"
      BY <1>3, <2>1, <2>2, LineTypes
    <3>2. pc[l[1]] = "failed"
      BY <1>4, <3>1 DEF Holder
    <3> QED
      BY <1>8, <2>2, <3>2
  <2>3. CASE j \in 1 .. N
    BY <1>3, <1>8, <2>1, <2>3 DEF WriterLast
  <2> QED
    BY <1>3, <2>2, <2>3
<1>10. InOrder'
  <2> SUFFICES ASSUME NEW i \in 1 .. N + 1, NEW j \in 1 .. N + 1, i < j,
                      stream'[i][1] = stream'[j][1]
               PROVE  stream'[i][2] < stream'[j][2]
    BY <1>3 DEF InOrder
  <2>1. i \in 1 .. N /\ stream'[i] = stream[i]
    BY <1>3
  <2>2. CASE j = N + 1
    BY <1>3, <1>6, <2>1, <2>2
  <2>3. CASE j \in 1 .. N
    BY <1>3, <2>1, <2>3 DEF InOrder
  <2> QED
    BY <1>3, <2>2, <2>3
<1>11. Apart'
  <2> SUFFICES ASSUME NEW i \in 1 .. N + 1, NEW j \in 1 .. N + 1, NEW k \in 1 .. N + 1,
                      i < j, j < k, stream'[i][1] = stream'[k][1],
                      stream'[j][1] # stream'[i][1]
               PROVE  Stray(j)' \/ Stray(k)'
    BY <1>3 DEF Apart
  <2>1. i \in 1 .. N /\ j \in 1 .. N /\ stream'[i] = stream[i] /\ stream'[j] = stream[j]
    BY <1>3
  <2>2. CASE k \in 1 .. N
    BY <1>3, <1>8, <2>1, <2>2 DEF Apart
  <2>3. CASE k = N + 1 /\ pc[l[1]] = "failed"
    BY <1>8, <2>3
  <2>4. CASE k = N + 1 /\ pc[l[1]] = "write"
    BY <1>3, <1>8, <2>1, <2>4 DEF WriterLast
  <2> QED
    BY <1>3, <1>4, <2>2, <2>3, <2>4
<1> QED
  BY <1>5, <1>7, <1>9, <1>10, <1>11

\* Every step keeps the lines in order.
LEMMA SerialStep == TypeOK /\ SerialInv /\ [Next]_vars => SerialInv'
<1> SUFFICES ASSUME Callers, Pipe, SerialInv, [Next]_vars PROVE SerialInv'
  BY TypeParts
<1>1. Callers'
  BY CallersStep
<1>2. CASE Start
  <2>1. /\ Startup \in Calls /\ Proceed(Startup, 1) /\ phase' # "new" /\ UNCHANGED stream
        /\ pc[Startup] \in {"idle", "lock"} /\ \A d \in Calls : pc[d] # "write"
        /\ 1 \in Nat \ {0}
    BY <1>2, CallsAssumption DEF Start, SerialInv, Before
  <2> QED
    BY <1>1, <2>1, ProceedKeeps
<1>3. ASSUME NEW c \in Calls, Lock(c), phase = "running" PROVE SerialInv'
  <2>1. /\ Proceed(c, 1) /\ phase' # "new" /\ UNCHANGED stream
        /\ pc[c] \in {"idle", "lock"} /\ \A d \in Calls : pc[d] # "write"
        /\ 1 \in Nat \ {0}
    BY <1>3, CallsAssumption DEF Lock, SerialInv, Holder
  <2> QED
    BY <1>1, <2>1, ProceedKeeps
<1>4. ASSUME NEW c \in Calls, Written(c), phase = "running" PROVE SerialInv'
  <2>1. /\ Proceed(c, pos[c] + 1) /\ phase' # "new" /\ UNCHANGED stream
        /\ pc[c] = "write" /\ <<c, pos[c]>> \notin writers /\ pos[c] + 1 \in Nat \ {0}
    BY <1>4 DEF Written, Callers
  <2> QED
    BY <1>1, <2>1, ProceedKeeps
<1>5. CASE CopierReads
  BY <1>5, ReadKeeps
<1>6. ASSUME NEW c \in Calls, Call(c) \/ Abandon(c), phase = "running" PROVE SerialInv'
  <2>1. /\ phase' = phase /\ UNCHANGED <<writers, stream, pos>>
        /\ \/ pc[c] = "idle" /\ pc' = [pc EXCEPT ![c] = "lock"] /\ UNCHANGED cmdMu
           \/ pc[c] = "write" /\ pc' = [pc EXCEPT ![c] = "failed"] /\ cmdMu' = Free
    BY <1>6 DEF Call, Abandon
  <2>2. \A d \in Calls : /\ d # c => pc'[d] = pc[d]
                         /\ pc'[d] \in {"write", "ok", "idle"} => pc'[d] = pc[d]
                         /\ pc'[d] = "lock" => pc[d] \in {"idle", "lock"}
                         /\ pc[d] = "failed" => pc'[d] = "failed"
    BY <2>1 DEF Callers
  <2>3. Before' /\ Holder' /\ Unwritten'
    <3>1. Before'
      BY <1>6, <2>1 DEF Before
    <3>2. Holder'
      <4> SUFFICES ASSUME NEW d \in Calls, pc'[d] = "write" PROVE cmdMu' = d
        BY DEF Holder
      <4>1. pc[d] = "write" /\ cmdMu = d
        BY <2>2 DEF SerialInv, Holder
      <4>2. d # c
        BY <2>1, <4>1 DEF Callers
      <4>3. pc[c] # "write"
        BY <4>1, <4>2 DEF SerialInv, Holder
      <4> QED
        BY <2>1, <4>1, <4>3
    <3>3. Unwritten'
      BY <2>1, <2>2 DEF SerialInv, Unwritten
    <3> QED
      BY <3>1, <3>2, <3>3
  <2>4. Blocked'
    <3> SUFFICES ASSUME NEW l \in writers
                 PROVE  pc'[l[1]] \in {"write", "failed"} /\ l[2] = pos[l[1]]
      BY <2>1 DEF Blocked
    <3>1. pc'[l[1]] = "failed" \/ pc'[l[1]] = pc[l[1]]
      BY <2>1, LineTypes DEF SerialInv, Blocked, Callers
    <3> QED
      BY <3>1 DEF SerialInv, Blocked
  <2>5. \A i \in 1 .. Len(stream) : Stray(i) => Stray(i)'
    BY <2>1, <2>2, StrayStays
  <2>6. Earlier' /\ InOrder' /\ Apart'
    BY <2>1, <2>5 DEF SerialInv, Earlier, InOrder, Apart
  <2>7. WriterLast'
    BY <2>1, <2>2, <2>5, LineTypes DEF SerialInv, WriterLast
  <2> QED
    BY <2>3, <2>4, <2>6, <2>7 DEF SerialInv
<1>7. ASSUME UNCHANGED <<exec, stream>>, phase' # "new" \/ UNCHANGED phase PROVE SerialInv'
  BY <1>7 DEF SerialInv, Before, Holder, Unwritten, Blocked, Earlier, WriterLast, InOrder, Apart, Stray
<1>8. CASE StartFails \/ UNCHANGED vars
  BY <1>7, <1>8 DEF StartFails
<1>9. CASE CopierWrites \/ CopierFails \/ JavaReads \/ JavaExits
  BY <1>7, <1>9 DEF CopierWrites, CopierFails, JavaReads, JavaExits
<1>10. CASE (\E w \in Waits : WaitProcess(w)) \/ WaitGoroutines \/ WatchEnds \/ Interrupt
  BY <1>7, <1>10 DEF WaitProcess, WaitGoroutines, WatchEnds, Interrupt
<1>11. CASE SecondWait \/ InterruptEnds \/ TimeoutKill \/ HttpStep \/ Shutdown \/ WatchJava \/ End
  BY <1>7, <1>11
     DEF SecondWait, InterruptEnds, TimeoutKill, HttpStep, Listen, CloseHttp, Shutdown, WatchJava, End
<1> QED
  BY <1>2, <1>3, <1>4, <1>5, <1>6, <1>8, <1>9, <1>10, <1>11
     DEF Next, Running, CallStep, CopierStep

\* The lines of each call reach the console in order, and another call's between them
\* or one of its own behind those of another only where a call was cut off at it.
THEOREM ConsoleSerial == Spec => []SerialConsole
<1>1. Init => SerialInv
  BY DEF Init, SerialInv, Before, Holder, Unwritten, Blocked, Earlier, WriterLast, InOrder, Apart
<1>2. SerialInv => SerialConsole
  BY DEF SerialInv, InOrder, Apart, SerialConsole
<1> QED
  BY <1>1, <1>2, InitTypes, TypeStep, SerialStep, PTL DEF Spec
=============================================================================
