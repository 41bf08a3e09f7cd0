-------------------------- MODULE UpdatesPumpProofs --------------------------
(***************************************************************************)
(* UpdatesPump keeps its types, loses and repeats no update while the bot  *)
(* is up, and its Clear waits in one situation only, for every capacity of *)
(* the channel and any number of updates and starts.                       *)
(***************************************************************************)
EXTENDS UpdatesPump, TLAPS

USE DEF telegram, poller, proxying, history, vars

\* The proxy holds an update while it sends one, and runs once main has started it.
Sending == (held # None <=> proxy = "send") /\ (main = "run" => proxy = "none")

\* The type invariant in parts.
Numbers ==
  /\ sent \in 0 .. MaxUpdates /\ confirmed \in 0 .. sent
  /\ got \in 0 .. sent /\ offset \in 1 .. got + 1
  /\ base \in 0 .. sent /\ runs \in 1 .. MaxRuns
Queues ==
  /\ ch \in Seq(Ids) /\ Len(ch) <= Buffer
  /\ held \in Ids \cup {None}
  /\ handled \in Seq(Ids) /\ dropped \in Seq(Ids)
Modes ==
  /\ proxy \in {"none", "select", "send", "ended"}
  /\ main \in {"run", "sleep", "len", "receive", "looping", "stuck", "ended", "down"}
  /\ cancelled \in BOOLEAN

\* Together they are the type invariant.
LEMMA TypeParts == TypeOK <=> Numbers /\ Queues /\ Modes
BY DEF TypeOK, Numbers, Queues, Modes

\* Both are kept by the poller, the proxy and the loop.
LEMMA PumpTypes ==
  ASSUME Numbers, Queues, Modes, Sending,
         Poller \/ ProxyTake \/ ProxyEnds \/ Handle \/ ClearReceive
  PROVE  Numbers' /\ Queues' /\ Modes' /\ Sending'
<1>1. Numbers'
  <2> USE DEF Numbers
  <2>1. CASE Request
    <3>1. confirmed' = offset - 1 /\ UNCHANGED <<sent, got, offset, base, runs>>
      BY <2>1 DEF Request
    <3>2. offset - 1 \in 0 .. sent
      OBVIOUS
    <3>3. /\ sent' \in 0 .. MaxUpdates /\ confirmed' \in 0 .. sent' /\ got' \in 0 .. sent'
          /\ offset' \in 1 .. got' + 1 /\ base' \in 0 .. sent' /\ runs' \in 1 .. MaxRuns
      BY <3>1, <3>2
    <3> QED
      BY <3>3
  <2>2. CASE Answer
    <3>1. PICK g \in offset .. sent : got' = g /\ UNCHANGED <<sent, confirmed, offset, base, runs>>
      BY <2>2 DEF Answer
    <3>2. g \in 0 .. sent /\ offset \in 1 .. g + 1
      BY <3>1
    <3> QED
      BY <3>1, <3>2
  <2>3. CASE Push
    <3>1. offset' = offset + 1 /\ offset <= got /\ UNCHANGED <<sent, confirmed, got, base, runs>>
      BY <2>3 DEF Push
    <3>2. offset + 1 \in 1 .. got + 1
      BY <3>1
    <3> QED
      BY <3>1, <3>2
  <2>4. CASE ProxyTake \/ ProxyEnds \/ Handle \/ ClearReceive
    BY <2>4 DEF ProxyTake, ProxyEnds, Handle, ClearReceive
  <2> QED
    BY <2>1, <2>2, <2>3, <2>4 DEF Poller
<1>2. Queues'
  <2>1. CASE Request \/ Answer \/ ProxyEnds
    BY <2>1 DEF Request, Answer, ProxyEnds, Queues
  <2>2. CASE Push
    <3>1. offset \in Ids
      BY <2>2, BoundsAssumption DEF Push, Numbers, Ids
    <3> QED
      BY <2>2, <3>1, BoundsAssumption DEF Push, Queues
  <2>3. CASE ProxyTake \/ ClearReceive
    <3>1. Head(ch) \in Ids /\ Tail(ch) \in Seq(Ids) /\ Len(Tail(ch)) <= Buffer
      BY <2>3, BoundsAssumption DEF ProxyTake, ClearReceive, Queues
    <3>2. CASE ProxyTake
      BY <3>1, <3>2 DEF ProxyTake, Queues
    <3>3. CASE ClearReceive
      BY <3>1, <3>3 DEF ClearReceive, Queues
    <3> QED
      BY <2>3, <3>2, <3>3
  <2>4. CASE Handle
    <3>1. held \in Ids
      BY <2>4 DEF Handle, Sending, Queues
    <3> QED
      BY <2>4, <3>1 DEF Handle, Queues
  <2> QED
    BY <2>1, <2>2, <2>3, <2>4 DEF Poller
<1>3. Modes'
  <2>1. CASE Poller \/ ClearReceive
    BY <2>1 DEF Poller, Request, Answer, Push, ClearReceive, Modes
  <2>2. CASE ProxyTake \/ Handle
    BY <2>2 DEF ProxyTake, Handle, Modes
  <2>3. CASE ProxyEnds
    <3>1. proxy' = "ended" /\ UNCHANGED <<main, cancelled>>
      BY <2>3 DEF ProxyEnds
    <3> QED
      BY <3>1 DEF Modes
  <2> QED
    BY <2>1, <2>2, <2>3
<1>4. Sending'
  <2>1. CASE ProxyTake
    <3>1. Head(ch) # None
      <4>1. Head(ch) \in Ids
        BY <2>1 DEF ProxyTake, Queues
      <4> QED
        BY <4>1 DEF Ids, None
    <3> QED
      BY <2>1, <3>1 DEF ProxyTake, Sending
  <2>2. CASE Poller \/ ProxyEnds \/ Handle \/ ClearReceive
    BY <2>2 DEF Poller, Request, Answer, Push, ProxyEnds, Handle, ClearReceive, Sending
  <2> QED
    BY <2>1, <2>2
<1> QED
  BY <1>1, <1>2, <1>3, <1>4

\* And by users and main's goroutine, whenever it ends and is started again.
LEMMA MainTypes ==
  ASSUME Numbers, Queues, Modes, Sending,
         \/ Send \/ RunFails \/ StartPolling \/ WakeUp \/ ClearLen \/ Done
         \/ Signal \/ Crash \/ Restart \/ UNCHANGED vars
  PROVE  Numbers' /\ Queues' /\ Modes' /\ Sending'
<1>1. CASE Send
  BY <1>1, BoundsAssumption DEF Send, Numbers, Queues, Modes, Sending
<1>2. CASE RunFails \/ WakeUp \/ ClearLen \/ Done
  BY <1>2 DEF RunFails, WakeUp, ClearLen, Done, Numbers, Queues, Modes, Sending
<1>3. CASE StartPolling
  <2>1. Sending'
    BY <1>3 DEF StartPolling, Sending
  <2>2. Numbers' /\ Queues' /\ Modes'
    BY <1>3 DEF StartPolling, Numbers, Queues, Modes
  <2> QED
    BY <2>1, <2>2
<1>4. CASE Signal
  BY <1>4 DEF Signal, Numbers, Queues, Modes, Sending
<1>5. CASE Crash
  BY <1>5 DEF Crash, Numbers, Queues, Modes, Sending
<1>6. CASE Restart
  <2>1. /\ ch' = <<>> /\ handled' = <<>> /\ dropped' = <<>> /\ held' = None
        /\ proxy' = "none" /\ main' = "run" /\ cancelled' = FALSE
    BY <1>6 DEF Restart, Fresh
  <2>2. Numbers'
    BY <1>6, BoundsAssumption DEF Restart, Fresh, Numbers
  <2>3. Queues'
    BY <2>1, BoundsAssumption DEF Queues
  <2>4. Modes' /\ Sending'
    BY <2>1 DEF Modes, Sending
  <2> QED
    BY <2>2, <2>3, <2>4
<1>7. CASE UNCHANGED vars
  BY <1>7 DEF Numbers, Queues, Modes, Sending
<1> QED
  BY <1>1, <1>2, <1>3, <1>4, <1>5, <1>6, <1>7

\* Each step is one of these.
LEMMA TypeStep == TypeOK /\ Sending /\ [Next]_vars => TypeOK' /\ Sending'
<1> SUFFICES ASSUME Numbers, Queues, Modes, Sending, [Next]_vars
             PROVE  Numbers' /\ Queues' /\ Modes' /\ Sending'
  BY DEF TypeOK, Numbers, Queues, Modes
<1> QED
  BY PumpTypes, MainTypes DEF Next, Main, Rest

\* A first start is typed.
LEMMA InitTypes == Init => TypeOK /\ Sending
<1> SUFFICES ASSUME Init PROVE TypeOK /\ Sending
  OBVIOUS
<1>1. Numbers
  BY BoundsAssumption DEF Init, Numbers
<1>2. Queues
  BY BoundsAssumption DEF Init, Queues
<1>3. Modes
  BY DEF Init, Modes
<1>4. Sending
  BY DEF Init, Sending
<1> QED
  BY <1>1, <1>2, <1>3, <1>4, TypeParts

\* The types are kept; the channel stays within its capacity and no offset runs
\* ahead of what Telegram has.
THEOREM TypeCorrect == Spec => []TypeOK
BY InitTypes, TypeStep, PTL DEF Spec

-----------------------------------------------------------------------------
\* A receive that found the channel empty is waited for while the proxy has what
\* was in it.
LEMMA OutrunStep == TypeOK /\ ClearOutrun /\ [Next]_vars => ClearOutrun'
<1> SUFFICES ASSUME TypeOK, ClearOutrun, [Next]_vars PROVE ClearOutrun'
  OBVIOUS
<1> USE DEF ClearOutrun
<1>1. CASE Send \/ Request \/ Answer
  BY <1>1 DEF Send, Request, Answer
<1>2. CASE Push
  <2>1. ch' # <<>>
    BY <1>2 DEF Push, TypeOK, Ids
  <2> QED
    BY <2>1
<1>3. CASE RunFails \/ StartPolling \/ WakeUp \/ ClearLen \/ ClearReceive \/ Done
  BY <1>3 DEF RunFails, StartPolling, WakeUp, ClearLen, ClearReceive, Done
<1>4. CASE ProxyTake \/ ProxyEnds \/ Handle
  BY <1>4 DEF ProxyTake, ProxyEnds, Handle
<1>5. CASE Signal \/ Crash \/ Restart \/ Rest \/ UNCHANGED vars
  BY <1>5 DEF Signal, Crash, Restart, Fresh, Rest
<1> QED
  BY <1>1, <1>2, <1>3, <1>4, <1>5 DEF Next, Poller, Main

\* Clear waits at an empty channel only while the proxy is at its send, with the update
\* that Clear's len saw or one behind it.
THEOREM OutrunOnly == Spec => []ClearOutrun
<1>1. Init => ClearOutrun
  BY DEF Init, ClearOutrun
<1> QED
  BY <1>1, InitTypes, TypeStep, OutrunStep, PTL DEF Spec

-----------------------------------------------------------------------------
\* Sequences of updates.
Below(A, B) == \A a \in A, b \in B : a < b

\* An update at the end of a sequence.
LEMMA AppendEntries ==
  ASSUME NEW s \in Seq(Ids), NEW x \in Ids
  PROVE  /\ Entries(Append(s, x)) = Entries(s) \cup {x}
         /\ Ordered(s) /\ Below(Entries(s), {x}) => Ordered(Append(s, x))
<1> DEFINE t == Append(s, x)
<1>1. /\ Len(t) = Len(s) + 1 /\ t[Len(t)] = x /\ Len(s) \in Nat
      /\ \A i \in 1 .. Len(s) : t[i] = s[i]
      /\ \A i \in 1 .. Len(t) : i \in 1 .. Len(s) \/ i = Len(t)
      /\ \A i \in 1 .. Len(s) : i \in 1 .. Len(t)
      /\ Len(t) \in 1 .. Len(t)
  OBVIOUS
<1> HIDE DEF t
<1>2. Entries(t) = Entries(s) \cup {x}
  BY <1>1 DEF Entries
<1>3. ASSUME Ordered(s), Below(Entries(s), {x}),
             NEW i \in 1 .. Len(t), NEW j \in 1 .. Len(t), i < j
      PROVE  t[i] < t[j]
  <2>1. i \in 1 .. Len(s) /\ t[i] = s[i] /\ s[i] \in Entries(s)
    BY <1>1, <1>3 DEF Entries
  <2>2. CASE j \in 1 .. Len(s)
    BY <1>1, <1>3, <2>1, <2>2 DEF Ordered
  <2>3. CASE j = Len(t)
    BY <1>1, <1>3, <2>1, <2>3 DEF Below
  <2> QED
    BY <1>1, <2>2, <2>3
<1>4. Ordered(s) /\ Below(Entries(s), {x}) => Ordered(t)
  BY <1>3 DEF Ordered
<1> QED
  BY <1>2, <1>4 DEF t

\* The update at its head.
LEMMA TailEntries ==
  ASSUME NEW s \in Seq(Ids), s # <<>>
  PROVE  /\ Head(s) \in Ids /\ Tail(s) \in Seq(Ids)
         /\ Entries(s) = {Head(s)} \cup Entries(Tail(s))
         /\ Ordered(s) => Ordered(Tail(s)) /\ Below({Head(s)}, Entries(Tail(s)))
<1> DEFINE t == Tail(s)
<1>1. /\ Len(s) \in Nat \ {0} /\ Len(t) = Len(s) - 1 /\ Head(s) = s[1]
      /\ t \in Seq(Ids) /\ s[1] \in Ids
      /\ \A i \in 1 .. Len(t) : t[i] = s[i + 1] /\ i + 1 \in 1 .. Len(s)
      /\ \A i \in 1 .. Len(s) : i # 1 => i - 1 \in 1 .. Len(t) /\ (i - 1) + 1 = i
      /\ 1 \in 1 .. Len(s)
  OBVIOUS
<1> HIDE DEF t
<1>2. Entries(s) = {s[1]} \cup Entries(t)
  <2>1. ASSUME NEW a \in Entries(s) PROVE a \in {s[1]} \cup Entries(t)
    <3>1. PICK i \in 1 .. Len(s) : a = s[i]
      BY DEF Entries
    <3>2. i = 1 \/ (i - 1 \in 1 .. Len(t) /\ t[i - 1] = s[i])
      BY <1>1
    <3> QED
      BY <3>1, <3>2 DEF Entries
  <2>2. ASSUME NEW a \in {s[1]} \cup Entries(t) PROVE a \in Entries(s)
    BY <1>1 DEF Entries
  <2> QED
    BY <2>1, <2>2
<1>3. ASSUME Ordered(s) PROVE Ordered(t) /\ Below({s[1]}, Entries(t))
  <2>1. ASSUME NEW i \in 1 .. Len(t), NEW j \in 1 .. Len(t), i < j PROVE t[i] < t[j]
    <3>1. i + 1 < j + 1 /\ i + 1 \in 1 .. Len(s) /\ j + 1 \in 1 .. Len(s)
      BY <1>1, <2>1
    <3> QED
      BY <1>1, <1>3, <3>1 DEF Ordered
  <2>2. ASSUME NEW b \in Entries(t) PROVE s[1] < b
    <3>1. PICK i \in 1 .. Len(t) : b = t[i]
      BY DEF Entries
    <3>2. i + 1 \in 1 .. Len(s) /\ 1 < i + 1 /\ b = s[i + 1]
      BY <1>1, <3>1
    <3> QED
      BY <1>1, <1>3, <3>2 DEF Ordered
  <2> QED
    BY <2>1, <2>2 DEF Ordered, Below
<1> QED
  BY <1>1, <1>2, <1>3 DEF t

\* One sequence after another.
LEMMA ConcatEntries ==
  ASSUME NEW s \in Seq(Ids), NEW t \in Seq(Ids)
  PROVE  /\ s \o t \in Seq(Ids)
         /\ Entries(s \o t) = Entries(s) \cup Entries(t)
         /\ Ordered(s) /\ Ordered(t) /\ Below(Entries(s), Entries(t)) => Ordered(s \o t)
<1> DEFINE u == s \o t
<1>1. /\ u \in Seq(Ids) /\ Len(s) \in Nat /\ Len(t) \in Nat /\ Len(u) = Len(s) + Len(t)
      /\ \A i \in 1 .. Len(s) : u[i] = s[i] /\ i \in 1 .. Len(u)
      /\ \A i \in 1 .. Len(u) : \/ i \in 1 .. Len(s)
                                \/ i - Len(s) \in 1 .. Len(t) /\ u[i] = t[i - Len(s)]
      /\ \A i \in 1 .. Len(t) : i + Len(s) \in 1 .. Len(u) /\ u[i + Len(s)] = t[i]
  OBVIOUS
<1> HIDE DEF u
<1>2. Entries(u) = Entries(s) \cup Entries(t)
  <2>1. ASSUME NEW a \in Entries(u) PROVE a \in Entries(s) \cup Entries(t)
    BY <1>1 DEF Entries
  <2>2. ASSUME NEW a \in Entries(s) PROVE a \in Entries(u)
    BY <1>1 DEF Entries
  <2>3. ASSUME NEW a \in Entries(t) PROVE a \in Entries(u)
    BY <1>1 DEF Entries
  <2> QED
    BY <2>1, <2>2, <2>3
<1>3. ASSUME Ordered(s), Ordered(t), Below(Entries(s), Entries(t)),
             NEW i \in 1 .. Len(u), NEW j \in 1 .. Len(u), i < j
      PROVE  u[i] < u[j]
  <2>1. CASE i \in 1 .. Len(s) /\ j \in 1 .. Len(s)
    BY <1>1, <1>3, <2>1 DEF Ordered
  <2>2. CASE i \in 1 .. Len(s) /\ j \notin 1 .. Len(s)
    <3>1. u[i] \in Entries(s) /\ u[j] \in Entries(t)
      BY <1>1, <2>2 DEF Entries
    <3> QED
      BY <1>3, <3>1 DEF Below
  <2>3. CASE i \notin 1 .. Len(s)
    <3>1. j \notin 1 .. Len(s) /\ i - Len(s) < j - Len(s)
      BY <1>1, <1>3, <2>3
    <3> QED
      BY <1>1, <1>3, <2>3, <3>1 DEF Ordered
  <2> QED
    BY <2>1, <2>2, <2>3
<1> QED
  BY <1>1, <1>2, <1>3 DEF Ordered, u

-----------------------------------------------------------------------------
\* Where the updates are that this run's poller has pushed.
InHand == {held} \ {None}
Pumped ==
  /\ base <= offset - 1
  /\ Ordered(handled) /\ Ordered(dropped) /\ Ordered(ch)
  /\ Below(Entries(handled), InHand) /\ Below(Entries(handled), Entries(ch))
  /\ Below(InHand, Entries(ch)) /\ Below(Entries(dropped), Entries(ch))
  /\ (Entries(handled) \cup InHand) \cap Entries(dropped) = {}
  /\ Entries(handled) \cup InHand \cup Entries(ch) \cup Entries(dropped) = base + 1 .. offset - 1

\* Nothing is on the way in a run that has just begun.
LEMMA FreshPumped ==
  ASSUME NEW n \in Nat
  PROVE  /\ Ordered(<<>>) /\ Entries(<<>>) = {} /\ n + 1 .. n = {}
BY DEF Ordered, Entries

\* Every step moves one update at most, and from the head of a queue to the end of
\* the next.
LEMMA PumpedStep == TypeOK /\ Sending /\ Pumped /\ [Next]_vars => Pumped'
<1> SUFFICES ASSUME TypeOK, Sending, Pumped, [Next]_vars PROVE Pumped'
  OBVIOUS
<1>1. /\ ch \in Seq(Ids) /\ handled \in Seq(Ids) /\ dropped \in Seq(Ids)
      /\ offset \in Nat /\ base \in Nat /\ confirmed \in Nat /\ None \notin Ids
      /\ \A i \in Ids : i \in Nat
  BY BoundsAssumption DEF TypeOK, Ids, None
<1>2. CASE Push
  <2>1. offset \in Ids /\ ch' = Append(ch, offset) /\ offset' = offset + 1
        /\ UNCHANGED <<held, handled, dropped, base>>
    BY <1>2, BoundsAssumption DEF Push, TypeOK, Ids
  <2>2. Below(Entries(handled) \cup InHand \cup Entries(ch) \cup Entries(dropped), {offset})
    BY <1>1 DEF Pumped, Below
  <2>3. Entries(ch') = Entries(ch) \cup {offset} /\ Ordered(ch')
    BY <1>1, <2>1, <2>2, AppendEntries DEF Pumped, Below
  <2>4. base + 1 .. offset = (base + 1 .. offset - 1) \cup {offset}
    <3>1. base <= offset - 1
      BY DEF Pumped
    <3> QED
      BY <1>1, <3>1
  <2> QED
    BY <1>1, <2>1, <2>2, <2>3, <2>4 DEF Pumped, Below, InHand
<1>3. CASE ProxyTake
  <2>1. /\ ch # <<>> /\ held = None /\ held' = Head(ch) /\ ch' = Tail(ch)
        /\ UNCHANGED <<handled, dropped, base, offset>>
    BY <1>3 DEF ProxyTake, Sending
  <2>2. /\ Head(ch) \in Ids
        /\ Entries(ch) = {Head(ch)} \cup Entries(ch')
        /\ Ordered(ch') /\ Below({Head(ch)}, Entries(ch'))
    BY <1>1, <2>1, TailEntries DEF Pumped
  <2>3. InHand = {} /\ InHand' = {Head(ch)}
    BY <1>1, <2>1, <2>2 DEF InHand
  <2>4. Head(ch) \notin Entries(dropped)
    <3> SUFFICES ASSUME Head(ch) \in Entries(dropped) PROVE FALSE
      OBVIOUS
    <3>1. Head(ch) < Head(ch) /\ Head(ch) \in Nat
      BY <1>1, <2>2 DEF Pumped, Below
    <3> QED
      BY <3>1
  <2> QED
    BY <2>1, <2>2, <2>3, <2>4 DEF Pumped, Below
<1>4. CASE Handle
  <2>1. /\ held # None /\ held' = None /\ handled' = Append(handled, held) /\ held \in Ids
        /\ UNCHANGED <<ch, dropped, base, offset>>
    BY <1>4 DEF Handle, Sending, TypeOK
  <2>2. InHand = {held} /\ InHand' = {}
    BY <2>1 DEF InHand
  <2>3. Entries(handled') = Entries(handled) \cup {held} /\ Ordered(handled')
    BY <1>1, <2>1, <2>2, AppendEntries DEF Pumped
  <2> QED
    BY <2>1, <2>2, <2>3 DEF Pumped, Below
<1>5. CASE ClearReceive
  <2>1. /\ ch # <<>> /\ dropped' = Append(dropped, Head(ch)) /\ ch' = Tail(ch)
        /\ UNCHANGED <<held, handled, base, offset>>
    BY <1>5 DEF ClearReceive
  <2>2. /\ Head(ch) \in Ids
        /\ Entries(ch) = {Head(ch)} \cup Entries(ch')
        /\ Ordered(ch') /\ Below({Head(ch)}, Entries(ch'))
    BY <1>1, <2>1, TailEntries DEF Pumped
  <2>3. Below(Entries(dropped), {Head(ch)})
    BY <2>2 DEF Pumped, Below
  <2>4. Entries(dropped') = Entries(dropped) \cup {Head(ch)} /\ Ordered(dropped')
    BY <1>1, <2>1, <2>2, <2>3, AppendEntries DEF Pumped
  <2>5. Head(ch) \notin Entries(handled) \cup InHand
    <3> SUFFICES ASSUME Head(ch) \in Entries(handled) \cup InHand PROVE FALSE
      OBVIOUS
    <3>1. Head(ch) < Head(ch) /\ Head(ch) \in Nat
      BY <1>1, <2>2 DEF Pumped, Below
    <3> QED
      BY <3>1
  <2>6. InHand' = InHand
    BY <2>1 DEF InHand
  <2> QED
    BY <2>1, <2>2, <2>3, <2>4, <2>5, <2>6 DEF Pumped, Below
<1>6. CASE Restart
  <2>1. /\ ch' = <<>> /\ handled' = <<>> /\ dropped' = <<>> /\ held' = None
        /\ base' = confirmed /\ offset' = confirmed + 1
    BY <1>6 DEF Restart, Fresh
  <2>2. InHand' = {} /\ (confirmed + 1) - 1 = confirmed
    BY <1>1, <2>1 DEF InHand
  <2> QED
    <3>1. /\ Ordered(handled') /\ Ordered(dropped') /\ Ordered(ch')
          /\ Entries(handled') = {} /\ Entries(dropped') = {} /\ Entries(ch') = {}
          /\ base' + 1 .. offset' - 1 = {} /\ base' <= offset' - 1
      <4>1. \A s : s = <<>> => Ordered(s) /\ Entries(s) = {}
        BY FreshPumped
      <4> QED
        BY <1>1, <2>1, <4>1, FreshPumped
    <3> QED
      BY <2>2, <3>1 DEF Pumped, Below
<1>7. ASSUME UNCHANGED <<ch, held, handled, dropped, base, offset>> PROVE Pumped'
  BY <1>7 DEF Pumped, InHand
<1>8. CASE Send \/ Request \/ Answer
  BY <1>7, <1>8 DEF Send, Request, Answer
<1>9. CASE RunFails \/ StartPolling \/ WakeUp \/ ClearLen \/ Done
  BY <1>7, <1>9 DEF RunFails, StartPolling, WakeUp, ClearLen, Done
<1>10. CASE ProxyEnds \/ Signal \/ Crash \/ Rest \/ UNCHANGED vars
  BY <1>7, <1>10 DEF ProxyEnds, Signal, Crash, Rest
<1> QED
  BY <1>2, <1>3, <1>4, <1>5, <1>6, <1>8, <1>9, <1>10 DEF Next, Poller, Main

\* Of what Telegram was told to forget nothing is lost, repeated or overtaken while
\* the bot is up, whatever Clear drops and however proxy and Clear interleave.
THEOREM OnceInOrder == Spec => []EachOnceInOrder
<1>1. Init => Pumped
  <2> SUFFICES ASSUME Init PROVE Pumped
    OBVIOUS
  <2>1. /\ ch = <<>> /\ handled = <<>> /\ dropped = <<>> /\ InHand = {}
        /\ base = 0 /\ offset - 1 = 0
    BY DEF Init, InHand
  <2> QED
    BY <2>1, FreshPumped DEF Pumped, Below
<1>2. TypeOK /\ Pumped => EachOnceInOrder
  <2> SUFFICES ASSUME TypeOK, Pumped PROVE EachOnceInOrder
    OBVIOUS
  <2> DEFINE h == IF held = None THEN <<>> ELSE <<held>>
  <2>1. h \in Seq(Ids) /\ Entries(h) = InHand /\ Ordered(h)
    BY DEF TypeOK, InHand, Entries, Ordered
  <2> HIDE DEF h
  <2>2. /\ handled \o h \in Seq(Ids) /\ Entries(handled \o h) = Entries(handled) \cup InHand
        /\ Ordered(handled \o h)
    BY <2>1, ConcatEntries DEF TypeOK, Pumped
  <2>3. Below(Entries(handled) \cup InHand, Entries(ch))
    BY DEF Pumped, Below
  <2>4. /\ Entries((handled \o h) \o ch) = Entries(handled) \cup InHand \cup Entries(ch)
        /\ Ordered((handled \o h) \o ch)
    BY <2>2, <2>3, ConcatEntries DEF TypeOK, Pumped
  <2>5. Entries(ch) \cap Entries(dropped) = {}
    <3>1. \A a \in Entries(ch) : a \in Nat
      BY BoundsAssumption DEF TypeOK, Entries, Ids
    <3> QED
      BY <3>1 DEF Pumped, Below
  <2>6. Pipeline = (handled \o h) \o ch
    BY DEF Pipeline, h
  <2> QED
    BY <2>4, <2>5, <2>6 DEF EachOnceInOrder, Pumped
<1> QED
  BY <1>1, <1>2, InitTypes, TypeStep, PumpedStep, PTL DEF Spec
=============================================================================
