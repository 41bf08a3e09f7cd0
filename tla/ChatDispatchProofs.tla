------------------------- MODULE ChatDispatchProofs -------------------------
(***************************************************************************)
(* The safety properties of ChatDispatch for every set of sessions and     *)
(* every number of updates.  None of them is inductive: they all follow    *)
(* from IInv, which says who holds each lock, which goroutine works on     *)
(* which ChatHandler, and what the wait group counts.                      *)
(*                                                                         *)
(* The last theorem composes: the dispatcher does from outside what        *)
(* UpdatesPump says of it.                                                 *)
(***************************************************************************)
EXTENDS ChatDispatch, Sequences, FiniteSetTheorems, TLAPS

Active(n) == task[n] \in {"handle", "cleanup", "cleaning"}

\* Updates are taken in order; one that is being looked up has no goroutine yet.
Order ==
  /\ hand <= received
  /\ proxy = "sending" => hand < received
  /\ \A n \in Updates : task[n] # "none" => n <= hand
  /\ loop \in {"wantMap", "wantHandler"} => hand \in Updates /\ task[hand] = "none"

\* A goroutine works on a ChatHandler of its own session.
Using ==
  /\ \A n \in Updates :
       Active(n) => using[n] \in Updates /\ sessionOf[using[n]] = sessionOf[n]
  /\ \A s \in Sessions : chatHandlersMap[s] # NoHandler => sessionOf[chatHandlersMap[s]] = s
  /\ loop = "wantHandler" =>
       using[hand] \in Updates /\ chatHandlersMap[sessionOf[hand]] = using[hand]

\* chatHandlersMx has one holder: the loop or one cleanup.
MapLock ==
  /\ loop = "wantHandler" => chatHandlersMx /\ \A n \in Updates : task[n] # "cleaning"
  /\ \A n \in Updates : task[n] = "cleaning" => chatHandlersMx
  /\ \A m, n \in Updates : task[m] = "cleaning" /\ task[n] = "cleaning" => m = n

\* handlerMx[h] is held exactly while one goroutine handles an update with h.
HandlerLock ==
  /\ \A h \in Updates : handlerMx[h] => \E n \in Updates : task[n] = "handle" /\ using[n] = h
  /\ \A n \in Updates : task[n] = "handle" => handlerMx[using[n]]
  /\ \A m, n \in Updates :
       task[m] = "handle" /\ task[n] = "handle" /\ using[m] = using[n] => m = n

\* The handler at work is its session's entry, unless that entry was removed
\* by a stale cleanup.
BusyIsEntry ==
  \A n \in Updates :
    task[n] = "handle" =>
      chatHandlersMap[sessionOf[n]] = using[n] \/ sessionOf[n] \in clobbered

\* Each entry without a conversation has a goroutine that will look at it again.
EntryWatched ==
  \A s \in Sessions :
    chatHandlersMap[s] # NoHandler =>
      \/ currentHandler[chatHandlersMap[s]]
      \/ \E n \in Updates : Active(n) /\ using[n] = chatHandlersMap[s]
      \/ loop = "wantHandler" /\ using[hand] = chatHandlersMap[s]

Running == {n \in Updates : Active(n)}

\* wg counts the loop and the goroutines that have not returned.
WgCounts == wg = Cardinality(Running) + (IF loop = "ended" THEN 0 ELSE 1)

IInv ==
  /\ TypeOK
  /\ Order
  /\ Using
  /\ MapLock
  /\ HandlerLock
  /\ BusyIsEntry
  /\ EntryWatched
  /\ WgCounts
  /\ SessionSerial
  /\ ConversationKept
  /\ DoneMeansQuiet

-----------------------------------------------------------------------------
\* A ChatHandler is named by an update, and no update is named 0.
LEMMA NoHandlerIsNone == NoHandler \notin Updates
  BY MaxUpdatesAssumption DEF NoHandler, Updates

\* The wait group's count is a natural number, and positive while a goroutine
\* runs.
LEMMA RunningCount ==
  IsFiniteSet(Running) /\ Cardinality(Running) \in Nat
<1>1. IsFiniteSet(Updates)
  BY MaxUpdatesAssumption, FS_Interval DEF Updates
<1>2. Running \subseteq Updates
  BY DEF Running
<1> QED
  BY <1>1, <1>2, FS_Subset, FS_CardinalityType

\* While something that wg counts runs, the count is not zero.
LEMMA RunningPositive ==
  ASSUME WgCounts, wg \in Nat, NEW n \in Updates, Active(n)
  PROVE  wg >= 1
<1>1. Running # {} /\ IsFiniteSet(Running) /\ Cardinality(Running) \in Nat
  BY RunningCount DEF Running
<1>2. Cardinality(Running) # 0
  BY <1>1, FS_EmptySet
<1> QED
  BY <1>1, <1>2 DEF WgCounts

\* The initial states satisfy the invariant.
LEMMA InitIInv == Init => IInv
<1> SUFFICES ASSUME Init PROVE IInv
  OBVIOUS
<1> USE MaxUpdatesAssumption DEF Init
<1>1. TypeOK
  <2>1. received \in 0 .. MaxUpdates /\ hand \in 0 .. MaxUpdates /\ wg \in Nat
    OBVIOUS
  <2>2. handlerMx \in [Updates -> BOOLEAN] /\ currentHandler \in [Updates -> BOOLEAN]
    OBVIOUS
  <2>3. task \in [Updates -> {"none", "ignored", "handle", "cleanup", "cleaning", "done"}]
    OBVIOUS
  <2> QED
    BY <2>1, <2>2, <2>3 DEF TypeOK
<1>2. Order
  BY DEF Order
<1>3. Using /\ MapLock /\ HandlerLock
  BY DEF Using, MapLock, HandlerLock, Active
<1>4. BusyIsEntry /\ EntryWatched /\ SessionSerial /\ ConversationKept /\ DoneMeansQuiet
  BY DEF BusyIsEntry, EntryWatched, SessionSerial, ConversationKept, DoneMeansQuiet
<1>5. WgCounts
  <2>1. Running = {}
    BY DEF Running, Active
  <2> QED
    BY <2>1, FS_EmptySet DEF WgCounts
<1> QED
  BY <1>1, <1>2, <1>3, <1>4, <1>5 DEF IInv

\* Types are kept; wg stays a natural number because it counts.
LEMMA TypeOKStep == IInv /\ [Next]_vars => TypeOK'
<1> SUFFICES ASSUME IInv, [Next]_vars PROVE TypeOK'
  OBVIOUS
<1> USE MaxUpdatesAssumption DEF TypeOK, IInv, lockVars, tableVars
<1>1. CASE Cancel
  BY <1>1 DEF Cancel
<1>2. CASE ProxyTake
  BY <1>2 DEF ProxyTake
<1>3. CASE ProxyClose
  BY <1>3 DEF ProxyClose
<1>4. CASE LoopReceive
  <2>1. received \in Updates
    BY <1>4 DEF LoopReceive, Order, Updates
  <2> QED
    BY <1>4, <2>1 DEF LoopReceive
<1>5. CASE LoopLookup
  <2>1. hand \in Updates
    BY <1>5 DEF LoopLookup, Order
  <2> QED
    BY <1>5, <2>1 DEF LoopLookup
<1>6. CASE LoopSpawn
  <2>1. wg' \in Nat /\ loop' \in {"recv", "wantMap", "wantHandler", "ended"}
    BY <1>6 DEF LoopSpawn
  <2>2. handlerMx' \in [Updates -> BOOLEAN]
    BY <1>6 DEF LoopSpawn
  <2>3. task' \in [Updates -> {"none", "ignored", "handle", "cleanup", "cleaning", "done"}]
    BY <1>6 DEF LoopSpawn
  <2> QED
    BY <1>6, <2>1, <2>2, <2>3 DEF LoopSpawn
<1>7. CASE LoopEnd
  <2>1. wg >= 1
    BY <1>7, RunningCount DEF LoopEnd, WgCounts
  <2> QED
    BY <1>7, <2>1 DEF LoopEnd
<1>8. ASSUME NEW n \in Updates, Handle(n) PROVE TypeOK'
  BY <1>8 DEF Handle, Outcomes
<1>9. ASSUME NEW n \in Updates, CleanupLock(n) PROVE TypeOK'
  BY <1>9 DEF CleanupLock
<1>10. ASSUME NEW n \in Updates, Cleanup(n) PROVE TypeOK'
  <2>1. Active(n) /\ wg >= 1
    BY <1>10, RunningPositive DEF Cleanup, Active
  <2>2. sessionOf[using[n]] \in Sessions
    BY <2>1 DEF Using
  <2>3. clobbered' \subseteq Sessions
    BY <1>10, <2>2 DEF Cleanup
  <2>4. chatHandlersMap' \in [Sessions -> Updates \cup {NoHandler}]
    BY <1>10, <2>2 DEF Cleanup
  <2>5. wg' \in Nat
    BY <1>10, <2>1 DEF Cleanup
  <2>6. task' \in [Updates -> {"none", "ignored", "handle", "cleanup", "cleaning", "done"}]
    BY <1>10 DEF Cleanup
  <2> QED
    BY <1>10, <2>3, <2>4, <2>5, <2>6 DEF Cleanup
<1>11. CASE CloseDone
  BY <1>11 DEF CloseDone
<1>12. CASE UNCHANGED vars
  BY <1>12 DEF vars
<1> QED
  BY <1>1, <1>2, <1>3, <1>4, <1>5, <1>6, <1>7, <1>8, <1>9, <1>10, <1>11, <1>12
     DEF Next, LoopStep, TaskStep, Terminated

\* Updates are taken in the order of their numbers.
LEMMA OrderStep == IInv /\ [Next]_vars => Order'
<1> SUFFICES ASSUME IInv, [Next]_vars PROVE Order'
  OBVIOUS
<1> USE MaxUpdatesAssumption DEF IInv, TypeOK, Order, Updates, lockVars, tableVars
<1>1. CASE Cancel
  BY <1>1 DEF Cancel
<1>2. CASE ProxyTake
  BY <1>2 DEF ProxyTake
<1>3. CASE ProxyClose
  BY <1>3 DEF ProxyClose
<1>4. CASE LoopReceive
  BY <1>4 DEF LoopReceive
<1>5. CASE LoopLookup
  BY <1>5 DEF LoopLookup
<1>6. CASE LoopSpawn
  BY <1>6 DEF LoopSpawn
<1>7. CASE LoopEnd
  BY <1>7 DEF LoopEnd
<1>8. ASSUME NEW n \in Updates, Handle(n) PROVE Order'
  BY <1>8 DEF Handle
<1>9. ASSUME NEW n \in Updates, CleanupLock(n) PROVE Order'
  BY <1>9 DEF CleanupLock
<1>10. ASSUME NEW n \in Updates, Cleanup(n) PROVE Order'
  BY <1>10 DEF Cleanup
<1>11. CASE CloseDone
  BY <1>11 DEF CloseDone
<1>12. CASE UNCHANGED vars
  BY <1>12 DEF vars
<1> QED
  BY <1>1, <1>2, <1>3, <1>4, <1>5, <1>6, <1>7, <1>8, <1>9, <1>10, <1>11, <1>12
     DEF Next, LoopStep, TaskStep, Terminated

\* Handlers, entries and goroutines stay within one session.
LEMMA UsingStep == IInv /\ [Next]_vars => Using'
<1> SUFFICES ASSUME IInv, [Next]_vars PROVE Using'
  OBVIOUS
<1> USE NoHandlerIsNone DEF IInv, TypeOK, Order, Using, Active, lockVars, tableVars
<1>1. CASE Cancel
  BY <1>1 DEF Cancel
<1>2. CASE ProxyTake
  BY <1>2 DEF ProxyTake
<1>3. CASE ProxyClose
  BY <1>3 DEF ProxyClose
<1>4. CASE LoopReceive
  BY <1>4 DEF LoopReceive
<1>5. CASE LoopLookup
  BY <1>5 DEF LoopLookup
<1>6. CASE LoopSpawn
  BY <1>6 DEF LoopSpawn
<1>7. CASE LoopEnd
  BY <1>7 DEF LoopEnd
<1>8. ASSUME NEW n \in Updates, Handle(n) PROVE Using'
  BY <1>8 DEF Handle
<1>9. ASSUME NEW n \in Updates, CleanupLock(n) PROVE Using'
  BY <1>9 DEF CleanupLock
<1>10. ASSUME NEW n \in Updates, Cleanup(n) PROVE Using'
  <2> DEFINE h == using[n]
             s == sessionOf[h]
  <2>1. n \in Updates /\ h \in Updates /\ s \in Sessions /\ s = sessionOf[n]
    BY <1>10 DEF Cleanup
  <2>2. loop # "wantHandler"
    BY <1>10 DEF Cleanup, MapLock
  <2>3. /\ UNCHANGED <<sessionOf, loop, hand, handlerMx, currentHandler, using>>
        /\ task' = [task EXCEPT ![n] = "done"]
    BY <1>10 DEF Cleanup
  <2>4. \/ /\ ~handlerMx[h] /\ ~currentHandler[h]
           /\ chatHandlersMap' = [chatHandlersMap EXCEPT ![s] = NoHandler]
           /\ clobbered \subseteq clobbered'
           /\ chatHandlersMap[s] \in {h, NoHandler} \/ s \in clobbered'
        \/ /\ handlerMx[h] \/ currentHandler[h]
           /\ UNCHANGED <<chatHandlersMap, clobbered>>
    BY <1>10 DEF Cleanup, Removable
  <2> HIDE DEF h, s
  <2> QED
    BY <2>1, <2>2, <2>3, <2>4
<1>11. CASE CloseDone
  BY <1>11 DEF CloseDone
<1>12. CASE UNCHANGED vars
  BY <1>12 DEF vars
<1> QED
  BY <1>1, <1>2, <1>3, <1>4, <1>5, <1>6, <1>7, <1>8, <1>9, <1>10, <1>11, <1>12
     DEF Next, LoopStep, TaskStep, Terminated

\* chatHandlersMx keeps one holder.
LEMMA MapLockStep == IInv /\ [Next]_vars => MapLock'
<1> SUFFICES ASSUME IInv, [Next]_vars PROVE MapLock'
  OBVIOUS
<1> USE DEF IInv, TypeOK, MapLock, lockVars, tableVars
<1>1. CASE Cancel
  BY <1>1 DEF Cancel
<1>2. CASE ProxyTake
  BY <1>2 DEF ProxyTake
<1>3. CASE ProxyClose
  BY <1>3 DEF ProxyClose
<1>4. CASE LoopReceive
  BY <1>4 DEF LoopReceive
<1>5. CASE LoopLookup
  BY <1>5 DEF LoopLookup
<1>6. CASE LoopSpawn
  BY <1>6 DEF LoopSpawn
<1>7. CASE LoopEnd
  BY <1>7 DEF LoopEnd
<1>8. ASSUME NEW n \in Updates, Handle(n) PROVE MapLock'
  BY <1>8 DEF Handle
<1>9. ASSUME NEW n \in Updates, CleanupLock(n) PROVE MapLock'
  BY <1>9 DEF CleanupLock
<1>10. ASSUME NEW n \in Updates, Cleanup(n) PROVE MapLock'
  BY <1>10 DEF Cleanup
<1>11. CASE CloseDone
  BY <1>11 DEF CloseDone
<1>12. CASE UNCHANGED vars
  BY <1>12 DEF vars
<1> QED
  BY <1>1, <1>2, <1>3, <1>4, <1>5, <1>6, <1>7, <1>8, <1>9, <1>10, <1>11, <1>12
     DEF Next, LoopStep, TaskStep, Terminated

\* handlerMx is passed from the loop to the goroutine and released by it.
LEMMA HandlerLockStep == IInv /\ [Next]_vars => HandlerLock'
<1> SUFFICES ASSUME IInv, [Next]_vars PROVE HandlerLock'
  OBVIOUS
<1> USE DEF IInv, TypeOK, Order, Using, Active, HandlerLock, lockVars, tableVars
<1>1. CASE Cancel
  BY <1>1 DEF Cancel
<1>2. CASE ProxyTake
  BY <1>2 DEF ProxyTake
<1>3. CASE ProxyClose
  BY <1>3 DEF ProxyClose
<1>4. CASE LoopReceive
  BY <1>4 DEF LoopReceive
<1>5. CASE LoopLookup
  BY <1>5 DEF LoopLookup
<1>6. CASE LoopSpawn
  BY <1>6 DEF LoopSpawn
<1>7. CASE LoopEnd
  BY <1>7 DEF LoopEnd
<1>8. ASSUME NEW n \in Updates, Handle(n) PROVE HandlerLock'
  BY <1>8 DEF Handle
<1>9. ASSUME NEW n \in Updates, CleanupLock(n) PROVE HandlerLock'
  BY <1>9 DEF CleanupLock
<1>10. ASSUME NEW n \in Updates, Cleanup(n) PROVE HandlerLock'
  BY <1>10 DEF Cleanup
<1>11. CASE CloseDone
  BY <1>11 DEF CloseDone
<1>12. CASE UNCHANGED vars
  BY <1>12 DEF vars
<1> QED
  BY <1>1, <1>2, <1>3, <1>4, <1>5, <1>6, <1>7, <1>8, <1>9, <1>10, <1>11, <1>12
     DEF Next, LoopStep, TaskStep, Terminated

\* A cleanup that removes the entry of a busy handler has to be a stale one,
\* since TryLock fails on the handler it looks at.
LEMMA BusyIsEntryStep == IInv /\ [Next]_vars => BusyIsEntry'
<1> SUFFICES ASSUME IInv, [Next]_vars PROVE BusyIsEntry'
  OBVIOUS
<1> USE NoHandlerIsNone DEF IInv, TypeOK, Order, Using, Active, HandlerLock, BusyIsEntry, lockVars, tableVars
<1>1. CASE Cancel
  BY <1>1 DEF Cancel
<1>2. CASE ProxyTake
  BY <1>2 DEF ProxyTake
<1>3. CASE ProxyClose
  BY <1>3 DEF ProxyClose
<1>4. CASE LoopReceive
  BY <1>4 DEF LoopReceive
<1>5. CASE LoopLookup
  BY <1>5 DEF LoopLookup
<1>6. CASE LoopSpawn
  BY <1>6 DEF LoopSpawn
<1>7. CASE LoopEnd
  BY <1>7 DEF LoopEnd
<1>8. ASSUME NEW n \in Updates, Handle(n) PROVE BusyIsEntry'
  BY <1>8 DEF Handle
<1>9. ASSUME NEW n \in Updates, CleanupLock(n) PROVE BusyIsEntry'
  BY <1>9 DEF CleanupLock
<1>10. ASSUME NEW n \in Updates, Cleanup(n) PROVE BusyIsEntry'
  <2> DEFINE h == using[n]
             s == sessionOf[h]
  <2>1. n \in Updates /\ h \in Updates /\ s \in Sessions /\ s = sessionOf[n]
    BY <1>10 DEF Cleanup
  <2>2. loop # "wantHandler"
    BY <1>10 DEF Cleanup, MapLock
  <2>3. /\ UNCHANGED <<sessionOf, loop, hand, handlerMx, currentHandler, using>>
        /\ task' = [task EXCEPT ![n] = "done"]
    BY <1>10 DEF Cleanup
  <2>4. \/ /\ ~handlerMx[h] /\ ~currentHandler[h]
           /\ chatHandlersMap' = [chatHandlersMap EXCEPT ![s] = NoHandler]
           /\ clobbered \subseteq clobbered'
           /\ chatHandlersMap[s] \in {h, NoHandler} \/ s \in clobbered'
        \/ /\ handlerMx[h] \/ currentHandler[h]
           /\ UNCHANGED <<chatHandlersMap, clobbered>>
    BY <1>10 DEF Cleanup, Removable
  <2> HIDE DEF h, s
  <2> SUFFICES ASSUME NEW m \in Updates, task'[m] = "handle", sessionOf[m] \notin clobbered'
               PROVE  chatHandlersMap'[sessionOf[m]] = using[m]
    BY <2>3
  <2>5. task[m] = "handle" /\ sessionOf[m] \in Sessions /\ sessionOf[m] \notin clobbered
    BY <2>1, <2>3, <2>4
  <2>6. chatHandlersMap[sessionOf[m]] = using[m] /\ using[m] # NoHandler /\ handlerMx[using[m]]
    BY <2>5
  <2>7. CASE sessionOf[m] # s
    BY <2>1, <2>4, <2>5, <2>6, <2>7
  <2>8. CASE sessionOf[m] = s
    BY <2>1, <2>4, <2>5, <2>6, <2>8
  <2> QED
    BY <2>7, <2>8
<1>11. CASE CloseDone
  BY <1>11 DEF CloseDone
<1>12. CASE UNCHANGED vars
  BY <1>12 DEF vars
<1> QED
  BY <1>1, <1>2, <1>3, <1>4, <1>5, <1>6, <1>7, <1>8, <1>9, <1>10, <1>11, <1>12
     DEF Next, LoopStep, TaskStep, Terminated

\* A cleanup that leaves an entry leaves it to a conversation or to another
\* goroutine.
LEMMA EntryWatchedStep == IInv /\ [Next]_vars => EntryWatched'
<1> SUFFICES ASSUME IInv, [Next]_vars PROVE EntryWatched'
  OBVIOUS
<1> USE NoHandlerIsNone DEF IInv, TypeOK, Order, Using, Active, HandlerLock, EntryWatched, lockVars, tableVars
<1>1. CASE Cancel
  BY <1>1 DEF Cancel
<1>2. CASE ProxyTake
  BY <1>2 DEF ProxyTake
<1>3. CASE ProxyClose
  BY <1>3 DEF ProxyClose
<1>4. CASE LoopReceive
  BY <1>4 DEF LoopReceive
<1>5. CASE LoopLookup
  BY <1>5 DEF LoopLookup
<1>6. CASE LoopSpawn
  BY <1>6 DEF LoopSpawn
<1>7. CASE LoopEnd
  BY <1>7 DEF LoopEnd
<1>8. ASSUME NEW n \in Updates, Handle(n) PROVE EntryWatched'
  BY <1>8 DEF Handle
<1>9. ASSUME NEW n \in Updates, CleanupLock(n) PROVE EntryWatched'
  BY <1>9 DEF CleanupLock
<1>10. ASSUME NEW n \in Updates, Cleanup(n) PROVE EntryWatched'
  <2> DEFINE h == using[n]
             s == sessionOf[h]
  <2>1. n \in Updates /\ h \in Updates /\ s \in Sessions /\ s = sessionOf[n]
    BY <1>10 DEF Cleanup
  <2>2. loop # "wantHandler"
    BY <1>10 DEF Cleanup, MapLock
  <2>3. /\ UNCHANGED <<sessionOf, loop, hand, handlerMx, currentHandler, using>>
        /\ task' = [task EXCEPT ![n] = "done"]
    BY <1>10 DEF Cleanup
  <2>4. \/ /\ ~handlerMx[h] /\ ~currentHandler[h]
           /\ chatHandlersMap' = [chatHandlersMap EXCEPT ![s] = NoHandler]
           /\ clobbered \subseteq clobbered'
           /\ chatHandlersMap[s] \in {h, NoHandler} \/ s \in clobbered'
        \/ /\ handlerMx[h] \/ currentHandler[h]
           /\ UNCHANGED <<chatHandlersMap, clobbered>>
    BY <1>10 DEF Cleanup, Removable
  <2> HIDE DEF h, s
  <2> SUFFICES ASSUME NEW t \in Sessions, chatHandlersMap'[t] # NoHandler
               PROVE  \/ currentHandler[chatHandlersMap'[t]]
                      \/ \E m \in Updates : Active(m)' /\ using[m] = chatHandlersMap'[t]
    BY <2>3
  <2>5. chatHandlersMap'[t] = chatHandlersMap[t] /\ sessionOf[chatHandlersMap[t]] = t
    BY <2>1, <2>4
  <2>6. CASE chatHandlersMap[t] = h
    <3>1. handlerMx[h] \/ currentHandler[h]
      BY <2>1, <2>4, <2>5, <2>6 DEF s
    <3>2. CASE handlerMx[h]
      <4>1. PICK m \in Updates : task[m] = "handle" /\ using[m] = h
        BY <2>1, <3>2
      <4>2. task'[m] = "handle"
        BY <1>10, <2>3, <4>1 DEF Cleanup
      <4> QED
        BY <2>3, <2>5, <2>6, <4>1, <4>2
    <3> QED
      BY <2>5, <2>6, <3>1, <3>2
  <2>7. CASE chatHandlersMap[t] # h
    <3>1. CASE currentHandler[chatHandlersMap[t]]
      BY <2>5, <3>1
    <3>2. CASE ~currentHandler[chatHandlersMap[t]]
      <4>1. PICK m \in Updates : Active(m) /\ using[m] = chatHandlersMap[t]
        BY <2>2, <2>5, <3>2
      <4>2. task'[m] = task[m]
        BY <2>3, <2>7, <4>1 DEF h
      <4> QED
        BY <2>3, <2>5, <4>1, <4>2
    <3> QED
      BY <3>1, <3>2
  <2> QED
    BY <2>6, <2>7
<1>11. CASE CloseDone
  BY <1>11 DEF CloseDone
<1>12. CASE UNCHANGED vars
  BY <1>12 DEF vars
<1> QED
  BY <1>1, <1>2, <1>3, <1>4, <1>5, <1>6, <1>7, <1>8, <1>9, <1>10, <1>11, <1>12
     DEF Next, LoopStep, TaskStep, Terminated

\* A goroutine starts only when no earlier one handles an update of its session.
LEMMA SessionSerialStep == IInv /\ [Next]_vars => SessionSerial'
<1> SUFFICES ASSUME IInv, [Next]_vars PROVE SessionSerial'
  OBVIOUS
<1> USE DEF IInv, TypeOK, Order, Using, Active, HandlerLock, BusyIsEntry, SessionSerial, lockVars, tableVars
<1>1. CASE Cancel
  BY <1>1 DEF Cancel
<1>2. CASE ProxyTake
  BY <1>2 DEF ProxyTake
<1>3. CASE ProxyClose
  BY <1>3 DEF ProxyClose
<1>4. CASE LoopReceive
  BY <1>4 DEF LoopReceive
<1>5. CASE LoopLookup
  BY <1>5 DEF LoopLookup
<1>6. CASE LoopSpawn
  <2> SUFFICES ASSUME NEW m \in Updates, NEW n \in Updates,
                      sessionOf[m] = sessionOf[n], m < n, sessionOf[m] \notin clobbered,
                      task'[n] \in {"handle", "cleanup", "cleaning", "done"},
                      task'[m] = "handle"
               PROVE  FALSE
    BY <1>6 DEF LoopSpawn
  <2>1. /\ loop = "wantHandler" /\ hand \in Updates /\ ~handlerMx[using[hand]]
        /\ task' = [task EXCEPT ![hand] = "handle"]
    BY <1>6 DEF LoopSpawn
  <2>2. n <= hand /\ m # hand /\ task[m] = "handle"
    BY <2>1 DEF Updates
  <2>3. CASE n # hand
    BY <2>1, <2>2, <2>3
  <2>4. CASE n = hand
    <3>1. chatHandlersMap[sessionOf[m]] = using[m] /\ handlerMx[using[m]]
      BY <2>2
    <3>2. chatHandlersMap[sessionOf[m]] = using[hand]
      BY <2>1, <2>4
    <3> QED
      BY <2>1, <3>1, <3>2
  <2> QED
    BY <2>3, <2>4
<1>7. CASE LoopEnd
  BY <1>7 DEF LoopEnd
<1>8. ASSUME NEW n \in Updates, Handle(n) PROVE SessionSerial'
  BY <1>8 DEF Handle
<1>9. ASSUME NEW n \in Updates, CleanupLock(n) PROVE SessionSerial'
  BY <1>9 DEF CleanupLock
<1>10. ASSUME NEW n \in Updates, Cleanup(n) PROVE SessionSerial'
  BY <1>10 DEF Cleanup
<1>11. CASE CloseDone
  BY <1>11 DEF CloseDone
<1>12. CASE UNCHANGED vars
  BY <1>12 DEF vars
<1> QED
  BY <1>1, <1>2, <1>3, <1>4, <1>5, <1>6, <1>7, <1>8, <1>9, <1>10, <1>11, <1>12
     DEF Next, LoopStep, TaskStep, Terminated

\* A cleanup does not remove the entry of a conversation unless it is stale.
LEMMA ConversationKeptStep == IInv /\ [Next]_vars => ConversationKept'
<1> SUFFICES ASSUME IInv, [Next]_vars PROVE ConversationKept'
  OBVIOUS
<1> USE NoHandlerIsNone DEF IInv, TypeOK, Order, Using, Active, HandlerLock, BusyIsEntry, ConversationKept, lockVars, tableVars
<1>1. CASE Cancel
  BY <1>1 DEF Cancel
<1>2. CASE ProxyTake
  BY <1>2 DEF ProxyTake
<1>3. CASE ProxyClose
  BY <1>3 DEF ProxyClose
<1>4. CASE LoopReceive
  BY <1>4 DEF LoopReceive
<1>5. CASE LoopLookup
  BY <1>5 DEF LoopLookup
<1>6. CASE LoopSpawn
  BY <1>6 DEF LoopSpawn
<1>7. CASE LoopEnd
  BY <1>7 DEF LoopEnd
<1>8. ASSUME NEW n \in Updates, Handle(n) PROVE ConversationKept'
  BY <1>8 DEF Handle
<1>9. ASSUME NEW n \in Updates, CleanupLock(n) PROVE ConversationKept'
  BY <1>9 DEF CleanupLock
<1>10. ASSUME NEW n \in Updates, Cleanup(n) PROVE ConversationKept'
  <2> DEFINE h == using[n]
             s == sessionOf[h]
  <2>1. n \in Updates /\ h \in Updates /\ s \in Sessions /\ s = sessionOf[n]
    BY <1>10 DEF Cleanup
  <2>2. loop # "wantHandler"
    BY <1>10 DEF Cleanup, MapLock
  <2>3. /\ UNCHANGED <<sessionOf, loop, hand, handlerMx, currentHandler, using>>
        /\ task' = [task EXCEPT ![n] = "done"]
    BY <1>10 DEF Cleanup
  <2>4. \/ /\ ~handlerMx[h] /\ ~currentHandler[h]
           /\ chatHandlersMap' = [chatHandlersMap EXCEPT ![s] = NoHandler]
           /\ clobbered \subseteq clobbered'
           /\ chatHandlersMap[s] \in {h, NoHandler} \/ s \in clobbered'
        \/ /\ handlerMx[h] \/ currentHandler[h]
           /\ UNCHANGED <<chatHandlersMap, clobbered>>
    BY <1>10 DEF Cleanup, Removable
  <2> HIDE DEF h, s
  <2> SUFFICES ASSUME NEW k \in Updates, currentHandler[k], sessionOf[k] \notin clobbered'
               PROVE  chatHandlersMap'[sessionOf[k]] = k
    BY <2>3
  <2>5. chatHandlersMap[sessionOf[k]] = k /\ k # NoHandler /\ sessionOf[k] \in Sessions
    BY <2>4
  <2>6. CASE sessionOf[k] # s
    BY <2>1, <2>4, <2>5, <2>6
  <2>7. CASE sessionOf[k] = s
    BY <2>1, <2>4, <2>5, <2>7
  <2> QED
    BY <2>6, <2>7
<1>11. CASE CloseDone
  BY <1>11 DEF CloseDone
<1>12. CASE UNCHANGED vars
  BY <1>12 DEF vars
<1> QED
  BY <1>1, <1>2, <1>3, <1>4, <1>5, <1>6, <1>7, <1>8, <1>9, <1>10, <1>11, <1>12
     DEF Next, LoopStep, TaskStep, Terminated

\* wg follows the goroutines that start and return.
LEMMA WgCountsStep == IInv /\ [Next]_vars => WgCounts'
<1> SUFFICES ASSUME IInv, [Next]_vars PROVE WgCounts'
  OBVIOUS
<1> USE DEF IInv, TypeOK
<1>1. IsFiniteSet(Running) /\ Cardinality(Running) \in Nat
  BY RunningCount
<1>2. CASE LoopSpawn
  <2>1. hand \in Updates /\ hand \notin Running
    BY <1>2 DEF LoopSpawn, Order, Running, Active
  <2>2. Running' = Running \cup {hand}
    BY <1>2, <2>1 DEF LoopSpawn, Running, Active
  <2>3. Cardinality(Running') = Cardinality(Running) + 1
    BY <1>1, <2>1, <2>2, FS_AddElement
  <2>4. wg' = wg + 1 /\ loop # "ended" /\ loop' # "ended"
    BY <1>2 DEF LoopSpawn
  <2> QED
    BY <1>1, <2>3, <2>4 DEF WgCounts
<1>3. ASSUME NEW n \in Updates, Cleanup(n) PROVE WgCounts'
  <2>1. n \in Running
    BY <1>3 DEF Cleanup, Running, Active
  <2>2. Running' = Running \ {n}
    BY <1>3 DEF Cleanup, Running, Active
  <2>3. Cardinality(Running') = Cardinality(Running) - 1
    BY <1>1, <2>1, <2>2, FS_RemoveElement
  <2>4. wg' = wg - 1 /\ loop' = loop
    BY <1>3 DEF Cleanup
  <2> QED
    BY <1>1, <2>3, <2>4 DEF WgCounts
<1>4. CASE LoopEnd
  <2>1. Running' = Running
    BY <1>4 DEF LoopEnd, Running, Active
  <2> QED
    BY <1>1, <1>4, <2>1 DEF LoopEnd, WgCounts
<1>5. CASE LoopReceive
  <2>1. received \in Updates /\ task[received] = "none"
    BY <1>5, MaxUpdatesAssumption DEF LoopReceive, Order, Updates
  <2>2. Running' = Running
    BY <1>5, <2>1 DEF LoopReceive, Running, Active
  <2> QED
    BY <1>5, <2>2 DEF LoopReceive, WgCounts
<1>6. ASSUME NEW n \in Updates, Handle(n) \/ CleanupLock(n) PROVE WgCounts'
  <2>1. Running' = Running
    BY <1>6 DEF Handle, CleanupLock, Running, Active
  <2> QED
    BY <1>6, <2>1 DEF Handle, CleanupLock, WgCounts
<1>7. CASE Cancel \/ ProxyTake \/ ProxyClose \/ LoopLookup \/ CloseDone \/ UNCHANGED vars
  <2>1. /\ UNCHANGED <<task, wg>>
        /\ (loop' = "ended") <=> (loop = "ended")
    BY <1>7 DEF Cancel, ProxyTake, ProxyClose, LoopLookup, CloseDone, vars
  <2>2. Running' = Running
    BY <2>1 DEF Running, Active
  <2> QED
    BY <2>1, <2>2 DEF WgCounts
<1> QED
  BY <1>2, <1>3, <1>4, <1>5, <1>6, <1>7 DEF Next, LoopStep, TaskStep, Terminated

\* doneC is closed on a zero count, after which nothing starts.
LEMMA DoneMeansQuietStep == IInv /\ [Next]_vars => DoneMeansQuiet'
<1> SUFFICES ASSUME IInv, [Next]_vars, doneC' PROVE DoneMeansQuiet'
  BY DEF DoneMeansQuiet
<1> USE DEF IInv, TypeOK, DoneMeansQuiet
<1>1. CASE CloseDone
  <2>1. Cardinality(Running) \in Nat /\ IsFiniteSet(Running)
    BY RunningCount
  <2>2. Cardinality(Running) = 0 /\ loop = "ended"
    BY <1>1, <2>1 DEF CloseDone, WgCounts
  <2>3. Running = {}
    BY <2>1, <2>2, FS_EmptySet
  <2> QED
    BY <1>1, <2>2, <2>3 DEF CloseDone, Running, Active
<1>2. CASE ~CloseDone
  <2>1. doneC
    BY <1>2 DEF Next, LoopStep, LoopReceive, LoopLookup, LoopSpawn, LoopEnd, TaskStep,
       Handle, CleanupLock, Cleanup, Cancel, ProxyTake, ProxyClose, Terminated, vars
  <2>2. UNCHANGED <<loop, task>>
    BY <2>1 DEF Next, LoopStep, LoopReceive, LoopLookup, LoopSpawn, LoopEnd, TaskStep,
       Handle, CleanupLock, Cleanup, Cancel, ProxyTake, ProxyClose, CloseDone, Terminated, vars
  <2> QED
    BY <2>1, <2>2
<1> QED
  BY <1>1, <1>2

-----------------------------------------------------------------------------
\* The inductive invariant holds in every reachable state.
THEOREM Invariance == Spec => []IInv
<1>1. IInv /\ [Next]_vars => IInv'
  BY TypeOKStep, OrderStep, UsingStep, MapLockStep, HandlerLockStep, BusyIsEntryStep,
     EntryWatchedStep, WgCountsStep, SessionSerialStep, ConversationKeptStep,
     DoneMeansQuietStep DEF IInv
<1> QED
  BY InitIInv, <1>1, PTL DEF Spec

\* Every variable keeps its type; in particular wg.Done never drives the wait
\* group below zero, where Go would panic.
THEOREM TypeCorrect == Spec => []TypeOK
<1>1. IInv => TypeOK
  BY DEF IInv
<1> QED
  BY Invariance, <1>1, PTL

\* handleUpdate, which waits for a handler with the map locked, waits for a
\* goroutine that needs no lock to finish.
THEOREM NoDeadlockOfLocks == Spec => []NoLockCycle
<1>1. IInv => NoLockCycle
  <2> SUFFICES ASSUME IInv, loop = "wantHandler", handlerMx[using[hand]]
               PROVE  \E n \in Updates : using[n] = using[hand] /\ task[n] = "handle"
    BY DEF NoLockCycle
  <2>1. using[hand] \in Updates
    BY DEF IInv, Using
  <2> QED
    BY <2>1 DEF IInv, HandlerLock
<1> QED
  BY Invariance, <1>1, PTL

\* One user's messages in one chat are handled one at a time and in order,
\* as long as no stale cleanup has hit their session.
THEOREM SessionsAreSerial == Spec => []SessionSerial
<1>1. IInv => SessionSerial
  BY DEF IInv
<1> QED
  BY Invariance, <1>1, PTL

\* A conversation in progress stays reachable, under the same proviso.
THEOREM ConversationsAreKept == Spec => []ConversationKept
<1>1. IInv => ConversationKept
  BY DEF IInv
<1> QED
  BY Invariance, <1>1, PTL

\* When main returns no goroutine is in the middle of an update.
THEOREM ShutdownIsQuiet == Spec => []DoneMeansQuiet
<1>1. IInv => DoneMeansQuiet
  BY DEF IInv
<1> QED
  BY Invariance, <1>1, PTL

\* chatHandlersMap holds no entry that nobody will ever remove.
THEOREM NoHandlerLeaks == Spec => []NoLeakedHandler
<1>1. IInv => NoLeakedHandler
  BY DEF IInv, EntryWatched, NoLeakedHandler, Active
<1> QED
  BY Invariance, <1>1, PTL
-----------------------------------------------------------------------------
\* UpdatesPump knows of the dispatcher that its loop takes what the proxy offers and
\* that main returns after it: this process as UpdatesPump sees it once Run has
\* returned, with all its updates in the channel.
Stream(i, n) == [k \in 1 .. n - i |-> i + k]
Delivered == IF proxy = "sending" THEN received - 1 ELSE received
Pump ==
  INSTANCE UpdatesPump WITH
    Buffer <- MaxUpdates + 1, MaxRuns <- 1,
    sent <- MaxUpdates, confirmed <- 0, offset <- MaxUpdates + 1, got <- MaxUpdates,
    ch <- Stream(received, MaxUpdates),
    held <- IF proxy = "sending" THEN received ELSE 0,
    proxy <- CASE proxy = "select" -> "select"
               [] proxy = "sending" -> "send"
               [] OTHER -> "ended",
    main <- IF doneC THEN "ended" ELSE "looping",
    cancelled <- ctxDone, runs <- 1, base <- 0,
    handled <- Stream(0, Delivered), dropped <- <<>>

\* The proxy ends after the context and the loop after the proxy.
EndsInTurn ==
  /\ proxy = "closed" => ctxDone
  /\ loop = "ended" => proxy = "closed"

\* A stream's first element, its rest, and one element more.
LEMMA StreamParts ==
  ASSUME NEW i \in Nat, NEW n \in Nat
  PROVE  /\ i < n => /\ Stream(i, n) # <<>>
                     /\ Head(Stream(i, n)) = i + 1
                     /\ Tail(Stream(i, n)) = Stream(i + 1, n)
         /\ Append(Stream(0, n), n + 1) = Stream(0, n + 1)
<1> DEFINE s == Stream(i, n)
<1>1. ASSUME i < n PROVE s # <<>> /\ Head(s) = i + 1 /\ Tail(s) = Stream(i + 1, n)
  <2>1. s \in Seq(Nat) /\ Len(s) = n - i /\ \A k \in 1 .. n - i : s[k] = i + k
    BY <1>1 DEF Stream
  <2>2. s # <<>> /\ Head(s) = i + 1
    BY <1>1, <2>1
  <2>3. /\ Tail(s) \in Seq(Nat) /\ Len(Tail(s)) = n - (i + 1)
        /\ \A k \in 1 .. n - (i + 1) : Tail(s)[k] = s[k + 1]
    BY <1>1, <2>1, <2>2
  <2>4. \A k \in 1 .. n - (i + 1) : Tail(s)[k] = (i + 1) + k
    BY <2>1, <2>3
  <2>5. ASSUME NEW q \in Seq(Nat), \A k \in 1 .. Len(q) : q[k] = (i + 1) + k
        PROVE  q = [k \in 1 .. Len(q) |-> (i + 1) + k]
    BY <2>5
  <2>6. Tail(s) = Stream(i + 1, n)
    <3> DEFINE q == Tail(s)
    <3>1. q \in Seq(Nat) /\ Len(q) = n - (i + 1) /\ \A k \in 1 .. Len(q) : q[k] = (i + 1) + k
      BY <2>3, <2>4
    <3> HIDE DEF q, s
    <3>2. q = [k \in 1 .. Len(q) |-> (i + 1) + k]
      BY <2>5, <3>1
    <3> QED
      BY <3>1, <3>2 DEF q, Stream
  <2> QED
    BY <2>2, <2>6
<1>2. Append(Stream(0, n), n + 1) = Stream(0, n + 1)
  <2> DEFINE t == Stream(0, n)
             a == Append(t, n + 1)
  <2>1. t \in Seq(Nat) /\ Len(t) = n /\ \A k \in 1 .. n : t[k] = k
    BY DEF Stream
  <2>2. a \in Seq(Nat) /\ Len(a) = n + 1 /\ \A k \in 1 .. n + 1 : a[k] = k
    BY <2>1
  <2>3. a = [k \in 1 .. n + 1 |-> a[k]]
    BY <2>2
  <2> QED
    BY <2>2, <2>3 DEF Stream
<1> QED
  BY <1>1, <1>2

\* The order in which the goroutines end.
LEMMA EndsInTurnInvariance == Spec => []EndsInTurn
<1>1. Init => EndsInTurn
  BY DEF Init, EndsInTurn
<1>2. EndsInTurn /\ [Next]_vars => EndsInTurn'
  BY DEF EndsInTurn, Next, LoopStep, LoopReceive, LoopLookup, LoopSpawn, LoopEnd, TaskStep,
     Handle, CleanupLock, Cleanup, Cancel, ProxyTake, ProxyClose, CloseDone, Terminated, vars
<1> QED
  BY <1>1, <1>2, PTL DEF Spec

\* Each step is one of the pump's, or one it does not see.
LEMMA PumpStep ==
  ASSUME IInv, EndsInTurn, [Next]_vars
  PROVE  [Pump!Next]_(Pump!vars)
<1> USE DEF Pump!vars, Pump!telegram, Pump!poller, Pump!proxying, Pump!history,
            Pump!Alive, Pump!None, Delivered
<1>1. received \in Nat /\ MaxUpdates \in Nat /\ received <= MaxUpdates
  BY MaxUpdatesAssumption DEF IInv, TypeOK
<1>2. doneC => loop = "ended" /\ proxy = "closed" /\ ctxDone
  BY DEF IInv, DoneMeansQuiet, EndsInTurn
<1>3. CASE Cancel
  <2>1. Pump!Signal
    BY <1>2, <1>3 DEF Cancel, Pump!Signal
  <2> QED
    BY <2>1 DEF Pump!Next
<1>4. CASE ProxyTake
  <2>1. Pump!ProxyTake
    BY <1>1, <1>4, StreamParts DEF ProxyTake, Pump!ProxyTake
  <2> QED
    BY <2>1 DEF Pump!Next
<1>5. CASE ProxyClose
  <2>1. Pump!ProxyEnds
    BY <1>5 DEF ProxyClose, Pump!ProxyEnds
  <2> QED
    BY <2>1 DEF Pump!Next
<1>6. CASE LoopReceive
  <2>1. received - 1 \in Nat
    BY <1>1, <1>6 DEF LoopReceive, IInv, TypeOK, Order
  <2>2. Append(Stream(0, received - 1), received) = Stream(0, received)
    <3>1. PICK m \in Nat : m = received - 1 /\ m + 1 = received
      BY <1>1, <2>1
    <3> QED
      BY <3>1, StreamParts
  <2>3. Pump!Handle
    BY <1>2, <1>6, <2>2 DEF LoopReceive, Pump!Handle
  <2> QED
    BY <2>3 DEF Pump!Next
<1>7. CASE CloseDone
  <2>1. loop = "ended"
    BY <1>7, RunningCount DEF IInv, WgCounts, CloseDone
  <2>2. Pump!Done
    BY <1>7, <2>1 DEF CloseDone, EndsInTurn, Pump!Done
  <2> QED
    BY <2>2 DEF Pump!Next, Pump!Main
<1>8. ASSUME [Next]_vars,
             ~Cancel, ~ProxyTake, ~ProxyClose, ~LoopReceive, ~CloseDone
      PROVE  UNCHANGED <<proxy, received, doneC, ctxDone>>
  BY <1>8 DEF Next, LoopStep, LoopLookup, LoopSpawn, LoopEnd, TaskStep, Handle,
     CleanupLock, Cleanup, Terminated, vars
<1> QED
  BY <1>3, <1>4, <1>5, <1>6, <1>7, <1>8

\* The interface of the two modules: whatever the loop, the goroutines of its
\* updates and their locks do, from outside they take the updates one by one in the
\* order of the stream, and main is told of the end only when the proxy has ended, so
\* that no update is left in its hand: all their steps are steps of UpdatesPump.
THEOREM DispatchIsPumped == Spec => [][Pump!Next]_(Pump!vars)
<1>1. IInv /\ EndsInTurn /\ [Next]_vars => [Pump!Next]_(Pump!vars)
  BY PumpStep
<1> QED
  BY Invariance, EndsInTurnInvariance, <1>1, PTL DEF Spec
=============================================================================
