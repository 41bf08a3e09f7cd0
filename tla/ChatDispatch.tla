---------------------------- MODULE ChatDispatch ----------------------------
(***************************************************************************)
(* The update dispatcher of the Telegram bot (tgbot/tg-bot.go): the proxy  *)
(* goroutine that forwards Telegram updates, the loop that looks up or     *)
(* creates the ChatHandler of the update's session and starts one          *)
(* goroutine per update, the cleanup each goroutine runs at its end, and   *)
(* the shutdown of all of them through the context and the wait group.     *)
(*                                                                         *)
(* An update is named by its position in the stream.  The goroutine it     *)
(* starts has the same name, and so does the ChatHandler it allocates when *)
(* its session has no entry in chatHandlersMap.  Both kinds of mutex are   *)
(* booleans, as in Go a mutex does not know who holds it.                  *)
(***************************************************************************)
EXTENDS Naturals, FiniteSets

CONSTANTS
  Sessions,         \* InteractiveSessionIds: a chat and a user
  PublicSessions,   \* those in a group chat
  MaxUpdates        \* bound on the number of updates Telegram delivers

ASSUME SessionsAssumption == PublicSessions \subseteq Sessions
ASSUME MaxUpdatesAssumption == MaxUpdates \in Nat

Updates == 1 .. MaxUpdates
NoHandler == 0

VARIABLES
  sessionOf,         \* the session of each update, fixed by the environment
  ctxDone,           \* bot.ctx is cancelled
  proxy,             \* the goroutine that forwards updates to updatesProxy
  received,          \* how many updates the proxy has taken from Telegram
  loop,              \* the goroutine that ranges over updatesProxy
  hand,              \* the update the loop took last
  chatHandlersMx,
  chatHandlersMap,
  handlerMx,         \* per ChatHandler
  currentHandler,    \* per ChatHandler: is its currentHandler non-nil
  task,              \* per update: the progress of its goroutine
  using,             \* per update: the ChatHandler its goroutine works on
  wg,                \* bot.wg
  doneC,             \* bot.doneC is closed
  clobbered          \* history: sessions whose entry a cleanup removed
                     \* although it held another ChatHandler

vars == <<sessionOf, ctxDone, proxy, received, loop, hand, chatHandlersMx,
          chatHandlersMap, handlerMx, currentHandler, task, using, wg, doneC,
          clobbered>>

lockVars  == <<chatHandlersMx, handlerMx>>
tableVars == <<chatHandlersMap, currentHandler, using, clobbered>>

TypeOK ==
  /\ sessionOf \in [Updates -> Sessions]
  /\ ctxDone \in BOOLEAN
  /\ proxy \in {"select", "sending", "closed"}
  /\ received \in 0 .. MaxUpdates
  /\ loop \in {"recv", "wantMap", "wantHandler", "ended"}
  /\ hand \in 0 .. MaxUpdates
  /\ chatHandlersMx \in BOOLEAN
  /\ chatHandlersMap \in [Sessions -> Updates \cup {NoHandler}]
  /\ handlerMx \in [Updates -> BOOLEAN]
  /\ currentHandler \in [Updates -> BOOLEAN]
  /\ task \in [Updates -> {"none", "ignored", "handle", "cleanup", "cleaning", "done"}]
  /\ using \in [Updates -> Updates \cup {NoHandler}]
  /\ wg \in Nat
  /\ doneC \in BOOLEAN
  /\ clobbered \subseteq Sessions

\* runUpdatesLoop has returned: proxy and loop run, the loop is counted in wg.
Init ==
  /\ sessionOf \in [Updates -> Sessions]
  /\ ctxDone = FALSE
  /\ proxy = "select"
  /\ received = 0
  /\ loop = "recv"
  /\ hand = 0
  /\ chatHandlersMx = FALSE
  /\ chatHandlersMap = [s \in Sessions |-> NoHandler]
  /\ handlerMx = [n \in Updates |-> FALSE]
  /\ currentHandler = [n \in Updates |-> FALSE]
  /\ task = [n \in Updates |-> "none"]
  /\ using = [n \in Updates |-> NoHandler]
  /\ wg = 1
  /\ doneC = FALSE
  /\ clobbered = {}

-----------------------------------------------------------------------------
\* SIGINT or SIGTERM: main calls cancel().
Cancel ==
  /\ ~ctxDone
  /\ ctxDone' = TRUE
  /\ UNCHANGED <<sessionOf, proxy, received, loop, hand, lockVars, tableVars, task, wg, doneC>>

\* The proxy's select: an update may be taken even when ctx is done already.
ProxyTake ==
  /\ proxy = "select"
  /\ received < MaxUpdates
  /\ proxy' = "sending"
  /\ received' = received + 1
  /\ UNCHANGED <<sessionOf, ctxDone, loop, hand, lockVars, tableVars, task, wg, doneC>>

\* The other branch of the select; the deferred close ends the loop's range.
ProxyClose ==
  /\ proxy = "select"
  /\ ctxDone
  /\ proxy' = "closed"
  /\ UNCHANGED <<sessionOf, ctxDone, received, loop, hand, lockVars, tableVars, task, wg, doneC>>

\* The loop and the proxy meet on the unbuffered updatesProxy.
LoopReceive ==
  /\ loop = "recv"
  /\ proxy = "sending"
  /\ proxy' = "select"
  /\ hand' = received
  /\ \/ loop' = "wantMap" /\ task' = task
     \* no message, chat or sender: handleUpdate returns at once
     \/ loop' = "recv" /\ task' = [task EXCEPT ![received] = "ignored"]
  /\ UNCHANGED <<sessionOf, ctxDone, received, lockVars, tableVars, wg, doneC>>

\* handleUpdate locks the map, and finds or creates the session's ChatHandler.
LoopLookup ==
  LET s == sessionOf[hand]
      known == chatHandlersMap[s] # NoHandler
      h == IF known THEN chatHandlersMap[s] ELSE hand
  IN /\ loop = "wantMap"
     /\ ~chatHandlersMx
     /\ chatHandlersMx' = TRUE
     /\ chatHandlersMap' = [chatHandlersMap EXCEPT ![s] = h]
     /\ using' = [using EXCEPT ![hand] = h]
     /\ loop' = "wantHandler"
     /\ UNCHANGED <<sessionOf, ctxDone, proxy, received, hand, handlerMx,
                    currentHandler, task, wg, doneC, clobbered>>

\* The spawn without wg.Add.
SpawnUncounted ==
  /\ loop = "wantHandler"
  /\ ~handlerMx[using[hand]]
  /\ handlerMx' = [handlerMx EXCEPT ![using[hand]] = TRUE]
  /\ chatHandlersMx' = FALSE
  /\ task' = [task EXCEPT ![hand] = "handle"]
  /\ loop' = "recv"
  /\ UNCHANGED <<sessionOf, ctxDone, proxy, received, hand, tableVars, wg, doneC>>

\* Still holding the map lock, handleUpdate waits for the handler's own lock,
\* then releases the map and starts the goroutine, which inherits handlerMx.
LoopSpawn ==
  /\ loop = "wantHandler"
  /\ ~handlerMx[using[hand]]
  /\ handlerMx' = [handlerMx EXCEPT ![using[hand]] = TRUE]
  /\ chatHandlersMx' = FALSE
  /\ wg' = wg + 1
  /\ task' = [task EXCEPT ![hand] = "handle"]
  /\ loop' = "recv"
  /\ UNCHANGED <<sessionOf, ctxDone, proxy, received, hand, tableVars, doneC>>

\* The loop that returns on ctx.Done instead of draining updatesProxy.
EndOnCancel ==
  /\ loop = "recv"
  /\ ctxDone
  /\ loop' = "ended"
  /\ wg' = wg - 1
  /\ UNCHANGED <<sessionOf, ctxDone, proxy, received, hand, lockVars, tableVars, task, doneC>>

\* The range over updatesProxy ends when the channel is closed.
LoopEnd ==
  /\ loop = "recv"
  /\ proxy = "closed"
  /\ loop' = "ended"
  /\ wg' = wg - 1
  /\ UNCHANGED <<sessionOf, ctxDone, proxy, received, hand, lockVars, tableVars, task, doneC>>

\* What handleChatMessageUpdate leaves in currentHandler: nil after any command
\* in a group chat; in a private chat nil when the conversation ends and a
\* handler when it goes on or an error makes the function return early.
Outcomes(n) == IF sessionOf[n] \in PublicSessions THEN {FALSE} ELSE BOOLEAN

\* An early return that forgets to unlock the handler.
HandleNoUnlock(n) ==
  /\ task[n] = "handle"
  /\ \E c \in Outcomes(n) : currentHandler' = [currentHandler EXCEPT ![using[n]] = c]
  /\ task' = [task EXCEPT ![n] = "cleanup"]
  /\ UNCHANGED <<sessionOf, ctxDone, proxy, received, loop, hand, lockVars,
                 chatHandlersMap, using, wg, doneC, clobbered>>

\* The goroutine runs handleChatMessageUpdate and handleNewInteractiveCommands,
\* then unlocks its handler.
Handle(n) ==
  /\ task[n] = "handle"
  /\ \E c \in Outcomes(n) : currentHandler' = [currentHandler EXCEPT ![using[n]] = c]
  /\ handlerMx' = [handlerMx EXCEPT ![using[n]] = FALSE]
  /\ task' = [task EXCEPT ![n] = "cleanup"]
  /\ UNCHANGED <<sessionOf, ctxDone, proxy, received, loop, hand, chatHandlersMx,
                 chatHandlersMap, using, wg, doneC, clobbered>>

\* handleCleanup waits for the map lock.
CleanupLock(n) ==
  /\ task[n] = "cleanup"
  /\ ~chatHandlersMx
  /\ chatHandlersMx' = TRUE
  /\ task' = [task EXCEPT ![n] = "cleaning"]
  /\ UNCHANGED <<sessionOf, ctxDone, proxy, received, loop, hand, handlerMx,
                 tableVars, wg, doneC>>

\* Three wrong tests: without TryLock, without the look at currentHandler, and
\* with that look inverted.
RemovableBusy(h) == ~currentHandler[h]
RemovableTalking(h) == ~handlerMx[h]
RemovableInverted(h) == ~handlerMx[h] /\ currentHandler[h]

\* TryLock succeeds and the conversation is over.
Removable(h) == ~handlerMx[h] /\ ~currentHandler[h]

\* Under the map lock handleCleanup tries the handler's lock and, if the
\* handler is idle without a conversation, deletes the entry under its id.
Cleanup(n) ==
  LET h == using[n]
      s == sessionOf[h]
  IN /\ task[n] = "cleaning"
     /\ \/ /\ Removable(h)
           /\ chatHandlersMap' = [chatHandlersMap EXCEPT ![s] = NoHandler]
           /\ clobbered' = IF chatHandlersMap[s] \in {h, NoHandler}
                           THEN clobbered ELSE clobbered \cup {s}
        \/ ~Removable(h) /\ UNCHANGED <<chatHandlersMap, clobbered>>
     /\ chatHandlersMx' = FALSE
     /\ task' = [task EXCEPT ![n] = "done"]
     /\ wg' = wg - 1
     /\ UNCHANGED <<sessionOf, ctxDone, proxy, received, loop, hand, handlerMx,
                    currentHandler, using, doneC>>

\* doneC closed when the loop ends, without waiting for the goroutines.
CloseWithLoop ==
  /\ loop = "ended"
  /\ ~doneC
  /\ doneC' = TRUE
  /\ UNCHANGED <<sessionOf, ctxDone, proxy, received, loop, hand, lockVars, tableVars, task, wg>>

\* The goroutine in wg.Wait closes doneC, on which main returns.
CloseDone ==
  /\ wg = 0
  /\ ~doneC
  /\ doneC' = TRUE
  /\ UNCHANGED <<sessionOf, ctxDone, proxy, received, loop, hand, lockVars, tableVars, task, wg>>

Terminated == doneC /\ UNCHANGED vars

LoopStep == LoopReceive \/ LoopLookup \/ LoopSpawn \/ LoopEnd
TaskStep(n) == Handle(n) \/ CleanupLock(n) \/ Cleanup(n)

Next ==
  \/ Cancel \/ ProxyTake \/ ProxyClose
  \/ LoopStep
  \/ \E n \in Updates : TaskStep(n)
  \/ CloseDone
  \/ Terminated

\* Go runs every goroutine that can go on: the proxy, the loop, the goroutine
\* of each update and the one in wg.Wait.  Telegram and the operator owe
\* nothing: ProxyTake and Cancel need not happen.
Fairness ==
  /\ WF_vars(ProxyClose)
  /\ WF_vars(LoopStep)
  /\ WF_vars(CloseDone)
  /\ \A n \in Updates : WF_vars(TaskStep(n))

Spec == Init /\ [][Next]_vars /\ Fairness

-----------------------------------------------------------------------------
\* While the dispatcher waits for a handler's lock it keeps every cleanup and
\* every other session waiting on chatHandlersMx.  This cannot become a cycle:
\* the goroutine it waits for is one that still handles its update and has yet
\* to reach the map lock (tg-bot.go, handleUpdate and handleCleanup).
NoLockCycle ==
  loop = "wantHandler" /\ handlerMx[using[hand]] =>
    \E n \in Updates : using[n] = using[hand] /\ task[n] = "handle"

\* Messages of one user in one chat are handled one at a time and in the order
\* Telegram sent them, unless a cleanup has removed the entry of a handler that
\* was not its own: that stale removal is the only way handleUpdate loses the
\* mutual exclusion of a session.
SessionSerial ==
  \A m, n \in Updates :
    /\ sessionOf[m] = sessionOf[n]
    /\ m < n
    /\ task[n] \in {"handle", "cleanup", "cleaning", "done"}
    => task[m] # "handle" \/ sessionOf[m] \in clobbered

\* A conversation in progress can be found again: its ChatHandler is the
\* session's entry in the map, under the same proviso.
ConversationKept ==
  \A h \in Updates :
    currentHandler[h] => chatHandlersMap[sessionOf[h]] = h \/ sessionOf[h] \in clobbered

\* main returns on doneC: by then the loop has ended and no goroutine is in
\* the middle of an update or of its cleanup.
DoneMeansQuiet ==
  doneC => /\ loop = "ended"
           /\ \A n \in Updates : task[n] \in {"none", "ignored", "done"}

\* The table does not leak: once every goroutine has finished, an entry is left
\* only for a session whose conversation is still open.
NoLeakedHandler ==
  (\A n \in Updates : task[n] \in {"none", "ignored", "done"}) /\ loop \in {"recv", "ended"} =>
    \A s \in Sessions :
      chatHandlersMap[s] # NoHandler => currentHandler[chatHandlersMap[s]]

\* An update taken from Telegram is handled to the end, even when the bot is
\* told to stop meanwhile: Telegram will not deliver it again.
EveryUpdateHandled ==
  \A n \in Updates : received >= n ~> task[n] \in {"ignored", "done"}

\* A cancelled context ends the bot.
ShutdownCompletes == ctxDone ~> doneC

\* The comment in handleCleanup says that a successful TryLock means that the
\* handler is not in use; so the entry a cleanup deletes is one whose handler
\* nobody is using.
DeletedEntryNotInUse ==
  [][\A s \in Sessions :
       chatHandlersMap[s] # NoHandler /\ chatHandlersMap'[s] = NoHandler
         => ~handlerMx[chatHandlersMap[s]]]_vars
=============================================================================
