----------------------------- MODULE UpdatesPump -----------------------------
(***************************************************************************)
(* How Telegram's updates come into the bot, over its restarts: main,      *)
(* Run and runUpdatesLoop (cmd/tgauth/tg-auth-bot.go, tgbot/tg-bot.go)     *)
(* with the half second in which the proxy already takes updates, the      *)
(* Clear that drops what has come in it, and the loop started after that.  *)
(* What the loop does with an update is ChatDispatch.                      *)
(*                                                                         *)
(* External: the poller of the Telegram library, which pushes the answers  *)
(* of getUpdates into a buffered channel and confirms them with the offset *)
(* of its next request; Telegram repeats to a new process whatever was     *)
(* not confirmed.                                                          *)
(***************************************************************************)
EXTENDS Naturals, Sequences

CONSTANTS
  Buffer,      \* capacity of the channel from the poller
  MaxUpdates,  \* bound: updates users send
  MaxRuns      \* bound: how often the bot is started

ASSUME BoundsAssumption ==
  /\ Buffer \in Nat \ {0} /\ MaxUpdates \in Nat /\ MaxRuns \in Nat \ {0}

Ids == 1 .. MaxUpdates
None == 0

VARIABLES
  sent,       \* updates that users have sent: 1 .. sent
  confirmed,  \* Telegram has forgotten 1 .. confirmed
  offset,     \* the poller's offset: the next update it will push
  got,        \* the last one of the answer it is pushing
  ch,         \* the channel from the poller
  held,       \* the update the proxy sends to updatesProxy, or None
  proxy,      \* the proxy goroutine, ended when updatesProxy is closed
  main,       \* main's goroutine: in Run, in its Sleep, at the len of Clear or
              \* at its receive; waiting for Done after Run has returned nil
              \* ("looping") or an error ("stuck"); ended or killed ("down")
  cancelled,  \* ctx
  runs,       \* the bot's starts
  base,       \* history: confirmed when this run's poller started
  handled,    \* history: updates this run has handled, in order
  dropped     \* history: updates this run has dropped in Clear

telegram == <<sent, confirmed>>
poller == <<offset, got>>
proxying == <<held, proxy>>
history == <<base, handled, dropped>>
vars == <<telegram, poller, ch, proxying, main, cancelled, runs, history>>

Alive == main \notin {"ended", "down"}
Up == Alive /\ main \notin {"run", "stuck"}

TypeOK ==
  /\ sent \in 0 .. MaxUpdates /\ confirmed \in 0 .. sent
  /\ got \in 0 .. sent /\ offset \in 1 .. got + 1
  /\ ch \in Seq(Ids) /\ Len(ch) <= Buffer
  /\ held \in Ids \cup {None}
  /\ proxy \in {"none", "select", "send", "ended"}
  /\ main \in {"run", "sleep", "len", "receive", "looping", "stuck", "ended", "down"}
  /\ cancelled \in BOOLEAN /\ runs \in 1 .. MaxRuns
  /\ base \in 0 .. sent
  /\ handled \in Seq(Ids) /\ dropped \in Seq(Ids)

\* What a process starts with; Telegram may hold updates from before.
Fresh ==
  /\ offset' = confirmed + 1 /\ got' = confirmed
  /\ ch' = <<>> /\ held' = None /\ proxy' = "none"
  /\ main' = "run" /\ cancelled' = FALSE
  /\ base' = confirmed /\ handled' = <<>> /\ dropped' = <<>>

Init ==
  /\ sent \in 0 .. MaxUpdates /\ confirmed = 0
  /\ offset = 1 /\ got = 0
  /\ ch = <<>> /\ held = None /\ proxy = "none"
  /\ main = "run" /\ cancelled = FALSE /\ runs = 1
  /\ base = 0 /\ handled = <<>> /\ dropped = <<>>

-----------------------------------------------------------------------------
\* Users, Telegram and its library: external.

Send ==
  /\ sent < MaxUpdates
  /\ sent' = sent + 1
  /\ UNCHANGED <<confirmed, poller, ch, proxying, main, cancelled, runs, history>>

\* A request for more, which confirms what was pushed, reaches Telegram.
Request ==
  /\ Up /\ offset > got
  /\ confirmed < offset - 1
  /\ confirmed' = offset - 1
  /\ UNCHANGED <<sent, poller, ch, proxying, main, cancelled, runs, history>>

\* An answer comes with some of the updates; one without, and a request that
\* failed, are followed by the next request.
Answer ==
  /\ Up /\ offset > got
  /\ confirmed = offset - 1
  /\ got' \in offset .. sent
  /\ UNCHANGED <<telegram, offset, ch, proxying, main, cancelled, runs, history>>

Push ==
  /\ Up /\ offset <= got
  /\ Len(ch) < Buffer
  /\ ch' = Append(ch, offset)
  /\ offset' = offset + 1
  /\ UNCHANGED <<telegram, got, proxying, main, cancelled, runs, history>>

-----------------------------------------------------------------------------
\* Run.

\* initCommands fails, and Run returns its error, which main drops.
RunFails ==
  /\ main = "run"
  /\ main' = "stuck"
  /\ UNCHANGED <<telegram, poller, ch, proxying, cancelled, runs, history>>

\* runUpdatesLoop starts the poller and the proxy and goes to sleep.
StartPolling ==
  /\ main = "run"
  /\ main' = "sleep" /\ proxy' = "select"
  /\ UNCHANGED <<telegram, poller, ch, held, cancelled, runs, history>>

WakeUp ==
  /\ main = "sleep"
  /\ main' = "len"
  /\ UNCHANGED <<telegram, poller, ch, proxying, cancelled, runs, history>>

\* A fault: Clear receives first and looks at the length afterwards.
ClearEager ==
  /\ main = "len"
  /\ main' = "receive"
  /\ UNCHANGED <<telegram, poller, ch, proxying, cancelled, runs, history>>

\* Clear: for len(ch) != 0 ...; at its end the loop is started and Run returns.
ClearLen ==
  /\ main = "len"
  /\ main' = IF ch = <<>> THEN "looping" ELSE "receive"
  /\ UNCHANGED <<telegram, poller, ch, proxying, cancelled, runs, history>>

\* ... { <-ch }: the proxy may have been faster.
ClearReceive ==
  /\ main = "receive" /\ ch # <<>>
  /\ dropped' = Append(dropped, Head(ch))
  /\ ch' = Tail(ch)
  /\ main' = "len"
  /\ UNCHANGED <<telegram, poller, proxying, cancelled, runs, base, handled>>

-----------------------------------------------------------------------------
\* The proxy and the loop.

ProxyTake ==
  /\ proxy = "select" /\ ch # <<>>
  /\ held' = Head(ch) /\ ch' = Tail(ch)
  /\ proxy' = "send"
  /\ UNCHANGED <<telegram, poller, main, cancelled, runs, history>>

\* A fault: the send is given up when the bot is being stopped.
ProxyGivesUp ==
  /\ proxy = "select" \/ proxy = "send"
  /\ cancelled
  /\ proxy' = "ended" /\ held' = None
  /\ UNCHANGED <<telegram, poller, ch, main, cancelled, runs, history>>

\* A fault: a proxy that finds nothing to take ends.
ProxyEndsIdle ==
  /\ proxy = "select" /\ ch = <<>>
  /\ proxy' = "ended"
  /\ UNCHANGED <<telegram, poller, ch, held, main, cancelled, runs, history>>

\* A fault: the select does not look at the context.
ProxyStays == FALSE

ProxyEnds ==
  /\ proxy = "select" /\ cancelled
  /\ proxy' = "ended"
  /\ UNCHANGED <<telegram, poller, ch, held, main, cancelled, runs, history>>

\* A fault: the loop receives without looking whether updatesProxy is closed, and
\* handles the zero update of a closed one.
HandleClosed ==
  /\ main = "looping" /\ proxy \in {"send", "ended"}
  /\ handled' = Append(handled, held)
  /\ held' = None
  /\ proxy' = IF proxy = "send" THEN "select" ELSE "ended"
  /\ UNCHANGED <<telegram, poller, ch, main, cancelled, runs, base, dropped>>

\* updatesProxy has no buffer: the send lasts until the loop takes the update.
Handle ==
  /\ main = "looping" /\ proxy = "send"
  /\ handled' = Append(handled, held)
  /\ held' = None /\ proxy' = "select"
  /\ UNCHANGED <<telegram, poller, ch, main, cancelled, runs, base, dropped>>

\* The loop ends as updatesProxy is closed, doneC is closed, main returns.
Done ==
  /\ main = "looping" /\ proxy = "ended"
  /\ main' = "ended"
  /\ UNCHANGED <<telegram, poller, ch, proxying, cancelled, runs, history>>

Signal ==
  /\ Alive /\ ~cancelled
  /\ cancelled' = TRUE
  /\ UNCHANGED <<telegram, poller, ch, proxying, main, runs, history>>

Crash ==
  /\ Alive
  /\ main' = "down"
  /\ UNCHANGED <<telegram, poller, ch, proxying, cancelled, runs, history>>

Restart ==
  /\ ~Alive
  /\ runs < MaxRuns
  /\ runs' = runs + 1
  /\ Fresh
  /\ UNCHANGED telegram

\* Down for ever, as far as this instance goes.
Rest ==
  /\ ~Alive /\ runs = MaxRuns
  /\ UNCHANGED vars

Poller == Request \/ Answer \/ Push
Main == StartPolling \/ WakeUp \/ ClearLen \/ ClearReceive \/ Done

Next ==
  \/ Send \/ Poller
  \/ RunFails \/ Main
  \/ ProxyTake \/ ProxyEnds \/ Handle
  \/ Signal \/ Crash \/ Restart \/ Rest

\* The goroutines go on, Telegram answers in the end, and the loop takes what it
\* is offered, as ChatDispatch shows.  Nothing is assumed of users and signals.
Fairness ==
  /\ WF_vars(Poller) /\ WF_vars(Main) /\ WF_vars(Handle)
  /\ WF_vars(ProxyTake) /\ WF_vars(ProxyEnds)

Spec == Init /\ [][Next]_vars /\ Fairness

-----------------------------------------------------------------------------
Entries(s) == {s[i] : i \in 1 .. Len(s)}
Ordered(s) == \A i, j \in 1 .. Len(s) : i < j => s[i] < s[j]

\* The updates of this run in the order in which the bot is done with them.
Pipeline == handled \o (IF held = None THEN <<>> ELSE <<held>>) \o ch

\* What Telegram was told to forget does not get lost while the bot is up: every
\* update this run's poller has pushed is handled, dropped by Clear or on its way,
\* once, and the bot handles them in the order they were sent.
EachOnceInOrder ==
  Up =>
    /\ Ordered(Pipeline) /\ Ordered(dropped)
    /\ Entries(Pipeline) \cap Entries(dropped) = {}
    /\ Entries(Pipeline) \cup Entries(dropped) = base + 1 .. offset - 1

\* Clear waits for an update only when the proxy has taken the one it saw, and the
\* proxy then waits for the loop: the next update, whenever it is sent, is dropped
\* and lets Run go on; until then not even a signal ends the bot.
ClearOutrun == main = "receive" /\ ch = <<>> => proxy = "send"

\* Once the loop runs, every update that the poller had not pushed before is
\* handled, unless the bot is stopped or killed.
LateHandled ==
  \A u \in Ids :
    (main = "looping" /\ u \in offset .. sent) ~>
      u \in Entries(handled) \/ cancelled \/ main = "down"

\* A bot that is told to stop ends, unless Run has failed before, whose error main
\* drops, or Clear waits for an update that nobody sends: only these two need a kill.
StopEnds ==
  cancelled ~>
    (~Alive \/ [](main = "stuck") \/ [](main = "receive" /\ ch = <<>>))
=============================================================================
