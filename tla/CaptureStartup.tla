--------------------------- MODULE CaptureStartup ---------------------------
(***************************************************************************)
(* How the extension gets from installed, restarted or failed to capturing *)
(* (background.ts, initializationController.ts, serializedWork.ts,         *)
(* captureRecovery.ts, contentIngress.ts, contentBootstrap.ts and          *)
(* captureIngressReliability.ts): one initialization at a time, one job at *)
(* a time behind it, recovery that injects the content script into every   *)
(* open page and is retried by an alarm, and the queue that carries what a *)
(* page reports to the background until it is acknowledged.                *)
(*                                                                         *)
(* The worker may be stopped between any two steps and is started again by *)
(* the next event: its memory is lost, its answers fail.  Initialization,  *)
(* jobs and storage may fail; a page may be slow to announce itself.  What *)
(* the worker asks of the browser to block or to restore capture is        *)
(* answered later, in the order it asked.                                  *)
(***************************************************************************)
EXTENDS Naturals, Sequences, FiniteSets

CONSTANTS
  Docs,           \* documents; each is opened at most once
  Front,          \* the document whose queue is modelled
  NowCoder,       \* the documents that are NowCoder result pages
  Setups,         \* what is open at first, how many documents a recovery
                  \* takes at most (100), and how much may happen
  MaxSends,       \* 3 tries per message
  MaxQueue,       \* 8 messages
  MaxInjections,  \* 3 injections per document
  Budget          \* 3 automatic retries

ASSUME StartupAssumption ==
  /\ Front \in Docs /\ NowCoder \subseteq Docs /\ IsFiniteSet(Docs)
  /\ {MaxSends, MaxQueue, MaxInjections, Budget} \subseteq Nat \ {0}
  /\ \A s \in Setups : s.open \subseteq Docs /\ s.supported \in BOOLEAN /\ s.most \in Nat
                       /\ {s.opens, s.faults, s.stops, s.users, s.messages} \subseteq Nat

VARIABLES
  room,      \* what may still happen: opens, faults, stops, users, messages
  enabled,   \* capture is enabled
  bg,        \* the worker's memory
  disk,      \* what outlives it: the retries spent and the scheduled alarm
  pages,     \* Docs -> stage, content runtime, context requests under way
  queue,     \* the front document's queue
  accepted,  \* history: messages the queue took
  handled,   \* history: messages the background has persisted
  installs   \* history: runtimes installed in each document

vars == <<room, enabled, bg, disk, pages, queue, accepted, handled, installs>>

Idle == [on |-> "off", docs |-> {}, left |-> {}, waits |-> {},
         tries |-> [d \in Docs |-> 0], failed |-> FALSE]
Injecting(docs) == [Idle EXCEPT !.on = "running", !.docs = docs, !.left = docs]
Owners == {"rec", "ing"}

(* A worker that starts initializes itself at once.                        *)
Fresh ==
  [ctl |-> "initializing", top |-> TRUE, status |-> "recovering", attempt |-> 0,
   ready |-> {}, waiter |-> [d \in Docs |-> "none"],
   committed |-> {}, known |-> {}, injected |-> {},
   jobs |-> <<>>, stage |-> "queued", rec |-> Idle, ing |-> Idle,
   calls |-> <<>>, unarmed |-> FALSE]

Job(kind, x) == [kind |-> kind, of |-> x]
Schedule(b, kind, x) == [b EXCEPT !.jobs = Append(@, Job(kind, x))]
Finished(b) == [b EXCEPT !.jobs = Tail(@), !.stage = "queued", !.ing = Idle]
Spend(what) == room[what] > 0 /\ room' = [room EXCEPT ![what] = @ - 1]

-----------------------------------------------------------------------------
(* The retry budget and the alarm.  `calls' are what the worker has asked  *)
(* of the browser and is waiting for; `by' says what goes on after the     *)
(* last of them: the recovery ("off" while capture is disabled), the job   *)
(* at the head, the user's retry, or nothing.                              *)

NoRetries == [attempt |-> 0, alarm |-> 0]
ResetBudget(b) == [b EXCEPT !.attempt = 0, !.unarmed = FALSE]

Asks(b, do, n, by) == [b EXCEPT !.calls = Append(@, [do |-> do, n |-> n, by |-> by])]

(* A failure that may pass is told to storage first.                       *)
BlockedBy(b, by) == Asks([b EXCEPT !.status = "retryable"], "tell", 0, by)
Blocked(b, n) ==
  IF n = 0 THEN b
  ELSE [b EXCEPT !.status = "retryable",
                 !.calls = @ \o [i \in 1 .. n |-> [do |-> "tell", n |-> 0, by |-> "none"]]]

Settling(b) == [b EXCEPT !.rec = [Idle EXCEPT !.on = "settling"]]
RecoveryBlocked(b) == BlockedBy(Settling(b), "rec")
Restored(b, by) ==
  Asks([Settling(ResetBudget(b)) EXCEPT !.status = "ready"], "remove", 0, by)

(* A reset while initializing is ignored.                                  *)
Reset(b) == [b EXCEPT !.ctl = IF @ = "initializing" THEN @ ELSE "idle"]
Ensure(b) == [b EXCEPT !.ctl = IF @ = "ready" THEN @ ELSE "initializing"]
(* A recovery under way is joined.                                         *)
RequestRecovery(b) == IF b.rec.on = "off" THEN [b EXCEPT !.rec.on = "asked"] ELSE b

(* The last call of a block or a reset was answered.                       *)
Ended(b, by) ==
  CASE by \in {"rec", "off"} -> [b EXCEPT !.rec = Idle]
    [] by = "job" -> Finished(b)
    [] by = "user" -> [Reset(b) EXCEPT !.stage = "queued",
                         !.jobs = <<Job("alarm", Front)>> \o Tail(@)]
    [] by = "none" -> b

(* Mutant: the budget is stored, but no alarm is asked for.                *)
Unscheduled(b, n, by) == Ended(b, by)
Scheduled(b, n, by) == Asks(b, "create", n, by)

-----------------------------------------------------------------------------
(* Documents: injection, installation and the wait for READY.              *)

Done(b, o, d) ==
  [b EXCEPT ![o] = [b[o] EXCEPT !.left = @ \ {d}, !.waits = @ \ {d}]]

(* Mutant: that a document never announced itself is forgotten.            *)
MissedQuietly(b, o, d) ==
  LET last == b[o].tries[d] + 1 = MaxInjections
  IN [b EXCEPT ![o] = [b[o] EXCEPT !.tries[d] = @ + 1, !.waits = @ \ {d},
                                   !.left = IF last THEN @ \ {d} ELSE @],
               !.waiter[d] = "none"]
(* An injection failed or was not announced in time.  The waiter of the    *)
(* document is dropped, whoever waits.                                     *)
Missed(b, o, d) ==
  LET last == b[o].tries[d] + 1 = MaxInjections
  IN [b EXCEPT ![o] = [b[o] EXCEPT !.tries[d] = @ + 1, !.waits = @ \ {d},
                                   !.left = IF last THEN @ \ {d} ELSE @,
                                   !.failed = @ \/ last],
               !.waiter[d] = "none"]

NoteReady(b, d) ==
  LET o == b.waiter[d]
      noted == [b EXCEPT !.ready = @ \cup {d}, !.waiter[d] = "none"]
      woken == IF o = "none" THEN noted ELSE Done(noted, o, d)
  IN IF d \in NowCoder THEN Schedule(woken, "ready", d) ELSE woken

Open(d) == pages[d].stage \in {"loading", "loaded"}

(* Mutant: only an installed runtime stops a second installation.          *)
UnlessInstalled(d) == pages[d].runtime # "installed"
(* The content script installs itself where nothing else claimed the page. *)
Unclaimed(d) == pages[d].runtime = "none"

(* It runs by manifest or by injection: it asks for its context, for which *)
(* the worker must be initialized, or says again that it is installed.     *)
BootedPage(b, d) ==
  IF ~Unclaimed(d) THEN pages[d]
  ELSE [pages[d] EXCEPT !.runtime = "installing",
          !.asks = IF b.ctl = "ready" THEN @ ELSE @ + 1,
          !.replies = IF b.ctl = "ready" THEN @ + 1 ELSE @]
Booted(b, d) ==
  IF Unclaimed(d) THEN Ensure(b)
  ELSE IF pages[d].runtime = "installed" THEN NoteReady(b, d) ELSE b

(* Mutant: the wait whose place was taken by another has no timeout.       *)
StillRegistered(o) == {d \in bg[o].waits : bg.waiter[d] = o}
(* Every wait has a timeout of its own.                                    *)
TimesOut(o) == bg[o].waits

-----------------------------------------------------------------------------
(* The front document's queue.                                             *)

NoQueue == [pending |-> <<>>, tries |-> 0, sending |-> FALSE, blocked |-> FALSE, stopped |-> FALSE]
(* Mutant: one message too many.                                           *)
Overfull == Len(queue.pending) > MaxQueue
Full == Len(queue.pending) >= MaxQueue

(* Mutant: an acknowledged message is taken from the wrong end.            *)
AckedLast(q) ==
  IF q.sending THEN [q EXCEPT !.pending = SubSeq(@, 1, Len(@) - 1), !.tries = 0, !.sending = FALSE] ELSE q
Acked(q) ==
  IF q.sending THEN [q EXCEPT !.pending = Tail(@), !.tries = 0, !.sending = FALSE] ELSE q

(* Not acknowledged: tried again, and after the last try kept for good.    *)
Nacked(q) ==
  IF ~q.sending THEN q
  ELSE [q EXCEPT !.tries = @ + 1, !.sending = FALSE, !.blocked = q.tries + 1 = MaxSends]

Enqueues ==
  /\ pages[Front].runtime = "installed" /\ Open(Front)
  /\ Spend("messages")
  /\ IF queue.blocked \/ queue.stopped \/ Full THEN UNCHANGED <<queue, accepted>>
     ELSE LET m == Cardinality(accepted) + 1
          IN queue' = [queue EXCEPT !.pending = Append(@, m)] /\ accepted' = accepted \cup {m}
  /\ UNCHANGED <<enabled, bg, disk, pages, handled, installs>>

Sends ==
  /\ queue.pending # <<>> /\ ~queue.sending /\ ~queue.blocked
  /\ queue' = [queue EXCEPT !.sending = TRUE]
  /\ bg' = Schedule(bg, "message", Head(queue.pending))
  /\ UNCHANGED <<room, enabled, disk, pages, accepted, handled, installs>>

-----------------------------------------------------------------------------
(* Initialization and the executor.                                        *)

Current == Head(bg.jobs)
Running(stage) == bg.jobs # <<>> /\ bg.stage = stage

JobStarts ==
  /\ Running("queued")
  /\ bg' = [Ensure(bg) EXCEPT !.stage = IF bg.ctl = "ready" THEN "working" ELSE "initializing"]
  /\ UNCHANGED <<room, enabled, disk, pages, queue, accepted, handled, installs>>

InitSucceeds ==
  /\ bg.ctl = "initializing"
  /\ bg' = [RequestRecovery(bg) EXCEPT !.ctl = "ready", !.top = FALSE,
              !.stage = IF @ = "initializing" THEN "working" ELSE @]
  /\ pages' = [d \in Docs |-> [pages[d] EXCEPT !.asks = 0, !.replies = @ + pages[d].asks]]
  /\ UNCHANGED <<room, enabled, disk, queue, accepted, handled, installs>>

(* Mutant: the job that could not be initialized is not answered.          *)
SilentlySkipped == queue
Skipped == IF Running("initializing") /\ Current.kind = "message" THEN Nacked(queue) ELSE queue

(* Whoever waited for the initialization reports its failure: the start of *)
(* the worker, the job at the head, and every page that asked.             *)
InitFails ==
  LET head == IF Running("initializing") THEN 1 ELSE 0
      asking == {d \in Docs : pages[d].asks > 0}
      n == head + Cardinality(asking) + (IF bg.top THEN 1 ELSE 0)
      b == [Blocked(bg, n) EXCEPT !.ctl = "idle", !.top = FALSE]
  IN /\ bg.ctl = "initializing"
     /\ Spend("faults")
     /\ bg' = IF head = 1 THEN Finished(b) ELSE b
     /\ pages' = [d \in Docs |-> IF d \in asking THEN [pages[d] EXCEPT !.asks = 0, !.runtime = "none"]
                                 ELSE pages[d]]
     /\ queue' = Skipped
     /\ UNCHANGED <<enabled, disk, accepted, handled, installs>>

(* A reported message is handled, or fails before or after it is stored.   *)
HandlesMessage ==
  /\ Running("working") /\ Current.kind = "message"
  /\ \/ /\ bg' = Finished(bg) /\ queue' = Acked(queue)
        /\ handled' = handled \cup {Current.of}
        /\ UNCHANGED room
     \/ /\ Spend("faults")
        /\ bg' = Finished(Blocked(bg, 1)) /\ queue' = Nacked(queue)
        /\ handled' \in {handled, handled \cup {Current.of}}
  /\ UNCHANGED <<enabled, disk, pages, accepted, installs>>

(* The alarm's job, also the last part of a user's retry.                  *)
RequestsRecovery ==
  /\ Running("working") /\ Current.kind = "alarm"
  /\ bg' = [RequestRecovery(bg) EXCEPT !.stage = "recovering"]
  /\ UNCHANGED <<room, enabled, disk, pages, queue, accepted, handled, installs>>

(* "Recover capture", and enabling it again: the budget is reset, then the *)
(* initialization repeated and a recovery requested; or disabling.         *)
ObeysUser ==
  /\ Running("working") /\ Current.kind \in {"retry", "enable", "disable"}
  /\ enabled' = IF Current.kind = "retry" THEN enabled ELSE Current.kind = "enable"
  /\ bg' = IF Current.kind = "disable" THEN Finished(bg)
           ELSE Asks([ResetBudget(bg) EXCEPT !.stage = "resetting"], "remove", 0, "user")
  /\ UNCHANGED <<room, disk, pages, queue, accepted, handled, installs>>

JobRecovered ==
  /\ Running("recovering") /\ bg.rec.on = "off"
  /\ bg' = Finished(bg)
  /\ UNCHANGED <<room, enabled, disk, pages, queue, accepted, handled, installs>>

-----------------------------------------------------------------------------
(* Recovery.                                                               *)

RecoveryStarts ==
  /\ bg.rec.on = "asked"
  /\ LET open == {d \in Docs : Open(d)}
     IN \/ /\ ~enabled
           /\ bg' = Restored(bg, "off") /\ UNCHANGED room
        \/ /\ enabled /\ ~room.supported
           /\ bg' = Asks([Settling(bg) EXCEPT !.status = "refused"], "note", 0, "rec")
           /\ UNCHANGED room
        \/ /\ enabled /\ room.supported /\ Cardinality(open) > room.most
           /\ bg' = RecoveryBlocked(bg) /\ UNCHANGED room
        \/ /\ enabled /\ room.supported /\ Cardinality(open) <= room.most
           /\ bg' = [bg EXCEPT !.status = "recovering", !.rec = Injecting(open)]
           /\ UNCHANGED room
        \/ Spend("faults") /\ bg' = RecoveryBlocked(bg)
  /\ UNCHANGED <<enabled, disk, pages, queue, accepted, handled, installs>>

(* The next injection into a document, for recovery or for a navigation.   *)
Injects(o, d) ==
  /\ bg[o].on = "running" /\ d \in bg[o].left \ bg[o].waits
  /\ IF d \in bg.ready THEN bg' = Done(bg, o, d) /\ UNCHANGED pages
     ELSE IF ~Open(d) THEN bg' = Missed(bg, o, d) /\ UNCHANGED pages
     ELSE LET b == [bg EXCEPT ![o] = [bg[o] EXCEPT !.waits = @ \cup {d}], !.waiter[d] = o]
          IN bg' = Booted(b, d) /\ pages' = [pages EXCEPT ![d] = BootedPage(b, d)]
  /\ UNCHANGED <<room, enabled, disk, queue, accepted, handled, installs>>

ReadyTimesOut(o, d) ==
  /\ d \in TimesOut(o)
  /\ bg' = Missed(bg, o, d)
  /\ UNCHANGED <<room, enabled, disk, pages, queue, accepted, handled, installs>>

RecoveryEnds ==
  /\ bg.rec.on = "running" /\ bg.rec.left = {}
  /\ bg' = IF bg.rec.failed THEN RecoveryBlocked(bg) ELSE Restored(bg, "rec")
  /\ UNCHANGED <<room, enabled, disk, pages, queue, accepted, handled, installs>>

-----------------------------------------------------------------------------
(* The browser's answers to what blocking and restoring ask.  Reading and  *)
(* storing the budget, the alarm's creation and its clearing may fail: the *)
(* code warns at most, and goes on.                                        *)

Outstanding(do) == bg.calls # <<>> /\ Head(bg.calls).do = do
Call == Head(bg.calls)
Rest == [bg EXCEPT !.calls = Tail(@)]
Fails(b) == Spend("faults") /\ bg' = b

(* The failure is in storage, or was not stored: only if it may pass is a  *)
(* retry scheduled.                                                        *)
Told ==
  \/ Outstanding("tell") /\ bg' = Asks(Rest, "read", 0, Call.by) /\ UNCHANGED <<room, disk>>
  \/ Outstanding("note") /\ bg' = Ended(Rest, Call.by) /\ UNCHANGED <<room, disk>>

Extreme(x, y) == IF x > y THEN x ELSE y
Counted(spent) ==
  LET b == [Rest EXCEPT !.attempt = IF spent < Budget THEN spent + 1 ELSE spent]
  IN IF spent < Budget THEN Asks(b, "store", spent + 1, Call.by) ELSE Ended(b, Call.by)
BudgetRead ==
  /\ Outstanding("read")
  /\ \/ bg' = Counted(Extreme(bg.attempt, disk.attempt)) /\ UNCHANGED room
     \/ Fails(Counted(bg.attempt))
  /\ UNCHANGED disk

BudgetStored ==
  /\ Outstanding("store")
  /\ LET b == Scheduled(Rest, Call.n, Call.by)
     IN \/ bg' = b /\ disk' = [disk EXCEPT !.attempt = Call.n] /\ UNCHANGED room
        \/ Fails(b) /\ UNCHANGED disk

(* `unarmed' remembers that the browser refused the alarm.                 *)
AlarmCreated ==
  /\ Outstanding("create")
  /\ \/ /\ bg' = Ended([Rest EXCEPT !.unarmed = FALSE], Call.by)
        /\ disk' = [disk EXCEPT !.alarm = Call.n] /\ UNCHANGED room
     \/ Fails(Ended([Rest EXCEPT !.unarmed = TRUE], Call.by)) /\ UNCHANGED disk

(* A budget that cannot be removed fails what asked for it.                *)
BudgetRemoved ==
  /\ Outstanding("remove")
  /\ \/ /\ bg' = Asks(Rest, "clear", 0, Call.by)
        /\ disk' = [disk EXCEPT !.attempt = 0] /\ UNCHANGED room
     \/ /\ Fails(IF Call.by = "user" THEN Finished(Blocked(Rest, 1)) ELSE RecoveryBlocked(Rest))
        /\ UNCHANGED disk

AlarmCleared ==
  /\ Outstanding("clear")
  /\ LET b == IF Call.by = "rec" THEN Asks(Rest, "forget", 0, "rec") ELSE Ended(Rest, Call.by)
     IN \/ bg' = b /\ disk' = [disk EXCEPT !.alarm = 0] /\ UNCHANGED room
        \/ Fails(b) /\ UNCHANGED disk

(* The failure stored last is forgotten once capture is restored.          *)
DiagnosticCleared ==
  /\ Outstanding("forget")
  /\ \/ bg' = Ended(Rest, Call.by) /\ UNCHANGED room
     \/ Fails(RecoveryBlocked(Rest))
  /\ UNCHANGED disk

Answers ==
  /\ \/ Told \/ BudgetRead \/ BudgetStored \/ AlarmCreated
     \/ BudgetRemoved \/ AlarmCleared \/ DiagnosticCleared
  /\ UNCHANGED <<enabled, pages, queue, accepted, handled, installs>>

-----------------------------------------------------------------------------
(* Navigation to NowCoder result pages (contentIngress.ts).                *)

(* The coordinator: what was committed, announced itself, was injected.    *)
Navigated(b) ==
  LET d == Current.of
  IN CASE Current.kind = "committed" -> [b EXCEPT !.committed = @ \cup {d}]
       [] Current.kind = "ready" -> [b EXCEPT !.known = @ \cup {d}]
       [] Current.kind = "gone" /\ d \in b.committed ->
            [b EXCEPT !.committed = @ \ {d}, !.known = @ \ {d}, !.injected = @ \ {d}]
       [] OTHER -> b
MustInject(b) ==
  /\ Current.of \notin b.known \cup b.injected
  /\ \/ Current.kind = "completed" /\ Current.of \in b.committed
     \/ Current.kind = "history"

Reduces ==
  /\ Running("working") /\ Current.kind \in {"committed", "completed", "history", "ready", "gone"}
  /\ bg' = IF MustInject(bg)
           THEN [bg EXCEPT !.injected = @ \cup {Current.of}, !.committed = @ \cup {Current.of},
                           !.stage = "injecting", !.ing = Injecting({Current.of})]
           ELSE Finished(Navigated(bg))
  /\ UNCHANGED <<room, enabled, disk, pages, queue, accepted, handled, installs>>

InjectionEnds ==
  /\ Running("injecting") /\ bg.ing.left = {}
  /\ bg' = IF bg.ing.failed
           THEN BlockedBy([bg EXCEPT !.injected = @ \ {Current.of}, !.stage = "blocking",
                                     !.ing = Idle], "job")
           ELSE Finished(bg)
  /\ UNCHANGED <<room, enabled, disk, pages, queue, accepted, handled, installs>>

-----------------------------------------------------------------------------
(* Pages, the user, the alarm and the browser.                             *)

Noted(b, kind, d) == IF d \in NowCoder THEN Schedule(b, kind, d) ELSE b

Commits(d) ==
  /\ pages[d].stage = "new" /\ Spend("opens")
  /\ pages' = [pages EXCEPT ![d].stage = "loading"]
  /\ bg' = Noted(bg, "committed", d)
  /\ UNCHANGED <<enabled, disk, queue, accepted, handled, installs>>

(* The document is ready: the manifest's content script runs.              *)
Loads(d) ==
  /\ pages[d].stage = "loading"
  /\ pages' = [pages EXCEPT ![d] = [BootedPage(bg, d) EXCEPT !.stage = "loaded"]]
  /\ bg' = Noted(Booted(bg, d), "completed", d)
  /\ UNCHANGED <<room, enabled, disk, queue, accepted, handled, installs>>

(* The context arrives; a page told that capture is disabled stays without.*)
Installs(d) ==
  /\ pages[d].replies > 0 /\ Open(d)
  /\ pages' = [pages EXCEPT ![d] = [pages[d] EXCEPT !.replies = @ - 1,
                 !.runtime = IF enabled THEN "installed" ELSE "none"]]
  /\ bg' = IF enabled THEN NoteReady(bg, d) ELSE bg
  /\ installs' = IF enabled THEN [installs EXCEPT ![d] = @ + 1] ELSE installs
  /\ UNCHANGED <<room, enabled, disk, queue, accepted, handled>>

(* An address change within a NowCoder document.                           *)
ChangesState(d) ==
  /\ Open(d) /\ d \in NowCoder /\ Spend("opens")
  /\ bg' = Schedule(bg, "history", d)
  /\ UNCHANGED <<enabled, disk, pages, queue, accepted, handled, installs>>

(* The tab is closed, or leaves for a page the extension does not watch.   *)
Closes(d) ==
  /\ Open(d) /\ Spend("opens")
  /\ pages' = [pages EXCEPT ![d] = [@ EXCEPT !.stage = "closed", !.asks = 0, !.replies = 0]]
  /\ bg' \in {bg, Noted(bg, "gone", d)}
  /\ queue' = IF d = Front THEN [NoQueue EXCEPT !.stopped = TRUE] ELSE queue
  /\ UNCHANGED <<enabled, disk, accepted, handled, installs>>

UserActs(kind) ==
  /\ Spend("users")
  /\ bg' = Schedule(bg, kind, Front)
  /\ UNCHANGED <<enabled, disk, pages, queue, accepted, handled, installs>>

(* The initialization is reset at once, outside the executor.              *)
AlarmFires ==
  /\ disk.alarm # 0
  /\ disk' = [disk EXCEPT !.alarm = 0]
  /\ bg' = Schedule(Reset(bg), "alarm", Front)
  /\ UNCHANGED <<room, enabled, pages, queue, accepted, handled, installs>>

(* What waited for the old worker's answer fails.                          *)
Restarts ==
  /\ Spend("stops")
  /\ bg' = Fresh
  /\ pages' = [d \in Docs |-> IF pages[d].asks = 0 THEN pages[d]
                              ELSE [pages[d] EXCEPT !.asks = 0, !.runtime = "none"]]
  /\ queue' = Nacked(queue)
  /\ UNCHANGED <<enabled, disk, accepted, handled, installs>>

Init ==
  /\ room \in Setups
  /\ enabled = TRUE /\ bg = Fresh /\ disk = NoRetries
  /\ pages = [d \in Docs |-> [stage |-> IF d \in room.open THEN "loaded" ELSE "new",
                              runtime |-> "none", asks |-> 0, replies |-> 0]]
  /\ queue = NoQueue /\ accepted = {} /\ handled = {}
  /\ installs = [d \in Docs |-> 0]

(* What the extension and the browser do by themselves.                    *)
Internal ==
  \/ Sends \/ JobStarts \/ InitSucceeds \/ HandlesMessage
  \/ RequestsRecovery \/ ObeysUser \/ JobRecovered \/ RecoveryStarts \/ RecoveryEnds
  \/ Answers \/ Reduces \/ InjectionEnds \/ AlarmFires
  \/ \E d \in Docs : \/ Loads(d) \/ Installs(d)
                     \/ \E o \in Owners : Injects(o, d) \/ ReadyTimesOut(o, d)

External ==
  \/ Enqueues \/ InitFails \/ Restarts
  \/ \E kind \in {"retry", "enable", "disable"} : UserActs(kind)
  \/ \E d \in Docs : Commits(d) \/ ChangesState(d) \/ Closes(d)

Next == Internal \/ External

(* Fairness: promises settle, timers and alarms fire, events are handled.  *)
Spec == Init /\ [][Next]_vars /\ WF_vars(Internal)

-----------------------------------------------------------------------------
(* Properties.                                                             *)

Flight ==
  [on : {"off", "asked", "running", "settling"}, docs : SUBSET Docs, left : SUBSET Docs,
   waits : SUBSET Docs, tries : [Docs -> 0 .. MaxInjections], failed : BOOLEAN]

Calls ==
  [do : {"tell", "note", "read", "store", "create", "remove", "clear", "forget"},
   n : 0 .. Budget, by : {"none", "rec", "off", "job", "user"}]

TypeOK ==
  /\ bg.ctl \in {"idle", "initializing", "ready"} /\ bg.top \in BOOLEAN
  /\ bg.status \in {"recovering", "ready", "retryable", "refused"}
  /\ bg.attempt \in 0 .. Budget /\ disk \in [attempt : 0 .. Budget, alarm : 0 .. Budget]
  /\ {bg.ready, bg.committed, bg.known, bg.injected} \subseteq SUBSET Docs
  /\ bg.waiter \in [Docs -> Owners \cup {"none"}]
  /\ {bg.rec, bg.ing} \subseteq Flight
  /\ {bg.calls[i] : i \in DOMAIN bg.calls} \subseteq Calls /\ bg.unarmed \in BOOLEAN
  /\ \A o \in Owners : bg[o].waits \subseteq bg[o].left
  /\ pages \in [Docs -> [stage : {"new", "loading", "loaded", "closed"}, asks : Nat,
                         runtime : {"none", "installing", "installed"}, replies : Nat]]
  /\ Len(queue.pending) <= MaxQueue /\ queue.tries \in 0 .. MaxSends

Waits == {queue.pending[i] : i \in DOMAIN queue.pending}

(* Messages are handled in the order they were queued, and none leaves the *)
(* queue of an open page unhandled.                                        *)
HandledInOrder ==
  /\ \A m \in handled, k \in accepted : k < m => k \in handled
  /\ ~queue.stopped => accepted \ Waits \subseteq handled

(* However often the content script runs in a document -- by manifest, by  *)
(* recovery, by navigation, before and after failures -- one runtime       *)
(* listens there.                                                          *)
OneRuntime == \A d \in Docs : installs[d] <= 1

(* While capture is blocked by a failure that may pass, somebody is going  *)
(* to try again -- an alarm is set or being set, a recovery or a reset is  *)
(* under way, the alarm's job waits -- or the automatic retries are used   *)
(* up, or the browser has refused the last alarm.                          *)
BlockedIsRetried ==
  bg.status = "retryable" =>
    \/ disk.alarm # 0 \/ bg.attempt = Budget \/ bg.unarmed
    \/ bg.rec.on # "off" \/ Running("resetting")
    \/ \E i \in DOMAIN bg.jobs : bg.jobs[i].kind = "alarm"
    \/ \E i \in DOMAIN bg.calls : bg.calls[i].do \in {"tell", "read", "store", "create"}

(* Recovery declares capture ready only when every document it found has a *)
(* runtime, or was closed since, or capture is disabled.                   *)
RecoveryCovers ==
  [][bg.rec.on = "running" /\ bg'.rec.on # "running" /\ bg'.status = "ready" =>
       \A d \in bg.rec.docs : Open(d) => pages[d].runtime = "installed"]_vars

(* A queued message is acknowledged, or its queue is blocked or gone: no   *)
(* failure leaves a message unanswered for ever.                           *)
QueueSettles == []<>(queue.pending = <<>> \/ queue.blocked \/ queue.stopped)

(* Recovery comes to an end: the executor is not left waiting for it, and  *)
(* capture is ready, refused, or blocked with no retry left.               *)
Settled ==
  /\ bg.jobs = <<>> /\ bg.calls = <<>> /\ bg.rec.on = "off" /\ disk.alarm = 0
  /\ bg.status \in {"ready", "refused", "retryable"}
  /\ bg.status = "retryable" => bg.attempt = Budget \/ bg.unarmed
RecoverySettles == <>[]Settled
=============================================================================
