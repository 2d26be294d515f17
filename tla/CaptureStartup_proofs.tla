------------------------ MODULE CaptureStartup_proofs ------------------------
(***************************************************************************)
(* The safety properties of the extension's startup.  Four invariants that *)
(* hardly meet: what the pages keep (PagesOK), what the worker knows of    *)
(* them (Sound), who is going to try again (Good), and where each reported *)
(* message is (Ordered).  The third is the hard one: blocking and          *)
(* restoring capture overlap, each in several steps, so it says who waits  *)
(* for which answer (Owned) and what stands behind each call (Chased).     *)
(***************************************************************************)
EXTENDS CaptureStartup, TLAPS, FiniteSetTheorems, SequenceTheorems

Navigations == {"committed", "completed", "history", "ready", "gone"}
Kinds == {"alarm", "retry", "enable", "disable"} \cup Navigations
Jobs == [kind : {"message"}, of : Nat] \cup [kind : Kinds, of : Docs]
Stages == {"queued", "initializing", "working", "recovering", "resetting", "injecting",
           "blocking"}

Workers ==
  [ctl : {"idle", "initializing", "ready"}, top : BOOLEAN,
   status : {"recovering", "ready", "retryable", "refused"}, attempt : 0 .. Budget,
   ready : SUBSET Docs, waiter : [Docs -> Owners \cup {"none"}],
   committed : SUBSET Docs, known : SUBSET Docs, injected : SUBSET Docs,
   jobs : Seq(Jobs), stage : Stages, rec : Flight, ing : Flight,
   calls : Seq(Calls), unarmed : BOOLEAN]

Page == [stage : {"new", "loading", "loaded", "closed"}, asks : Nat,
         runtime : {"none", "installing", "installed"}, replies : Nat]

Disks == [attempt : 0 .. Budget, alarm : 0 .. Budget]

LEMMA Caps ==
  /\ MaxSends \in Nat \ {0} /\ MaxQueue \in Nat \ {0} /\ MaxInjections \in Nat \ {0}
  /\ Budget \in Nat \ {0} /\ Front \in Docs
  BY StartupAssumption
-----------------------------------------------------------------------------
(* The pages: one context request or one context is under way to a page    *)
(* that installs its runtime, none to any other.                           *)
Fine(p, n) ==
  /\ p.asks + p.replies <= 1
  /\ p.asks + p.replies > 0 => p.runtime = "installing"
  /\ n <= IF p.runtime = "installed" THEN 1 ELSE 0

PagesOK ==
  /\ pages \in [Docs -> Page] /\ installs \in [Docs -> Nat]
  /\ \A d \in Docs : Fine(pages[d], installs[d])

Installed == {d \in Docs : pages[d].runtime = "installed"}

LEMMA PageUpdates ==
  ASSUME NEW p \in Page, NEW stage \in {"new", "loading", "loaded", "closed"}, NEW a \in Nat,
         NEW r \in {"none", "installing", "installed"}, NEW n \in Nat
  PROVE  /\ [p EXCEPT !.stage = stage] \in Page
         /\ [p EXCEPT !.stage = stage, !.asks = a, !.replies = n] \in Page
         /\ [p EXCEPT !.asks = a, !.replies = n] \in Page
         /\ [p EXCEPT !.asks = a, !.runtime = r] \in Page
         /\ [p EXCEPT !.replies = n, !.runtime = r] \in Page
         /\ [p EXCEPT !.runtime = r, !.asks = a, !.replies = n] \in Page
  BY DEF Page

LEMMA BootedPageFacts ==
  ASSUME PagesOK, NEW b, NEW d \in Docs
  PROVE  /\ BootedPage(b, d) \in Page /\ Fine(BootedPage(b, d), installs[d])
         /\ pages[d].runtime = "installed" => BootedPage(b, d).runtime = "installed"
<1>1. pages[d] \in Page /\ Fine(pages[d], installs[d]) /\ installs[d] \in Nat
  BY DEF PagesOK
<1>2. CASE ~Unclaimed(d)
  BY <1>1, <1>2 DEF BootedPage
<1>3. CASE Unclaimed(d)
  <2>1. pages[d].asks = 0 /\ pages[d].replies = 0 /\ installs[d] = 0
    BY <1>1, <1>3 DEF Unclaimed, Fine, Page
  <2> DEFINE a == IF b.ctl = "ready" THEN 0 ELSE 1
             q == [pages[d] EXCEPT !.runtime = "installing", !.asks = a, !.replies = 1 - a]
  <2>2. BootedPage(b, d) = q
    BY <1>1, <1>3, <2>1 DEF BootedPage, Page
  <2>3. a \in {0, 1} /\ 1 - a \in {0, 1} /\ a + (1 - a) = 1
    OBVIOUS
  <2> HIDE DEF a
  <2>4. q \in Page
    BY <1>1, <2>3, PageUpdates
  <2>5. q.runtime = "installing" /\ q.asks = a /\ q.replies = 1 - a
    BY <1>1 DEF Page
  <2> QED
    BY <1>3, <2>1, <2>2, <2>3, <2>4, <2>5 DEF Fine, Unclaimed
<1> QED
  BY <1>2, <1>3

LEMMA PagesStep ==
  ASSUME PagesOK, Next
  PROVE  PagesOK' /\ Installed \subseteq Installed'
<1>1. \A d \in Docs : /\ pages[d] \in Page /\ Fine(pages[d], installs[d])
                      /\ installs[d] \in Nat
  BY DEF PagesOK
<1>2. pages \in [Docs -> Page] /\ installs \in [Docs -> Nat]
  BY DEF PagesOK
<1>3. CASE UNCHANGED <<pages, installs>>
  BY <1>3 DEF PagesOK, Installed
<1>4. ASSUME NEW d \in Docs, NEW b, NEW p,
             p \in {BootedPage(b, d), [BootedPage(b, d) EXCEPT !.stage = "loaded"]},
             pages' = [pages EXCEPT ![d] = p], installs' = installs
      PROVE  PagesOK' /\ Installed \subseteq Installed'
  <2>1. /\ p \in Page /\ Fine(p, installs[d])
        /\ pages[d].runtime = "installed" => p.runtime = "installed"
    BY <1>4, BootedPageFacts DEF Page, Fine
  <2> QED
    BY <1>2, <1>4, <2>1 DEF PagesOK, Installed
<1>5. CASE InitSucceeds
  <2> DEFINE f(d) == [pages[d] EXCEPT !.asks = 0, !.replies = @ + pages[d].asks]
  <2>1. \A d \in Docs : /\ f(d) \in Page /\ Fine(f(d), installs[d])
                        /\ f(d).runtime = pages[d].runtime
    <3>1. SUFFICES ASSUME NEW d \in Docs
                   PROVE  /\ f(d) \in Page /\ Fine(f(d), installs[d])
                          /\ f(d).runtime = pages[d].runtime
      OBVIOUS
    <3>2. PICK p \in Page : p = pages[d]
      BY <1>1
    <3>3. p.replies + p.asks \in Nat
      BY DEF Page
    <3>4. f(d) \in Page
      BY <3>2, <3>3, PageUpdates
    <3>5. f(d).asks = 0 /\ f(d).replies = p.replies + p.asks /\ f(d).runtime = p.runtime
      BY <3>2 DEF Page
    <3>6. p.asks \in Nat /\ p.replies \in Nat /\ Fine(p, installs[d])
      BY <1>1, <3>2 DEF Page
    <3> HIDE DEF f
    <3> QED
      BY <3>2, <3>4, <3>5, <3>6 DEF Fine
  <2>2. pages' = [d \in Docs |-> f(d)] /\ installs' = installs
    BY <1>5 DEF InitSucceeds
  <2> HIDE DEF f
  <2> QED
    BY <1>2, <2>1, <2>2 DEF PagesOK, Installed
<1>6. CASE InitFails \/ Restarts
  <2> DEFINE f(d) == [pages[d] EXCEPT !.asks = 0, !.runtime = "none"]
  <2>1. \A d \in Docs : pages[d].asks # 0 =>
          /\ f(d) \in Page /\ Fine(f(d), installs[d])
          /\ pages[d].runtime # "installed"
    <3>1. SUFFICES ASSUME NEW d \in Docs, pages[d].asks # 0
                   PROVE  /\ f(d) \in Page /\ Fine(f(d), installs[d])
                          /\ pages[d].runtime # "installed"
      OBVIOUS
    <3>2. PICK p \in Page : p = pages[d]
      BY <1>1
    <3>3. p.asks = 1 /\ p.replies = 0 /\ p.runtime = "installing" /\ installs[d] = 0
      BY <1>1, <3>1, <3>2 DEF Page, Fine
    <3>4. f(d) \in Page
      BY <3>2, PageUpdates
    <3>5. f(d).asks = 0 /\ f(d).replies = 0
      BY <3>2, <3>3 DEF Page
    <3> HIDE DEF f
    <3> QED
      BY <3>2, <3>3, <3>4, <3>5 DEF Fine
  <2>2. pages' = [d \in Docs |-> IF pages[d].asks = 0 THEN pages[d] ELSE f(d)]
          /\ installs' = installs
    <3>1. \A d \in Docs : pages[d].asks \in Nat
      BY <1>1 DEF Page
    <3>2. CASE InitFails
      <4>1. PICK asking : /\ asking = {d \in Docs : pages[d].asks > 0}
                          /\ pages' = [d \in Docs |-> IF d \in asking THEN f(d) ELSE pages[d]]
                          /\ installs' = installs
        BY <3>2 DEF InitFails
      <4>2. \A d \in Docs : d \in asking <=> pages[d].asks # 0
        <5>1. ASSUME NEW d \in Docs PROVE d \in asking <=> pages[d].asks # 0
          <6>1. pages[d].asks \in Nat
            BY <3>1
          <6>2. d \in asking <=> pages[d].asks > 0
            BY <4>1, Zenon
          <6> QED
            BY <6>1, <6>2
        <5> QED
          BY <5>1
      <4> QED
        BY <4>1, <4>2
    <3>3. CASE Restarts
      BY <3>3 DEF Restarts
    <3> QED
      BY <1>6, <3>2, <3>3
  <2> HIDE DEF f
  <2> QED
    BY <1>1, <1>2, <2>1, <2>2 DEF PagesOK, Installed
<1>7. ASSUME NEW d \in Docs, Commits(d) \/ Closes(d)
      PROVE  PagesOK' /\ Installed \subseteq Installed'
  <2>1. PICK q \in Page : q = pages[d] /\ Fine(q, installs[d])
    BY <1>1
  <2>2. PICK p \in {[q EXCEPT !.stage = "loading"],
                    [q EXCEPT !.stage = "closed", !.asks = 0, !.replies = 0]} :
            pages' = [pages EXCEPT ![d] = p] /\ installs' = installs
    BY <1>2, <1>7, <2>1 DEF Commits, Closes
  <2>3. p \in Page
    <3>1. CASE p = [q EXCEPT !.stage = "loading"]
      BY <3>1, PageUpdates
    <3>2. CASE p = [q EXCEPT !.stage = "closed", !.asks = 0, !.replies = 0]
      BY <3>2, PageUpdates
    <3> QED
      BY <2>2, <3>1, <3>2
  <2>4. /\ p.runtime = q.runtime
        /\ (p.asks = q.asks /\ p.replies = q.replies) \/ (p.asks = 0 /\ p.replies = 0)
    BY <2>2 DEF Page
  <2>5. Fine(p, installs[d])
    BY <2>1, <2>4 DEF Fine
  <2> QED
    BY <1>2, <2>1, <2>2, <2>3, <2>4, <2>5 DEF PagesOK, Installed
<1>8. ASSUME NEW d \in Docs, Installs(d)
      PROVE  PagesOK' /\ Installed \subseteq Installed'
  <2>1. PICK q \in Page : q = pages[d] /\ Fine(q, installs[d])
    BY <1>1
  <2>2. q.asks = 0 /\ q.replies = 1 /\ installs[d] = 0 /\ q.runtime = "installing"
    BY <1>1, <1>8, <2>1 DEF Installs, Page, Fine
  <2> DEFINE r == IF enabled THEN "installed" ELSE "none"
             p == [q EXCEPT !.replies = 0, !.runtime = r]
             n == IF enabled THEN 1 ELSE 0
  <2>3. r \in {"none", "installed"} /\ n \in Nat /\ (n = 1 => r = "installed") /\ n <= 1
    OBVIOUS
  <2>4. pages' = [pages EXCEPT ![d] = p]
    <3>1. pages' = [pages EXCEPT ![d] = [q EXCEPT !.replies = q.replies - 1, !.runtime = r]]
      BY <1>8, <2>1 DEF Installs
    <3>2. q.replies - 1 = 0
      BY <2>2
    <3> QED
      BY <3>1, <3>2
  <2>5. installs' = [installs EXCEPT ![d] = n]
    <3>1. installs' = IF enabled THEN [installs EXCEPT ![d] = installs[d] + 1] ELSE installs
      BY <1>8 DEF Installs
    <3>2. installs[d] + 1 = 1 /\ installs = [installs EXCEPT ![d] = installs[d]]
      BY <1>2, <2>2
    <3> QED
      BY <2>2, <3>1, <3>2
  <2> HIDE DEF r, n
  <2>6. p \in Page
    BY <2>3, PageUpdates
  <2>7. p.asks = 0 /\ p.replies = 0 /\ p.runtime = r
    BY <2>2 DEF Page
  <2> HIDE DEF p
  <2>8. Fine(p, n)
    BY <2>3, <2>7 DEF Fine
  <2>9. \A e \in Docs : \/ e = d /\ pages'[e] = p /\ installs'[e] = n
                        \/ pages'[e] = pages[e] /\ installs'[e] = installs[e]
    BY <1>2, <2>4, <2>5
  <2>10. pages' \in [Docs -> Page] /\ installs' \in [Docs -> Nat]
    BY <1>2, <2>3, <2>4, <2>5, <2>6
  <2>11. PagesOK'
    BY <1>1, <2>8, <2>9, <2>10 DEF PagesOK
  <2> QED
    BY <2>1, <2>2, <2>9, <2>11 DEF Installed
<1>9. ASSUME NEW d \in Docs, NEW o \in Owners, Injects(o, d)
      PROVE  PagesOK' /\ Installed \subseteq Installed'
  <2>1. UNCHANGED <<pages, installs>>
          \/ \E b : pages' = [pages EXCEPT ![d] = BootedPage(b, d)] /\ installs' = installs
    BY <1>9 DEF Injects
  <2> QED
    BY <1>3, <1>4, <2>1
<1>10. ASSUME NEW d \in Docs, Loads(d)
       PROVE  PagesOK' /\ Installed \subseteq Installed'
  <2>1. pages' = [pages EXCEPT ![d] = [BootedPage(bg, d) EXCEPT !.stage = "loaded"]]
          /\ installs' = installs
    BY <1>10 DEF Loads
  <2> QED
    BY <1>4, <2>1
<1>11. UNCHANGED <<pages, installs>> \/ InitSucceeds \/ InitFails \/ Restarts
         \/ \E d \in Docs : \/ Commits(d) \/ Closes(d) \/ Installs(d) \/ Loads(d)
                            \/ \E o \in Owners : Injects(o, d)
  BY DEF Next, Internal, External, Sends, JobStarts, HandlesMessage, RequestsRecovery,
     ObeysUser, JobRecovered, RecoveryStarts, RecoveryEnds, Reduces, InjectionEnds,
     Answers, AlarmFires, ReadyTimesOut, Enqueues, UserActs, ChangesState
<1> QED
  BY <1>3, <1>5, <1>6, <1>7, <1>8, <1>9, <1>10, <1>11
-----------------------------------------------------------------------------
(* What the worker knows: documents that announced themselves have their   *)
(* runtime, and a document that recovery or a navigation has left behind   *)
(* has one too, or the failure is noted.                                   *)
Able(f, S) ==
  /\ f \in Flight /\ f.waits \subseteq f.left
  /\ \A d \in f.left : f.tries[d] < MaxInjections
  /\ f.failed \/ f.docs \ f.left \subseteq S

Sound(b, S) == b \in Workers /\ b.ready \subseteq S /\ Able(b.rec, S) /\ Able(b.ing, S)

Disk == disk \in Disks

(* Jobs are only added at the end, and none of them reports a message.     *)
Grown(js, old) ==
  /\ Len(old) <= Len(js) /\ \A i \in 1 .. Len(old) : js[i] = old[i]
  /\ \A i \in Len(old) + 1 .. Len(js) : js[i].kind # "message"

(* What is known of the retries.                                           *)
Held(r, b) == r.attempt = b.attempt /\ r.calls = b.calls /\ r.unarmed = b.unarmed
USE DEF Held

Calm(r, b) ==
  /\ r.status = b.status /\ Held(r, b) /\ r.stage = b.stage
  /\ r.rec.on = b.rec.on /\ Grown(r.jobs, b.jobs)

LEMMA WorkerParts ==
  ASSUME NEW b \in Workers
  PROVE  /\ b.ctl \in {"idle", "initializing", "ready"} /\ b.top \in BOOLEAN
         /\ b.status \in {"recovering", "ready", "retryable", "refused"}
         /\ b.attempt \in 0 .. Budget /\ b.ready \subseteq Docs
         /\ b.waiter \in [Docs -> Owners \cup {"none"}]
         /\ b.committed \subseteq Docs /\ b.known \subseteq Docs /\ b.injected \subseteq Docs
         /\ b.jobs \in Seq(Jobs) /\ b.stage \in Stages
         /\ b.rec \in Flight /\ b.ing \in Flight
         /\ b.calls \in Seq(Calls) /\ b.unarmed \in BOOLEAN
  BY DEF Workers

LEMMA GrownSame ==
  ASSUME NEW js \in Seq(Jobs)
  PROVE  Grown(js, js)
  BY DEF Grown

LEMMA GrownTwice ==
  ASSUME NEW a \in Seq(Jobs), NEW b \in Seq(Jobs), NEW c \in Seq(Jobs),
         Grown(b, a), Grown(c, b)
  PROVE  Grown(c, a)
<1>1. Len(a) \in Nat /\ Len(b) \in Nat /\ Len(c) \in Nat
  OBVIOUS
<1>2. Len(a) <= Len(c) /\ \A i \in 1 .. Len(a) : c[i] = a[i]
  BY <1>1 DEF Grown
<1>3. ASSUME NEW i \in Len(a) + 1 .. Len(c)
      PROVE  c[i].kind # "message"
  BY <1>1, <1>3 DEF Grown
<1> QED
  BY <1>2, <1>3 DEF Grown

LEMMA CalmTwice ==
  ASSUME NEW a \in Workers, NEW b \in Workers, NEW c \in Workers, Calm(b, a), Calm(c, b)
  PROVE  Calm(c, a)
  BY WorkerParts, GrownTwice DEF Calm

LEMMA ScheduleFacts ==
  ASSUME NEW S, NEW b, Sound(b, S), NEW kind, NEW x, Job(kind, x) \in Jobs
  PROVE  /\ Sound(Schedule(b, kind, x), S)
         /\ Schedule(b, kind, x).jobs = Append(b.jobs, Job(kind, x))
         /\ Schedule(b, kind, x).status = b.status
         /\ Held(Schedule(b, kind, x), b)
         /\ Schedule(b, kind, x).stage = b.stage
         /\ Schedule(b, kind, x).rec = b.rec
         /\ kind # "message" => Calm(Schedule(b, kind, x), b)
<1>1. b \in Workers
  BY DEF Sound
<1>2. Job(kind, x) \in Jobs /\ Job(kind, x).kind = kind
  BY DEF Job
<1> DEFINE js == Append(b.jobs, Job(kind, x))
           r == [b EXCEPT !.jobs = js]
<1>3. js \in Seq(Jobs)
  BY <1>1, <1>2, WorkerParts
<1>4. kind # "message" => Grown(js, b.jobs)
  BY <1>1, <1>2, WorkerParts DEF Grown
<1> HIDE DEF js
<1>5. /\ r \in Workers /\ r.jobs = js /\ r.status = b.status /\ Held(r, b)
      /\ r.stage = b.stage /\ r.rec = b.rec /\ r.ing = b.ing /\ r.ready = b.ready
  BY <1>1, <1>3 DEF Workers
<1>6. r = Schedule(b, kind, x)
  BY DEF Schedule, js
<1> HIDE DEF r
<1> QED
  BY <1>4, <1>5, <1>6 DEF Sound, Calm, js

LEMMA KindTypes ==
  ASSUME NEW kind \in Kinds, NEW d \in Docs
  PROVE  Job(kind, d) \in Jobs /\ kind # "message"
  BY DEF Job, Jobs, Kinds, Navigations

LEMMA ControlFacts ==
  ASSUME NEW S, NEW b, Sound(b, S)
  PROVE  /\ Sound(Reset(b), S) /\ Calm(Reset(b), b) /\ Reset(b).jobs = b.jobs
         /\ Sound(Ensure(b), S) /\ Calm(Ensure(b), b) /\ Ensure(b).jobs = b.jobs
<1>1. b \in Workers
  BY DEF Sound
<1>2. ASSUME NEW ctl \in {"idle", "initializing", "ready"}
      PROVE  LET r == [b EXCEPT !.ctl = ctl]
             IN Sound(r, S) /\ Calm(r, b) /\ r.jobs = b.jobs
  <2> DEFINE r == [b EXCEPT !.ctl = ctl]
  <2>1. /\ r \in Workers /\ r.jobs = b.jobs /\ r.status = b.status /\ Held(r, b)
        /\ r.stage = b.stage /\ r.rec = b.rec /\ r.ing = b.ing /\ r.ready = b.ready
    BY <1>1 DEF Workers
  <2> HIDE DEF r
  <2>2. Sound(r, S) /\ Calm(r, b) /\ r.jobs = b.jobs
    BY <1>1, <2>1, WorkerParts, GrownSame DEF Sound, Calm
  <2> QED
    BY <2>2 DEF r
<1>3. b.ctl \in {"idle", "initializing", "ready"}
  BY <1>1, WorkerParts
<1> QED
  BY <1>2, <1>3 DEF Reset, Ensure

(* One recovery or navigation is changed, and perhaps the waiter of a      *)
(* document.                                                               *)
LEMMA OwnerFacts ==
  ASSUME NEW S, NEW b, Sound(b, S), NEW o \in Owners, NEW f, Able(f, S), f.on = b[o].on,
         NEW w \in [Docs -> Owners \cup {"none"}]
  PROVE  /\ Sound([b EXCEPT ![o] = f], S) /\ Calm([b EXCEPT ![o] = f], b)
         /\ Sound([b EXCEPT ![o] = f, !.waiter = w], S)
         /\ Calm([b EXCEPT ![o] = f, !.waiter = w], b)
<1>1. b \in Workers /\ f \in Flight
  BY DEF Sound, Able
<1>2. ASSUME NEW r, r \in {[b EXCEPT ![o] = f], [b EXCEPT ![o] = f, !.waiter = w]}
      PROVE  Sound(r, S) /\ Calm(r, b)
  <2>1. CASE o = "rec"
    <3>1. r = [b EXCEPT !.rec = f] \/ r = [b EXCEPT !.rec = f, !.waiter = w]
      BY <1>2, <2>1
    <3> DEFINE Kept == /\ r \in Workers /\ r.jobs = b.jobs /\ r.status = b.status
                       /\ Held(r, b) /\ r.stage = b.stage /\ r.ready = b.ready
                       /\ r.rec = f /\ r.ing = b.ing
    <3>2. ASSUME r = [b EXCEPT !.rec = f] PROVE Kept
      BY <1>1, <3>2 DEF Workers
    <3>3. ASSUME r = [b EXCEPT !.rec = f, !.waiter = w] PROVE Kept
      BY <1>1, <3>3 DEF Workers
    <3> QED
      BY <1>1, <2>1, <3>1, <3>2, <3>3, WorkerParts, GrownSame DEF Sound, Calm
  <2>2. CASE o = "ing"
    <3>1. r = [b EXCEPT !.ing = f] \/ r = [b EXCEPT !.ing = f, !.waiter = w]
      BY <1>2, <2>2
    <3> DEFINE Kept == /\ r \in Workers /\ r.jobs = b.jobs /\ r.status = b.status
                       /\ Held(r, b) /\ r.stage = b.stage /\ r.ready = b.ready
                       /\ r.ing = f /\ r.rec = b.rec
    <3>2. ASSUME r = [b EXCEPT !.ing = f] PROVE Kept
      BY <1>1, <3>2 DEF Workers
    <3>3. ASSUME r = [b EXCEPT !.ing = f, !.waiter = w] PROVE Kept
      BY <1>1, <3>3 DEF Workers
    <3> QED
      BY <1>1, <2>2, <3>1, <3>2, <3>3, WorkerParts, GrownSame DEF Sound, Calm
  <2> QED
    BY <2>1, <2>2 DEF Owners
<1> QED
  BY <1>2

LEMMA FlightParts ==
  ASSUME NEW f \in Flight
  PROVE  /\ f.on \in {"off", "asked", "running", "settling"} /\ f.docs \subseteq Docs
         /\ f.left \subseteq Docs /\ f.waits \subseteq Docs
         /\ f.tries \in [Docs -> 0 .. MaxInjections] /\ f.failed \in BOOLEAN
  BY DEF Flight

LEMMA DoneFacts ==
  ASSUME NEW S, NEW b, Sound(b, S), NEW o \in Owners, NEW d \in S
  PROVE  Sound(Done(b, o, d), S) /\ Calm(Done(b, o, d), b)
<1>1. b \in Workers /\ Able(b[o], S)
  BY DEF Sound, Owners
<1> DEFINE f == [b[o] EXCEPT !.left = @ \ {d}, !.waits = @ \ {d}]
<1>2. PICK g \in Flight : g = b[o]
  BY <1>1 DEF Able
<1>3. g.left \ {d} \in SUBSET Docs /\ g.waits \ {d} \in SUBSET Docs
  BY FlightParts
<1>4. /\ f \in Flight /\ f.left = g.left \ {d} /\ f.waits = g.waits \ {d}
      /\ f.on = g.on /\ f.docs = g.docs /\ f.tries = g.tries /\ f.failed = g.failed
  BY <1>2, <1>3 DEF Flight
<1> HIDE DEF f
<1>5. Able(f, S)
  BY <1>1, <1>2, <1>4 DEF Able
<1>6. Done(b, o, d) = [b EXCEPT ![o] = f]
  BY DEF Done, f
<1>7. b.waiter \in [Docs -> Owners \cup {"none"}]
  BY <1>1, WorkerParts
<1>8. f.on = b[o].on
  BY <1>2, <1>4
<1>9. Sound([b EXCEPT ![o] = f], S) /\ Calm([b EXCEPT ![o] = f], b)
  BY <1>5, <1>7, <1>8, OwnerFacts, Zenon
<1> QED
  BY <1>6, <1>9

LEMMA MissedFacts ==
  ASSUME NEW S, NEW b, Sound(b, S), NEW o \in Owners, NEW d \in b[o].left
  PROVE  Sound(Missed(b, o, d), S) /\ Calm(Missed(b, o, d), b)
<1>1. b \in Workers /\ Able(b[o], S)
  BY DEF Sound, Owners
<1>2. PICK g \in Flight : g = b[o]
  BY <1>1 DEF Able
<1>3. /\ d \in Docs /\ g.tries \in [Docs -> 0 .. MaxInjections] /\ g.tries[d] \in Nat
      /\ g.tries[d] < MaxInjections /\ MaxInjections \in Nat
      /\ g.left \subseteq Docs /\ g.waits \subseteq g.left /\ g.failed \in BOOLEAN
  BY <1>1, <1>2, FlightParts, Caps DEF Able
<1> DEFINE last == g.tries[d] + 1 = MaxInjections
           tries == [g.tries EXCEPT ![d] = @ + 1]
           waits == g.waits \ {d}
           left == IF last THEN g.left \ {d} ELSE g.left
           failed == g.failed \/ last
           f == [g EXCEPT !.tries = tries, !.waits = waits, !.left = left, !.failed = failed]
           w == [b.waiter EXCEPT ![d] = "none"]
<1>4. /\ tries \in [Docs -> 0 .. MaxInjections] /\ waits \in SUBSET Docs
      /\ left \in SUBSET Docs /\ failed \in BOOLEAN
      /\ waits \subseteq left /\ \A e \in left : tries[e] < MaxInjections
      /\ failed \/ left = g.left
  <2>1. tries \in [Docs -> 0 .. MaxInjections]
    BY <1>3
  <2>2. waits \in SUBSET Docs /\ left \in SUBSET Docs /\ waits \subseteq left
    BY <1>3
  <2>3. failed \in BOOLEAN /\ (failed \/ left = g.left)
    OBVIOUS
  <2>4. ASSUME NEW e \in left PROVE tries[e] < MaxInjections
    <3>1. CASE e = d
      BY <1>3, <2>2, <2>4, <3>1
    <3>2. CASE e # d
      <4>1. e \in g.left /\ g.tries[e] < MaxInjections
        BY <1>1, <1>2, <2>4 DEF Able
      <4> QED
        BY <1>3, <3>2, <4>1
    <3> QED
      BY <3>1, <3>2
  <2> QED
    BY <2>1, <2>2, <2>3, <2>4
<1>5. Missed(b, o, d) = [b EXCEPT ![o] = f, !.waiter = w]
  <2>1. Missed(b, o, d) = [b EXCEPT ![o] =
            [g EXCEPT !.tries[d] = g.tries[d] + 1, !.waits = g.waits \ {d},
                      !.left = IF last THEN g.left \ {d} ELSE g.left,
                      !.failed = g.failed \/ last],
            !.waiter[d] = "none"]
    BY <1>2 DEF Missed
  <2>2. [g EXCEPT !.tries[d] = g.tries[d] + 1, !.waits = g.waits \ {d},
                      !.left = IF last THEN g.left \ {d} ELSE g.left,
                      !.failed = g.failed \/ last] = f
    BY <1>3
  <2>3. [b EXCEPT ![o] = f, !.waiter[d] = "none"] = [b EXCEPT ![o] = f, !.waiter = w]
    BY DEF Owners
  <2> QED
    BY <2>1, <2>2, <2>3
<1>6. w \in [Docs -> Owners \cup {"none"}]
  BY <1>1, WorkerParts
<1> HIDE DEF tries, waits, left, failed, w
<1>7. /\ f \in Flight /\ f.left = left /\ f.waits = waits /\ f.on = g.on
      /\ f.docs = g.docs /\ f.tries = tries /\ f.failed = failed
  BY <1>4 DEF Flight
<1> HIDE DEF f
<1>8. Able(f, S)
  <2>1. g.failed => failed
    BY DEF failed
  <2> QED
    BY <1>1, <1>2, <1>4, <1>7, <2>1 DEF Able
<1>9. f.on = b[o].on
  BY <1>2, <1>7
<1>10. /\ Sound([b EXCEPT ![o] = f, !.waiter = w], S)
       /\ Calm([b EXCEPT ![o] = f, !.waiter = w], b)
  BY <1>6, <1>8, <1>9, OwnerFacts, Zenon
<1> QED
  BY <1>5, <1>10

LEMMA NoteReadyFacts ==
  ASSUME NEW S \in SUBSET Docs, NEW b, Sound(b, S), NEW d \in S
  PROVE  Sound(NoteReady(b, d), S) /\ Calm(NoteReady(b, d), b)
<1>1. b \in Workers
  BY DEF Sound
<1>2. b.waiter \in [Docs -> Owners \cup {"none"}] /\ b.ready \subseteq Docs
  BY <1>1, WorkerParts
<1> DEFINE ready == b.ready \cup {d}
           w == [b.waiter EXCEPT ![d] = "none"]
           noted == [b EXCEPT !.ready = ready, !.waiter = w]
           o == b.waiter[d]
           woken == IF o = "none" THEN noted ELSE Done(noted, o, d)
<1>3. ready \in SUBSET Docs /\ ready \subseteq S /\ w \in [Docs -> Owners \cup {"none"}]
        /\ o \in Owners \cup {"none"}
  BY <1>2 DEF Sound
<1> HIDE DEF ready, w
<1>4. /\ noted \in Workers /\ noted.jobs = b.jobs /\ noted.status = b.status
      /\ Held(noted, b) /\ noted.stage = b.stage /\ noted.ready = ready
      /\ noted.rec = b.rec /\ noted.ing = b.ing
  BY <1>1, <1>3 DEF Workers
<1> HIDE DEF noted, o
<1>5. Sound(noted, S) /\ Calm(noted, b)
  BY <1>1, <1>3, <1>4, WorkerParts, GrownSame DEF Sound, Calm
<1>6. Sound(woken, S) /\ Calm(woken, b)
  <2>1. CASE o = "none"
    BY <1>5, <2>1
  <2>2. CASE o # "none"
    <3>1. Sound(Done(noted, o, d), S) /\ Calm(Done(noted, o, d), noted)
      BY <1>3, <1>5, <2>2, DoneFacts
    <3>2. Done(noted, o, d) \in Workers
      BY <3>1 DEF Sound
    <3> QED
      BY <1>1, <1>4, <1>5, <2>2, <3>1, <3>2, CalmTwice
  <2> QED
    BY <2>1, <2>2
<1>7. NoteReady(b, d) = IF d \in NowCoder THEN Schedule(woken, "ready", d) ELSE woken
  BY DEF NoteReady, noted, ready, w, o
<1> HIDE DEF woken
<1>8. CASE d \in NowCoder
  <2>1. Job("ready", d) \in Jobs
    BY KindTypes DEF Kinds, Navigations
  <2>2. Sound(Schedule(woken, "ready", d), S) /\ Calm(Schedule(woken, "ready", d), woken)
    BY <1>6, <2>1, ScheduleFacts
  <2>3. woken \in Workers /\ Schedule(woken, "ready", d) \in Workers
    BY <1>6, <2>2 DEF Sound
  <2> QED
    BY <1>1, <1>6, <1>7, <1>8, <2>2, <2>3, CalmTwice
<1>9. CASE d \notin NowCoder
  BY <1>6, <1>7, <1>9
<1> QED
  BY <1>8, <1>9

LEMMA BootedFacts ==
  ASSUME NEW S \in SUBSET Docs, Installed \subseteq S, NEW b, Sound(b, S), NEW d \in Docs
  PROVE  Sound(Booted(b, d), S) /\ Calm(Booted(b, d), b)
<1>1. pages[d].runtime = "installed" => d \in S
  BY DEF Installed
<1>2. Calm(b, b)
  BY WorkerParts, GrownSame DEF Sound, Calm
<1> QED
  BY <1>1, <1>2, ControlFacts, NoteReadyFacts DEF Booted

LEMMA NotedFacts ==
  ASSUME NEW S \in SUBSET Docs, NEW b, Sound(b, S), NEW d \in Docs, NEW kind \in Navigations
  PROVE  Sound(Noted(b, kind, d), S) /\ Calm(Noted(b, kind, d), b)
<1>1. Calm(b, b)
  BY WorkerParts, GrownSame DEF Sound, Calm
<1>2. Job(kind, d) \in Jobs /\ kind # "message"
  BY KindTypes DEF Kinds
<1> QED
  BY <1>1, <1>2, ScheduleFacts DEF Noted

LEMMA SoundGrows ==
  ASSUME NEW S, NEW T, S \subseteq T, NEW b, Sound(b, S)
  PROVE  Sound(b, T)
  BY DEF Sound, Able

LEMMA IdleTypes ==
  ASSUME NEW S, NEW docs \in SUBSET Docs
  PROVE  /\ Able(Idle, S) /\ Able(Injecting(docs), S) /\ Idle.on = "off"
         /\ Able([Idle EXCEPT !.on = "settling"], S)
<1> DEFINE tries == [d \in Docs |-> 0]
<1>1. tries \in [Docs -> 0 .. MaxInjections] /\ \A d \in Docs : tries[d] < MaxInjections
  BY Caps
<1>2. Idle = [on |-> "off", docs |-> {}, left |-> {}, waits |-> {}, tries |-> tries,
              failed |-> FALSE]
  BY DEF Idle
<1> HIDE DEF tries
<1>3. Idle \in Flight
  BY <1>1, <1>2 DEF Flight
<1>4. /\ Injecting(docs) \in Flight /\ Injecting(docs).docs = docs
      /\ Injecting(docs).left = docs /\ Injecting(docs).waits = {}
      /\ Injecting(docs).tries = tries
  BY <1>1, <1>2, <1>3 DEF Injecting, Flight
<1> DEFINE settling == [Idle EXCEPT !.on = "settling"]
<1>5. /\ settling \in Flight /\ settling.docs = {} /\ settling.left = {}
      /\ settling.waits = {}
  BY <1>1, <1>2, <1>3 DEF Flight
<1>6. Able(settling, S)
  <2> HIDE DEF settling
  <2> QED
    BY <1>5 DEF Able
<1> QED
  BY <1>1, <1>2, <1>3, <1>4, <1>6 DEF Able

(* The worker's own fields.                                                *)
LEMMA CoreFacts ==
  ASSUME NEW S, NEW b, Sound(b, S), NEW r \in Workers, r.ready = b.ready,
         r.rec = b.rec \/ Able(r.rec, S), r.ing = b.ing \/ Able(r.ing, S)
  PROVE  Sound(r, S)
  BY DEF Sound

(* The worker asks the browser for more.                                   *)
LEMMA AsksFacts ==
  ASSUME NEW S, NEW b, Sound(b, S), NEW do, NEW n, NEW by,
         [do |-> do, n |-> n, by |-> by] \in Calls
  PROVE  /\ Sound(Asks(b, do, n, by), S)
         /\ Asks(b, do, n, by).calls = Append(b.calls, [do |-> do, n |-> n, by |-> by])
         /\ Asks(b, do, n, by).status = b.status /\ Asks(b, do, n, by).attempt = b.attempt
         /\ Asks(b, do, n, by).unarmed = b.unarmed /\ Asks(b, do, n, by).jobs = b.jobs
         /\ Asks(b, do, n, by).stage = b.stage /\ Asks(b, do, n, by).rec = b.rec
<1> DEFINE cs == Append(b.calls, [do |-> do, n |-> n, by |-> by])
           r == [b EXCEPT !.calls = cs]
<1>1. b \in Workers
  BY DEF Sound
<1>2. cs \in Seq(Calls)
  BY <1>1, WorkerParts
<1> HIDE DEF cs
<1>3. /\ r \in Workers /\ r.calls = cs /\ r.status = b.status /\ r.attempt = b.attempt
      /\ r.unarmed = b.unarmed /\ r.jobs = b.jobs /\ r.stage = b.stage /\ r.rec = b.rec
      /\ r.ing = b.ing /\ r.ready = b.ready
  BY <1>1, <1>2 DEF Workers
<1> HIDE DEF r
<1>4. Sound(r, S)
  BY <1>3, CoreFacts
<1>5. Asks(b, do, n, by) = r
  BY DEF Asks, r, cs
<1> QED
  BY <1>3, <1>4, <1>5 DEF cs

LEMMA FinishedFacts ==
  ASSUME NEW S, NEW b, Sound(b, S), b.jobs # <<>>
  PROVE  /\ Sound(Finished(b), S) /\ Finished(b).jobs = Tail(b.jobs)
         /\ Finished(b).stage = "queued" /\ Finished(b).rec = b.rec
         /\ Finished(b).status = b.status /\ Held(Finished(b), b)
<1> DEFINE js == Tail(b.jobs)
           r == [b EXCEPT !.jobs = js, !.stage = "queued", !.ing = Idle]
<1>1. b \in Workers
  BY DEF Sound
<1>2. js \in Seq(Jobs)
  BY <1>1, WorkerParts
<1>3. Able(Idle, S)
  BY IdleTypes
<1> HIDE DEF js
<1>4. /\ r \in Workers /\ r.jobs = js /\ r.stage = "queued" /\ r.rec = b.rec
      /\ r.status = b.status /\ Held(r, b) /\ r.ready = b.ready /\ r.ing = Idle
  BY <1>1, <1>2, <1>3 DEF Workers, Stages, Able
<1> HIDE DEF r
<1>5. Sound(r, S)
  BY <1>3, <1>4, CoreFacts
<1> QED
  BY <1>4, <1>5 DEF Finished, r, js

LEMMA RequestFacts ==
  ASSUME NEW S, NEW b, Sound(b, S)
  PROVE  /\ Sound(RequestRecovery(b), S)
         /\ RequestRecovery(b).rec.on = IF b.rec.on = "off" THEN "asked" ELSE b.rec.on
         /\ RequestRecovery(b).jobs = b.jobs /\ RequestRecovery(b).stage = b.stage
         /\ RequestRecovery(b).status = b.status /\ Held(RequestRecovery(b), b)
<1>1. b \in Workers /\ b.rec \in Flight /\ Able(b.rec, S)
  BY DEF Sound, Able
<1> DEFINE f == [b.rec EXCEPT !.on = "asked"]
           r == [b EXCEPT !.rec = f]
<1>2. /\ f \in Flight /\ f.left = b.rec.left /\ f.waits = b.rec.waits /\ f.on = "asked"
      /\ f.docs = b.rec.docs /\ f.tries = b.rec.tries /\ f.failed = b.rec.failed
  BY <1>1 DEF Flight
<1> HIDE DEF f
<1>3. Able(f, S)
  BY <1>1, <1>2 DEF Able
<1>4. /\ r \in Workers /\ r.jobs = b.jobs /\ r.stage = b.stage /\ r.rec = f
      /\ r.status = b.status /\ Held(r, b) /\ r.ready = b.ready /\ r.ing = b.ing
  BY <1>1, <1>2 DEF Workers
<1> HIDE DEF r
<1>5. Sound(r, S)
  BY <1>3, <1>4, CoreFacts
<1>6. RequestRecovery(b) = IF b.rec.on = "off" THEN r ELSE b
  <2>1. [b EXCEPT !.rec.on = "asked"] = [b EXCEPT !.rec = [b.rec EXCEPT !.on = "asked"]]
    OBVIOUS
  <2> QED
    BY <2>1 DEF RequestRecovery, r, f
<1> QED
  BY <1>2, <1>4, <1>5, <1>6
-----------------------------------------------------------------------------
(* Who waits for an answer: at most one recovery, which is settling then,  *)
(* and at most one job, which is at the head.                              *)
Recs == {"rec", "off"}
Heads == {"job", "user"}
Rival(x, y) == {x, y} \subseteq Recs \/ {x, y} \subseteq Heads

Keeping(c) ==
  /\ c.do \in {"remove", "clear"} => c.by \in {"rec", "off", "user"}
  /\ c.do \in {"note", "forget"} => c.by = "rec"
  /\ c.do \in {"store", "create"} => c.n # 0
  /\ c.by = "user" => c.do \in {"remove", "clear"}

Owned(cs, stage, on) ==
  \A i \in 1 .. Len(cs) :
    /\ Keeping(cs[i])
    /\ cs[i].by = "job" => stage = "blocking"
    /\ cs[i].by = "user" => stage = "resetting"
    /\ cs[i].by \in Recs => on = "settling"
    /\ \A j \in 1 .. Len(cs) : Rival(cs[i].by, cs[j].by) => i = j

(* Behind what a recovery has asked for stands what a later failure has    *)
(* asked for, or the budget is used up, or a user resets it.               *)
After(cs, i, do) == \E j \in i + 1 .. Len(cs) : cs[j].do = do
Among(cs, do) == \E j \in 1 .. Len(cs) : cs[j].do = do
Undone(cs, i) == \E j \in i + 1 .. Len(cs) : cs[j].do = "remove" /\ cs[j].by = "user"
Served(cs, i, spent) ==
  /\ cs[i].do \in {"remove", "note"} => After(cs, i, "tell")
  /\ cs[i].do = "clear" => Among(cs, "tell") \/ After(cs, i, "read")
  /\ cs[i].do = "forget" => \/ Among(cs, "tell") \/ Among(cs, "read")
                            \/ After(cs, i, "store") \/ spent = Budget \/ Undone(cs, i)

Chased(cs, spent) == \A i \in 1 .. Len(cs) : cs[i].by \in Recs => Served(cs, i, spent)

Scheduling == {"tell", "read", "store", "create"}
Schedules(cs) == \E i \in 1 .. Len(cs) : cs[i].do \in Scheduling
Settles(cs) == \E i \in 1 .. Len(cs) : cs[i].by \in Recs

Tied(b) == /\ Owned(b.calls, b.stage, b.rec.on)
           /\ b.rec.on = "settling" => Settles(b.calls)

LEMMA OwnedElsewhere ==
  ASSUME NEW cs, NEW s, NEW o, Owned(cs, s, o), NEW t, NEW p,
         t = s \/ s \notin {"resetting", "blocking"}, p = o \/ o # "settling"
  PROVE  Owned(cs, t, p)
  BY DEF Owned

LEMMA TailFacts ==
  ASSUME NEW cs \in Seq(Calls), cs # <<>>
  PROVE  /\ Head(cs) \in Calls /\ Tail(cs) \in Seq(Calls) /\ Head(cs) = cs[1]
         /\ Len(Tail(cs)) = Len(cs) - 1 /\ Len(cs) \in Nat /\ 1 \in 1 .. Len(cs)
         /\ \A i \in 1 .. Len(Tail(cs)) : i + 1 \in 2 .. Len(cs) /\ Tail(cs)[i] = cs[i + 1]
         /\ \A i \in 2 .. Len(cs) : i - 1 \in 1 .. Len(Tail(cs)) /\ Tail(cs)[i - 1] = cs[i]
  OBVIOUS

LEMMA PushParts ==
  ASSUME NEW cs \in Seq(Calls), NEW c \in Calls
  PROVE  /\ Append(cs, c) \in Seq(Calls) /\ Len(Append(cs, c)) = Len(cs) + 1 /\ Len(cs) \in Nat
         /\ \A i \in 1 .. Len(cs) : Append(cs, c)[i] = cs[i]
         /\ Append(cs, c)[Len(cs) + 1] = c
  OBVIOUS

(* The first call is answered, and whoever asked is free.                  *)
LEMMA OwnedPops ==
  ASSUME NEW cs \in Seq(Calls), cs # <<>>, NEW s, NEW o, Owned(cs, s, o)
  PROVE  /\ Owned(Tail(cs), s, o) /\ Keeping(Head(cs))
         /\ Head(cs).by \in Recs => o = "settling" /\ \A p : Owned(Tail(cs), s, p)
         /\ Head(cs).by = "job" => s = "blocking"
         /\ Head(cs).by = "user" => s = "resetting"
         /\ Head(cs).by \in Heads => \A t : Owned(Tail(cs), t, o)
<1> DEFINE ts == Tail(cs)
<1>1. /\ ts \in Seq(Calls) /\ Head(cs) = cs[1] /\ 1 \in 1 .. Len(cs)
      /\ \A i \in 1 .. Len(ts) : i + 1 \in 2 .. Len(cs) /\ ts[i] = cs[i + 1]
      /\ \A i \in 1 .. Len(ts) : i \in Nat
  BY TailFacts
<1> HIDE DEF ts
<1>2. Owned(ts, s, o)
  <2>1. SUFFICES ASSUME NEW i \in 1 .. Len(ts)
                 PROVE  /\ Keeping(ts[i])
                        /\ ts[i].by = "job" => s = "blocking"
                        /\ ts[i].by = "user" => s = "resetting"
                        /\ ts[i].by \in Recs => o = "settling"
                        /\ \A j \in 1 .. Len(ts) : Rival(ts[i].by, ts[j].by) => i = j
    BY DEF Owned
  <2>2. i + 1 \in 1 .. Len(cs) /\ ts[i] = cs[i + 1]
    BY <1>1
  <2>3. ASSUME NEW j \in 1 .. Len(ts), Rival(ts[i].by, ts[j].by) PROVE i = j
    <3>1. j + 1 \in 1 .. Len(cs) /\ ts[j] = cs[j + 1]
      BY <1>1
    <3>2. i + 1 = j + 1
      BY <2>2, <2>3, <3>1 DEF Owned
    <3> QED
      BY <3>2
  <2> QED
    BY <2>2, <2>3 DEF Owned
<1>3. /\ Keeping(Head(cs)) /\ (Head(cs).by \in Recs => o = "settling")
      /\ (Head(cs).by = "job" => s = "blocking") /\ (Head(cs).by = "user" => s = "resetting")
  BY <1>1 DEF Owned
<1>4. ASSUME NEW i \in 1 .. Len(ts)
      PROVE  ~Rival(Head(cs).by, ts[i].by)
  <2>1. i + 1 \in 1 .. Len(cs) /\ ts[i] = cs[i + 1] /\ i + 1 # 1
    BY <1>1
  <2> QED
    BY <1>1, <2>1 DEF Owned
<1>5. Head(cs).by \in Recs => \A i \in 1 .. Len(ts) : ts[i].by \notin Recs
  BY <1>4 DEF Rival
<1>6. Head(cs).by \in Heads => \A i \in 1 .. Len(ts) : ts[i].by \notin Heads
  BY <1>4 DEF Rival
<1>7. Head(cs).by \in Recs => \A p : Owned(ts, s, p)
  BY <1>2, <1>5 DEF Owned
<1>8. Head(cs).by \in Heads => \A t : Owned(ts, t, o)
  BY <1>2, <1>6 DEF Owned, Heads
<1> QED
  BY <1>2, <1>3, <1>7, <1>8 DEF ts

(* A call more, by nobody or by somebody who has not asked yet.            *)
LEMMA OwnedGrows ==
  ASSUME NEW cs \in Seq(Calls), NEW c \in Calls, Keeping(c), NEW s, NEW o, Owned(cs, s, o),
         \/ c.by = "none"
         \/ c.by \in Recs /\ o = "settling" /\ Owned(cs, s, "off")
         \/ c.by = "job" /\ s = "blocking" /\ Owned(cs, "queued", o)
         \/ c.by = "user" /\ s = "resetting" /\ Owned(cs, "queued", o)
  PROVE  Owned(Append(cs, c), s, o)
<1> DEFINE ds == Append(cs, c)
           n == Len(cs) + 1
<1>1. /\ Len(ds) = n /\ Len(cs) \in Nat /\ ds[n] = c
      /\ \A i \in 1 .. Len(cs) : ds[i] = cs[i]
  BY PushParts
<1>2. \A i \in 1 .. Len(ds) : i = n \/ i \in 1 .. Len(cs)
  BY <1>1
<1> HIDE DEF ds, n
<1>3. \A i \in 1 .. Len(cs) : ~Rival(c.by, cs[i].by) /\ ~Rival(cs[i].by, c.by)
  <2>1. CASE c.by = "none"
    BY <2>1 DEF Rival, Recs, Heads
  <2>2. CASE c.by \in Recs /\ Owned(cs, s, "off")
    BY <2>2 DEF Rival, Recs, Heads, Owned
  <2>3. CASE c.by \in Heads /\ Owned(cs, "queued", o)
    BY <2>3 DEF Rival, Recs, Heads, Owned
  <2> QED
    BY <2>1, <2>2, <2>3 DEF Heads
<1>4. /\ c.by = "job" => s = "blocking"
      /\ c.by = "user" => s = "resetting"
      /\ c.by \in Recs => o = "settling"
  BY DEF Recs
<1>5. ASSUME NEW i \in 1 .. Len(ds)
      PROVE  /\ Keeping(ds[i])
             /\ ds[i].by = "job" => s = "blocking"
             /\ ds[i].by = "user" => s = "resetting"
             /\ ds[i].by \in Recs => o = "settling"
             /\ \A j \in 1 .. Len(ds) : Rival(ds[i].by, ds[j].by) => i = j
  <2>1. CASE i = n
    BY <1>1, <1>2, <1>3, <1>4, <2>1
  <2>2. CASE i \in 1 .. Len(cs)
    BY <1>1, <1>2, <1>3, <2>2 DEF Owned
  <2> QED
    BY <1>2, <2>1, <2>2
<1>6. Owned(ds, s, o)
  BY <1>5 DEF Owned
<1> QED
  BY <1>6 DEF ds

(* The answer makes whoever asked ask for the next thing.                  *)
LEMMA OwnedGoesOn ==
  ASSUME NEW cs \in Seq(Calls), cs # <<>>, NEW s, NEW o, Owned(cs, s, o), NEW c \in Calls,
         Keeping(c), c.by = Head(cs).by
  PROVE  Owned(Append(Tail(cs), c), s, o)
<1> DEFINE ts == Tail(cs)
<1>1. ts \in Seq(Calls)
  BY TailFacts
<1>2. /\ Owned(ts, s, o)
      /\ c.by \in Recs => o = "settling" /\ Owned(ts, s, "off")
      /\ c.by = "job" => s = "blocking"
      /\ c.by = "user" => s = "resetting"
      /\ c.by \in Heads => Owned(ts, "queued", o)
  BY OwnedPops
<1> HIDE DEF ts
<1>3. c.by \in {"none", "rec", "off", "job", "user"}
  BY DEF Calls
<1>4. Owned(Append(ts, c), s, o)
  BY <1>1, <1>2, <1>3, OwnedGrows DEF Recs, Heads
<1> QED
  BY <1>4 DEF ts

(* What stands behind a call stays behind it when others are asked for.    *)
LEMMA PushIndices ==
  ASSUME NEW cs \in Seq(Calls), NEW c \in Calls
  PROVE  /\ \A i \in Nat : \A j \in i + 1 .. Len(cs) :
              /\ j \in i + 1 .. Len(Append(cs, c)) /\ j \in 1 .. Len(Append(cs, c))
              /\ Append(cs, c)[j] = cs[j]
         /\ \A i \in 1 .. Len(cs) : /\ Len(cs) + 1 \in i + 1 .. Len(Append(cs, c))
                                   /\ i \in Nat /\ i + 1 \in Nat
         /\ Len(cs) + 1 \in 1 .. Len(Append(cs, c))
<1> DEFINE ds == Append(cs, c)
<1>1. /\ Len(ds) = Len(cs) + 1 /\ Len(cs) \in Nat
      /\ \A i \in 1 .. Len(cs) : ds[i] = cs[i]
  BY PushParts
<1> HIDE DEF ds
<1>2. ASSUME NEW i \in Nat, NEW j \in i + 1 .. Len(cs)
      PROVE  j \in i + 1 .. Len(ds) /\ j \in 1 .. Len(ds) /\ ds[j] = cs[j]
  BY <1>1
<1>3. ASSUME NEW i \in 1 .. Len(cs)
      PROVE  Len(cs) + 1 \in i + 1 .. Len(ds) /\ i \in Nat /\ i + 1 \in Nat
  BY <1>1
<1> QED
  BY <1>1, <1>2, <1>3 DEF ds

LEMMA AfterGrows ==
  ASSUME NEW cs \in Seq(Calls), NEW c \in Calls, NEW do, NEW i \in 1 .. Len(cs)
  PROVE  After(cs, i, do) => After(Append(cs, c), i, do)
  BY PushIndices DEF After

LEMMA UndoneGrows ==
  ASSUME NEW cs \in Seq(Calls), NEW c \in Calls, NEW i \in 1 .. Len(cs)
  PROVE  /\ Undone(cs, i) => Undone(Append(cs, c), i)
         /\ c.do = "remove" /\ c.by = "user" => Undone(Append(cs, c), i)
  BY PushIndices, PushParts DEF Undone

LEMMA AmongGrows ==
  ASSUME NEW cs \in Seq(Calls), NEW c \in Calls, NEW do
  PROVE  Among(cs, do) => Among(Append(cs, c), do)
<1>1. \A j \in 1 .. Len(cs) : j \in 1 .. Len(Append(cs, c)) /\ Append(cs, c)[j] = cs[j]
  BY PushParts
<1> QED
  BY <1>1 DEF Among

LEMMA LastAfter ==
  ASSUME NEW cs \in Seq(Calls), NEW c \in Calls
  PROVE  /\ Among(Append(cs, c), c.do)
         /\ \A i \in 1 .. Len(cs) : After(Append(cs, c), i, c.do)
  BY PushIndices, PushParts DEF After, Among

LEMMA ChasedGrows ==
  ASSUME NEW cs \in Seq(Calls), NEW c \in Calls, NEW f, NEW g, Chased(cs, f),
         f = Budget => g = Budget \/ (c.do = "remove" /\ c.by = "user"),
         \/ c.by \notin Recs \/ c.do \notin {"remove", "note", "clear", "forget"}
         \/ c.do = "clear" /\ Among(cs, "tell")
         \/ c.do = "forget" /\ (Among(cs, "tell") \/ Among(cs, "read"))
  PROVE  Chased(Append(cs, c), g)
<1> DEFINE ds == Append(cs, c)
<1>1. /\ Len(ds) = Len(cs) + 1 /\ Len(cs) \in Nat /\ ds[Len(cs) + 1] = c
      /\ \A i \in 1 .. Len(cs) : ds[i] = cs[i] /\ i \in Nat
  BY PushParts
<1>2. ASSUME NEW i \in 1 .. Len(cs), ds[i].by \in Recs
      PROVE  Served(ds, i, g)
  <2>1. Served(cs, i, f) /\ ds[i] = cs[i]
    BY <1>1, <1>2 DEF Chased
  <2>2. \A do : After(cs, i, do) => After(ds, i, do)
    BY AfterGrows
  <2>3. \A do : Among(cs, do) => Among(ds, do)
    BY AmongGrows
  <2>4. /\ Undone(cs, i) => Undone(ds, i)
        /\ c.do = "remove" /\ c.by = "user" => Undone(ds, i)
    BY UndoneGrows
  <2> HIDE DEF ds
  <2> QED
    BY <2>1, <2>2, <2>3, <2>4 DEF Served
<1>3. ASSUME c.by \in Recs
      PROVE  Served(ds, Len(cs) + 1, g)
  <2>1. \A do : Among(cs, do) => Among(ds, do)
    BY AmongGrows
  <2> HIDE DEF ds
  <2> QED
    BY <1>1, <1>3, <2>1 DEF Served
<1> HIDE DEF ds
<1>4. \A i \in 1 .. Len(ds) : i = Len(cs) + 1 \/ i \in 1 .. Len(cs)
  BY <1>1
<1>5. Chased(ds, g)
  BY <1>1, <1>2, <1>3, <1>4 DEF Chased
<1> QED
  BY <1>5 DEF ds

(* What stands behind a call stays behind it when the first is answered.   *)
LEMMA AfterPops ==
  ASSUME NEW cs \in Seq(Calls), cs # <<>>, NEW do
  PROVE  /\ \A i \in 1 .. Len(Tail(cs)) :
              /\ i + 1 \in 1 .. Len(cs) /\ Tail(cs)[i] = cs[i + 1]
              /\ After(cs, i + 1, do) => After(Tail(cs), i, do)
              /\ Undone(cs, i + 1) => Undone(Tail(cs), i)
         /\ Head(cs) = cs[1] /\ 1 \in 1 .. Len(cs)
         /\ After(cs, 1, do) => Among(Tail(cs), do)
         /\ Among(cs, do) => Among(Tail(cs), do) \/ Head(cs).do = do
<1> DEFINE ts == Tail(cs)
<1>1. /\ ts \in Seq(Calls) /\ Head(cs) = cs[1] /\ Len(ts) \in Nat /\ Len(cs) \in Nat
      /\ 1 \in 1 .. Len(cs)
      /\ \A i \in 1 .. Len(ts) : i + 1 \in 2 .. Len(cs) /\ ts[i] = cs[i + 1]
      /\ \A i \in 2 .. Len(cs) : i - 1 \in 1 .. Len(ts) /\ ts[i - 1] = cs[i]
  BY TailFacts
<1> HIDE DEF ts
<1>2. ASSUME NEW i \in 1 .. Len(ts), NEW j \in (i + 1) + 1 .. Len(cs)
      PROVE  j - 1 \in i + 1 .. Len(ts) /\ ts[j - 1] = cs[j]
  BY <1>1
<1>3. ASSUME NEW i \in 1 .. Len(ts)
      PROVE  /\ i + 1 \in 1 .. Len(cs) /\ ts[i] = cs[i + 1]
             /\ After(cs, i + 1, do) => After(ts, i, do)
             /\ Undone(cs, i + 1) => Undone(ts, i)
  <2>1. i + 1 \in 1 .. Len(cs) /\ ts[i] = cs[i + 1]
    BY <1>1
  <2>2. After(cs, i + 1, do) => After(ts, i, do)
    BY <1>2 DEF After
  <2>3. Undone(cs, i + 1) => Undone(ts, i)
    BY <1>2 DEF Undone
  <2> QED
    BY <2>1, <2>2, <2>3
<1>4. After(cs, 1, do) => Among(ts, do)
  <2>1. \A j \in 1 + 1 .. Len(cs) : j - 1 \in 1 .. Len(ts) /\ ts[j - 1] = cs[j]
    BY <1>1
  <2> QED
    BY <2>1 DEF After, Among
<1>5. Among(cs, do) => Among(ts, do) \/ Head(cs).do = do
  <2>1. \A j \in 1 .. Len(cs) : j = 1 \/ (j - 1 \in 1 .. Len(ts) /\ ts[j - 1] = cs[j])
    BY <1>1
  <2> QED
    BY <1>1, <2>1 DEF Among
<1> QED
  BY <1>1, <1>3, <1>4, <1>5 DEF ts

LEMMA ChasedPops ==
  ASSUME NEW cs \in Seq(Calls), cs # <<>>, NEW f, NEW g, Chased(cs, f), f = Budget => g = Budget,
         Head(cs).do # "tell", Head(cs).do = "read" => g = Budget
  PROVE  Chased(Tail(cs), g)
<1> DEFINE ts == Tail(cs)
<1>1. ASSUME NEW i \in 1 .. Len(ts), ts[i].by \in Recs
      PROVE  Served(ts, i, g)
  <2>1. i + 1 \in 1 .. Len(cs) /\ ts[i] = cs[i + 1]
    BY AfterPops
  <2>2. Served(cs, i + 1, f)
    BY <1>1, <2>1 DEF Chased
  <2>3. ASSUME NEW do
        PROVE  /\ After(cs, i + 1, do) => After(ts, i, do)
               /\ Among(cs, do) => Among(ts, do) \/ Head(cs).do = do
    BY AfterPops
  <2>4. Undone(cs, i + 1) => Undone(ts, i)
    BY AfterPops
  <2> HIDE DEF ts
  <2> QED
    BY <2>1, <2>2, <2>3, <2>4 DEF Served
<1> HIDE DEF ts
<1>2. Chased(ts, g)
  BY <1>1 DEF Chased
<1> QED
  BY <1>2 DEF ts

(* The answer makes whoever asked ask for the next thing: what is behind   *)
(* the others stays there.                                                 *)
LEMMA ChasedGoesOn ==
  ASSUME NEW cs \in Seq(Calls), cs # <<>>, NEW f, NEW g, Chased(cs, f), f = Budget => g = Budget,
         NEW c \in Calls, c.by = Head(cs).by,
         \/ Head(cs).do = "tell" /\ c.do = "read"
         \/ Head(cs).do = "read" /\ c.do = "store"
         \/ Head(cs).do = "store" /\ c.do = "create"
         \/ Head(cs).do = "remove" /\ c.do = "clear"
         \/ Head(cs).do = "clear" /\ c.do = "forget"
  PROVE  Chased(Append(Tail(cs), c), g)
<1> DEFINE ts == Tail(cs)
           ds == Append(ts, c)
<1>1. ts \in Seq(Calls) /\ Head(cs) = cs[1] /\ 1 \in 1 .. Len(cs)
  BY TailFacts
<1>2. CASE Head(cs).do \in {"remove", "clear", "store"}
  <2>1. Chased(ts, g)
    BY <1>2, ChasedPops
  <2>2. c.by \in Recs => Served(cs, 1, f)
    BY <1>1 DEF Chased
  <2>3. ASSUME NEW do
        PROVE  /\ After(cs, 1, do) => Among(ts, do)
               /\ Among(cs, do) => Among(ts, do) \/ Head(cs).do = do
    BY AfterPops
  <2>4. \/ c.by \notin Recs \/ c.do \notin {"remove", "note", "clear", "forget"}
        \/ c.do = "clear" /\ Among(ts, "tell")
        \/ c.do = "forget" /\ (Among(ts, "tell") \/ Among(ts, "read"))
    <3> HIDE DEF ts
    <3> QED
      BY <1>1, <1>2, <2>2, <2>3 DEF Served
  <2> HIDE DEF ts
  <2>5. Chased(Append(ts, c), g)
    BY <1>1, <2>1, <2>4, ChasedGrows
  <2> QED
    BY <2>5 DEF ts
<1>3. CASE Head(cs).do \in {"tell", "read"}
  <2>1. /\ Len(ds) = Len(ts) + 1 /\ Len(ts) \in Nat /\ ds[Len(ts) + 1] = c
        /\ \A i \in 1 .. Len(ts) : ds[i] = ts[i] /\ i \in Nat
    BY <1>1, PushParts
  <2>2. ASSUME NEW i \in 1 .. Len(ts), ds[i].by \in Recs
        PROVE  Served(ds, i, g)
    <3>1. i + 1 \in 1 .. Len(cs) /\ ds[i] = cs[i + 1]
      BY <2>1, AfterPops
    <3>2. Served(cs, i + 1, f)
      BY <2>2, <3>1 DEF Chased
    <3>3. ASSUME NEW do
          PROVE  /\ After(cs, i + 1, do) => After(ts, i, do)
                 /\ Among(cs, do) => Among(ts, do) \/ Head(cs).do = do
                 /\ After(ts, i, do) => After(ds, i, do)
                 /\ Among(ts, do) => Among(ds, do)
                 /\ c.do = do => Among(ds, do) /\ After(ds, i, do)
      <4>1. /\ After(cs, i + 1, do) => After(ts, i, do)
            /\ Among(cs, do) => Among(ts, do) \/ Head(cs).do = do
        BY AfterPops
      <4> HIDE DEF ts
      <4>2. After(ts, i, do) => After(Append(ts, c), i, do)
        BY <1>1, AfterGrows
      <4>3. Among(ts, do) => Among(Append(ts, c), do)
        BY <1>1, AmongGrows
      <4>4. Among(Append(ts, c), c.do) /\ After(Append(ts, c), i, c.do)
        BY <1>1, LastAfter
      <4> QED
        BY <4>1, <4>2, <4>3, <4>4
    <3>4. Undone(cs, i + 1) => Undone(ds, i)
      <4>1. Undone(cs, i + 1) => Undone(ts, i)
        BY AfterPops
      <4> HIDE DEF ts
      <4>2. Undone(ts, i) => Undone(Append(ts, c), i)
        BY <1>1, UndoneGrows
      <4> QED
        BY <4>1, <4>2
    <3> HIDE DEF ts, ds
    <3>5. PICK x : x = cs[i + 1]
      OBVIOUS
    <3>6. \/ Head(cs).do = "tell" /\ c.do = "read"
          \/ Head(cs).do = "read" /\ c.do = "store"
      BY <1>3
    <3>7. /\ x.do \in {"remove", "note"} => After(cs, i + 1, "tell")
          /\ x.do = "clear" => Among(cs, "tell") \/ After(cs, i + 1, "read")
          /\ x.do = "forget" => \/ Among(cs, "tell") \/ Among(cs, "read")
                                \/ After(cs, i + 1, "store") \/ f = Budget \/ Undone(cs, i + 1)
      BY <3>2, <3>5 DEF Served
    <3>8. /\ x.do \in {"remove", "note"} => After(ds, i, "tell")
          /\ x.do = "clear" => Among(ds, "tell") \/ After(ds, i, "read")
          /\ x.do = "forget" => \/ Among(ds, "tell") \/ Among(ds, "read")
                                \/ After(ds, i, "store") \/ g = Budget \/ Undone(ds, i)
      BY <3>3, <3>4, <3>6, <3>7
    <3> QED
      BY <3>1, <3>5, <3>8 DEF Served
  <2>3. Served(ds, Len(ts) + 1, g)
    <3> HIDE DEF ds, ts
    <3> QED
      BY <1>3, <2>1 DEF Served
  <2> HIDE DEF ds, ts
  <2>4. \A i \in 1 .. Len(ds) : i = Len(ts) + 1 \/ i \in 1 .. Len(ts)
    BY <2>1
  <2>5. Chased(ds, g)
    BY <2>2, <2>3, <2>4 DEF Chased
  <2> QED
    BY <2>5 DEF ds, ts
<1> QED
  BY <1>2, <1>3

(* A failure is told to storage: it stands behind all that was asked.      *)
LEMMA ToldFacts ==
  ASSUME NEW cs \in Seq(Calls), NEW by \in {"none", "rec", "job"}
  PROVE  LET c == [do |-> "tell", n |-> 0, by |-> by]
             ds == Append(cs, c)
         IN /\ c \in Calls /\ Keeping(c) /\ ds \in Seq(Calls) /\ Schedules(ds)
            /\ \A g : Chased(ds, g)
<1> DEFINE c == [do |-> "tell", n |-> 0, by |-> by]
           ds == Append(cs, c)
<1>1. c \in Calls /\ Keeping(c) /\ c.do = "tell"
  BY Caps DEF Calls, Keeping
<1> HIDE DEF c
<1>2. /\ ds \in Seq(Calls) /\ Len(ds) = Len(cs) + 1 /\ Len(cs) \in Nat
      /\ ds[Len(cs) + 1] = c
  BY <1>1, PushParts
<1>3. Among(ds, "tell") /\ \A i \in 1 .. Len(cs) : After(ds, i, "tell")
  BY <1>1, LastAfter
<1> HIDE DEF ds
<1>4. ASSUME NEW g, NEW i \in 1 .. Len(ds)
      PROVE  Served(ds, i, g)
  <2>1. i = Len(cs) + 1 \/ i \in 1 .. Len(cs)
    BY <1>2
  <2> QED
    BY <1>1, <1>2, <1>3, <2>1 DEF Served
<1>5. \A g : Chased(ds, g)
  BY <1>4 DEF Chased
<1>6. Schedules(ds)
  BY <1>3 DEF Schedules, Among, Scheduling
<1> QED
  BY <1>1, <1>2, <1>5, <1>6 DEF c, ds

LEMMA PartsGrow ==
  ASSUME NEW cs \in Seq(Calls), NEW c \in Calls
  PROVE  /\ Settles(cs) \/ c.by \in Recs => Settles(Append(cs, c))
         /\ Schedules(cs) \/ c.do \in Scheduling => Schedules(Append(cs, c))
<1>1. /\ \A i \in 1 .. Len(cs) : i \in 1 .. Len(Append(cs, c)) /\ Append(cs, c)[i] = cs[i]
      /\ Len(cs) + 1 \in 1 .. Len(Append(cs, c)) /\ Append(cs, c)[Len(cs) + 1] = c
  BY PushParts
<1>2. Settles(cs) \/ c.by \in Recs => Settles(Append(cs, c))
  BY <1>1 DEF Settles
<1>3. Schedules(cs) \/ c.do \in Scheduling => Schedules(Append(cs, c))
  BY <1>1 DEF Schedules
<1> QED
  BY <1>2, <1>3

LEMMA PartsPop ==
  ASSUME NEW cs \in Seq(Calls), cs # <<>>
  PROVE  /\ Settles(cs) => Settles(Tail(cs)) \/ Head(cs).by \in Recs
         /\ Schedules(cs) => Schedules(Tail(cs)) \/ Head(cs).do \in Scheduling
<1> DEFINE ts == Tail(cs)
<1>1. /\ Head(cs) = cs[1]
      /\ \A i \in 1 .. Len(cs) : i = 1 \/ (i - 1 \in 1 .. Len(ts) /\ ts[i - 1] = cs[i])
  <2>1. /\ Head(cs) = cs[1] /\ Len(cs) \in Nat
        /\ \A i \in 2 .. Len(cs) : i - 1 \in 1 .. Len(ts) /\ ts[i - 1] = cs[i]
    BY TailFacts
  <2> HIDE DEF ts
  <2> QED
    BY <2>1
<1> HIDE DEF ts
<1>2. Settles(cs) => Settles(ts) \/ Head(cs).by \in Recs
  BY <1>1 DEF Settles
<1>3. Schedules(cs) => Schedules(ts) \/ Head(cs).do \in Scheduling
  BY <1>1 DEF Schedules
<1> QED
  BY <1>2, <1>3 DEF ts

(* The alarm that a recovery clears is set again by a later failure.       *)
LEMMA ClearedBehind ==
  ASSUME NEW cs \in Seq(Calls), cs # <<>>, NEW f, Chased(cs, f), Head(cs).do = "clear",
         Head(cs).by \in Recs
  PROVE  Schedules(Tail(cs))
<1>1. Among(cs, "tell") \/ After(cs, 1, "read")
  BY AfterPops DEF Chased, Served
<1>2. Among(Tail(cs), "tell") \/ Among(Tail(cs), "read")
  BY <1>1, AfterPops
<1> QED
  BY <1>2 DEF Among, Schedules, Scheduling

(* While a recovery settles and no user resets the budget, a retry is      *)
(* being scheduled or the budget is used up.                               *)
LEMMA SettlingLasts ==
  ASSUME NEW cs \in Seq(Calls), NEW s, NEW o, Owned(cs, s, o), s # "resetting", Settles(cs),
         NEW f, Chased(cs, f)
  PROVE  Schedules(cs) \/ f = Budget
<1>1. PICK i \in 1 .. Len(cs) : cs[i].by \in Recs
  BY DEF Settles
<1>2. Served(cs, i, f)
  BY <1>1 DEF Chased
<1>3. cs[i].do \in {"tell", "note", "read", "store", "create", "remove", "clear", "forget"}
  <2>1. cs[i] \in Calls
    OBVIOUS
  <2> QED
    BY <2>1 DEF Calls
<1>4. i \in Nat /\ \A j \in i + 1 .. Len(cs) : j \in 1 .. Len(cs)
  OBVIOUS
<1>5. \A do \in {"tell", "read", "store"} : Among(cs, do) \/ After(cs, i, do) => Schedules(cs)
  BY <1>4 DEF Among, After, Schedules, Scheduling
<1>6. ~Undone(cs, i)
  BY <1>4 DEF Undone, Owned
<1>7. cs[i].do \in Scheduling => Schedules(cs)
  BY DEF Schedules
<1> QED
  BY <1>2, <1>3, <1>5, <1>6, <1>7 DEF Served, Scheduling
-----------------------------------------------------------------------------
(* A failure is told to storage by the recovery, by the job at the head,   *)
(* or by nobody who waits.                                                 *)
LEMMA BlockedByFacts ==
  ASSUME NEW S, NEW b, Sound(b, S), NEW by \in {"none", "rec", "job"}
  PROVE  /\ Sound(BlockedBy(b, by), S) /\ BlockedBy(b, by).status = "retryable"
         /\ BlockedBy(b, by).calls = Append(b.calls, [do |-> "tell", n |-> 0, by |-> by])
         /\ BlockedBy(b, by).jobs = b.jobs /\ BlockedBy(b, by).stage = b.stage
         /\ BlockedBy(b, by).rec = b.rec
         /\ Schedules(BlockedBy(b, by).calls) /\ \A g : Chased(BlockedBy(b, by).calls, g)
<1> DEFINE c == [b EXCEPT !.status = "retryable"]
<1>1. b \in Workers /\ b.calls \in Seq(Calls)
  BY WorkerParts DEF Sound
<1>2. /\ c \in Workers /\ c.status = "retryable" /\ c.calls = b.calls /\ c.jobs = b.jobs
      /\ c.stage = b.stage /\ c.rec = b.rec /\ c.ing = b.ing /\ c.ready = b.ready
  BY <1>1 DEF Workers
<1> HIDE DEF c
<1>3. Sound(c, S)
  BY <1>2, CoreFacts
<1>4. /\ [do |-> "tell", n |-> 0, by |-> by] \in Calls
      /\ \A g : Chased(Append(b.calls, [do |-> "tell", n |-> 0, by |-> by]), g)
      /\ Schedules(Append(b.calls, [do |-> "tell", n |-> 0, by |-> by]))
  BY <1>1, ToldFacts
<1>5. BlockedBy(b, by) = Asks(c, "tell", 0, by)
  BY DEF BlockedBy, c
<1> DEFINE r == Asks(c, "tell", 0, by)
<1>6. /\ Sound(r, S) /\ r.calls = Append(c.calls, [do |-> "tell", n |-> 0, by |-> by])
      /\ r.status = c.status /\ r.jobs = c.jobs /\ r.stage = c.stage /\ r.rec = c.rec
  BY <1>3, <1>4, AsksFacts
<1> HIDE DEF r
<1>7. BlockedBy(b, by) = r
  BY <1>5 DEF r
<1> QED
  BY <1>2, <1>4, <1>6, <1>7

LEMMA BlockedFacts ==
  ASSUME NEW S, NEW b, Sound(b, S), NEW n \in Nat
  PROVE  /\ Sound(Blocked(b, n), S) /\ Blocked(b, n).jobs = b.jobs
         /\ Blocked(b, n).stage = b.stage /\ Blocked(b, n).rec = b.rec
         /\ \A s, o : Owned(b.calls, s, o) => Owned(Blocked(b, n).calls, s, o)
         /\ Settles(b.calls) => Settles(Blocked(b, n).calls)
         /\ n = 0 => Blocked(b, n) = b
         /\ n > 0 => Schedules(Blocked(b, n).calls) /\ \A g : Chased(Blocked(b, n).calls, g)
<1> DEFINE tell == [do |-> "tell", n |-> 0, by |-> "none"]
           ts == [i \in 1 .. n |-> tell]
           cs == b.calls
           ds == cs \o ts
           r == [b EXCEPT !.status = "retryable", !.calls = ds]
<1>1. b \in Workers /\ cs \in Seq(Calls)
  BY WorkerParts DEF Sound
<1>2. tell \in Calls /\ Keeping(tell) /\ tell.do = "tell" /\ tell.by = "none"
  BY Caps DEF Calls, Keeping
<1> HIDE DEF tell
<1>3. ts \in Seq(Calls) /\ Len(ts) = n /\ \A i \in 1 .. n : ts[i] = tell
  BY <1>2
<1> HIDE DEF ts
<1>4. /\ ds \in Seq(Calls) /\ Len(ds) = Len(cs) + n /\ Len(cs) \in Nat
      /\ \A i \in 1 .. Len(cs) : ds[i] = cs[i]
      /\ \A i \in Len(cs) + 1 .. Len(ds) : ds[i] = tell
  <2>1. /\ ds \in Seq(Calls) /\ Len(ds) = Len(cs) + Len(ts) /\ Len(cs) \in Nat
        /\ \A i \in 1 .. Len(ds) : ds[i] = IF i <= Len(cs) THEN cs[i] ELSE ts[i - Len(cs)]
    BY <1>1, <1>3
  <2>2. ASSUME NEW i \in Len(cs) + 1 .. Len(ds) PROVE ds[i] = tell
    <3>1. i - Len(cs) \in 1 .. n /\ ~(i <= Len(cs)) /\ i \in 1 .. Len(ds)
      BY <1>3, <2>1
    <3> QED
      BY <1>3, <2>1, <3>1
  <2> QED
    BY <1>3, <2>1, <2>2
<1> HIDE DEF ds, cs
<1>5. /\ r \in Workers /\ r.calls = ds /\ r.jobs = b.jobs
      /\ r.stage = b.stage /\ r.rec = b.rec /\ r.ing = b.ing /\ r.ready = b.ready
  BY <1>1, <1>4 DEF Workers
<1> HIDE DEF r
<1>6. Sound(r, S)
  BY <1>5, CoreFacts
<1>7. Blocked(b, n) = IF n = 0 THEN b ELSE r
  BY DEF Blocked, r, ds, cs, ts, tell
<1>8. \A i \in 1 .. Len(ds) : (i \in 1 .. Len(cs) /\ ds[i] = cs[i]) \/ ds[i] = tell
  BY <1>4
<1>9. ASSUME NEW s, NEW o, Owned(cs, s, o)
      PROVE  Owned(ds, s, o)
  <2>1. ASSUME NEW x PROVE ~Rival(tell.by, x) /\ ~Rival(x, tell.by)
    BY <1>2 DEF Rival, Recs, Heads
  <2>2. ASSUME NEW i \in 1 .. Len(ds)
        PROVE  /\ Keeping(ds[i])
               /\ ds[i].by = "job" => s = "blocking"
               /\ ds[i].by = "user" => s = "resetting"
               /\ ds[i].by \in Recs => o = "settling"
               /\ \A j \in 1 .. Len(ds) : Rival(ds[i].by, ds[j].by) => i = j
    <3>1. CASE ds[i] = tell
      BY <1>2, <2>1, <3>1 DEF Recs
    <3>2. CASE i \in 1 .. Len(cs) /\ ds[i] = cs[i]
      <4>1. \A j \in 1 .. Len(ds) : Rival(ds[i].by, ds[j].by) => i = j
        BY <1>8, <1>9, <2>1, <3>2 DEF Owned
      <4> QED
        BY <1>9, <3>2, <4>1 DEF Owned
    <3> QED
      BY <1>8, <3>1, <3>2
  <2> QED
    BY <2>2 DEF Owned
<1>10. ASSUME n > 0
       PROVE  Schedules(ds) /\ \A g : Chased(ds, g)
  <2>1. Len(ds) \in 1 .. Len(ds) /\ ds[Len(ds)].do = "tell"
    BY <1>2, <1>4, <1>10
  <2>2. \A i \in 1 .. Len(ds) : ds[i].by \in Recs => i \in 1 .. Len(cs)
    BY <1>2, <1>8 DEF Recs
  <2>3. \A i \in 1 .. Len(cs) : Len(ds) \in i + 1 .. Len(ds)
    BY <1>4, <1>10
  <2>4. ASSUME NEW i \in 1 .. Len(cs)
        PROVE  After(ds, i, "tell")
    BY <2>1, <2>3 DEF After
  <2>5. \A g : Chased(ds, g)
    <3>1. Among(ds, "tell")
      BY <2>1 DEF Among
    <3> QED
      BY <2>2, <2>4, <3>1 DEF Chased, Served
  <2> QED
    BY <2>1, <2>5 DEF Schedules, Scheduling
<1>11. Settles(cs) => Settles(ds)
  <2>1. \A i \in 1 .. Len(cs) : i \in 1 .. Len(ds) /\ ds[i] = cs[i]
    BY <1>4
  <2> QED
    BY <2>1 DEF Settles
<1> QED
  BY <1>5, <1>6, <1>7, <1>9, <1>10, <1>11 DEF cs
-----------------------------------------------------------------------------
(* Who tries again: an alarm's job counts until it has asked for its       *)
(* recovery.                                                               *)
Staged(b) ==
  b.stage # "queued" =>
    /\ b.jobs # <<>>
    /\ b.stage = "recovering" => b.jobs[1].kind = "alarm"
    /\ b.stage \in {"injecting", "blocking"} => b.jobs[1].kind \in Navigations

Lasting(b, k) == k.alarm # 0 \/ b.attempt = Budget \/ b.unarmed \/ Schedules(b.calls)
Underway(b) == b.rec.on \in {"asked", "running"}
Pending(js, n) == \E i \in n .. Len(js) : js[i].kind = "alarm"

Retried(b, k) ==
  b.status = "retryable" =>
    /\ Chased(b.calls, b.attempt)
    /\ \/ Lasting(b, k) \/ Underway(b) \/ b.stage = "resetting"
       \/ Pending(b.jobs, IF b.stage = "recovering" THEN 2 ELSE 1)

Good(b, k) == Staged(b) /\ Tied(b) /\ Retried(b, k)

WorkerOK == Sound(bg, Installed) /\ Disk /\ Good(bg, disk)

LEMMA CalmKeeps ==
  ASSUME NEW b \in Workers, NEW r \in Workers, Calm(r, b), NEW k, Good(b, k)
  PROVE  Good(r, k)
<1>1. /\ Len(b.jobs) \in Nat /\ Len(r.jobs) \in Nat /\ Len(b.jobs) <= Len(r.jobs)
      /\ \A i \in 1 .. Len(b.jobs) : r.jobs[i] = b.jobs[i]
      /\ b.jobs \in Seq(Jobs) /\ r.jobs \in Seq(Jobs)
  BY WorkerParts DEF Calm, Grown
<1>2. b.jobs # <<>> => Len(b.jobs) > 0 /\ r.jobs # <<>> /\ r.jobs[1] = b.jobs[1]
  BY <1>1
<1>3. Staged(r)
  BY <1>2 DEF Good, Staged, Calm
<1>4. Tied(r)
  BY DEF Good, Tied, Calm
<1>5. ASSUME NEW n \in {1, 2}, Pending(b.jobs, n)
      PROVE  Pending(r.jobs, n)
  <2>1. PICK i \in n .. Len(b.jobs) : b.jobs[i].kind = "alarm"
    BY <1>5 DEF Pending
  <2>2. i \in n .. Len(r.jobs) /\ i \in 1 .. Len(b.jobs)
    BY <1>1, <2>1
  <2> QED
    BY <1>1, <2>1, <2>2 DEF Pending
<1>6. Retried(r, k)
  BY <1>5 DEF Good, Retried, Lasting, Underway, Calm
<1> QED
  BY <1>3, <1>4, <1>6 DEF Good

CalmAction ==
  \/ AlarmFires \/ \E kind \in {"retry", "enable", "disable"} : UserActs(kind)
  \/ \E d \in Docs : \/ Loads(d) \/ Installs(d) \/ Commits(d) \/ ChangesState(d) \/ Closes(d)
                     \/ \E o \in Owners : Injects(o, d) \/ ReadyTimesOut(o, d)

LEMMA CalmStep ==
  ASSUME PagesOK, Sound(bg, Installed), Installed \subseteq Installed', CalmAction
  PROVE  Sound(bg, Installed)' /\ Calm(bg', bg)
<1>1. PICK S : S = Installed
  OBVIOUS
<1>2. PICK T : T = Installed'
  OBVIOUS
<1>3. S \in SUBSET Docs /\ T \in SUBSET Docs /\ S \subseteq T
  BY <1>1, <1>2 DEF Installed
<1>4. PICK b : b = bg
  OBVIOUS
<1>5. Sound(b, S) /\ Sound(b, T) /\ b \in Workers /\ Calm(b, b)
  BY <1>1, <1>3, <1>4, SoundGrows, WorkerParts, GrownSame DEF Sound, Calm
<1>6. SUFFICES Sound(bg', T) /\ Calm(bg', b)
  BY <1>2, <1>4
<1>7. CASE AlarmFires
  <2>1. bg' = Schedule(Reset(b), "alarm", Front)
    BY <1>4, <1>7 DEF AlarmFires
  <2>2. Sound(Reset(b), T) /\ Calm(Reset(b), b)
    BY <1>5, ControlFacts
  <2>3. Sound(bg', T) /\ Calm(bg', Reset(b))
    BY <2>1, <2>2, ScheduleFacts, KindTypes, Caps DEF Kinds
  <2> QED
    BY <1>5, <2>2, <2>3, CalmTwice DEF Sound
<1>8. ASSUME NEW kind \in {"retry", "enable", "disable"}, UserActs(kind)
      PROVE  Sound(bg', T) /\ Calm(bg', b)
  BY <1>4, <1>5, <1>8, ScheduleFacts, KindTypes, Caps DEF UserActs, Kinds
<1>9. ASSUME NEW d \in Docs, Commits(d) \/ ChangesState(d) \/ Closes(d)
      PROVE  Sound(bg', T) /\ Calm(bg', b)
  <2>1. \/ bg' = b
        \/ \E kind \in Navigations : bg' = Noted(b, kind, d) \/ bg' = Schedule(b, kind, d)
    BY <1>4, <1>9 DEF Commits, ChangesState, Closes, Navigations
  <2>2. CASE bg' = b
    BY <1>5, <2>2
  <2>3. ASSUME NEW kind \in Navigations, bg' = Noted(b, kind, d) \/ bg' = Schedule(b, kind, d)
        PROVE  Sound(bg', T) /\ Calm(bg', b)
    <3>1. Job(kind, d) \in Jobs /\ kind # "message"
      BY KindTypes DEF Kinds
    <3> QED
      BY <1>3, <1>5, <2>3, <3>1, NotedFacts, ScheduleFacts
  <2> QED
    BY <2>1, <2>2, <2>3
<1>10. ASSUME NEW d \in Docs, Loads(d)
       PROVE  Sound(bg', T) /\ Calm(bg', b)
  <2>1. bg' = Noted(Booted(b, d), "completed", d)
    BY <1>4, <1>10 DEF Loads
  <2>2. Sound(Booted(b, d), T) /\ Calm(Booted(b, d), b)
    BY <1>1, <1>3, <1>5, BootedFacts
  <2>3. Sound(bg', T) /\ Calm(bg', Booted(b, d))
    BY <1>3, <2>1, <2>2, NotedFacts DEF Navigations
  <2> QED
    BY <1>5, <2>2, <2>3, CalmTwice DEF Sound
<1>11. ASSUME NEW d \in Docs, Installs(d)
       PROVE  Sound(bg', T) /\ Calm(bg', b)
  <2>1. CASE enabled
    <3>1. bg' = NoteReady(b, d)
      BY <1>4, <1>11, <2>1 DEF Installs
    <3>2. pages' = [pages EXCEPT ![d] = [pages[d] EXCEPT !.replies = pages[d].replies - 1,
                                           !.runtime = "installed"]]
      BY <1>11, <2>1 DEF Installs
    <3>3. pages'[d].runtime = "installed"
      BY <3>2 DEF PagesOK, Page
    <3>4. d \in T
      BY <1>2, <3>3 DEF Installed
    <3> QED
      BY <1>3, <1>5, <3>1, <3>4, NoteReadyFacts
  <2>2. CASE ~enabled
    BY <1>4, <1>5, <1>11, <2>2 DEF Installs
  <2> QED
    BY <2>1, <2>2
<1>12. ASSUME NEW d \in Docs, NEW o \in Owners, ReadyTimesOut(o, d)
       PROVE  Sound(bg', T) /\ Calm(bg', b)
  <2>1. bg' = Missed(b, o, d) /\ d \in b[o].waits
    BY <1>4, <1>12 DEF ReadyTimesOut, TimesOut
  <2>2. d \in b[o].left
    BY <1>5, <2>1 DEF Sound, Able, Owners
  <2> QED
    BY <1>5, <2>1, <2>2, MissedFacts
<1>13. ASSUME NEW d \in Docs, NEW o \in Owners, Injects(o, d)
       PROVE  Sound(bg', T) /\ Calm(bg', b)
  <2>1. d \in b[o].left
    BY <1>4, <1>13 DEF Injects
  <2>2. CASE d \in b.ready
    <3>1. bg' = Done(b, o, d) /\ d \in T
      BY <1>4, <1>5, <1>13, <2>2 DEF Injects, Sound
    <3> QED
      BY <1>5, <3>1, DoneFacts
  <2>3. CASE d \notin b.ready /\ ~Open(d)
    BY <1>4, <1>5, <1>13, <2>1, <2>3, MissedFacts DEF Injects
  <2>4. CASE d \notin b.ready /\ Open(d)
    <3> DEFINE f == [b[o] EXCEPT !.waits = @ \cup {d}]
               w == [b.waiter EXCEPT ![d] = o]
               c == [b EXCEPT ![o] = f, !.waiter = w]
    <3>1. PICK g \in Flight : g = b[o] /\ Able(g, T)
      BY <1>5 DEF Sound, Able, Owners
    <3>2. g.waits \cup {d} \in SUBSET Docs
      BY <3>1, FlightParts
    <3>3. /\ f \in Flight /\ f.left = g.left /\ f.waits = g.waits \cup {d}
          /\ f.on = g.on /\ f.docs = g.docs /\ f.tries = g.tries /\ f.failed = g.failed
      BY <3>1, <3>2 DEF Flight
    <3> HIDE DEF f
    <3>4. Able(f, T) /\ f.on = b[o].on
      BY <2>1, <3>1, <3>3 DEF Able
    <3>5. w \in [Docs -> Owners \cup {"none"}]
      BY <1>5, WorkerParts
    <3> HIDE DEF w
    <3>6. Sound(c, T) /\ Calm(c, b)
      BY <1>5, <3>4, <3>5, OwnerFacts, Zenon
    <3>7. bg' = Booted(c, d)
      <4>1. bg' = Booted([b EXCEPT ![o] = f, !.waiter[d] = o], d)
        BY <1>4, <1>13, <2>4 DEF Injects, f
      <4>2. [b EXCEPT ![o] = f, !.waiter[d] = o] = c
        BY DEF Owners, w
      <4> QED
        BY <4>1, <4>2
    <3> HIDE DEF c
    <3>8. Sound(Booted(c, d), T) /\ Calm(Booted(c, d), c)
      BY <1>1, <1>3, <3>6, BootedFacts
    <3> QED
      BY <1>5, <3>6, <3>7, <3>8, CalmTwice DEF Sound
  <2> QED
    BY <2>2, <2>3, <2>4
<1> QED
  BY <1>7, <1>8, <1>9, <1>10, <1>11, <1>12, <1>13 DEF CalmAction

(* What remains when the job at the head is done.                          *)
Spared(b, k) ==
  b.status = "retryable" =>
    Chased(b.calls, b.attempt) /\ (Lasting(b, k) \/ Underway(b) \/ Pending(b.jobs, 2))

LEMMA FinishStep ==
  ASSUME NEW S, NEW b, Sound(b, S), b.jobs # <<>>, NEW k, Spared(b, k),
         Owned(b.calls, "queued", b.rec.on), b.rec.on = "settling" => Settles(b.calls)
  PROVE  /\ Sound(Finished(b), S) /\ Good(Finished(b), k)
         /\ Finished(b).jobs = Tail(b.jobs) /\ Finished(b).rec = b.rec
<1>1. /\ Sound(Finished(b), S) /\ Finished(b).jobs = Tail(b.jobs)
      /\ Finished(b).stage = "queued" /\ Finished(b).rec = b.rec
      /\ Finished(b).status = b.status /\ Held(Finished(b), b)
  BY FinishedFacts
<1>2. b.jobs \in Seq(Jobs)
  BY WorkerParts DEF Sound
<1>3. \A i \in 2 .. Len(b.jobs) : /\ i - 1 \in 1 .. Len(Tail(b.jobs))
                                 /\ Tail(b.jobs)[i - 1] = b.jobs[i]
  BY <1>2
<1>4. Pending(b.jobs, 2) => Pending(Tail(b.jobs), 1)
  BY <1>3 DEF Pending
<1>5. Retried(Finished(b), k)
  BY <1>1, <1>4 DEF Retried, Spared, Lasting, Underway
<1>6. Tied(Finished(b)) /\ Staged(Finished(b))
  BY <1>1 DEF Tied, Staged
<1> QED
  BY <1>1, <1>5, <1>6 DEF Good

(* The head of the queue is not the alarm that is to try again.            *)
LEMMA Behind ==
  ASSUME NEW b \in Workers, NEW k, Retried(b, k), b.jobs # <<>>, b.stage # "resetting",
         b.jobs[1].kind # "alarm" \/ b.stage = "recovering"
  PROVE  Spared(b, k)
<1>1. b.jobs \in Seq(Jobs)
  BY WorkerParts
<1>2. b.stage # "recovering" /\ Pending(b.jobs, 1) => Pending(b.jobs, 2)
  <2>1. \A i \in 1 .. Len(b.jobs) : i = 1 \/ i \in 2 .. Len(b.jobs)
    BY <1>1
  <2> QED
    BY <2>1 DEF Pending
<1> QED
  BY <1>2 DEF Retried, Spared

LEMMA WorkerBasics ==
  ASSUME WorkerOK, Installed \subseteq Installed'
  PROVE  /\ Sound(bg, Installed') /\ bg \in Workers /\ disk \in Disks /\ Disk
         /\ Good(bg, disk) /\ Staged(bg) /\ Tied(bg) /\ Retried(bg, disk)
         /\ bg.jobs # <<>> => bg.jobs[1] \in Jobs /\ Current = bg.jobs[1]
<1>1. Sound(bg, Installed) /\ Disk /\ Good(bg, disk)
  BY DEF WorkerOK
<1>2. PICK S, T : S = Installed /\ T = Installed'
  OBVIOUS
<1>3. Sound(bg, T) /\ bg \in Workers
  BY <1>1, <1>2, SoundGrows DEF Sound
<1>4. bg.jobs \in Seq(Jobs)
  BY <1>3, WorkerParts
<1>5. bg.jobs # <<>> => bg.jobs[1] \in Jobs /\ Current = bg.jobs[1]
  BY <1>4 DEF Current
<1> QED
  BY <1>1, <1>2, <1>3, <1>5 DEF Disk, Good

(* A recovery that injects goes on injecting.                              *)
StaysOn == bg.rec.on = "running" => bg'.rec.on = "running"

(* A job that fails is told to storage and leaves.                         *)
LEMMA FailedStep ==
  ASSUME NEW S, NEW b, Sound(b, S), b.jobs # <<>>, NEW k,
         Owned(b.calls, "queued", b.rec.on), b.rec.on = "settling" => Settles(b.calls)
  PROVE  /\ Sound(Finished(Blocked(b, 1)), S) /\ Good(Finished(Blocked(b, 1)), k)
         /\ Finished(Blocked(b, 1)).jobs = Tail(b.jobs)
         /\ Finished(Blocked(b, 1)).rec = b.rec
<1>1. PICK c : c = Blocked(b, 1)
  OBVIOUS
<1>2. 1 \in Nat /\ 1 > 0
  OBVIOUS
<1>3. /\ Sound(c, S) /\ c.jobs = b.jobs /\ c.rec = b.rec
      /\ Settles(b.calls) => Settles(c.calls)
      /\ \A s, o : Owned(b.calls, s, o) => Owned(c.calls, s, o)
  BY <1>1, <1>2, BlockedFacts
<1>4. Schedules(c.calls) /\ \A g : Chased(c.calls, g)
  BY <1>1, <1>2, BlockedFacts
<1>5. Spared(c, k)
  BY <1>4 DEF Spared, Lasting
<1>6. /\ Sound(Finished(c), S) /\ Good(Finished(c), k)
      /\ Finished(c).jobs = Tail(c.jobs) /\ Finished(c).rec = c.rec
  BY <1>3, <1>5, FinishStep
<1> QED
  BY <1>1, <1>3, <1>6

LEMMA HandlesMessageStep ==
  ASSUME WorkerOK, Installed \subseteq Installed', HandlesMessage
  PROVE  WorkerOK' /\ StaysOn /\ bg'.jobs = Tail(bg.jobs)
<1>1. PICK T, b, k : T = Installed' /\ b = bg /\ k = disk
  OBVIOUS
<1>2. /\ Sound(b, T) /\ b \in Workers /\ k \in Disks /\ disk' = k
      /\ b.stage = "working" /\ b.jobs # <<>> /\ b.jobs[1].kind = "message"
      /\ Retried(b, k) /\ Tied(b)
  BY <1>1, WorkerBasics DEF HandlesMessage, Running
<1>3. Owned(b.calls, "queued", b.rec.on) /\ (b.rec.on = "settling" => Settles(b.calls))
  BY <1>2, OwnedElsewhere DEF Tied
<1>4. CASE bg' = Finished(b)
  <2>1. Sound(bg', T) /\ Good(bg', k) /\ bg'.jobs = Tail(b.jobs) /\ bg'.rec = b.rec
    BY <1>2, <1>3, <1>4, Behind, FinishStep
  <2> QED
    BY <1>1, <1>2, <2>1 DEF WorkerOK, Disk, StaysOn
<1>5. CASE bg' = Finished(Blocked(b, 1))
  <2>1. Sound(bg', T) /\ Good(bg', k) /\ bg'.jobs = Tail(b.jobs) /\ bg'.rec = b.rec
    BY <1>2, <1>3, <1>5, FailedStep
  <2> QED
    BY <1>1, <1>2, <2>1 DEF WorkerOK, Disk, StaysOn
<1> QED
  BY <1>1, <1>4, <1>5 DEF HandlesMessage

LEMMA JobStartsStep ==
  ASSUME WorkerOK, Installed \subseteq Installed', JobStarts
  PROVE  WorkerOK' /\ StaysOn /\ bg'.jobs = bg.jobs
<1>1. PICK T, b, k : T = Installed' /\ b = bg /\ k = disk
  OBVIOUS
<1>2. /\ Sound(b, T) /\ b \in Workers /\ k \in Disks /\ disk' = k
      /\ b.stage = "queued" /\ b.jobs # <<>> /\ Good(b, k)
  BY <1>1, WorkerBasics DEF JobStarts, Running
<1>3. PICK c : c = Ensure(b)
  OBVIOUS
<1>4. Sound(c, T) /\ Calm(c, b) /\ c.jobs = b.jobs /\ c \in Workers
  BY <1>2, <1>3, ControlFacts DEF Sound
<1>5. PICK stage \in {"working", "initializing"} : bg' = [c EXCEPT !.stage = stage]
  BY <1>1, <1>3 DEF JobStarts
<1>6. /\ bg' \in Workers /\ bg'.stage = stage /\ bg'.jobs = c.jobs /\ bg'.rec = c.rec
      /\ bg'.ing = c.ing /\ bg'.ready = c.ready /\ bg'.status = c.status
      /\ Held(bg', c)
  BY <1>4, <1>5 DEF Workers, Stages
<1>7. Sound(bg', T)
  BY <1>4, <1>6, CoreFacts
<1>8. PICK r : r = bg'
  OBVIOUS
<1>9. /\ r.status = b.status /\ Held(r, b) /\ r.jobs = b.jobs /\ r.rec.on = b.rec.on
      /\ r.stage = stage
  BY <1>4, <1>6, <1>8 DEF Calm
<1>10. Tied(r)
  <2>1. Owned(b.calls, stage, b.rec.on)
    BY <1>2, OwnedElsewhere DEF Good, Tied
  <2> QED
    BY <1>2, <1>9, <2>1 DEF Good, Tied
<1>11. Staged(r) /\ Retried(r, k)
  BY <1>2, <1>9 DEF Good, Staged, Retried, Lasting, Underway
<1> QED
  BY <1>1, <1>2, <1>7, <1>8, <1>9, <1>10, <1>11 DEF WorkerOK, Disk, StaysOn, Good

(* An alarm's job joins a recovery that settles only while a later failure *)
(* schedules a retry.                                                      *)
LEMMA RequestsRecoveryStep ==
  ASSUME WorkerOK, Installed \subseteq Installed', RequestsRecovery
  PROVE  WorkerOK' /\ StaysOn /\ bg'.jobs = bg.jobs
<1>1. PICK T, b, k : T = Installed' /\ b = bg /\ k = disk
  OBVIOUS
<1>2. /\ Sound(b, T) /\ b \in Workers /\ k \in Disks /\ disk' = k
      /\ b.stage = "working" /\ b.jobs # <<>> /\ b.jobs[1].kind = "alarm"
      /\ Tied(b) /\ Retried(b, k) /\ b.calls \in Seq(Calls)
  BY <1>1, WorkerBasics, WorkerParts DEF RequestsRecovery, Running
<1>3. PICK c : c = RequestRecovery(b)
  OBVIOUS
<1>4. /\ Sound(c, T) /\ c.jobs = b.jobs /\ c \in Workers /\ c.status = b.status /\ Held(c, b)
      /\ c.rec.on = IF b.rec.on = "off" THEN "asked" ELSE b.rec.on
  BY <1>2, <1>3, RequestFacts DEF Sound
<1>5. bg' = [c EXCEPT !.stage = "recovering"]
  BY <1>1, <1>3 DEF RequestsRecovery
<1>6. /\ bg' \in Workers /\ bg'.stage = "recovering" /\ bg'.jobs = c.jobs
      /\ bg'.rec = c.rec /\ bg'.ing = c.ing /\ bg'.ready = c.ready
      /\ bg'.status = c.status /\ Held(bg', c)
  BY <1>4, <1>5 DEF Workers, Stages
<1>7. Sound(bg', T)
  BY <1>4, <1>6, CoreFacts
<1>8. PICK r : r = bg'
  OBVIOUS
<1>9. /\ r.status = b.status /\ Held(r, b) /\ r.jobs = b.jobs /\ r.stage = "recovering"
      /\ r.rec.on = IF b.rec.on = "off" THEN "asked" ELSE b.rec.on
  BY <1>4, <1>6, <1>8
<1>10. Tied(r)
  <2>1. Owned(b.calls, "recovering", r.rec.on)
    BY <1>2, <1>9, OwnedElsewhere DEF Tied
  <2> QED
    BY <1>2, <1>9, <2>1 DEF Tied
<1>11. Staged(r)
  BY <1>2, <1>9 DEF Staged
<1>12. Retried(r, k)
  <2>1. SUFFICES ASSUME b.status = "retryable"
                 PROVE  Chased(b.calls, b.attempt) /\ (Lasting(b, k) \/ Underway(r))
    BY <1>9 DEF Retried, Lasting
  <2>2. Chased(b.calls, b.attempt)
    BY <1>2, <2>1 DEF Retried
  <2>3. b.rec.on \in {"off", "asked", "running", "settling"}
    BY <1>2, WorkerParts, FlightParts
  <2>4. b.rec.on # "settling" => Underway(r)
    BY <1>9, <2>3 DEF Underway
  <2>5. b.rec.on = "settling" => Lasting(b, k)
    BY <1>2, <2>2, SettlingLasts DEF Tied, Lasting
  <2> QED
    BY <2>2, <2>4, <2>5
<1> QED
  BY <1>1, <1>2, <1>7, <1>8, <1>9, <1>10, <1>11, <1>12 DEF WorkerOK, Disk, StaysOn, Good

LEMMA InitSucceedsStep ==
  ASSUME WorkerOK, Installed \subseteq Installed', InitSucceeds
  PROVE  WorkerOK' /\ StaysOn /\ bg'.jobs = bg.jobs
<1>1. PICK T, b, k : T = Installed' /\ b = bg /\ k = disk
  OBVIOUS
<1>2. /\ Sound(b, T) /\ b \in Workers /\ k \in Disks /\ disk' = k /\ Good(b, k)
  BY <1>1, WorkerBasics DEF InitSucceeds
<1>3. PICK c : c = RequestRecovery(b)
  OBVIOUS
<1>4. /\ Sound(c, T) /\ c.jobs = b.jobs /\ c \in Workers /\ c.status = b.status /\ Held(c, b)
      /\ c.rec.on = IF b.rec.on = "off" THEN "asked" ELSE b.rec.on
      /\ c.stage = b.stage
  BY <1>2, <1>3, RequestFacts DEF Sound
<1>5. PICK stage : stage = IF c.stage = "initializing" THEN "working" ELSE c.stage
  OBVIOUS
<1>6. stage \in Stages
  BY <1>4, <1>5, WorkerParts DEF Stages
<1>7. bg' = [c EXCEPT !.ctl = "ready", !.top = FALSE, !.stage = stage]
  BY <1>1, <1>3, <1>5 DEF InitSucceeds
<1>8. /\ bg' \in Workers /\ bg'.stage = stage /\ bg'.jobs = c.jobs /\ bg'.rec = c.rec
      /\ bg'.ing = c.ing /\ bg'.ready = c.ready /\ bg'.status = c.status /\ Held(bg', c)
  BY <1>4, <1>6, <1>7 DEF Workers
<1>9. Sound(bg', T)
  BY <1>4, <1>8, CoreFacts
<1>10. PICK r : r = bg'
  OBVIOUS
<1>11. /\ r.status = b.status /\ Held(r, b) /\ r.jobs = b.jobs
       /\ r.rec.on = IF b.rec.on = "off" THEN "asked" ELSE b.rec.on
       /\ r.stage = IF b.stage = "initializing" THEN "working" ELSE b.stage
  BY <1>4, <1>5, <1>8, <1>10
<1>12. Tied(r)
  <2>1. Owned(b.calls, r.stage, r.rec.on)
    BY <1>2, <1>11, OwnedElsewhere DEF Good, Tied
  <2> QED
    BY <1>2, <1>11, <2>1 DEF Good, Tied
<1>13. Staged(r)
  BY <1>2, <1>11 DEF Good, Staged
<1>14. Retried(r, k)
  <2>1. Underway(b) => Underway(r)
    BY <1>11 DEF Underway
  <2>2. Lasting(b, k) => Lasting(r, k)
    BY <1>11 DEF Lasting
  <2> QED
    BY <1>2, <1>11, <2>1, <2>2 DEF Good, Retried
<1> QED
  BY <1>1, <1>2, <1>9, <1>10, <1>11, <1>12, <1>13, <1>14 DEF WorkerOK, Disk, StaysOn, Good

LEMMA InitFailsStep ==
  ASSUME WorkerOK, Installed \subseteq Installed', InitFails
  PROVE  /\ WorkerOK' /\ StaysOn
         /\ bg'.jobs = IF Running("initializing") THEN Tail(bg.jobs) ELSE bg.jobs
<1>1. PICK T, o, k : T = Installed' /\ o = bg /\ k = disk
  OBVIOUS
<1>2. Sound(o, T) /\ o \in Workers /\ k \in Disks /\ disk' = k /\ Good(o, k)
  BY <1>1, WorkerBasics DEF InitFails
<1>3. PICK head : head = IF Running("initializing") THEN 1 ELSE 0
  OBVIOUS
<1>4. PICK n : n = head + Cardinality({d \in Docs : pages[d].asks > 0})
                   + (IF bg.top THEN 1 ELSE 0)
  OBVIOUS
<1>5. n \in Nat /\ (head = 1 => n > 0)
  <2>1. IsFiniteSet({d \in Docs : pages[d].asks > 0})
    BY StartupAssumption, FS_Subset
  <2>2. Cardinality({d \in Docs : pages[d].asks > 0}) \in Nat
    BY <2>1, FS_CardinalityType
  <2> QED
    BY <1>3, <1>4, <2>2
<1>6. PICK c : c = Blocked(o, n)
  OBVIOUS
<1>7. /\ Sound(c, T) /\ c.jobs = o.jobs /\ c.stage = o.stage
      /\ c.rec = o.rec /\ (n = 0 => c = o)
      /\ Settles(o.calls) => Settles(c.calls)
      /\ \A s, x : Owned(o.calls, s, x) => Owned(c.calls, s, x)
  BY <1>2, <1>5, <1>6, BlockedFacts
<1>8. n > 0 => Schedules(c.calls) /\ \A g : Chased(c.calls, g)
  BY <1>2, <1>5, <1>6, BlockedFacts
<1>9. PICK b : b = [c EXCEPT !.ctl = "idle", !.top = FALSE]
  OBVIOUS
<1>10. /\ b \in Workers /\ b.jobs = c.jobs /\ b.stage = c.stage /\ b.rec = c.rec
       /\ b.ing = c.ing /\ b.ready = c.ready /\ b.status = c.status /\ Held(b, c)
  BY <1>7, <1>9 DEF Sound, Workers
<1>11. Sound(b, T)
  BY <1>7, <1>10, CoreFacts
<1>12. bg' = (IF head = 1 THEN Finished(b) ELSE b)
  BY <1>1, <1>3, <1>4, <1>6, <1>9 DEF InitFails
<1>13. \A s : Owned(o.calls, s, o.rec.on) => Owned(b.calls, s, b.rec.on)
  BY <1>7, <1>10
<1>14. b.rec.on = "settling" => Settles(b.calls)
  BY <1>2, <1>7, <1>10 DEF Good, Tied
<1>15. CASE head = 1
  <2>1. b.jobs # <<>> /\ o.stage = "initializing" /\ o.jobs = bg.jobs
    BY <1>1, <1>3, <1>7, <1>10, <1>15 DEF Running
  <2>2. Owned(b.calls, "queued", b.rec.on)
    BY <1>2, <1>13, <2>1, OwnedElsewhere DEF Good, Tied
  <2>3. Spared(b, k)
    BY <1>5, <1>8, <1>10, <1>15 DEF Spared, Lasting
  <2>4. /\ Sound(bg', T) /\ Good(bg', k) /\ bg'.jobs = Tail(b.jobs) /\ bg'.rec = b.rec
    BY <1>11, <1>12, <1>14, <1>15, <2>1, <2>2, <2>3, FinishStep
  <2> QED
    BY <1>1, <1>2, <1>3, <1>7, <1>10, <1>15, <2>4 DEF WorkerOK, Disk, StaysOn
<1>16. CASE head # 1
  <2>1. Staged(b) /\ Tied(b)
    BY <1>2, <1>7, <1>10, <1>13, <1>14 DEF Good, Staged, Tied
  <2>2. ASSUME n = 0 PROVE Retried(b, k)
    <3>1. /\ b.jobs = o.jobs /\ b.stage = o.stage /\ b.rec = o.rec
          /\ b.status = o.status /\ Held(b, o)
      BY <1>7, <1>10, <2>2
    <3> QED
      BY <1>2, <3>1 DEF Good, Retried, Lasting, Underway
  <2>3. ASSUME n > 0 PROVE Retried(b, k)
    BY <1>8, <1>10, <2>3 DEF Retried, Lasting
  <2>4. Good(b, k)
    BY <1>5, <2>1, <2>2, <2>3 DEF Good
  <2> QED
    BY <1>1, <1>2, <1>3, <1>7, <1>10, <1>11, <1>12, <1>16, <2>4 DEF WorkerOK, Disk, StaysOn
<1> QED
  BY <1>3, <1>15, <1>16

LEMMA ObeysUserStep ==
  ASSUME WorkerOK, Installed \subseteq Installed', ObeysUser
  PROVE  WorkerOK' /\ StaysOn /\ bg'.jobs \in {bg.jobs, Tail(bg.jobs)}
<1>1. PICK T, b, k : T = Installed' /\ b = bg /\ k = disk
  OBVIOUS
<1>2. /\ Sound(b, T) /\ b \in Workers /\ k \in Disks /\ disk' = k
      /\ b.stage = "working" /\ b.jobs # <<>> /\ b.jobs[1].kind # "alarm"
      /\ Tied(b) /\ Retried(b, k) /\ b.calls \in Seq(Calls)
  BY <1>1, WorkerBasics, WorkerParts DEF ObeysUser, Running
<1>3. \A s : Owned(b.calls, s, b.rec.on)
  BY <1>2, OwnedElsewhere DEF Tied
<1>4. CASE bg' = Finished(b)
  <2>1. Spared(b, k) /\ (b.rec.on = "settling" => Settles(b.calls))
    BY <1>2, Behind DEF Tied
  <2>2. Sound(bg', T) /\ Good(bg', k) /\ bg'.jobs = Tail(b.jobs) /\ bg'.rec = b.rec
    BY <1>2, <1>3, <1>4, <2>1, FinishStep
  <2> QED
    BY <1>1, <1>2, <2>2 DEF WorkerOK, Disk, StaysOn
<1>5. CASE bg' = Asks([ResetBudget(b) EXCEPT !.stage = "resetting"], "remove", 0, "user")
  <2>1. PICK c : c = [ResetBudget(b) EXCEPT !.stage = "resetting"]
    OBVIOUS
  <2>2. c = [b EXCEPT !.attempt = 0, !.unarmed = FALSE, !.stage = "resetting"]
    BY <2>1 DEF ResetBudget
  <2>3. /\ c \in Workers /\ c.stage = "resetting" /\ c.jobs = b.jobs /\ c.rec = b.rec
        /\ c.ing = b.ing /\ c.ready = b.ready /\ c.status = b.status /\ c.calls = b.calls
        /\ c.attempt = 0
    <3>1. 0 \in 0 .. Budget
      BY Caps
    <3> QED
      BY <1>2, <2>2, <3>1 DEF Workers, Stages
  <2>4. Sound(c, T)
    BY <1>2, <2>3, CoreFacts
  <2>5. PICK x : x = [do |-> "remove", n |-> 0, by |-> "user"]
    OBVIOUS
  <2>6. x \in Calls /\ Keeping(x) /\ x.by = "user" /\ x.do = "remove"
    BY <2>5, Caps DEF Calls, Keeping
  <2>7. PICK r : r = bg'
    OBVIOUS
  <2>8. /\ Sound(r, T) /\ r.calls = Append(b.calls, x) /\ r.status = b.status
        /\ r.attempt = 0 /\ r.jobs = b.jobs /\ r.stage = "resetting" /\ r.rec = b.rec
    <3>1. r = Asks(c, "remove", 0, "user")
      BY <1>5, <2>1, <2>7
    <3>2. [do |-> "remove", n |-> 0, by |-> "user"] \in Calls
      BY <2>5, <2>6
    <3>3. /\ Sound(Asks(c, "remove", 0, "user"), T)
          /\ Asks(c, "remove", 0, "user").calls
               = Append(c.calls, [do |-> "remove", n |-> 0, by |-> "user"])
          /\ Asks(c, "remove", 0, "user").status = c.status
          /\ Asks(c, "remove", 0, "user").attempt = c.attempt
          /\ Asks(c, "remove", 0, "user").jobs = c.jobs
          /\ Asks(c, "remove", 0, "user").stage = c.stage
          /\ Asks(c, "remove", 0, "user").rec = c.rec
      BY <2>4, <3>2, AsksFacts
    <3> QED
      BY <2>3, <2>5, <3>1, <3>3
  <2>9. Tied(r)
    <3>1. Owned(b.calls, "resetting", b.rec.on) /\ Owned(b.calls, "queued", b.rec.on)
      BY <1>3
    <3>2. Owned(Append(b.calls, x), "resetting", b.rec.on)
      BY <1>2, <2>6, <3>1, OwnedGrows
    <3>3. b.rec.on = "settling" => Settles(Append(b.calls, x))
      BY <1>2, <2>6, PartsGrow DEF Tied
    <3> QED
      BY <2>8, <3>2, <3>3 DEF Tied
  <2>10. Retried(r, k)
    <3>1. Chased(b.calls, b.attempt) => Chased(Append(b.calls, x), 0)
      BY <1>2, <2>6, ChasedGrows DEF Recs
    <3> QED
      BY <1>2, <2>8, <3>1 DEF Retried
  <2>11. Staged(r)
    BY <1>2, <2>8 DEF Staged
  <2> QED
    BY <1>1, <1>2, <2>7, <2>8, <2>9, <2>10, <2>11 DEF WorkerOK, Disk, StaysOn, Good
<1> QED
  BY <1>1, <1>4, <1>5 DEF ObeysUser

LEMMA JobRecoveredStep ==
  ASSUME WorkerOK, Installed \subseteq Installed', JobRecovered
  PROVE  WorkerOK' /\ StaysOn /\ bg'.jobs = Tail(bg.jobs)
<1>1. PICK T, b, k : T = Installed' /\ b = bg /\ k = disk
  OBVIOUS
<1>2. /\ Sound(b, T) /\ b \in Workers /\ k \in Disks /\ b.jobs # <<>>
      /\ b.stage = "recovering" /\ Tied(b) /\ Retried(b, k)
      /\ bg' = Finished(b) /\ disk' = k
  BY <1>1, WorkerBasics DEF JobRecovered, Running
<1>3. Owned(b.calls, "queued", b.rec.on) /\ (b.rec.on = "settling" => Settles(b.calls))
  BY <1>2, OwnedElsewhere DEF Tied
<1>4. Sound(bg', T) /\ Good(bg', k) /\ bg'.jobs = Tail(b.jobs) /\ bg'.rec = b.rec
  BY <1>2, <1>3, Behind, FinishStep
<1> QED
  BY <1>1, <1>2, <1>4 DEF WorkerOK, Disk, StaysOn
-----------------------------------------------------------------------------
(* A recovery asks for its last things: nobody else does.                  *)
LEMMA SettlingFacts ==
  ASSUME NEW S, NEW b, Sound(b, S)
  PROVE  /\ Sound(Settling(b), S) /\ Settling(b).rec.on = "settling"
         /\ Settling(b).status = b.status /\ Held(Settling(b), b)
         /\ Settling(b).jobs = b.jobs /\ Settling(b).stage = b.stage
<1> DEFINE f == [Idle EXCEPT !.on = "settling"]
           r == [b EXCEPT !.rec = f]
<1>1. Able(f, S) /\ f.on = "settling" /\ b \in Workers
  <2>1. Able(f, S) /\ Idle \in Flight
    BY IdleTypes DEF Able
  <2> QED
    BY <2>1 DEF Sound, Flight
<1>2. f \in Flight
  BY <1>1 DEF Able
<1> HIDE DEF f
<1>3. /\ r \in Workers /\ r.rec = f /\ r.status = b.status /\ Held(r, b) /\ r.jobs = b.jobs
      /\ r.stage = b.stage /\ r.ing = b.ing /\ r.ready = b.ready
  BY <1>1, <1>2 DEF Workers
<1> HIDE DEF r
<1>4. Sound(r, S)
  BY <1>1, <1>3, CoreFacts
<1>5. Settling(b) = r
  BY DEF Settling, r, f
<1> QED
  BY <1>1, <1>3, <1>4, <1>5

LEMMA LastAsked ==
  ASSUME NEW S, NEW b, Sound(b, S), Staged(b), b.rec.on = "settling",
         Owned(b.calls, b.stage, "off"), NEW do, NEW by \in Recs,
         [do |-> do, n |-> 0, by |-> by] \in Calls, Keeping([do |-> do, n |-> 0, by |-> by])
  PROVE  /\ Sound(Asks(b, do, 0, by), S) /\ Asks(b, do, 0, by).status = b.status
         /\ Staged(Asks(b, do, 0, by)) /\ Tied(Asks(b, do, 0, by))
         /\ Asks(b, do, 0, by).jobs = b.jobs /\ Asks(b, do, 0, by).rec = b.rec
<1>1. PICK x : x = [do |-> do, n |-> 0, by |-> by]
  OBVIOUS
<1>2. x \in Calls /\ Keeping(x) /\ x.by \in Recs
  BY <1>1
<1>3. PICK r : r = Asks(b, do, 0, by)
  OBVIOUS
<1>4. /\ Sound(r, S) /\ r.calls = Append(b.calls, x) /\ r.status = b.status
      /\ r.jobs = b.jobs /\ r.stage = b.stage /\ r.rec = b.rec
  BY <1>1, <1>3, AsksFacts
<1>5. b.calls \in Seq(Calls)
  BY WorkerParts DEF Sound
<1>6. Owned(b.calls, b.stage, "settling")
  BY OwnedElsewhere
<1>7. Owned(Append(b.calls, x), b.stage, "settling") /\ Settles(Append(b.calls, x))
  BY <1>2, <1>5, <1>6, OwnedGrows, PartsGrow
<1>8. Staged(r) /\ Tied(r)
  BY <1>4, <1>7 DEF Staged, Tied
<1> QED
  BY <1>3, <1>4, <1>8

LEMMA RecoveryBlockedFacts ==
  ASSUME NEW S, NEW b, Sound(b, S), Staged(b), Owned(b.calls, b.stage, "off"), NEW k
  PROVE  /\ Sound(RecoveryBlocked(b), S) /\ Good(RecoveryBlocked(b), k)
         /\ RecoveryBlocked(b).jobs = b.jobs /\ RecoveryBlocked(b).rec.on = "settling"
         /\ RecoveryBlocked(b).status = "retryable"
<1>1. PICK c : c = Settling(b)
  OBVIOUS
<1>2. /\ Sound(c, S) /\ c.rec.on = "settling" /\ Held(c, b) /\ c.jobs = b.jobs
      /\ c.stage = b.stage
  BY <1>1, SettlingFacts
<1>3. PICK r : r = BlockedBy(c, "rec")
  OBVIOUS
<1>4. PICK x : x = [do |-> "tell", n |-> 0, by |-> "rec"]
  OBVIOUS
<1>5. /\ Sound(r, S) /\ r.status = "retryable" /\ r.calls = Append(c.calls, x)
      /\ r.jobs = c.jobs /\ r.stage = c.stage /\ r.rec = c.rec
      /\ Schedules(r.calls) /\ \A g : Chased(r.calls, g)
  BY <1>2, <1>3, <1>4, BlockedByFacts
<1>6. x \in Calls /\ Keeping(x) /\ x.by \in Recs /\ c.calls \in Seq(Calls)
  <2>1. x \in Calls /\ Keeping(x) /\ x.by \in Recs
    BY <1>4, Caps DEF Calls, Keeping, Recs
  <2>2. c.calls \in Seq(Calls)
    BY <1>2, WorkerParts DEF Sound
  <2> QED
    BY <2>1, <2>2
<1>7. Owned(c.calls, c.stage, "off") /\ Owned(c.calls, c.stage, "settling")
  BY <1>2, OwnedElsewhere
<1>8. Owned(Append(c.calls, x), c.stage, "settling") /\ Settles(Append(c.calls, x))
  BY <1>6, <1>7, OwnedGrows, PartsGrow
<1>9. Staged(r) /\ Tied(r)
  BY <1>2, <1>5, <1>8 DEF Staged, Tied
<1>10. Retried(r, k)
  BY <1>5 DEF Retried, Lasting
<1>11. RecoveryBlocked(b) = r
  BY <1>1, <1>3 DEF RecoveryBlocked
<1> QED
  BY <1>2, <1>5, <1>9, <1>10, <1>11 DEF Good

LEMMA RestoredFacts ==
  ASSUME NEW S, NEW b, Sound(b, S), Staged(b), Owned(b.calls, b.stage, "off"), NEW k,
         NEW by \in Recs
  PROVE  Sound(Restored(b, by), S) /\ Good(Restored(b, by), k) /\ Restored(b, by).jobs = b.jobs
<1>1. PICK a : a = ResetBudget(b)
  OBVIOUS
<1>2. /\ a \in Workers /\ a.calls = b.calls /\ a.jobs = b.jobs /\ a.stage = b.stage
      /\ a.rec = b.rec /\ a.ing = b.ing /\ a.ready = b.ready
  <2>1. 0 \in 0 .. Budget /\ b \in Workers
    BY Caps DEF Sound
  <2>2. a = [b EXCEPT !.attempt = 0, !.unarmed = FALSE]
    BY <1>1 DEF ResetBudget
  <2> QED
    BY <2>1, <2>2 DEF Workers
<1>3. Sound(a, S)
  BY <1>2, CoreFacts
<1>4. PICK d : d = Settling(a)
  OBVIOUS
<1>5. /\ Sound(d, S) /\ d \in Workers /\ d.rec.on = "settling" /\ d.calls = a.calls
      /\ d.jobs = a.jobs /\ d.stage = a.stage
  <2>1. /\ Sound(d, S) /\ d.rec.on = "settling" /\ d.calls = a.calls
        /\ d.jobs = a.jobs /\ d.stage = a.stage
    BY <1>3, <1>4, SettlingFacts
  <2> QED
    BY <2>1 DEF Sound
<1>6. PICK c : c = [d EXCEPT !.status = "ready"]
  OBVIOUS
<1>7. /\ c \in Workers /\ c.calls = d.calls /\ c.jobs = d.jobs /\ c.stage = d.stage
      /\ c.rec = d.rec /\ c.ing = d.ing /\ c.ready = d.ready /\ c.status = "ready"
  BY <1>5, <1>6 DEF Workers
<1>8. Sound(c, S)
  BY <1>5, <1>7, CoreFacts
<1>9. Staged(c) /\ Owned(c.calls, c.stage, "off") /\ c.rec.on = "settling"
  BY <1>2, <1>5, <1>7 DEF Staged
<1>10. /\ [do |-> "remove", n |-> 0, by |-> by] \in Calls
       /\ Keeping([do |-> "remove", n |-> 0, by |-> by])
  BY Caps DEF Calls, Keeping, Recs
<1>11. PICK r : r = Asks(c, "remove", 0, by)
  OBVIOUS
<1>12. /\ Sound(r, S) /\ r.status = "ready" /\ Staged(r) /\ Tied(r) /\ r.jobs = c.jobs
  BY <1>7, <1>8, <1>9, <1>10, <1>11, LastAsked
<1>13. Restored(b, by) = r
  BY <1>1, <1>4, <1>6, <1>11 DEF Restored
<1> QED
  BY <1>2, <1>5, <1>7, <1>12, <1>13 DEF Good, Retried

LEMMA RecoveryStep ==
  ASSUME WorkerOK, Installed \subseteq Installed', RecoveryStarts \/ RecoveryEnds
  PROVE  WorkerOK' /\ bg'.jobs = bg.jobs
<1>1. PICK T, b, k : T = Installed' /\ b = bg /\ k = disk
  OBVIOUS
<1>2. /\ Sound(b, T) /\ b \in Workers /\ k \in Disks /\ disk' = k /\ Staged(b) /\ Tied(b)
      /\ b.rec.on \in {"asked", "running"}
  BY <1>1, WorkerBasics DEF RecoveryStarts, RecoveryEnds
<1>3. Owned(b.calls, b.stage, "off") /\ Owned(b.calls, b.stage, "running")
  BY <1>2, OwnedElsewhere DEF Tied
<1>4. SUFFICES Sound(bg', T) /\ Good(bg', k) /\ bg'.jobs = b.jobs
  BY <1>1, <1>2 DEF WorkerOK, Disk
<1>5. CASE bg' = RecoveryBlocked(b)
  BY <1>2, <1>3, <1>5, RecoveryBlockedFacts
<1>6. CASE bg' = Restored(b, "off") \/ bg' = Restored(b, "rec")
  BY <1>2, <1>3, <1>6, RestoredFacts DEF Recs
<1>7. CASE bg' = Asks([Settling(b) EXCEPT !.status = "refused"], "note", 0, "rec")
  <2>1. PICK d : d = Settling(b)
    OBVIOUS
  <2>2. /\ Sound(d, T) /\ d.rec.on = "settling" /\ Held(d, b) /\ d.jobs = b.jobs
        /\ d.stage = b.stage
    BY <1>2, <2>1, SettlingFacts
  <2>3. PICK c : c = [d EXCEPT !.status = "refused"]
    OBVIOUS
  <2>4. /\ c \in Workers /\ c.calls = d.calls /\ c.jobs = d.jobs /\ c.stage = d.stage
        /\ c.rec = d.rec /\ c.ing = d.ing /\ c.ready = d.ready /\ c.status = "refused"
    BY <2>2, <2>3 DEF Sound, Workers
  <2>5. Sound(c, T)
    BY <2>2, <2>4, CoreFacts
  <2>6. Staged(c) /\ Owned(c.calls, c.stage, "off") /\ c.rec.on = "settling"
    BY <1>2, <1>3, <2>2, <2>4 DEF Staged
  <2>7. /\ [do |-> "note", n |-> 0, by |-> "rec"] \in Calls
        /\ Keeping([do |-> "note", n |-> 0, by |-> "rec"]) /\ "rec" \in Recs
    BY Caps DEF Calls, Keeping, Recs
  <2>8. PICK r : r = Asks(c, "note", 0, "rec")
    OBVIOUS
  <2>9. Sound(r, T) /\ r.status = "refused" /\ Staged(r) /\ Tied(r) /\ r.jobs = c.jobs
    BY <2>4, <2>5, <2>6, <2>7, <2>8, LastAsked
  <2>10. bg' = r
    BY <1>7, <2>1, <2>3, <2>8
  <2> QED
    BY <2>2, <2>4, <2>9, <2>10 DEF Good, Retried
<1>8. CASE bg' = [b EXCEPT !.status = "recovering",
                           !.rec = Injecting({d \in Docs : Open(d)})]
  <2>1. PICK f : f = Injecting({d \in Docs : Open(d)})
    OBVIOUS
  <2>2. Able(f, T) /\ f \in Flight /\ f.on = "running"
    <3>1. Able(f, T) /\ f = [Idle EXCEPT !.on = "running", !.docs = {d \in Docs : Open(d)},
                                         !.left = {d \in Docs : Open(d)}]
      BY <2>1, IdleTypes DEF Injecting
    <3>2. Idle \in Flight
      BY IdleTypes DEF Able
    <3> QED
      BY <3>1, <3>2 DEF Able, Flight
  <2>3. PICK r : r = [b EXCEPT !.status = "recovering", !.rec = f]
    OBVIOUS
  <2>4. /\ r \in Workers /\ r.rec = f /\ r.status = "recovering" /\ r.jobs = b.jobs
        /\ r.stage = b.stage /\ r.ing = b.ing /\ r.ready = b.ready /\ r.calls = b.calls
    BY <1>2, <2>2, <2>3 DEF Workers
  <2>5. Sound(r, T)
    BY <1>2, <2>2, <2>4, CoreFacts
  <2>6. Good(r, k)
    BY <1>2, <1>3, <2>2, <2>4 DEF Good, Staged, Tied, Retried
  <2>7. bg' = r
    BY <1>8, <2>1, <2>3
  <2> QED
    BY <2>4, <2>5, <2>6, <2>7
<1> QED
  BY <1>1, <1>5, <1>6, <1>7, <1>8 DEF RecoveryStarts, RecoveryEnds
-----------------------------------------------------------------------------
(* Navigation, and a worker that starts anew.                              *)
LEMMA NavigationFacts ==
  ASSUME NEW T, NEW b, Sound(b, T), NEW d \in Docs, Current.of = d
  PROVE  /\ Sound(Navigated(b), T) /\ Navigated(b).jobs = b.jobs
         /\ Navigated(b).status = b.status /\ Held(Navigated(b), b)
         /\ Navigated(b).rec = b.rec
<1>1. /\ b \in Workers /\ b.committed \in SUBSET Docs /\ b.known \in SUBSET Docs
      /\ b.injected \in SUBSET Docs
  BY WorkerParts DEF Sound
<1>2. PICK r : r = Navigated(b)
  OBVIOUS
<1> DEFINE Same == /\ r \in Workers /\ r.jobs = b.jobs /\ r.status = b.status
                   /\ Held(r, b) /\ r.rec = b.rec /\ r.ing = b.ing
                   /\ r.ready = b.ready
<1>3. ASSUME r = b PROVE Same
  BY <1>1, <1>3
<1>4. ASSUME r = [b EXCEPT !.committed = b.committed \cup {d}] PROVE Same
  <2>1. PICK c \in SUBSET Docs : c = b.committed \cup {d}
    BY <1>1
  <2> QED
    BY <1>1, <1>4, <2>1 DEF Workers
<1>5. ASSUME r = [b EXCEPT !.known = b.known \cup {d}] PROVE Same
  <2>1. PICK c \in SUBSET Docs : c = b.known \cup {d}
    BY <1>1
  <2> QED
    BY <1>1, <1>5, <2>1 DEF Workers
<1>6. ASSUME r = [b EXCEPT !.committed = b.committed \ {d}, !.known = b.known \ {d},
                           !.injected = b.injected \ {d}]
      PROVE  Same
  <2>1. PICK c \in SUBSET Docs : c = b.committed \ {d}
    BY <1>1
  <2>2. PICK n \in SUBSET Docs : n = b.known \ {d}
    BY <1>1
  <2>3. PICK i \in SUBSET Docs : i = b.injected \ {d}
    BY <1>1
  <2>4. r = [b EXCEPT !.committed = c, !.known = n, !.injected = i]
    BY <1>6, <2>1, <2>2, <2>3
  <2> QED
    BY <1>1, <2>4 DEF Workers
<1>7. Same
  <2>1. \/ r = b \/ r = [b EXCEPT !.committed = b.committed \cup {d}]
        \/ r = [b EXCEPT !.known = b.known \cup {d}]
        \/ r = [b EXCEPT !.committed = b.committed \ {d}, !.known = b.known \ {d},
                         !.injected = b.injected \ {d}]
    BY <1>2 DEF Navigated
  <2> QED
    BY <1>3, <1>4, <1>5, <1>6, <2>1
<1> QED
  BY <1>2, <1>7, CoreFacts

LEMMA ReducesStep ==
  ASSUME WorkerOK, Installed \subseteq Installed', Reduces
  PROVE  WorkerOK' /\ StaysOn /\ bg'.jobs \in {bg.jobs, Tail(bg.jobs)}
<1>1. PICK T, b, k : T = Installed' /\ b = bg /\ k = disk
  OBVIOUS
<1>2. /\ Sound(b, T) /\ b \in Workers /\ k \in Disks /\ b.jobs # <<>> /\ disk' = k
      /\ Staged(b) /\ Tied(b) /\ Retried(b, k)
  BY <1>1, WorkerBasics DEF Reduces, Running
<1>3. PICK d : d = Current.of
  OBVIOUS
<1>4. /\ b.jobs[1].kind \in Navigations /\ d \in Docs /\ Current = b.jobs[1]
      /\ b.stage = "working"
  BY <1>1, <1>2, <1>3, WorkerBasics DEF Reduces, Running, Navigations, Jobs
<1>5. \A s : Owned(b.calls, s, b.rec.on)
  BY <1>2, <1>4, OwnedElsewhere DEF Tied
<1>6. CASE MustInject(bg)
  <2>1. PICK f : f = Injecting({d})
    OBVIOUS
  <2>2. Able(f, T) /\ f \in Flight
    BY <1>4, <2>1, IdleTypes DEF Able
  <2>3. PICK i, c \in SUBSET Docs : i = b.injected \cup {d} /\ c = b.committed \cup {d}
    BY <1>2, <1>4, WorkerParts
  <2>4. PICK r : r = bg'
    OBVIOUS
  <2>5. r = [b EXCEPT !.injected = i, !.committed = c, !.stage = "injecting", !.ing = f]
    BY <1>1, <1>3, <1>6, <2>1, <2>3, <2>4 DEF Reduces
  <2>6. /\ r \in Workers /\ r.jobs = b.jobs /\ r.stage = "injecting" /\ r.ing = f
        /\ r.rec = b.rec /\ r.ready = b.ready /\ r.status = b.status
        /\ Held(r, b)
    BY <1>2, <2>2, <2>3, <2>5 DEF Workers, Stages
  <2>7. Sound(r, T)
    BY <1>2, <2>2, <2>6, CoreFacts
  <2>8. Staged(r) /\ Tied(r)
    BY <1>2, <1>4, <1>5, <2>6 DEF Staged, Tied
  <2>9. Retried(r, k)
    BY <1>2, <1>4, <2>6 DEF Retried, Lasting, Underway
  <2> QED
    BY <1>1, <1>2, <2>4, <2>6, <2>7, <2>8, <2>9 DEF WorkerOK, Disk, StaysOn, Good
<1>7. CASE ~MustInject(bg)
  <2>1. PICK r : r = Navigated(b)
    OBVIOUS
  <2>2. bg' = Finished(r)
    BY <1>1, <1>7, <2>1 DEF Reduces
  <2>3. /\ Sound(r, T) /\ r.jobs = b.jobs /\ r.status = b.status /\ Held(r, b)
        /\ r.rec = b.rec
    BY <1>2, <1>3, <1>4, <2>1, NavigationFacts
  <2>4. Spared(b, k)
    BY <1>2, <1>4, Behind DEF Navigations
  <2>5. Spared(r, k)
    BY <2>3, <2>4 DEF Spared, Lasting, Underway
  <2>6. Owned(r.calls, "queued", r.rec.on) /\ (r.rec.on = "settling" => Settles(r.calls))
    BY <1>2, <1>5, <2>3 DEF Tied
  <2>7. Sound(bg', T) /\ Good(bg', k) /\ bg'.jobs = Tail(b.jobs) /\ bg'.rec = b.rec
    BY <1>2, <2>2, <2>3, <2>5, <2>6, FinishStep
  <2> QED
    BY <1>1, <1>2, <2>7 DEF WorkerOK, Disk, StaysOn
<1> QED
  BY <1>6, <1>7

LEMMA InjectionEndsStep ==
  ASSUME WorkerOK, Installed \subseteq Installed', InjectionEnds
  PROVE  WorkerOK' /\ StaysOn /\ bg'.jobs \in {bg.jobs, Tail(bg.jobs)}
<1>1. PICK T, b, k : T = Installed' /\ b = bg /\ k = disk
  OBVIOUS
<1>2. /\ Sound(b, T) /\ b \in Workers /\ k \in Disks /\ disk' = k /\ b.jobs # <<>>
      /\ b.stage = "injecting" /\ b.jobs[1].kind \in Navigations
      /\ Tied(b) /\ Retried(b, k)
  BY <1>1, WorkerBasics DEF InjectionEnds, Running, Staged
<1>3. \A s : Owned(b.calls, s, b.rec.on)
  BY <1>2, OwnedElsewhere DEF Tied
<1>4. CASE bg' = Finished(b)
  <2>1. Spared(b, k)
    BY <1>2, Behind DEF Navigations
  <2>2. Sound(bg', T) /\ Good(bg', k) /\ bg'.jobs = Tail(b.jobs) /\ bg'.rec = b.rec
    BY <1>2, <1>3, <1>4, <2>1, FinishStep DEF Tied
  <2> QED
    BY <1>1, <1>2, <2>2 DEF WorkerOK, Disk, StaysOn
<1>5. CASE bg' = BlockedBy([b EXCEPT !.injected = b.injected \ {Current.of},
                                     !.stage = "blocking", !.ing = Idle], "job")
  <2>1. PICK i : i = b.injected \ {Current.of}
    OBVIOUS
  <2>2. i \in SUBSET Docs
    BY <1>2, <2>1, WorkerParts
  <2>3. PICK c : c = [b EXCEPT !.injected = i, !.stage = "blocking", !.ing = Idle]
    OBVIOUS
  <2>4. Able(Idle, T) /\ Idle \in Flight
    BY IdleTypes DEF Able
  <2>5. /\ c \in Workers /\ c.jobs = b.jobs /\ c.rec = b.rec /\ c.ing = Idle
        /\ c.ready = b.ready /\ c.calls = b.calls /\ c.stage = "blocking"
    BY <1>2, <2>2, <2>3, <2>4 DEF Workers, Stages
  <2>6. Sound(c, T)
    BY <1>2, <2>4, <2>5, CoreFacts
  <2>7. PICK x : x = [do |-> "tell", n |-> 0, by |-> "job"]
    OBVIOUS
  <2>8. PICK r : r = bg'
    OBVIOUS
  <2>9. /\ Sound(r, T) /\ r.status = "retryable" /\ r.calls = Append(c.calls, x)
        /\ r.jobs = c.jobs /\ r.stage = c.stage /\ r.rec = c.rec
        /\ Schedules(r.calls) /\ \A g : Chased(r.calls, g)
    <3>1. r = BlockedBy(c, "job")
      BY <1>5, <2>1, <2>3, <2>8
    <3> QED
      BY <2>6, <2>7, <3>1, BlockedByFacts
  <2>10. x \in Calls /\ Keeping(x) /\ x.by = "job" /\ b.calls \in Seq(Calls)
    <3>1. x \in Calls /\ Keeping(x) /\ x.by = "job"
      BY <2>7, Caps DEF Calls, Keeping
    <3>2. b.calls \in Seq(Calls)
      BY <1>2, WorkerParts
    <3> QED
      BY <3>1, <3>2
  <2>11. Owned(b.calls, "blocking", b.rec.on) /\ Owned(b.calls, "queued", b.rec.on)
    BY <1>3
  <2>12. Owned(Append(b.calls, x), "blocking", b.rec.on)
    BY <2>10, <2>11, OwnedGrows
  <2>13. b.rec.on = "settling" => Settles(Append(b.calls, x))
    BY <1>2, <2>10, PartsGrow DEF Tied
  <2>14. Tied(r) /\ Staged(r)
    BY <1>2, <2>5, <2>9, <2>12, <2>13 DEF Tied, Staged
  <2>15. Retried(r, k)
    BY <2>9 DEF Retried, Lasting
  <2> QED
    BY <1>1, <1>2, <2>5, <2>8, <2>9, <2>14, <2>15 DEF WorkerOK, Disk, StaysOn, Good
<1> QED
  BY <1>1, <1>4, <1>5 DEF InjectionEnds

LEMMA FreshFacts ==
  ASSUME NEW S, NEW k
  PROVE  /\ Sound(Fresh, S) /\ Good(Fresh, k) /\ Fresh.jobs = <<>>
         /\ Fresh.status = "recovering"
<1> DEFINE w == [d \in Docs |-> "none"]
<1>1. w \in [Docs -> Owners \cup {"none"}]
  OBVIOUS
<1>2. 0 \in 0 .. Budget
  BY Caps
<1>3. Able(Idle, S) /\ Idle \in Flight /\ Idle.on = "off"
  BY IdleTypes DEF Able
<1>4. Fresh =
        [ctl |-> "initializing", top |-> TRUE, status |-> "recovering", attempt |-> 0,
         ready |-> {}, waiter |-> w, committed |-> {}, known |-> {}, injected |-> {},
         jobs |-> <<>>, stage |-> "queued", rec |-> Idle, ing |-> Idle,
         calls |-> <<>>, unarmed |-> FALSE]
  BY DEF Fresh
<1> HIDE DEF w
<1>5. Fresh \in Workers
  BY <1>1, <1>2, <1>3, <1>4 DEF Workers, Stages
<1>6. Sound(Fresh, S)
  BY <1>3, <1>4, <1>5 DEF Sound
<1>7. Fresh.calls = <<>> /\ Len(Fresh.calls) = 0 /\ Fresh.rec.on = "off"
  BY <1>3, <1>4
<1>8. Tied(Fresh)
  BY <1>7 DEF Tied, Owned
<1>9. Staged(Fresh) /\ Retried(Fresh, k)
  BY <1>4 DEF Staged, Retried
<1> QED
  BY <1>4, <1>6, <1>8, <1>9 DEF Good

LEMMA RestartsStep ==
  ASSUME WorkerOK, Installed \subseteq Installed', Restarts
  PROVE  WorkerOK' /\ bg'.jobs = <<>>
<1>1. bg' = Fresh /\ disk' = disk /\ disk \in Disks
  BY WorkerBasics DEF Restarts
<1>2. PICK T, b, k : T = Installed' /\ b = Fresh /\ k = disk
  OBVIOUS
<1>3. Sound(b, T) /\ Good(b, k) /\ b.jobs = <<>>
  BY <1>2, FreshFacts
<1> QED
  BY <1>1, <1>2, <1>3 DEF WorkerOK, Disk
-----------------------------------------------------------------------------
(* The browser's answers.  The first call is gone, and whoever asked may   *)
(* ask for more or is done.                                                *)
Freed(r, by) ==
  /\ Owned(r.calls, r.stage, r.rec.on)
  /\ by \in Recs => r.rec.on = "settling" /\ Owned(r.calls, r.stage, "off")
  /\ by \notin Recs => (r.rec.on = "settling" => Settles(r.calls))
  /\ by = "job" => r.stage = "blocking"
  /\ by = "user" => r.stage = "resetting"
  /\ by \in Heads => Owned(r.calls, "queued", r.rec.on)

Moved(js, old) ==
  \/ js = old
  \/ old # <<>> /\ (js = Tail(old) \/ js = <<Job("alarm", Front)>> \o Tail(old))

LEMMA RestFacts ==
  ASSUME NEW S, NEW b, Sound(b, S), Staged(b), Tied(b), b.calls # <<>>, NEW c, c = Head(b.calls),
         NEW r, r = [b EXCEPT !.calls = Tail(@)]
  PROVE  /\ Sound(r, S) /\ r \in Workers /\ Staged(r) /\ r.calls = Tail(b.calls)
         /\ r.status = b.status /\ r.attempt = b.attempt /\ r.unarmed = b.unarmed
         /\ r.jobs = b.jobs /\ r.stage = b.stage /\ r.rec = b.rec
         /\ c \in Calls /\ Keeping(c) /\ Freed(r, c.by)
         /\ b.calls \in Seq(Calls) /\ r.calls \in Seq(Calls)
<1> DEFINE ts == Tail(b.calls)
<1>1. b \in Workers /\ b.calls \in Seq(Calls)
  BY WorkerParts DEF Sound
<1>2. ts \in Seq(Calls) /\ c \in Calls
  BY <1>1, TailFacts
<1>3. /\ Owned(ts, b.stage, b.rec.on) /\ Keeping(c)
      /\ c.by \in Recs => b.rec.on = "settling" /\ \A p : Owned(ts, b.stage, p)
      /\ c.by = "job" => b.stage = "blocking"
      /\ c.by = "user" => b.stage = "resetting"
      /\ c.by \in Heads => \A t : Owned(ts, t, b.rec.on)
  BY <1>1, OwnedPops DEF Tied
<1>4. c.by \notin Recs => (b.rec.on = "settling" => Settles(ts))
  BY <1>1, PartsPop DEF Tied
<1>5. r = [b EXCEPT !.calls = ts]
  OBVIOUS
<1> HIDE DEF ts
<1>6. /\ r \in Workers /\ r.calls = ts /\ r.status = b.status /\ r.attempt = b.attempt
      /\ r.unarmed = b.unarmed /\ r.jobs = b.jobs /\ r.stage = b.stage /\ r.rec = b.rec
      /\ r.ing = b.ing /\ r.ready = b.ready
  BY <1>1, <1>2, <1>5 DEF Workers
<1>7. Sound(r, S)
  BY <1>6, CoreFacts
<1>8. Staged(r)
  BY <1>6 DEF Staged
<1>9. Freed(r, c.by)
  BY <1>3, <1>4, <1>6 DEF Freed
<1> QED
  BY <1>1, <1>2, <1>3, <1>6, <1>7, <1>8, <1>9 DEF ts

(* Whoever asked asks for the next thing.                                  *)
LEMMA AsksOn ==
  ASSUME NEW S, NEW r, Sound(r, S), Staged(r), NEW do, NEW n, NEW by, Freed(r, by),
         NEW x, x = [do |-> do, n |-> n, by |-> by], x \in Calls, Keeping(x)
  PROVE  /\ Sound(Asks(r, do, n, by), S) /\ Staged(Asks(r, do, n, by)) /\ Tied(Asks(r, do, n, by))
         /\ Asks(r, do, n, by).calls = Append(r.calls, x)
         /\ Asks(r, do, n, by).status = r.status /\ Asks(r, do, n, by).attempt = r.attempt
         /\ Asks(r, do, n, by).unarmed = r.unarmed /\ Asks(r, do, n, by).jobs = r.jobs
         /\ Asks(r, do, n, by).stage = r.stage /\ Asks(r, do, n, by).rec = r.rec
<1>1. PICK q : q = Asks(r, do, n, by)
  OBVIOUS
<1>2. /\ Sound(q, S) /\ q.calls = Append(r.calls, x) /\ q.status = r.status
      /\ q.attempt = r.attempt /\ q.unarmed = r.unarmed /\ q.jobs = r.jobs
      /\ q.stage = r.stage /\ q.rec = r.rec
  BY <1>1, AsksFacts
<1>3. r.calls \in Seq(Calls)
  BY WorkerParts DEF Sound
<1>4. by \in {"none", "rec", "off", "job", "user"} /\ x.by = by
  BY DEF Calls
<1>5. Owned(Append(r.calls, x), r.stage, r.rec.on)
  BY <1>3, <1>4, OwnedGrows DEF Freed, Recs, Heads
<1>6. r.rec.on = "settling" => Settles(Append(r.calls, x))
  BY <1>3, <1>4, PartsGrow DEF Freed
<1>7. Staged(q) /\ Tied(q)
  BY <1>2, <1>5, <1>6 DEF Staged, Tied
<1> QED
  BY <1>1, <1>2, <1>7

(* Whoever asked is done: the recovery, the job at the head, or nobody.    *)
LEMMA EndedFacts ==
  ASSUME NEW S, NEW r, Sound(r, S), Staged(r), NEW by, Freed(r, by),
         by \in {"none", "rec", "off", "job"}, NEW k, Retried(r, k)
  PROVE  /\ Sound(Ended(r, by), S) /\ Good(Ended(r, by), k) /\ Moved(Ended(r, by).jobs, r.jobs)
         /\ r.rec.on = "running" => Ended(r, by).rec.on = "running"
<1>1. r \in Workers
  BY DEF Sound
<1>2. PICK q : q = Ended(r, by)
  OBVIOUS
<1>3. CASE by = "none"
  <2>1. q = r
    BY <1>2, <1>3 DEF Ended
  <2> QED
    BY <1>2, <1>3, <2>1 DEF Good, Tied, Freed, Recs, Moved
<1>4. CASE by \in Recs
  <2>1. Able(Idle, S) /\ Idle \in Flight /\ Idle.on = "off"
    BY IdleTypes DEF Able
  <2>2. q = [r EXCEPT !.rec = Idle]
    BY <1>2, <1>4 DEF Ended, Recs
  <2>3. /\ q \in Workers /\ q.rec = Idle /\ q.status = r.status /\ Held(q, r)
        /\ q.jobs = r.jobs /\ q.stage = r.stage /\ q.ing = r.ing /\ q.ready = r.ready
    BY <1>1, <2>1, <2>2 DEF Workers
  <2>4. Sound(q, S)
    BY <2>1, <2>3, CoreFacts
  <2>5. Staged(q) /\ Tied(q)
    BY <1>4, <2>1, <2>3 DEF Staged, Tied, Freed
  <2>6. r.rec.on = "settling"
    BY <1>4 DEF Freed
  <2>7. Retried(q, k)
    BY <2>3, <2>6 DEF Retried, Lasting, Underway
  <2> QED
    BY <1>2, <2>3, <2>4, <2>5, <2>6, <2>7 DEF Good, Moved
<1>5. CASE by = "job"
  <2>1. q = Finished(r)
    BY <1>2, <1>5 DEF Ended
  <2>2. /\ r.stage = "blocking" /\ Owned(r.calls, "queued", r.rec.on)
        /\ r.rec.on = "settling" => Settles(r.calls)
    BY <1>5 DEF Freed, Heads, Recs
  <2>3. r.jobs # <<>> /\ r.jobs[1].kind \in Navigations
    BY <2>2 DEF Staged
  <2>4. Spared(r, k)
    BY <1>1, <2>2, <2>3, Behind DEF Navigations
  <2>5. Sound(q, S) /\ Good(q, k) /\ q.jobs = Tail(r.jobs) /\ q.rec = r.rec
    BY <2>1, <2>2, <2>3, <2>4, FinishStep
  <2> QED
    BY <1>2, <2>3, <2>5 DEF Moved
<1> QED
  BY <1>3, <1>4, <1>5 DEF Recs

(* The user's reset is done: the alarm's job goes on with it.              *)
LEMMA EndedUser ==
  ASSUME NEW S, NEW r, Sound(r, S), Staged(r), Freed(r, "user"), NEW k,
         r.status = "retryable" => Chased(r.calls, r.attempt)
  PROVE  /\ Sound(Ended(r, "user"), S) /\ Good(Ended(r, "user"), k)
         /\ Moved(Ended(r, "user").jobs, r.jobs)
         /\ Ended(r, "user").rec.on = r.rec.on
<1>1. PICK c : c = Reset(r)
  OBVIOUS
<1>2. /\ Sound(c, S) /\ c \in Workers /\ Held(c, r) /\ c.status = r.status
      /\ c.rec.on = r.rec.on /\ c.jobs = r.jobs
  BY <1>1, ControlFacts DEF Sound, Calm
<1>3. r.jobs # <<>> /\ r.jobs \in Seq(Jobs)
  BY WorkerParts DEF Freed, Staged, Sound
<1>4. PICK js : js = <<Job("alarm", Front)>> \o Tail(r.jobs)
  OBVIOUS
<1>5. js \in Seq(Jobs) /\ 1 \in 1 .. Len(js) /\ js[1].kind = "alarm"
  <2>1. Tail(r.jobs) \in Seq(Jobs) /\ Job("alarm", Front) \in Jobs
    BY <1>3, KindTypes, Caps DEF Kinds
  <2>2. js \in Seq(Jobs) /\ 1 \in 1 .. Len(js) /\ js[1] = Job("alarm", Front)
    BY <1>4, <2>1
  <2> QED
    BY <2>2 DEF Job
<1>6. PICK q : q = Ended(r, "user")
  OBVIOUS
<1>7. q = [c EXCEPT !.stage = "queued", !.jobs = js]
  BY <1>1, <1>2, <1>4, <1>6 DEF Ended
<1>8. /\ q \in Workers /\ q.stage = "queued" /\ q.jobs = js /\ q.rec = c.rec
      /\ q.ing = c.ing /\ q.ready = c.ready /\ q.status = c.status /\ Held(q, c)
  BY <1>2, <1>5, <1>7 DEF Workers, Stages
<1>9. Sound(q, S)
  BY <1>2, <1>8, CoreFacts
<1>10. Staged(q) /\ Tied(q)
  BY <1>2, <1>8 DEF Staged, Tied, Freed, Heads, Recs
<1>11. Retried(q, k)
  BY <1>2, <1>5, <1>8 DEF Retried, Pending
<1> QED
  BY <1>2, <1>3, <1>4, <1>6, <1>8, <1>9, <1>10, <1>11 DEF Good, Moved

(* Nobody who tries again is gone with an answer that schedules nothing.   *)
LEMMA RestRetried ==
  ASSUME NEW b \in Workers, b.calls # <<>>, NEW k, Retried(b, k),
         Head(b.calls).do \notin Scheduling,
         NEW r, r.calls = Tail(b.calls), r.status = b.status, r.attempt = b.attempt,
         r.unarmed = b.unarmed, r.jobs = b.jobs, r.stage = b.stage, r.rec = b.rec
  PROVE  Retried(r, k)
<1>1. b.calls \in Seq(Calls)
  BY WorkerParts
<1>2. Schedules(b.calls) => Schedules(r.calls)
  BY <1>1, PartsPop
<1>3. Chased(b.calls, b.attempt) => Chased(r.calls, r.attempt)
  BY <1>1, ChasedPops DEF Scheduling
<1>4. Lasting(b, k) => Lasting(r, k)
  BY <1>2 DEF Lasting
<1> QED
  BY <1>3, <1>4 DEF Retried, Underway

Answered == WorkerOK' /\ StaysOn /\ Moved(bg'.jobs, bg.jobs)

LEMMA AnswerBasics ==
  ASSUME WorkerOK, Installed \subseteq Installed', bg.calls # <<>>,
         NEW b, b = bg, NEW r, r = Rest, NEW c, c = Call
  PROVE  /\ Sound(b, Installed') /\ b \in Workers /\ Staged(b) /\ Tied(b) /\ Retried(b, disk)
         /\ disk \in Disks /\ b.calls # <<>> /\ b.calls \in Seq(Calls) /\ c = Head(b.calls)
         /\ Sound(r, Installed') /\ r \in Workers /\ Staged(r) /\ r.calls = Tail(b.calls)
         /\ r.calls \in Seq(Calls)
         /\ r.status = b.status /\ r.attempt = b.attempt /\ r.unarmed = b.unarmed
         /\ r.jobs = b.jobs /\ r.stage = b.stage /\ r.rec = b.rec
         /\ c \in Calls /\ Keeping(c) /\ Freed(r, c.by)
<1>1. PICK T : T = Installed'
  OBVIOUS
<1>2. /\ Sound(b, T) /\ b \in Workers /\ Staged(b) /\ Tied(b) /\ Retried(b, disk)
      /\ disk \in Disks
  BY <1>1, WorkerBasics
<1>3. b.calls # <<>> /\ c = Head(b.calls) /\ r = [b EXCEPT !.calls = Tail(@)]
  BY DEF Rest, Call
<1>4. /\ Sound(r, T) /\ r \in Workers /\ Staged(r) /\ r.calls = Tail(b.calls)
      /\ r.status = b.status /\ r.attempt = b.attempt /\ r.unarmed = b.unarmed
      /\ r.jobs = b.jobs /\ r.stage = b.stage /\ r.rec = b.rec
      /\ c \in Calls /\ Keeping(c) /\ Freed(r, c.by)
      /\ b.calls \in Seq(Calls) /\ r.calls \in Seq(Calls)
  BY <1>2, <1>3, RestFacts
<1> QED
  BY <1>1, <1>2, <1>3, <1>4

(* q is the worker b without its first call, c.                            *)
Without(q, b, c) ==
  /\ b.calls # <<>> /\ c = Head(b.calls) /\ q.calls = Tail(b.calls)
  /\ q.status = b.status /\ q.unarmed = b.unarmed /\ q.jobs = b.jobs /\ q.stage = b.stage
  /\ q.rec = b.rec /\ (b.attempt = Budget => q.attempt = Budget)
  /\ c \in Calls /\ Staged(q) /\ Freed(q, c.by)

Follows(c, x) ==
  \/ c.do = "tell" /\ x.do = "read"
  \/ c.do = "read" /\ x.do = "store"
  \/ c.do = "store" /\ x.do = "create"
  \/ c.do = "remove" /\ x.do = "clear"
  \/ c.do = "clear" /\ x.do = "forget"

(* The alarm of k is still set in l, or is going to be set again.          *)
Armed(cs, x, k, l) == x.do \in Scheduling \/ l.alarm = k.alarm \/ Schedules(Tail(cs))

Going(y, b, S, l) ==
  Sound(y, S) /\ Good(y, l) /\ Moved(y.jobs, b.jobs) /\ y.rec = b.rec

(* Whoever asked goes on asking.                                           *)
LEMMA GoesOnFacts ==
  ASSUME NEW S, NEW b \in Workers, NEW k, Retried(b, k), NEW c, NEW q, Sound(q, S),
         Without(q, b, c), NEW l,
         NEW x \in Calls, Keeping(x), Follows(c, x), x.by = c.by,
         Armed(b.calls, x, k, l)
  PROVE  Going(Asks(q, x.do, x.n, c.by), b, S, l)
<1>1. PICK y : y = Asks(q, x.do, x.n, c.by)
  OBVIOUS
<1>2. /\ Sound(y, S) /\ Staged(y) /\ Tied(y) /\ y.calls = Append(q.calls, x)
      /\ y.status = q.status /\ y.attempt = q.attempt /\ y.unarmed = q.unarmed
      /\ y.jobs = q.jobs /\ y.stage = q.stage /\ y.rec = q.rec
  <2>1. PICK do, n, by : do = x.do /\ n = x.n /\ by = c.by
    OBVIOUS
  <2>2. x = [do |-> do, n |-> n, by |-> by]
    BY <2>1 DEF Calls
  <2>3. Staged(q) /\ Freed(q, by)
    BY <2>1 DEF Without
  <2>4. y = Asks(q, do, n, by)
    BY <1>1, <2>1
  <2> QED
    BY <2>2, <2>3, <2>4, AsksOn
<1>3. b.calls \in Seq(Calls) /\ Tail(b.calls) \in Seq(Calls) /\ b.calls # <<>>
  BY WorkerParts, TailFacts DEF Without
<1>4. Chased(b.calls, b.attempt) => Chased(y.calls, y.attempt)
  BY <1>2, <1>3, ChasedGoesOn DEF Without, Follows
<1>5. Schedules(Tail(b.calls)) \/ x.do \in Scheduling => Schedules(y.calls)
  BY <1>2, <1>3, PartsGrow DEF Without
<1>6. Schedules(b.calls) => Schedules(y.calls)
  <2>1. Schedules(b.calls) => Schedules(Tail(b.calls)) \/ c.do \in Scheduling
    BY <1>3, PartsPop DEF Without
  <2>2. c.do \in Scheduling => x.do \in Scheduling
    BY DEF Scheduling, Follows
  <2> QED
    BY <1>5, <2>1, <2>2
<1>7. Lasting(b, k) => Lasting(y, l)
  BY <1>2, <1>5, <1>6 DEF Lasting, Without, Armed
<1>8. Retried(y, l)
  BY <1>2, <1>4, <1>7 DEF Retried, Underway, Without
<1> QED
  BY <1>1, <1>2, <1>8 DEF Good, Without, Going, Moved

(* Nobody who waits goes away without an answer: no reset by a user stores *)
(* or creates anything.                                                    *)
LEMMA NotUser ==
  ASSUME NEW c \in Calls, Keeping(c), c.do \notin {"remove", "clear"}
  PROVE  c.by \in {"none", "rec", "off", "job"}
  BY DEF Keeping, Calls

LEMMA ToldStep ==
  ASSUME WorkerOK, Installed \subseteq Installed', Told
  PROVE  Answered
<1>1. PICK T, b, k, r, c : T = Installed' /\ b = bg /\ k = disk /\ r = Rest /\ c = Call
  OBVIOUS
<1>2. bg.calls # <<>> /\ disk' = k
  BY <1>1 DEF Told, Outstanding
<1>3. /\ b \in Workers /\ Retried(b, k) /\ k \in Disks /\ b.calls # <<>> /\ c = Head(b.calls)
      /\ Sound(r, T) /\ r \in Workers /\ Staged(r) /\ r.calls = Tail(b.calls)
      /\ r.status = b.status /\ r.attempt = b.attempt /\ r.unarmed = b.unarmed
      /\ r.jobs = b.jobs /\ r.stage = b.stage /\ r.rec = b.rec
      /\ c \in Calls /\ Keeping(c) /\ Freed(r, c.by)
  BY <1>1, <1>2, AnswerBasics
<1>4. SUFFICES /\ Sound(bg', T) /\ Good(bg', k) /\ Moved(bg'.jobs, b.jobs)
               /\ b.rec.on = "running" => bg'.rec.on = "running"
  BY <1>1, <1>2, <1>3 DEF Answered, WorkerOK, Disk, StaysOn
<1>5. CASE c.do = "tell" /\ bg' = Asks(r, "read", 0, c.by)
  <2>1. PICK x : x = [do |-> "read", n |-> 0, by |-> c.by]
    OBVIOUS
  <2>2. c.by \in {"none", "rec", "off", "job"} /\ 0 \in 0 .. Budget
    BY <1>3, <1>5, NotUser, Caps
  <2>3. /\ x \in Calls /\ Keeping(x) /\ x.do \in Scheduling /\ x.by = c.by
        /\ x.do = "read" /\ x.n = 0
    BY <2>1, <2>2 DEF Calls, Keeping, Scheduling
  <2>4. Follows(c, x) /\ Without(r, b, c) /\ Armed(b.calls, x, k, k)
    BY <1>3, <1>5, <2>3 DEF Follows, Without, Armed
  <2>5. Going(Asks(r, x.do, x.n, c.by), b, T, k)
    BY <1>3, <2>3, <2>4, GoesOnFacts, Zenon
  <2> QED
    BY <1>5, <2>3, <2>5 DEF Going
<1>6. CASE c.do = "note" /\ bg' = Ended(r, c.by)
  <2>1. c.by \in {"none", "rec", "off", "job"} /\ c.do \notin Scheduling
    BY <1>3, <1>6, NotUser DEF Scheduling
  <2>2. Retried(r, k)
    BY <1>3, <2>1, RestRetried
  <2>3. PICK y : y = Ended(r, c.by)
    OBVIOUS
  <2>4. /\ Sound(y, T) /\ Good(y, k) /\ Moved(y.jobs, r.jobs)
        /\ r.rec.on = "running" => y.rec.on = "running"
    BY <1>3, <2>1, <2>2, <2>3, EndedFacts
  <2> QED
    BY <1>3, <1>6, <2>3, <2>4
<1>7. \/ Head(bg.calls).do = "tell" /\ bg' = Asks(Rest, "read", 0, Call.by)
      \/ Head(bg.calls).do = "note" /\ bg' = Ended(Rest, Call.by)
  BY DEF Told, Outstanding
<1> QED
  BY <1>1, <1>3, <1>5, <1>6, <1>7

(* An answer that only changes the retries spent, or nothing.              *)
LEMMA AttemptFacts ==
  ASSUME NEW S, NEW r, Sound(r, S), NEW n \in 0 .. Budget, NEW q, q = [r EXCEPT !.attempt = n]
  PROVE  /\ Sound(q, S) /\ q.attempt = n /\ q.status = r.status /\ q.unarmed = r.unarmed
         /\ q.calls = r.calls /\ q.jobs = r.jobs /\ q.stage = r.stage /\ q.rec = r.rec
<1>1. /\ q \in Workers /\ q.attempt = n /\ q.status = r.status /\ q.unarmed = r.unarmed
      /\ q.calls = r.calls /\ q.jobs = r.jobs /\ q.stage = r.stage /\ q.rec = r.rec
      /\ q.ing = r.ing /\ q.ready = r.ready
  BY DEF Sound, Workers
<1>2. Sound(q, S)
  BY <1>1, CoreFacts
<1> QED
  BY <1>1, <1>2

LEMMA CountedFacts ==
  ASSUME WorkerOK, Installed \subseteq Installed', Outstanding("read"),
         NEW spent \in 0 .. Budget, bg.attempt = Budget => spent = Budget
  PROVE  /\ Sound(Counted(spent), Installed') /\ Good(Counted(spent), disk)
         /\ Moved(Counted(spent).jobs, bg.jobs)
         /\ bg.rec.on = "running" => Counted(spent).rec.on = "running"
<1>1. PICK T, b, k, r, c : T = Installed' /\ b = bg /\ k = disk /\ r = Rest /\ c = Call
  OBVIOUS
<1>2. bg.calls # <<>> /\ c.do = "read"
  BY <1>1 DEF Outstanding, Call
<1>3. /\ b \in Workers /\ Retried(b, k) /\ b.calls # <<>> /\ c = Head(b.calls)
      /\ Sound(r, T) /\ Staged(r) /\ r.calls = Tail(b.calls) /\ b.calls \in Seq(Calls)
      /\ r.status = b.status /\ r.unarmed = b.unarmed
      /\ r.jobs = b.jobs /\ r.stage = b.stage /\ r.rec = b.rec
      /\ c \in Calls /\ Keeping(c) /\ Freed(r, c.by)
  BY <1>1, <1>2, AnswerBasics
<1>4. c.by \in {"none", "rec", "off", "job"}
  BY <1>2, <1>3, NotUser
<1>5. spent \in Nat /\ Budget \in Nat /\ spent <= Budget
  BY Caps
<1>6. PICK n : n = IF spent < Budget THEN spent + 1 ELSE spent
  OBVIOUS
<1>7. n \in 0 .. Budget /\ (spent < Budget => n # 0) /\ (~(spent < Budget) => n = Budget)
  BY <1>5, <1>6
<1>8. PICK q : q = [r EXCEPT !.attempt = n]
  OBVIOUS
<1>9. /\ Sound(q, T) /\ q.attempt = n /\ q.status = r.status /\ q.unarmed = r.unarmed
      /\ q.calls = r.calls /\ q.jobs = r.jobs /\ q.stage = r.stage /\ q.rec = r.rec
  BY <1>3, <1>7, <1>8, AttemptFacts
<1>10. Staged(q) /\ Freed(q, c.by)
  BY <1>3, <1>9 DEF Staged, Freed
<1>11. PICK z : z = Counted(spent)
  OBVIOUS
<1>12. CASE spent < Budget
  <2>1. PICK x : x = [do |-> "store", n |-> n, by |-> c.by]
    OBVIOUS
  <2>2. /\ x \in Calls /\ Keeping(x) /\ x.do \in Scheduling /\ x.by = c.by
        /\ x.do = "store" /\ x.n = n
    BY <1>4, <1>7, <1>12, <2>1 DEF Calls, Keeping, Scheduling
  <2>3. b.attempt # Budget
    BY <1>1, <1>5, <1>12
  <2>4. Follows(c, x) /\ Without(q, b, c) /\ Armed(b.calls, x, k, k)
    BY <1>2, <1>3, <1>9, <1>10, <2>2, <2>3 DEF Follows, Without, Armed
  <2>5. Going(Asks(q, x.do, x.n, c.by), b, T, k)
    BY <1>3, <1>9, <2>2, <2>4, GoesOnFacts, Zenon
  <2>6. z = Asks(q, "store", n, c.by)
    BY <1>1, <1>6, <1>8, <1>11, <1>12 DEF Counted
  <2>7. Going(z, b, T, k)
    BY <2>2, <2>5, <2>6
  <2> QED
    BY <1>1, <1>11, <2>7 DEF Going
<1>13. CASE ~(spent < Budget)
  <2>1. n = Budget
    BY <1>7, <1>13
  <2>2. Chased(b.calls, b.attempt) => Chased(q.calls, q.attempt)
    BY <1>2, <1>3, <1>9, <2>1, ChasedPops
  <2>3. Retried(q, k)
    BY <1>3, <1>9, <2>1, <2>2 DEF Retried, Lasting
  <2>4. z = Ended(q, c.by)
    BY <1>1, <1>6, <1>8, <1>11, <1>13 DEF Counted
  <2>5. /\ Sound(Ended(q, c.by), T) /\ Good(Ended(q, c.by), k)
        /\ Moved(Ended(q, c.by).jobs, q.jobs)
        /\ q.rec.on = "running" => Ended(q, c.by).rec.on = "running"
    BY <1>4, <1>9, <1>10, <2>3, EndedFacts
  <2> QED
    BY <1>1, <1>3, <1>9, <1>11, <2>4, <2>5
<1> QED
  BY <1>12, <1>13

LEMMA BudgetReadStep ==
  ASSUME WorkerOK, Installed \subseteq Installed', BudgetRead
  PROVE  Answered
<1>1. bg \in Workers /\ disk \in Disks /\ Outstanding("read") /\ disk' = disk
  BY WorkerBasics DEF BudgetRead
<1>2. bg.attempt \in 0 .. Budget /\ disk.attempt \in 0 .. Budget /\ Budget \in Nat
  BY <1>1, WorkerParts, Caps DEF Disks
<1>3. PICK spent : /\ bg' = Counted(spent)
                   /\ spent = bg.attempt \/ spent = Extreme(bg.attempt, disk.attempt)
  BY DEF BudgetRead, Fails
<1>4. spent \in 0 .. Budget /\ (bg.attempt = Budget => spent = Budget)
  BY <1>2, <1>3 DEF Extreme
<1>5. /\ Sound(Counted(spent), Installed') /\ Good(Counted(spent), disk)
      /\ Moved(Counted(spent).jobs, bg.jobs)
      /\ bg.rec.on = "running" => Counted(spent).rec.on = "running"
  BY <1>1, <1>4, CountedFacts
<1> QED
  BY <1>1, <1>3, <1>5 DEF Answered, WorkerOK, Disk, StaysOn

LEMMA BudgetStoredStep ==
  ASSUME WorkerOK, Installed \subseteq Installed', BudgetStored
  PROVE  Answered
<1>1. PICK T, b, k, r, c : T = Installed' /\ b = bg /\ k = disk /\ r = Rest /\ c = Call
  OBVIOUS
<1>2. bg.calls # <<>> /\ c.do = "store"
  BY <1>1 DEF BudgetStored, Outstanding, Call
<1>3. /\ b \in Workers /\ Retried(b, k) /\ k \in Disks /\ b.calls # <<>> /\ c = Head(b.calls)
      /\ Sound(r, T) /\ Staged(r) /\ r.calls = Tail(b.calls)
      /\ r.status = b.status /\ r.attempt = b.attempt /\ r.unarmed = b.unarmed
      /\ r.jobs = b.jobs /\ r.stage = b.stage /\ r.rec = b.rec
      /\ c \in Calls /\ Keeping(c) /\ Freed(r, c.by)
  BY <1>1, <1>2, AnswerBasics
<1>4. PICK l \in Disks : l = disk' /\ l.alarm = k.alarm
  <2>1. c.n \in 0 .. Budget
    BY <1>3 DEF Calls
  <2>2. disk' = k \/ disk' = [k EXCEPT !.attempt = c.n]
    BY <1>1 DEF BudgetStored, Fails
  <2> QED
    BY <1>3, <2>1, <2>2 DEF Disks
<1>5. PICK x : x = [do |-> "create", n |-> c.n, by |-> c.by]
  OBVIOUS
<1>6. /\ x \in Calls /\ Keeping(x) /\ x.do \in Scheduling /\ x.by = c.by
      /\ x.do = "create" /\ x.n = c.n
  BY <1>2, <1>3, <1>5 DEF Calls, Keeping, Scheduling
<1>7. Follows(c, x) /\ Without(r, b, c) /\ Armed(b.calls, x, k, l)
  BY <1>2, <1>3, <1>6 DEF Follows, Without, Armed
<1>8. Going(Asks(r, x.do, x.n, c.by), b, T, l)
  BY <1>3, <1>6, <1>7, GoesOnFacts, Zenon
<1>9. bg' = Asks(r, "create", c.n, c.by)
  BY <1>1 DEF BudgetStored, Scheduled, Fails
<1>10. Going(bg', b, T, l)
  BY <1>6, <1>8, <1>9
<1> QED
  BY <1>1, <1>4, <1>10 DEF Answered, WorkerOK, Disk, StaysOn, Going

LEMMA AlarmCreatedStep ==
  ASSUME WorkerOK, Installed \subseteq Installed', AlarmCreated
  PROVE  Answered
<1>1. PICK T, b, k, r, c : T = Installed' /\ b = bg /\ k = disk /\ r = Rest /\ c = Call
  OBVIOUS
<1>2. bg.calls # <<>> /\ c.do = "create"
  BY <1>1 DEF AlarmCreated, Outstanding, Call
<1>3. /\ b \in Workers /\ Retried(b, k) /\ k \in Disks /\ b.calls # <<>> /\ c = Head(b.calls)
      /\ Sound(r, T) /\ r \in Workers /\ Staged(r) /\ r.calls = Tail(b.calls)
      /\ b.calls \in Seq(Calls)
      /\ r.status = b.status /\ r.attempt = b.attempt
      /\ r.jobs = b.jobs /\ r.stage = b.stage /\ r.rec = b.rec
      /\ c \in Calls /\ Keeping(c) /\ Freed(r, c.by)
  BY <1>1, <1>2, AnswerBasics
<1>4. c.by \in {"none", "rec", "off", "job"} /\ c.n \in 0 .. Budget /\ c.n # 0
  BY <1>2, <1>3, NotUser DEF Calls, Keeping
<1>5. PICK u \in BOOLEAN, l \in Disks :
        /\ bg' = Ended([r EXCEPT !.unarmed = u], c.by) /\ disk' = l
        /\ u \/ l.alarm # 0
  <2>1. \/ bg' = Ended([r EXCEPT !.unarmed = TRUE], c.by) /\ disk' = k
        \/ bg' = Ended([r EXCEPT !.unarmed = FALSE], c.by) /\ disk' = [k EXCEPT !.alarm = c.n]
    BY <1>1 DEF AlarmCreated, Fails
  <2>2. [k EXCEPT !.alarm = c.n] \in Disks /\ [k EXCEPT !.alarm = c.n].alarm = c.n
    BY <1>3, <1>4 DEF Disks
  <2> QED
    BY <1>3, <1>4, <2>1, <2>2
<1>6. PICK q : q = [r EXCEPT !.unarmed = u]
  OBVIOUS
<1>7. /\ q \in Workers /\ q.unarmed = u /\ q.status = r.status /\ q.attempt = r.attempt
      /\ q.calls = r.calls /\ q.jobs = r.jobs /\ q.stage = r.stage /\ q.rec = r.rec
      /\ q.ing = r.ing /\ q.ready = r.ready
  BY <1>3, <1>6 DEF Workers
<1>8. Sound(q, T) /\ Staged(q) /\ Freed(q, c.by)
  BY <1>3, <1>7, CoreFacts DEF Staged, Freed
<1>9. Chased(b.calls, b.attempt) => Chased(q.calls, q.attempt)
  BY <1>2, <1>3, <1>7, ChasedPops
<1>10. Retried(q, l)
  BY <1>3, <1>5, <1>7, <1>9 DEF Retried, Lasting
<1>11. /\ Sound(Ended(q, c.by), T) /\ Good(Ended(q, c.by), l)
       /\ Moved(Ended(q, c.by).jobs, q.jobs)
       /\ q.rec.on = "running" => Ended(q, c.by).rec.on = "running"
  BY <1>4, <1>8, <1>10, EndedFacts
<1> QED
  BY <1>1, <1>3, <1>5, <1>6, <1>7, <1>11 DEF Answered, WorkerOK, Disk, StaysOn

LEMMA BudgetRemovedStep ==
  ASSUME WorkerOK, Installed \subseteq Installed', BudgetRemoved
  PROVE  Answered
<1>1. PICK T, b, k, r, c : T = Installed' /\ b = bg /\ k = disk /\ r = Rest /\ c = Call
  OBVIOUS
<1>2. bg.calls # <<>> /\ c.do = "remove"
  BY <1>1 DEF BudgetRemoved, Outstanding, Call
<1>3. /\ b \in Workers /\ Retried(b, k) /\ k \in Disks /\ b.calls # <<>> /\ c = Head(b.calls)
      /\ Sound(r, T) /\ Staged(r) /\ r.calls = Tail(b.calls)
      /\ r.status = b.status /\ r.attempt = b.attempt /\ r.unarmed = b.unarmed
      /\ r.jobs = b.jobs /\ r.stage = b.stage /\ r.rec = b.rec
      /\ c \in Calls /\ Keeping(c) /\ Freed(r, c.by)
  BY <1>1, <1>2, AnswerBasics
<1>4. 0 \in 0 .. Budget /\ c.by \in {"rec", "off", "user"}
  BY <1>2, <1>3, Caps DEF Keeping
<1>5. CASE bg' = Asks(r, "clear", 0, c.by) /\ disk' = [k EXCEPT !.attempt = 0]
  <2>1. PICK l \in Disks : l = disk' /\ l.alarm = k.alarm
    BY <1>3, <1>4, <1>5 DEF Disks
  <2>2. PICK x : x = [do |-> "clear", n |-> 0, by |-> c.by]
    OBVIOUS
  <2>3. /\ x \in Calls /\ Keeping(x) /\ x.by = c.by /\ x.do = "clear" /\ x.n = 0
    BY <1>4, <2>2 DEF Calls, Keeping
  <2>4. Follows(c, x) /\ Without(r, b, c) /\ Armed(b.calls, x, k, l)
    BY <1>2, <1>3, <2>1, <2>3 DEF Follows, Without, Armed
  <2>5. Going(Asks(r, x.do, x.n, c.by), b, T, l)
    BY <1>3, <2>3, <2>4, GoesOnFacts, Zenon
  <2>6. Going(bg', b, T, l)
    BY <1>5, <2>3, <2>5
  <2> QED
    BY <1>1, <2>1, <2>6 DEF Answered, WorkerOK, Disk, StaysOn, Going
<1>6. CASE c.by = "user" /\ bg' = Finished(Blocked(r, 1)) /\ disk' = k
  <2>1. /\ r.stage = "resetting" /\ Owned(r.calls, "queued", r.rec.on)
        /\ r.rec.on = "settling" => Settles(r.calls)
    BY <1>3, <1>6 DEF Freed, Heads, Recs
  <2>2. r.jobs # <<>>
    BY <1>3, <2>1 DEF Staged
  <2>3. Sound(bg', T) /\ Good(bg', k) /\ bg'.jobs = Tail(r.jobs) /\ bg'.rec = r.rec
    BY <1>3, <1>6, <2>1, <2>2, FailedStep
  <2> QED
    BY <1>1, <1>3, <1>6, <2>2, <2>3 DEF Answered, WorkerOK, Disk, StaysOn, Moved
<1>7. CASE c.by # "user" /\ bg' = RecoveryBlocked(r) /\ disk' = k
  <2>1. r.rec.on = "settling" /\ Owned(r.calls, r.stage, "off")
    BY <1>3, <1>4, <1>7 DEF Freed, Recs
  <2>2. Sound(bg', T) /\ Good(bg', k) /\ bg'.jobs = r.jobs
    BY <1>3, <1>7, <2>1, RecoveryBlockedFacts
  <2> QED
    BY <1>1, <1>3, <1>7, <2>1, <2>2 DEF Answered, WorkerOK, Disk, StaysOn, Moved
<1> QED
  BY <1>1, <1>5, <1>6, <1>7 DEF BudgetRemoved, Fails

LEMMA AlarmClearedStep ==
  ASSUME WorkerOK, Installed \subseteq Installed', AlarmCleared
  PROVE  Answered
<1>1. PICK T, b, k, r, c : T = Installed' /\ b = bg /\ k = disk /\ r = Rest /\ c = Call
  OBVIOUS
<1>2. bg.calls # <<>> /\ c.do = "clear"
  BY <1>1 DEF AlarmCleared, Outstanding, Call
<1>3. /\ b \in Workers /\ Retried(b, k) /\ k \in Disks /\ b.calls # <<>> /\ c = Head(b.calls)
      /\ Sound(r, T) /\ Staged(r) /\ r.calls = Tail(b.calls) /\ b.calls \in Seq(Calls)
      /\ r.status = b.status /\ r.attempt = b.attempt /\ r.unarmed = b.unarmed
      /\ r.jobs = b.jobs /\ r.stage = b.stage /\ r.rec = b.rec
      /\ c \in Calls /\ Keeping(c) /\ Freed(r, c.by)
  BY <1>1, <1>2, AnswerBasics
<1>4. 0 \in 0 .. Budget /\ c.by \in {"rec", "off", "user"}
  BY <1>2, <1>3, Caps DEF Keeping
<1>5. PICK l \in Disks : l = disk' /\ l \in {k, [k EXCEPT !.alarm = 0]}
  <2>1. disk' \in {k, [k EXCEPT !.alarm = 0]}
    BY <1>1 DEF AlarmCleared, Fails
  <2> QED
    BY <1>3, <1>4, <2>1 DEF Disks
<1>6. bg' = IF c.by = "rec" THEN Asks(r, "forget", 0, "rec") ELSE Ended(r, c.by)
  BY <1>1 DEF AlarmCleared, Fails
<1>7. Chased(b.calls, b.attempt) => Chased(r.calls, r.attempt)
  BY <1>2, <1>3, ChasedPops
<1>8. Chased(b.calls, b.attempt) /\ c.by \in Recs => Schedules(r.calls)
  BY <1>2, <1>3, ClearedBehind
<1>9. CASE c.by = "rec"
  <2>1. PICK x : x = [do |-> "forget", n |-> 0, by |-> "rec"]
    OBVIOUS
  <2>2. /\ x \in Calls /\ Keeping(x) /\ x.by = c.by /\ x.do = "forget" /\ x.n = 0
    BY <1>4, <1>9, <2>1 DEF Calls, Keeping
  <2>3. PICK y : y = Asks(r, "forget", 0, "rec")
    OBVIOUS
  <2>4. CASE b.status = "retryable"
    <3>1. Schedules(Tail(b.calls))
      BY <1>3, <1>8, <1>9, <2>4 DEF Retried, Recs
    <3>2. Follows(c, x) /\ Without(r, b, c) /\ Armed(b.calls, x, k, l)
      BY <1>2, <1>3, <2>2, <3>1 DEF Follows, Without, Armed
    <3>3. Going(Asks(r, x.do, x.n, c.by), b, T, l)
      BY <1>3, <2>2, <3>2, GoesOnFacts, Zenon
    <3>4. Going(bg', b, T, l)
      BY <1>6, <1>9, <2>2, <3>3
    <3> QED
      BY <1>1, <1>5, <3>4 DEF Answered, WorkerOK, Disk, StaysOn, Going
  <2>5. CASE b.status # "retryable"
    <3>1. Retried(b, l)
      BY <2>5 DEF Retried
    <3>2. Follows(c, x) /\ Without(r, b, c) /\ Armed(b.calls, x, l, l)
      BY <1>2, <1>3, <2>2 DEF Follows, Without, Armed
    <3>3. Going(Asks(r, x.do, x.n, c.by), b, T, l)
      BY <1>3, <2>2, <3>1, <3>2, GoesOnFacts, Zenon
    <3>4. Going(bg', b, T, l)
      BY <1>6, <1>9, <2>2, <3>3
    <3> QED
      BY <1>1, <1>5, <3>4 DEF Answered, WorkerOK, Disk, StaysOn, Going
  <2> QED
    BY <2>4, <2>5
<1>10. CASE c.by = "off"
  <2>1. Retried(r, l)
    BY <1>3, <1>7, <1>8, <1>10 DEF Retried, Lasting, Recs
  <2>2. /\ Sound(Ended(r, c.by), T) /\ Good(Ended(r, c.by), l)
        /\ Moved(Ended(r, c.by).jobs, r.jobs)
        /\ r.rec.on = "running" => Ended(r, c.by).rec.on = "running"
    BY <1>3, <1>10, <2>1, EndedFacts
  <2> QED
    BY <1>1, <1>3, <1>5, <1>6, <1>10, <2>2 DEF Answered, WorkerOK, Disk, StaysOn
<1>11. CASE c.by = "user"
  <2>1. r.status = "retryable" => Chased(r.calls, r.attempt)
    BY <1>3, <1>7 DEF Retried
  <2>2. /\ Sound(Ended(r, "user"), T) /\ Good(Ended(r, "user"), l)
        /\ Moved(Ended(r, "user").jobs, r.jobs)
        /\ Ended(r, "user").rec.on = r.rec.on
    BY <1>3, <1>11, <2>1, EndedUser
  <2> QED
    BY <1>1, <1>3, <1>5, <1>6, <1>11, <2>2 DEF Answered, WorkerOK, Disk, StaysOn
<1> QED
  BY <1>4, <1>9, <1>10, <1>11

LEMMA DiagnosticClearedStep ==
  ASSUME WorkerOK, Installed \subseteq Installed', DiagnosticCleared
  PROVE  Answered
<1>1. PICK T, b, k, r, c : T = Installed' /\ b = bg /\ k = disk /\ r = Rest /\ c = Call
  OBVIOUS
<1>2. bg.calls # <<>> /\ c.do = "forget" /\ disk' = k
  BY <1>1 DEF DiagnosticCleared, Outstanding, Call
<1>3. /\ b \in Workers /\ Retried(b, k) /\ k \in Disks /\ b.calls # <<>> /\ c = Head(b.calls)
      /\ Sound(r, T) /\ Staged(r) /\ r.calls = Tail(b.calls)
      /\ r.status = b.status /\ r.attempt = b.attempt /\ r.unarmed = b.unarmed
      /\ r.jobs = b.jobs /\ r.stage = b.stage /\ r.rec = b.rec
      /\ c \in Calls /\ Keeping(c) /\ Freed(r, c.by)
  BY <1>1, <1>2, AnswerBasics
<1>4. c.by = "rec"
  BY <1>2, <1>3 DEF Keeping
<1>5. CASE bg' = Ended(r, c.by)
  <2>1. Head(b.calls).do \notin Scheduling
    BY <1>2, <1>3 DEF Scheduling
  <2>2. Retried(r, k)
    BY <1>3, <2>1, RestRetried
  <2>3. /\ Sound(Ended(r, c.by), T) /\ Good(Ended(r, c.by), k)
        /\ Moved(Ended(r, c.by).jobs, r.jobs)
        /\ r.rec.on = "running" => Ended(r, c.by).rec.on = "running"
    BY <1>3, <1>4, <2>2, EndedFacts
  <2> QED
    BY <1>1, <1>2, <1>3, <1>5, <2>3 DEF Answered, WorkerOK, Disk, StaysOn
<1>6. CASE bg' = RecoveryBlocked(r)
  <2>1. r.rec.on = "settling" /\ Owned(r.calls, r.stage, "off")
    BY <1>3, <1>4 DEF Freed, Recs
  <2>2. Sound(bg', T) /\ Good(bg', k) /\ bg'.jobs = r.jobs
    BY <1>3, <1>6, <2>1, RecoveryBlockedFacts
  <2> QED
    BY <1>1, <1>2, <1>3, <1>6, <2>1, <2>2 DEF Answered, WorkerOK, Disk, StaysOn, Moved
<1> QED
  BY <1>1, <1>5, <1>6 DEF DiagnosticCleared, Fails

LEMMA AnswersStep ==
  ASSUME WorkerOK, Installed \subseteq Installed', Answers
  PROVE  Answered
  BY ToldStep, BudgetReadStep, BudgetStoredStep, AlarmCreatedStep, BudgetRemovedStep,
     AlarmClearedStep, DiagnosticClearedStep DEF Answers
-----------------------------------------------------------------------------
(* The front document's queue q, the messages a it took and those h that   *)
(* are persisted: messages are numbered as they come, the queue holds the  *)
(* last of them, and what left it is persisted.  A report of a message is  *)
(* one of the jobs js; those before it are persisted, and while the page   *)
(* is open it is the only one and about the first of the queue.            *)
Queues == [pending : Seq(Nat), tries : 0 .. MaxSends, sending : BOOLEAN,
           blocked : BOOLEAN, stopped : BOOLEAN]

Queued(q, a, h) ==
  /\ q \in Queues /\ Len(q.pending) <= MaxQueue
  /\ Cardinality(a) \in Nat /\ a = 1 .. Cardinality(a) /\ h \subseteq a
  /\ \A m \in h, k \in a : k < m => k \in h
  /\ q.stopped => q.pending = <<>> /\ ~q.sending
  /\ ~q.stopped =>
       /\ Len(q.pending) <= Cardinality(a)
       /\ \A i \in 1 .. Len(q.pending) :
            q.pending[i] = Cardinality(a) - Len(q.pending) + i
       /\ \A m \in a : m <= Cardinality(a) - Len(q.pending) => m \in h
  /\ q.sending => q.pending # <<>> /\ ~q.blocked
  /\ q.blocked \/ q.tries < MaxSends

Reported(js, q, a, h) ==
  \A i \in 1 .. Len(js) : js[i].kind = "message" =>
    /\ js[i].of \in a /\ \A k \in a : k < js[i].of => k \in h
    /\ ~q.stopped =>
         /\ q.sending /\ js[i].of = q.pending[1]
         /\ \A j \in 1 .. Len(js) : js[j].kind = "message" => j = i

Ordered == Queued(queue, accepted, handled) /\ Reported(bg.jobs, queue, accepted, handled)

(* Reports keep their places, or all move up one.                          *)
Shifted(ks, js) ==
  \E s \in {0, 1} : \A i \in 1 .. Len(ks) :
    ks[i].kind = "message" => i + s \in 1 .. Len(js) /\ js[i + s] = ks[i]

LEMMA ShiftFacts ==
  ASSUME NEW js \in Seq(Jobs), NEW ks \in Seq(Jobs), Shifted(ks, js), NEW q, NEW a, NEW h,
         Reported(js, q, a, h)
  PROVE  Reported(ks, q, a, h)
<1>1. PICK s \in {0, 1} : \A i \in 1 .. Len(ks) :
        ks[i].kind = "message" => i + s \in 1 .. Len(js) /\ js[i + s] = ks[i]
  BY DEF Shifted
<1>2. ASSUME NEW i \in 1 .. Len(ks), ks[i].kind = "message"
      PROVE  /\ ks[i].of \in a /\ \A k \in a : k < ks[i].of => k \in h
             /\ ~q.stopped =>
                  /\ q.sending /\ ks[i].of = q.pending[1]
                  /\ \A j \in 1 .. Len(ks) : ks[j].kind = "message" => j = i
  <2>1. i + s \in 1 .. Len(js) /\ js[i + s] = ks[i]
    BY <1>1, <1>2
  <2>2. /\ ks[i].of \in a /\ \A k \in a : k < ks[i].of => k \in h
        /\ ~q.stopped =>
             /\ q.sending /\ ks[i].of = q.pending[1]
             /\ \A j \in 1 .. Len(js) : js[j].kind = "message" => j = i + s
    BY <1>2, <2>1 DEF Reported
  <2>3. ASSUME ~q.stopped, NEW j \in 1 .. Len(ks), ks[j].kind = "message"
        PROVE  j = i
    <3>1. j + s \in 1 .. Len(js) /\ js[j + s] = ks[j]
      BY <1>1, <2>3
    <3>2. j + s = i + s
      BY <2>2, <2>3, <3>1
    <3> QED
      BY <3>2
  <2> QED
    BY <2>2, <2>3
<1> QED
  BY <1>2 DEF Reported

LEMMA TailShifts ==
  ASSUME NEW js \in Seq(Jobs), js # <<>>
  PROVE  Tail(js) \in Seq(Jobs) /\ Shifted(Tail(js), js)
<1>1. \A i \in 1 .. Len(Tail(js)) : i + 1 \in 1 .. Len(js) /\ js[i + 1] = Tail(js)[i]
  OBVIOUS
<1> QED
  BY <1>1 DEF Shifted

LEMMA AlarmShifts ==
  ASSUME NEW js \in Seq(Jobs), js # <<>>, NEW x \in Jobs, x.kind # "message"
  PROVE  <<x>> \o Tail(js) \in Seq(Jobs) /\ Shifted(<<x>> \o Tail(js), js)
<1> DEFINE ks == <<x>> \o Tail(js)
<1>1. ks \in Seq(Jobs) /\ Len(ks) = Len(js) /\ ks[1] = x
  OBVIOUS
<1>2. \A i \in 2 .. Len(ks) : ks[i] = js[i]
  OBVIOUS
<1> HIDE DEF ks
<1>3. \A i \in 1 .. Len(ks) : ks[i].kind = "message" =>
        i + 0 \in 1 .. Len(js) /\ js[i + 0] = ks[i]
  BY <1>1, <1>2
<1>4. Shifted(ks, js)
  BY <1>3 DEF Shifted
<1> QED
  BY <1>1, <1>4 DEF ks

LEMMA GrownShifts ==
  ASSUME NEW js \in Seq(Jobs), NEW ks \in Seq(Jobs), Grown(ks, js)
  PROVE  Shifted(ks, js)
<1>1. \A i \in 1 .. Len(ks) : ks[i].kind = "message" =>
        i + 0 \in 1 .. Len(js) /\ js[i + 0] = ks[i]
  BY DEF Grown
<1> QED
  BY <1>1 DEF Shifted

(* The page is told that its message is not acknowledged.                  *)
LEMMA NackedFacts ==
  ASSUME NEW q, NEW a, NEW h, Queued(q, a, h)
  PROVE  Queued(Nacked(q), a, h) /\ ~Nacked(q).sending /\ Nacked(q).stopped = q.stopped
<1>1. q \in Queues
  BY DEF Queued
<1>2. CASE ~q.sending
  BY <1>1, <1>2 DEF Nacked
<1>3. CASE q.sending
  <2>1. q.tries \in Nat /\ MaxSends \in Nat /\ q.tries < MaxSends /\ q.pending \in Seq(Nat)
    BY <1>1, <1>3, Caps DEF Queued, Queues
  <2>2. PICK t \in 0 .. MaxSends : t = q.tries + 1
    BY <2>1
  <2>3. PICK k : k = (q.tries + 1 = MaxSends)
    OBVIOUS
  <2>4. k \in BOOLEAN /\ (k \/ t < MaxSends)
    <3>1. k \in BOOLEAN /\ (~k => q.tries + 1 # MaxSends)
      BY <2>3, Zenon
    <3>2. t # MaxSends => t < MaxSends
      BY <2>1, <2>2
    <3> QED
      BY <2>2, <3>1, <3>2
  <2>5. PICK r : r = Nacked(q)
    OBVIOUS
  <2>6. r = [q EXCEPT !.tries = t, !.sending = FALSE, !.blocked = k]
    BY <1>3, <2>2, <2>3, <2>5 DEF Nacked
  <2>7. /\ r \in Queues /\ r.pending = q.pending /\ r.tries = t /\ r.sending = FALSE
        /\ r.blocked = k /\ r.stopped = q.stopped
    BY <1>1, <2>4, <2>6 DEF Queues
  <2> QED
    BY <2>4, <2>5, <2>7 DEF Queued
<1> QED
  BY <1>2, <1>3

(* The message behind those already persisted is persisted.                *)
LEMMA PersistFacts ==
  ASSUME NEW q, NEW a, NEW h, Queued(q, a, h), NEW m \in a, \A k \in a : k < m => k \in h
  PROVE  Queued(q, a, h \cup {m})
<1>1. a = 1 .. Cardinality(a) /\ Cardinality(a) \in Nat /\ h \subseteq a
  BY DEF Queued
<1>2. ASSUME NEW n \in h \cup {m}, NEW k \in a, k < n
      PROVE  k \in h \cup {m}
  BY <1>2 DEF Queued
<1> QED
  BY <1>1, <1>2 DEF Queued

LEMMA AckedFacts ==
  ASSUME NEW q, NEW a, NEW h, Queued(q, a, h), NEW m \in a, \A k \in a : k < m => k \in h,
         ~q.stopped => q.sending /\ m = q.pending[1]
  PROVE  /\ Queued(Acked(q), a, h \cup {m}) /\ ~Acked(q).sending
         /\ Acked(q).stopped = q.stopped
<1>1. Queued(q, a, h \cup {m}) /\ q \in Queues
  BY PersistFacts DEF Queued
<1>2. CASE ~q.sending
  BY <1>1, <1>2 DEF Acked
<1>3. CASE q.sending
  <2>1. q.pending \in Seq(Nat) /\ q.pending # <<>> /\ ~q.stopped /\ 0 \in 0 .. MaxSends
          /\ 0 < MaxSends
    BY <1>1, <1>3, Caps DEF Queued, Queues
  <2>2. PICK ms : ms = Tail(q.pending)
    OBVIOUS
  <2>3. /\ ms \in Seq(Nat) /\ Len(ms) = Len(q.pending) - 1 /\ Len(ms) \in Nat
        /\ \A i \in 1 .. Len(ms) : ms[i] = q.pending[i + 1] /\ i + 1 \in 1 .. Len(q.pending)
    BY <2>1, <2>2
  <2>4. PICK r : r = Acked(q)
    OBVIOUS
  <2>5. r = [q EXCEPT !.pending = ms, !.tries = 0, !.sending = FALSE]
    BY <1>3, <2>2, <2>4 DEF Acked
  <2>6. /\ r \in Queues /\ r.pending = ms /\ r.tries = 0 /\ r.sending = FALSE
        /\ r.blocked = q.blocked /\ r.stopped = q.stopped
    BY <1>1, <2>1, <2>3, <2>5 DEF Queues
  <2>7. PICK n \in Nat : n = Cardinality(a)
    BY DEF Queued
  <2>8. PICK l \in Nat : l = Len(q.pending)
    BY <2>1
  <2>9. /\ l <= n /\ l <= MaxQueue /\ a = 1 .. n
        /\ \A i \in 1 .. l : q.pending[i] = n - l + i
        /\ \A k \in a : k <= n - l => k \in h
    BY <2>1, <2>7, <2>8 DEF Queued
  <2>10. m = n - l + 1
    <3>1. 1 \in 1 .. l
      BY <2>1, <2>8
    <3> QED
      BY <2>1, <2>9, <3>1
  <2>11. ASSUME NEW i \in 1 .. Len(ms) PROVE ms[i] = n - Len(ms) + i
    <3>1. Len(ms) = l - 1 /\ i \in Nat /\ i + 1 \in 1 .. l /\ ms[i] = q.pending[i + 1]
      BY <2>3, <2>8
    <3>2. q.pending[i + 1] = n - l + (i + 1)
      BY <2>9, <3>1
    <3> QED
      BY <3>1, <3>2
  <2>12. ASSUME NEW k \in a, k <= n - Len(ms) PROVE k \in h \cup {m}
    <3>1. Len(ms) = l - 1 /\ k \in Nat
      BY <2>3, <2>8, <2>9
    <3>2. k <= n - l \/ k = m
      BY <2>10, <2>12, <3>1
    <3> QED
      BY <2>9, <3>2
  <2>13. Len(ms) <= n /\ Len(ms) <= MaxQueue
    BY <2>3, <2>8, <2>9, Caps
  <2>14. /\ Cardinality(a) \in Nat /\ a = 1 .. Cardinality(a) /\ h \cup {m} \subseteq a
         /\ \A i \in h \cup {m}, k \in a : k < i => k \in h \cup {m}
    BY <1>1 DEF Queued
  <2>15. Queued(r, a, h \cup {m})
    BY <2>1, <2>6, <2>7, <2>11, <2>12, <2>13, <2>14 DEF Queued
  <2> QED
    BY <2>4, <2>6, <2>15
<1> QED
  BY <1>2, <1>3

(* The head of the jobs reported a message: it is answered.                *)
LEMMA ReportedHead ==
  ASSUME NEW js \in Seq(Jobs), js # <<>>, js[1].kind = "message", NEW q, NEW a, NEW h,
         Reported(js, q, a, h), NEW r, r.stopped = q.stopped, NEW g, h \subseteq g
  PROVE  Reported(Tail(js), r, a, g)
<1>1. /\ 1 \in 1 .. Len(js) /\ Len(js) \in Nat
      /\ \A i \in 1 .. Len(Tail(js)) : i + 1 \in 1 .. Len(js) /\ Tail(js)[i] = js[i + 1]
  OBVIOUS
<1>2. ~q.stopped => \A i \in 1 .. Len(Tail(js)) : Tail(js)[i].kind # "message"
  <2>1. ASSUME ~q.stopped, NEW i \in 1 .. Len(Tail(js)), Tail(js)[i].kind = "message"
        PROVE  FALSE
    <3>1. i + 1 \in 1 .. Len(js) /\ js[i + 1].kind = "message" /\ i + 1 # 1
      BY <1>1, <2>1
    <3>2. \A j \in 1 .. Len(js) : js[j].kind = "message" => j = 1
      BY <1>1, <2>1 DEF Reported
    <3> QED
      BY <3>1, <3>2
  <2> QED
    BY <2>1
<1>3. \A i \in 1 .. Len(Tail(js)) : Tail(js)[i].kind = "message" =>
        Tail(js)[i].of \in a /\ \A k \in a : k < Tail(js)[i].of => k \in g
  BY <1>1 DEF Reported
<1> QED
  BY <1>2, <1>3 DEF Reported

(* A message is queued behind the others.                                  *)
LEMMA EnqueueFacts ==
  ASSUME NEW q, NEW a, NEW h, Queued(q, a, h), ~q.blocked, ~q.stopped,
         Len(q.pending) < MaxQueue,
         NEW m, m = Cardinality(a) + 1, NEW js, Reported(js, q, a, h)
  PROVE  /\ Queued([q EXCEPT !.pending = Append(q.pending, m)], a \cup {m}, h)
         /\ Reported(js, [q EXCEPT !.pending = Append(q.pending, m)], a \cup {m}, h)
<1>1. PICK n \in Nat : n = Cardinality(a)
  BY DEF Queued
<1>2. /\ q \in Queues /\ q.pending \in Seq(Nat) /\ a = 1 .. n /\ h \subseteq a
      /\ m = n + 1 /\ Len(q.pending) \in Nat /\ MaxQueue \in Nat
  BY <1>1, Caps DEF Queued, Queues
<1>3. PICK l \in Nat : l = Len(q.pending)
  BY <1>2
<1>4. PICK b : b = a \cup {m}
  OBVIOUS
<1>5. b = 1 .. n + 1 /\ Cardinality(b) = n + 1 /\ n + 1 \in Nat
  <2>1. b = 1 .. n + 1
    BY <1>2, <1>4
  <2> QED
    BY <2>1, FS_Interval
<1>6. PICK ms : ms = Append(q.pending, m)
  OBVIOUS
<1>7. /\ ms \in Seq(Nat) /\ Len(ms) = l + 1 /\ ms[l + 1] = m
      /\ \A i \in 1 .. l : ms[i] = q.pending[i]
  BY <1>2, <1>3, <1>6
<1>8. PICK r : r = [q EXCEPT !.pending = ms]
  OBVIOUS
<1>9. /\ r \in Queues /\ r.pending = ms /\ r.tries = q.tries /\ r.sending = q.sending
      /\ r.blocked = q.blocked /\ r.stopped = q.stopped
  BY <1>2, <1>7, <1>8 DEF Queues
<1>10. /\ l <= n /\ l + 1 <= MaxQueue /\ \A i \in 1 .. l : q.pending[i] = n - l + i
       /\ \A k \in a : k <= n - l => k \in h
       /\ \A i \in h, k \in a : k < i => k \in h
       /\ q.sending => l > 0
       /\ q.blocked \/ q.tries < MaxSends
  BY <1>1, <1>2, <1>3 DEF Queued
<1>11. \A i \in 1 .. Len(ms) : ms[i] = (n + 1) - Len(ms) + i
  <2>1. ASSUME NEW i \in 1 .. Len(ms)
        PROVE  ms[i] = (n + 1) - Len(ms) + i
    <3>1. CASE i = l + 1
      BY <1>2, <1>7, <3>1
    <3>2. CASE i # l + 1
      <4>1. i \in 1 .. l
        BY <1>7, <3>2
      <4> QED
        BY <1>7, <1>10, <4>1
    <3> QED
      BY <3>1, <3>2
  <2> QED
    BY <2>1
<1>12. /\ \A k \in b : k <= (n + 1) - Len(ms) => k \in h
       /\ \A i \in h, k \in b : k < i => k \in h
       /\ h \subseteq b /\ Len(ms) <= n + 1 /\ Len(ms) <= MaxQueue
  BY <1>2, <1>5, <1>7, <1>10
<1>13. ms # <<>>
  BY <1>7
<1>14. Queued(r, b, h)
  BY <1>5, <1>9, <1>10, <1>11, <1>12, <1>13 DEF Queued
<1>15. Reported(js, r, b, h)
  <2>1. ASSUME NEW i \in 1 .. Len(js), js[i].kind = "message"
        PROVE  /\ js[i].of \in b /\ \A k \in b : k < js[i].of => k \in h
               /\ r.sending /\ js[i].of = r.pending[1]
               /\ \A j \in 1 .. Len(js) : js[j].kind = "message" => j = i
    <3>1. /\ js[i].of \in a /\ \A k \in a : k < js[i].of => k \in h
          /\ q.sending /\ js[i].of = q.pending[1]
          /\ \A j \in 1 .. Len(js) : js[j].kind = "message" => j = i
      BY <2>1 DEF Reported
    <3>2. ms[1] = q.pending[1]
      BY <1>7, <1>10, <3>1
    <3>3. \A k \in b : k < js[i].of => k \in h
      BY <1>2, <1>5, <3>1
    <3> QED
      BY <1>4, <1>9, <3>1, <3>2, <3>3
  <2> QED
    BY <2>1 DEF Reported
<1> QED
  BY <1>4, <1>6, <1>8, <1>14, <1>15

LEMMA SendFacts ==
  ASSUME NEW q, NEW a, NEW h, Queued(q, a, h), q.pending # <<>>, ~q.sending, ~q.blocked,
         NEW js \in Seq(Jobs), Reported(js, q, a, h),
         NEW ks, ks = Append(js, Job("message", Head(q.pending)))
  PROVE  /\ Job("message", Head(q.pending)) \in Jobs
         /\ Queued([q EXCEPT !.sending = TRUE], a, h)
         /\ Reported(ks, [q EXCEPT !.sending = TRUE], a, h)
<1>1. PICK n \in Nat : n = Cardinality(a)
  BY DEF Queued
<1>2. q \in Queues /\ q.pending \in Seq(Nat) /\ ~q.stopped /\ a = 1 .. n
  BY <1>1 DEF Queued, Queues
<1>3. PICK l \in Nat : l = Len(q.pending)
  BY <1>2
<1>4. PICK r : r = [q EXCEPT !.sending = TRUE]
  OBVIOUS
<1>5. /\ r \in Queues /\ r.pending = q.pending /\ r.tries = q.tries /\ r.sending = TRUE
      /\ r.blocked = q.blocked /\ r.stopped = q.stopped
  BY <1>2, <1>4 DEF Queues
<1>6. Queued(r, a, h)
  BY <1>2, <1>5 DEF Queued
<1>7. PICK m \in Nat : m = q.pending[1] /\ m = Head(q.pending)
  BY <1>2
<1>8. Job("message", m) \in Jobs
  BY DEF Job, Jobs
<1>9. /\ l > 0 /\ l <= n /\ \A i \in 1 .. l : q.pending[i] = n - l + i
      /\ \A k \in a : k <= n - l => k \in h
  BY <1>1, <1>2, <1>3 DEF Queued
<1>10. m \in a /\ \A k \in a : k < m => k \in h
  <2>1. m = n - l + 1
    BY <1>7, <1>9
  <2> QED
    BY <1>2, <1>9, <2>1
<1>11. \A i \in 1 .. Len(js) : js[i].kind # "message"
  BY <1>2 DEF Reported
<1>12. Len(js) \in Nat /\ Len(ks) = Len(js) + 1 /\ ks[Len(ks)] = Job("message", m)
         /\ \A i \in 1 .. Len(js) : ks[i] = js[i]
  BY <1>7, <1>8
<1>13. \A i \in 1 .. Len(ks) : ks[i].kind = "message" => i = Len(ks)
  BY <1>11, <1>12
<1>14. ks[Len(ks)].of = m
  BY <1>12 DEF Job
<1>15. Reported(ks, r, a, h)
  <2>1. ASSUME NEW i \in 1 .. Len(ks), ks[i].kind = "message"
        PROVE  /\ ks[i].of = m
               /\ \A j \in 1 .. Len(ks) : ks[j].kind = "message" => j = i
    BY <1>13, <1>14, <2>1
  <2> QED
    BY <1>5, <1>7, <1>10, <2>1 DEF Reported
<1> QED
  BY <1>4, <1>6, <1>7, <1>8, <1>15

(* The page leaves: its queue goes with it.                                *)
LEMMA StoppedFacts ==
  ASSUME NEW q, NEW a, NEW h, Queued(q, a, h), NEW js, Reported(js, q, a, h)
  PROVE  /\ Queued([NoQueue EXCEPT !.stopped = TRUE], a, h)
         /\ Reported(js, [NoQueue EXCEPT !.stopped = TRUE], a, h)
<1>1. PICK r : r = [NoQueue EXCEPT !.stopped = TRUE]
  OBVIOUS
<1>2. /\ r.pending = <<>> /\ r.sending = FALSE /\ r.tries = 0 /\ r.stopped = TRUE
      /\ r.blocked = FALSE /\ r \in Queues
  <2>1. 0 \in 0 .. MaxSends
    BY Caps
  <2>2. r = [pending |-> <<>>, tries |-> 0, sending |-> FALSE, blocked |-> FALSE,
             stopped |-> TRUE]
    BY <1>1 DEF NoQueue
  <2> QED
    BY <2>1, <2>2 DEF Queues
<1>3. MaxSends > 0 /\ MaxQueue >= 0
  BY Caps
<1>4. Queued(r, a, h)
  BY <1>2, <1>3 DEF Queued
<1>5. Reported(js, r, a, h)
  BY <1>2 DEF Reported
<1> QED
  BY <1>1, <1>4, <1>5
-----------------------------------------------------------------------------
(* Every step keeps the worker and the queue.                              *)

(* Calm actions append jobs and leave the rest of the worker alone.        *)
LEMMA CalmWorker ==
  ASSUME PagesOK, WorkerOK, Installed \subseteq Installed', CalmAction
  PROVE  WorkerOK' /\ StaysOn /\ Shifted(bg'.jobs, bg.jobs) /\ bg'.jobs \in Seq(Jobs)
<1>1. PICK T : T = Installed'
  OBVIOUS
<1>2. PICK b, r : b = bg /\ r = bg'
  OBVIOUS
<1>3. PICK k : k = disk
  OBVIOUS
<1>4. b \in Workers /\ k \in Disks /\ Staged(b) /\ Good(b, k) /\ Sound(bg, Installed)
  BY <1>2, <1>3, WorkerBasics DEF WorkerOK
<1>5. Sound(r, T) /\ Calm(r, b) /\ r \in Workers
  <2>1. Sound(bg, Installed)' /\ Calm(bg', bg)
    BY <1>4, CalmStep
  <2> QED
    BY <1>1, <1>2, <2>1 DEF Sound
<1>6. Good(r, k)
  BY <1>4, <1>5, CalmKeeps
<1>7. StaysOn
  BY <1>2, <1>5 DEF StaysOn, Calm
<1>8. Shifted(r.jobs, b.jobs) /\ r.jobs \in Seq(Jobs) /\ b.jobs \in Seq(Jobs)
  BY <1>4, <1>5, WorkerParts, GrownShifts DEF Calm
<1>9. CASE AlarmFires
  <2>1. disk' = [k EXCEPT !.alarm = 0] /\ r = Schedule(Reset(b), "alarm", Front)
    BY <1>2, <1>3, <1>9 DEF AlarmFires
  <2>2. disk' \in Disks
    BY <1>4, <2>1, Caps DEF Disks
  <2>3. PICK c : c = Reset(b)
    OBVIOUS
  <2>4. Sound(c, T) /\ Calm(c, b) /\ c.jobs = b.jobs
    <3>1. Sound(b, T)
      BY <1>1, <1>2, WorkerBasics
    <3> QED
      BY <2>3, <3>1, ControlFacts
  <2>5. r.jobs = Append(b.jobs, Job("alarm", Front)) /\ r.stage = b.stage
    <3>1. r = Schedule(c, "alarm", Front)
      BY <2>1, <2>3
    <3>2. Job("alarm", Front) \in Jobs
      BY KindTypes, Caps DEF Kinds
    <3>3. r.jobs = Append(c.jobs, Job("alarm", Front)) /\ r.stage = c.stage
      BY <2>4, <3>1, <3>2, ScheduleFacts
    <3> QED
      BY <2>4, <3>3 DEF Calm
  <2>6. PICK i \in 1 .. Len(r.jobs) : i = Len(b.jobs) + 1
    BY <1>8, <2>5
  <2>7. r.jobs[i].kind = "alarm"
    BY <1>8, <2>5, <2>6 DEF Job
  <2>8. r.stage = "recovering" => i \in 2 .. Len(r.jobs)
    BY <1>4, <1>8, <2>5, <2>6 DEF Staged
  <2>9. Pending(r.jobs, IF r.stage = "recovering" THEN 2 ELSE 1)
    BY <2>6, <2>7, <2>8 DEF Pending
  <2>10. Good(r, disk')
    BY <1>6, <2>9 DEF Good, Retried
  <2> QED
    BY <1>1, <1>2, <1>5, <1>7, <1>8, <2>2, <2>10 DEF WorkerOK, Disk
<1>10. CASE ~AlarmFires
  <2>1. disk' = k
    BY <1>3, <1>10 DEF CalmAction, UserActs, Loads, Installs, Commits, ChangesState, Closes,
       Injects, ReadyTimesOut
  <2> QED
    BY <1>1, <1>2, <1>4, <1>5, <1>6, <1>7, <1>8, <2>1 DEF WorkerOK, Disk
<1> QED
  BY <1>9, <1>10

LEMMA SendsStep ==
  ASSUME WorkerOK, Ordered, Installed \subseteq Installed', Sends
  PROVE  WorkerOK' /\ StaysOn /\ Ordered'
<1>1. PICK T : T = Installed'
  OBVIOUS
<1>2. PICK b, k, q : b = bg /\ k = disk /\ q = queue
  OBVIOUS
<1>3. PICK a, h : a = accepted /\ h = handled
  OBVIOUS
<1>4. /\ Sound(b, T) /\ b \in Workers /\ k \in Disks /\ Good(b, k)
      /\ b.jobs \in Seq(Jobs)
  BY <1>1, <1>2, WorkerBasics, WorkerParts
<1>5. PICK m : m = Head(q.pending)
  OBVIOUS
<1>6. PICK r : r = Schedule(b, "message", m)
  OBVIOUS
<1>7. PICK ks : ks = Append(b.jobs, Job("message", m))
  OBVIOUS
<1>8. PICK p : p = [q EXCEPT !.sending = TRUE]
  OBVIOUS
<1>9. /\ bg' = r /\ disk' = k /\ queue' = p /\ accepted' = a /\ handled' = h
      /\ q.pending # <<>> /\ ~q.sending /\ ~q.blocked
  BY <1>2, <1>3, <1>5, <1>6, <1>8 DEF Sends
<1>10. Queued(q, a, h) /\ Reported(b.jobs, q, a, h)
  BY <1>2, <1>3 DEF Ordered
<1>11. Job("message", m) \in Jobs /\ Queued(p, a, h) /\ Reported(ks, p, a, h)
  BY <1>4, <1>5, <1>7, <1>8, <1>9, <1>10, SendFacts
<1>12. /\ Sound(r, T) /\ r.jobs = ks /\ r.status = b.status /\ Held(r, b)
       /\ r.stage = b.stage /\ r.rec = b.rec
  BY <1>4, <1>6, <1>7, <1>11, ScheduleFacts
<1>13. Len(b.jobs) \in Nat /\ Len(ks) = Len(b.jobs) + 1
         /\ \A i \in 1 .. Len(b.jobs) : ks[i] = b.jobs[i]
  BY <1>4, <1>7, <1>11
<1>14. Staged(r)
  <2>1. b.jobs # <<>> => ks # <<>> /\ ks[1] = b.jobs[1]
    BY <1>4, <1>13
  <2> QED
    BY <1>4, <1>12, <2>1 DEF Good, Staged
<1>15. Retried(r, k)
  <2>1. \A n \in {1, 2} : \A i \in n .. Len(b.jobs) : i \in n .. Len(ks) /\ ks[i] = b.jobs[i]
    BY <1>13
  <2>2. \A n \in {1, 2} : Pending(b.jobs, n) => Pending(ks, n)
    BY <2>1 DEF Pending
  <2> QED
    BY <1>4, <1>12, <2>2 DEF Good, Retried, Lasting, Underway
<1>16. Good(r, k)
  BY <1>4, <1>12, <1>14, <1>15 DEF Good, Tied
<1> QED
  BY <1>1, <1>2, <1>4, <1>9, <1>11, <1>12, <1>16 DEF WorkerOK, Disk, StaysOn, Ordered

LEMMA EnqueuesStep ==
  ASSUME WorkerOK, Ordered, Installed \subseteq Installed', Enqueues
  PROVE  WorkerOK' /\ StaysOn /\ Ordered'
<1>1. PICK T : T = Installed'
  OBVIOUS
<1>2. bg' = bg /\ disk' = disk /\ handled' = handled
  BY DEF Enqueues
<1>3. WorkerOK' /\ StaysOn
  <2>1. Sound(bg, T) /\ Disk /\ Good(bg, disk)
    BY <1>1, WorkerBasics
  <2> QED
    BY <1>1, <1>2, <2>1 DEF WorkerOK, Disk, StaysOn
<1>4. CASE UNCHANGED <<queue, accepted>>
  BY <1>2, <1>3, <1>4 DEF Ordered
<1>5. CASE ~UNCHANGED <<queue, accepted>>
  <2>1. PICK q, a, h, js : q = queue /\ a = accepted /\ h = handled /\ js = bg.jobs
    OBVIOUS
  <2>2. PICK m : m = Cardinality(a) + 1
    OBVIOUS
  <2>3. /\ queue' = [q EXCEPT !.pending = Append(q.pending, m)] /\ accepted' = a \cup {m}
        /\ ~q.blocked /\ ~q.stopped /\ ~(Len(q.pending) >= MaxQueue)
    BY <1>5, <2>1, <2>2 DEF Enqueues, Full
  <2>4. Queued(q, a, h) /\ Reported(js, q, a, h)
    BY <2>1 DEF Ordered
  <2>5. Len(q.pending) < MaxQueue
    BY <2>3, <2>4, Caps DEF Queued, Queues
  <2>6. /\ Queued([q EXCEPT !.pending = Append(q.pending, m)], a \cup {m}, h)
        /\ Reported(js, [q EXCEPT !.pending = Append(q.pending, m)], a \cup {m}, h)
    BY <2>2, <2>3, <2>4, <2>5, EnqueueFacts
  <2> QED
    BY <1>2, <1>3, <2>1, <2>3, <2>6 DEF Ordered
<1> QED
  BY <1>4, <1>5

LEMMA AnsweredStep ==
  ASSUME WorkerOK, Ordered, HandlesMessage, bg'.jobs = Tail(bg.jobs)
  PROVE  Ordered'
<1>1. PICK q, a, h, js : q = queue /\ a = accepted /\ h = handled /\ js = bg.jobs
  OBVIOUS
<1>2. PICK m : m = Current.of
  OBVIOUS
<1>3. /\ js \in Seq(Jobs) /\ js # <<>> /\ js[1].kind = "message" /\ js[1].of = m
  <2>1. bg.jobs \in Seq(Jobs) /\ bg.jobs # <<>>
    BY WorkerParts DEF WorkerOK, Sound, HandlesMessage, Running
  <2>2. Current = bg.jobs[1]
    BY <2>1 DEF Current
  <2> QED
    BY <1>1, <1>2, <2>1, <2>2 DEF HandlesMessage
<1>4. Queued(q, a, h) /\ Reported(js, q, a, h) /\ 1 \in 1 .. Len(js)
  BY <1>1, <1>3 DEF Ordered
<1>5. /\ m \in a /\ \A k \in a : k < m => k \in h
      /\ ~q.stopped => q.sending /\ m = q.pending[1]
  BY <1>3, <1>4 DEF Reported
<1>6. accepted' = a /\ h \subseteq h \cup {m}
  BY <1>1 DEF HandlesMessage
<1>7. CASE queue' = Acked(q) /\ handled' = h \cup {m}
  <2>1. PICK r : r = Acked(q)
    OBVIOUS
  <2>2. Queued(r, a, h \cup {m}) /\ r.stopped = q.stopped
    BY <1>4, <1>5, <2>1, AckedFacts
  <2>3. Reported(Tail(js), r, a, h \cup {m})
    BY <1>3, <1>4, <1>6, <2>2, ReportedHead
  <2> QED
    BY <1>1, <1>6, <1>7, <2>1, <2>2, <2>3 DEF Ordered
<1>8. CASE queue' = Nacked(q) /\ handled' \in {h, h \cup {m}}
  <2>1. PICK r : r = Nacked(q)
    OBVIOUS
  <2>2. PICK g : g = handled' /\ g \in {h, h \cup {m}} /\ h \subseteq g
    BY <1>8
  <2>3. Queued(q, a, g)
    BY <1>4, <1>5, <2>2, PersistFacts
  <2>4. Queued(r, a, g) /\ r.stopped = q.stopped
    BY <2>1, <2>3, NackedFacts
  <2>5. Reported(Tail(js), r, a, g)
    BY <1>3, <1>4, <2>2, <2>4, ReportedHead
  <2> QED
    BY <1>1, <1>6, <1>8, <2>1, <2>2, <2>4, <2>5 DEF Ordered
<1> QED
  BY <1>1, <1>2, <1>7, <1>8 DEF HandlesMessage

LEMMA SkippedStep ==
  ASSUME WorkerOK, Ordered, InitFails,
         bg'.jobs = IF Running("initializing") THEN Tail(bg.jobs) ELSE bg.jobs
  PROVE  Ordered'
<1>1. PICK q, a, h, js : q = queue /\ a = accepted /\ h = handled /\ js = bg.jobs
  OBVIOUS
<1>2. /\ js \in Seq(Jobs) /\ Queued(q, a, h) /\ Reported(js, q, a, h)
      /\ accepted' = a /\ handled' = h
  BY <1>1, WorkerParts DEF WorkerOK, Sound, Ordered, InitFails
<1>3. Running("initializing") => js # <<>> /\ Current = js[1]
  BY <1>1, <1>2 DEF Running, Current
<1>4. CASE Running("initializing") /\ js[1].kind = "message"
  <2>1. PICK r : r = Nacked(q)
    OBVIOUS
  <2>2. queue' = r
    BY <1>1, <1>3, <1>4, <2>1 DEF InitFails, Skipped
  <2>3. Queued(r, a, h) /\ r.stopped = q.stopped
    BY <1>2, <2>1, NackedFacts
  <2>4. Reported(Tail(js), r, a, h)
    BY <1>2, <1>3, <1>4, <2>3, ReportedHead
  <2> QED
    BY <1>1, <1>2, <1>4, <2>2, <2>3, <2>4 DEF Ordered
<1>5. CASE Running("initializing") /\ js[1].kind # "message"
  <2>1. queue' = q
    BY <1>1, <1>3, <1>5 DEF InitFails, Skipped
  <2>2. Reported(Tail(js), q, a, h)
    BY <1>2, <1>3, <1>5, TailShifts, ShiftFacts
  <2> QED
    BY <1>1, <1>2, <1>5, <2>1, <2>2 DEF Ordered
<1>6. CASE ~Running("initializing")
  BY <1>1, <1>2, <1>6 DEF InitFails, Skipped, Ordered
<1> QED
  BY <1>4, <1>5, <1>6

LEMMA RestartedStep ==
  ASSUME Ordered, Restarts, bg'.jobs = <<>>
  PROVE  Ordered'
<1>1. PICK q, a, h : q = queue /\ a = accepted /\ h = handled
  OBVIOUS
<1>2. PICK r : r = Nacked(q)
  OBVIOUS
<1>3. queue' = r /\ accepted' = a /\ handled' = h /\ Queued(q, a, h)
  BY <1>1, <1>2 DEF Restarts, Ordered
<1>4. Queued(r, a, h)
  BY <1>2, <1>3, NackedFacts
<1>5. Reported(<<>>, r, a, h)
  BY DEF Reported
<1> QED
  BY <1>3, <1>4, <1>5 DEF Ordered

(* The jobs move up or grow by other jobs, and the queue is as it was or   *)
(* goes with its page.                                                     *)
LEMMA KeptStep ==
  ASSUME Ordered, bg.jobs \in Seq(Jobs), bg'.jobs \in Seq(Jobs), Shifted(bg'.jobs, bg.jobs),
         UNCHANGED <<accepted, handled>>,
         queue' = queue \/ queue' = [NoQueue EXCEPT !.stopped = TRUE]
  PROVE  Ordered'
<1>1. PICK q, a, h : q = queue /\ a = accepted /\ h = handled
  OBVIOUS
<1>2. PICK js, ks : js = bg.jobs /\ ks = bg'.jobs
  OBVIOUS
<1>3. Queued(q, a, h) /\ Reported(js, q, a, h)
  BY <1>1, <1>2 DEF Ordered
<1>4. Reported(ks, q, a, h)
  BY <1>2, <1>3, ShiftFacts
<1>5. /\ Queued([NoQueue EXCEPT !.stopped = TRUE], a, h)
      /\ Reported(ks, [NoQueue EXCEPT !.stopped = TRUE], a, h)
  BY <1>3, <1>4, StoppedFacts
<1> QED
  BY <1>1, <1>2, <1>3, <1>4, <1>5 DEF Ordered

LEMMA WorkerStep ==
  ASSUME PagesOK, WorkerOK, Ordered, Installed \subseteq Installed', Next
  PROVE  /\ WorkerOK' /\ Ordered'
         /\ StaysOn \/ RecoveryStarts \/ RecoveryEnds \/ Restarts
<1>1. bg.jobs \in Seq(Jobs) /\ Shifted(bg.jobs, bg.jobs)
        /\ (bg.jobs # <<>> => bg.jobs[1] \in Jobs /\ Current = bg.jobs[1])
  <2>1. PICK js : js = bg.jobs
    OBVIOUS
  <2>2. js \in Seq(Jobs)
    BY <2>1, WorkerParts DEF WorkerOK, Sound
  <2>3. Shifted(js, js)
    BY <2>2, GrownSame, GrownShifts
  <2> QED
    BY <2>1, <2>2, <2>3, WorkerBasics
<1>2. CASE CalmAction
  <2>1. WorkerOK' /\ StaysOn /\ Shifted(bg'.jobs, bg.jobs) /\ bg'.jobs \in Seq(Jobs)
    BY <1>2, CalmWorker
  <2>2. /\ UNCHANGED <<accepted, handled>>
        /\ queue' = queue \/ queue' = [NoQueue EXCEPT !.stopped = TRUE]
    BY <1>2 DEF CalmAction, AlarmFires, UserActs, Loads, Installs, Commits, ChangesState,
       Closes, Injects, ReadyTimesOut
  <2> QED
    BY <1>1, <2>1, <2>2, KeptStep
<1>3. CASE Sends
  BY <1>3, SendsStep
<1>4. CASE Enqueues
  BY <1>4, EnqueuesStep
<1>5. CASE HandlesMessage
  BY <1>5, HandlesMessageStep, AnsweredStep
<1>6. CASE InitFails
  BY <1>6, InitFailsStep, SkippedStep
<1>7. CASE Restarts
  BY <1>7, RestartsStep, RestartedStep
<1>8. CASE JobStarts \/ RequestsRecovery \/ InitSucceeds \/ RecoveryStarts \/ RecoveryEnds
  <2>1. WorkerOK' /\ bg'.jobs = bg.jobs
          /\ (StaysOn \/ RecoveryStarts \/ RecoveryEnds)
    BY <1>8, JobStartsStep, RequestsRecoveryStep, InitSucceedsStep, RecoveryStep
  <2>2. UNCHANGED <<accepted, handled, queue>>
    BY <1>8 DEF JobStarts, RequestsRecovery, InitSucceeds, RecoveryStarts, RecoveryEnds
  <2> QED
    BY <1>1, <2>1, <2>2, KeptStep
<1>9. CASE JobRecovered \/ InjectionEnds \/ Reduces \/ ObeysUser
  <2>1. WorkerOK' /\ StaysOn /\ bg'.jobs \in {bg.jobs, Tail(bg.jobs)}
    BY <1>9, JobRecoveredStep, InjectionEndsStep, ReducesStep, ObeysUserStep
  <2>2. UNCHANGED <<accepted, handled, queue>> /\ bg.jobs # <<>>
    BY <1>9 DEF JobRecovered, InjectionEnds, Reduces, ObeysUser, Running
  <2>3. Shifted(bg'.jobs, bg.jobs) /\ bg'.jobs \in Seq(Jobs)
    BY <1>1, <2>1, <2>2, TailShifts
  <2> QED
    BY <1>1, <2>1, <2>2, <2>3, KeptStep
<1>10. CASE Answers
  <2>1. WorkerOK' /\ StaysOn /\ Moved(bg'.jobs, bg.jobs)
    BY <1>10, AnswersStep DEF Answered
  <2>2. UNCHANGED <<accepted, handled, queue>>
    BY <1>10 DEF Answers
  <2>3. Job("alarm", Front) \in Jobs /\ Job("alarm", Front).kind # "message"
    <3>1. Job("alarm", Front) \in Jobs
      BY KindTypes, Caps DEF Kinds
    <3> QED
      BY <3>1 DEF Job
  <2>4. Shifted(bg'.jobs, bg.jobs) /\ bg'.jobs \in Seq(Jobs)
    BY <1>1, <2>1, <2>3, TailShifts, AlarmShifts DEF Moved
  <2> QED
    BY <1>1, <2>1, <2>2, <2>4, KeptStep
<1> QED
  BY <1>2, <1>3, <1>4, <1>5, <1>6, <1>7, <1>8, <1>9, <1>10
     DEF Next, Internal, External, CalmAction
-----------------------------------------------------------------------------
IInv == PagesOK /\ WorkerOK /\ Ordered

LEMMA Starts ==
  ASSUME Init
  PROVE  IInv
<1>1. PagesOK
  <2>1. /\ \A d \in Docs : pages[d] \in Page /\ Fine(pages[d], installs[d])
        /\ pages \in [Docs -> Page] /\ installs \in [Docs -> Nat]
    BY DEF Init, Page, Fine
  <2> QED
    BY <2>1 DEF PagesOK
<1>2. WorkerOK
  <2>1. PICK S, b : S = Installed /\ b = bg
    OBVIOUS
  <2>2. b = Fresh /\ disk = NoRetries /\ 0 \in 0 .. Budget
    BY <2>1, Caps DEF Init
  <2>3. Sound(b, S) /\ Good(b, disk)
    BY <2>2, FreshFacts
  <2>4. disk \in Disks
    BY <2>2 DEF NoRetries, Disks
  <2> QED
    BY <2>1, <2>3, <2>4 DEF WorkerOK, Disk
<1>3. Ordered
  <2>1. PICK q, a, h, js : q = queue /\ a = accepted /\ h = handled /\ js = bg.jobs
    OBVIOUS
  <2>2. a = {} /\ h = {} /\ js = <<>> /\ q = NoQueue
    BY <2>1, FreshFacts DEF Init
  <2>3. Cardinality(a) = 0 /\ a = 1 .. Cardinality(a)
    BY <2>2, FS_EmptySet
  <2>4. MaxSends \in Nat /\ MaxQueue \in Nat /\ 0 < MaxSends /\ 0 \in 0 .. MaxSends
    BY Caps
  <2>5. /\ q \in Queues /\ q.pending = <<>> /\ q.tries = 0 /\ q.sending = FALSE
        /\ q.blocked = FALSE /\ q.stopped = FALSE
    BY <2>2, <2>4 DEF NoQueue, Queues
  <2>6. Queued(q, a, h)
    BY <2>2, <2>3, <2>4, <2>5 DEF Queued
  <2>7. Reported(js, q, a, h)
    BY <2>2 DEF Reported
  <2> QED
    BY <2>1, <2>6, <2>7 DEF Ordered
<1> QED
  BY <1>1, <1>2, <1>3 DEF IInv

LEMMA Keeps ==
  ASSUME IInv, [Next]_vars
  PROVE  IInv'
<1>1. CASE Next
  BY <1>1, PagesStep, WorkerStep DEF IInv
<1>2. CASE UNCHANGED vars
  <2>1. PICK S, T : S = Installed /\ T = Installed'
    OBVIOUS
  <2>2. S = T
    BY <1>2, <2>1 DEF vars, Installed
  <2>3. bg' = bg /\ disk' = disk /\ Sound(bg, S)
    BY <1>2, <2>1 DEF vars, IInv, WorkerOK
  <2>4. WorkerOK'
    BY <2>1, <2>2, <2>3 DEF IInv, WorkerOK, Disk
  <2>5. PagesOK'
    BY <1>2 DEF vars, IInv, PagesOK
  <2>6. Ordered'
    BY <1>2 DEF vars, IInv, Ordered
  <2> QED
    BY <2>4, <2>5, <2>6 DEF IInv
<1> QED
  BY <1>1, <1>2

(* The startup keeps its invariant.                                        *)
THEOREM Invariant == Spec => []IInv
<1>1. Init => IInv
  BY Starts
<1>2. IInv /\ [Next]_vars => IInv'
  BY Keeps
<1> QED
  BY <1>1, <1>2, PTL DEF Spec

(* Every variable keeps its type, and no counter leaves its bounds: the    *)
(* retry budget, the tries per message and per document, and the queue.    *)
THEOREM TypesKept == Spec => []TypeOK
<1>1. IInv => TypeOK
  <2> SUFFICES ASSUME IInv PROVE TypeOK
    OBVIOUS
  <2>1. PICK b, S : b = bg /\ S = Installed
    OBVIOUS
  <2>2. b \in Workers /\ b.rec.waits \subseteq b.rec.left /\ b.ing.waits \subseteq b.ing.left
    BY <2>1 DEF IInv, WorkerOK, Sound, Able
  <2>3. disk \in [attempt : 0 .. Budget, alarm : 0 .. Budget]
    BY DEF IInv, WorkerOK, Disk, Disks
  <2>4. Len(queue.pending) <= MaxQueue /\ queue.tries \in 0 .. MaxSends
    BY DEF IInv, Ordered, Queued, Queues
  <2>5. pages \in [Docs -> Page]
    BY DEF IInv, PagesOK
  <2>6. \A o \in Owners : b[o].waits \subseteq b[o].left
    BY <2>2 DEF Owners
  <2>7. /\ {b.ready, b.committed, b.known, b.injected} \subseteq SUBSET Docs
        /\ {b.rec, b.ing} \subseteq Flight /\ b.unarmed \in BOOLEAN
        /\ {b.calls[i] : i \in DOMAIN b.calls} \subseteq Calls
    BY <2>2, WorkerParts
  <2> QED
    BY <2>1, <2>2, <2>3, <2>4, <2>5, <2>6, <2>7, WorkerParts DEF TypeOK, Page
<1> QED
  BY <1>1, Invariant, PTL

(* Whatever is lost, refused or restarted, the messages of a page are      *)
(* persisted in the order they were queued, and none leaves the queue of   *)
(* an open page before it is.                                              *)
THEOREM HandlesInOrder == Spec => []HandledInOrder
<1>1. IInv => HandledInOrder
  <2> SUFFICES ASSUME IInv PROVE HandledInOrder
    OBVIOUS
  <2>1. PICK q, a, h : q = queue /\ a = accepted /\ h = handled
    OBVIOUS
  <2>2. Queued(q, a, h)
    BY <2>1 DEF IInv, Ordered
  <2>3. PICK n, l \in Nat : n = Cardinality(a) /\ l = Len(q.pending)
    BY <2>2 DEF Queued, Queues
  <2>4. a = 1 .. n /\ q.pending \in Seq(Nat)
    BY <2>2, <2>3 DEF Queued, Queues
  <2>5. ASSUME ~q.stopped, NEW m \in a, m \notin Waits
        PROVE  m \in h
    <3>1. /\ l <= n /\ \A i \in 1 .. l : q.pending[i] = n - l + i
          /\ \A k \in a : k <= n - l => k \in h
      BY <2>2, <2>3, <2>5 DEF Queued
    <3>2. CASE m <= n - l
      BY <3>1, <3>2
    <3>3. CASE ~(m <= n - l)
      <4>1. PICK i \in 1 .. l : i = m - (n - l)
        BY <2>4, <3>1, <3>3
      <4>2. q.pending[i] = m /\ i \in DOMAIN q.pending
        <5>1. q.pending[i] = n - l + i /\ m \in Nat
          BY <2>4, <3>1, <4>1
        <5>2. q.pending[i] = m
          BY <4>1, <5>1
        <5>3. DOMAIN q.pending = 1 .. l
          BY <2>3, <2>4
        <5> QED
          BY <4>1, <5>2, <5>3
      <4> QED
        BY <2>1, <2>5, <4>2 DEF Waits
    <3> QED
      BY <3>2, <3>3
  <2>6. \A m \in h, k \in a : k < m => k \in h
    BY <2>2 DEF Queued
  <2> QED
    BY <2>1, <2>5, <2>6 DEF HandledInOrder
<1> QED
  BY <1>1, Invariant, PTL

(* No document ever gets a second content runtime.                         *)
THEOREM InstallsOnce == Spec => []OneRuntime
<1>1. IInv => OneRuntime
  BY DEF IInv, PagesOK, Fine, OneRuntime
<1> QED
  BY <1>1, Invariant, PTL

(* A capture blocked by a failure is tried again by itself -- also while   *)
(* the budget is counted, stored and the alarm set in steps of their own,  *)
(* and a recovery that ends meanwhile removes them in steps of its own --  *)
(* unless the automatic retries are used up or the browser refused the     *)
(* last alarm.                                                             *)
THEOREM RetryRemains == Spec => []BlockedIsRetried
<1>1. IInv => BlockedIsRetried
  <2> SUFFICES ASSUME IInv PROVE BlockedIsRetried
    OBVIOUS
  <2>1. PICK b, k : b = bg /\ k = disk
    OBVIOUS
  <2>2. /\ Retried(b, k) /\ Staged(b) /\ b.jobs \in Seq(Jobs) /\ b.calls \in Seq(Calls)
        /\ b.rec \in Flight
    BY <2>1, WorkerParts DEF IInv, WorkerOK, Sound, Good
  <2>3. b.stage = "resetting" => Running("resetting")
    BY <2>1, <2>2 DEF Staged, Running
  <2>4. \A n \in {1, 2} : Pending(b.jobs, n) => \E i \in DOMAIN b.jobs : b.jobs[i].kind = "alarm"
    <3>1. \A n \in {1, 2} : \A i \in n .. Len(b.jobs) : i \in DOMAIN b.jobs
      BY <2>2
    <3> QED
      BY <3>1 DEF Pending
  <2>5. Schedules(b.calls) =>
          \E i \in DOMAIN b.calls : b.calls[i].do \in {"tell", "read", "store", "create"}
    <3>1. DOMAIN b.calls = 1 .. Len(b.calls)
      BY <2>2
    <3> QED
      BY <3>1 DEF Schedules, Scheduling
  <2>6. Underway(b) => b.rec.on # "off"
    BY DEF Underway
  <2> QED
    BY <2>1, <2>2, <2>3, <2>4, <2>5, <2>6 DEF Retried, Lasting, BlockedIsRetried
<1> QED
  BY <1>1, Invariant, PTL

(* A recovery that declares capture ready has left a content runtime in    *)
(* every document it found open, whatever failed and was retried.          *)
THEOREM RecoveryIsComplete == Spec => RecoveryCovers
<1> DEFINE Covered == bg.rec.on = "running" /\ bg'.rec.on # "running" /\ bg'.status = "ready" =>
             \A d \in bg.rec.docs : Open(d) => pages[d].runtime = "installed"
<1>1. ASSUME IInv, Next
      PROVE  Covered
  <2>1. SUFFICES ASSUME bg.rec.on = "running", bg'.rec.on # "running", bg'.status = "ready"
                 PROVE  \A d \in bg.rec.docs : pages[d].runtime = "installed"
    BY DEF Covered
  <2>2. PICK b, S, k : b = bg /\ S = Installed /\ k = disk
    OBVIOUS
  <2>3. Sound(b, S) /\ b \in Workers /\ Able(b.rec, S) /\ Staged(b) /\ Tied(b)
    BY <1>1, <2>2 DEF IInv, WorkerOK, Sound, Good
  <2>4. ~Restarts
    BY <2>1, FreshFacts DEF Restarts
  <2>5. ~RecoveryStarts
    BY <2>1 DEF RecoveryStarts
  <2>6. RecoveryEnds
    BY <1>1, <2>1, <2>4, <2>5, PagesStep, WorkerStep DEF IInv, StaysOn
  <2>7. b.rec.left = {} /\ ~b.rec.failed
    <3>1. Owned(b.calls, b.stage, "off")
      BY <2>1, <2>2, <2>3, OwnedElsewhere DEF Tied
    <3>2. RecoveryBlocked(b).status = "retryable"
      BY <2>3, <3>1, RecoveryBlockedFacts
    <3> QED
      BY <2>1, <2>2, <2>6, <3>2 DEF RecoveryEnds
  <2>8. b.rec.docs \subseteq S
    BY <2>3, <2>7 DEF Able
  <2> QED
    BY <2>2, <2>8 DEF Installed
<1>2. IInv /\ [Next]_vars => [Covered]_vars
  BY <1>1
<1> HIDE DEF Covered
<1>3. Spec => [][Covered]_vars
  BY <1>2, Invariant, PTL DEF Spec
<1> QED
  BY <1>3 DEF RecoveryCovers, Covered
=============================================================================
