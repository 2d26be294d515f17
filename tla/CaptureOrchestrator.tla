------------------------- MODULE CaptureOrchestrator -------------------------
(***************************************************************************)
(* The extension's orchestrator: it joins what the network observer and    *)
(* the page report of a submission -- a click (E0), the observed requests  *)
(* (E1), the poll that names the submission (E2), the final verdict (E3)   *)
(* -- into one attempt bundle (backgroundOrchestrator.ts,                  *)
(* verdictCandidateCoordinator.ts, confirmedSubmissionStorage.ts, the two  *)
(* adapters' network.ts and the wiring in background.ts).                  *)
(*                                                                         *)
(* One executor runs one job at a time; every job reads both storage       *)
(* areas, computes what to write and writes local before session storage.  *)
(* The worker may stop before, between or after those writes, and the jobs *)
(* it still had to run are lost.  One LeetCode document and one NowCoder   *)
(* document are open; times are instants of one clock that a job does not  *)
(* outlast.  The stored arrays are sets: the model drops any old entry     *)
(* where the code drops the oldest, and takes any where it takes the first.*)
(***************************************************************************)
EXTENDS Naturals, FiniteSets

CONSTANTS
  Sub,                        \* submissions, named as the platform names them
  Setups,                     \* what is submitted: flow, problem and polls of each
  Window,                     \* submit (or click) to confirmation: 5 s
  HintTtl, ParkTtl, E1Ttl,    \* 30 s, 60 s and 5 min
  TombTtl,                    \* 30 days
  Cap, MaxTombs,              \* 32 parked verdicts or candidates, 256 tombstones
  MaxTime, MaxStops           \* bounds of the model

(* Parked verdicts and candidates are kept no longer than tombstones.      *)
ASSUME OrchestratorAssumption ==
  /\ {Window, HintTtl, ParkTtl, E1Ttl, TombTtl, Cap, MaxTombs} \subseteq Nat \ {0}
  /\ {MaxTime, MaxStops} \subseteq Nat /\ ParkTtl <= TombTtl /\ E1Ttl <= TombTtl
  /\ Setups \subseteq [Sub -> [flow : {"check", "legacy", "result", "status", "absent"},
                               prob : STRING, polls : Nat]]

None == [none |-> TRUE]
(* A request that is not matched names no submission.                      *)
ASSUME NoSubmission == None \notin Sub
NoRequest == <<>>
Pending == [join |-> "pending"]
Terminal == [join |-> "terminal"]

VARIABLES
  setup,         \* flow, problem and polls of each submission
  now,           \* the clock
  page,          \* Sub -> how far its page has come
  polls,         \* Sub -> how many polls its page has sent
  shown,         \* Sub -> the verdict its page shows: when, for which request
  enabled, up,   \* capture is enabled; the worker has run its initialization
  todo,          \* what the running executor job has still to apply
  local,         \* chrome.storage.local: confirmed, tombs, outbox
  session,       \* chrome.storage.session: hints, lcs, parked, cands
  stops,         \* how often the worker stopped or capture was disabled
  built,         \* history: bundles enqueued per submission
  evicted        \* history: tombstones dropped per submission

browser == <<setup, now, page, polls, shown>>
history == <<built, evicted>>
vars == <<setup, now, page, polls, shown, enabled, up, todo, local, session,
          stops, built, evicted>>

Doc(s) == IF setup[s].flow = "status" THEN "nc" ELSE "lc"
Prob(s) == setup[s].prob
Expired(at, ttl) == now - at >= ttl

NoEvidence == [hints |-> {}, lcs |-> {}, parked |-> {}, cands |-> {}]

Init ==
  /\ setup \in Setups
  /\ now = 0 /\ page = [s \in Sub |-> "idle"] /\ polls = [s \in Sub |-> 0]
  /\ shown = [s \in Sub |-> None]
  /\ enabled = TRUE /\ up = FALSE /\ todo = {} /\ stops = 0
  /\ local = [confirmed |-> [s \in Sub |-> None], tombs |-> {}, outbox |-> {}]
  /\ session = NoEvidence
  /\ built = [s \in Sub |-> 0] /\ evicted = [s \in Sub |-> 0]

-----------------------------------------------------------------------------
(* Storage helpers.                                                        *)

(* S with x added; when that is more than n, without some old elements.    *)
Newest(S, x, n) ==
  {T \in SUBSET (S \cup {x}) :
     /\ x \in T
     /\ T = S \cup {x} \/ Cardinality(T) = n
     /\ Cardinality(T) <= n}

(* A lifecycle is the observed life of one request <<submission, n>>: the  *)
(* submit request is number 0, its polls count from 1.  "flawed" is        *)
(* pending with a rejection reason: a redirect changed its identity.       *)
Lifecycle(req, at, done, out, sid) ==
  [req |-> req, at |-> at, done |-> done, out |-> out, sid |-> sid]
DocOf(e) == Doc(e.req[1])
IsSubmit(e) == e.req[2] = 0

(* Every apply starts from the session without what has outlived its TTL.  *)
Pruned ==
  [hints  |-> {h \in session.hints : ~Expired(h.at, HintTtl)},
   lcs    |-> {e \in session.lcs : ~Expired(e.at, E1Ttl)},
   parked |-> {p \in session.parked : ~Expired(p.at, ParkTtl)},
   cands  |-> {c \in session.cands : ~Expired(c.at, E1Ttl)}]

Unexpired(tombs, t) == {x \in tombs : t < x.fin + TombTtl}
Tombed(tombs) == {x.sub : x \in tombs}

-----------------------------------------------------------------------------
(* The join of candidates, requests and confirmed submissions: Pending,    *)
(* Terminal or the verdict (E3) the candidate resolves to.                 *)

(* The confirmed submission a lifecycle was matched to, if it is live and  *)
(* the candidate's chronology and problem fit.                             *)
JoinConfirmed(c, e, confirmed) ==
  IF e.out # "matched" \/ confirmed[e.sid] = None THEN Pending
  ELSE IF confirmed[e.sid].prob # Prob(c.sub) \/ confirmed[e.sid].at > c.at
       THEN Terminal
       ELSE [sub |-> e.sid, at |-> c.at, prob |-> Prob(c.sub), of |-> c.sub, cand |-> TRUE]

(* A candidate of an armed epoch names its request and only that counts;   *)
(* a request that was a GET must be the result poll of the confirmed id.   *)
ReconcileArmed(c, lcs, confirmed) ==
  LET named == {e \in lcs : e.req = c.req}
      e == CHOOSE x \in named : TRUE
  IN IF named = {} THEN Pending
     ELSE IF e.at > c.at THEN Terminal
     ELSE IF ~e.done THEN Pending
     ELSE IF /\ e.out = "matched" /\ confirmed[e.sid] # None
             /\ IF IsSubmit(e) THEN Prob(e.req[1]) # Prob(c.sub) ELSE e.sid # e.req[1]
          THEN Terminal
          ELSE JoinConfirmed(c, e, confirmed)

(* One without a request takes the latest submit of its problem before it. *)
ReconcileLegacy(c, lcs, confirmed) ==
  LET fits == {e \in lcs :
                 DocOf(e) = Doc(c.sub) /\ IsSubmit(e) /\ Prob(e.req[1]) = Prob(c.sub)}
      eligible == {e \in fits : e.done /\ e.at <= c.at}
      latest == {e \in eligible : \A f \in eligible : f.at <= e.at}
  IN IF \E e \in fits : e.at > c.at THEN Terminal
     ELSE IF latest = {} THEN Pending
     ELSE IF \E e, f \in latest : e # f THEN Terminal
     ELSE JoinConfirmed(c, CHOOSE e \in latest : TRUE, confirmed)

Reconcile(c, lcs, confirmed) ==
  IF Expired(c.at, E1Ttl) THEN Terminal
  ELSE IF c.req # NoRequest THEN ReconcileArmed(c, lcs, confirmed)
  ELSE ReconcileLegacy(c, lcs, confirmed)

Kept(cands, lcs, confirmed) ==
  {c \in cands : Reconcile(c, lcs, confirmed) # Terminal}
Resolutions(cands, lcs, confirmed) ==
  {Reconcile(c, lcs, confirmed) : c \in cands} \ {Pending, Terminal}

-----------------------------------------------------------------------------
(* The handlers: each returns the possible outcomes, the storage after its *)
(* writes and the verdicts the job has still to apply.                     *)

Outcome(loc, ses, work) == [local |-> loc, session |-> ses, work |-> work]
Quiet(loc, ses) == Outcome(loc, ses, {})

(* A click leaves one hint per problem and document; a repeat within the   *)
(* TTL keeps the older one.                                                *)
HandleE0(s, ses) ==
  IF \E h \in ses.hints : h.doc = Doc(s) /\ h.prob = Prob(s) THEN {Quiet(local, ses)}
  ELSE {Quiet(local, [ses EXCEPT !.hints =
                        @ \cup {[doc |-> Doc(s), prob |-> Prob(s), at |-> now]}])}

(* One request's signals are merged: it keeps its earliest time, is done   *)
(* once completed, and an outcome that is settled stays.  A redirect to    *)
(* another endpoint only marks a pending lifecycle as flawed.              *)
MergedE1(e, signal) ==
  [e EXCEPT !.done = @ \/ signal = "completed",
            !.out = CASE @ = "matched" -> @
                      [] @ # "matched" /\ signal = "error" -> "error"
                      [] @ = "pending" /\ signal = "redirect" -> "flawed"
                      [] OTHER -> @]

HandleE1(req, signal, ses) ==
  LET prior == {e \in ses.lcs : e.req = req}
      merged == IF prior = {} THEN {MergedE1(Lifecycle(req, now, FALSE, "pending", None), signal)}
                ELSE {MergedE1(e, signal) : e \in prior}
      lcs == (ses.lcs \ prior) \cup merged
  IN {Quiet(local, [ses EXCEPT
        !.lcs = lcs,
        !.cands = {c \in @ : \/ signal = "redirect" \/ c.req # NoRequest
                             \/ Reconcile(c, lcs, local.confirmed) # Terminal}])}

(* The reducer's bundle: the request, its confirmation and the verdict, if *)
(* they follow each other in time.                                         *)
Bundle(e3, start, conf) ==
  [sub |-> e3.sub, start |-> start, conf |-> conf, fin |-> e3.at, of |-> e3.of]
InOrder(b) == b.start <= b.conf /\ b.conf <= b.fin

(* Finalizing drops the confirmed record, adds a tombstone dated by the    *)
(* verdict and appends the bundle unless one of its id is waiting.         *)
Finalized(loc, b) ==
  {[confirmed |-> [loc.confirmed EXCEPT ![b.sub] = None],
    tombs |-> T,
    outbox |-> IF \E x \in loc.outbox : x.sub = b.sub THEN loc.outbox
               ELSE loc.outbox \cup {b}] :
     T \in Newest(Unexpired({x \in loc.tombs : x.sub # b.sub}, b.fin),
                  [sub |-> b.sub, fin |-> b.fin], MaxTombs)}

WithoutCand(e3, cands) == IF e3.cand THEN {c \in cands : c.sub # e3.of} ELSE cands
IsFinal(s, loc) == \E x \in loc.tombs : x.sub = s /\ ~Expired(x.fin, TombTtl)

(* The request a bundle starts with: one matched to the submission, or one *)
(* recovered from the verdict if none is left.                             *)
Starts(e3, conf, ses) ==
  LET known == {e.at : e \in {x \in ses.lcs : x.sid = e3.sub /\ x.out = "matched"}}
  IN IF known # {} THEN known ELSE {IF e3.at < conf.at THEN e3.at ELSE conf.at}

(* A verdict: nothing to do for a finalized submission, parked while the   *)
(* submission is not confirmed, else bundled.                              *)
HandleE3(e3, loc, ses) ==
  LET conf == loc.confirmed[e3.sub]
      consumed == [ses EXCEPT !.cands = WithoutCand(e3, @)]
      bundled == [consumed EXCEPT !.lcs = {e \in @ : e.sid # e3.sub},
                                  !.parked = {p \in @ : p.sub # e3.sub}]
  IN IF IsFinal(e3.sub, loc) THEN {Quiet(loc, consumed)}
     ELSE IF conf = None \/ conf.prob # e3.prob
     THEN {Quiet(loc, [ses EXCEPT !.parked = P]) :
             P \in Newest({p \in ses.parked : p.sub # e3.sub}, e3, Cap)}
     ELSE UNION {LET b == Bundle(e3, start, conf.at)
                 IN IF InOrder(b) THEN {Quiet(loc2, bundled) : loc2 \in Finalized(loc, b)}
                    ELSE {Quiet(loc, consumed)} : start \in Starts(e3, conf, ses)}

(* Recording a confirmation also drops expired tombstones.                 *)
Confirmed(s, at, prob) ==
  [local EXCEPT !.tombs = Unexpired(@, now),
                !.confirmed[s] = IF @ = None THEN [at |-> at, prob |-> prob] ELSE @]
(* Mutant: the tombstones are not consulted.                               *)
RefusedUnlessFinal(s, prob) ==
  local.confirmed[s] # None /\ local.confirmed[s].prob # prob
Refused(s, prob) ==
  \/ s \in Tombed(Unexpired(local.tombs, now))
  \/ local.confirmed[s] # None /\ local.confirmed[s].prob # prob

(* A parked verdict is replayed against a session it cannot read but for   *)
(* its hints: the evidence is passed under other keys than the handler     *)
(* reads.  Only what that replay wrote to local storage is written.        *)
Replayed(e3, after, ses, work) ==
  LET blind == [NoEvidence EXCEPT !.hints = ses.hints]
  IN {Outcome(IF out.local = after THEN local ELSE out.local,
              IF out.session = blind /\ out.local = after THEN ses ELSE out.session,
              work) : out \in HandleE3(e3, after, blind)}

Matched(s, req, ses) ==
  {IF e.req = req THEN [e EXCEPT !.out = "matched", !.sid = s] ELSE e : e \in ses.lcs}

(* Mutant: the verdicts the confirmation resolves are not returned.        *)
HandleE2Unresolved(s, at, prob, req, ses) ==
  IF Refused(s, prob) THEN {Quiet(local, ses)}
  ELSE {Quiet(Confirmed(s, at, prob), [ses EXCEPT !.lcs = Matched(s, req, ses)])}

(* A confirmation: the matched request is tied to the submission and the   *)
(* waiting candidates are joined again.                                    *)
HandleE2(s, at, prob, req, ses) ==
  LET after == Confirmed(s, at, prob)
      lcs == Matched(s, req, ses)
      matched == [ses EXCEPT !.lcs = lcs, !.cands = Kept(@, lcs, after.confirmed)]
      work == Resolutions(ses.cands, lcs, after.confirmed)
      waiting == {p \in ses.parked : p.sub = s}
  IN IF Refused(s, prob) THEN {Quiet(local, ses)}
     ELSE IF waiting = {} THEN {Outcome(after, matched, work)}
     ELSE UNION {Replayed(p, after, matched, work) : p \in waiting}

(* A candidate is stored once, Cap of them at most, and joined.            *)
Joined(cands, ses) ==
  Outcome(local, [ses EXCEPT !.cands = Kept(cands, ses.lcs, local.confirmed)],
          Resolutions(cands, ses.lcs, local.confirmed))
(* Mutant: nothing is dropped when the slice is full.                      *)
HandleCandidateUncapped(c, ses) ==
  {Joined({d \in ses.cands : d.sub # c.sub} \cup {c}, ses)}
HandleCandidate(c, ses) ==
  {Joined(cands, ses) : cands \in Newest({d \in ses.cands : d.sub # c.sub}, c, Cap)}

-----------------------------------------------------------------------------
(* Confirmation: which submit a poll confirms, if it can tell.  Each       *)
(* returns the set of [prob, req, at] the poll may record, empty or one.   *)

Recent(at, t) == at <= t /\ t - at <= Window
Only(S) == IF \A x, y \in S : x = y THEN S ELSE {}

(* LeetCode check poll: the only pending submit of the last five seconds.  *)
CheckMatch(poll) ==
  LET submits == {e \in session.lcs :
        /\ IsSubmit(e) /\ DocOf(e) = "lc" /\ e.out = "pending" /\ e.done
        /\ Recent(e.at, poll.at)}
  IN {[prob |-> Prob(e.req[1]), req |-> e.req, at |-> poll.at] : e \in Only(submits)}

(* LeetCode result poll: the one new result after the one recent click;    *)
(* its root is the corroborating submit if there is one, else the poll.    *)
ResultPolls == {e \in session.lcs :
                  ~IsSubmit(e) /\ setup[e.req[1]].flow = "result" /\ e.done}
ResultMatch(poll) ==
  LET clicks == Only({h \in session.hints : h.doc = "lc" /\ Recent(h.at, poll.at)})
      Known(h) == {e.req[1] : e \in {x \in ResultPolls : x.at <= h.at}}
      New(h) == {e.req[1] : e \in {x \in ResultPolls : h.at < x.at /\ Recent(x.at, poll.at)}}
      Submits(h) == {e \in session.lcs :
                       IsSubmit(e) /\ DocOf(e) = "lc" /\ h.at <= e.at /\ e.at <= poll.at}
  IN {[prob |-> h.prob, at |-> poll.at,
       req |-> IF Submits(h) = {} THEN poll.req ELSE (CHOOSE e \in Submits(h) : TRUE).req]
       : h \in {c \in clicks :
                  /\ poll.req[1] \notin Known(c) /\ New(c) = {poll.req[1]}
                  /\ \A e \in Submits(c) : e.done /\ Prob(e.req[1]) = c.prob
                  /\ Only(Submits(c)) = Submits(c)}}

(* NowCoder status poll: the one submit of the last five seconds and the   *)
(* one problem the document was opened for; dated when it is processed.    *)
StatusMatch(poll) ==
  LET submits == Only({e \in session.lcs :
        IsSubmit(e) /\ DocOf(e) = "nc" /\ e.done /\ Recent(e.at, poll.at)})
      hints == Only({h \in session.hints : h.doc = "nc" /\ h.at <= poll.at})
  IN {[prob |-> h.prob, req |-> e.req, at |-> now] : h \in hints, e \in submits}

PollMatch(s, poll) ==
  CASE setup[s].flow = "status" -> StatusMatch(poll)
    [] setup[s].flow = "result" -> IF poll.out = "pending" THEN ResultMatch(poll) ELSE {}
    [] OTHER -> IF poll.out = "pending" THEN CheckMatch(poll) ELSE {}

HandlePoll(s, n, ses) ==
  LET matches == UNION {PollMatch(s, e) : e \in {x \in session.lcs : x.req = <<s, n>> /\ x.done}}
  IN IF matches = {} THEN {Quiet(local, session)}
     ELSE UNION {HandleE2(s, m.at, m.prob, m.req, ses) : m \in matches}

-----------------------------------------------------------------------------
(* An apply writes local, then session storage; a stop may cut it short.   *)

Stopped ==
  /\ stops < MaxStops
  /\ stops' = stops + 1 /\ up' = FALSE /\ todo' = {}

Counted(loc) ==
  /\ built' = [s \in Sub |-> built[s] +
       (IF \E b \in loc.outbox \ local.outbox : b.sub = s THEN 1 ELSE 0)]
  /\ evicted' = [s \in Sub |-> evicted[s] +
       (IF s \in Tombed(local.tombs \ loc.tombs) THEN 1 ELSE 0)]

WriteAll(out, rest) ==
  /\ local' = out.local /\ session' = out.session /\ todo' = out.work \cup rest
  /\ Counted(out.local)
  /\ UNCHANGED <<up, stops>>
(* Mutant: session storage is written first.                               *)
WriteSessionOnly(out) ==
  /\ session' = out.session /\ UNCHANGED <<local, history>>
  /\ Stopped
WriteLocalOnly(out) ==
  /\ local' = out.local /\ Counted(out.local) /\ UNCHANGED session
  /\ Stopped
WriteNothing ==
  /\ Stopped
  /\ UNCHANGED <<local, session, history>>

(* Events reach the orchestrator only while capture is enabled.            *)
Apply(outs, rest) ==
  /\ up
  /\ IF enabled
     THEN \/ \E out \in outs : WriteAll(out, rest) \/ WriteLocalOnly(out)
          \/ WriteNothing
     ELSE /\ todo' = rest
          /\ UNCHANGED <<local, session, history, up, stops>>

(* Initialization of a worker that starts: prune and join again.           *)
Reinstalled ==
  /\ session' = [Pruned EXCEPT !.cands = Kept(@, Pruned.lcs, local.confirmed)]
  /\ todo' = Resolutions(Pruned.cands, Pruned.lcs, local.confirmed)

Install ==
  /\ ~up /\ todo = {}
  /\ up' = TRUE
  /\ Reinstalled
  /\ UNCHANGED <<browser, enabled, local, stops, history>>

WorkerStops ==
  /\ up /\ Stopped
  /\ UNCHANGED <<browser, enabled, local, session, history>>

(* The user's switch; enabling initializes again.                          *)
SetCaptureEnabled ==
  /\ up /\ todo = {}
  /\ enabled' = ~enabled
  /\ \/ enabled /\ stops < MaxStops /\ stops' = stops + 1
        /\ session' = Pruned /\ UNCHANGED todo
     \/ ~enabled /\ Reinstalled /\ UNCHANGED stops
  /\ UNCHANGED <<browser, up, local, history>>

(* The rest of a job: the confirmation that follows a poll's answer, or    *)
(* the verdict a candidate resolved to.                                    *)
Work ==
  /\ \E job \in todo :
       Apply(IF "poll" \in DOMAIN job THEN HandlePoll(job.poll[1], job.poll[2], Pruned)
             ELSE HandleE3(job, local, Pruned), todo \ {job})
  /\ UNCHANGED <<browser, enabled>>

-----------------------------------------------------------------------------
(* The pages.  The next event waits until the executor is idle.            *)

Reported(outs, rest) == todo = {} /\ Apply(outs, rest) /\ UNCHANGED <<enabled, setup, now>>
Moves(s, from, to) == page[s] \in from /\ page' = [page EXCEPT ![s] = to]

Click(s) ==
  /\ Moves(s, {"idle"}, "clicked") /\ setup[s].flow # "absent"
  /\ Reported(HandleE0(s, Pruned), {})
  /\ UNCHANGED <<polls, shown>>

SubmitSent(s) ==
  /\ Moves(s, {"clicked"}, "submitting") /\ setup[s].flow # "result"
  /\ Reported(HandleE1(<<s, 0>>, "before", Pruned), {})
  /\ UNCHANGED <<polls, shown>>

SubmitAnswered(s) ==
  /\ Moves(s, {"submitting"}, "judging")
  /\ Reported(HandleE1(<<s, 0>>, "completed", Pruned), {})
  /\ UNCHANGED <<polls, shown>>

SubmitFails(s) ==
  /\ Moves(s, {"submitting"}, "failed")
  /\ \E signal \in {"error", "redirect"} :
       Reported(HandleE1(<<s, 0>>, signal, Pruned), {})
  /\ UNCHANGED <<polls, shown>>

PollSent(s) ==
  /\ Moves(s, IF setup[s].flow = "result" THEN {"clicked", "judging"} ELSE {"judging"}, "polling")
  /\ polls[s] < setup[s].polls /\ polls' = [polls EXCEPT ![s] = @ + 1]
  /\ Reported(HandleE1(<<s, polls[s] + 1>>, "before", Pruned), {})
  /\ UNCHANGED shown

PollAnswered(s) ==
  /\ Moves(s, {"polling"}, "judging")
  /\ Reported(HandleE1(<<s, polls[s]>>, "completed", Pruned), {[poll |-> <<s, polls[s]>>]})
  /\ UNCHANGED <<polls, shown>>

(* The page shows the verdict; a candidate carries the request its epoch   *)
(* was armed with, one of an earlier version of the page none.             *)
VerdictShown(s) ==
  /\ polls[s] > 0 /\ shown[s] = None
  /\ \E n \in 1 .. polls[s] :
       shown' = [shown EXCEPT ![s] =
         [at |-> now, req |-> CASE setup[s].flow = "check" -> <<s, 0>>
                                [] setup[s].flow = "result" -> <<s, n>>
                                [] OTHER -> NoRequest]]
  /\ UNCHANGED <<setup, now, page, polls, enabled, up, todo, local, session, stops, history>>

(* The page reports it, again until it is acknowledged.                    *)
VerdictReported(s) ==
  /\ shown[s] # None
  /\ Reported(IF setup[s].flow = "status"
              THEN HandleE3([sub |-> s, at |-> shown[s].at, prob |-> Prob(s),
                             of |-> s, cand |-> FALSE], local, Pruned)
              ELSE HandleCandidate([sub |-> s, at |-> shown[s].at, req |-> shown[s].req],
                                   Pruned), {})
  /\ UNCHANGED <<page, polls, shown>>

(* Delivery takes the oldest bundle out (module OutboxDelivery).           *)
Drain ==
  /\ up /\ todo = {}
  /\ \E b \in local.outbox : local' = [local EXCEPT !.outbox = @ \ {b}]
  /\ UNCHANGED <<browser, enabled, up, todo, session, stops, history>>

Tick ==
  /\ todo = {} /\ now < MaxTime
  /\ now' = now + 1
  /\ UNCHANGED <<setup, page, polls, shown, enabled, up, todo, local, session, stops, history>>

Next ==
  \/ \E s \in Sub :
       \/ Click(s) \/ SubmitSent(s) \/ SubmitAnswered(s) \/ SubmitFails(s)
       \/ PollSent(s) \/ PollAnswered(s) \/ VerdictShown(s) \/ VerdictReported(s)
  \/ Install \/ WorkerStops \/ SetCaptureEnabled \/ Work \/ Drain \/ Tick

Spec == Init /\ [][Next]_vars
-----------------------------------------------------------------------------
(* Properties.                                                             *)

TypeOK ==
  /\ page \in [Sub -> {"idle", "clicked", "submitting", "judging", "polling", "failed"}]
  /\ \A s \in Sub : polls[s] \in 0 .. setup[s].polls
  /\ now \in 0 .. MaxTime /\ stops \in 0 .. MaxStops
  /\ enabled \in BOOLEAN /\ up \in BOOLEAN
  /\ \A e \in session.lcs :
       /\ e.req[1] \in Sub /\ e.req[2] \in 0 .. polls[e.req[1]] /\ e.at \in 0 .. now /\ e.done \in BOOLEAN
       /\ e.out \in {"pending", "flawed", "matched", "error"}
       /\ e.sid \in Sub \cup {None}
  /\ session.parked \cup session.cands \subseteq
       {x \in session.parked \cup session.cands : x.sub \in Sub}
  /\ Cardinality(session.parked) <= Cap /\ Cardinality(session.cands) <= Cap
  /\ Cardinality(local.tombs) <= MaxTombs /\ Tombed(local.tombs) \subseteq Sub
  /\ \A b \in local.outbox : b.sub \in Sub /\ b.of \in Sub
  /\ built \in [Sub -> Nat] /\ evicted \in [Sub -> Nat]

(* The submissions as the abstract ledger sees them.                       *)
Ledger == INSTANCE SubmissionLedger WITH
  status <- [s \in Sub |-> IF local.confirmed[s] # None THEN "confirmed"
                           ELSE IF s \in Tombed(local.tombs) THEN "final" ELSE "unseen"],
  bundles <- built,
  forgets <- evicted

(* The orchestrator keeps the ledger's promise: a confirmed submission     *)
(* leaves that state only with its bundle, and is bundled again only after *)
(* its tombstone was dropped, whatever stops between two writes.           *)
KeepsLedger == Ledger!Spec

(* A candidate that can be resolved is not left behind: once a running,    *)
(* enabled worker is idle no stored candidate joins to a verdict.  The     *)
(* candidate survives stops between confirmation and verdict for this.     *)
NoStrandedCandidate ==
  up /\ enabled /\ todo = {} =>
    \A c \in session.cands :
      Reconcile(c, session.lcs, local.confirmed) \in {Pending, Terminal}

(* A LeetCode request that session storage ties to a submission was tied   *)
(* after local storage recorded the confirmation: a stop between the two   *)
(* writes loses the tie, never the record it refers to.                    *)
MatchedIsRecorded ==
  \A e \in session.lcs :
    e.out = "matched" /\ DocOf(e) = "lc" =>
      local.confirmed[e.sid] # None \/ e.sid \in Tombed(local.tombs) \/ evicted[e.sid] > 0

(* A verdict that arrived before its confirmation is replayed on it: when  *)
(* the request of a submission with a parked verdict is matched, local     *)
(* storage knows the submission as confirmed or final.                     *)
ParkedVerdictReplayed ==
  [][\A p \in session.parked : \A e \in session'.lcs :
       e.out = "matched" /\ e.sid = p.sub =>
         local'.confirmed[p.sub] # None \/ p.sub \in Tombed(local'.tombs)]_vars

=============================================================================
