---------------------------- MODULE SubmitEpochs ----------------------------
(***************************************************************************)
(* The content runtime of one LeetCode document (contentRuntime.ts): it    *)
(* ties the verdict the page shows to the submit request it belongs to.    *)
(* A click, or a submit button coming into view, leaves an action epoch    *)
(* with what the page showed then (its baseline).  The background's        *)
(* STARTED turns the action into an epoch of the request, CONFIRMED arms   *)
(* it, and the first change from the baseline seen after that is reported  *)
(* once, as a candidate naming the request.  Without any epoch of the      *)
(* problem the older detector reports changes without naming a request.    *)
(*                                                                         *)
(* The background (background.ts) is reduced to the control messages it    *)
(* sends; they arrive in order, late or never.  The page is external: it   *)
(* shows a verdict of any submission made so far, on a new or a reused     *)
(* element, and old verdicts may stay there.  Problem "none" is a page on  *)
(* which no problem is detected.                                           *)
(***************************************************************************)
EXTENDS Naturals, Sequences, FiniteSets

CONSTANTS
  Req,                  \* submissions 1 .. n, in the order they are sent
  Setups,               \* flow and problem of each, the addresses visited, the
                        \* room for epochs (32), and until when the clock runs
  Problems, Verdicts, Nodes,
  EpochTtl, HintTtl,    \* 5 min, 30 s
  MaxInbox              \* bound of the model

ASSUME SubmitEpochsAssumption ==
  /\ IsFiniteSet(Req) /\ Req = 1 .. Cardinality(Req)
  /\ "none" \notin Problems \cup Verdicts /\ "unknown" \notin Verdicts
  /\ \A s \in Setups :
       /\ s.sub \in [Req -> [flow : {"post", "result"}, prob : Problems]]
       /\ s.room \in Nat \ {0} /\ s.until \in Nat
       /\ s.places \subseteq [prob : Problems \cup {"none"}, exact : BOOLEAN]
  /\ {EpochTtl, HintTtl} \subseteq Nat \ {0} /\ HintTtl <= EpochTtl
  /\ 0 \notin Nodes /\ MaxInbox \in Nat

VARIABLES
  setup,       \* submissions, addresses and room for epochs
  now,         \* the clock; 0 stands for no time
  page,        \* what is on screen: problem, shown verdict, is it a result page
  moved,       \* the address changed and the poll has not noticed
  dirty,       \* the document changed and the observer was not called yet
  rt,          \* the content runtime
  sent,        \* submissions sent
  conf,        \* Req -> the background's confirmation: when, which click
  hint,        \* Problems -> when the background last recorded a click
  inbox,       \* control messages under way
  started,     \* history: submissions whose STARTED reached the page
  out,         \* the candidates the last step reported
  count        \* history: candidates reported for each submission

vars == <<setup, now, page, moved, dirty, rt, sent, conf, hint, inbox, started, out, count>>
browser == <<setup, now, page, moved>>
background == <<sent, conf, hint>>

(* Of what is on screen the runtime sees text and element; whose verdict   *)
(* it is and since when it is there, only the properties know.             *)
Blank(at) == [of |-> 0, verdict |-> "none", node |-> 0, since |-> at]
View(shown) == [verdict |-> shown.verdict, node |-> shown.node]
NotCaptured == [verdict |-> "unknown", node |-> 0]
Unset == "unset"

Fresh == [detected |-> "none", epochs |-> {}, actions |-> {},
          last |-> Unset, exactOn |-> Unset, exactVerdict |-> Unset]

-----------------------------------------------------------------------------
(* The runtime's helpers.                                                  *)

(* `click' is the history of the baseline: the click it was taken at.      *)
Epoch(req, prob, at, base, click) ==
  [req |-> req, prob |-> prob, at |-> at, base |-> base, click |-> click,
   superseded |-> FALSE, confirmed |-> 0, proof |-> FALSE, emitted |-> FALSE]
Candidate(req, click) ==
  [req |-> req, of |-> page.shown.of, since |-> page.shown.since, click |-> click]

Result(r, reported) == [rt |-> r, out |-> reported]

PruneExpiredEpochs(r) ==
  [r EXCEPT !.epochs = {e \in @ : now < e.at + EpochTtl},
            !.actions = {a \in @ : now < a.at + EpochTtl}]

ClearEpochs(r) == [r EXCEPT !.epochs = {}, !.actions = {}]

(* Another problem, or none, on screen forgets all epochs.                 *)
ObserveDetectedProblem(r) ==
  IF page.prob # "none" /\ page.prob = r.detected THEN r
  ELSE [ClearEpochs(r) EXCEPT !.detected = page.prob, !.exactOn = Unset]

HasEpochMarker(r) == \E x \in r.epochs \cup r.actions : x.prob = r.detected

Baseline == IF page.prob = "none" THEN NotCaptured ELSE View(page.shown)

-----------------------------------------------------------------------------
(* Control messages.                                                       *)

(* Mutant: a new start leaves the other epochs of its problem armed.       *)
StillArmed(epochs, prob) == epochs
(* Epochs of a problem are exclusive: a new start supersedes the others.   *)
Superseded(epochs, prob) ==
  {IF e.prob = prob THEN [e EXCEPT !.superseded = TRUE] ELSE e : e \in epochs}

(* Mutant: one epoch too many.                                             *)
Overfull(epochs) == Cardinality(epochs) > setup.room
Full(epochs) == Cardinality(epochs) >= setup.room

(* A start supersedes even if it gets no epoch itself; it gets one if the  *)
(* registry has room and exactly one action came before it.                *)
AddStarted(r, m) ==
  LET superseded == Superseded(r.epochs, m.prob)
      eligible == {a \in r.actions : a.prob = m.prob /\ a.at <= m.at}
      With(base, click) == superseded \cup {Epoch(m.req, m.prob, m.at, base, click)}
      a == CHOOSE x \in eligible : TRUE
  IN IF \E e \in r.epochs : e.req = m.req THEN r
     ELSE IF Full(superseded) THEN [r EXCEPT !.epochs = superseded]
     ELSE IF r.detected # m.prob THEN [r EXCEPT !.epochs = With(NotCaptured, 0)]
     ELSE IF Cardinality(eligible) # 1 THEN [r EXCEPT !.epochs = superseded]
     ELSE [r EXCEPT !.epochs = With(a.base, a.at),
                    !.actions = {x \in @ : x.prob # m.prob}]

(* A confirmation whose request was never started names its click and is   *)
(* promoted if that click left the only action.                            *)
PromoteAction(r, m) ==
  LET eligible == {a \in r.actions : a.prob = m.prob /\ a.at <= m.at}
      a == CHOOSE x \in eligible : TRUE
  IN IF \/ m.action = 0 \/ Cardinality(eligible) # 1 \/ Full(r.epochs)
     THEN r
     ELSE IF a.at # m.action \/ (a.base.node # 0 /\ ~m.known) THEN r
     ELSE [r EXCEPT !.epochs = @ \cup {Epoch(m.req, m.prob, a.at, a.base, a.at)},
                    !.actions = {x \in @ : x.prob # m.prob}]

(* Every armed epoch of the problem compares the page with its baseline;   *)
(* a confirmed one with proof of a change reports a verdict on screen.     *)
Armed(r) ==
  {e \in r.epochs : e.prob = r.detected /\ ~e.superseded /\ ~e.emitted /\ e.base # NotCaptured}

(* Mutant: that the verdict was reported is not remembered.                *)
EvaluatedOnly(e, proof, emits) == [e EXCEPT !.proof = proof]
Evaluated(e, proof, emits) == [e EXCEPT !.proof = proof, !.emitted = emits]

(* Mutant: whatever is on screen counts as a change.                       *)
AnyVerdict(e) == TRUE
Meaningful(e) == e.base # View(page.shown)

EvaluateArmedEpochs(r) ==
  LET Proven(e) == e.proof \/ Meaningful(e)
      Emits(e) == /\ e.confirmed # 0 /\ e.confirmed <= now
                  /\ Proven(e) /\ page.shown.verdict # "none"
  IN IF page.prob = "none" THEN Result(r, {})
     ELSE Result([r EXCEPT !.epochs =
                   {IF e \in Armed(r) THEN Evaluated(e, Proven(e), Emits(e)) ELSE e : e \in @}],
                 {Candidate(e.req, e.click) : e \in {x \in Armed(r) : Emits(x)}})

(* Mutant: the confirmation waits for the next change of the document.     *)
ConfirmQuietly(r, m) ==
  Result([r EXCEPT !.epochs =
            {IF e.req = m.req THEN [e EXCEPT !.confirmed = m.at] ELSE e : e \in @}], {})

Confirm(r, m) ==
  LET promoted == IF \E e \in r.epochs : e.req = m.req THEN r ELSE PromoteAction(r, m)
      fits == {e \in promoted.epochs :
                 /\ e.req = m.req /\ e.prob = m.prob
                 /\ ~e.superseded /\ e.confirmed = 0 /\ e.at <= m.at}
      confirmed == [promoted EXCEPT !.epochs =
                      {IF e \in fits THEN [e EXCEPT !.confirmed = m.at] ELSE e : e \in @}]
  IN IF \E e \in fits : e.base # NotCaptured THEN EvaluateArmedEpochs(confirmed)
     ELSE Result(confirmed, {})

ControlMessageReceived(m) ==
  LET r == ObserveDetectedProblem(PruneExpiredEpochs(rt))
  IN IF m.type = "STARTED" THEN Result(AddStarted(r, m), {}) ELSE Confirm(r, m)

-----------------------------------------------------------------------------
(* The older detector and the page's events.                               *)

(* It reports a verdict on a result page it enters, and a verdict that     *)
(* follows another or a blank; the first one it sees elsewhere it learns.  *)
EvaluateVerdictCandidate(r) ==
  LET v == page.shown.verdict
      unbound == {Candidate(0, 0)}
      entered == [r EXCEPT !.exactOn = "on", !.exactVerdict = v, !.last = v]
      learnt == [r EXCEPT !.last = v]
  IN CASE r.detected = "none" -> Result(r, {})
       [] r.detected # "none" /\ v = "none" ->
            Result(IF page.exact THEN [learnt EXCEPT !.exactOn = "on", !.exactVerdict = Unset]
                   ELSE learnt, {})
       [] OTHER ->
            IF page.exact /\ (r.exactOn # "on" \/ (r.exactVerdict # v /\ r.last = "none"))
            THEN Result(entered, unbound)
            ELSE IF r.exactOn = "on" \/ r.last \in {Unset, v} THEN Result(learnt, {})
            ELSE Result(learnt, unbound)

(* Mutant: only epochs silence it, not the click before them.              *)
EvaluateUnlessEpoch(r) ==
  LET armed == EvaluateArmedEpochs(r)
  IN IF armed.out # {} \/ armed.rt.epochs # {} THEN armed
     ELSE EvaluateVerdictCandidate(armed.rt)

(* An epoch or an action of the problem silences the older detector.       *)
Evaluate(r) ==
  LET armed == EvaluateArmedEpochs(r)
  IN IF armed.out # {} \/ HasEpochMarker(armed.rt) THEN armed
     ELSE EvaluateVerdictCandidate(armed.rt)

ClearVerdictTransitions(r) ==
  [r EXCEPT !.exactOn = Unset, !.exactVerdict = Unset, !.last = Unset]

DocumentMutated(r) == Evaluate(ObserveDetectedProblem(PruneExpiredEpochs(r)))
LocationObserved(r) ==
  Evaluate(ClearVerdictTransitions(ObserveDetectedProblem(PruneExpiredEpochs(r))))

(* A click or a visible button: a fresh action of the problem is kept with *)
(* its baseline, else a new one is added, the oldest making room.          *)
Oldest(actions) == CHOOSE a \in actions : \A b \in actions : a.at <= b.at
RecordUiHint(r) ==
  LET actions == PruneExpiredEpochs(r).actions
      room == IF Cardinality(actions) < setup.room THEN actions ELSE actions \ {Oldest(actions)}
  IN IF r.detected = "none" THEN r
     ELSE IF \E a \in actions : a.prob = r.detected /\ now - a.at < HintTtl
     THEN PruneExpiredEpochs(r)
     ELSE [PruneExpiredEpochs(r) EXCEPT !.actions =
             room \cup {[prob |-> r.detected, at |-> now, base |-> Baseline]}]

Init ==
  /\ setup \in Setups
  /\ now = 1
  /\ \E a \in setup.places : page = [prob |-> a.prob, exact |-> a.exact, shown |-> Blank(0)]
  /\ rt = EvaluateVerdictCandidate(ObserveDetectedProblem(Fresh)).rt
  /\ moved = FALSE /\ dirty = FALSE
  /\ sent = {} /\ conf = [r \in Req |-> [at |-> 0, action |-> 0, known |-> FALSE]]
  /\ hint = [p \in Problems |-> 0]
  /\ inbox = <<>> /\ started = {} /\ out = {} /\ count = [r \in Req |-> 0]

-----------------------------------------------------------------------------
(* The page and the runtime's listeners in content.ts.                     *)

Runs(result) ==
  /\ rt' = result.rt /\ out' = result.out
  /\ count' = [r \in Req |-> count[r] + Cardinality({c \in result.out : c.req = r})]
Silent == out' = {} /\ UNCHANGED <<rt, count>>
Changes(shown) == page' = [page EXCEPT !.shown = shown] /\ dirty' = TRUE

(* A click, or the submit button coming into view; the background keeps    *)
(* the older of two close ones.  No two happen at the same instant.        *)
UiHint ==
  /\ page.prob # "none" /\ now < setup.until /\ now' = now + 1
  /\ Runs(Result(RecordUiHint(rt), {}))
  /\ hint' = IF rt.detected = "none" \/ (hint[rt.detected] # 0 /\ now - hint[rt.detected] < HintTtl)
             THEN hint ELSE [hint EXCEPT ![rt.detected] = now]
  /\ UNCHANGED <<setup, page, moved, dirty, sent, conf, inbox, started>>

(* The next submission leaves; its start is on its way or was lost, and a  *)
(* page that only polls for results has no start.                          *)
Submit(r) ==
  /\ r \notin sent /\ \A q \in Req : q < r => q \in sent
  /\ page.prob = setup.sub[r].prob
  /\ sent' = sent \cup {r}
  /\ \/ UNCHANGED inbox
     \/ /\ setup.sub[r].flow = "post" /\ Len(inbox) < MaxInbox
        /\ inbox' = Append(inbox, [type |-> "STARTED", req |-> r, prob |-> setup.sub[r].prob, at |-> now])
  /\ Silent /\ UNCHANGED <<browser, dirty, conf, hint, started>>

Clears ==
  /\ page.shown.of # 0 /\ Changes(Blank(now))
  /\ Silent /\ UNCHANGED <<setup, now, moved, background, inbox, started>>

(* A submission's verdict appears, of the newest or an older one.          *)
Shows(r) ==
  /\ r \in sent /\ page.prob = setup.sub[r].prob /\ page.shown.of # r
  /\ \E v \in Verdicts, n \in Nodes :
       Changes([of |-> r, verdict |-> v, node |-> n, since |-> now])
  /\ Silent /\ UNCHANGED <<setup, now, moved, background, inbox, started>>

(* The address changes: another problem, no problem, or the result page.   *)
Navigates ==
  /\ ~moved
  /\ \E a \in setup.places :
       /\ a # [prob |-> page.prob, exact |-> page.exact]
       /\ page' = [prob |-> a.prob, exact |-> a.exact,
                   shown |-> IF a.prob = page.prob THEN page.shown ELSE Blank(now)]
  /\ moved' = TRUE /\ dirty' = TRUE
  /\ Silent /\ UNCHANGED <<setup, now, background, inbox, started>>

(* The address poll, and the observer's batch, which polls first.          *)
Observes ==
  /\ moved /\ moved' = FALSE
  /\ Runs(LocationObserved(rt))
  /\ UNCHANGED <<setup, now, page, dirty, background, inbox, started>>

Mutates ==
  /\ ~moved /\ dirty' = FALSE
  /\ Runs(DocumentMutated(rt))
  /\ UNCHANGED <<browser, background, inbox, started>>

PageHidden ==
  /\ Runs(Result(ClearVerdictTransitions(ClearEpochs(rt)), {}))
  /\ UNCHANGED <<browser, dirty, background, inbox, started>>

PageShown ==
  /\ moved' = FALSE
  /\ Runs(EvaluateVerdictCandidate(
            ClearVerdictTransitions(ObserveDetectedProblem(ClearEpochs(rt)))))
  /\ UNCHANGED <<setup, now, page, dirty, background, inbox, started>>

-----------------------------------------------------------------------------
(* The background and the message channel.                                 *)

Sends(r, c) ==
  \/ UNCHANGED inbox
  \/ /\ Len(inbox) < MaxInbox
     /\ inbox' = Append(inbox, [type |-> "CONFIRMED", req |-> r, prob |-> setup.sub[r].prob,
                                at |-> c.at, action |-> c.action, known |-> c.known])

(* The submission's poll was answered and its confirmation recorded.  Of a *)
(* page that only polls the click is named, and whether a result was known *)
(* before it.                                                              *)
Confirms(r) ==
  LET click == hint[setup.sub[r].prob]
      c == IF setup.sub[r].flow = "post" THEN [at |-> now, action |-> 0, known |-> FALSE]
           ELSE [at |-> now, action |-> click,
                 known |-> \E q \in Req : setup.sub[q].flow = "result" /\ conf[q].at \in 1 .. click]
  IN /\ r \in sent /\ conf[r].at = 0
     /\ setup.sub[r].flow = "result" => click # 0 /\ now - click < HintTtl
     /\ conf' = [conf EXCEPT ![r] = c]
     /\ Sends(r, c)
     /\ Silent /\ UNCHANGED <<browser, dirty, sent, hint, started>>

(* A worker that starts sends the confirmations again.                     *)
Replays(r) ==
  /\ conf[r].at # 0 /\ Sends(r, conf[r]) /\ inbox' # inbox
  /\ Silent /\ UNCHANGED <<browser, dirty, background, started>>

Delivers ==
  /\ inbox # <<>> /\ inbox' = Tail(inbox)
  /\ LET m == Head(inbox)
     IN /\ Runs(ControlMessageReceived(m))
        /\ started' = IF m.type = "STARTED" THEN started \cup {m.req} ELSE started
  /\ UNCHANGED <<browser, dirty, background>>

Tick ==
  /\ now < setup.until /\ now' = now + 1
  /\ Silent /\ UNCHANGED <<setup, page, moved, dirty, background, inbox, started>>

Next ==
  \/ \E r \in Req : Submit(r) \/ Shows(r) \/ Confirms(r) \/ Replays(r)
  \/ UiHint \/ Clears \/ Navigates \/ Observes \/ Mutates \/ PageHidden \/ PageShown
  \/ Delivers \/ Tick

Spec == Init /\ [][Next]_vars
-----------------------------------------------------------------------------
(* Properties.                                                             *)

TypeOK ==
  /\ page.prob \in Problems \cup {"none"} /\ page.shown.of \in sent \cup {0}
  /\ rt.detected \in Problems \cup {"none"}
  /\ Cardinality(rt.epochs) <= setup.room /\ Cardinality(rt.actions) <= setup.room
  /\ \A e, f \in rt.epochs : e.req = f.req => e = f
  /\ \A e \in rt.epochs : e.req \in sent /\ e.at \in 1 .. now /\ e.confirmed \in 0 .. now
                        /\ (e.emitted => e.proof /\ e.confirmed # 0)
  /\ rt.last \in Verdicts \cup {"none", Unset} /\ rt.exactOn \in {Unset, "on"}
  /\ rt.exactVerdict \in Verdicts \cup {Unset}
  /\ Len(inbox) <= MaxInbox /\ started \subseteq sent

(* A submission is reported once, whatever is replayed, hidden, expired or *)
(* submitted again in the meantime.                                        *)
OncePerRequest == \A r \in Req : count[r] <= 1

(* A candidate that names a request never carries a verdict that was on    *)
(* screen already at the click its baseline was taken at, however long it  *)
(* lingers; and if the request was started, none of a later submission of  *)
(* whose start the page has heard.                                         *)
VerdictIsOwn ==
  \A c \in out : c.req # 0 =>
    /\ c.since > c.click
    /\ c.req \in started /\ c.of > c.req => c.of \notin started

(* While an epoch or a click of the problem is remembered, no verdict is   *)
(* reported without a request.                                             *)
NoUnboundUnderMarker ==
  \A c \in out : c.req = 0 => ~HasEpochMarker(rt)

(* Nothing armed is left behind: when the document's changes are observed, *)
(* an epoch still armed and confirmed sees no verdict but its baseline.    *)
ArmedIsReported ==
  ~dirty /\ ~moved /\ page.shown.verdict # "none" =>
    \A e \in Armed(rt) : e.confirmed # 0 => ~e.proof /\ e.base = View(page.shown)
=============================================================================
