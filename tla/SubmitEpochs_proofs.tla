------------------------- MODULE SubmitEpochs_proofs ------------------------
(***************************************************************************)
(* The properties of the content runtime for any number of submissions,    *)
(* problems, verdicts and controls under way.  The invariant says what a   *)
(* request has used up: the start of a posted one has been heard, the      *)
(* click of a polled one is no longer among the actions.  So a request     *)
(* whose epoch expired or was cleared gets no second one (Once), and an    *)
(* epoch that has not been superseded is the last one heard of its problem *)
(* (Exclusive).  What differs from a baseline came on screen after the     *)
(* click that took it (Ahead), for the page had to change since.           *)
(***************************************************************************)
EXTENDS SubmitEpochs, TLAPS, FiniteSetTheorems, SequenceTheorems

ProbOf(q) == setup.sub[q].prob
Posted(q) == setup.sub[q].flow = "post"
Texts == Verdicts \cup {"none"}
Bases == [verdict : Texts \cup {"unknown"}, node : Nodes \cup {0}]
Epochs ==
  [req : Req, prob : Problems, at : Nat, base : Bases, click : Nat, superseded : BOOLEAN,
   confirmed : Nat, proof : BOOLEAN, emitted : BOOLEAN]
Actions == [prob : Problems, at : Nat, base : Bases]
Runtimes ==
  [detected : Problems \cup {"none"}, epochs : SUBSET Epochs, actions : SUBSET Actions,
   last : Texts \cup {Unset}, exactOn : {Unset, "on"}, exactVerdict : Verdicts \cup {Unset}]
Shown == [of : Req \cup {0}, verdict : Texts, node : Nodes \cup {0}, since : Nat]
Pages == [prob : Problems \cup {"none"}, exact : BOOLEAN, shown : Shown]
Confirmations == [at : Nat, action : Nat, known : BOOLEAN]
Starts == [type : {"STARTED"}, req : Req, prob : Problems, at : Nat]
Confirmed ==
  [type : {"CONFIRMED"}, req : Req, prob : Problems, at : Nat, action : Nat, known : BOOLEAN]

Types ==
  /\ setup \in Setups /\ now \in Nat \ {0} /\ page \in Pages
  /\ moved \in BOOLEAN /\ dirty \in BOOLEAN
  /\ sent \in SUBSET Req /\ conf \in [Req -> Confirmations] /\ hint \in [Problems -> Nat]
  /\ inbox \in Seq(Starts \cup Confirmed) /\ started \in SUBSET sent
  /\ count \in [Req -> Nat]

(* What the page shows.                                                    *)
Screen ==
  /\ page.shown.of = 0 => page.shown = Blank(page.shown.since)
  /\ page.shown.of # 0 =>
       /\ page.shown.of \in sent /\ page.prob = ProbOf(page.shown.of)
       /\ page.shown.verdict # "none"

(* The background.                                                         *)
Sending ==
  /\ \A q, s \in Req : s \in sent /\ q < s => q \in sent
  /\ \A q \in Req : conf[q].at # 0 =>
       /\ q \in sent /\ conf[q].at <= now
       /\ IF Posted(q) THEN conf[q].action = 0 ELSE conf[q].action < now
  /\ \A p \in Problems : hint[p] < now

(* The channel.                                                            *)
Message(m) ==
  /\ m.prob = ProbOf(m.req) /\ m.req \in sent
  /\ m.type = "STARTED" => Posted(m.req) /\ m.at \in 1 .. now /\ \A q \in started : q < m.req
  /\ m.type = "CONFIRMED" =>
       /\ m.at # 0 /\ m.at = conf[m.req].at
       /\ m.action = conf[m.req].action /\ m.known = conf[m.req].known
Channel ==
  /\ Len(inbox) <= MaxInbox
  /\ \A i \in 1 .. Len(inbox) : Message(inbox[i])
  /\ \A i, j \in 1 .. Len(inbox) :
       i < j /\ inbox[i].type = "STARTED" /\ inbox[j].type = "STARTED"
         => inbox[i].req < inbox[j].req
  /\ \A q \in started : Posted(q)

(* What is no longer the baseline was changed after the baseline's click.  *)
Ahead(base, click, proven) ==
  base # NotCaptured =>
    /\ click < now
    /\ proven \/ base # View(page.shown) => page.shown.since > click

(* The runtime.                                                            *)
EpochOK(e) ==
  /\ e.req \in sent /\ e.prob = ProbOf(e.req) /\ e.at \in 1 .. now /\ e.confirmed <= now
  /\ e.confirmed # 0 => conf[e.req].at # 0
  /\ e.emitted => e.proof /\ e.confirmed # 0
  /\ Ahead(e.base, e.click, e.proof)
ActionOK(a) == a.at \in 1 .. now /\ Ahead(a.base, a.at, FALSE)
Shape(r) ==
  /\ r \in Runtimes
  /\ IsFiniteSet(r.epochs) /\ Cardinality(r.epochs) <= setup.room
  /\ IsFiniteSet(r.actions) /\ Cardinality(r.actions) <= setup.room
  /\ \A e, f \in r.epochs : e.req = f.req => e = f
  /\ \A e \in r.epochs : EpochOK(e)
  /\ \A a \in r.actions : ActionOK(a)

Spent(r, q, heard) ==
  IF Posted(q) THEN q \in heard
  ELSE conf[q].at # 0 /\ \A a \in r.actions : a.prob = ProbOf(q) => a.at # conf[q].action
Once(r, heard) ==
  /\ \A e \in r.epochs : Spent(r, e.req, heard)
  /\ \A q \in Req : count[q] # 0 =>
       Spent(r, q, heard) /\ \A e \in r.epochs : e.req = q => e.emitted
Exclusive(r, heard) ==
  \A e \in r.epochs, q \in heard :
    q > e.req /\ e.req \in heard /\ ProbOf(q) = e.prob => e.superseded

Good(r, heard) == Shape(r) /\ Once(r, heard) /\ Exclusive(r, heard)

World == Types /\ Screen /\ Sending /\ Channel
Inner ==
  /\ Good(rt, started) /\ OncePerRequest /\ NoUnboundUnderMarker /\ ArmedIsReported
  /\ VerdictIsOwn
SInv == World /\ Inner
-----------------------------------------------------------------------------
(* Facts about the constants and about sets.                               *)
LEMMA Constants ==
  ASSUME Types
  PROVE  /\ setup.room \in Nat \ {0} /\ "none" \notin Problems /\ "none" \notin Verdicts
         /\ \A q \in Req : ProbOf(q) \in Problems /\ q \in Nat \ {0}
         /\ IsFiniteSet(Req) /\ EpochTtl \in Nat /\ HintTtl \in Nat /\ 0 \notin Nodes
<1>1. setup.sub \in [Req -> [flow : {"post", "result"}, prob : Problems]]
  BY SubmitEpochsAssumption DEF Types
<1>2. \A q \in Req : ProbOf(q) \in Problems
  BY <1>1 DEF ProbOf
<1>3. Cardinality(Req) \in Nat
  BY FS_CardinalityType, SubmitEpochsAssumption
<1>4. \A q \in Req : q \in Nat \ {0}
  <2> SUFFICES ASSUME NEW q \in Req PROVE q \in Nat \ {0}
    OBVIOUS
  <2>1. q \in 1 .. Cardinality(Req)
    BY SubmitEpochsAssumption
  <2> QED
    BY <1>3, <2>1
<1> QED
  BY <1>2, <1>4, SubmitEpochsAssumption DEF Types

LEMMA ImageFinite ==
  ASSUME NEW S, IsFiniteSet(S), NEW f, f = [x \in S |-> f[x]]
  PROVE  /\ IsFiniteSet({f[x] : x \in S})
         /\ Cardinality({f[x] : x \in S}) <= Cardinality(S)
<1> DEFINE T == {f[x] : x \in S}
<1>1. f \in [S -> T] /\ \A t \in T : \E x \in S : f[x] = t
  OBVIOUS
<1>2. f \in Surjection(S, T)
  BY <1>1 DEF Surjection
<1> QED
  BY <1>2, FS_Surjection

(* The oldest of a set of actions is one of them.                          *)
LEMMA OldestExists ==
  ASSUME NEW S \in SUBSET Actions, S # {}
  PROVE  Oldest(S) \in S
<1> DEFINE T == {a.at : a \in S}
<1>1. T \subseteq Nat /\ T # {}
  BY DEF Actions
<1>2. \E t \in T : \A u \in T : <<u, t>> \notin OpToRel(<, Nat)
  BY <1>1, NatLessThanWellFounded, WFMin
<1>3. PICK t \in T : \A u \in T : ~(u < t)
  BY <1>1, <1>2 DEF OpToRel
<1>4. PICK a \in S : a.at = t
  OBVIOUS
<1>5. \A b \in S : a.at <= b.at
  <2> SUFFICES ASSUME NEW b \in S PROVE a.at <= b.at
    OBVIOUS
  <2>1. b.at \in T /\ b.at \in Nat /\ t \in Nat
    BY <1>1
  <2>2. ~(b.at < t)
    BY <1>3, <2>1
  <2> QED
    BY <1>4, <2>1, <2>2
<1> QED
  BY <1>4, <1>5 DEF Oldest
-----------------------------------------------------------------------------
(* What the rewriting of a runtime keeps.                                  *)
LEMMA SpentFewer ==
  ASSUME NEW r, NEW x, NEW heard, NEW more, NEW q,
         x.actions \subseteq r.actions, heard \subseteq more, Spent(r, q, heard)
  PROVE  Spent(x, q, more)
  BY DEF Spent

(* Forgetting epochs and actions.                                          *)
LEMMA Fewer ==
  ASSUME Types, NEW r, NEW heard, Good(r, heard),
         NEW x \in Runtimes, x.epochs \subseteq r.epochs, x.actions \subseteq r.actions
  PROVE  Good(x, heard)
<1>1. IsFiniteSet(x.epochs) /\ Cardinality(x.epochs) <= Cardinality(r.epochs)
      /\ IsFiniteSet(x.actions) /\ Cardinality(x.actions) <= Cardinality(r.actions)
  BY FS_Subset DEF Good, Shape
<1>2. /\ Cardinality(x.epochs) \in Nat /\ Cardinality(r.epochs) \in Nat
      /\ Cardinality(x.actions) \in Nat /\ Cardinality(r.actions) \in Nat
  BY <1>1, FS_CardinalityType DEF Good, Shape
<1>3. Shape(x)
  BY <1>1, <1>2, Constants DEF Good, Shape
<1>4. Once(x, heard)
  BY SpentFewer DEF Good, Once
<1>5. Exclusive(x, heard)
  BY DEF Good, Exclusive
<1> QED
  BY <1>3, <1>4, <1>5 DEF Good

(* Rewriting each epoch into one of the same request.                      *)
LEMMA Rewritten ==
  ASSUME Types, NEW r, NEW heard, Good(r, heard),
         NEW f, f = [e \in r.epochs |-> f[e]],
         \A e \in r.epochs :
           /\ f[e].req = e.req /\ f[e].prob = e.prob /\ EpochOK(f[e])
           /\ (e.superseded => f[e].superseded) /\ (e.emitted => f[e].emitted),
         NEW x \in Runtimes, x.epochs = {f[e] : e \in r.epochs}, x.actions = r.actions
  PROVE  Good(x, heard)
<1>1. IsFiniteSet(x.epochs) /\ Cardinality(x.epochs) <= Cardinality(r.epochs)
  BY ImageFinite DEF Good, Shape
<1>2. Cardinality(x.epochs) \in Nat /\ Cardinality(r.epochs) \in Nat
  BY <1>1, FS_CardinalityType DEF Good, Shape
<1>3. \A e \in x.epochs : EpochOK(e)
  OBVIOUS
<1>4. ASSUME NEW e \in x.epochs, NEW g \in x.epochs, e.req = g.req
      PROVE  e = g
  <2>1. PICK d \in r.epochs : e = f[d]
    OBVIOUS
  <2>2. PICK h \in r.epochs : g = f[h]
    OBVIOUS
  <2>3. d.req = h.req
    BY <1>4, <2>1, <2>2
  <2> QED
    BY <2>1, <2>2, <2>3 DEF Good, Shape
<1>5. Shape(x)
  BY <1>1, <1>2, <1>3, <1>4, Constants DEF Good, Shape
<1>6. Once(x, heard)
  <2>1. \A q : Spent(r, q, heard) => Spent(x, q, heard)
    BY SpentFewer
  <2>2. \A e \in x.epochs : Spent(x, e.req, heard)
    BY <2>1 DEF Good, Once
  <2>3. ASSUME NEW q \in Req, count[q] # 0
        PROVE  Spent(x, q, heard) /\ \A e \in x.epochs : e.req = q => e.emitted
    BY <2>1, <2>3 DEF Good, Once
  <2> QED
    BY <2>2, <2>3 DEF Once
<1>7. Exclusive(x, heard)
  BY DEF Good, Exclusive
<1> QED
  BY <1>5, <1>6, <1>7 DEF Good

(* A new epoch: the request it is for was not spent, and now it is.        *)
LEMMA Extended ==
  ASSUME Types, NEW r, NEW heard, Good(r, heard), NEW e \in Epochs, EpochOK(e),
         NEW x \in Runtimes, x.epochs = r.epochs \cup {e}, x.actions \subseteq r.actions,
         Cardinality(r.epochs) < setup.room, \A g \in r.epochs : g.req # e.req,
         count[e.req] = 0, Spent(x, e.req, heard),
         \A q \in heard : q > e.req /\ e.req \in heard /\ ProbOf(q) = e.prob => e.superseded
  PROVE  Good(x, heard)
<1>1. IsFiniteSet(x.epochs) /\ Cardinality(x.epochs) = Cardinality(r.epochs) + 1
  <2>1. e \notin r.epochs
    OBVIOUS
  <2>2. IsFiniteSet(r.epochs)
    BY DEF Good, Shape
  <2>3. IsFiniteSet(r.epochs \cup {e})
        /\ Cardinality(r.epochs \cup {e}) = Cardinality(r.epochs) + 1
    BY <2>1, <2>2, FS_AddElement
  <2> QED
    BY <2>3
<1>2. IsFiniteSet(x.actions) /\ Cardinality(x.actions) <= Cardinality(r.actions)
  BY FS_Subset DEF Good, Shape
<1>3. /\ Cardinality(r.epochs) \in Nat
      /\ Cardinality(x.actions) \in Nat /\ Cardinality(r.actions) \in Nat
  BY <1>2, FS_CardinalityType DEF Good, Shape
<1>4. Shape(x)
  BY <1>1, <1>2, <1>3, Constants DEF Good, Shape
<1>5. Once(x, heard)
  <2>1. \A q : Spent(r, q, heard) => Spent(x, q, heard)
    BY SpentFewer
  <2> QED
    BY <2>1 DEF Good, Once
<1>6. Exclusive(x, heard)
  BY DEF Good, Exclusive
<1> QED
  BY <1>4, <1>5, <1>6 DEF Good
-----------------------------------------------------------------------------
(* Pruning, forgetting and looking at the page's problem.                  *)
Reports(r) ==
  page.shown.verdict # "none" =>
    \A e \in Armed(r) : e.confirmed # 0 => ~e.proof /\ e.base = View(page.shown)

LEMMA PrunedGood ==
  ASSUME Types, NEW r, NEW heard, Good(r, heard), NEW x, x = PruneExpiredEpochs(r)
  PROVE  /\ Good(x, heard) /\ x.detected = r.detected
         /\ x.epochs \subseteq r.epochs /\ x.actions \subseteq r.actions
<1>1. r \in Runtimes
  BY DEF Good, Shape
<1>2. /\ x \in Runtimes /\ x.detected = r.detected
      /\ x.epochs \subseteq r.epochs /\ x.actions \subseteq r.actions
  BY <1>1 DEF PruneExpiredEpochs, Runtimes
<1> QED
  BY <1>2, Fewer

LEMMA ClearedGood ==
  ASSUME Types, NEW r, NEW heard, Good(r, heard), NEW x, x = ClearEpochs(r)
  PROVE  Good(x, heard) /\ x.detected = r.detected /\ x.epochs = {} /\ x.actions = {}
<1>1. r \in Runtimes
  BY DEF Good, Shape
<1>2. x \in Runtimes /\ x.detected = r.detected /\ x.epochs = {} /\ x.actions = {}
  BY <1>1 DEF ClearEpochs, Runtimes
<1> QED
  BY <1>2, Fewer

LEMMA TransitionsGood ==
  ASSUME Types, NEW r, NEW heard, Good(r, heard), NEW x, x = ClearVerdictTransitions(r)
  PROVE  /\ Good(x, heard) /\ x.detected = r.detected
         /\ x.epochs = r.epochs /\ x.actions = r.actions
<1>1. r \in Runtimes
  BY DEF Good, Shape
<1>2. /\ x \in Runtimes /\ x.detected = r.detected
      /\ x.epochs = r.epochs /\ x.actions = r.actions
  BY <1>1 DEF ClearVerdictTransitions, Runtimes
<1> QED
  BY <1>2, Fewer

LEMMA ObservedGood ==
  ASSUME Types, NEW r, NEW heard, Good(r, heard), NEW x, x = ObserveDetectedProblem(r)
  PROVE  /\ Good(x, heard) /\ x.detected = page.prob
         /\ x.epochs \subseteq r.epochs /\ x.actions \subseteq r.actions
         /\ x.epochs = {} \/ x.detected = r.detected
<1>1. r \in Runtimes /\ page.prob \in Problems \cup {"none"}
  BY DEF Good, Shape, Types, Pages
<1>2. /\ x \in Runtimes /\ x.detected = page.prob
      /\ x.epochs \subseteq r.epochs /\ x.actions \subseteq r.actions
      /\ x.epochs = {} \/ x.detected = r.detected
  BY <1>1 DEF ObserveDetectedProblem, ClearEpochs, Runtimes
<1> QED
  BY <1>2, Fewer

(* What each handler starts with.                                          *)
Looked(r) == ObserveDetectedProblem(PruneExpiredEpochs(r))

LEMMA LookedGood ==
  ASSUME Types, NEW r, NEW heard, Good(r, heard), NEW x, x = Looked(r)
  PROVE  /\ Good(x, heard) /\ x.detected = page.prob
         /\ x.epochs \subseteq r.epochs /\ x.actions \subseteq r.actions
         /\ Reports(r) => Reports(x)
<1>1. PICK p : p = PruneExpiredEpochs(r)
  OBVIOUS
<1>2. /\ Good(p, heard) /\ p.detected = r.detected
      /\ p.epochs \subseteq r.epochs /\ p.actions \subseteq r.actions
  BY <1>1, PrunedGood
<1>3. x = ObserveDetectedProblem(p)
  BY <1>1 DEF Looked
<1>4. /\ Good(x, heard) /\ x.detected = page.prob
      /\ x.epochs \subseteq p.epochs /\ x.actions \subseteq p.actions
      /\ x.epochs = {} \/ x.detected = p.detected
  BY <1>2, <1>3, ObservedGood
<1>5. Armed(x) \subseteq Armed(r)
  BY <1>2, <1>4 DEF Armed
<1> QED
  BY <1>2, <1>4, <1>5 DEF Reports
-----------------------------------------------------------------------------
(* A result the runtime may return: what it reports has not been reported, *)
(* is remembered, and is the verdict of the request it names.              *)
IsOwn(c) ==
  /\ c.since > c.click
  /\ c.req \in started /\ c.of > c.req => c.of \notin started
Reportable(c, r) ==
  \/ c.req = 0 /\ ~HasEpochMarker(r)
  \/ /\ c.req \in Req /\ count[c.req] = 0 /\ IsOwn(c)
     /\ \E e \in r.epochs : e.req = c.req /\ e.emitted /\ c = Candidate(e.req, e.click)
Sound(x) == Good(x.rt, started) /\ \A c \in x.out : Reportable(c, x.rt)

LEMMA EvaluatedTypes ==
  ASSUME NEW e \in Epochs, NEW proof \in BOOLEAN, NEW emits \in BOOLEAN,
         NEW g, g = Evaluated(e, proof, emits)
  PROVE  /\ g \in Epochs /\ g.req = e.req /\ g.prob = e.prob /\ g.at = e.at
         /\ g.base = e.base /\ g.click = e.click /\ g.superseded = e.superseded
         /\ g.confirmed = e.confirmed /\ g.proof = proof /\ g.emitted = emits
  BY DEF Evaluated, Epochs

Proof(e) == e.proof \/ e.base # View(page.shown)
Emission(e) ==
  e.confirmed # 0 /\ e.confirmed <= now /\ Proof(e) /\ page.shown.verdict # "none"
Judged(e, r) == IF e \in Armed(r) THEN Evaluated(e, Proof(e), Emission(e)) ELSE e

LEMMA EvaluateArmedIs ==
  ASSUME NEW r
  PROVE  EvaluateArmedEpochs(r) =
           IF page.prob = "none" THEN Result(r, {})
           ELSE Result([r EXCEPT !.epochs = {Judged(e, r) : e \in @}],
                       {Candidate(e.req, e.click) :
                          e \in {x \in Armed(r) : Emission(x)}})
  BY DEF EvaluateArmedEpochs, Judged, Emission, Proof, Meaningful

LEMMA JudgedOK ==
  ASSUME Types, NEW r, NEW heard, Good(r, heard), NEW e \in r.epochs, NEW g, g = Judged(e, r)
  PROVE  /\ g \in Epochs /\ g.req = e.req /\ g.prob = e.prob /\ EpochOK(g)
         /\ g.superseded = e.superseded /\ (e.emitted => g.emitted)
         /\ g.base = e.base /\ g.click = e.click /\ g.confirmed = e.confirmed
         /\ e \in Armed(r) => g.proof = Proof(e) /\ g.emitted = Emission(e)
         /\ e \notin Armed(r) => g = e
<1>1. e \in Epochs /\ EpochOK(e)
  BY DEF Good, Shape, Runtimes
<1>2. Proof(e) \in BOOLEAN /\ Emission(e) \in BOOLEAN
  BY <1>1 DEF Proof, Emission, Epochs
<1>3. CASE e \in Armed(r)
  <2>1. g = Evaluated(e, Proof(e), Emission(e)) /\ ~e.emitted
    BY <1>3 DEF Judged, Armed
  <2>2. /\ g \in Epochs /\ g.req = e.req /\ g.prob = e.prob /\ g.at = e.at
        /\ g.base = e.base /\ g.click = e.click /\ g.superseded = e.superseded
        /\ g.confirmed = e.confirmed /\ g.proof = Proof(e) /\ g.emitted = Emission(e)
    BY <1>1, <1>2, <2>1, EvaluatedTypes
  <2>3. EpochOK(g)
    BY <1>1, <2>2 DEF EpochOK, Emission, Proof, Ahead
  <2> QED
    BY <1>3, <2>1, <2>2, <2>3
<1>4. CASE e \notin Armed(r)
  BY <1>1, <1>4 DEF Judged
<1> QED
  BY <1>3, <1>4

(* What an armed epoch reports came after its click; and had the start of  *)
(* the verdict's submission been heard, the epoch would be superseded.     *)
LEMMA ShownIsOwn ==
  ASSUME Types, Screen, NEW r, Good(r, started), r.detected = page.prob,
         NEW e \in Armed(r), Emission(e), NEW c, c = Candidate(e.req, e.click)
  PROVE  IsOwn(c)
<1>1. /\ e \in r.epochs /\ e.prob = r.detected /\ ~e.superseded /\ e.base # NotCaptured
      /\ page.shown.verdict # "none" /\ Proof(e)
  BY DEF Armed, Emission
<1>2. EpochOK(e)
  BY <1>1 DEF Good, Shape
<1>3. page.shown.since > e.click
  BY <1>1, <1>2 DEF EpochOK, Ahead, Proof
<1>4. /\ c.req = e.req /\ c.of = page.shown.of
      /\ c.since = page.shown.since /\ c.click = e.click
  BY DEF Candidate
<1>5. ASSUME e.req \in started, page.shown.of > e.req, page.shown.of \in started
      PROVE  FALSE
  <2>1. page.shown.of # 0
    BY <1>1 DEF Screen, Blank
  <2>2. ProbOf(page.shown.of) = e.prob
    BY <1>1, <2>1 DEF Screen
  <2> QED
    BY <1>1, <1>5, <2>2 DEF Good, Exclusive
<1> QED
  BY <1>3, <1>4, <1>5 DEF IsOwn

LEMMA EvaluateArmedSound ==
  ASSUME Types, Screen, NEW r, Good(r, started), r.detected = page.prob,
         NEW x, x = EvaluateArmedEpochs(r)
  PROVE  /\ Sound(x) /\ Reports(x.rt) /\ x.rt.detected = r.detected
         /\ x.rt.actions = r.actions /\ \A c \in x.out : c.req # 0
<1>0. r \in Runtimes
  BY DEF Good, Shape
<1>1. CASE page.prob = "none"
  <2>1. x.rt = r /\ x.out = {}
    BY <1>1, EvaluateArmedIs DEF Result
  <2>2. Armed(r) = {}
    <3>1. \A e \in r.epochs : e.prob \in Problems
      BY <1>0 DEF Runtimes, Epochs
    <3> QED
      BY <1>1, <3>1, Constants DEF Armed
  <2> QED
    BY <2>1, <2>2 DEF Sound, Reports
<1>2. CASE page.prob # "none"
  <2> DEFINE f == [e \in r.epochs |-> Judged(e, r)]
             y == [r EXCEPT !.epochs = {Judged(e, r) : e \in @}]
             o == {Candidate(e.req, e.click) : e \in {a \in Armed(r) : Emission(a)}}
  <2>1. x.rt = y /\ x.out = o
    BY <1>2, EvaluateArmedIs DEF Result
  <2>2. \A e \in r.epochs :
          /\ f[e] \in Epochs /\ f[e].req = e.req /\ f[e].prob = e.prob /\ EpochOK(f[e])
          /\ f[e].superseded = e.superseded /\ (e.emitted => f[e].emitted)
          /\ f[e].base = e.base /\ f[e].click = e.click /\ f[e].confirmed = e.confirmed
          /\ e \in Armed(r) => f[e].proof = Proof(e) /\ f[e].emitted = Emission(e)
          /\ e \notin Armed(r) => f[e] = e
    <3> SUFFICES ASSUME NEW e \in r.epochs
        PROVE /\ f[e] \in Epochs /\ f[e].req = e.req /\ f[e].prob = e.prob /\ EpochOK(f[e])
              /\ f[e].superseded = e.superseded /\ (e.emitted => f[e].emitted)
              /\ f[e].base = e.base /\ f[e].click = e.click /\ f[e].confirmed = e.confirmed
              /\ e \in Armed(r) => f[e].proof = Proof(e) /\ f[e].emitted = Emission(e)
              /\ e \notin Armed(r) => f[e] = e
      OBVIOUS
    <3>1. PICK g : g = Judged(e, r)
      OBVIOUS
    <3>2. f[e] = g
      BY <3>1
    <3> HIDE DEF f
    <3> QED
      BY <3>1, <3>2, JudgedOK
  <2>3. /\ y.epochs = {f[e] : e \in r.epochs} /\ y.actions = r.actions
        /\ y.detected = r.detected
    BY <1>0 DEF Runtimes
  <2>4. y \in Runtimes
    <3>1. {Judged(e, r) : e \in r.epochs} \subseteq Epochs
      BY <2>2
    <3> QED
      BY <1>0, <3>1 DEF Runtimes
  <2>5. f = [e \in r.epochs |-> f[e]]
    OBVIOUS
  <2> HIDE DEF f, y
  <2>6. Good(y, started)
    BY <2>2, <2>3, <2>4, <2>5, Rewritten
  <2>7. ASSUME NEW c \in o
        PROVE  Reportable(c, y) /\ c.req # 0
    <3>1. PICK e \in Armed(r) : Emission(e) /\ c = Candidate(e.req, e.click)
      OBVIOUS
    <3>2. e \in r.epochs /\ e.req \in Req /\ ~e.emitted
      BY <1>0 DEF Armed, Runtimes, Epochs
    <3>3. count[e.req] = 0
      BY <3>2 DEF Good, Once
    <3>4. f[e] \in y.epochs /\ f[e].req = e.req /\ f[e].click = e.click /\ f[e].emitted
      BY <2>2, <2>3, <3>1, <3>2
    <3>5. IsOwn(c)
      BY <3>1, ShownIsOwn
    <3>6. c.req = e.req
      BY <3>1 DEF Candidate
    <3> QED
      BY <3>1, <3>2, <3>3, <3>4, <3>5, <3>6, Constants DEF Reportable
  <2>8. ASSUME page.shown.verdict # "none", NEW g \in Armed(y), g.confirmed # 0
        PROVE  ~g.proof /\ g.base = View(page.shown)
    <3>1. PICK e \in r.epochs : g = f[e]
      BY <2>3 DEF Armed
    <3>2. /\ g.prob = y.detected /\ ~g.superseded /\ ~g.emitted /\ g.base # NotCaptured
      BY DEF Armed
    <3>3. e \in Armed(r)
      BY <2>2, <2>3, <3>1, <3>2 DEF Armed
    <3>4. g.base = e.base /\ g.confirmed = e.confirmed /\ g.proof = Proof(e) /\ ~Emission(e)
      BY <2>2, <3>1, <3>2, <3>3
    <3>5. e.confirmed <= now
      BY DEF Good, Shape, EpochOK
    <3>6. ~Proof(e)
      BY <2>8, <3>4, <3>5 DEF Emission
    <3> QED
      BY <3>4, <3>6 DEF Proof
  <2> QED
    BY <2>1, <2>3, <2>6, <2>7, <2>8 DEF Sound, Reports
<1> QED
  BY <1>1, <1>2

(* The older detector touches neither epochs nor actions.                  *)
LEMMA CandidateIs ==
  ASSUME Types, NEW r, Good(r, started), NEW x, x = EvaluateVerdictCandidate(r)
  PROVE  /\ x.rt \in Runtimes /\ x.rt.epochs = r.epochs /\ x.rt.actions = r.actions
         /\ x.rt.detected = r.detected
         /\ x.out \in {{}, {Candidate(0, 0)}}
<1>1. r \in Runtimes /\ page.shown.verdict \in Texts
  BY DEF Good, Shape, Types, Pages, Shown
<1> DEFINE v == page.shown.verdict
           unbound == {Candidate(0, 0)}
           entered == [r EXCEPT !.exactOn = "on", !.exactVerdict = v, !.last = v]
           learnt == [r EXCEPT !.last = v]
           blank == [learnt EXCEPT !.exactOn = "on", !.exactVerdict = Unset]
<1>2. /\ learnt \in Runtimes /\ learnt.epochs = r.epochs /\ learnt.actions = r.actions
      /\ learnt.detected = r.detected
  BY <1>1 DEF Runtimes
<1>3. /\ blank \in Runtimes /\ blank.epochs = r.epochs /\ blank.actions = r.actions
      /\ blank.detected = r.detected
  BY <1>2 DEF Runtimes
<1>4. v # "none" =>
      /\ entered \in Runtimes /\ entered.epochs = r.epochs /\ entered.actions = r.actions
      /\ entered.detected = r.detected
  BY <1>1 DEF Runtimes, Texts
<1>5. \/ x = Result(r, {}) \/ x = Result(blank, {}) \/ x = Result(learnt, {})
      \/ x = Result(learnt, unbound) \/ (v # "none" /\ x = Result(entered, unbound))
  <2> HIDE DEF learnt, entered, unbound, blank
  <2>1. CASE r.detected = "none"
    BY <2>1 DEF EvaluateVerdictCandidate
  <2>2. CASE r.detected # "none" /\ v = "none"
    BY <2>2 DEF EvaluateVerdictCandidate, learnt, blank
  <2>3. CASE r.detected # "none" /\ v # "none"
    BY <2>3 DEF EvaluateVerdictCandidate, learnt, entered, unbound
  <2> QED
    BY <2>1, <2>2, <2>3
<1> HIDE DEF learnt, entered, blank
<1> QED
  BY <1>1, <1>2, <1>3, <1>4, <1>5 DEF Result

LEMMA CandidateSound ==
  ASSUME Types, NEW r, Good(r, started), ~HasEpochMarker(r),
         NEW x, x = EvaluateVerdictCandidate(r)
  PROVE  Sound(x) /\ x.rt.actions = r.actions /\ x.rt.epochs = r.epochs
         /\ (Reports(r) => Reports(x.rt))
<1>1. /\ x.rt \in Runtimes /\ x.rt.epochs = r.epochs /\ x.rt.actions = r.actions
      /\ x.rt.detected = r.detected
      /\ x.out \in {{}, {Candidate(0, 0)}}
  BY CandidateIs
<1>2. Good(x.rt, started)
  BY <1>1, Fewer
<1>3. ~HasEpochMarker(x.rt)
  BY <1>1 DEF HasEpochMarker
<1>5. ASSUME NEW c \in x.out
      PROVE  Reportable(c, x.rt)
  <2>1. c.req = 0
    BY <1>1 DEF Candidate
  <2> QED
    BY <1>3, <2>1 DEF Reportable
<1>6. Reports(r) => Reports(x.rt)
  BY <1>1 DEF Reports, Armed
<1> QED
  BY <1>1, <1>2, <1>5, <1>6 DEF Sound

LEMMA EvaluateSound ==
  ASSUME Types, Screen, NEW r, Good(r, started), r.detected = page.prob,
         NEW x, x = Evaluate(r)
  PROVE  Sound(x) /\ Reports(x.rt)
<1>1. PICK a : a = EvaluateArmedEpochs(r)
  OBVIOUS
<1>2. Sound(a) /\ Reports(a.rt)
  BY <1>1, EvaluateArmedSound
<1>3. CASE a.out # {} \/ HasEpochMarker(a.rt)
  <2>1. x = a
    BY <1>1, <1>3 DEF Evaluate
  <2> QED
    BY <1>2, <2>1
<1>4. CASE ~(a.out # {} \/ HasEpochMarker(a.rt))
  <2>1. x = EvaluateVerdictCandidate(a.rt)
    BY <1>1, <1>4 DEF Evaluate
  <2> QED
    BY <1>2, <1>4, <2>1, CandidateSound DEF Sound
<1> QED
  BY <1>3, <1>4
-----------------------------------------------------------------------------
(* Control messages.                                                       *)
LEMMA NewEpoch ==
  ASSUME NEW req \in Req, NEW p \in Problems, NEW at \in Nat, NEW base \in Bases,
         NEW click \in Nat, NEW e, e = Epoch(req, p, at, base, click)
  PROVE  /\ e \in Epochs /\ e.req = req /\ e.prob = p /\ e.at = at
         /\ e.base = base /\ e.click = click
         /\ ~e.superseded /\ e.confirmed = 0 /\ ~e.proof /\ ~e.emitted
  BY DEF Epoch, Epochs

LEMMA SupersededGood ==
  ASSUME Types, NEW m \in Starts, Message(m), NEW r, Good(r, started),
         NEW x, x.epochs = Superseded(r.epochs, m.prob), x.actions = r.actions,
         x.detected = r.detected, x.epochs \subseteq Epochs => x \in Runtimes
  PROVE  /\ Good(x, started \cup {m.req}) /\ x \in Runtimes
         /\ \A e \in x.epochs : e.req # m.req
         /\ count[m.req] = 0 /\ Cardinality(x.epochs) <= setup.room
         /\ Reports(r) => Reports(x)
<1> DEFINE f == [e \in r.epochs |-> IF e.prob = m.prob THEN [e EXCEPT !.superseded = TRUE] ELSE e]
           more == started \cup {m.req}
<1>0. r \in Runtimes /\ m.req \in Req /\ m.req \in Nat /\ Posted(m.req)
      /\ \A q \in started : q < m.req
  BY Constants DEF Good, Shape, Starts, Message
<1>1. x.epochs = {f[e] : e \in r.epochs}
  BY <1>0 DEF Superseded
<1>2. \A e \in r.epochs :
        /\ f[e] \in Epochs /\ f[e].req = e.req /\ f[e].prob = e.prob /\ EpochOK(f[e])
        /\ (e.superseded => f[e].superseded) /\ f[e].emitted = e.emitted
        /\ (e.prob = m.prob => f[e].superseded) /\ (e.prob # m.prob => f[e] = e)
  <2> SUFFICES ASSUME NEW e \in r.epochs
      PROVE /\ f[e] \in Epochs /\ f[e].req = e.req /\ f[e].prob = e.prob /\ EpochOK(f[e])
            /\ (e.superseded => f[e].superseded) /\ f[e].emitted = e.emitted
            /\ (e.prob = m.prob => f[e].superseded) /\ (e.prob # m.prob => f[e] = e)
    OBVIOUS
  <2>1. e \in Epochs /\ EpochOK(e)
    BY DEF Good, Shape, Runtimes
  <2>2. PICK g : g = [e EXCEPT !.superseded = TRUE]
    OBVIOUS
  <2>3. /\ g \in Epochs /\ g.req = e.req /\ g.prob = e.prob /\ g.at = e.at
        /\ g.superseded /\ g.confirmed = e.confirmed /\ g.proof = e.proof
        /\ g.emitted = e.emitted /\ g.base = e.base /\ g.click = e.click
    BY <2>1, <2>2 DEF Epochs
  <2>4. EpochOK(g)
    BY <2>1, <2>3 DEF EpochOK
  <2>5. f[e] = IF e.prob = m.prob THEN g ELSE e
    BY <2>2
  <2> HIDE DEF f
  <2> QED
    BY <2>1, <2>3, <2>4, <2>5
<1>3. f = [e \in r.epochs |-> f[e]]
  OBVIOUS
<1>4. x \in Runtimes
  BY <1>1, <1>2
<1> HIDE DEF f
<1>5. Good(x, started)
  <2>1. \A e \in r.epochs :
          /\ f[e].req = e.req /\ f[e].prob = e.prob /\ EpochOK(f[e])
          /\ (e.superseded => f[e].superseded) /\ (e.emitted => f[e].emitted)
    BY <1>2
  <2> QED
    BY <1>1, <1>3, <1>4, <2>1, Rewritten
<1>6. m.req \notin started
  BY <1>0
<1>7. \A e \in x.epochs : e.req # m.req
  BY <1>0, <1>5, <1>6 DEF Good, Once, Spent
<1>8. count[m.req] = 0
  BY <1>0, <1>6 DEF Good, Once, Spent
<1>9. Once(x, more)
  <2>1. \A q : Spent(x, q, started) => Spent(x, q, more)
    BY SpentFewer
  <2> QED
    BY <1>5, <2>1 DEF Good, Once
<1>10. Exclusive(x, more)
  <2> SUFFICES ASSUME NEW e \in x.epochs, NEW q \in more,
                      q > e.req, e.req \in more, ProbOf(q) = e.prob
      PROVE  e.superseded
    BY DEF Exclusive
  <2>1. e.req \in started
    BY <1>7
  <2>2. CASE q \in started
    BY <1>5, <2>1, <2>2 DEF Good, Exclusive
  <2>3. CASE q = m.req
    <3>1. e.prob = m.prob
      BY <2>3 DEF Message
    <3>2. PICK d \in r.epochs : e = f[d]
      BY <1>1
    <3> QED
      BY <1>2, <3>1, <3>2
  <2> QED
    BY <2>2, <2>3
<1>11. Armed(x) \subseteq Armed(r)
  <2> SUFFICES ASSUME NEW g \in Armed(x) PROVE g \in Armed(r)
    OBVIOUS
  <2>1. PICK d \in r.epochs : g = f[d]
    BY <1>1 DEF Armed
  <2>2. ~g.superseded
    BY DEF Armed
  <2>3. g = d
    BY <1>2, <2>1, <2>2
  <2> QED
    BY <1>1, <2>3 DEF Armed
<1>12. Reports(r) => Reports(x)
  BY <1>11 DEF Reports
<1>13. Good(x, more) /\ Cardinality(x.epochs) <= setup.room
  BY <1>5, <1>9, <1>10 DEF Good, Shape
<1> QED
  BY <1>4, <1>7, <1>8, <1>12, <1>13

LEMMA AddStartedGood ==
  ASSUME Types, NEW m \in Starts, Message(m), NEW r, Good(r, started),
         NEW x, x = AddStarted(r, m)
  PROVE  /\ Good(x, started \cup {m.req}) /\ x.actions \subseteq r.actions
         /\ Reports(r) => Reports(x)
<1>1. PICK s : s = [r EXCEPT !.epochs = Superseded(r.epochs, m.prob)]
  OBVIOUS
<1>0. /\ s.epochs = Superseded(r.epochs, m.prob) /\ s.actions = r.actions
      /\ s.detected = r.detected /\ (s.epochs \subseteq Epochs => s \in Runtimes)
  <2>1. r \in Runtimes
    BY DEF Good, Shape
  <2> QED
    BY <1>1, <2>1 DEF Runtimes
<1>2. /\ Good(s, started \cup {m.req}) /\ s \in Runtimes
      /\ \A e \in s.epochs : e.req # m.req
      /\ count[m.req] = 0 /\ Cardinality(s.epochs) <= setup.room
      /\ Reports(r) => Reports(s)
  BY <1>0, SupersededGood
<1> DEFINE more == started \cup {m.req}
           eligible == {a \in r.actions : a.prob = m.prob /\ a.at <= m.at}
           epochs == Superseded(r.epochs, m.prob)
           With(base, click) == epochs \cup {Epoch(m.req, m.prob, m.at, base, click)}
           blind == [r EXCEPT !.epochs = With(NotCaptured, 0)]
           chosen == CHOOSE a \in eligible : TRUE
           bound == [r EXCEPT !.epochs = With(chosen.base, chosen.at),
                              !.actions = {a \in @ : a.prob # m.prob}]
<1>3. r \in Runtimes /\ s \in Runtimes /\ s.epochs = epochs
  BY <1>0, <1>2 DEF Good, Shape
<1>4. /\ m.req \in Req /\ m.req \in Nat /\ m.prob \in Problems /\ m.at \in Nat /\ m.at \in 1 .. now
      /\ Posted(m.req) /\ m.prob = ProbOf(m.req) /\ m.req \in sent
      /\ \A q \in started : q < m.req
  BY Constants DEF Starts, Message
<1>5. ~\E e \in r.epochs : e.req = m.req
  BY <1>4 DEF Good, Once, Spent
<1>6. ASSUME NEW base \in Bases, NEW click \in Nat, Ahead(base, click, FALSE),
             NEW y \in Runtimes, y.epochs = With(base, click),
             y.actions \subseteq r.actions, y.detected = r.detected, ~Full(epochs)
      PROVE  Good(y, more) /\ y.actions \subseteq r.actions /\ (Reports(r) => Reports(y))
  <2>1. PICK e : e = Epoch(m.req, m.prob, m.at, base, click)
    OBVIOUS
  <2>2. /\ e \in Epochs /\ e.req = m.req /\ e.prob = m.prob /\ e.at = m.at
        /\ e.base = base /\ e.click = click
        /\ ~e.superseded /\ e.confirmed = 0 /\ ~e.proof /\ ~e.emitted
    BY <1>4, <2>1, NewEpoch
  <2>3. EpochOK(e)
    BY <1>4, <1>6, <2>2 DEF EpochOK, Ahead, Types
  <2>4. Cardinality(s.epochs) < setup.room
    <3>1. Cardinality(s.epochs) \in Nat
      BY <1>2, FS_CardinalityType DEF Good, Shape
    <3> QED
      BY <1>3, <1>6, <3>1, Constants DEF Full
  <2>5. y.epochs = s.epochs \cup {e} /\ y.actions \subseteq s.actions
    BY <1>0, <1>3, <1>6, <2>1
  <2>6. Spent(y, e.req, more)
    BY <1>4, <2>2 DEF Spent
  <2>7. \A q \in more : q > e.req /\ e.req \in more /\ ProbOf(q) = e.prob => e.superseded
    <3> SUFFICES ASSUME NEW q \in more PROVE ~(q > e.req)
      OBVIOUS
    <3>1. q \in Nat /\ q <= m.req
      BY <1>4, Constants DEF Types
    <3> QED
      BY <1>4, <2>2, <3>1
  <2>8. Good(y, more)
    BY <1>2, <2>2, <2>3, <2>4, <2>5, <2>6, <2>7, Extended
  <2>9. Reports(s) => Reports(y)
    BY <1>0, <1>6, <2>2, <2>5 DEF Reports, Armed
  <2> QED
    BY <1>2, <1>6, <2>8, <2>9
<1>7. NotCaptured \in Bases /\ Ahead(NotCaptured, 0, FALSE)
  BY DEF NotCaptured, Bases, Ahead
<1>8. /\ blind.epochs = With(NotCaptured, 0) /\ blind.actions = r.actions
      /\ blind.detected = r.detected
  BY <1>3 DEF Runtimes
<1>9. /\ bound.epochs = With(chosen.base, chosen.at) /\ bound.actions \subseteq r.actions
      /\ bound.detected = r.detected
  BY <1>3 DEF Runtimes
<1>10. \A base \in Bases, click \in Nat : With(base, click) \subseteq Epochs
  <2> SUFFICES ASSUME NEW base \in Bases, NEW click \in Nat
               PROVE  With(base, click) \subseteq Epochs
    OBVIOUS
  <2>1. Epoch(m.req, m.prob, m.at, base, click) \in Epochs
    BY <1>4, NewEpoch
  <2> QED
    BY <1>3, <2>1 DEF Runtimes
<1>11. blind \in Runtimes
  <2>1. With(NotCaptured, 0) \subseteq Epochs
    BY <1>7, <1>10
  <2> HIDE DEF With
  <2> QED
    BY <1>3, <2>1 DEF Runtimes
<1>12. Cardinality(eligible) = 1 =>
         chosen.base \in Bases /\ chosen.at \in Nat /\ Ahead(chosen.base, chosen.at, FALSE)
  <2>1. Cardinality(eligible) = 1 => eligible # {}
    BY FS_EmptySet
  <2>2. Cardinality(eligible) = 1 => chosen \in r.actions
    BY <2>1
  <2> QED
    BY <1>3, <2>2 DEF Runtimes, Actions, Good, Shape, ActionOK
<1>13. Cardinality(eligible) = 1 => bound \in Runtimes
  <2> SUFFICES ASSUME Cardinality(eligible) = 1 PROVE bound \in Runtimes
    OBVIOUS
  <2>1. With(chosen.base, chosen.at) \subseteq Epochs
    BY <1>10, <1>12
  <2> HIDE DEF With
  <2> QED
    BY <1>3, <2>1 DEF Runtimes
<1>14. \/ x = s
       \/ x = blind /\ ~Full(epochs)
       \/ x = bound /\ ~Full(epochs) /\ Cardinality(eligible) = 1
  <2> HIDE DEF blind
  <2>1. CASE Full(epochs)
    BY <1>1, <1>5, <2>1 DEF AddStarted
  <2>2. CASE ~Full(epochs) /\ r.detected # m.prob
    BY <1>5, <2>2 DEF AddStarted, blind
  <2>3. CASE ~Full(epochs) /\ r.detected = m.prob /\ Cardinality(eligible) # 1
    BY <1>1, <1>5, <2>3 DEF AddStarted
  <2>4. CASE ~Full(epochs) /\ r.detected = m.prob /\ Cardinality(eligible) = 1
    BY <1>5, <2>4 DEF AddStarted
  <2> QED
    BY <2>1, <2>2, <2>3, <2>4
<1> HIDE DEF blind, bound, With, chosen
<1>15. CASE x = s
  BY <1>0, <1>2, <1>15
<1>16. CASE x = blind /\ ~Full(epochs)
  BY <1>6, <1>7, <1>8, <1>11, <1>16
<1>17. CASE x = bound /\ ~Full(epochs) /\ Cardinality(eligible) = 1
  BY <1>6, <1>9, <1>12, <1>13, <1>17
<1> QED
  BY <1>14, <1>15, <1>16, <1>17

(* A confirmation is not spent while its click is among the actions.       *)
LEMMA PromotedGood ==
  ASSUME Types, Channel, Sending, NEW m \in Confirmed, Message(m), NEW r, Good(r, started),
         ~\E e \in r.epochs : e.req = m.req,
         NEW x, x = PromoteAction(r, m)
  PROVE  /\ Good(x, started) /\ x.actions \subseteq r.actions /\ x.detected = r.detected
         /\ Reports(r) => Reports(x)
<1> DEFINE eligible == {a \in r.actions : a.prob = m.prob /\ a.at <= m.at}
           a == CHOOSE y \in eligible : TRUE
           e == Epoch(m.req, m.prob, a.at, a.base, a.at)
           grown == [r EXCEPT !.epochs = @ \cup {e},
                              !.actions = {y \in @ : y.prob # m.prob}]
<1>1. r \in Runtimes
  BY DEF Good, Shape
<1>2. /\ m.req \in Req /\ m.prob \in Problems /\ m.action \in Nat /\ m.req \in sent
      /\ m.prob = ProbOf(m.req) /\ m.at # 0 /\ conf[m.req].at # 0
      /\ m.action = conf[m.req].action
  BY DEF Confirmed, Message
<1>3. ASSUME m.action # 0, Cardinality(eligible) = 1, ~Full(r.epochs), a.at = m.action
      PROVE  /\ Good(grown, started) /\ grown.actions \subseteq r.actions
             /\ grown.detected = r.detected /\ (Reports(r) => Reports(grown))
  <2>1. Cardinality(eligible) = 1 => eligible # {}
    BY FS_EmptySet
  <2>2. a \in eligible
    BY <1>3, <2>1
  <2>3. PICK b \in r.actions : b = a /\ b.prob = m.prob /\ b.at = m.action
    BY <1>3, <2>2
  <2>4. /\ b.at \in 1 .. now /\ b.at \in Nat /\ b.base \in Bases
        /\ Ahead(b.base, b.at, FALSE)
    BY <1>1 DEF Good, Shape, ActionOK, Runtimes, Actions
  <2>5. PICK n : n = Epoch(m.req, m.prob, b.at, b.base, b.at)
    OBVIOUS
  <2>6. /\ n \in Epochs /\ n.req = m.req /\ n.prob = m.prob /\ n.at = b.at
        /\ n.base = b.base /\ n.click = b.at
        /\ ~n.superseded /\ n.confirmed = 0 /\ ~n.proof /\ ~n.emitted
    BY <1>2, <2>4, <2>5, NewEpoch
  <2>7. PICK y : y = [r EXCEPT !.epochs = @ \cup {n},
                               !.actions = {z \in @ : z.prob # m.prob}]
    OBVIOUS
  <2>8. y = grown
    BY <2>3, <2>5, <2>7
  <2>9. /\ y \in Runtimes /\ y.epochs = r.epochs \cup {n}
        /\ y.actions = {z \in r.actions : z.prob # m.prob} /\ y.detected = r.detected
    BY <1>1, <2>6, <2>7 DEF Runtimes
  <2>10. EpochOK(n)
    BY <1>2, <2>4, <2>6 DEF EpochOK, Ahead, Types
  <2>11. ~Posted(m.req)
    BY <1>2, <1>3 DEF Sending
  <2>12. count[m.req] = 0
    BY <1>2, <2>3, <2>11 DEF Good, Once, Spent
  <2>13. Spent(y, n.req, started)
    BY <1>2, <2>6, <2>9, <2>11 DEF Spent
  <2>14. n.req \notin started
    BY <2>6, <2>11 DEF Channel
  <2>15. Cardinality(r.epochs) < setup.room
    <3>1. Cardinality(r.epochs) \in Nat
      BY FS_CardinalityType DEF Good, Shape
    <3> QED
      BY <1>3, <3>1, Constants DEF Full
  <2>16. y.actions \subseteq r.actions
    BY <2>9
  <2>17. Good(y, started)
    BY <2>6, <2>9, <2>10, <2>12, <2>13, <2>14, <2>15, <2>16, Extended
  <2>18. Reports(r) => Reports(y)
    BY <2>6, <2>9 DEF Reports, Armed
  <2> HIDE DEF grown
  <2> QED
    BY <2>8, <2>9, <2>16, <2>17, <2>18
<1>4. \/ x = r
      \/ /\ x = grown /\ m.action # 0 /\ Cardinality(eligible) = 1
         /\ ~Full(r.epochs) /\ a.at = m.action
  BY DEF PromoteAction
<1> HIDE DEF grown, eligible, a
<1> QED
  BY <1>3, <1>4

LEMMA ConfirmSound ==
  ASSUME Types, Screen, Channel, Sending, NEW m \in Confirmed, Message(m),
         NEW r, Good(r, started), r.detected = page.prob, NEW x, x = Confirm(r, m)
  PROVE  /\ Sound(x) /\ x.rt.actions \subseteq r.actions
         /\ Reports(r) => Reports(x.rt)
<1>1. PICK p : p = IF \E e \in r.epochs : e.req = m.req THEN r ELSE PromoteAction(r, m)
  OBVIOUS
<1>2. /\ Good(p, started) /\ p.actions \subseteq r.actions /\ p.detected = r.detected
      /\ Reports(r) => Reports(p)
  BY <1>1, PromotedGood
<1> DEFINE fits == {e \in p.epochs :
                      /\ e.req = m.req /\ e.prob = m.prob
                      /\ ~e.superseded /\ e.confirmed = 0 /\ e.at <= m.at}
           Mark(e) == IF e \in fits THEN [e EXCEPT !.confirmed = m.at] ELSE e
           f == [e \in p.epochs |-> Mark(e)]
<1>3. PICK k : k = [p EXCEPT !.epochs = {Mark(e) : e \in @}]
  OBVIOUS
<1>4. p \in Runtimes
  BY <1>2 DEF Good, Shape
<1>5. m.at \in Nat /\ m.at # 0 /\ m.req \in Req /\ m.at = conf[m.req].at /\ m.at <= now
  BY DEF Confirmed, Message, Sending
<1>6. \A e \in p.epochs :
        /\ f[e] \in Epochs /\ f[e].req = e.req /\ f[e].prob = e.prob /\ EpochOK(f[e])
        /\ (e.superseded => f[e].superseded) /\ (e.emitted => f[e].emitted)
        /\ f[e].base = e.base /\ (e \notin fits => f[e] = e)
  <2> SUFFICES ASSUME NEW e \in p.epochs
      PROVE /\ f[e] \in Epochs /\ f[e].req = e.req /\ f[e].prob = e.prob /\ EpochOK(f[e])
            /\ (e.superseded => f[e].superseded) /\ (e.emitted => f[e].emitted)
            /\ f[e].base = e.base /\ (e \notin fits => f[e] = e)
    OBVIOUS
  <2>1. e \in Epochs /\ EpochOK(e)
    BY <1>2, <1>4 DEF Good, Shape, Runtimes
  <2>2. PICK g : g = [e EXCEPT !.confirmed = m.at]
    OBVIOUS
  <2>3. /\ g \in Epochs /\ g.req = e.req /\ g.prob = e.prob /\ g.at = e.at
        /\ g.superseded = e.superseded /\ g.confirmed = m.at /\ g.proof = e.proof
        /\ g.emitted = e.emitted /\ g.base = e.base /\ g.click = e.click
    BY <1>5, <2>1, <2>2 DEF Epochs
  <2>4. e.req = m.req => EpochOK(g)
    BY <1>5, <2>1, <2>3 DEF EpochOK
  <2>5. f[e] = IF e \in fits THEN g ELSE e
    BY <2>2
  <2>6. e \in fits => e.req = m.req
    OBVIOUS
  <2> HIDE DEF f, fits
  <2> QED
    BY <2>1, <2>3, <2>4, <2>5, <2>6
<1>7. /\ k.epochs = {f[e] : e \in p.epochs} /\ k.actions = p.actions
      /\ k.detected = p.detected /\ (k.epochs \subseteq Epochs => k \in Runtimes)
  <2>1. \A e \in p.epochs : f[e] = Mark(e)
    OBVIOUS
  <2> HIDE DEF Mark, f
  <2> QED
    BY <1>3, <1>4, <2>1 DEF Runtimes
<1>8. f = [e \in p.epochs |-> f[e]]
  OBVIOUS
<1>9. x = IF \E e \in fits : e.base # NotCaptured THEN EvaluateArmedEpochs(k) ELSE Result(k, {})
  BY <1>1, <1>3 DEF Confirm
<1>10. \A e \in fits : e.base = NotCaptured =>
         \A q \in p.epochs : q = e => q.base = NotCaptured
  OBVIOUS
<1> HIDE DEF f, Mark
<1>11. Good(k, started)
  <2>1. \A e \in p.epochs :
          /\ f[e].req = e.req /\ f[e].prob = e.prob /\ EpochOK(f[e])
          /\ (e.superseded => f[e].superseded) /\ (e.emitted => f[e].emitted)
    BY <1>6
  <2>2. k \in Runtimes
    BY <1>6, <1>7
  <2> HIDE DEF fits
  <2> QED
    BY <1>2, <1>7, <1>8, <2>1, <2>2, Rewritten
<1>12. CASE \E e \in fits : e.base # NotCaptured
  <2>1. x = EvaluateArmedEpochs(k)
    BY <1>9, <1>12
  <2>2. /\ Sound(x) /\ Reports(x.rt) /\ x.rt.actions = k.actions
    BY <1>2, <1>7, <1>11, <2>1, EvaluateArmedSound
  <2> QED
    BY <1>2, <1>7, <2>2
<1>13. CASE ~\E e \in fits : e.base # NotCaptured
  <2>1. x.rt = k /\ x.out = {}
    BY <1>9, <1>13 DEF Result
  <2>2. Armed(k) \subseteq Armed(p)
    <3> SUFFICES ASSUME NEW g \in Armed(k) PROVE g \in Armed(p)
      OBVIOUS
    <3>1. PICK d \in p.epochs : g = f[d]
      BY <1>7 DEF Armed
    <3>2. g.base = d.base /\ g.base # NotCaptured
      BY <1>6, <3>1 DEF Armed
    <3>3. d \notin fits
      BY <1>13, <3>2
    <3>4. g = d
      BY <1>6, <3>1, <3>3
    <3> QED
      BY <1>7, <3>1, <3>4 DEF Armed
  <2>3. Reports(p) => Reports(k)
    BY <2>2 DEF Reports
  <2> QED
    BY <1>2, <1>7, <1>11, <2>1, <2>3 DEF Sound
<1> QED
  BY <1>12, <1>13

(* A start is heard only by the page whose epochs it goes to.              *)
LEMMA ReceivedSound ==
  ASSUME Types, Screen, Channel, Sending, Good(rt, started),
         NEW m \in Starts \cup Confirmed, Message(m), NEW x, x = ControlMessageReceived(m)
  PROVE  /\ Good(x.rt, IF m.type = "STARTED" THEN started \cup {m.req} ELSE started)
         /\ IF m.type = "STARTED" THEN x.out = {} ELSE Sound(x)
         /\ Reports(rt) => Reports(x.rt)
<1>1. PICK r : r = Looked(rt)
  OBVIOUS
<1>2. Good(r, started) /\ r.detected = page.prob /\ (Reports(rt) => Reports(r))
  <2>1. PICK z : z = rt
    OBVIOUS
  <2> QED
    BY <1>1, <2>1, LookedGood
<1>3. CASE m.type = "STARTED"
  <2>1. m \in Starts
    BY <1>3 DEF Starts, Confirmed
  <2>2. PICK y : y = AddStarted(r, m)
    OBVIOUS
  <2>3. x.rt = y /\ x.out = {}
    BY <1>1, <1>3, <2>2 DEF ControlMessageReceived, Looked, Result
  <2> QED
    BY <1>2, <1>3, <2>1, <2>2, <2>3, AddStartedGood
<1>4. CASE m.type # "STARTED"
  <2>1. m \in Confirmed
    BY <1>4 DEF Starts, Confirmed
  <2>2. x = Confirm(r, m)
    BY <1>1, <1>4 DEF ControlMessageReceived, Looked
  <2>3. Sound(x) /\ (Reports(r) => Reports(x.rt))
    BY <1>2, <2>1, <2>2, ConfirmSound
  <2> QED
    BY <1>2, <1>4, <2>3 DEF Sound
<1> QED
  BY <1>3, <1>4
-----------------------------------------------------------------------------
(* What a step does to the runtime and to what has been reported.          *)
Settles ==
  /\ setup' = setup /\ sent \subseteq sent' /\ now' \in Nat /\ now <= now'
  /\ \A q \in Req : conf[q].at # 0 => conf'[q] = conf[q]
  /\ page'.shown = page.shown \/ page'.shown.since = now

LEMMA Frame ==
  ASSUME Types, NEW r, NEW heard, Good(r, heard), Settles, count' = count
  PROVE  Good(r, heard)'
<1>1. \A q : ProbOf(q)' = ProbOf(q) /\ Posted(q)' = Posted(q)
  BY DEF ProbOf, Posted, Settles
<1>2. r \in Runtimes
  BY DEF Good, Shape
<1>a. ASSUME NEW base, NEW click \in Nat, NEW proven, Ahead(base, click, proven)
      PROVE  Ahead(base, click, proven)'
  <2>1. now \in Nat /\ now' \in Nat /\ now <= now'
    BY DEF Settles, Types
  <2>2. CASE page'.shown = page.shown
    BY <1>a, <2>1, <2>2 DEF Ahead, View
  <2>3. CASE page'.shown.since = now
    BY <1>a, <2>1, <2>3 DEF Ahead
  <2> QED
    BY <2>2, <2>3 DEF Settles
<1>3. ASSUME NEW e \in r.epochs PROVE EpochOK(e)'
  <2>1. /\ e.req \in Req /\ e.at \in Nat /\ e.click \in Nat /\ e.confirmed \in Nat
        /\ EpochOK(e)
    BY <1>2 DEF Runtimes, Epochs, Good, Shape
  <2>2. Ahead(e.base, e.click, e.proof)'
    BY <1>a, <2>1 DEF EpochOK
  <2> QED
    BY <1>1, <2>1, <2>2 DEF EpochOK, Settles, Types
<1>4. Shape(r)'
  <2>1. \A a \in r.actions : ActionOK(a)'
    <3> SUFFICES ASSUME NEW a \in r.actions PROVE ActionOK(a)'
      OBVIOUS
    <3>1. a.at \in Nat /\ a.at \in 1 .. now /\ Ahead(a.base, a.at, FALSE)
      BY <1>2 DEF Runtimes, Actions, Good, Shape, ActionOK
    <3>2. Ahead(a.base, a.at, FALSE)'
      BY <1>a, <3>1
    <3>3. a.at \in 1 .. now'
      BY <3>1 DEF Settles, Types
    <3> QED
      BY <3>2, <3>3 DEF ActionOK
  <2>2. setup' = setup
    BY DEF Settles
  <2> QED
    BY <1>3, <2>1, <2>2 DEF Good, Shape
<1>5. \A q \in Req : Spent(r, q, heard) => Spent(r, q, heard)'
  BY <1>1 DEF Spent, Settles
<1>6. Once(r, heard)'
  <2>1. \A e \in r.epochs : e.req \in Req
    BY <1>2 DEF Runtimes, Epochs
  <2> QED
    BY <1>5, <2>1 DEF Good, Once
<1>7. Exclusive(r, heard)'
  BY <1>1 DEF Good, Exclusive
<1> QED
  BY <1>4, <1>6, <1>7 DEF Good

(* A click.                                                                *)
LEMMA HintGood ==
  ASSUME Types, Sending, Settles, NEW r, Good(r, started), NEW x, x = RecordUiHint(r),
         now' = now + 1, UNCHANGED <<page, conf, count, started>>
  PROVE  Good(x, started)' /\ (Reports(r) => Reports(x))
<1>1. PICK p : p = PruneExpiredEpochs(r)
  OBVIOUS
<1>2. /\ Good(p, started) /\ p.detected = r.detected
      /\ p.epochs \subseteq r.epochs /\ p.actions \subseteq r.actions
  BY <1>1, PrunedGood
<1>a. \A y : Good(y, started) => Good(y, started)'
  <2> SUFFICES ASSUME NEW y, Good(y, started) PROVE Good(y, started)'
    OBVIOUS
  <2>1. PICK heard : heard = started
    OBVIOUS
  <2>2. Good(y, heard)'
    BY <2>1, Frame
  <2> QED
    BY <2>1, <2>2
<1>3. Reports(r) => Reports(p)
  BY <1>2 DEF Reports, Armed
<1> DEFINE S == p.actions
           room == IF Cardinality(S) < setup.room THEN S ELSE S \ {Oldest(S)}
           a == [prob |-> r.detected, at |-> now, base |-> Baseline]
<1>4. CASE r.detected = "none"
  BY <1>4, <1>a DEF RecordUiHint
<1>5. CASE r.detected # "none" /\ \E b \in S : b.prob = r.detected /\ now - b.at < HintTtl
  <2>1. x = p
    BY <1>1, <1>5 DEF RecordUiHint
  <2> QED
    BY <1>2, <1>3, <1>a, <2>1
<1>6. CASE r.detected # "none" /\ ~\E b \in S : b.prob = r.detected /\ now - b.at < HintTtl
  <2>1. x = [p EXCEPT !.actions = room \cup {a}]
    BY <1>1, <1>6 DEF RecordUiHint
  <2>2. p \in Runtimes
    BY <1>2 DEF Good, Shape
  <2>3. a \in Actions
    <3>1. r.detected \in Problems
      BY <1>2, <1>6, <2>2 DEF Runtimes
    <3>2. page.shown \in Shown
      BY DEF Types, Pages
    <3>3. View(page.shown) \in Bases
      BY <3>2 DEF View, Shown, Bases
    <3>4. Baseline \in Bases
      BY <3>3 DEF Baseline, NotCaptured, Bases
    <3>5. now \in Nat
      BY DEF Types
    <3> QED
      BY <3>1, <3>4, <3>5 DEF Actions
  <2>4. room \subseteq S
    OBVIOUS
  <2>5. S \subseteq Actions
    BY <2>2 DEF Runtimes
  <2>6. IsFiniteSet(S) /\ Cardinality(S) <= setup.room
    BY <1>2 DEF Good, Shape
  <2>7. Cardinality(S) \in Nat /\ setup.room \in Nat \ {0}
    BY <2>6, FS_CardinalityType, Constants
  <2>8. IsFiniteSet(room) /\ Cardinality(room) < setup.room
    <3>1. CASE Cardinality(S) < setup.room
      BY <2>6, <3>1
    <3>2. CASE ~(Cardinality(S) < setup.room)
      <4>1. S # {}
        BY <2>7, <3>2, FS_EmptySet
      <4>2. Oldest(S) \in S
        BY <2>5, <4>1, OldestExists
      <4>3. IsFiniteSet(S \ {Oldest(S)}) /\ Cardinality(S \ {Oldest(S)}) = Cardinality(S) - 1
        BY <2>6, <4>2, FS_RemoveElement
      <4> QED
        BY <2>6, <2>7, <3>2, <4>3
    <3> QED
      BY <3>1, <3>2
  <2>9. /\ x \in Runtimes /\ x.actions = room \cup {a}
        /\ x.epochs = p.epochs /\ x.detected = p.detected
    <3>1. room \cup {a} \subseteq Actions
      BY <2>3, <2>4, <2>5
    <3> HIDE DEF room, a
    <3> QED
      BY <2>1, <2>2, <3>1 DEF Runtimes
  <2>10. a.at = now /\ (a.base = NotCaptured \/ a.base = View(page.shown))
    BY DEF Baseline
  <2> HIDE DEF room, a
  <2>11. IsFiniteSet(x.actions) /\ Cardinality(x.actions) <= setup.room
    <3>1. /\ IsFiniteSet(room \cup {a})
          /\ Cardinality(room \cup {a}) = Cardinality(room)
             \/ Cardinality(room \cup {a}) = Cardinality(room) + 1
      BY <2>8, FS_AddElement
    <3>2. Cardinality(room) \in Nat
      BY <2>8, FS_CardinalityType
    <3> QED
      BY <2>7, <2>8, <2>9, <3>1, <3>2
  <2>12. \A b \in x.actions :
           \/ b \in p.actions
           \/ b.at = now /\ (b.base = NotCaptured \/ b.base = View(page.shown))
    BY <2>4, <2>9, <2>10
  <2>h. Good(p, started)'
    BY <1>2, <1>a
  <2>13. Shape(x)'
    <3> SUFFICES ASSUME NEW b \in x.actions PROVE ActionOK(b)'
      BY <2>9, <2>11, <2>h DEF Good, Shape, Settles
    <3>1. CASE b \in p.actions
      BY <2>h, <3>1 DEF Good, Shape
    <3>2. CASE b.at = now /\ (b.base = NotCaptured \/ b.base = View(page.shown))
      BY <3>2 DEF ActionOK, Ahead, View, Types
    <3> QED
      BY <2>12, <3>1, <3>2
  <2>14. \A q \in Req : Spent(p, q, started)' => Spent(x, q, started)'
    <3>p. \A q : Posted(q)' = Posted(q) /\ ProbOf(q)' = ProbOf(q)
      BY DEF Posted, ProbOf, Settles
    <3> SUFFICES ASSUME NEW q \in Req, Spent(p, q, started), ~Posted(q)
                 PROVE  \A b \in x.actions : b.prob = ProbOf(q) => b.at # conf[q].action
      BY <3>p DEF Spent
    <3>1. conf[q].action < now /\ conf[q].action \in Nat /\ now \in Nat
      BY DEF Spent, Sending, Types, Confirmations
    <3> QED
      BY <2>12, <3>1 DEF Spent
  <2>15. \A e \in x.epochs : e.req \in Req
    BY <2>9 DEF Runtimes, Epochs
  <2>16. Once(x, started)'
    BY <2>h, <2>9, <2>14, <2>15 DEF Good, Once
  <2>17. Exclusive(x, started)'
    BY <2>h, <2>9 DEF Good, Exclusive
  <2>18. Reports(r) => Reports(x)
    BY <1>3, <2>9 DEF Reports, Armed
  <2> QED
    BY <2>13, <2>16, <2>17, <2>18 DEF Good
<1> QED
  BY <1>4, <1>5, <1>6

LEMMA QuietRuns ==
  ASSUME Types, NEW x, Runs(x), x.out = {}
  PROVE  rt' = x.rt /\ out' = {} /\ count' = count
<1>1. \A r \in Req : {c \in x.out : c.req = r} = {}
  OBVIOUS
<1>2. \A r \in Req : Cardinality({c \in x.out : c.req = r}) = 0
  BY <1>1, FS_EmptySet
<1>3. count = [r \in Req |-> count[r]] /\ \A r \in Req : count[r] \in Nat
  BY DEF Types
<1>4. count' = [r \in Req |-> count[r] + Cardinality({c \in x.out : c.req = r})]
      /\ rt' = x.rt /\ out' = {}
  BY DEF Runs
<1>5. count' = [r \in Req |-> count[r]]
  BY <1>2, <1>3, <1>4
<1> QED
  BY <1>3, <1>4, <1>5

(* Nothing is reported.                                                    *)
LEMMA QuietStep ==
  ASSUME SInv, Settles, out' = {}, count' = count, NEW r, rt' = r, Good(r, started)',
         \/ dirty'
         \/ UNCHANGED <<page, dirty, moved>> /\ (Reports(rt) => Reports(r))
         \/ page' = page /\ Reports(r)
  PROVE  Inner' /\ count' \in [Req -> Nat]
<1>3. Good(rt, started)'
  OBVIOUS
<1>4. OncePerRequest' /\ NoUnboundUnderMarker' /\ VerdictIsOwn' /\ count' \in [Req -> Nat]
  BY DEF SInv, Inner, World, Types, OncePerRequest, NoUnboundUnderMarker, VerdictIsOwn
<1>5. ArmedIsReported'
  <2>1. ~dirty /\ ~moved => Reports(rt)
    BY DEF SInv, Inner, ArmedIsReported, Reports
  <2>2. ~dirty' /\ ~moved' => Reports(r) /\ page' = page
    BY <2>1
  <2>3. Reports(r) /\ page' = page => Reports(rt)'
    BY DEF Reports, Armed
  <2> QED
    BY <2>2, <2>3 DEF ArmedIsReported, Reports
<1> QED
  BY <1>3, <1>4, <1>5 DEF Inner

LEMMA SilentStep ==
  ASSUME SInv, Settles, Silent, UNCHANGED started, dirty' \/ UNCHANGED <<page, dirty, moved>>
  PROVE  Inner' /\ count' \in [Req -> Nat]
<1>1. PICK r : r = rt
  OBVIOUS
<1>2. PICK heard : heard = started
  OBVIOUS
<1>3. rt' = r /\ Good(r, heard) /\ out' = {} /\ count' = count
  BY <1>1, <1>2 DEF Silent, SInv, Inner
<1>4. Good(r, started)'
  <2>1. Good(r, heard)'
    BY <1>3, Frame DEF SInv, World
  <2> QED
    BY <1>2, <2>1
<1> QED
  BY <1>1, <1>3, <1>4, QuietStep

(* At most one report for each request.                                    *)
LEMMA ReportsCounted ==
  ASSUME SInv, NEW x, Sound(x), Runs(x)
  PROVE  /\ count' \in [Req -> Nat] /\ OncePerRequest'
         /\ \A r \in Req : count'[r] # 0 =>
              count[r] # 0 \/ \E e \in x.rt.epochs : e.req = r /\ e.emitted
<1>1. ASSUME NEW r \in Req
      PROVE  /\ count'[r] \in Nat /\ count'[r] <= 1
             /\ count'[r] # 0 => count[r] # 0 \/ \E e \in x.rt.epochs : e.req = r /\ e.emitted
  <2> DEFINE C == {c \in x.out : c.req = r}
  <2>1. count'[r] = count[r] + Cardinality(C)
    BY DEF Runs
  <2>2. count[r] \in Nat /\ count[r] <= 1
    BY DEF SInv, World, Inner, Types, OncePerRequest
  <2>3. CASE C = {}
    <3>1. Cardinality(C) = 0
      BY <2>3, FS_EmptySet
    <3> QED
      BY <2>1, <2>2, <3>1
  <2>4. CASE C # {}
    <3>1. PICK c \in x.out : c.req = r
      BY <2>4
    <3>2. r # 0
      BY Constants DEF SInv, World
    <3>3. PICK e \in x.rt.epochs : e.req = r /\ e.emitted
      BY <3>1, <3>2 DEF Sound, Reportable
    <3>4. count[r] = 0
      BY <3>1, <3>2 DEF Sound, Reportable
    <3>5. C = {Candidate(r, e.click)}
      <4>1. \A g \in x.rt.epochs : g.req = r => g = e
        BY <3>3 DEF Sound, Good, Shape
      <4>2. \A d \in C : d = Candidate(r, e.click)
        BY <3>2, <4>1 DEF Sound, Reportable
      <4> QED
        BY <2>4, <4>2
    <3>6. Cardinality(C) = 1
      BY <3>5, FS_Singleton
    <3> HIDE DEF C
    <3> QED
      BY <2>1, <3>3, <3>4, <3>6
  <2> QED
    BY <2>3, <2>4
<1>2. count' = [r \in Req |-> count'[r]]
  BY DEF Runs
<1> QED
  BY <1>1, <1>2 DEF OncePerRequest

LEMMA RunsStep ==
  ASSUME SInv, NEW x, Sound(x), Runs(x), Reports(x.rt) \/ dirty' \/ moved',
         UNCHANGED <<setup, now, page, sent, conf, started>>
  PROVE  Inner' /\ count' \in [Req -> Nat]
<1>1. PICK r : r = x.rt
  OBVIOUS
<1>2. rt' = r /\ out' = x.out /\ Good(r, started)
  BY <1>1 DEF Runs, Sound
<1>3. /\ count' \in [Req -> Nat] /\ OncePerRequest'
      /\ \A q \in Req : count'[q] # 0 =>
           count[q] # 0 \/ \E e \in r.epochs : e.req = q /\ e.emitted
  BY <1>1, ReportsCounted
<1>4. Good(rt, started)'
  <2>1. \A q : Spent(r, q, started)' = Spent(r, q, started)
    BY DEF Spent, Posted, ProbOf
  <2>2. Shape(rt)'
    BY <1>2 DEF Good, Shape, EpochOK, ActionOK, Ahead, ProbOf
  <2>3. Exclusive(rt, started)'
    BY <1>2 DEF Good, Exclusive, ProbOf
  <2>4. ASSUME NEW q \in Req, count'[q] # 0
        PROVE  Spent(r, q, started) /\ \A e \in r.epochs : e.req = q => e.emitted
    <3>1. CASE count[q] # 0
      BY <1>2, <3>1 DEF Good, Once
    <3>2. CASE \E e \in r.epochs : e.req = q /\ e.emitted
      <4>1. PICK e \in r.epochs : e.req = q /\ e.emitted
        BY <3>2
      <4>2. \A g \in r.epochs : g.req = q => g = e
        BY <1>2, <4>1 DEF Good, Shape
      <4>3. Spent(r, q, started)
        BY <1>2, <4>1 DEF Good, Once
      <4> QED
        BY <4>1, <4>2, <4>3
    <3> QED
      BY <1>3, <2>4, <3>1, <3>2
  <2>5. Once(rt, started)'
    BY <1>2, <2>1, <2>4 DEF Good, Once
  <2> QED
    BY <2>2, <2>3, <2>5 DEF Good
<1>5. NoUnboundUnderMarker'
  <2> SUFFICES ASSUME NEW c \in x.out, c.req = 0 PROVE ~HasEpochMarker(r)
    BY <1>2 DEF NoUnboundUnderMarker, HasEpochMarker
  <2>1. 0 \notin Req
    BY Constants DEF SInv, World
  <2> QED
    BY <1>1, <2>1 DEF Sound, Reportable
<1>6. VerdictIsOwn'
  BY <1>2 DEF Sound, Reportable, IsOwn, VerdictIsOwn
<1>7. ArmedIsReported'
  <2>1. Reports(r) => Reports(rt)'
    BY <1>2 DEF Reports, Armed
  <2> QED
    BY <1>1, <2>1 DEF ArmedIsReported, Reports
<1> QED
  BY <1>3, <1>4, <1>5, <1>6, <1>7 DEF Inner
-----------------------------------------------------------------------------
(* The page, the background and the channel.                               *)
LEMMA Interval ==
  ASSUME NEW q \in Req, NEW n \in Nat \ {0}, n <= q
  PROVE  n \in Req
<1>1. Cardinality(Req) \in Nat
  BY FS_CardinalityType, SubmitEpochsAssumption
<1>2. q \in 1 .. Cardinality(Req)
  BY SubmitEpochsAssumption
<1>3. n \in 1 .. Cardinality(Req)
  BY <1>1, <1>2
<1> QED
  BY <1>3, SubmitEpochsAssumption

LEMMA MessageKept ==
  ASSUME World, Settles, started' = started, NEW m \in Starts \cup Confirmed, Message(m)
  PROVE  Message(m)'
<1>1. m.req \in Req /\ m.at \in Nat
  BY DEF Starts, Confirmed
<1>2. ProbOf(m.req)' = ProbOf(m.req) /\ Posted(m.req)' = Posted(m.req)
  BY DEF ProbOf, Posted, Settles
<1> QED
  BY <1>1, <1>2 DEF Message, Settles, World, Types

LEMMA ChannelKept ==
  ASSUME World, Settles, UNCHANGED <<inbox, started>>
  PROVE  Channel'
<1>1. \A i \in 1 .. Len(inbox) : inbox[i] \in Starts \cup Confirmed
  BY DEF World, Types
<1>2. ASSUME NEW i \in 1 .. Len(inbox) PROVE Message(inbox[i])'
  <2>1. PICK m : m = inbox[i]
    OBVIOUS
  <2>2. Message(m)'
    BY <1>1, <2>1, MessageKept DEF World, Channel
  <2> QED
    BY <2>1, <2>2 DEF Message
<1>3. \A q \in started : Posted(q)'
  BY DEF World, Channel, Posted, Settles
<1> QED
  BY <1>2, <1>3 DEF World, Channel

LEMMA ChannelAppended ==
  ASSUME World, Settles, started' = started, NEW m \in Starts \cup Confirmed, Message(m)',
         Len(inbox) < MaxInbox, inbox' = Append(inbox, m),
         m.type = "STARTED" =>
           \A i \in 1 .. Len(inbox) : inbox[i].type = "STARTED" => inbox[i].req < m.req
  PROVE  Channel' /\ inbox' \in Seq(Starts \cup Confirmed)
<1>0. inbox \in Seq(Starts \cup Confirmed) /\ MaxInbox \in Nat
  BY SubmitEpochsAssumption DEF World, Types
<1>q. PICK queue : queue = inbox'
  OBVIOUS
<1>1. /\ queue \in Seq(Starts \cup Confirmed) /\ Len(queue) = Len(inbox) + 1
      /\ queue[Len(inbox) + 1] = m /\ \A i \in 1 .. Len(inbox) : queue[i] = inbox[i]
  BY <1>0, <1>q
<1>2. Len(inbox) \in Nat /\ \A i \in 1 .. Len(inbox) : inbox[i] \in Starts \cup Confirmed
  BY <1>0
<1>3. ASSUME NEW i \in 1 .. Len(inbox) PROVE Message(queue[i])'
  <2>1. PICK n : n = inbox[i]
    OBVIOUS
  <2>2. Message(n)'
    BY <1>2, <2>1, MessageKept DEF World, Channel
  <2>3. queue[i] = n
    BY <1>1, <2>1
  <2> QED
    BY <2>2, <2>3
<1>4. \A i \in 1 .. Len(queue) : Message(queue[i])'
  <2> SUFFICES ASSUME NEW i \in 1 .. Len(queue) PROVE Message(queue[i])'
    OBVIOUS
  <2>1. i \in 1 .. Len(inbox) \/ i = Len(inbox) + 1
    BY <1>1, <1>2
  <2>2. CASE i = Len(inbox) + 1
    <3>1. queue[i] = m
      BY <1>1, <2>2
    <3> QED
      BY <3>1
  <2> QED
    BY <1>3, <2>1, <2>2
<1>5. \A i, j \in 1 .. Len(queue) :
        i < j /\ queue[i].type = "STARTED" /\ queue[j].type = "STARTED"
          => queue[i].req < queue[j].req
  <2>1. \A i, j \in 1 .. Len(inbox) :
          i < j /\ inbox[i].type = "STARTED" /\ inbox[j].type = "STARTED"
            => inbox[i].req < inbox[j].req
    BY DEF World, Channel
  <2> SUFFICES ASSUME NEW i \in 1 .. Len(queue), NEW j \in 1 .. Len(queue), i < j,
                      queue[i].type = "STARTED", queue[j].type = "STARTED"
               PROVE  queue[i].req < queue[j].req
    OBVIOUS
  <2>0. PICK n \in Nat : n = Len(inbox) /\ Len(queue) = n + 1
    BY <1>1, <1>2
  <2>2. i \in 1 .. Len(inbox)
    BY <2>0
  <2>3. queue[i] = inbox[i]
    BY <1>1, <2>2
  <2>4. j \in 1 .. Len(inbox) \/ j = Len(inbox) + 1
    BY <2>0
  <2>5. CASE j \in 1 .. Len(inbox)
    <3>1. queue[j] = inbox[j]
      BY <1>1, <2>5
    <3> QED
      BY <2>1, <2>2, <2>3, <2>5, <3>1
  <2>6. CASE j = Len(inbox) + 1
    <3>1. queue[j] = m
      BY <1>1, <2>6
    <3>2. m.type = "STARTED"
      BY <3>1
    <3> QED
      BY <2>2, <2>3, <3>1, <3>2
  <2> QED
    BY <2>4, <2>5, <2>6
<1>6. \A q \in started : Posted(q)'
  BY DEF World, Channel, Posted, Settles
<1>7. Len(queue) <= MaxInbox
  BY <1>0, <1>1, <1>2
<1> QED
  BY <1>q, <1>1, <1>4, <1>5, <1>6, <1>7 DEF Channel

LEMMA ScreenKept ==
  ASSUME World, Settles, UNCHANGED page
  PROVE  Screen'
  BY DEF World, Screen, Settles, ProbOf

LEMMA SendingKept ==
  ASSUME World, Settles, UNCHANGED <<sent, conf, hint>>
  PROVE  Sending'
<1>1. \A q : Posted(q)' = Posted(q)
  BY DEF Posted, Settles
<1>2. ASSUME NEW q \in Req, conf[q].at # 0
      PROVE  /\ q \in sent /\ conf[q].at <= now'
             /\ IF Posted(q) THEN conf[q].action = 0 ELSE conf[q].action < now'
  <2>1. conf[q].at \in Nat /\ conf[q].action \in Nat
    BY DEF World, Types, Confirmations
  <2> QED
    BY <1>2, <2>1 DEF World, Sending, Settles, Types
<1>3. \A p \in Problems : hint[p] < now'
  BY DEF World, Sending, Settles, Types
<1> QED
  BY <1>1, <1>2, <1>3 DEF World, Sending

(* Steps that touch nothing but the page and the runtime.                  *)
LEMMA WorldKept ==
  ASSUME World, UNCHANGED <<setup, now, page, sent, conf, hint, inbox, started>>,
         moved' \in BOOLEAN, dirty' \in BOOLEAN, count' \in [Req -> Nat]
  PROVE  World'
<1>1. Settles
  BY DEF Settles, World, Types
<1>2. Types'
  BY DEF World, Types
<1> QED
  BY <1>1, <1>2, ScreenKept, ChannelKept, SendingKept DEF World
-----------------------------------------------------------------------------
(* The actions.                                                            *)
LEMMA SubmitStep ==
  ASSUME SInv, NEW r \in Req, Submit(r)
  PROVE  SInv'
<1> USE DEF SInv
<1>1. Settles
  BY DEF Submit, Settles, browser, background, World, Types
<1>2. Inner' /\ count' \in [Req -> Nat]
  BY <1>1, SilentStep DEF Submit, browser
<1>3. r \in Nat /\ r \notin sent /\ (\A q \in Req : q < r => q \in sent)
  BY Constants DEF Submit, World
<1>4. \A q \in sent : q < r
  <2> SUFFICES ASSUME NEW q \in sent, ~(q < r) PROVE FALSE
    OBVIOUS
  <2>1. q \in Req /\ q \in Nat /\ r < q
    BY <1>3, Constants DEF World, Types
  <2> QED
    BY <1>3, <2>1 DEF World, Sending
<1> DEFINE m == [type |-> "STARTED", req |-> r, prob |-> ProbOf(r), at |-> now]
<1>5. Channel' /\ inbox' \in Seq(Starts \cup Confirmed)
  <2>1. CASE inbox' = inbox
    <3>1. UNCHANGED <<inbox, started>>
      BY <2>1 DEF Submit
    <3> QED
      BY <1>1, <2>1, <3>1, ChannelKept DEF World, Types
  <2>2. CASE inbox' # inbox
    <3>1. Posted(r) /\ Len(inbox) < MaxInbox /\ inbox' = Append(inbox, m) /\ started' = started
      BY <2>2 DEF Submit, Posted, ProbOf
    <3>2. m \in Starts /\ ProbOf(r) \in Problems
      BY Constants DEF Starts, World, Types
    <3>3. PICK n : n = m
      OBVIOUS
    <3>4. n.type = "STARTED" /\ n.req = r /\ n.prob = ProbOf(r) /\ n.at = now
      BY <3>3
    <3>5. ProbOf(r)' = ProbOf(r) /\ Posted(r)' = Posted(r) /\ r \in sent' /\ now' = now
      BY DEF Submit, ProbOf, Posted, browser
    <3>6. \A q \in started' : q < r
      BY <1>4, <3>1 DEF World, Types
    <3>7. now \in 1 .. now'
      BY <3>5 DEF World, Types
    <3>8. Message(n)'
      BY <3>1, <3>4, <3>5, <3>6, <3>7 DEF Message
    <3>9. \A i \in 1 .. Len(inbox) : inbox[i].type = "STARTED" => inbox[i].req < r
      BY <1>4 DEF World, Channel, Message
    <3> HIDE DEF m
    <3> QED
      BY <1>1, <3>1, <3>2, <3>3, <3>4, <3>8, <3>9, ChannelAppended
  <2> QED
    BY <2>1, <2>2
<1>6. Sending'
  <2>1. \A q, s \in Req : s \in sent' /\ q < s => q \in sent'
    BY <1>3 DEF Submit, World, Sending
  <2>2. \A q : Posted(q)' = Posted(q)
    BY DEF Submit, Posted, browser
  <2> QED
    BY <2>1, <2>2 DEF World, Sending, Submit, browser, background
<1>7. Types'
  BY <1>2, <1>5 DEF World, Types, Submit, browser
<1>8. Screen'
  BY <1>1, ScreenKept DEF Submit, browser
<1> QED
  BY <1>2, <1>5, <1>6, <1>7, <1>8 DEF World

LEMMA ClearsStep ==
  ASSUME SInv, Clears
  PROVE  SInv'
<1> USE DEF SInv
<1>2. page' = [page EXCEPT !.shown = Blank(now)] /\ dirty' = TRUE
  BY DEF Clears, Changes
<1>4. page' \in Pages /\ page'.shown = Blank(now) /\ page'.shown.since = now
  <2>1. Blank(now) \in Shown /\ Blank(now).since = now
    BY DEF Blank, Shown, Texts, World, Types
  <2> QED
    BY <1>2, <2>1 DEF World, Types, Pages
<1>1. Settles
  BY <1>4 DEF Clears, Settles, background, World, Types
<1>3. Inner' /\ count' \in [Req -> Nat]
  BY <1>1, <1>2, SilentStep DEF Clears
<1>5. Screen'
  BY <1>4 DEF Screen, Blank
<1>7. Channel' /\ Sending'
  BY <1>1, ChannelKept, SendingKept DEF Clears, background
<1>8. Types'
  BY <1>2, <1>3, <1>4 DEF World, Types, Clears, background
<1> QED
  BY <1>3, <1>5, <1>7, <1>8 DEF World

LEMMA ShowsStep ==
  ASSUME SInv, NEW r \in Req, Shows(r)
  PROVE  SInv'
<1> USE DEF SInv
<1>1. PICK v \in Verdicts, n \in Nodes :
        /\ page' = [page EXCEPT !.shown = [of |-> r, verdict |-> v, node |-> n, since |-> now]]
        /\ dirty' = TRUE
  BY DEF Shows, Changes
<1>2. PICK shown : shown = [of |-> r, verdict |-> v, node |-> n, since |-> now]
  OBVIOUS
<1>3. /\ page' \in Pages /\ page'.shown = shown /\ page'.prob = page.prob
      /\ shown.of = r /\ shown.since = now /\ shown.verdict # "none" /\ r # 0
  <2>1. shown \in Shown
    BY <1>2 DEF Shown, Texts, World, Types
  <2>2. v # "none" /\ r # 0
    BY Constants DEF World
  <2> QED
    BY <1>1, <1>2, <2>1, <2>2 DEF World, Types, Pages
<1>4. Settles
  BY <1>3 DEF Shows, Settles, background, World, Types
<1>5. Inner' /\ count' \in [Req -> Nat]
  BY <1>1, <1>4, SilentStep DEF Shows
<1>6. Screen'
  BY <1>3 DEF Screen, Shows, background, ProbOf
<1>7. Channel' /\ Sending'
  BY <1>4, ChannelKept, SendingKept DEF Shows, background
<1>8. Types'
  BY <1>1, <1>3, <1>5 DEF World, Types, Shows, background
<1> QED
  BY <1>5, <1>6, <1>7, <1>8 DEF World

LEMMA NavigatesStep ==
  ASSUME SInv, Navigates
  PROVE  SInv'
<1> USE DEF SInv
<1>1. PICK a \in setup.places :
        page' = [prob |-> a.prob, exact |-> a.exact,
                 shown |-> IF a.prob = page.prob THEN page.shown ELSE Blank(now)]
  BY DEF Navigates
<1>2. a \in [prob : Problems \cup {"none"}, exact : BOOLEAN]
  BY SubmitEpochsAssumption DEF World, Types
<1>3. /\ page' \in Pages /\ page'.prob = a.prob
      /\ page'.shown = IF a.prob = page.prob THEN page.shown ELSE Blank(now)
  <2>1. Blank(now) \in Shown /\ page.shown \in Shown
    BY DEF Blank, Shown, Texts, World, Types, Pages
  <2> QED
    BY <1>1, <1>2, <2>1 DEF Pages
<1>4. Settles
  <2>1. Blank(now).since = now
    BY DEF Blank
  <2> QED
    BY <1>3, <2>1 DEF Navigates, Settles, background, World, Types
<1>5. Inner' /\ count' \in [Req -> Nat]
  BY <1>4, SilentStep DEF Navigates
<1>6. Screen'
  BY <1>3 DEF Screen, World, Blank, Navigates, background, ProbOf
<1>7. Channel' /\ Sending'
  BY <1>4, ChannelKept, SendingKept DEF Navigates, background
<1>8. Types'
  BY <1>3, <1>5 DEF World, Types, Navigates, background
<1> QED
  BY <1>5, <1>6, <1>7, <1>8 DEF World

LEMMA TickStep ==
  ASSUME SInv, Tick
  PROVE  SInv'
<1> USE DEF SInv
<1>1. Settles
  BY DEF Tick, Settles, background, World, Types
<1>2. Inner' /\ count' \in [Req -> Nat]
  BY <1>1, SilentStep DEF Tick
<1>3. Channel' /\ Sending' /\ Screen'
  BY <1>1, ChannelKept, SendingKept, ScreenKept DEF Tick, background
<1>4. Types'
  BY <1>2 DEF World, Types, Tick, background
<1> QED
  BY <1>2, <1>3, <1>4 DEF World

(* The confirmation of r goes out as the background remembers it.          *)
LEMMA SendsChannel ==
  ASSUME World, Settles, NEW r \in Req, NEW c \in Confirmations, Sends(r, c),
         started' = started, conf'[r] = c, c.at # 0, r \in sent
  PROVE  Channel' /\ inbox' \in Seq(Starts \cup Confirmed)
<1>1. CASE inbox' = inbox
  <2>1. UNCHANGED <<inbox, started>>
    BY <1>1
  <2> QED
    BY <1>1, <2>1, ChannelKept DEF World, Types
<1>2. CASE inbox' # inbox
  <2>1. PICK m : m = [type |-> "CONFIRMED", req |-> r, prob |-> ProbOf(r), at |-> c.at,
                      action |-> c.action, known |-> c.known]
    OBVIOUS
  <2>2. Len(inbox) < MaxInbox /\ inbox' = Append(inbox, m)
    BY <1>2, <2>1 DEF Sends, ProbOf
  <2>3. ProbOf(r) \in Problems
    BY Constants DEF World
  <2>4. m \in Confirmed
    BY <2>1, <2>3 DEF Confirmed, Confirmations
  <2>5. /\ m.type = "CONFIRMED" /\ m.req = r /\ m.prob = ProbOf(r)
        /\ m.at = c.at /\ m.action = c.action /\ m.known = c.known
    BY <2>1
  <2>6. ProbOf(r)' = ProbOf(r) /\ r \in sent'
    BY DEF ProbOf, Settles
  <2>7. Message(m)'
    BY <2>5, <2>6 DEF Message
  <2> QED
    BY <2>2, <2>4, <2>5, <2>7, ChannelAppended
<1> QED
  BY <1>1, <1>2

LEMMA ConfirmsStep ==
  ASSUME SInv, NEW r \in Req, Confirms(r)
  PROVE  SInv'
<1> USE DEF SInv
<1> DEFINE click == hint[setup.sub[r].prob]
<1>1. PICK c : /\ c = IF setup.sub[r].flow = "post" THEN [at |-> now, action |-> 0, known |-> FALSE]
                      ELSE [at |-> now, action |-> click,
                            known |-> \E q \in Req :
                              setup.sub[q].flow = "result" /\ conf[q].at \in 1 .. click]
               /\ conf' = [conf EXCEPT ![r] = c] /\ Sends(r, c)
  BY DEF Confirms
<1>2. click \in Nat /\ click < now /\ now \in Nat /\ now # 0
  <2>1. setup.sub[r].prob \in Problems
    BY Constants DEF World, ProbOf
  <2> QED
    BY <2>1 DEF World, Types, Sending
<1>3. /\ c \in Confirmations /\ c.at = now
      /\ IF Posted(r) THEN c.action = 0 ELSE c.action < now
  <2>1. CASE Posted(r)
    <3>1. c = [at |-> now, action |-> 0, known |-> FALSE]
      BY <1>1, <2>1 DEF Posted
    <3> QED
      BY <1>2, <2>1, <3>1 DEF Confirmations
  <2>2. CASE ~Posted(r)
    <3>1. PICK b \in BOOLEAN : c = [at |-> now, action |-> click, known |-> b]
      BY <1>1, <2>2 DEF Posted
    <3> HIDE DEF click
    <3> QED
      BY <1>2, <2>2, <3>1 DEF Confirmations
  <2> QED
    BY <2>1, <2>2
<1>4. /\ conf' \in [Req -> Confirmations] /\ conf'[r] = c
      /\ \A q \in Req \ {r} : conf'[q] = conf[q]
  BY <1>1, <1>3 DEF World, Types
<1>5. r \in sent /\ conf[r].at = 0
  BY DEF Confirms
<1>6. Settles
  <2>1. setup' = setup /\ now' = now /\ sent' = sent /\ page' = page
    BY DEF Confirms, browser
  <2>2. now' \in Nat /\ now <= now'
    BY <1>2, <2>1
  <2>3. ASSUME NEW q \in Req, conf[q].at # 0 PROVE conf'[q] = conf[q]
    BY <1>4, <1>5, <2>3
  <2> QED
    BY <2>1, <2>2, <2>3 DEF Settles
<1>7. Inner' /\ count' \in [Req -> Nat]
  BY <1>6, SilentStep DEF Confirms, browser
<1>8. Channel' /\ inbox' \in Seq(Starts \cup Confirmed)
  BY <1>1, <1>2, <1>3, <1>4, <1>5, <1>6, SendsChannel DEF Confirms
<1>9. Sending'
  <2>1. \A q : Posted(q)' = Posted(q)
    BY DEF Confirms, browser, Posted
  <2>2. ASSUME NEW q \in Req, conf'[q].at # 0
        PROVE  /\ q \in sent /\ conf'[q].at <= now
               /\ IF Posted(q) THEN conf'[q].action = 0 ELSE conf'[q].action < now
    <3>1. CASE q = r
      BY <1>2, <1>3, <1>4, <1>5, <3>1
    <3>2. CASE q # r
      BY <1>4, <2>2, <3>2 DEF World, Sending
    <3> QED
      BY <3>1, <3>2
  <2> QED
    BY <2>1, <2>2 DEF World, Sending, Confirms, browser
<1>11. Screen'
  BY <1>6, ScreenKept DEF Confirms, browser
<1>12. Types'
  BY <1>4, <1>7, <1>8 DEF World, Types, Confirms, browser
<1> QED
  BY <1>7, <1>8, <1>9, <1>11, <1>12 DEF World

LEMMA ReplaysStep ==
  ASSUME SInv, NEW r \in Req, Replays(r)
  PROVE  SInv'
<1> USE DEF SInv
<1>1. Settles
  BY DEF Replays, Settles, browser, background, World, Types
<1>2. Inner' /\ count' \in [Req -> Nat]
  BY <1>1, SilentStep DEF Replays, browser
<1>3. PICK c \in Confirmations : c = conf[r]
  BY DEF World, Types
<1>4. c.at # 0 /\ r \in sent /\ conf'[r] = c /\ Sends(r, c) /\ started' = started
  BY <1>3 DEF Replays, background, World, Sending
<1>5. Channel' /\ inbox' \in Seq(Starts \cup Confirmed)
  BY <1>1, <1>4, SendsChannel
<1>6. Sending' /\ Screen'
  BY <1>1, SendingKept, ScreenKept DEF Replays, browser, background
<1>7. Types'
  BY <1>2, <1>5 DEF World, Types, Replays, browser, background
<1> QED
  BY <1>2, <1>5, <1>6, <1>7 DEF World

(* The channel without its head.                                           *)
LEMMA ChannelTail ==
  ASSUME World, inbox # <<>>, inbox' = Tail(inbox), UNCHANGED <<setup, sent, conf, now>>,
         NEW m, m = Head(inbox),
         started' = IF m.type = "STARTED" THEN started \cup {m.req} ELSE started
  PROVE  /\ m \in Starts \cup Confirmed /\ Message(m)
         /\ Channel' /\ inbox' \in Seq(Starts \cup Confirmed) /\ started' \in SUBSET sent
<1>1. inbox \in Seq(Starts \cup Confirmed)
  BY DEF World, Types
<1>2. PICK queue : queue = inbox'
  OBVIOUS
<1>3. /\ queue \in Seq(Starts \cup Confirmed) /\ Len(queue) = Len(inbox) - 1 /\ Len(inbox) >= 1
      /\ Len(inbox) \in Nat /\ Len(queue) \in Nat
      /\ \A i \in 1 .. Len(queue) : queue[i] = inbox[i + 1] /\ i + 1 \in 1 .. Len(inbox)
  BY <1>1, <1>2
<1>4. m = inbox[1] /\ 1 \in 1 .. Len(inbox)
  BY <1>1, <1>3
<1>5. m \in Starts \cup Confirmed /\ Message(m)
  BY <1>1, <1>4 DEF World, Channel
<1>6. started' \in SUBSET sent /\ \A q \in started' : Posted(q)
  BY <1>5 DEF World, Types, Channel, Message
<1>7. \A q : ProbOf(q)' = ProbOf(q) /\ Posted(q)' = Posted(q)
  BY DEF ProbOf, Posted
<1>8. ASSUME NEW i \in 1 .. Len(queue) PROVE Message(queue[i])'
  <2>1. PICK n : n = inbox[i + 1]
    OBVIOUS
  <2>2. Message(n) /\ n = queue[i]
    BY <1>3, <2>1 DEF World, Channel
  <2>3. n.type = "STARTED" /\ m.type = "STARTED" => m.req < n.req
    <3>1. 1 < i + 1
      BY <1>3
    <3> QED
      BY <1>3, <1>4, <2>1, <3>1 DEF World, Channel
  <2>4. Message(n)'
    BY <1>7, <2>2, <2>3 DEF Message
  <2> QED
    BY <2>2, <2>4
<1>9. \A i, j \in 1 .. Len(queue) :
        i < j /\ queue[i].type = "STARTED" /\ queue[j].type = "STARTED"
          => queue[i].req < queue[j].req
  <2> SUFFICES ASSUME NEW i \in 1 .. Len(queue), NEW j \in 1 .. Len(queue), i < j,
                      queue[i].type = "STARTED", queue[j].type = "STARTED"
               PROVE  queue[i].req < queue[j].req
    OBVIOUS
  <2>1. i + 1 < j + 1
    BY <1>3
  <2> QED
    BY <1>3, <2>1 DEF World, Channel
<1>10. Len(queue) <= MaxInbox
  BY <1>3, SubmitEpochsAssumption DEF World, Channel
<1> QED
  BY <1>2, <1>3, <1>5, <1>6, <1>7, <1>8, <1>9, <1>10 DEF Channel

LEMMA DeliversStep ==
  ASSUME SInv, Delivers
  PROVE  SInv'
<1> USE DEF SInv
<1>1. PICK m : m = Head(inbox)
  OBVIOUS
<1>2. PICK x : x = ControlMessageReceived(m)
  OBVIOUS
<1>3. /\ inbox # <<>> /\ inbox' = Tail(inbox) /\ Runs(x)
      /\ started' = IF m.type = "STARTED" THEN started \cup {m.req} ELSE started
      /\ UNCHANGED <<setup, now, page, moved, dirty, sent, conf, hint>>
  BY <1>1, <1>2 DEF Delivers, browser, background
<1>4. /\ m \in Starts \cup Confirmed /\ Message(m)
      /\ Channel' /\ inbox' \in Seq(Starts \cup Confirmed) /\ started' \in SUBSET sent
  BY <1>1, <1>3, ChannelTail
<1>5. /\ Good(x.rt, IF m.type = "STARTED" THEN started \cup {m.req} ELSE started)
      /\ IF m.type = "STARTED" THEN x.out = {} ELSE Sound(x)
      /\ Reports(rt) => Reports(x.rt)
  BY <1>2, <1>4, ReceivedSound DEF World, Inner
<1>6. Settles
  BY <1>3 DEF Settles, World, Types
<1>7. Inner' /\ count' \in [Req -> Nat]
  <2>1. CASE m.type = "STARTED"
    <3>1. PICK r : r = x.rt
      OBVIOUS
    <3>2. rt' = r /\ out' = {} /\ count' = count
      BY <1>3, <1>5, <2>1, <3>1, QuietRuns DEF World
    <3>3. Good(r, started)'
      <4>1. PICK heard : heard = started'
        OBVIOUS
      <4>2. Good(r, heard)
        BY <1>3, <1>5, <2>1, <3>1, <4>1
      <4>3. Good(r, heard)'
        BY <1>6, <3>2, <4>2, Frame DEF World
      <4> QED
        BY <4>1, <4>3
    <3> QED
      BY <1>3, <1>5, <1>6, <3>1, <3>2, <3>3, QuietStep
  <2>2. CASE m.type # "STARTED"
    <3>1. Sound(x) /\ started' = started
      BY <1>3, <1>5, <2>2
    <3>2. CASE Reports(x.rt) \/ dirty'
      BY <1>3, <3>1, <3>2, RunsStep
    <3>3. CASE ~(Reports(x.rt) \/ dirty')
      <4>1. ~Reports(rt) /\ ~dirty
        BY <1>3, <1>5, <3>3
      <4>2. moved
        BY <4>1 DEF Inner, ArmedIsReported, Reports
      <4> QED
        BY <1>3, <3>1, <4>2, RunsStep
    <3> QED
      BY <3>2, <3>3
  <2> QED
    BY <2>1, <2>2
<1>8. Screen' /\ Sending'
  BY <1>3, <1>6, ScreenKept, SendingKept
<1>9. Types'
  BY <1>3, <1>4, <1>7 DEF World, Types
<1> QED
  BY <1>4, <1>7, <1>8, <1>9 DEF World

LEMMA UiHintStep ==
  ASSUME SInv, UiHint
  PROVE  SInv'
<1> USE DEF SInv
<1>1. PICK r, x : r = rt /\ x = RecordUiHint(rt)
  OBVIOUS
<1>4. Settles
  BY DEF UiHint, Settles, World, Types
<1>3. rt' = x /\ out' = {} /\ count' = count
  <2>1. PICK y : y = Result(x, {})
    OBVIOUS
  <2>2. y.rt = x /\ y.out = {}
    BY <2>1 DEF Result
  <2>3. Runs(y)
    BY <1>1, <2>1 DEF UiHint
  <2> QED
    BY <2>2, <2>3, QuietRuns DEF World
<1>2. Good(x, started)' /\ (Reports(rt) => Reports(x))
  BY <1>1, <1>3, <1>4, HintGood DEF UiHint, World, Inner
<1>5. Inner' /\ count' \in [Req -> Nat]
  BY <1>2, <1>3, <1>4, QuietStep DEF UiHint
<1>6. /\ hint' \in [Problems -> Nat] /\ \A p \in Problems : hint'[p] < now'
      /\ now' \in Nat \ {0}
  <2>1. /\ hint \in [Problems -> Nat] /\ now \in Nat /\ now' = now + 1
        /\ \A p \in Problems : hint[p] < now
    BY DEF UiHint, World, Types, Sending
  <2>2. hint' = hint \/ hint' = [hint EXCEPT ![rt.detected] = now]
    BY DEF UiHint
  <2> QED
    BY <2>1, <2>2
<1>7. Sending'
  <2>1. \A q : Posted(q)' = Posted(q)
    BY DEF Posted, UiHint
  <2>2. ASSUME NEW q \in Req, conf[q].at # 0
        PROVE  /\ q \in sent /\ conf[q].at <= now'
               /\ IF Posted(q) THEN conf[q].action = 0 ELSE conf[q].action < now'
    <3>1. conf[q].at \in Nat /\ conf[q].action \in Nat
      BY DEF World, Types, Confirmations
    <3> QED
      BY <2>2, <3>1 DEF World, Sending, UiHint, Types
  <2> QED
    BY <1>6, <2>1, <2>2 DEF World, Sending, UiHint
<1>8. Channel' /\ Screen'
  BY <1>4, ChannelKept, ScreenKept DEF UiHint
<1>9. Types'
  BY <1>5, <1>6 DEF World, Types, UiHint
<1> QED
  BY <1>5, <1>7, <1>8, <1>9 DEF World

LEMMA ObservesStep ==
  ASSUME SInv, Observes
  PROVE  SInv'
<1> USE DEF SInv
<1>1. PICK r, l, t, x : /\ r = rt /\ l = Looked(r) /\ t = ClearVerdictTransitions(l)
                        /\ x = Evaluate(t)
  OBVIOUS
<1>2. Good(l, started) /\ l.detected = page.prob
  BY <1>1, LookedGood DEF World, Inner
<1>3. Good(t, started) /\ t.detected = page.prob
  BY <1>1, <1>2, TransitionsGood DEF World
<1>4. Sound(x) /\ Reports(x.rt)
  BY <1>1, <1>3, EvaluateSound DEF World
<1>5. x = LocationObserved(rt)
  BY <1>1 DEF LocationObserved, Looked
<1>6. Runs(x) /\ UNCHANGED <<setup, now, page, dirty, sent, conf, hint, inbox, started>>
      /\ moved' = FALSE
  BY <1>5 DEF Observes, background
<1>7. Inner' /\ count' \in [Req -> Nat]
  BY <1>4, <1>6, RunsStep
<1>8. World'
  BY <1>6, <1>7, WorldKept DEF World, Types
<1> QED
  BY <1>7, <1>8

LEMMA MutatesStep ==
  ASSUME SInv, Mutates
  PROVE  SInv'
<1> USE DEF SInv
<1>1. PICK r, l, x : r = rt /\ l = Looked(r) /\ x = Evaluate(l)
  OBVIOUS
<1>2. Good(l, started) /\ l.detected = page.prob
  BY <1>1, LookedGood DEF World, Inner
<1>3. Sound(x) /\ Reports(x.rt)
  BY <1>1, <1>2, EvaluateSound DEF World
<1>4. x = DocumentMutated(rt)
  BY <1>1 DEF DocumentMutated, Looked
<1>5. Runs(x) /\ UNCHANGED <<setup, now, page, moved, sent, conf, hint, inbox, started>>
      /\ dirty' = FALSE
  BY <1>4 DEF Mutates, browser, background
<1>6. Inner' /\ count' \in [Req -> Nat]
  BY <1>3, <1>5, RunsStep
<1>7. World'
  BY <1>5, <1>6, WorldKept DEF World, Types
<1> QED
  BY <1>6, <1>7

LEMMA PageHiddenStep ==
  ASSUME SInv, PageHidden
  PROVE  SInv'
<1> USE DEF SInv
<1>1. PICK r, e, t, x : /\ r = rt /\ e = ClearEpochs(r) /\ t = ClearVerdictTransitions(e)
                        /\ x = Result(t, {})
  OBVIOUS
<1>2. Good(e, started) /\ e.epochs = {}
  BY <1>1, ClearedGood DEF World, Inner
<1>3. Good(t, started) /\ t.epochs = {}
  BY <1>1, <1>2, TransitionsGood DEF World
<1>4. x.rt = t /\ x.out = {}
  BY <1>1 DEF Result
<1>5. Sound(x) /\ Reports(x.rt)
  BY <1>3, <1>4 DEF Sound, Reports, Armed
<1>6. Runs(x) /\ UNCHANGED <<setup, now, page, moved, dirty, sent, conf, hint, inbox, started>>
  BY <1>1 DEF PageHidden, browser, background
<1>7. Inner' /\ count' \in [Req -> Nat]
  BY <1>5, <1>6, RunsStep
<1>8. World'
  BY <1>6, <1>7, WorldKept DEF World, Types
<1> QED
  BY <1>7, <1>8

LEMMA PageShownStep ==
  ASSUME SInv, PageShown
  PROVE  SInv'
<1> USE DEF SInv
<1>1. PICK r, e, o, t, x : /\ r = rt /\ e = ClearEpochs(r) /\ o = ObserveDetectedProblem(e)
                           /\ t = ClearVerdictTransitions(o)
                           /\ x = EvaluateVerdictCandidate(t)
  OBVIOUS
<1>2. Good(e, started) /\ e.epochs = {} /\ e.actions = {}
  BY <1>1, ClearedGood DEF World, Inner
<1>3. Good(o, started) /\ o.epochs = {} /\ o.actions = {}
  BY <1>1, <1>2, ObservedGood DEF World
<1>4. Good(t, started) /\ t.epochs = {} /\ t.actions = {}
  BY <1>1, <1>3, TransitionsGood DEF World
<1>5. ~HasEpochMarker(t) /\ Reports(t)
  BY <1>4 DEF HasEpochMarker, Reports, Armed
<1>6. Sound(x) /\ Reports(x.rt)
  BY <1>1, <1>4, <1>5, CandidateSound DEF World
<1>7. Runs(x) /\ UNCHANGED <<setup, now, page, dirty, sent, conf, hint, inbox, started>>
      /\ moved' = FALSE
  BY <1>1 DEF PageShown, background
<1>8. Inner' /\ count' \in [Req -> Nat]
  BY <1>6, <1>7, RunsStep
<1>9. World'
  BY <1>7, <1>8, WorldKept DEF World, Types
<1> QED
  BY <1>8, <1>9
-----------------------------------------------------------------------------
(* The invariant and what follows from it.                                 *)
LEMMA InitGood == Init => SInv
<1> SUFFICES ASSUME Init PROVE SInv
  OBVIOUS
<1>1. Types /\ page.shown = Blank(0)
  <2>1. PICK a \in setup.places : page = [prob |-> a.prob, exact |-> a.exact, shown |-> Blank(0)]
    BY DEF Init
  <2>2. a \in [prob : Problems \cup {"none"}, exact : BOOLEAN]
    BY SubmitEpochsAssumption DEF Init
  <2>3. Blank(0) \in Shown
    BY DEF Blank, Shown, Texts
  <2>4. page \in Pages /\ page.shown = Blank(0)
    BY <2>1, <2>2, <2>3 DEF Pages
  <2>5. conf \in [Req -> Confirmations]
    BY DEF Init, Confirmations
  <2>6. inbox \in Seq(Starts \cup Confirmed) /\ count \in [Req -> Nat] /\ hint \in [Problems -> Nat]
    BY DEF Init
  <2>7. setup \in Setups /\ now \in Nat \ {0} /\ moved \in BOOLEAN /\ dirty \in BOOLEAN
        /\ sent \in SUBSET Req /\ started \in SUBSET sent
    <3>1. setup \in Setups /\ now = 1 /\ moved = FALSE /\ dirty = FALSE /\ sent = {} /\ started = {}
      BY DEF Init
    <3>2. moved \in BOOLEAN /\ dirty \in BOOLEAN
      BY <3>1
    <3>3. now \in Nat \ {0}
      BY <3>1
    <3>4. sent \in SUBSET Req /\ started \in SUBSET sent
      BY <3>1
    <3> QED
      BY <3>1, <3>2, <3>3, <3>4
  <2> QED
    BY <2>4, <2>5, <2>6, <2>7 DEF Types
<1>2. \A q \in Req : conf[q].at = 0 /\ count[q] = 0
  BY DEF Init
<1>3. Screen /\ Sending /\ Channel
  <2>1. page.shown.of = 0 /\ page.shown = Blank(page.shown.since)
    BY <1>1 DEF Blank
  <2>2. Sending
    BY <1>2 DEF Sending, Init
  <2>3. Len(inbox) = 0 /\ MaxInbox \in Nat
    BY SubmitEpochsAssumption DEF Init
  <2>4. Channel
    BY <2>3 DEF Channel, Init
  <2> QED
    BY <1>1, <1>2, <2>1, <2>2, <2>4 DEF Screen
<1>4. PICK r, o, x : r = Fresh /\ o = ObserveDetectedProblem(r) /\ x = EvaluateVerdictCandidate(o)
  OBVIOUS
<1>5. r \in Runtimes /\ r.epochs = {} /\ r.actions = {}
  BY <1>4 DEF Fresh, Runtimes, Texts
<1>6. Good(r, started)
  <2>1. Shape(r)
    BY <1>1, <1>5, FS_EmptySet, Constants DEF Shape
  <2> QED
    BY <1>2, <1>5, <2>1 DEF Good, Once, Exclusive
<1>7. Good(o, started) /\ o.epochs = {} /\ o.actions = {}
  BY <1>1, <1>4, <1>5, <1>6, ObservedGood
<1>8. ~HasEpochMarker(o)
  BY <1>7 DEF HasEpochMarker
<1>9. Good(x.rt, started) /\ x.rt.epochs = {}
  BY <1>1, <1>4, <1>7, <1>8, CandidateSound DEF Sound
<1>10. rt = x.rt
  BY <1>4 DEF Init
<1>11. Good(rt, started) /\ rt.epochs = {}
  <2>1. PICK y : y = x.rt
    OBVIOUS
  <2> QED
    BY <1>9, <1>10
<1>12. OncePerRequest /\ NoUnboundUnderMarker /\ ArmedIsReported /\ VerdictIsOwn
  BY <1>2, <1>11 DEF OncePerRequest, NoUnboundUnderMarker, ArmedIsReported, VerdictIsOwn,
     Init, Armed
<1> QED
  BY <1>1, <1>3, <1>11, <1>12 DEF SInv, World, Inner

LEMMA StepGood == SInv /\ [Next]_vars => SInv'
<1> SUFFICES ASSUME SInv, [Next]_vars PROVE SInv'
  OBVIOUS
<1>1. ASSUME NEW r \in Req, Submit(r) \/ Shows(r) \/ Confirms(r) \/ Replays(r)
      PROVE  SInv'
  BY <1>1, SubmitStep, ShowsStep, ConfirmsStep, ReplaysStep
<1>2. CASE UiHint
  BY <1>2, UiHintStep
<1>3. CASE Clears
  BY <1>3, ClearsStep
<1>4. CASE Navigates
  BY <1>4, NavigatesStep
<1>5. CASE Observes
  BY <1>5, ObservesStep
<1>6. CASE Mutates
  BY <1>6, MutatesStep
<1>7. CASE PageHidden
  BY <1>7, PageHiddenStep
<1>8. CASE PageShown
  BY <1>8, PageShownStep
<1>9. CASE Delivers
  BY <1>9, DeliversStep
<1>10. CASE Tick
  BY <1>10, TickStep
<1>11. CASE UNCHANGED vars
  BY <1>11, ZenonT(60) DEF vars, SInv, World, Inner, Types, Screen, Sending, Channel, Message,
     Good, Shape, EpochOK, ActionOK, Ahead, Once, Spent, Exclusive, ProbOf, Posted, OncePerRequest,
     NoUnboundUnderMarker, HasEpochMarker, ArmedIsReported, Armed, VerdictIsOwn
<1> QED
  BY <1>1, <1>2, <1>3, <1>4, <1>5, <1>6, <1>7, <1>8, <1>9, <1>10, <1>11 DEF Next

(* The invariant holds in every reachable state.                           *)
THEOREM SubmitInvariant == Spec => []SInv
<1>1. Init => SInv
  BY InitGood
<1>2. SInv /\ [Next]_vars => SInv'
  BY StepGood
<1> QED
  BY <1>1, <1>2, PTL DEF Spec

(* The runtime, the page and the channel keep their types, and the runtime *)
(* keeps no more epochs and clicks than there is room for.                 *)
THEOREM RuntimeTypeCorrect == Spec => []TypeOK
<1>1. SInv => TypeOK
  <2> SUFFICES ASSUME SInv PROVE TypeOK
    OBVIOUS
  <2>1. page.prob \in Problems \cup {"none"} /\ page.shown.of \in sent \cup {0}
    BY DEF SInv, World, Types, Pages, Screen
  <2>2. rt \in Runtimes
    BY DEF SInv, Inner, Good, Shape
  <2>3. \A e \in rt.epochs : e.req \in sent /\ e.at \in 1 .. now /\ e.confirmed \in 0 .. now
                           /\ (e.emitted => e.proof /\ e.confirmed # 0)
    <3> SUFFICES ASSUME NEW e \in rt.epochs
                 PROVE  e.req \in sent /\ e.at \in 1 .. now /\ e.confirmed \in 0 .. now
                        /\ (e.emitted => e.proof /\ e.confirmed # 0)
      OBVIOUS
    <3>1. EpochOK(e) /\ e.confirmed \in Nat /\ now \in Nat
      BY <2>2 DEF SInv, World, Inner, Good, Shape, Types, Runtimes, Epochs
    <3> QED
      BY <3>1 DEF EpochOK
  <2>4. /\ rt.detected \in Problems \cup {"none"} /\ rt.last \in Verdicts \cup {"none", Unset}
        /\ rt.exactOn \in {Unset, "on"} /\ rt.exactVerdict \in Verdicts \cup {Unset}
    BY <2>2 DEF Runtimes, Texts
  <2>5. /\ Cardinality(rt.epochs) <= setup.room /\ Cardinality(rt.actions) <= setup.room
        /\ \A e, f \in rt.epochs : e.req = f.req => e = f
        /\ Len(inbox) <= MaxInbox /\ started \subseteq sent
    BY DEF SInv, World, Inner, Good, Shape, Types, Channel
  <2> QED
    BY <2>1, <2>3, <2>4, <2>5 DEF TypeOK
<1> QED
  BY <1>1, SubmitInvariant, PTL

(* No submission is reported twice, whatever is replayed, hidden, expired  *)
(* or submitted again.                                                     *)
THEOREM ReportedOnce == Spec => []OncePerRequest
<1>1. SInv => OncePerRequest
  BY DEF SInv, Inner
<1> QED
  BY <1>1, SubmitInvariant, PTL

(* However long old verdicts linger or come back: a candidate that names a *)
(* request carries none that was on screen at the click of its baseline,   *)
(* and, if the request was started, none of a later submission of whose    *)
(* start the page has heard.                                               *)
THEOREM CarriesItsOwnVerdict == Spec => []VerdictIsOwn
<1>1. SInv => VerdictIsOwn
  BY DEF SInv, Inner
<1> QED
  BY <1>1, SubmitInvariant, PTL

(* The older detector is silent while an epoch or a click is remembered.   *)
THEOREM SilentUnderMarker == Spec => []NoUnboundUnderMarker
<1>1. SInv => NoUnboundUnderMarker
  BY DEF SInv, Inner
<1> QED
  BY <1>1, SubmitInvariant, PTL

(* Once the document's changes have been observed, no armed and confirmed  *)
(* epoch is left that sees another verdict than its baseline.              *)
THEOREM NothingArmedIsLeft == Spec => []ArmedIsReported
<1>1. SInv => ArmedIsReported
  BY DEF SInv, Inner
<1> QED
  BY <1>1, SubmitInvariant, PTL
=============================================================================
