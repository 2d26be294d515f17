---------------------- MODULE CaptureOrchestrator_proofs ----------------------
(***************************************************************************)
(* The orchestrator implements SubmissionLedger: a submission is bundled   *)
(* again only after its tombstone was dropped.  Two facts make the ledger  *)
(* inductive: a submission has one tombstone at most (OneTomb), and none   *)
(* while it is confirmed (NotBoth).  Everything a handler writes to local  *)
(* storage records a confirmation or finalizes a submission (Writes).      *)
(* What it writes next to that refers to recorded submissions (Backed),    *)
(* keeps the slices within their caps (Bounded), and leaves a candidate    *)
(* that joins only next to the verdict it joins to (Orderly).              *)
(***************************************************************************)
EXTENDS CaptureOrchestrator, TLAPS, FiniteSetTheorems, WellFoundedInduction

Requests == Sub \X Nat
Hints == [doc : {"lc", "nc"}, prob : STRING, at : Nat]
Lifecycles == [req : Requests, at : Nat, done : BOOLEAN,
               out : {"pending", "flawed", "matched", "error"}, sid : Sub \cup {None}]
Candidates == [sub : Sub, at : Nat, req : Requests \cup {NoRequest}]
Verdicts == [sub : Sub, at : Nat, prob : STRING, of : Sub, cand : BOOLEAN]
Polls == [poll : Requests]
Records == [at : Nat, prob : STRING]
Tombs == [sub : Sub, fin : Nat]
Bundles == [sub : Sub, start : Nat, conf : Nat, fin : Nat, of : Sub]
Seen == [at : Nat, req : Requests \cup {NoRequest}]

Stores == [confirmed : [Sub -> Records \cup {None}], tombs : SUBSET Tombs,
           outbox : SUBSET Bundles]
Sessions == [hints : SUBSET Hints, lcs : SUBSET Lifecycles,
             parked : SUBSET Verdicts, cands : SUBSET Candidates]
Outcomes == [local : Stores, session : Sessions, work : SUBSET Verdicts]

Matching(ses) == \A e \in ses.lcs : e.out = "matched" => e.sid \in Sub

Types ==
  /\ setup \in Setups /\ now \in Nat /\ polls \in [Sub -> Nat]
  /\ shown \in [Sub -> Seen \cup {None}]
  /\ local \in Stores /\ session \in Sessions /\ Matching(session)
  /\ todo \subseteq Polls \cup Verdicts
  /\ built \in [Sub -> Nat] /\ evicted \in [Sub -> Nat]

OneTomb == \A x, y \in local.tombs : x.sub = y.sub => x = y

NotBoth == \A s \in Sub : local.confirmed[s] # None => s \notin Tombed(local.tombs)

IInv == Types /\ OneTomb /\ NotBoth

(* What a write does to the submissions.                                   *)
Same(l, s) == \A t \in Sub \ {s} : l.confirmed[t] = local.confirmed[t]

Confirms(l, s) ==
  /\ l.outbox = local.outbox /\ l.tombs \subseteq local.tombs
  /\ s \notin Tombed(l.tombs) /\ l.confirmed[s] # None /\ Same(l, s)

Finalizes(l, s, x) ==
  /\ x.sub = s /\ x \in l.tombs /\ l.confirmed[s] = None /\ Same(l, s)
  /\ l.tombs \ {x} \subseteq {y \in local.tombs : y.sub # s}
  /\ \/ l.outbox = local.outbox
     \/ \E b \in Bundles : b.sub = s /\ l.outbox = local.outbox \cup {b}
  /\ local.confirmed[s] # None \/ x \notin local.tombs

Writes(l) ==
  \/ l = local
  \/ \E s \in Sub : Confirms(l, s)
  \/ \E s \in Sub, x \in Tombs : Finalizes(l, s, x)
-----------------------------------------------------------------------------
(* The ledger.                                                             *)
LEMMA NoneApart == None \notin Records
  BY DEF None, Records

Status(s) == IF local.confirmed[s] # None THEN "confirmed"
             ELSE IF s \in Tombed(local.tombs) THEN "final" ELSE "unseen"

(* The submissions whose tombstone a write drops were final.               *)
LEMMA Dropped ==
  ASSUME IInv, NEW l \in Stores, NEW s \in Tombed(local.tombs \ l.tombs)
  PROVE  s \in Sub /\ Status(s) = "final" /\ s \in Tombed(local.tombs)
<1>1. PICK x \in local.tombs \ l.tombs : s = x.sub
  BY DEF Tombed
<1>2. x \in Tombs
  BY DEF IInv, Types, Stores
<1>3. s \in Sub /\ s \in Tombed(local.tombs)
  BY <1>1, <1>2 DEF Tombs, Tombed
<1> QED
  BY <1>3 DEF IInv, NotBoth, Status

LEMMA CountedTypes ==
  ASSUME IInv, NEW l, Counted(l)
  PROVE  built' \in [Sub -> Nat] /\ evicted' \in [Sub -> Nat]
  BY DEF IInv, Types, Counted

LEMMA ConfirmStep ==
  ASSUME IInv, NEW l \in Stores, NEW s \in Sub, Confirms(l, s), local' = l, Counted(l)
  PROVE  Ledger!Next /\ OneTomb' /\ NotBoth'
<1>0. PICK F : F = Tombed(local.tombs \ l.tombs)
  OBVIOUS
<1>1. F \subseteq Sub /\ \A t \in F : Status(t) = "final" /\ t \in Tombed(local.tombs)
  BY <1>0, Dropped
<1>2. \A t \in F : t \notin Tombed(l.tombs)
  BY <1>0 DEF IInv, OneTomb, Confirms, Tombed
<1>3. \A t : t \in Tombed(local.tombs) /\ t \notin F => t \in Tombed(l.tombs)
  BY <1>0 DEF Tombed
<1>4. \A t : t \in Tombed(l.tombs) => t \in Tombed(local.tombs)
  BY DEF Tombed, Confirms
<1>5. OneTomb'
  BY DEF IInv, OneTomb, Confirms
<1>6. \A t \in Sub \ {s} : l.confirmed[t] = local.confirmed[t]
  BY DEF Confirms, Same
<1>7. NotBoth'
  BY <1>4, <1>6 DEF IInv, NotBoth, Confirms
<1>8. built' = built /\ evicted' = [t \in Sub |-> evicted[t] + (IF t \in F THEN 1 ELSE 0)]
  BY <1>0 DEF Counted, Confirms, IInv, Types
<1>9. \A t \in Sub \ {s} : Status(t)' = IF t \in F THEN "unseen" ELSE Status(t)
  BY <1>1, <1>2, <1>3, <1>4, <1>6 DEF Status
<1>10. Status(s)' = "confirmed"
  BY DEF Confirms, Status
<1>11. Ledger!Forgotten(F)
  BY <1>1, <1>8 DEF Ledger!Forgotten, Status
<1>12. CASE local.confirmed[s] = None
  <2>1. s \in F \/ Status(s) = "unseen"
    BY <1>3, <1>12 DEF Status, Confirms
  <2>2. Ledger!Confirm(s, F)
    BY <1>8, <1>9, <1>10, <1>11, <2>1 DEF Ledger!Confirm, Status
  <2>3. F \in SUBSET Sub
    BY <1>1
  <2>4. Ledger!Next
    BY <2>2, <2>3 DEF Ledger!Next
  <2> QED
    BY <1>5, <1>7, <2>4
<1>13. CASE local.confirmed[s] # None
  <2>1. s \notin F /\ Status(s) = "confirmed"
    BY <1>1, <1>13 DEF Status
  <2>2. Ledger!Forget(F)
    BY <1>8, <1>9, <1>10, <1>11, <2>1 DEF Ledger!Forget, Status
  <2>3. F \in SUBSET Sub
    BY <1>1
  <2>4. Ledger!Next
    BY <2>2, <2>3 DEF Ledger!Next
  <2> QED
    BY <1>5, <1>7, <2>4
<1> QED
  BY <1>5, <1>7, <1>12, <1>13

LEMMA FinalizeStep ==
  ASSUME IInv, NEW l \in Stores, NEW s \in Sub, NEW x \in Tombs, Finalizes(l, s, x),
         local' = l, Counted(l)
  PROVE  Ledger!Next /\ OneTomb' /\ NotBoth'
<1>0. PICK F : F = Tombed(local.tombs \ l.tombs)
  OBVIOUS
<1>1. F \subseteq Sub /\ \A t \in F : Status(t) = "final" /\ t \in Tombed(local.tombs)
  BY <1>0, Dropped
<1>2. \A t \in F \ {s} : t \notin Tombed(l.tombs)
  BY <1>0 DEF IInv, OneTomb, Finalizes, Tombed
<1>3. \A t : t \in Tombed(local.tombs) /\ t \notin F => t \in Tombed(l.tombs)
  BY <1>0 DEF Tombed
<1>4. \A t : t \in Tombed(l.tombs) /\ t # s => t \in Tombed(local.tombs)
  BY DEF Tombed, Finalizes
<1>5. OneTomb'
  <2>1. \A y \in l.tombs : y = x \/ (y \in local.tombs /\ y.sub # s)
    BY DEF Finalizes
  <2> QED
    BY <2>1 DEF IInv, OneTomb, Finalizes
<1>6. \A t \in Sub \ {s} : l.confirmed[t] = local.confirmed[t]
  BY DEF Finalizes, Same
<1>7. NotBoth'
  BY <1>4, <1>6 DEF IInv, NotBoth, Finalizes
<1>8. evicted' = [t \in Sub |-> evicted[t] + (IF t \in F THEN 1 ELSE 0)]
  BY <1>0 DEF Counted
<1>9. built' \in {built, [built EXCEPT ![s] = @ + 1]}
  <2>1. built' = [t \in Sub |-> built[t] +
           (IF \E b \in l.outbox \ local.outbox : b.sub = t THEN 1 ELSE 0)]
    BY DEF Counted
  <2>2. built = [t \in Sub |-> built[t]] /\ \A t \in Sub : built[t] \in Nat
    BY DEF IInv, Types
  <2>3. CASE l.outbox \subseteq local.outbox
    BY <2>1, <2>2, <2>3
  <2>4. CASE ~(l.outbox \subseteq local.outbox)
    <3>1. PICK b \in Bundles : b.sub = s /\ l.outbox = local.outbox \cup {b}
      BY <2>4 DEF Finalizes
    <3>2. \A t \in Sub : (\E c \in l.outbox \ local.outbox : c.sub = t) <=> t = s
      BY <2>4, <3>1
    <3>3. built' = [t \in Sub |-> built[t] + (IF t = s THEN 1 ELSE 0)]
      BY <2>1, <3>2
    <3> QED
      BY <2>2, <3>3
  <2> QED
    BY <2>3, <2>4
<1>10. \A t \in Sub \ {s} : Status(t)' = IF t \in F THEN "unseen" ELSE Status(t)
  BY <1>1, <1>2, <1>3, <1>4, <1>6 DEF Status
<1>11. Status(s)' = "final"
  BY DEF Finalizes, Status, Tombed
<1>12. Ledger!Forgotten(F)
  BY <1>1, <1>8 DEF Ledger!Forgotten, Status
<1>13. CASE local.confirmed[s] # None
  <2>1. s \notin F /\ Status(s) = "confirmed"
    BY <1>1, <1>13 DEF Status
  <2>2. Ledger!Finalize(s, F)
    BY <1>9, <1>10, <1>11, <1>12, <2>1 DEF Ledger!Finalize, Status
  <2>3. F \in SUBSET Sub
    BY <1>1
  <2>4. Ledger!Next
    BY <2>2, <2>3 DEF Ledger!Next
  <2> QED
    BY <1>5, <1>7, <2>4
<1>14. CASE local.confirmed[s] = None
  <2>1. s \in F \/ Status(s) = "unseen"
    BY <1>0, <1>14 DEF Status, Finalizes, Tombed
  <2>2. Ledger!ConfirmAndFinalize(s, F)
    BY <1>9, <1>10, <1>11, <1>12, <2>1 DEF Ledger!ConfirmAndFinalize, Status
  <2>3. F \in SUBSET Sub
    BY <1>1
  <2>4. Ledger!Next
    BY <2>2, <2>3 DEF Ledger!Next
  <2> QED
    BY <1>5, <1>7, <2>4
<1> QED
  BY <1>5, <1>7, <1>13, <1>14

ledger == <<[s \in Sub |-> Status(s)], built, evicted>>

LEMMA WriteStep ==
  ASSUME IInv, NEW l \in Stores, Writes(l), local' = l, Counted(l)
  PROVE  /\ Ledger!Next \/ UNCHANGED ledger
         /\ OneTomb' /\ NotBoth' /\ built' \in [Sub -> Nat] /\ evicted' \in [Sub -> Nat]
<1>1. CASE l = local
  <2>1. UNCHANGED <<local, built, evicted>>
    BY <1>1 DEF Counted, Tombed, IInv, Types
  <2>2. UNCHANGED ledger
    BY <2>1 DEF ledger, Status
  <2> QED
    BY <2>1, <2>2 DEF IInv, Types, OneTomb, NotBoth
<1> QED
  BY <1>1, ConfirmStep, FinalizeStep, CountedTypes DEF Writes
-----------------------------------------------------------------------------
(* The stored evidence keeps its types.                                    *)
LEMMA PrunedTypes ==
  ASSUME IInv
  PROVE  /\ Pruned \in Sessions /\ Matching(Pruned)
         /\ \A p \in Pruned.parked : now - p.at < ParkTtl
<1>1. session = [hints |-> session.hints, lcs |-> session.lcs,
                 parked |-> session.parked, cands |-> session.cands]
  BY DEF IInv, Types, Sessions
<1>2. /\ session.hints \subseteq Hints /\ session.lcs \subseteq Lifecycles
      /\ session.parked \subseteq Verdicts /\ session.cands \subseteq Candidates
  BY DEF IInv, Types, Sessions
<1>3. Pruned \in Sessions
  BY <1>2 DEF Pruned, Sessions
<1>4. Matching(Pruned)
  BY DEF Pruned, Matching, IInv, Types
<1>5. ASSUME NEW p \in Pruned.parked
      PROVE  now - p.at < ParkTtl
  <2>1. p \in session.parked /\ ~(now - p.at >= ParkTtl)
    BY <1>5 DEF Pruned, Expired
  <2>2. p.at \in Nat /\ now \in Nat /\ ParkTtl \in Nat
    BY <1>2, <2>1, OrchestratorAssumption DEF Verdicts, IInv, Types
  <2> QED
    BY <2>1, <2>2
<1> QED
  BY <1>3, <1>4, <1>5

LEMMA SetupTypes ==
  ASSUME IInv, NEW s \in Sub
  PROVE  Prob(s) \in STRING /\ Doc(s) \in {"lc", "nc"}
<1> DEFINE Setup == [flow : {"check", "legacy", "result", "status", "absent"},
                     prob : STRING, polls : Nat]
<1>1. setup \in [Sub -> Setup]
  BY OrchestratorAssumption DEF IInv, Types
<1>2. setup[s] \in Setup
  BY <1>1
<1> QED
  BY <1>2 DEF Prob, Doc

LEMMA Decisions == Pending \notin Verdicts /\ Terminal \notin Verdicts
  BY DEF Pending, Terminal, Verdicts

LEMMA JoinTypes ==
  ASSUME IInv, NEW c \in Candidates, NEW e \in Lifecycles, NEW confirmed,
         e.out = "matched" => e.sid \in Sub
  PROVE  JoinConfirmed(c, e, confirmed) \in Verdicts \cup {Pending, Terminal}
<1>1. c.sub \in Sub /\ c.at \in Nat /\ Prob(c.sub) \in STRING
  BY SetupTypes DEF Candidates
<1>2. CASE e.out = "matched"
  <2>1. [sub |-> e.sid, at |-> c.at, prob |-> Prob(c.sub), of |-> c.sub, cand |-> TRUE]
          \in Verdicts
    BY <1>1, <1>2 DEF Verdicts
  <2> QED
    BY <1>2, <2>1 DEF JoinConfirmed
<1>3. CASE e.out # "matched"
  BY <1>3 DEF JoinConfirmed
<1> QED
  BY <1>2, <1>3

LEMMA ReconcileTypes ==
  ASSUME IInv, NEW c \in Candidates, NEW lcs \in SUBSET Lifecycles, NEW confirmed,
         \A e \in lcs : e.out = "matched" => e.sid \in Sub
  PROVE  Reconcile(c, lcs, confirmed) \in Verdicts \cup {Pending, Terminal}
<1>1. \A e \in lcs : JoinConfirmed(c, e, confirmed) \in Verdicts \cup {Pending, Terminal}
  BY JoinTypes
<1>2. ReconcileArmed(c, lcs, confirmed) \in Verdicts \cup {Pending, Terminal}
  <2> DEFINE named == {e \in lcs : e.req = c.req}
             e == CHOOSE x \in named : TRUE
  <2>1. named # {} => e \in lcs
    OBVIOUS
  <2> HIDE DEF e
  <2> QED
    BY <1>1, <2>1 DEF ReconcileArmed, e
<1>3. ReconcileLegacy(c, lcs, confirmed) \in Verdicts \cup {Pending, Terminal}
  <2> DEFINE fits == {e \in lcs :
                 DocOf(e) = Doc(c.sub) /\ IsSubmit(e) /\ Prob(e.req[1]) = Prob(c.sub)}
             eligible == {e \in fits : e.done /\ e.at <= c.at}
             latest == {e \in eligible : \A f \in eligible : f.at <= e.at}
             e == CHOOSE x \in latest : TRUE
  <2>1. latest # {} => e \in lcs
    OBVIOUS
  <2> HIDE DEF e
  <2> QED
    BY <1>1, <2>1 DEF ReconcileLegacy, e
<1> QED
  BY <1>2, <1>3 DEF Reconcile

LEMMA KeptResolved ==
  ASSUME IInv, NEW cands \in SUBSET Candidates, NEW lcs \in SUBSET Lifecycles,
         NEW confirmed, \A e \in lcs : e.out = "matched" => e.sid \in Sub
  PROVE  /\ Kept(cands, lcs, confirmed) \subseteq cands
         /\ Resolutions(cands, lcs, confirmed) \subseteq Verdicts
  BY ReconcileTypes DEF Kept, Resolutions

(* What every handler returns.                                             *)
Sound(out) == out \in Outcomes /\ Matching(out.session) /\ Writes(out.local)

LEMMA OutcomeTypes ==
  ASSUME NEW l \in Stores, NEW ses \in Sessions, NEW work \in SUBSET Verdicts
  PROVE  /\ Outcome(l, ses, work) \in Outcomes
         /\ Outcome(l, ses, work).local = l /\ Outcome(l, ses, work).session = ses
         /\ Outcome(l, ses, work).work = work
  BY DEF Outcome, Outcomes

LEMMA QuietSound ==
  ASSUME IInv, NEW ses \in Sessions, Matching(ses), NEW work \in SUBSET Verdicts
  PROVE  Sound(Outcome(local, ses, work)) /\ Sound(Quiet(local, ses))
<1>1. local \in Stores /\ {} \in SUBSET Verdicts
  BY DEF IInv, Types
<1> QED
  BY <1>1, OutcomeTypes DEF Sound, Quiet, Writes

LEMMA SessionParts ==
  ASSUME NEW ses \in Sessions
  PROVE  /\ ses.hints \subseteq Hints /\ ses.lcs \subseteq Lifecycles
         /\ ses.parked \subseteq Verdicts /\ ses.cands \subseteq Candidates
         /\ ses = [hints |-> ses.hints, lcs |-> ses.lcs, parked |-> ses.parked,
                   cands |-> ses.cands]
  BY DEF Sessions

LEMMA HandleE0Sound ==
  ASSUME IInv, NEW s \in Sub, NEW ses \in Sessions, Matching(ses),
         NEW out \in HandleE0(s, ses)
  PROVE  Sound(out)
<1> DEFINE hint == [doc |-> Doc(s), prob |-> Prob(s), at |-> now]
           left == [ses EXCEPT !.hints = @ \cup {hint}]
<1>1. hint \in Hints
  BY SetupTypes DEF Hints, IInv, Types
<1>2. left.hints \subseteq Hints /\ left.lcs = ses.lcs /\ left.parked = ses.parked
        /\ left.cands = ses.cands
  BY <1>1, SessionParts
<1>3. left \in Sessions
  BY <1>1, SessionParts DEF Sessions
<1>4. Matching(left)
  BY <1>2 DEF Matching
<1>5. out = Quiet(local, ses) \/ out = Quiet(local, left)
  BY DEF HandleE0
<1> HIDE DEF left
<1> QED
  BY <1>3, <1>4, <1>5, QuietSound

Signals == {"before", "completed", "error", "redirect"}

LEMMA MergedTypes ==
  ASSUME NEW e \in Lifecycles, NEW signal, e.out = "matched" => e.sid \in Sub
  PROVE  /\ MergedE1(e, signal) \in Lifecycles
         /\ MergedE1(e, signal).out = "matched" => MergedE1(e, signal).sid \in Sub
<1> DEFINE done == e.done \/ signal = "completed"
           outcome == CASE e.out = "matched" -> e.out
                        [] e.out # "matched" /\ signal = "error" -> "error"
                        [] e.out = "pending" /\ signal = "redirect" -> "flawed"
                        [] OTHER -> e.out
<1>1. e.done \in BOOLEAN /\ e.out \in {"pending", "flawed", "matched", "error"}
  BY DEF Lifecycles
<1>2. done \in BOOLEAN /\ outcome \in {"pending", "flawed", "matched", "error"}
  BY <1>1
<1>3. outcome = "matched" => e.out = "matched"
  BY <1>1
<1>4. MergedE1(e, signal) = [e EXCEPT !.done = done, !.out = outcome]
  BY DEF MergedE1
<1> HIDE DEF done, outcome
<1> QED
  BY <1>2, <1>3, <1>4 DEF Lifecycles

LEMMA HandleE1Sound ==
  ASSUME IInv, NEW req \in Requests, NEW signal, NEW ses \in Sessions, Matching(ses),
         NEW out \in HandleE1(req, signal, ses)
  PROVE  Sound(out)
<1> DEFINE prior == {e \in ses.lcs : e.req = req}
           merged == IF prior = {} THEN {MergedE1(Lifecycle(req, now, FALSE, "pending", None), signal)}
                     ELSE {MergedE1(e, signal) : e \in prior}
           lcs == (ses.lcs \ prior) \cup merged
           cands == {c \in ses.cands : \/ signal = "redirect" \/ c.req # NoRequest
                             \/ Reconcile(c, lcs, local.confirmed) # Terminal}
           left == [ses EXCEPT !.lcs = lcs, !.cands = cands]
<1>1. Lifecycle(req, now, FALSE, "pending", None) \in Lifecycles
  BY DEF Lifecycle, Lifecycles, IInv, Types
<1>2. Lifecycle(req, now, FALSE, "pending", None).out # "matched"
  BY DEF Lifecycle
<1>3. \A e \in merged : e \in Lifecycles /\ (e.out = "matched" => e.sid \in Sub)
  <2>1. \A e \in prior : e \in Lifecycles /\ (e.out = "matched" => e.sid \in Sub)
    BY SessionParts DEF Matching
  <2> DEFINE first == MergedE1(Lifecycle(req, now, FALSE, "pending", None), signal)
  <2>2. first \in Lifecycles /\ (first.out = "matched" => first.sid \in Sub)
    BY <1>1, <1>2, MergedTypes
  <2>3. \A e \in merged : e = first \/ \E f \in prior : e = MergedE1(f, signal)
    BY Zenon
  <2> HIDE DEF merged, prior, first
  <2>4. ASSUME NEW e \in merged
        PROVE  e \in Lifecycles /\ (e.out = "matched" => e.sid \in Sub)
    <3>1. CASE e = first
      BY <2>2, <3>1
    <3>2. CASE e # first
      <4>1. PICK f \in prior : e = MergedE1(f, signal)
        BY <2>3, <3>2
      <4>2. f \in Lifecycles /\ (f.out = "matched" => f.sid \in Sub)
        BY <2>1, <4>1
      <4> QED
        BY <4>1, <4>2, MergedTypes
    <3> QED
      BY <3>1, <3>2
  <2> QED
    BY <2>4
<1>4. lcs \subseteq Lifecycles /\ \A e \in lcs : e.out = "matched" => e.sid \in Sub
  BY <1>3, SessionParts DEF Matching
<1> HIDE DEF lcs
<1>5. cands \subseteq Candidates
  BY SessionParts
<1>6. out = Quiet(local, left)
  BY DEF HandleE1, lcs
<1> HIDE DEF cands
<1>7. left \in Sessions /\ left.lcs = lcs
  BY <1>4, <1>5, SessionParts DEF Sessions
<1>8. Matching(left)
  BY <1>4, <1>7 DEF Matching
<1> HIDE DEF left
<1> QED
  BY <1>6, <1>7, <1>8, QuietSound

(* What finalizing a bundle does to the store it starts from.              *)
LEMMA FinalizedFacts ==
  ASSUME NEW loc \in Stores, NEW b \in Bundles, NEW l \in Finalized(loc, b)
  PROVE  /\ l \in Stores
         /\ l.confirmed = [loc.confirmed EXCEPT ![b.sub] = None]
         /\ [sub |-> b.sub, fin |-> b.fin] \in l.tombs
         /\ \A y \in l.tombs : \/ y = [sub |-> b.sub, fin |-> b.fin]
                               \/ y \in loc.tombs /\ y.sub # b.sub
         /\ l.outbox = loc.outbox \/ l.outbox = loc.outbox \cup {b}
<1> DEFINE x == [sub |-> b.sub, fin |-> b.fin]
           old == Unexpired({y \in loc.tombs : y.sub # b.sub}, b.fin)
           outbox == IF \E y \in loc.outbox : y.sub = b.sub THEN loc.outbox
                     ELSE loc.outbox \cup {b}
           confirmed == [loc.confirmed EXCEPT ![b.sub] = None]
<1>1. PICK T \in Newest(old, x, MaxTombs) :
          l = [confirmed |-> confirmed, tombs |-> T, outbox |-> outbox]
  BY DEF Finalized
<1>2. x \in T /\ T \subseteq old \cup {x}
  BY <1>1 DEF Newest
<1>3. x \in Tombs /\ b.sub \in Sub
  BY DEF Bundles, Tombs
<1>4. loc.tombs \subseteq Tombs /\ loc.outbox \subseteq Bundles
        /\ loc.confirmed \in [Sub -> Records \cup {None}]
  BY DEF Stores
<1>5. T \subseteq Tombs /\ \A y \in T : y = x \/ (y \in loc.tombs /\ y.sub # b.sub)
  BY <1>2, <1>3, <1>4 DEF Unexpired
<1>6. outbox \subseteq Bundles /\ (outbox = loc.outbox \/ outbox = loc.outbox \cup {b})
  BY <1>4
<1>7. confirmed \in [Sub -> Records \cup {None}]
  BY <1>3, <1>4
<1>8. l.tombs = T /\ l.outbox = outbox /\ l.confirmed = confirmed
  BY <1>1
<1> HIDE DEF outbox, confirmed, x
<1>9. l \in Stores
  BY <1>1, <1>5, <1>6, <1>7 DEF Stores
<1> QED
  BY <1>2, <1>5, <1>6, <1>8, <1>9 DEF x, confirmed

Bundling(loc, e3, l) ==
  \E b \in Bundles : /\ b.sub = e3.sub /\ b.fin = e3.at
                     /\ loc.confirmed[e3.sub] # None /\ l \in Finalized(loc, b)

LEMMA StartTypes ==
  ASSUME NEW e3 \in Verdicts, NEW conf \in Records, NEW ses \in Sessions
  PROVE  Starts(e3, conf, ses) \subseteq Nat
<1>1. \A e \in ses.lcs : e.at \in Nat
  BY SessionParts DEF Lifecycles
<1>2. e3.at \in Nat /\ conf.at \in Nat
  BY DEF Verdicts, Records
<1> QED
  BY <1>1, <1>2 DEF Starts

LEMMA HandleE3Facts ==
  ASSUME NEW e3 \in Verdicts, NEW loc \in Stores, NEW ses \in Sessions, Matching(ses),
         NEW out \in HandleE3(e3, loc, ses)
  PROVE  /\ out \in Outcomes /\ Matching(out.session)
         /\ out.local = loc \/ Bundling(loc, e3, out.local)
         /\ out.session.lcs \subseteq ses.lcs
         /\ out.session.parked \subseteq ses.parked \cup {e3}
         /\ out.work = {}
<1> DEFINE conf == loc.confirmed[e3.sub]
           consumed == [ses EXCEPT !.cands = WithoutCand(e3, @)]
           bundled == [consumed EXCEPT !.lcs = {e \in @ : e.sid # e3.sub},
                                       !.parked = {p \in @ : p.sub # e3.sub}]
<1>1. WithoutCand(e3, ses.cands) \subseteq Candidates
  BY SessionParts DEF WithoutCand
<1>2. /\ consumed.hints = ses.hints /\ consumed.lcs = ses.lcs
      /\ consumed.parked = ses.parked /\ consumed.cands = WithoutCand(e3, ses.cands)
      /\ consumed = [hints |-> ses.hints, lcs |-> ses.lcs, parked |-> ses.parked,
                     cands |-> WithoutCand(e3, ses.cands)]
  BY SessionParts
<1>3. consumed \in Sessions /\ Matching(consumed)
  BY <1>1, <1>2, SessionParts DEF Sessions, Matching
<1> HIDE DEF consumed
<1>4. /\ bundled \in Sessions /\ bundled.lcs \subseteq consumed.lcs
      /\ bundled.parked \subseteq consumed.parked
  BY <1>3, SessionParts DEF Sessions
<1>5. Matching(bundled)
  BY <1>3, <1>4 DEF Matching
<1> HIDE DEF bundled
<1>6. ASSUME NEW l \in Stores, NEW left \in Sessions, Matching(left),
             out = Quiet(l, left),
             left.lcs \subseteq ses.lcs, left.parked \subseteq ses.parked \cup {e3}
      PROVE  /\ out \in Outcomes /\ Matching(out.session) /\ out.local = l
             /\ out.session.lcs \subseteq ses.lcs
             /\ out.session.parked \subseteq ses.parked \cup {e3}
             /\ out.work = {}
  BY <1>6, OutcomeTypes DEF Quiet
<1>7. CASE IsFinal(e3.sub, loc)
  <2>1. out = Quiet(loc, consumed)
    BY <1>7 DEF HandleE3, consumed
  <2> QED
    BY <1>2, <1>3, <1>6, <2>1
<1>8. CASE ~IsFinal(e3.sub, loc) /\ (conf = None \/ conf.prob # e3.prob)
  <2>1. PICK P \in Newest({p \in ses.parked : p.sub # e3.sub}, e3, Cap) :
            out = Quiet(loc, [ses EXCEPT !.parked = P])
    BY <1>8 DEF HandleE3
  <2> DEFINE left == [ses EXCEPT !.parked = P]
  <2>2. P \subseteq Verdicts /\ P \subseteq ses.parked \cup {e3}
    BY <2>1, SessionParts DEF Newest
  <2>3. left \in Sessions /\ left.lcs = ses.lcs /\ left.parked = P
    BY <2>2, SessionParts DEF Sessions
  <2>4. Matching(left)
    BY <2>3 DEF Matching
  <2> HIDE DEF left
  <2> QED
    BY <1>6, <2>1, <2>2, <2>3, <2>4 DEF left
<1>9. CASE ~IsFinal(e3.sub, loc) /\ ~(conf = None \/ conf.prob # e3.prob)
  <2>1. PICK start \in Starts(e3, conf, ses) :
            LET b == Bundle(e3, start, conf.at)
            IN out \in IF InOrder(b) THEN {Quiet(loc2, bundled) : loc2 \in Finalized(loc, b)}
                       ELSE {Quiet(loc, consumed)}
    BY <1>9 DEF HandleE3, consumed, bundled
  <2> DEFINE b == Bundle(e3, start, conf.at)
  <2>2. e3.sub \in Sub /\ e3.at \in Nat /\ e3.of \in Sub /\ conf \in Records
    BY <1>9 DEF Verdicts, Stores
  <2>3. start \in Nat /\ conf.at \in Nat
    BY <2>1, <2>2, StartTypes DEF Records
  <2>4. b \in Bundles /\ b.sub = e3.sub /\ b.fin = e3.at
    BY <2>2, <2>3 DEF Bundle, Bundles
  <2> HIDE DEF b
  <2>5. CASE out = Quiet(loc, consumed)
    BY <1>2, <1>3, <1>6, <2>5
  <2>6. CASE \E l \in Finalized(loc, b) : out = Quiet(l, bundled)
    <3>1. PICK l \in Finalized(loc, b) : out = Quiet(l, bundled)
      BY <2>6
    <3>2. l \in Stores
      BY <2>4, <3>1, FinalizedFacts
    <3>3. /\ out \in Outcomes /\ Matching(out.session) /\ out.local = l
          /\ out.session.lcs \subseteq ses.lcs
          /\ out.session.parked \subseteq ses.parked \cup {e3}
          /\ out.work = {}
      BY <1>2, <1>4, <1>5, <1>6, <3>1, <3>2
    <3>4. Bundling(loc, e3, l)
      BY <1>9, <2>4, <3>1 DEF Bundling
    <3> QED
      BY <3>3, <3>4
  <2> QED
    BY <2>1, <2>5, <2>6 DEF b
<1> QED
  BY <1>7, <1>8, <1>9

LEMMA HandleE3Sound ==
  ASSUME IInv, NEW e3 \in Verdicts, NEW ses \in Sessions, Matching(ses),
         NEW out \in HandleE3(e3, local, ses)
  PROVE  Sound(out)
<1>1. local \in Stores
  BY DEF IInv, Types
<1>2. out \in Outcomes /\ Matching(out.session)
        /\ (out.local = local \/ Bundling(local, e3, out.local))
  BY <1>1, HandleE3Facts
<1>3. CASE Bundling(local, e3, out.local)
  <2>1. PICK b \in Bundles :
            /\ b.sub = e3.sub /\ local.confirmed[e3.sub] # None
            /\ out.local \in Finalized(local, b)
    BY <1>3 DEF Bundling
  <2> DEFINE x == [sub |-> b.sub, fin |-> b.fin]
  <2>2. x \in Tombs /\ x.sub = b.sub /\ b.sub \in Sub
    BY DEF Tombs, Bundles
  <2>3. /\ out.local.confirmed = [local.confirmed EXCEPT ![b.sub] = None]
        /\ x \in out.local.tombs
        /\ \A y \in out.local.tombs : y = x \/ (y \in local.tombs /\ y.sub # b.sub)
        /\ out.local.outbox = local.outbox \/ out.local.outbox = local.outbox \cup {b}
    BY <1>1, <2>1, FinalizedFacts
  <2>4. local.confirmed \in [Sub -> Records \cup {None}]
    BY <1>1 DEF Stores
  <2>5. out.local.confirmed[b.sub] = None /\ Same(out.local, b.sub)
    BY <2>2, <2>3, <2>4 DEF Same
  <2> HIDE DEF x
  <2>6. Finalizes(out.local, b.sub, x)
    BY <2>1, <2>2, <2>3, <2>5 DEF Finalizes
  <2> QED
    BY <1>2, <2>2, <2>6 DEF Sound, Writes
<1> QED
  BY <1>2, <1>3 DEF Sound, Writes

(* A confirmation that is not refused records the submission and drops     *)
(* tombstones that had expired.                                            *)
LEMMA ConfirmedFacts ==
  ASSUME IInv, NEW s \in Sub, NEW at \in Nat, NEW prob \in STRING, ~Refused(s, prob)
  PROVE  /\ Confirmed(s, at, prob) \in Stores
         /\ Confirms(Confirmed(s, at, prob), s)
         /\ Confirmed(s, at, prob).tombs = Unexpired(local.tombs, now)
<1> DEFINE rec == IF local.confirmed[s] = None THEN [at |-> at, prob |-> prob]
                  ELSE local.confirmed[s]
           confirmed == [local.confirmed EXCEPT ![s] = rec]
           tombs == Unexpired(local.tombs, now)
           l == Confirmed(s, at, prob)
<1>1. local \in Stores
  BY DEF IInv, Types
<1>2. /\ local.confirmed \in [Sub -> Records \cup {None}]
      /\ local.tombs \subseteq Tombs /\ local.outbox \subseteq Bundles
      /\ local = [confirmed |-> local.confirmed, tombs |-> local.tombs,
                  outbox |-> local.outbox]
  BY <1>1 DEF Stores
<1>3. rec \in Records
  BY <1>2 DEF Records
<1>4. rec # None
  BY <1>3, NoneApart
<1> HIDE DEF rec
<1>5. confirmed \in [Sub -> Records \cup {None}] /\ confirmed[s] = rec
        /\ \A t \in Sub \ {s} : confirmed[t] = local.confirmed[t]
  BY <1>2, <1>3
<1>6. tombs \subseteq local.tombs /\ s \notin Tombed(tombs)
  BY DEF Refused, Unexpired
<1>7. l = [local EXCEPT !.tombs = tombs, !.confirmed = confirmed]
  BY <1>2 DEF Confirmed, rec
<1> HIDE DEF confirmed, tombs
<1>8. l \in Stores /\ l.tombs = tombs /\ l.confirmed = confirmed /\ l.outbox = local.outbox
  BY <1>2, <1>5, <1>6, <1>7 DEF Stores
<1> HIDE DEF l
<1>9. Confirms(l, s)
  BY <1>4, <1>5, <1>6, <1>8 DEF Confirms, Same
<1> QED
  BY <1>8, <1>9 DEF l, tombs

(* A parked verdict is younger than every tombstone that has expired, as   *)
(* verdicts are parked no longer than tombstones are kept.                 *)
LEMMA ReplaySound ==
  ASSUME IInv, NEW s \in Sub, NEW at \in Nat, NEW prob \in STRING, ~Refused(s, prob),
         NEW p \in Verdicts, p.sub = s, now - p.at < ParkTtl,
         NEW ses \in Sessions, Matching(ses), NEW work \in SUBSET Verdicts,
         NEW out \in Replayed(p, Confirmed(s, at, prob), ses, work)
  PROVE  Sound(out)
<1> DEFINE after == Confirmed(s, at, prob)
           blind == [NoEvidence EXCEPT !.hints = ses.hints]
<1>1. /\ after \in Stores /\ Confirms(after, s)
      /\ after.tombs = Unexpired(local.tombs, now)
  BY ConfirmedFacts
<1>2. local \in Stores /\ now \in Nat /\ p.at \in Nat
        /\ ParkTtl \in Nat /\ TombTtl \in Nat /\ ParkTtl <= TombTtl
  BY OrchestratorAssumption DEF IInv, Types, Verdicts
<1>3. blind \in Sessions /\ blind.lcs = {}
  BY SessionParts DEF NoEvidence, Sessions
<1>4. Matching(blind)
  BY <1>3 DEF Matching
<1> HIDE DEF after, blind
<1>5. PICK r \in HandleE3(p, after, blind) :
          out = Outcome(IF r.local = after THEN local ELSE r.local,
                        IF r.session = blind /\ r.local = after THEN ses ELSE r.session,
                        work)
  BY DEF Replayed, after, blind
<1>6. r \in Outcomes /\ Matching(r.session)
        /\ (r.local = after \/ Bundling(after, p, r.local))
  BY <1>1, <1>3, <1>4, <1>5, HandleE3Facts
<1>7. r.local \in Stores /\ r.session \in Sessions
  BY <1>6 DEF Outcomes
<1>8. out.local = (IF r.local = after THEN local ELSE r.local)
        /\ Matching(out.session) /\ out \in Outcomes
  <2> DEFINE l == IF r.local = after THEN local ELSE r.local
             left == IF r.session = blind /\ r.local = after THEN ses ELSE r.session
  <2>1. l \in Stores /\ left \in Sessions /\ Matching(left)
    BY <1>2, <1>6, <1>7
  <2> HIDE DEF l, left
  <2>2. out = Outcome(l, left, work)
    BY <1>5 DEF l, left
  <2> QED
    BY <2>1, <2>2, OutcomeTypes DEF l
<1>9. CASE r.local = after
  BY <1>8, <1>9 DEF Sound, Writes
<1>10. CASE r.local # after
  <2>1. PICK b \in Bundles :
            b.sub = s /\ b.fin = p.at /\ r.local \in Finalized(after, b)
    BY <1>6, <1>10 DEF Bundling
  <2> DEFINE x == [sub |-> b.sub, fin |-> b.fin]
             l == out.local
  <2>2. x \in Tombs /\ x.sub = s /\ x.fin = p.at
    BY <2>1 DEF Tombs, Bundles
  <2>3. l = r.local
    BY <1>8, <1>10
  <2> HIDE DEF l
  <2>4. /\ l.confirmed = [after.confirmed EXCEPT ![s] = None] /\ x \in l.tombs
        /\ \A y \in l.tombs : y = x \/ (y \in after.tombs /\ y.sub # s)
        /\ l.outbox = after.outbox \/ l.outbox = after.outbox \cup {b}
    BY <1>1, <2>1, <2>3, FinalizedFacts
  <2> HIDE DEF x
  <2>5. after.confirmed \in [Sub -> Records \cup {None}]
    BY <1>1 DEF Stores
  <2>6. l.confirmed[s] = None /\ Same(l, s)
    BY <1>1, <2>4, <2>5 DEF Same, Confirms
  <2>7. after.outbox = local.outbox /\ after.tombs \subseteq local.tombs
    BY <1>1 DEF Confirms
  <2>8. x \notin local.tombs
    <3>1. SUFFICES ASSUME x \in local.tombs PROVE FALSE
      OBVIOUS
    <3>2. x \notin Unexpired(local.tombs, now)
      BY <2>2 DEF Refused, Tombed
    <3>3. ~(now < x.fin + TombTtl)
      BY <3>1, <3>2 DEF Unexpired
    <3> QED
      BY <1>2, <2>2, <3>3
  <2>9. Finalizes(l, s, x)
    BY <2>1, <2>2, <2>4, <2>6, <2>7, <2>8 DEF Finalizes
  <2> QED
    BY <1>8, <2>2, <2>9 DEF Sound, Writes, l
<1> QED
  BY <1>9, <1>10

LEMMA MatchedTypes ==
  ASSUME NEW s \in Sub, NEW req, NEW ses \in Sessions, Matching(ses)
  PROVE  /\ Matched(s, req, ses) \subseteq Lifecycles
         /\ \A e \in Matched(s, req, ses) : e.out = "matched" => e.sid \in Sub
<1>1. ASSUME NEW e \in ses.lcs
      PROVE  [e EXCEPT !.out = "matched", !.sid = s] \in Lifecycles
               /\ [e EXCEPT !.out = "matched", !.sid = s].sid = s
  <2>1. e \in Lifecycles
    BY SessionParts
  <2> QED
    BY <2>1 DEF Lifecycles
<1>2. ASSUME NEW e \in Matched(s, req, ses)
      PROVE  e \in Lifecycles /\ (e.out = "matched" => e.sid \in Sub)
  <2>1. PICK f \in ses.lcs :
            e = IF f.req = req THEN [f EXCEPT !.out = "matched", !.sid = s] ELSE f
    BY DEF Matched
  <2>2. f \in Lifecycles /\ (f.out = "matched" => f.sid \in Sub)
    BY SessionParts DEF Matching
  <2> QED
    BY <1>1, <2>1, <2>2
<1> QED
  BY <1>2

LEMMA HandleE2Sound ==
  ASSUME IInv, NEW s \in Sub, NEW at \in Nat, NEW prob \in STRING, NEW req,
         NEW ses \in Sessions, Matching(ses), \A p \in ses.parked : now - p.at < ParkTtl,
         NEW out \in HandleE2(s, at, prob, req, ses)
  PROVE  Sound(out)
<1> DEFINE after == Confirmed(s, at, prob)
           lcs == Matched(s, req, ses)
           cands == Kept(ses.cands, lcs, after.confirmed)
           matched == [ses EXCEPT !.lcs = lcs, !.cands = cands]
           work == Resolutions(ses.cands, lcs, after.confirmed)
           waiting == {p \in ses.parked : p.sub = s}
<1>1. CASE Refused(s, prob)
  BY <1>1, QuietSound DEF HandleE2
<1>2. CASE ~Refused(s, prob)
  <2>1. after \in Stores /\ Confirms(after, s)
    BY <1>2, ConfirmedFacts
  <2>2. lcs \subseteq Lifecycles /\ \A e \in lcs : e.out = "matched" => e.sid \in Sub
    BY MatchedTypes
  <2>3. cands \subseteq Candidates /\ work \subseteq Verdicts
    BY <2>2, SessionParts, KeptResolved
  <2>4. out \in IF waiting = {} THEN {Outcome(after, matched, work)}
                ELSE UNION {Replayed(p, after, matched, work) : p \in waiting}
    BY <1>2 DEF HandleE2
  <2> HIDE DEF after, lcs, cands, work
  <2>5. matched \in Sessions /\ matched.lcs = lcs
    BY <2>2, <2>3, SessionParts DEF Sessions
  <2>6. Matching(matched)
    BY <2>2, <2>5 DEF Matching
  <2> HIDE DEF matched
  <2>7. CASE out = Outcome(after, matched, work)
    BY <2>1, <2>3, <2>5, <2>6, <2>7, OutcomeTypes DEF Sound, Writes
  <2>8. CASE \E p \in waiting : out \in Replayed(p, after, matched, work)
    <3>1. PICK p \in waiting : out \in Replayed(p, after, matched, work)
      BY <2>8
    <3>2. p \in Verdicts /\ p.sub = s /\ now - p.at < ParkTtl
      BY SessionParts
    <3> QED
      BY <1>2, <2>3, <2>5, <2>6, <3>1, <3>2, ReplaySound DEF after
  <2> QED
    BY <2>4, <2>7, <2>8
<1> QED
  BY <1>1, <1>2

LEMMA HandleCandidateSound ==
  ASSUME IInv, NEW c \in Candidates, NEW ses \in Sessions, Matching(ses),
         NEW out \in HandleCandidate(c, ses)
  PROVE  Sound(out)
<1>1. PICK cands \in Newest({d \in ses.cands : d.sub # c.sub}, c, Cap) :
          out = Joined(cands, ses)
  BY DEF HandleCandidate
<1>2. cands \subseteq Candidates
  BY <1>1, SessionParts DEF Newest
<1> DEFINE kept == Kept(cands, ses.lcs, local.confirmed)
           work == Resolutions(cands, ses.lcs, local.confirmed)
           left == [ses EXCEPT !.cands = kept]
<1>3. kept \subseteq Candidates /\ work \subseteq Verdicts
  BY <1>2, SessionParts, KeptResolved DEF Matching
<1>4. out = Outcome(local, left, work)
  BY <1>1 DEF Joined
<1> HIDE DEF kept, work
<1>5. left \in Sessions /\ left.lcs = ses.lcs
  BY <1>3, SessionParts DEF Sessions
<1>6. Matching(left)
  BY <1>5 DEF Matching
<1> HIDE DEF left
<1> QED
  BY <1>3, <1>4, <1>5, <1>6, QuietSound

(* A poll confirms with the problem of a stored request or hint, at the    *)
(* time of the poll or of its processing.                                  *)
LEMMA PollMatchTypes ==
  ASSUME IInv, NEW s \in Sub, NEW poll \in session.lcs, NEW m \in PollMatch(s, poll)
  PROVE  m.prob \in STRING /\ m.at \in Nat
<1>1. /\ \A h \in session.hints : h.prob \in STRING
      /\ \A e \in session.lcs : e.req[1] \in Sub /\ e.at \in Nat
      /\ now \in Nat
  <2>1. session \in Sessions /\ now \in Nat
    BY DEF IInv, Types
  <2>2. session.hints \subseteq Hints /\ session.lcs \subseteq Lifecycles
    BY <2>1, SessionParts
  <2> QED
    BY <2>1, <2>2 DEF Hints, Lifecycles, Requests
<1>2. ASSUME m \in CheckMatch(poll)
      PROVE  m.prob \in STRING /\ m.at \in Nat
  <2>1. PICK e \in session.lcs : m = [prob |-> Prob(e.req[1]), req |-> e.req, at |-> poll.at]
    BY <1>2 DEF CheckMatch, Only
  <2> QED
    BY <1>1, <2>1, SetupTypes
<1>3. ASSUME m \in ResultMatch(poll)
      PROVE  m.prob \in STRING /\ m.at \in Nat
  <2>1. PICK h \in session.hints : m.prob = h.prob /\ m.at = poll.at
    BY <1>3 DEF ResultMatch, Only
  <2> QED
    BY <1>1, <2>1
<1>4. ASSUME m \in StatusMatch(poll)
      PROVE  m.prob \in STRING /\ m.at \in Nat
  <2>1. PICK h \in session.hints : m.prob = h.prob /\ m.at = now
    BY <1>4 DEF StatusMatch, Only
  <2> QED
    BY <1>1, <2>1
<1> QED
  BY <1>2, <1>3, <1>4 DEF PollMatch

LEMMA HandlePollSound ==
  ASSUME IInv, NEW s \in Sub, NEW n \in Nat, NEW out \in HandlePoll(s, n, Pruned)
  PROVE  Sound(out)
<1>1. session \in Sessions /\ Matching(session)
  BY DEF IInv, Types
<1>2. CASE out = Quiet(local, session)
  BY <1>1, <1>2, QuietSound
<1>3. CASE \E e \in session.lcs : \E m \in PollMatch(s, e) :
               out \in HandleE2(s, m.at, m.prob, m.req, Pruned)
  <2>1. PICK e \in session.lcs : \E m \in PollMatch(s, e) :
               out \in HandleE2(s, m.at, m.prob, m.req, Pruned)
    BY <1>3
  <2>2. PICK m \in PollMatch(s, e) : out \in HandleE2(s, m.at, m.prob, m.req, Pruned)
    BY <2>1
  <2>3. m.prob \in STRING /\ m.at \in Nat
    BY <2>1, <2>2, PollMatchTypes
  <2> QED
    BY <2>2, <2>3, PrunedTypes, HandleE2Sound
<1> QED
  BY <1>2, <1>3 DEF HandlePoll
-----------------------------------------------------------------------------
(* The steps.                                                              *)
Step == IInv' /\ (Ledger!Next \/ UNCHANGED ledger)

BrowserTypes == /\ setup \in Setups /\ now \in Nat /\ polls \in [Sub -> Nat]
                /\ shown \in [Sub -> Seen \cup {None}]

LEMMA Untouched ==
  ASSUME IInv, BrowserTypes', UNCHANGED <<local, history>>,
         session' \in Sessions, Matching(session)', todo' \subseteq Polls \cup Verdicts
  PROVE  Step
<1>1. UNCHANGED ledger
  BY DEF ledger, Status, history
<1>2. /\ local' \in Stores /\ built' \in [Sub -> Nat] /\ evicted' \in [Sub -> Nat]
      /\ OneTomb' /\ NotBoth'
  BY DEF IInv, Types, OneTomb, NotBoth, history
<1> QED
  BY <1>1, <1>2 DEF Step, IInv, Types, BrowserTypes

LEMMA ApplyStep ==
  ASSUME IInv, BrowserTypes', NEW outs, \A out \in outs : Sound(out),
         NEW rest \in SUBSET (Polls \cup Verdicts), Apply(outs, rest)
  PROVE  Step
<1>1. /\ session \in Sessions /\ Matching(session) /\ local \in Stores
      /\ todo \subseteq Polls \cup Verdicts
  BY DEF IInv, Types
<1>2. ASSUME NEW out \in outs, local' = out.local, Counted(out.local),
             session' = out.session \/ session' = session,
             todo' = {} \/ todo' = out.work \cup rest
      PROVE  Step
  <2>1. /\ out.local \in Stores /\ out.session \in Sessions /\ out.work \subseteq Verdicts
        /\ Matching(out.session) /\ Writes(out.local)
    BY DEF Sound, Outcomes
  <2>2. PICK l \in Stores : l = out.local
    BY <2>1
  <2>3. Counted(l)
    BY <1>2, <2>2 DEF Counted
  <2>4. /\ Ledger!Next \/ UNCHANGED ledger
        /\ OneTomb' /\ NotBoth' /\ built' \in [Sub -> Nat] /\ evicted' \in [Sub -> Nat]
    BY <1>2, <2>1, <2>2, <2>3, WriteStep
  <2>5. session' \in Sessions /\ Matching(session)' /\ todo' \subseteq Polls \cup Verdicts
          /\ local' \in Stores
    BY <1>1, <1>2, <2>1 DEF Matching
  <2> QED
    BY <2>4, <2>5 DEF Step, IInv, Types, BrowserTypes
<1>3. CASE enabled /\ \E out \in outs : WriteAll(out, rest) \/ WriteLocalOnly(out)
  <2>1. PICK out \in outs : WriteAll(out, rest) \/ WriteLocalOnly(out)
    BY <1>3
  <2>2. CASE WriteAll(out, rest)
    BY <1>2, <2>2 DEF WriteAll
  <2>3. CASE WriteLocalOnly(out)
    BY <1>2, <2>3 DEF WriteLocalOnly, Stopped
  <2> QED
    BY <2>1, <2>2, <2>3
<1>4. CASE UNCHANGED <<local, session, history>> /\ todo' \in {{}, rest}
  BY <1>1, <1>4, Untouched DEF Matching
<1> QED
  BY <1>3, <1>4 DEF Apply, WriteNothing, Stopped

(* The initialization prunes and joins again.                              *)
LEMMA ReinstalledTypes ==
  ASSUME IInv, Reinstalled
  PROVE  /\ session' \in Sessions /\ Matching(session)'
         /\ todo' \subseteq Polls \cup Verdicts
<1> DEFINE kept == Kept(Pruned.cands, Pruned.lcs, local.confirmed)
<1>1. Pruned \in Sessions /\ Matching(Pruned)
  BY PrunedTypes
<1>2. kept \subseteq Candidates
        /\ Resolutions(Pruned.cands, Pruned.lcs, local.confirmed) \subseteq Verdicts
  BY <1>1, SessionParts, KeptResolved DEF Matching
<1>3. session' = [Pruned EXCEPT !.cands = kept]
  BY DEF Reinstalled
<1>4. session' \in Sessions /\ session'.lcs = Pruned.lcs
  BY <1>1, <1>2, <1>3, SessionParts DEF Sessions
<1> QED
  BY <1>1, <1>2, <1>4 DEF Reinstalled, Matching

LEMMA Seeing ==
  ASSUME IInv, NEW s \in Sub, NEW n \in Nat
  PROVE  <<s, n>> \in Requests
  BY DEF Requests

LEMMA PageStep ==
  ASSUME IInv, NEW s \in Sub,
         \/ Click(s) \/ SubmitSent(s) \/ SubmitAnswered(s) \/ SubmitFails(s)
         \/ PollSent(s) \/ PollAnswered(s)
  PROVE  Step
<1>1. Pruned \in Sessions /\ Matching(Pruned)
  BY PrunedTypes
<1>2. /\ BrowserTypes /\ polls[s] \in Nat /\ polls[s] + 1 \in Nat
      /\ {} \in SUBSET (Polls \cup Verdicts)
  BY DEF IInv, Types, BrowserTypes
<1>3. ASSUME NEW req \in Requests, NEW signal, NEW rest \in SUBSET (Polls \cup Verdicts),
             Reported(HandleE1(req, signal, Pruned), rest),
             polls' \in [Sub -> Nat], shown' = shown
      PROVE  Step
  <2>1. PICK outs : outs = HandleE1(req, signal, Pruned)
    OBVIOUS
  <2>2. Apply(outs, rest)
    BY <1>3, <2>1 DEF Reported, Apply
  <2>3. \A out \in outs : Sound(out)
    BY <1>1, <2>1, HandleE1Sound
  <2>4. BrowserTypes'
    BY <1>2, <1>3 DEF Reported, BrowserTypes
  <2> QED
    BY <2>2, <2>3, <2>4, ApplyStep
<1>4. CASE Click(s)
  <2>1. PICK outs : outs = HandleE0(s, Pruned)
    OBVIOUS
  <2>2. Apply(outs, {})
    BY <1>4, <2>1 DEF Click, Reported, Apply
  <2>3. \A out \in outs : Sound(out)
    BY <1>1, <2>1, HandleE0Sound
  <2>4. BrowserTypes'
    BY <1>2, <1>4 DEF Click, Reported, BrowserTypes
  <2> QED
    BY <1>2, <2>2, <2>3, <2>4, ApplyStep
<1>5. CASE SubmitSent(s)
  <2>1. /\ <<s, 0>> \in Requests /\ polls' \in [Sub -> Nat] /\ shown' = shown
        /\ Reported(HandleE1(<<s, 0>>, "before", Pruned), {})
    BY <1>2, <1>5, Seeing DEF SubmitSent, BrowserTypes
  <2> QED
    BY <1>2, <1>3, <2>1
<1>6. CASE SubmitAnswered(s)
  <2>1. /\ <<s, 0>> \in Requests /\ polls' \in [Sub -> Nat] /\ shown' = shown
        /\ Reported(HandleE1(<<s, 0>>, "completed", Pruned), {})
    BY <1>2, <1>6, Seeing DEF SubmitAnswered, BrowserTypes
  <2> QED
    BY <1>2, <1>3, <2>1
<1>7. CASE SubmitFails(s)
  <2>1. PICK signal \in {"error", "redirect"} :
            Reported(HandleE1(<<s, 0>>, signal, Pruned), {})
    BY <1>7 DEF SubmitFails
  <2>2. <<s, 0>> \in Requests /\ polls' \in [Sub -> Nat] /\ shown' = shown
    BY <1>2, <1>7, Seeing DEF SubmitFails, BrowserTypes
  <2> QED
    BY <1>2, <1>3, <2>1, <2>2
<1>8. CASE PollSent(s)
  <2>1. PICK req : req = <<s, polls[s] + 1>>
    OBVIOUS
  <2>2. req \in Requests /\ polls' \in [Sub -> Nat] /\ shown' = shown
    BY <1>2, <1>8, <2>1, Seeing DEF PollSent, BrowserTypes
  <2>3. Reported(HandleE1(req, "before", Pruned), {})
    BY <1>8, <2>1 DEF PollSent
  <2> QED
    BY <1>2, <1>3, <2>2, <2>3
<1>9. CASE PollAnswered(s)
  <2>1. PICK req : req = <<s, polls[s]>>
    OBVIOUS
  <2>2. req \in Requests /\ polls' \in [Sub -> Nat] /\ shown' = shown
    BY <1>2, <1>9, <2>1, Seeing DEF PollAnswered, BrowserTypes
  <2>3. Reported(HandleE1(req, "completed", Pruned), {[poll |-> req]})
    BY <1>9, <2>1 DEF PollAnswered
  <2>4. {[poll |-> req]} \in SUBSET (Polls \cup Verdicts)
    BY <2>2 DEF Polls
  <2> QED
    BY <1>3, <2>2, <2>3, <2>4
<1> QED
  BY <1>4, <1>5, <1>6, <1>7, <1>8, <1>9

LEMMA VerdictStep ==
  ASSUME IInv, NEW s \in Sub, VerdictShown(s) \/ VerdictReported(s)
  PROVE  Step
<1>1. /\ Pruned \in Sessions /\ Matching(Pruned) /\ BrowserTypes
      /\ session \in Sessions /\ Matching(session) /\ todo \subseteq Polls \cup Verdicts
      /\ {} \in SUBSET (Polls \cup Verdicts) /\ polls[s] \in Nat
  BY PrunedTypes DEF IInv, Types, BrowserTypes
<1>2. CASE VerdictShown(s)
  <2>1. PICK n \in 1 .. polls[s] : \E req \in {<<s, 0>>, <<s, n>>, NoRequest} :
            shown' = [shown EXCEPT ![s] = [at |-> now, req |-> req]]
    BY <1>2 DEF VerdictShown
  <2>2. PICK req \in {<<s, 0>>, <<s, n>>, NoRequest} :
            shown' = [shown EXCEPT ![s] = [at |-> now, req |-> req]]
    BY <2>1
  <2>3. req \in Requests \cup {NoRequest}
    BY <1>1, <2>1, <2>2, Seeing
  <2>4. [at |-> now, req |-> req] \in Seen
    BY <1>1, <2>3 DEF Seen, BrowserTypes
  <2>5. shown' \in [Sub -> Seen \cup {None}]
    BY <1>1, <2>2, <2>4 DEF BrowserTypes
  <2>6. BrowserTypes' /\ UNCHANGED <<local, history, session, todo>>
    BY <1>1, <1>2, <2>5 DEF VerdictShown, BrowserTypes, history
  <2> QED
    BY <1>1, <2>6, Untouched DEF Matching
<1>3. CASE VerdictReported(s)
  <2> DEFINE e3 == [sub |-> s, at |-> shown[s].at, prob |-> Prob(s), of |-> s, cand |-> FALSE]
             c == [sub |-> s, at |-> shown[s].at, req |-> shown[s].req]
  <2>1. shown[s] \in Seen
    BY <1>1, <1>3 DEF VerdictReported, BrowserTypes
  <2>2. e3 \in Verdicts /\ c \in Candidates
    BY <2>1, SetupTypes DEF Seen, Verdicts, Candidates
  <2>3. PICK outs : outs = IF setup[s].flow = "status" THEN HandleE3(e3, local, Pruned)
                           ELSE HandleCandidate(c, Pruned)
    OBVIOUS
  <2>4. Apply(outs, {})
    BY <1>3, <2>3 DEF VerdictReported, Reported, Apply
  <2>5. BrowserTypes'
    BY <1>1, <1>3 DEF VerdictReported, Reported, BrowserTypes
  <2> HIDE DEF e3, c
  <2>6. \A out \in outs : Sound(out)
    BY <1>1, <2>2, <2>3, HandleE3Sound, HandleCandidateSound
  <2> QED
    BY <1>1, <2>4, <2>5, <2>6, ApplyStep
<1> QED
  BY <1>2, <1>3

LEMMA WorkStep ==
  ASSUME IInv, Work
  PROVE  Step
<1>1. PICK job \in todo :
          Apply(IF "poll" \in DOMAIN job THEN HandlePoll(job.poll[1], job.poll[2], Pruned)
                ELSE HandleE3(job, local, Pruned), todo \ {job})
  BY DEF Work
<1>2. PICK outs : outs = IF "poll" \in DOMAIN job
                         THEN HandlePoll(job.poll[1], job.poll[2], Pruned)
                         ELSE HandleE3(job, local, Pruned)
  OBVIOUS
<1>3. PICK rest : rest = todo \ {job}
  OBVIOUS
<1>4. Apply(outs, rest)
  BY <1>1, <1>2, <1>3 DEF Apply, WriteAll
<1>5. rest \in SUBSET (Polls \cup Verdicts) /\ job \in Polls \cup Verdicts
  BY <1>1, <1>3 DEF IInv, Types
<1>6. Pruned \in Sessions /\ Matching(Pruned) /\ BrowserTypes
  BY PrunedTypes DEF IInv, Types, BrowserTypes
<1>7. CASE job \in Polls
  <2>1. "poll" \in DOMAIN job /\ job.poll[1] \in Sub /\ job.poll[2] \in Nat
    BY <1>7 DEF Polls, Requests
  <2>2. \A out \in outs : Sound(out)
    BY <1>2, <2>1, HandlePollSound
  <2> QED
    BY <1>4, <1>5, <1>6, <2>2, ApplyStep DEF Work, browser, BrowserTypes
<1>8. CASE job \in Verdicts
  <2>1. "poll" \notin DOMAIN job
    BY <1>8 DEF Verdicts
  <2>2. \A out \in outs : Sound(out)
    BY <1>2, <1>6, <1>8, <2>1, HandleE3Sound
  <2> QED
    BY <1>4, <1>5, <1>6, <2>2, ApplyStep DEF Work, browser, BrowserTypes
<1> QED
  BY <1>5, <1>7, <1>8

LEMMA WorkerStep ==
  ASSUME IInv, Install \/ WorkerStops \/ SetCaptureEnabled \/ Tick
  PROVE  Step
<1>1. /\ Pruned \in Sessions /\ Matching(Pruned) /\ BrowserTypes
      /\ session \in Sessions /\ Matching(session) /\ todo \subseteq Polls \cup Verdicts
  BY PrunedTypes DEF IInv, Types, BrowserTypes
<1>2. BrowserTypes' /\ UNCHANGED <<local, history>>
  BY <1>1 DEF Install, WorkerStops, SetCaptureEnabled, Tick, BrowserTypes, browser, history
<1>3. CASE Reinstalled
  BY <1>2, <1>3, ReinstalledTypes, Untouched
<1>4. CASE session' \in {session, Pruned} /\ todo' \in {todo, {}}
  BY <1>1, <1>2, <1>4, Untouched DEF Matching
<1> QED
  BY <1>3, <1>4 DEF Install, WorkerStops, SetCaptureEnabled, Tick, Stopped

LEMMA DrainStep ==
  ASSUME IInv, Drain
  PROVE  Step
<1>1. PICK b \in local.outbox : local' = [local EXCEPT !.outbox = @ \ {b}]
  BY DEF Drain
<1>2. local \in Stores
  BY DEF IInv, Types
<1>3. local' \in Stores /\ local'.confirmed = local.confirmed /\ local'.tombs = local.tombs
  BY <1>1, <1>2 DEF Stores
<1>4. OneTomb' /\ NotBoth'
  BY <1>3 DEF IInv, OneTomb, NotBoth
<1>5. UNCHANGED <<setup, now, polls, shown, session, todo, built, evicted>>
  BY DEF Drain, browser, history
<1>6. UNCHANGED ledger
  BY <1>3, <1>5 DEF ledger, Status
<1> QED
  BY <1>3, <1>4, <1>5, <1>6 DEF Step, IInv, Types, Matching

LEMMA InitInv ==
  ASSUME Init
  PROVE  IInv /\ Ledger!Init
<1>1. local \in Stores
  BY DEF Init, Stores
<1>2. session \in Sessions
  BY DEF Init, NoEvidence, Sessions
<1>3. Matching(session) /\ OneTomb /\ NotBoth
  BY DEF Init, NoEvidence, Matching, OneTomb, NotBoth, Tombed
<1>4. Types
  BY <1>1, <1>2, <1>3 DEF Init, Types
<1>5. Ledger!Init
  BY DEF Init, Ledger!Init, Tombed
<1> QED
  BY <1>3, <1>4, <1>5 DEF IInv

LEMMA NextStep ==
  ASSUME IInv, [Next]_vars
  PROVE  IInv' /\ [Ledger!Next]_(Ledger!vars)
<1>1. CASE Next
  <2>1. Step
    BY <1>1, PageStep, VerdictStep, WorkStep, WorkerStep, DrainStep DEF Next
  <2> QED
    BY <2>1 DEF Step, ledger, Status, Ledger!vars
<1>2. CASE UNCHANGED vars
  <2>1. UNCHANGED <<setup, now, polls, shown, session, todo, local, built, evicted>>
    BY <1>2 DEF vars
  <2> QED
    BY <2>1 DEF IInv, Types, Matching, OneTomb, NotBoth, Ledger!vars
<1> QED
  BY <1>1, <1>2

LEMMA BundleStep ==
  ASSUME IInv, [Ledger!Next]_(Ledger!vars), Ledger!OneBundle
  PROVE  Ledger!OneBundle'
<1>1. \A t \in Sub : built[t] \in Nat /\ evicted[t] \in Nat
                    /\ built[t] <= evicted[t] + (IF Status(t) = "final" THEN 1 ELSE 0)
  BY DEF IInv, Types, Ledger!OneBundle, Status
<1>2. SUFFICES ASSUME NEW t \in Sub
               PROVE  built'[t] <= evicted'[t] + (IF Status(t)' = "final" THEN 1 ELSE 0)
  BY DEF Ledger!OneBundle, Status
<1>3. CASE UNCHANGED Ledger!vars
  BY <1>1, <1>3 DEF Ledger!vars, Status
<1>4. CASE Ledger!Next
  <2>1. PICK F \in SUBSET Sub :
            \/ Ledger!Forget(F)
            \/ \E s \in Sub : \/ Ledger!Confirm(s, F) \/ Ledger!Finalize(s, F)
                             \/ Ledger!ConfirmAndFinalize(s, F)
    BY <1>4 DEF Ledger!Next
  <2>2. Ledger!Forgotten(F)
    BY <2>1 DEF Ledger!Forget, Ledger!Confirm, Ledger!Finalize, Ledger!ConfirmAndFinalize
  <2>3. /\ evicted'[t] = evicted[t] + (IF t \in F THEN 1 ELSE 0)
        /\ t \in F => Status(t) = "final"
    BY <2>2 DEF Ledger!Forgotten, Status
  <2>4. CASE Ledger!Forget(F)
    <3>1. built'[t] = built[t] /\ Status(t)' = IF t \in F THEN "unseen" ELSE Status(t)
      BY <2>4 DEF Ledger!Forget, Status
    <3> QED
      BY <1>1, <2>3, <3>1
  <2>5. ASSUME NEW s \in Sub, Ledger!Confirm(s, F)
        PROVE  built'[t] <= evicted'[t] + (IF Status(t)' = "final" THEN 1 ELSE 0)
    <3>1. /\ built'[t] = built[t]
          /\ Status(t)' = IF t = s THEN "confirmed" ELSE IF t \in F THEN "unseen" ELSE Status(t)
          /\ s \in F \/ Status(s) = "unseen"
      BY <2>5 DEF Ledger!Confirm, Status
    <3> QED
      BY <1>1, <2>3, <3>1
  <2>6. ASSUME NEW s \in Sub, Ledger!Finalize(s, F) \/ Ledger!ConfirmAndFinalize(s, F)
        PROVE  built'[t] <= evicted'[t] + (IF Status(t)' = "final" THEN 1 ELSE 0)
    <3>1. /\ built' \in {built, [built EXCEPT ![s] = @ + 1]}
          /\ Status(t)' = IF t = s THEN "final" ELSE IF t \in F THEN "unseen" ELSE Status(t)
          /\ s \in F \/ Status(s) \in {"unseen", "confirmed"}
      BY <2>6 DEF Ledger!Finalize, Ledger!ConfirmAndFinalize, Status
    <3>2. built'[t] = built[t] \/ (t = s /\ built'[t] = built[t] + 1)
      BY <3>1 DEF IInv, Types
    <3> QED
      BY <1>1, <2>3, <3>1, <3>2
  <2> QED
    BY <2>1, <2>4, <2>5, <2>6
<1> QED
  BY <1>3, <1>4

(* Whatever stops between two writes, and whatever is evicted, expires or  *)
(* is replayed, a confirmed submission leaves that state only with its     *)
(* bundle, and is bundled again only after its tombstone was dropped.      *)
THEOREM LedgerKept == Spec => KeepsLedger
<1>1. Spec => []IInv
  <2>1. Init => IInv
    BY InitInv
  <2>2. IInv /\ [Next]_vars => IInv'
    BY NextStep
  <2> QED
    BY <2>1, <2>2, PTL DEF Spec
<1>2. Init => Ledger!Init
  BY InitInv
<1>3. IInv /\ [Next]_vars => [Ledger!Next]_(Ledger!vars)
  BY NextStep
<1> QED
  BY <1>1, <1>2, <1>3, PTL DEF Spec, KeepsLedger, Ledger!Spec

(* A submission is bundled at most once more often than its tombstone was  *)
(* dropped, and never before it is final.                                  *)
THEOREM OneBundleEach == Spec => []Ledger!OneBundle
<1>1. Init => IInv /\ Ledger!OneBundle
  <2>1. Init => \A s \in Sub : built[s] = 0 /\ evicted[s] = 0
    BY DEF Init
  <2>2. (\A s \in Sub : built[s] = 0 /\ evicted[s] = 0) => Ledger!OneBundle
    BY DEF Ledger!OneBundle
  <2> QED
    BY <2>1, <2>2, InitInv
<1>2. IInv /\ Ledger!OneBundle /\ [Next]_vars => (IInv /\ Ledger!OneBundle)'
  BY NextStep, BundleStep
<1> QED
  BY <1>1, <1>2, PTL DEF Spec
-----------------------------------------------------------------------------
(* Evidence of a LeetCode submission refers to a submission that local     *)
(* storage recorded.  A replay that bundles nothing records nothing, so    *)
(* MatchedIsRecorded needs the same of parked verdicts, and those are the  *)
(* verdicts that waited in a job: both are part of the invariant.          *)
Recorded(t) ==
  local.confirmed[t] # None \/ t \in Tombed(local.tombs) \/ evicted[t] > 0

RecordedEvidence(ses) ==
  /\ \A e \in ses.lcs : e.out = "matched" /\ DocOf(e) = "lc" => Recorded(e.sid)
  /\ \A p \in ses.parked : Doc(p.sub) = "lc" => Recorded(p.sub)

EvidenceRecorded ==
  /\ RecordedEvidence(session)
  /\ \A j \in todo \cap Verdicts : Doc(j.sub) = "lc" => Recorded(j.sub)

(* The same of what a handler returns, with what it is about to write.     *)
Learned(l, t) == l.confirmed[t] # None \/ Recorded(t)

Backed(out) ==
  /\ \A e \in out.session.lcs :
       e.out = "matched" /\ DocOf(e) = "lc" => Learned(out.local, e.sid)
  /\ \A p \in out.session.parked : Doc(p.sub) = "lc" => Learned(out.local, p.sub)
  /\ \A j \in out.work : Doc(j.sub) = "lc" => Learned(out.local, j.sub)

(* A record is lost only to the bundle, and that only to the eviction the  *)
(* history counts.                                                         *)
LEMMA RecordStays ==
  ASSUME IInv, NEW l \in Stores, Writes(l), local' = l, Counted(l),
         NEW t \in Sub, Learned(l, t)
  PROVE  Recorded(t)'
<1>1. /\ evicted[t] \in Nat
      /\ evicted'[t] = evicted[t] + (IF t \in Tombed(local.tombs \ l.tombs) THEN 1 ELSE 0)
  BY DEF IInv, Types, Counted
<1>2. CASE l.confirmed[t] # None
  BY <1>2 DEF Recorded
<1>3. CASE local.confirmed[t] # None /\ l.confirmed[t] = None
  <2>1. \E x \in Tombs : Finalizes(l, t, x)
    BY <1>3 DEF Writes, Confirms, Finalizes, Same
  <2>2. t \in Tombed(l.tombs)
    BY <2>1 DEF Finalizes, Tombed
  <2> QED
    BY <2>2 DEF Recorded
<1>4. CASE t \in Tombed(local.tombs)
  <2>1. t \in Tombed(l.tombs) \/ t \in Tombed(local.tombs \ l.tombs)
    BY <1>4 DEF Tombed
  <2> QED
    BY <1>1, <2>1 DEF Recorded
<1>5. CASE evicted[t] > 0
  BY <1>1, <1>5 DEF Recorded
<1> QED
  BY <1>2, <1>3, <1>4, <1>5 DEF Learned, Recorded

(* What a session holds is backed by any local storage written next to it. *)
LEMMA BackedOutcome ==
  ASSUME NEW l, NEW ses, RecordedEvidence(ses), NEW work,
         \A j \in work : Doc(j.sub) = "lc" => Learned(l, j.sub)
  PROVE  Backed(Outcome(l, ses, work))
  BY DEF Backed, Outcome, RecordedEvidence, Learned

LEMMA BackedQuiet ==
  ASSUME NEW l, NEW ses, RecordedEvidence(ses)
  PROVE  Backed(Quiet(l, ses))
  BY DEF Backed, Outcome, Quiet, RecordedEvidence, Learned

(* Only a confirmed submission is resolved.                                *)
LEMMA ResolvedConfirmed ==
  ASSUME NEW cands, NEW lcs, NEW confirmed,
         NEW v \in Resolutions(cands, lcs, confirmed)
  PROVE  confirmed[v.sub] # None
<1> DEFINE Fine(r) == r \in {Pending, Terminal} \/ confirmed[r.sub] # None
<1>1. \A c, e : Fine(JoinConfirmed(c, e, confirmed))
  BY DEF JoinConfirmed
<1>2. \A c : Fine(ReconcileArmed(c, lcs, confirmed))
  BY <1>1 DEF ReconcileArmed
<1>3. \A c : Fine(ReconcileLegacy(c, lcs, confirmed))
  BY <1>1 DEF ReconcileLegacy
<1>4. \A c : Fine(Reconcile(c, lcs, confirmed))
  BY <1>2, <1>3 DEF Reconcile
<1>5. PICK c \in cands : v = Reconcile(c, lcs, confirmed)
  BY DEF Resolutions
<1>6. v \notin {Pending, Terminal}
  BY DEF Resolutions
<1> QED
  BY <1>4, <1>5, <1>6

LEMMA PrunedRecorded ==
  ASSUME EvidenceRecorded
  PROVE  RecordedEvidence(Pruned)
  BY DEF EvidenceRecorded, RecordedEvidence, Pruned

LEMMA HandleE0Backed ==
  ASSUME NEW s, NEW ses \in Sessions, RecordedEvidence(ses), NEW out \in HandleE0(s, ses)
  PROVE  Backed(out)
<1>1. PICK left : /\ out = Quiet(local, left)
                  /\ left.lcs = ses.lcs /\ left.parked = ses.parked
  BY SessionParts DEF HandleE0
<1>2. RecordedEvidence(left)
  BY <1>1 DEF RecordedEvidence
<1> QED
  BY <1>1, <1>2, BackedQuiet

LEMMA HandleE1Backed ==
  ASSUME NEW req, NEW signal, NEW ses \in Sessions, RecordedEvidence(ses),
         NEW out \in HandleE1(req, signal, ses)
  PROVE  Backed(out)
<1> DEFINE prior == {e \in ses.lcs : e.req = req}
           first == MergedE1(Lifecycle(req, now, FALSE, "pending", None), signal)
           merged == IF prior = {} THEN {first} ELSE {MergedE1(e, signal) : e \in prior}
           lcs == (ses.lcs \ prior) \cup merged
<1>1. ASSUME NEW e \in Lifecycles, MergedE1(e, signal).out = "matched"
      PROVE  /\ e.out = "matched" /\ MergedE1(e, signal).sid = e.sid
             /\ MergedE1(e, signal).req = e.req
  <2>1. e.out \in {"pending", "flawed", "matched", "error"}
    BY DEF Lifecycles
  <2>2. MergedE1(e, signal).sid = e.sid /\ MergedE1(e, signal).req = e.req
    BY DEF MergedE1, Lifecycles
  <2>3. e.out # "matched" => MergedE1(e, signal).out # "matched"
    BY <2>1 DEF MergedE1, Lifecycles
  <2> QED
    BY <1>1, <2>2, <2>3
<1>2. first.out # "matched"
  BY DEF MergedE1, Lifecycle
<1>3. ASSUME NEW e \in lcs, e.out = "matched", DocOf(e) = "lc"
      PROVE  Recorded(e.sid)
  <2>1. CASE e \in ses.lcs
    BY <1>3, <2>1 DEF RecordedEvidence
  <2>2. CASE e \notin ses.lcs
    <3>1. PICK f \in ses.lcs : e = MergedE1(f, signal)
      BY <1>2, <1>3, <2>2
    <3>2. f \in Lifecycles
      BY SessionParts
    <3>3. f.out = "matched" /\ e.sid = f.sid /\ e.req = f.req
      BY <1>1, <1>3, <3>1, <3>2
    <3> QED
      BY <1>3, <3>3 DEF RecordedEvidence, DocOf
  <2> QED
    BY <2>1, <2>2
<1> DEFINE cands == {c \in ses.cands : \/ signal = "redirect" \/ c.req # NoRequest
                             \/ Reconcile(c, lcs, local.confirmed) # Terminal}
           left == [ses EXCEPT !.lcs = lcs, !.cands = cands]
<1>4. out = Quiet(local, left)
  BY DEF HandleE1
<1> HIDE DEF lcs, cands
<1>6. left.lcs = lcs /\ left.parked = ses.parked
  BY SessionParts
<1> HIDE DEF left
<1>5. RecordedEvidence(left)
  BY <1>3, <1>6 DEF RecordedEvidence
<1> QED
  BY <1>4, <1>5, BackedQuiet

(* A verdict adds no request, and parks itself at most.                    *)
LEMMA HandleE3Backed ==
  ASSUME IInv, NEW e3 \in Verdicts, Doc(e3.sub) = "lc" => Recorded(e3.sub),
         NEW ses \in Sessions, Matching(ses), RecordedEvidence(ses),
         NEW out \in HandleE3(e3, local, ses)
  PROVE  Backed(out)
<1>1. local \in Stores
  BY DEF IInv, Types
<1> QED
  BY <1>1, HandleE3Facts DEF Backed, RecordedEvidence, Learned

LEMMA HandleCandidateBacked ==
  ASSUME NEW c, NEW ses \in Sessions, RecordedEvidence(ses),
         NEW out \in HandleCandidate(c, ses)
  PROVE  Backed(out)
<1>1. PICK cands : out = Joined(cands, ses)
  BY DEF HandleCandidate
<1> DEFINE work == Resolutions(cands, ses.lcs, local.confirmed)
           left == [ses EXCEPT !.cands = Kept(cands, ses.lcs, local.confirmed)]
<1>2. out = Outcome(local, left, work)
  BY <1>1 DEF Joined
<1>3. \A j \in work : Learned(local, j.sub)
  BY ResolvedConfirmed DEF Learned
<1>4. left.lcs = ses.lcs /\ left.parked = ses.parked
  BY SessionParts
<1>5. RecordedEvidence(left)
  BY <1>4 DEF RecordedEvidence
<1> HIDE DEF left, work
<1> QED
  BY <1>2, <1>3, <1>5, BackedOutcome

(* A parked LeetCode verdict was once resolved, so its submission is       *)
(* recorded even when the replay leaves local storage as it was.           *)
LEMMA ReplayBacked ==
  ASSUME NEW s \in Sub, NEW after \in Stores, \A t \in Sub \ {s} : Learned(after, t) => Recorded(t),
         NEW p \in Verdicts, p.sub = s, Doc(s) = "lc" => Recorded(s),
         NEW ses \in Sessions,
         \A e \in ses.lcs : e.out = "matched" /\ DocOf(e) = "lc" => Recorded(e.sid),
         \A q \in ses.parked : Doc(q.sub) = "lc" => Recorded(q.sub),
         NEW work \in SUBSET Verdicts, \A j \in work : Learned(after, j.sub),
         NEW out \in Replayed(p, after, ses, work)
  PROVE  Backed(out)
<1> DEFINE blind == [NoEvidence EXCEPT !.hints = ses.hints]
<1>1. blind \in Sessions /\ blind.lcs = {} /\ blind.parked = {}
  BY SessionParts DEF NoEvidence, Sessions
<1>2. Matching(blind)
  BY <1>1 DEF Matching
<1> HIDE DEF blind
<1>3. PICK r \in HandleE3(p, after, blind) :
          out = Outcome(IF r.local = after THEN local ELSE r.local,
                        IF r.session = blind /\ r.local = after THEN ses ELSE r.session,
                        work)
  BY DEF Replayed, blind
<1>4. r.session.lcs \subseteq {} /\ r.session.parked \subseteq {p}
  BY <1>1, <1>2, <1>3, HandleE3Facts
<1> DEFINE l == IF r.local = after THEN local ELSE r.local
           left == IF r.session = blind /\ r.local = after THEN ses ELSE r.session
<1>5. RecordedEvidence(left)
  BY <1>4 DEF RecordedEvidence
<1>6. ASSUME NEW j \in work, Doc(j.sub) = "lc"
      PROVE  Learned(l, j.sub)
  <2>1. j.sub \in Sub
    BY DEF Verdicts
  <2>2. Recorded(j.sub)
    BY <1>6, <2>1
  <2> QED
    BY <2>2 DEF Learned
<1>7. out = Outcome(l, left, work)
  BY <1>3
<1> HIDE DEF l, left
<1> QED
  BY <1>5, <1>6, <1>7, BackedOutcome

LEMMA HandleE2Backed ==
  ASSUME IInv, NEW s \in Sub, NEW at \in Nat, NEW prob \in STRING, NEW req,
         Doc(req[1]) = "lc" => Doc(s) = "lc",
         NEW ses \in Sessions, Matching(ses), RecordedEvidence(ses),
         NEW out \in HandleE2(s, at, prob, req, ses)
  PROVE  Backed(out)
<1> DEFINE after == Confirmed(s, at, prob)
           lcs == Matched(s, req, ses)
           cands == Kept(ses.cands, lcs, after.confirmed)
           matched == [ses EXCEPT !.lcs = lcs, !.cands = cands]
           work == Resolutions(ses.cands, lcs, after.confirmed)
           waiting == {p \in ses.parked : p.sub = s}
<1>1. CASE Refused(s, prob)
  <2>1. out = Quiet(local, ses)
    BY <1>1 DEF HandleE2
  <2> QED
    BY <2>1, BackedQuiet
<1>2. CASE ~Refused(s, prob)
  <2>1. after \in Stores /\ Confirms(after, s)
    BY <1>2, ConfirmedFacts
  <2>2. \A j \in work : after.confirmed[j.sub] # None
    BY ResolvedConfirmed
  <2>3. ASSUME NEW e \in lcs, e.out = "matched", DocOf(e) = "lc"
        PROVE  (e.sid = s /\ Doc(s) = "lc") \/ Recorded(e.sid)
    <3>1. PICK f \in ses.lcs :
              e = IF f.req = req THEN [f EXCEPT !.out = "matched", !.sid = s] ELSE f
      BY DEF Matched
    <3>2. f \in Lifecycles
      BY SessionParts
    <3>3. CASE f.req = req
      <4>1. e.sid = s /\ e.req = req
        BY <3>1, <3>2, <3>3 DEF Lifecycles
      <4> QED
        BY <2>3, <4>1 DEF DocOf
    <3>4. CASE f.req # req
      BY <2>3, <3>1, <3>4 DEF RecordedEvidence
    <3> QED
      BY <3>3, <3>4
  <2>4. lcs \subseteq Lifecycles /\ \A e \in lcs : e.out = "matched" => e.sid \in Sub
    BY MatchedTypes
  <2>5. cands \subseteq Candidates /\ work \subseteq Verdicts
    BY <2>4, SessionParts, KeptResolved
  <2>6. out \in IF waiting = {} THEN {Outcome(after, matched, work)}
                ELSE UNION {Replayed(p, after, matched, work) : p \in waiting}
    BY <1>2 DEF HandleE2
  <2> HIDE DEF after, lcs, cands, work
  <2>7. matched \in Sessions /\ matched.lcs = lcs /\ matched.parked = ses.parked
    BY <2>4, <2>5, SessionParts DEF Sessions
  <2> HIDE DEF matched
  <2>8. CASE out = Outcome(after, matched, work)
    <3>1. Learned(after, s)
      BY <2>1 DEF Confirms, Learned
    <3>2. out.session = matched /\ out.local = after /\ out.work = work
      BY <2>8 DEF Outcome
    <3> QED
      BY <2>2, <2>3, <2>7, <3>1, <3>2 DEF Backed, Learned, RecordedEvidence
  <2>9. CASE \E p \in waiting : out \in Replayed(p, after, matched, work)
    <3>1. PICK p \in waiting : out \in Replayed(p, after, matched, work)
      BY <2>9
    <3>2. p \in Verdicts /\ p.sub = s /\ (Doc(s) = "lc" => Recorded(s))
      BY SessionParts DEF RecordedEvidence
    <3>3. \A t \in Sub \ {s} : Learned(after, t) => Recorded(t)
      BY <2>1 DEF Confirms, Same, Learned, Recorded
    <3>4. \A e \in matched.lcs : e.out = "matched" /\ DocOf(e) = "lc" => Recorded(e.sid)
      BY <2>3, <2>7, <3>2
    <3>5. \A q \in matched.parked : Doc(q.sub) = "lc" => Recorded(q.sub)
      BY <2>7 DEF RecordedEvidence
    <3>6. \A j \in work : Learned(after, j.sub)
      BY <2>2 DEF Learned
    <3> QED
      BY <2>1, <2>5, <2>7, <3>1, <3>2, <3>3, <3>4, <3>5, <3>6, ReplayBacked
  <2> QED
    BY <2>6, <2>8, <2>9
<1> QED
  BY <1>1, <1>2

(* A LeetCode request is confirmed by a LeetCode poll.                     *)
LEMMA PollMatchDoc ==
  ASSUME NEW s, NEW poll, NEW m \in PollMatch(s, poll), Doc(m.req[1]) = "lc"
  PROVE  Doc(s) = "lc"
<1>1. SUFFICES ASSUME setup[s].flow = "status" PROVE FALSE
  BY DEF Doc
<1>2. m \in StatusMatch(poll)
  BY <1>1 DEF PollMatch
<1>3. PICK e \in session.lcs : DocOf(e) = "nc" /\ m.req = e.req
  BY <1>2 DEF StatusMatch, Only
<1> QED
  BY <1>3 DEF DocOf

LEMMA HandlePollBacked ==
  ASSUME IInv, EvidenceRecorded, NEW s \in Sub, NEW n \in Nat,
         NEW out \in HandlePoll(s, n, Pruned)
  PROVE  Backed(out)
<1>1. RecordedEvidence(session) /\ RecordedEvidence(Pruned)
  BY PrunedRecorded DEF EvidenceRecorded
<1>2. CASE out = Quiet(local, session)
  BY <1>1, <1>2, BackedQuiet
<1>3. CASE \E e \in session.lcs : \E m \in PollMatch(s, e) :
               out \in HandleE2(s, m.at, m.prob, m.req, Pruned)
  <2>1. PICK e \in session.lcs : \E m \in PollMatch(s, e) :
               out \in HandleE2(s, m.at, m.prob, m.req, Pruned)
    BY <1>3
  <2>2. PICK m \in PollMatch(s, e) : out \in HandleE2(s, m.at, m.prob, m.req, Pruned)
    BY <2>1
  <2>3. m.prob \in STRING /\ m.at \in Nat
    BY <2>1, <2>2, PollMatchTypes
  <2>4. Doc(m.req[1]) = "lc" => Doc(s) = "lc"
    BY <2>2, PollMatchDoc
  <2> QED
    BY <1>1, <2>2, <2>3, <2>4, PrunedTypes, HandleE2Backed
<1> QED
  BY <1>2, <1>3 DEF HandlePoll

LEMMA SameRecords ==
  ASSUME UNCHANGED <<setup, history>>, UNCHANGED <<local.confirmed, local.tombs>>
  PROVE  /\ \A t : Recorded(t) => Recorded(t)'
         /\ \A t : Doc(t)' = Doc(t) /\ \A e : DocOf(e)' = DocOf(e)
  BY DEF Recorded, Tombed, Doc, DocOf, history

LEMMA ApplyRecords ==
  ASSUME IInv, EvidenceRecorded, UNCHANGED setup,
         NEW outs, \A out \in outs : Sound(out) /\ Backed(out),
         NEW rest, rest \cap Verdicts \subseteq todo, Apply(outs, rest)
  PROVE  EvidenceRecorded'
<1>1. /\ \A e \in session.lcs :
           e.out = "matched" /\ DocOf(e) = "lc" => Recorded(e.sid) /\ e.sid \in Sub
      /\ \A p \in session.parked : Doc(p.sub) = "lc" => Recorded(p.sub) /\ p.sub \in Sub
      /\ \A j \in rest \cap Verdicts : Doc(j.sub) = "lc" => Recorded(j.sub) /\ j.sub \in Sub
  <2>1. session \in Sessions /\ Matching(session)
    BY DEF IInv, Types
  <2>2. session.parked \subseteq Verdicts
    BY <2>1, SessionParts
  <2> QED
    BY <2>1, <2>2 DEF EvidenceRecorded, RecordedEvidence, Matching, Verdicts
<1>2. (\A t : Doc(t)' = Doc(t)) /\ \A e : DocOf(e)' = DocOf(e)
  BY DEF Doc, DocOf
<1>3. ASSUME NEW out \in outs, local' = out.local, Counted(out.local),
             session' = out.session \/ session' = session,
             todo' = {} \/ todo' = out.work \cup rest
      PROVE  EvidenceRecorded'
  <2>1. /\ out.local \in Stores /\ out.session \in Sessions /\ out.work \subseteq Verdicts
        /\ Matching(out.session) /\ Writes(out.local) /\ Backed(out)
    BY DEF Sound, Outcomes
  <2>2. PICK l \in Stores : l = out.local
    BY <2>1
  <2>3. Counted(l) /\ Writes(l) /\ local' = l
    BY <1>3, <2>1, <2>2 DEF Counted, Writes
  <2>4. \A t \in Sub : Learned(l, t) => Recorded(t)'
    BY <2>3, RecordStays
  <2>5. /\ \A e \in out.session.lcs :
             e.out = "matched" /\ DocOf(e) = "lc" => Learned(l, e.sid) /\ e.sid \in Sub
        /\ \A p \in out.session.parked : Doc(p.sub) = "lc" => Learned(l, p.sub) /\ p.sub \in Sub
        /\ \A j \in out.work : Doc(j.sub) = "lc" => Learned(l, j.sub) /\ j.sub \in Sub
    <3>1. out.session.parked \subseteq Verdicts
      BY <2>1, SessionParts
    <3> QED
      BY <2>1, <2>2, <3>1 DEF Backed, Matching, Verdicts
  <2>6. \A t \in Sub : Recorded(t) => Recorded(t)'
    BY <2>4 DEF Learned
  <2>7. RecordedEvidence(out.session)'
    BY <1>2, <2>4, <2>5 DEF RecordedEvidence
  <2>8. RecordedEvidence(session)'
    <3>1. CASE session' = out.session
      BY <1>2, <2>4, <2>5, <3>1 DEF RecordedEvidence
    <3>2. CASE session' = session
      BY <1>1, <1>2, <2>6, <3>2 DEF RecordedEvidence
    <3> QED
      BY <1>3, <3>1, <3>2
  <2>9. \A j \in todo' \cap Verdicts : Doc(j.sub)' = "lc" => Recorded(j.sub)'
    BY <1>1, <1>2, <1>3, <2>4, <2>5, <2>6
  <2> QED
    BY <2>8, <2>9 DEF EvidenceRecorded
<1>4. CASE enabled /\ \E out \in outs : WriteAll(out, rest) \/ WriteLocalOnly(out)
  <2>1. PICK out \in outs : WriteAll(out, rest) \/ WriteLocalOnly(out)
    BY <1>4
  <2>2. CASE WriteAll(out, rest)
    BY <1>3, <2>2 DEF WriteAll
  <2>3. CASE WriteLocalOnly(out)
    BY <1>3, <2>3 DEF WriteLocalOnly, Stopped
  <2> QED
    BY <2>1, <2>2, <2>3
<1>5. CASE UNCHANGED <<local, session, history>> /\ todo' \in {{}, rest}
  BY <1>1, <1>5, SameRecords DEF EvidenceRecorded, RecordedEvidence
<1> QED
  BY <1>4, <1>5 DEF Apply, WriteNothing, Stopped

(* The browser's events bring no verdict job, and a verdict that is        *)
(* reported without a candidate is NowCoder's.                             *)
LEMMA PageRecords ==
  ASSUME IInv, EvidenceRecorded, NEW s \in Sub,
         \/ Click(s) \/ SubmitSent(s) \/ SubmitAnswered(s) \/ SubmitFails(s)
         \/ PollSent(s) \/ PollAnswered(s) \/ VerdictReported(s)
  PROVE  EvidenceRecorded'
<1>1. Pruned \in Sessions /\ Matching(Pruned) /\ RecordedEvidence(Pruned)
  BY PrunedTypes, PrunedRecorded
<1>2. polls[s] \in Nat /\ polls[s] + 1 \in Nat
  BY DEF IInv, Types
<1>3. ASSUME NEW outs, NEW rest, Reported(outs, rest), rest \cap Verdicts = {},
             \A out \in outs : Sound(out) /\ Backed(out)
      PROVE  EvidenceRecorded'
  <2>1. Apply(outs, rest) /\ UNCHANGED setup
    BY <1>3 DEF Reported
  <2> QED
    BY <1>3, <2>1, ApplyRecords
<1>4. ASSUME NEW req \in Requests, NEW signal, NEW rest, rest \cap Verdicts = {},
             Reported(HandleE1(req, signal, Pruned), rest)
      PROVE  EvidenceRecorded'
  <2>1. PICK outs : outs = HandleE1(req, signal, Pruned)
    OBVIOUS
  <2>2. \A out \in outs : Sound(out) /\ Backed(out)
    BY <1>1, <2>1, HandleE1Sound, HandleE1Backed
  <2>3. Reported(outs, rest)
    BY <1>4, <2>1 DEF Reported, Apply
  <2> QED
    BY <1>3, <1>4, <2>2, <2>3
<1>5. CASE Click(s)
  <2>1. PICK outs : outs = HandleE0(s, Pruned)
    OBVIOUS
  <2>2. \A out \in outs : Sound(out) /\ Backed(out)
    BY <1>1, <2>1, HandleE0Sound, HandleE0Backed
  <2>3. Reported(outs, {})
    BY <1>5, <2>1 DEF Click, Reported, Apply
  <2> QED
    BY <1>3, <2>2, <2>3
<1>6. CASE SubmitSent(s) \/ SubmitAnswered(s) \/ SubmitFails(s)
  <2>1. \E signal : Reported(HandleE1(<<s, 0>>, signal, Pruned), {})
    BY <1>6 DEF SubmitSent, SubmitAnswered, SubmitFails
  <2>2. <<s, 0>> \in Requests
    BY Seeing
  <2> QED
    BY <1>4, <2>1, <2>2
<1>7. CASE PollSent(s)
  <2>1. PICK req : req = <<s, polls[s] + 1>>
    OBVIOUS
  <2>2. req \in Requests
    BY <1>2, <2>1, Seeing
  <2>3. Reported(HandleE1(req, "before", Pruned), {})
    BY <1>7, <2>1 DEF PollSent
  <2> QED
    BY <1>4, <2>2, <2>3
<1>8. CASE PollAnswered(s)
  <2>1. PICK req : req = <<s, polls[s]>>
    OBVIOUS
  <2>2. req \in Requests
    BY <1>2, <2>1, Seeing
  <2>3. Reported(HandleE1(req, "completed", Pruned), {[poll |-> req]})
    BY <1>8, <2>1 DEF PollAnswered
  <2>4. {[poll |-> req]} \cap Verdicts = {}
    BY DEF Verdicts
  <2> QED
    BY <1>4, <2>2, <2>3, <2>4
<1>9. CASE VerdictReported(s)
  <2> DEFINE e3 == [sub |-> s, at |-> shown[s].at, prob |-> Prob(s), of |-> s, cand |-> FALSE]
             c == [sub |-> s, at |-> shown[s].at, req |-> shown[s].req]
  <2>1. shown[s] \in Seen
    BY <1>9 DEF VerdictReported, IInv, Types
  <2>2. e3 \in Verdicts /\ c \in Candidates /\ e3.sub = s
    BY <2>1, SetupTypes DEF Seen, Verdicts, Candidates
  <2>3. PICK outs : outs = IF setup[s].flow = "status" THEN HandleE3(e3, local, Pruned)
                           ELSE HandleCandidate(c, Pruned)
    OBVIOUS
  <2>4. Reported(outs, {})
    BY <1>9, <2>3 DEF VerdictReported, Reported, Apply
  <2>5. setup[s].flow = "status" => Doc(s) # "lc"
    BY DEF Doc
  <2> HIDE DEF e3, c
  <2>6. \A out \in outs : Sound(out) /\ Backed(out)
    BY <1>1, <2>2, <2>3, <2>5, HandleE3Sound, HandleE3Backed,
       HandleCandidateSound, HandleCandidateBacked
  <2> QED
    BY <1>3, <2>4, <2>6
<1> QED
  BY <1>5, <1>6, <1>7, <1>8, <1>9

LEMMA WorkRecords ==
  ASSUME IInv, EvidenceRecorded, Work
  PROVE  EvidenceRecorded'
<1>1. PICK job \in todo :
          Apply(IF "poll" \in DOMAIN job THEN HandlePoll(job.poll[1], job.poll[2], Pruned)
                ELSE HandleE3(job, local, Pruned), todo \ {job})
  BY DEF Work
<1>2. PICK outs : outs = IF "poll" \in DOMAIN job
                         THEN HandlePoll(job.poll[1], job.poll[2], Pruned)
                         ELSE HandleE3(job, local, Pruned)
  OBVIOUS
<1>3. PICK rest : rest = todo \ {job}
  OBVIOUS
<1>4. Apply(outs, rest) /\ rest \cap Verdicts \subseteq todo /\ UNCHANGED setup
  BY <1>1, <1>2, <1>3 DEF Apply, WriteAll, Work, browser
<1>5. Pruned \in Sessions /\ Matching(Pruned) /\ RecordedEvidence(Pruned)
  BY PrunedTypes, PrunedRecorded
<1>6. \A out \in outs : Sound(out) /\ Backed(out)
  <2>1. job \in Polls \cup Verdicts
    BY <1>1 DEF IInv, Types
  <2>2. CASE job \in Polls
    <3>1. "poll" \in DOMAIN job /\ job.poll[1] \in Sub /\ job.poll[2] \in Nat
      BY <2>2 DEF Polls, Requests
    <3> QED
      BY <1>2, <3>1, HandlePollSound, HandlePollBacked
  <2>3. CASE job \in Verdicts
    <3>1. "poll" \notin DOMAIN job
      BY <2>3 DEF Verdicts
    <3>2. Doc(job.sub) = "lc" => Recorded(job.sub)
      BY <1>1, <2>3 DEF EvidenceRecorded
    <3> QED
      BY <1>2, <1>5, <2>3, <3>1, <3>2, HandleE3Sound, HandleE3Backed
  <2> QED
    BY <2>1, <2>2, <2>3
<1> QED
  BY <1>4, <1>6, ApplyRecords

LEMMA WorkerRecords ==
  ASSUME IInv, EvidenceRecorded,
         \/ Install \/ WorkerStops \/ SetCaptureEnabled \/ Tick \/ Drain
         \/ \E s \in Sub : VerdictShown(s)
  PROVE  EvidenceRecorded'
<1>1. UNCHANGED <<setup, history>> /\ UNCHANGED <<local.confirmed, local.tombs>>
  <2>1. CASE Drain
    <3>1. local \in Stores
      BY DEF IInv, Types
    <3> QED
      BY <2>1, <3>1 DEF Drain, Stores, browser
  <2> QED
    BY <2>1 DEF Install, WorkerStops, SetCaptureEnabled, Tick, VerdictShown, browser, history
<1>2. RecordedEvidence(session) /\ RecordedEvidence(Pruned)
  BY PrunedRecorded DEF EvidenceRecorded
<1>3. /\ \A t : Recorded(t) => Recorded(t)'
      /\ \A t : Doc(t)' = Doc(t) /\ \A e : DocOf(e)' = DocOf(e)
  BY <1>1, SameRecords
<1>4. CASE Reinstalled
  <2>1. session'.lcs = Pruned.lcs /\ session'.parked = Pruned.parked
    BY <1>4, PrunedTypes, SessionParts DEF Reinstalled
  <2>2. \A j \in todo' : Recorded(j.sub)
    BY <1>4, ResolvedConfirmed DEF Reinstalled, Recorded
  <2> QED
    BY <1>2, <1>3, <2>1, <2>2 DEF EvidenceRecorded, RecordedEvidence
<1>5. CASE session' \in {session, Pruned} /\ todo' \in {todo, {}}
  BY <1>2, <1>3, <1>5 DEF EvidenceRecorded, RecordedEvidence
<1> QED
  BY <1>4, <1>5 DEF Install, WorkerStops, SetCaptureEnabled, Tick, Drain, VerdictShown, Stopped

(* For every value of the constants and whatever stops between the two     *)
(* writes: a LeetCode request session storage ties to a submission refers  *)
(* to one local storage has recorded.                                      *)
THEOREM MatchedRecorded == Spec => []MatchedIsRecorded
<1>1. Init => IInv /\ EvidenceRecorded
  <2>1. Init => session.lcs = {} /\ session.parked = {} /\ todo = {}
    BY DEF Init, NoEvidence
  <2>2. session.lcs = {} /\ session.parked = {} /\ todo = {} => EvidenceRecorded
    BY DEF EvidenceRecorded, RecordedEvidence
  <2> QED
    BY <2>1, <2>2, InitInv
<1>2. IInv /\ EvidenceRecorded /\ [Next]_vars => (IInv /\ EvidenceRecorded)'
  <2> SUFFICES ASSUME IInv, EvidenceRecorded, [Next]_vars
               PROVE  (IInv /\ EvidenceRecorded)'
    OBVIOUS
  <2>1. IInv'
    BY NextStep
  <2>2. CASE Next
    BY <2>1, <2>2, PageRecords, WorkRecords, WorkerRecords DEF Next
  <2>3. CASE UNCHANGED vars
    <3>1. UNCHANGED <<setup, history, local, session, todo>>
      BY <2>3 DEF vars, history
    <3>2. /\ \A t : Recorded(t) => Recorded(t)'
          /\ \A t : Doc(t)' = Doc(t) /\ \A e : DocOf(e)' = DocOf(e)
      BY <3>1, SameRecords
    <3> QED
      BY <2>1, <3>1, <3>2 DEF EvidenceRecorded, RecordedEvidence
  <2> QED
    BY <2>2, <2>3
<1>3. EvidenceRecorded => MatchedIsRecorded
  BY DEF EvidenceRecorded, RecordedEvidence, MatchedIsRecorded, Recorded
<1> QED
  BY <1>1, <1>2, <1>3, PTL DEF Spec
-----------------------------------------------------------------------------
(* The slices of both storages stay within their caps, and no request is   *)
(* younger than the clock or counted beyond its page's polls.              *)
Small(S, n) == IsFiniteSet(S) /\ Cardinality(S) <= n

Sized(ses) == Small(ses.parked, Cap) /\ Small(ses.cands, Cap)

Within(lcs, sent) == \A e \in lcs : e.req[2] <= sent[e.req[1]] /\ e.at <= now

Pages == {"idle", "clicked", "submitting", "judging", "polling", "failed"}

Bounded ==
  /\ page \in [Sub -> Pages] /\ \A s \in Sub : polls[s] <= setup[s].polls
  /\ now <= MaxTime /\ stops \in 0 .. MaxStops
  /\ enabled \in BOOLEAN /\ up \in BOOLEAN
  /\ Sized(session) /\ Small(local.tombs, MaxTombs) /\ Within(session.lcs, polls)

(* The same of what a handler returns, for the polls sent so far.          *)
Fits(out, sent) ==
  /\ Sized(out.session) /\ Small(out.local.tombs, MaxTombs)
  /\ Within(out.session.lcs, sent)

LEMMA Fewer ==
  ASSUME NEW S, NEW n \in Nat, Small(S, n), NEW T \in SUBSET S
  PROVE  Small(T, n)
<1>1. IsFiniteSet(S) /\ Cardinality(S) <= n
  BY DEF Small
<1>2. IsFiniteSet(T) /\ Cardinality(T) <= Cardinality(S)
  BY <1>1, FS_Subset
<1>3. Cardinality(T) \in Nat /\ Cardinality(S) \in Nat
  BY <1>1, <1>2, FS_CardinalityType
<1> QED
  BY <1>1, <1>2, <1>3 DEF Small

LEMMA NewestSmall ==
  ASSUME NEW S, IsFiniteSet(S), NEW x, NEW n, NEW T \in Newest(S, x, n)
  PROVE  Small(T, n)
<1>1. T \subseteq S \cup {x} /\ Cardinality(T) <= n
  BY DEF Newest
<1>2. IsFiniteSet(S \cup {x})
  BY FS_AddElement
<1>3. IsFiniteSet(T)
  BY <1>1, <1>2, FS_Subset
<1> QED
  BY <1>1, <1>3 DEF Small

LEMMA Caps == Cap \in Nat /\ MaxTombs \in Nat /\ MaxTime \in Nat /\ MaxStops \in Nat
  BY OrchestratorAssumption

LEMMA ShrunkSized ==
  ASSUME NEW ses, Sized(ses), NEW left, left.parked \subseteq ses.parked,
         left.cands \subseteq ses.cands
  PROVE  Sized(left)
<1>1. Small(ses.parked, Cap) /\ Small(ses.cands, Cap)
  BY DEF Sized
<1>2. PICK P \in SUBSET ses.parked : P = left.parked
  OBVIOUS
<1>3. PICK C \in SUBSET ses.cands : C = left.cands
  OBVIOUS
<1>4. Small(P, Cap) /\ Small(C, Cap)
  BY <1>1, Caps, Fewer
<1> QED
  BY <1>2, <1>3, <1>4 DEF Sized

LEMMA PrunedBounded ==
  ASSUME Bounded
  PROVE  Sized(Pruned) /\ Within(Pruned.lcs, polls)
<1>1. Sized(session) /\ Within(session.lcs, polls)
  BY DEF Bounded
<1>2. Pruned.parked \subseteq session.parked /\ Pruned.cands \subseteq session.cands
        /\ Pruned.lcs \subseteq session.lcs
  BY DEF Pruned
<1>3. Sized(Pruned)
  BY <1>1, <1>2, ShrunkSized
<1> QED
  BY <1>1, <1>2, <1>3 DEF Within

LEMMA FitsQuiet ==
  ASSUME NEW l, NEW ses, NEW work, NEW sent,
         Sized(ses), Small(l.tombs, MaxTombs), Within(ses.lcs, sent)
  PROVE  Fits(Outcome(l, ses, work), sent) /\ Fits(Quiet(l, ses), sent)
  BY DEF Fits, Outcome, Quiet

LEMMA HandleE0Fits ==
  ASSUME Bounded, NEW s, NEW ses \in Sessions, NEW sent, Sized(ses), Within(ses.lcs, sent),
         NEW out \in HandleE0(s, ses)
  PROVE  Fits(out, sent)
<1>1. PICK left : /\ out = Quiet(local, left) /\ left.lcs = ses.lcs
                  /\ left.parked = ses.parked /\ left.cands = ses.cands
  BY SessionParts DEF HandleE0
<1>2. Sized(left) /\ Within(left.lcs, sent) /\ Small(local.tombs, MaxTombs)
  BY <1>1, ShrunkSized DEF Bounded
<1> QED
  BY <1>1, <1>2, FitsQuiet

(* The merged lifecycle is the request's own or starts now.                *)
LEMMA HandleE1Fits ==
  ASSUME IInv, Bounded, NEW req \in Requests, NEW signal, NEW ses \in Sessions, NEW sent,
         Sized(ses), Within(ses.lcs, sent), req[2] <= sent[req[1]],
         NEW out \in HandleE1(req, signal, ses)
  PROVE  Fits(out, sent)
<1> DEFINE prior == {e \in ses.lcs : e.req = req}
           first == MergedE1(Lifecycle(req, now, FALSE, "pending", None), signal)
           merged == IF prior = {} THEN {first} ELSE {MergedE1(e, signal) : e \in prior}
           lcs == (ses.lcs \ prior) \cup merged
           cands == {c \in ses.cands : \/ signal = "redirect" \/ c.req # NoRequest
                             \/ Reconcile(c, lcs, local.confirmed) # Terminal}
           left == [ses EXCEPT !.lcs = lcs, !.cands = cands]
<1>1. now \in Nat
  BY DEF IInv, Types
<1>2. first.req = req /\ first.at = now
  BY DEF MergedE1, Lifecycle
<1>3. ASSUME NEW e \in Lifecycles
      PROVE  MergedE1(e, signal).req = e.req /\ MergedE1(e, signal).at = e.at
  BY DEF MergedE1, Lifecycles
<1>4. \A e \in lcs : e.req[2] <= sent[e.req[1]] /\ e.at <= now
  <2> SUFFICES ASSUME NEW e \in lcs PROVE e.req[2] <= sent[e.req[1]] /\ e.at <= now
    OBVIOUS
  <2>1. CASE e \in ses.lcs
    BY <2>1 DEF Within
  <2>2. CASE e = first
    <3>1. e.req = req /\ e.at = now
      BY <1>2, <2>2
    <3> QED
      BY <1>1, <3>1
  <2>3. CASE \E f \in prior : e = MergedE1(f, signal)
    <3>1. PICK f \in ses.lcs : e = MergedE1(f, signal)
      BY <2>3
    <3>2. f \in Lifecycles
      BY SessionParts
    <3> QED
      BY <1>3, <3>1, <3>2 DEF Within
  <2> QED
    BY <2>1, <2>2, <2>3
<1>5. out = Quiet(local, left)
  BY DEF HandleE1
<1> HIDE DEF lcs
<1>6. cands \subseteq ses.cands
  OBVIOUS
<1> HIDE DEF cands
<1>7. left.lcs = lcs /\ left.parked = ses.parked /\ left.cands = cands
  BY SessionParts
<1> HIDE DEF left
<1>8. Sized(left) /\ Within(left.lcs, sent) /\ Small(local.tombs, MaxTombs)
  BY <1>4, <1>6, <1>7, ShrunkSized DEF Bounded, Within
<1> QED
  BY <1>5, <1>8, FitsQuiet

(* A verdict parks itself in a full slice only by displacing another, and  *)
(* so does a tombstone.                                                    *)
LEMMA HandleE3Sizes ==
  ASSUME NEW e3 \in Verdicts, NEW loc \in Stores, NEW ses \in Sessions, Sized(ses),
         Small(loc.tombs, MaxTombs), NEW out \in HandleE3(e3, loc, ses)
  PROVE  Sized(out.session) /\ Small(out.local.tombs, MaxTombs)
<1> DEFINE conf == loc.confirmed[e3.sub]
           consumed == [ses EXCEPT !.cands = WithoutCand(e3, @)]
           bundled == [consumed EXCEPT !.lcs = {e \in @ : e.sid # e3.sub},
                                       !.parked = {p \in @ : p.sub # e3.sub}]
<1>1. WithoutCand(e3, ses.cands) \subseteq ses.cands
  BY DEF WithoutCand
<1>2. /\ consumed.parked = ses.parked /\ consumed.cands \subseteq ses.cands
      /\ bundled.parked \subseteq ses.parked /\ bundled.cands \subseteq ses.cands
  BY <1>1, SessionParts
<1> HIDE DEF consumed, bundled
<1>3. Sized(consumed) /\ Sized(bundled)
  BY <1>2, ShrunkSized
<1>4. ASSUME NEW l, NEW left, out = Quiet(l, left), Sized(left), Small(l.tombs, MaxTombs)
      PROVE  Sized(out.session) /\ Small(out.local.tombs, MaxTombs)
  BY <1>4 DEF Quiet, Outcome
<1>5. CASE IsFinal(e3.sub, loc)
  <2>1. out = Quiet(loc, consumed)
    BY <1>5 DEF HandleE3, consumed
  <2> QED
    BY <1>3, <1>4, <2>1
<1>6. CASE ~IsFinal(e3.sub, loc) /\ (conf = None \/ conf.prob # e3.prob)
  <2> DEFINE others == {p \in ses.parked : p.sub # e3.sub}
  <2>1. PICK P \in Newest(others, e3, Cap) : out = Quiet(loc, [ses EXCEPT !.parked = P])
    BY <1>6 DEF HandleE3
  <2> DEFINE left == [ses EXCEPT !.parked = P]
  <2>2. IsFiniteSet(ses.parked) /\ Small(ses.cands, Cap)
    BY DEF Sized, Small
  <2>3. IsFiniteSet(others)
    BY <2>2, FS_Subset
  <2> HIDE DEF others
  <2>4. Small(P, Cap)
    BY <2>1, <2>3, NewestSmall
  <2>5. left.parked = P /\ left.cands = ses.cands
    BY SessionParts
  <2> HIDE DEF left
  <2>6. Sized(left)
    BY <2>2, <2>4, <2>5 DEF Sized
  <2> QED
    BY <1>4, <2>1, <2>6 DEF left
<1>7. CASE ~IsFinal(e3.sub, loc) /\ ~(conf = None \/ conf.prob # e3.prob)
  <2>1. PICK start \in Starts(e3, conf, ses) :
            LET b == Bundle(e3, start, conf.at)
            IN out \in IF InOrder(b) THEN {Quiet(loc2, bundled) : loc2 \in Finalized(loc, b)}
                       ELSE {Quiet(loc, consumed)}
    BY <1>7 DEF HandleE3, consumed, bundled
  <2> DEFINE b == Bundle(e3, start, conf.at)
             old == Unexpired({x \in loc.tombs : x.sub # b.sub}, b.fin)
             x == [sub |-> b.sub, fin |-> b.fin]
  <2> HIDE DEF b
  <2>2. CASE out = Quiet(loc, consumed)
    BY <1>3, <1>4, <2>2
  <2>3. CASE \E l \in Finalized(loc, b) : out = Quiet(l, bundled)
    <3>1. PICK l \in Finalized(loc, b) : out = Quiet(l, bundled)
      BY <2>3
    <3>2. PICK T \in Newest(old, x, MaxTombs) : l.tombs = T
      BY <3>1 DEF Finalized
    <3>3. old \subseteq loc.tombs /\ IsFiniteSet(loc.tombs)
      BY DEF Unexpired, Small
    <3>4. IsFiniteSet(old)
      BY <3>3, FS_Subset
    <3> HIDE DEF old, x
    <3>5. Small(l.tombs, MaxTombs)
      BY <3>2, <3>4, NewestSmall
    <3> QED
      BY <1>3, <1>4, <3>1, <3>5
  <2> QED
    BY <2>1, <2>2, <2>3 DEF b
<1> QED
  BY <1>5, <1>6, <1>7

LEMMA HandleE3Fits ==
  ASSUME IInv, Bounded, NEW e3 \in Verdicts, NEW ses \in Sessions, Matching(ses), NEW sent,
         Sized(ses), Within(ses.lcs, sent), NEW out \in HandleE3(e3, local, ses)
  PROVE  Fits(out, sent)
<1>1. local \in Stores /\ Small(local.tombs, MaxTombs)
  BY DEF IInv, Types, Bounded
<1>2. Sized(out.session) /\ Small(out.local.tombs, MaxTombs)
  BY <1>1, HandleE3Sizes
<1>3. out.session.lcs \subseteq ses.lcs
  BY <1>1, HandleE3Facts
<1> QED
  BY <1>2, <1>3 DEF Fits, Within

LEMMA ReplayFits ==
  ASSUME Bounded, NEW p \in Verdicts, NEW after \in Stores, Small(after.tombs, MaxTombs),
         NEW ses \in Sessions, NEW sent, Sized(ses), Within(ses.lcs, sent), NEW work,
         NEW out \in Replayed(p, after, ses, work)
  PROVE  Fits(out, sent)
<1> DEFINE blind == [NoEvidence EXCEPT !.hints = ses.hints]
<1>1. blind \in Sessions /\ blind.lcs = {} /\ blind.parked = {} /\ blind.cands = {}
  BY SessionParts DEF NoEvidence, Sessions
<1>2. Matching(blind)
  BY <1>1 DEF Matching
<1>3. Sized(blind)
  BY <1>1, ShrunkSized
<1> HIDE DEF blind
<1>4. PICK r \in HandleE3(p, after, blind) :
          out = Outcome(IF r.local = after THEN local ELSE r.local,
                        IF r.session = blind /\ r.local = after THEN ses ELSE r.session,
                        work)
  BY DEF Replayed, blind
<1>5. Sized(r.session) /\ Small(r.local.tombs, MaxTombs) /\ r.session.lcs \subseteq {}
  BY <1>1, <1>2, <1>3, <1>4, HandleE3Sizes, HandleE3Facts
<1> DEFINE l == IF r.local = after THEN local ELSE r.local
           left == IF r.session = blind /\ r.local = after THEN ses ELSE r.session
<1>6. Sized(left) /\ Small(l.tombs, MaxTombs)
  BY <1>5 DEF Bounded
<1>7. Within(left.lcs, sent)
  BY <1>5 DEF Within
<1> HIDE DEF l, left
<1>8. out = Outcome(l, left, work)
  BY <1>4 DEF l, left
<1> QED
  BY <1>6, <1>7, <1>8, FitsQuiet

LEMMA HandleE2Fits ==
  ASSUME IInv, Bounded, NEW s \in Sub, NEW at \in Nat, NEW prob \in STRING, NEW req,
         NEW ses \in Sessions, Matching(ses), NEW sent, Sized(ses), Within(ses.lcs, sent),
         NEW out \in HandleE2(s, at, prob, req, ses)
  PROVE  Fits(out, sent)
<1> DEFINE after == Confirmed(s, at, prob)
           lcs == Matched(s, req, ses)
           cands == Kept(ses.cands, lcs, after.confirmed)
           matched == [ses EXCEPT !.lcs = lcs, !.cands = cands]
           work == Resolutions(ses.cands, lcs, after.confirmed)
           waiting == {p \in ses.parked : p.sub = s}
<1>0. Small(local.tombs, MaxTombs)
  BY DEF Bounded
<1>1. CASE Refused(s, prob)
  <2>1. out = Quiet(local, ses)
    BY <1>1 DEF HandleE2
  <2> QED
    BY <1>0, <2>1, FitsQuiet
<1>2. CASE ~Refused(s, prob)
  <2>1. after \in Stores /\ after.tombs \subseteq local.tombs
    BY <1>2, ConfirmedFacts DEF Confirms
  <2>2. Small(after.tombs, MaxTombs)
    BY <1>0, <2>1, Caps, Fewer
  <2>3. ASSUME NEW e \in lcs PROVE e.req[2] <= sent[e.req[1]] /\ e.at <= now
    <3>1. PICK f \in ses.lcs :
              e = IF f.req = req THEN [f EXCEPT !.out = "matched", !.sid = s] ELSE f
      BY DEF Matched
    <3>2. e.req = f.req /\ e.at = f.at
      BY <3>1, SessionParts DEF Lifecycles
    <3> QED
      BY <3>2 DEF Within
  <2>4. lcs \subseteq Lifecycles /\ \A e \in lcs : e.out = "matched" => e.sid \in Sub
    BY MatchedTypes
  <2>5. cands \subseteq ses.cands
    BY DEF Kept
  <2>6. out \in IF waiting = {} THEN {Outcome(after, matched, work)}
                ELSE UNION {Replayed(p, after, matched, work) : p \in waiting}
    BY <1>2 DEF HandleE2
  <2> HIDE DEF after, lcs, cands, work
  <2>7. /\ matched \in Sessions /\ matched.lcs = lcs /\ matched.parked = ses.parked
        /\ matched.cands = cands
    BY <2>4, <2>5, SessionParts DEF Sessions
  <2> HIDE DEF matched
  <2>8. Sized(matched) /\ Within(matched.lcs, sent)
    BY <2>3, <2>5, <2>7, ShrunkSized DEF Within
  <2>9. CASE out = Outcome(after, matched, work)
    BY <2>2, <2>8, <2>9, FitsQuiet
  <2>10. CASE \E p \in waiting : out \in Replayed(p, after, matched, work)
    <3>1. PICK p \in waiting : out \in Replayed(p, after, matched, work)
      BY <2>10
    <3>2. p \in Verdicts
      BY SessionParts
    <3> QED
      BY <2>1, <2>2, <2>7, <2>8, <3>1, <3>2, ReplayFits
  <2> QED
    BY <2>6, <2>9, <2>10
<1> QED
  BY <1>1, <1>2

LEMMA HandleCandidateFits ==
  ASSUME Bounded, NEW c, NEW ses \in Sessions, NEW sent, Sized(ses), Within(ses.lcs, sent),
         NEW out \in HandleCandidate(c, ses)
  PROVE  Fits(out, sent)
<1> DEFINE others == {d \in ses.cands : d.sub # c.sub}
<1>1. PICK cands \in Newest(others, c, Cap) : out = Joined(cands, ses)
  BY DEF HandleCandidate
<1> DEFINE kept == Kept(cands, ses.lcs, local.confirmed)
           work == Resolutions(cands, ses.lcs, local.confirmed)
           left == [ses EXCEPT !.cands = kept]
<1>2. IsFiniteSet(ses.cands) /\ Small(ses.parked, Cap)
  BY DEF Sized, Small
<1>3. IsFiniteSet(others)
  BY <1>2, FS_Subset
<1> HIDE DEF others
<1>4. Small(cands, Cap)
  BY <1>1, <1>3, NewestSmall
<1>5. kept \in SUBSET cands
  BY DEF Kept
<1>6. Small(kept, Cap)
  BY <1>4, <1>5, Caps, Fewer
<1>7. out = Outcome(local, left, work)
  BY <1>1 DEF Joined
<1> HIDE DEF kept, work
<1>8. left.parked = ses.parked /\ left.cands = kept /\ left.lcs = ses.lcs
  BY SessionParts
<1> HIDE DEF left
<1>9. Sized(left) /\ Within(left.lcs, sent) /\ Small(local.tombs, MaxTombs)
  BY <1>2, <1>6, <1>8 DEF Sized, Bounded
<1> QED
  BY <1>7, <1>9, FitsQuiet

LEMMA HandlePollFits ==
  ASSUME IInv, Bounded, NEW s \in Sub, NEW n \in Nat, NEW out \in HandlePoll(s, n, Pruned)
  PROVE  Fits(out, polls)
<1>1. Sized(session) /\ Within(session.lcs, polls) /\ Small(local.tombs, MaxTombs)
  BY DEF Bounded
<1>2. CASE out = Quiet(local, session)
  BY <1>1, <1>2, FitsQuiet
<1>3. CASE \E e \in session.lcs : \E m \in PollMatch(s, e) :
               out \in HandleE2(s, m.at, m.prob, m.req, Pruned)
  <2>1. PICK e \in session.lcs : \E m \in PollMatch(s, e) :
               out \in HandleE2(s, m.at, m.prob, m.req, Pruned)
    BY <1>3
  <2>2. PICK m \in PollMatch(s, e) : out \in HandleE2(s, m.at, m.prob, m.req, Pruned)
    BY <2>1
  <2>3. m.prob \in STRING /\ m.at \in Nat
    BY <2>1, <2>2, PollMatchTypes
  <2> QED
    BY <2>2, <2>3, PrunedTypes, PrunedBounded, HandleE2Fits
<1> QED
  BY <1>2, <1>3 DEF HandlePoll

(* What a step may do to the pages and the clock.                          *)
Pacing ==
  /\ page' \in [Sub -> Pages] /\ polls' \in [Sub -> Nat]
  /\ \A s \in Sub : polls[s] <= polls'[s] /\ polls'[s] <= setup'[s].polls
  /\ now <= now' /\ now' <= MaxTime /\ now' \in Nat /\ enabled' \in BOOLEAN

LEMMA WithinLater ==
  ASSUME IInv, Pacing, NEW lcs \in SUBSET Lifecycles,
         Within(lcs, polls) \/ Within(lcs, polls')
  PROVE  \A e \in lcs : e.req[2] <= polls'[e.req[1]] /\ e.at <= now'
<1> SUFFICES ASSUME NEW e \in lcs PROVE e.req[2] <= polls'[e.req[1]] /\ e.at <= now'
  OBVIOUS
<1>1. e.req[1] \in Sub /\ e.req[2] \in Nat /\ e.at \in Nat
  BY DEF Lifecycles, Requests
<1>2. /\ polls[e.req[1]] \in Nat /\ polls'[e.req[1]] \in Nat
      /\ polls[e.req[1]] <= polls'[e.req[1]] /\ now \in Nat /\ now' \in Nat /\ now <= now'
  BY <1>1 DEF IInv, Types, Pacing
<1>3. (e.req[2] <= polls[e.req[1]] \/ e.req[2] <= polls'[e.req[1]]) /\ e.at <= now
  BY DEF Within
<1> QED
  BY <1>1, <1>2, <1>3

LEMMA BoundsKept ==
  ASSUME IInv, Bounded, Pacing, stops' \in 0 .. MaxStops, up' \in BOOLEAN,
         Sized(session)', Small(local.tombs, MaxTombs)', session'.lcs \subseteq Lifecycles,
         Within(session'.lcs, polls) \/ Within(session'.lcs, polls')
  PROVE  Bounded'
<1>1. \A e \in session'.lcs : e.req[2] <= polls'[e.req[1]] /\ e.at <= now'
  BY WithinLater
<1>2. Within(session.lcs, polls)'
  BY <1>1 DEF Within
<1> QED
  BY <1>2 DEF Bounded, Pacing

LEMMA ApplyBounds ==
  ASSUME IInv, Bounded, Pacing,
         NEW outs, \A out \in outs : Sound(out) /\ Fits(out, polls'),
         NEW rest, Apply(outs, rest)
  PROVE  Bounded'
<1>1. /\ Sized(session) /\ Small(local.tombs, MaxTombs) /\ Within(session.lcs, polls)
      /\ stops \in 0 .. MaxStops /\ up \in BOOLEAN /\ MaxStops \in Nat
  BY Caps DEF Bounded
<1>2. session.lcs \subseteq Lifecycles
  BY SessionParts DEF IInv, Types
<1>3. \A out \in outs : /\ out.session.lcs \subseteq Lifecycles
                        /\ Sized(out.session) /\ Small(out.local.tombs, MaxTombs)
                        /\ Within(out.session.lcs, polls')
  BY SessionParts DEF Sound, Outcomes, Fits
<1>4. stops' \in 0 .. MaxStops /\ up' \in BOOLEAN
  <2>1. UNCHANGED <<stops, up>> \/ (stops < MaxStops /\ stops' = stops + 1 /\ up' = FALSE)
    BY DEF Apply, WriteAll, WriteLocalOnly, WriteNothing, Stopped
  <2>2. stops' \in 0 .. MaxStops
    BY <1>1, <2>1
  <2>3. up' = up \/ up' = FALSE
    BY <2>1
  <2> QED
    BY <1>1, <2>2, <2>3
<1>5. /\ session' = session \/ \E out \in outs : session' = out.session
      /\ local' = local \/ \E out \in outs : local' = out.local
  BY DEF Apply, WriteAll, WriteLocalOnly, WriteNothing
<1>6. Sized(session)' /\ Small(local.tombs, MaxTombs)'
  <2>1. Sized(session') /\ Small(local'.tombs, MaxTombs)
    BY <1>1, <1>3, <1>5
  <2> QED
    BY <2>1 DEF Sized
<1>7. session'.lcs \subseteq Lifecycles
        /\ (Within(session'.lcs, polls) \/ Within(session'.lcs, polls'))
  BY <1>1, <1>2, <1>3, <1>5
<1> QED
  BY <1>4, <1>6, <1>7, BoundsKept

LEMMA PageBounds ==
  ASSUME IInv, Bounded, NEW s \in Sub,
         \/ Click(s) \/ SubmitSent(s) \/ SubmitAnswered(s) \/ SubmitFails(s)
         \/ PollSent(s) \/ PollAnswered(s) \/ VerdictReported(s)
  PROVE  Bounded'
<1>1. Pruned \in Sessions /\ Matching(Pruned) /\ Sized(Pruned) /\ Within(Pruned.lcs, polls)
  BY PrunedTypes, PrunedBounded
<1>2. /\ polls \in [Sub -> Nat] /\ page \in [Sub -> Pages] /\ now \in Nat /\ now <= MaxTime
      /\ \A t \in Sub : polls[t] <= setup[t].polls /\ setup[t].polls \in Nat
      /\ enabled \in BOOLEAN
  BY OrchestratorAssumption DEF IInv, Types, Bounded
<1>3. ASSUME page' \in [Sub -> Pages], UNCHANGED <<enabled, setup, now>>,
             polls' = polls \/ (/\ polls[s] < setup[s].polls
                                /\ polls' = [polls EXCEPT ![s] = @ + 1])
      PROVE  /\ Pacing /\ Within(Pruned.lcs, polls')
             /\ polls' \in [Sub -> Nat] /\ \A t \in Sub : polls[t] <= polls'[t]
  <2>1. polls' \in [Sub -> Nat] /\ \A t \in Sub : polls[t] <= polls'[t]
    BY <1>2, <1>3
  <2>2. \A t \in Sub : polls'[t] <= setup[t].polls
    BY <1>2, <1>3
  <2>3. Pacing
    BY <1>2, <1>3, <2>1, <2>2 DEF Pacing
  <2>4. Pruned.lcs \subseteq Lifecycles
    BY <1>1, SessionParts
  <2>5. \A e \in Pruned.lcs : e.req[2] <= polls'[e.req[1]] /\ e.at <= now'
    BY <1>1, <2>3, <2>4, WithinLater
  <2>6. Within(Pruned.lcs, polls')
    BY <1>3, <2>5 DEF Within
  <2> QED
    BY <2>1, <2>3, <2>6
<1>4. ASSUME NEW outs, NEW rest, Reported(outs, rest), Pacing,
             \A out \in outs : Sound(out) /\ Fits(out, polls')
      PROVE  Bounded'
  <2>1. Apply(outs, rest)
    BY <1>4 DEF Reported
  <2> QED
    BY <1>4, <2>1, ApplyBounds
<1>5. ASSUME NEW req \in Requests, NEW signal, NEW rest,
             Reported(HandleE1(req, signal, Pruned), rest),
             req[2] <= polls'[req[1]], page' \in [Sub -> Pages],
             polls' = polls \/ (/\ polls[s] < setup[s].polls
                                /\ polls' = [polls EXCEPT ![s] = @ + 1])
      PROVE  Bounded'
  <2>1. PICK outs : outs = HandleE1(req, signal, Pruned)
    OBVIOUS
  <2>2. PICK sent : sent = polls'
    OBVIOUS
  <2>3. UNCHANGED <<enabled, setup, now>>
    BY <1>5 DEF Reported
  <2>4. Pacing /\ Within(Pruned.lcs, sent)
    BY <1>3, <1>5, <2>2, <2>3
  <2>5. \A out \in outs : Sound(out) /\ Fits(out, sent)
    BY <1>1, <1>5, <2>1, <2>2, <2>4, HandleE1Sound, HandleE1Fits
  <2>6. Reported(outs, rest)
    BY <1>5, <2>1 DEF Reported, Apply
  <2> QED
    BY <1>4, <2>2, <2>4, <2>5, <2>6
<1>6. ASSUME NEW to \in Pages, NEW from, Moves(s, from, to)
      PROVE  page' \in [Sub -> Pages]
  BY <1>2, <1>6 DEF Moves
<1>7. {"idle", "clicked", "submitting", "judging", "polling", "failed"} \subseteq Pages
  BY DEF Pages
<1>8. CASE Click(s)
  <2>1. PICK outs : outs = HandleE0(s, Pruned)
    OBVIOUS
  <2>2. page' \in [Sub -> Pages] /\ polls' = polls /\ UNCHANGED <<enabled, setup, now>>
    BY <1>6, <1>7, <1>8 DEF Click, Reported
  <2>3. Pacing
    BY <1>3, <2>2
  <2>4. \A out \in outs : Sound(out) /\ Fits(out, polls)
    BY <1>1, <2>1, HandleE0Sound, HandleE0Fits
  <2>5. Reported(outs, {})
    BY <1>8, <2>1 DEF Click, Reported, Apply
  <2> QED
    BY <1>4, <2>2, <2>3, <2>4, <2>5
<1>9. CASE SubmitSent(s) \/ SubmitAnswered(s) \/ SubmitFails(s)
  <2>1. \E signal : Reported(HandleE1(<<s, 0>>, signal, Pruned), {})
    BY <1>9 DEF SubmitSent, SubmitAnswered, SubmitFails
  <2>2. page' \in [Sub -> Pages] /\ polls' = polls
    BY <1>6, <1>7, <1>9 DEF SubmitSent, SubmitAnswered, SubmitFails
  <2>3. <<s, 0>> \in Requests
    BY Seeing
  <2>4. PICK req \in Requests : req = <<s, 0>>
    BY <2>3
  <2>5. req[2] <= polls'[req[1]]
    BY <1>2, <2>2, <2>4
  <2> QED
    BY <1>5, <2>1, <2>2, <2>4, <2>5
<1>10. CASE PollSent(s)
  <2>1. PICK req : req = <<s, polls[s] + 1>>
    OBVIOUS
  <2>2. req \in Requests
    BY <1>2, <2>1, Seeing
  <2>3. Reported(HandleE1(req, "before", Pruned), {})
    BY <1>10, <2>1 DEF PollSent
  <2>4. /\ page' \in [Sub -> Pages] /\ polls[s] < setup[s].polls
        /\ polls' = [polls EXCEPT ![s] = @ + 1]
    BY <1>6, <1>7, <1>10 DEF PollSent
  <2>5. req[2] <= polls'[req[1]]
    BY <1>2, <2>1, <2>4
  <2> QED
    BY <1>5, <2>2, <2>3, <2>4, <2>5
<1>11. CASE PollAnswered(s)
  <2>1. PICK req : req = <<s, polls[s]>>
    OBVIOUS
  <2>2. req \in Requests
    BY <1>2, <2>1, Seeing
  <2>3. Reported(HandleE1(req, "completed", Pruned), {[poll |-> req]})
    BY <1>11, <2>1 DEF PollAnswered
  <2>4. page' \in [Sub -> Pages] /\ polls' = polls
    BY <1>6, <1>7, <1>11 DEF PollAnswered
  <2>5. req[2] <= polls'[req[1]]
    BY <1>2, <2>1, <2>4
  <2> QED
    BY <1>5, <2>2, <2>3, <2>4, <2>5
<1>12. CASE VerdictReported(s)
  <2> DEFINE e3 == [sub |-> s, at |-> shown[s].at, prob |-> Prob(s), of |-> s, cand |-> FALSE]
             c == [sub |-> s, at |-> shown[s].at, req |-> shown[s].req]
  <2>1. shown[s] \in Seen
    BY <1>12 DEF VerdictReported, IInv, Types
  <2>2. e3 \in Verdicts /\ c \in Candidates
    BY <2>1, SetupTypes DEF Seen, Verdicts, Candidates
  <2>3. PICK outs : outs = IF setup[s].flow = "status" THEN HandleE3(e3, local, Pruned)
                           ELSE HandleCandidate(c, Pruned)
    OBVIOUS
  <2>4. Reported(outs, {})
    BY <1>12, <2>3 DEF VerdictReported, Reported, Apply
  <2>5. page' \in [Sub -> Pages] /\ polls' = polls /\ UNCHANGED <<enabled, setup, now>>
    BY <1>2, <1>12 DEF VerdictReported, Reported
  <2>6. Pacing
    BY <1>3, <2>5
  <2> HIDE DEF e3, c
  <2>7. \A out \in outs : Sound(out) /\ Fits(out, polls)
    BY <1>1, <2>2, <2>3, HandleE3Sound, HandleE3Fits, HandleCandidateSound,
       HandleCandidateFits
  <2> QED
    BY <1>4, <2>4, <2>5, <2>6, <2>7
<1> QED
  BY <1>8, <1>9, <1>10, <1>11, <1>12

LEMMA WorkBounds ==
  ASSUME IInv, Bounded, Work
  PROVE  Bounded'
<1>1. PICK job \in todo :
          Apply(IF "poll" \in DOMAIN job THEN HandlePoll(job.poll[1], job.poll[2], Pruned)
                ELSE HandleE3(job, local, Pruned), todo \ {job})
  BY DEF Work
<1>2. PICK outs : outs = IF "poll" \in DOMAIN job
                         THEN HandlePoll(job.poll[1], job.poll[2], Pruned)
                         ELSE HandleE3(job, local, Pruned)
  OBVIOUS
<1>3. PICK rest : rest = todo \ {job}
  OBVIOUS
<1>4. Apply(outs, rest) /\ UNCHANGED <<setup, now, page, polls, enabled>>
  BY <1>1, <1>2, <1>3 DEF Apply, WriteAll, Work, browser
<1>5. Pruned \in Sessions /\ Matching(Pruned) /\ Sized(Pruned) /\ Within(Pruned.lcs, polls)
  BY PrunedTypes, PrunedBounded
<1>6. Pacing
  BY <1>4 DEF Pacing, Bounded, IInv, Types
<1>7. \A out \in outs : Sound(out) /\ Fits(out, polls)
  <2>1. job \in Polls \cup Verdicts
    BY <1>1 DEF IInv, Types
  <2>2. CASE job \in Polls
    <3>1. "poll" \in DOMAIN job /\ job.poll[1] \in Sub /\ job.poll[2] \in Nat
      BY <2>2 DEF Polls, Requests
    <3> QED
      BY <1>2, <3>1, HandlePollSound, HandlePollFits
  <2>3. CASE job \in Verdicts
    <3>1. "poll" \notin DOMAIN job
      BY <2>3 DEF Verdicts
    <3> QED
      BY <1>2, <1>5, <2>3, <3>1, HandleE3Sound, HandleE3Fits
  <2> QED
    BY <2>1, <2>2, <2>3
<1> QED
  BY <1>4, <1>6, <1>7, ApplyBounds

LEMMA WorkerBounds ==
  ASSUME IInv, Bounded,
         \/ Install \/ WorkerStops \/ SetCaptureEnabled \/ Tick \/ Drain
         \/ \E s \in Sub : VerdictShown(s)
  PROVE  Bounded'
<1>1. Pruned \in Sessions /\ Sized(Pruned) /\ Within(Pruned.lcs, polls)
  BY PrunedTypes, PrunedBounded
<1>2. /\ session \in Sessions /\ Sized(session) /\ Within(session.lcs, polls)
      /\ Small(local.tombs, MaxTombs) /\ local \in Stores /\ now \in Nat
      /\ stops \in 0 .. MaxStops /\ MaxStops \in Nat /\ MaxTime \in Nat
      /\ up \in BOOLEAN /\ enabled \in BOOLEAN
  BY Caps DEF IInv, Types, Bounded
<1>3. UNCHANGED <<setup, page, polls>> /\ now' \in {now, now + 1} /\ now' <= MaxTime
  BY <1>2 DEF Install, WorkerStops, SetCaptureEnabled, Tick, Drain, VerdictShown, browser,
     Bounded
<1>4. enabled' \in BOOLEAN /\ up' \in BOOLEAN /\ stops' \in 0 .. MaxStops
  <2>1. enabled' = enabled \/ enabled' = ~enabled
    BY DEF Install, WorkerStops, SetCaptureEnabled, Tick, Drain, VerdictShown
  <2>2. up' = up \/ up' = TRUE \/ up' = FALSE
    BY DEF Install, WorkerStops, SetCaptureEnabled, Tick, Drain, VerdictShown, Stopped
  <2>3. stops' = stops \/ (stops < MaxStops /\ stops' = stops + 1)
    BY DEF Install, WorkerStops, SetCaptureEnabled, Tick, Drain, VerdictShown, Stopped
  <2>4. stops' \in 0 .. MaxStops
    BY <1>2, <2>3
  <2>5. enabled' \in BOOLEAN
    BY <2>1, <1>2
  <2>6. up' \in BOOLEAN
    BY <2>2, <1>2
  <2> QED
    BY <2>4, <2>5, <2>6
<1>5. Pacing
  BY <1>2, <1>3, <1>4 DEF Pacing, Bounded, IInv, Types
<1>6. local'.tombs = local.tombs
  <2>1. CASE Drain
    BY <1>2, <2>1 DEF Drain, Stores
  <2> QED
    BY <2>1 DEF Install, WorkerStops, SetCaptureEnabled, Tick, VerdictShown
<1>7. /\ session'.parked \subseteq session.parked /\ session'.cands \subseteq session.cands
      /\ session'.lcs \subseteq session.lcs
  <2>1. /\ Pruned.parked \subseteq session.parked /\ Pruned.cands \subseteq session.cands
        /\ Pruned.lcs \subseteq session.lcs
    BY DEF Pruned
  <2>2. CASE Reinstalled
    <3>1. Kept(Pruned.cands, Pruned.lcs, local.confirmed) \subseteq Pruned.cands
      BY DEF Kept
    <3>2. /\ session'.parked = Pruned.parked /\ session'.lcs = Pruned.lcs
          /\ session'.cands = Kept(Pruned.cands, Pruned.lcs, local.confirmed)
      BY <1>1, <2>2, SessionParts DEF Reinstalled
    <3> QED
      BY <2>1, <3>1, <3>2
  <2>3. CASE session' \in {session, Pruned}
    BY <2>1, <2>3
  <2> QED
    BY <2>2, <2>3 DEF Install, WorkerStops, SetCaptureEnabled, Tick, Drain, VerdictShown
<1>8. Sized(session')
  BY <1>2, <1>7, ShrunkSized
<1>9. Sized(session)' /\ Small(local.tombs, MaxTombs)'
  BY <1>2, <1>6, <1>8 DEF Sized
<1>10. session'.lcs \subseteq Lifecycles /\ Within(session'.lcs, polls)
  BY <1>2, <1>7, SessionParts DEF Within
<1> QED
  BY <1>4, <1>5, <1>9, <1>10, BoundsKept

LEMMA BoundedTypes ==
  ASSUME IInv, Bounded
  PROVE  TypeOK
<1>1. /\ session.lcs \subseteq Lifecycles /\ session.parked \subseteq Verdicts
      /\ session.cands \subseteq Candidates /\ Matching(session)
      /\ local.tombs \subseteq Tombs /\ local.outbox \subseteq Bundles
      /\ polls \in [Sub -> Nat] /\ now \in Nat
      /\ built \in [Sub -> Nat] /\ evicted \in [Sub -> Nat]
  BY SessionParts DEF IInv, Types, Stores
<1>2. \A s \in Sub : setup[s].polls \in Nat
  BY OrchestratorAssumption DEF IInv, Types
<1>3. \A s \in Sub : polls[s] \in 0 .. setup[s].polls
  BY <1>1, <1>2 DEF Bounded
<1>4. now \in 0 .. MaxTime /\ stops \in 0 .. MaxStops
  BY <1>1, Caps DEF Bounded
<1>5. ASSUME NEW e \in session.lcs
      PROVE  /\ e.req[1] \in Sub /\ e.req[2] \in 0 .. polls[e.req[1]] /\ e.at \in 0 .. now
             /\ e.done \in BOOLEAN
             /\ e.out \in {"pending", "flawed", "matched", "error"}
             /\ e.sid \in Sub \cup {None}
  <2>1. /\ e.req[1] \in Sub /\ e.req[2] \in Nat /\ e.at \in Nat /\ e.done \in BOOLEAN
        /\ e.out \in {"pending", "flawed", "matched", "error"} /\ e.sid \in Sub \cup {None}
    BY <1>1 DEF Lifecycles, Requests
  <2>2. e.req[2] <= polls[e.req[1]] /\ e.at <= now /\ polls[e.req[1]] \in Nat
    BY <1>1, <2>1 DEF Bounded, Within
  <2> QED
    BY <1>1, <2>1, <2>2
<1>6. \A x \in session.parked \cup session.cands : x.sub \in Sub
  BY <1>1 DEF Verdicts, Candidates
<1>7. Tombed(local.tombs) \subseteq Sub /\ \A b \in local.outbox : b.sub \in Sub /\ b.of \in Sub
  BY <1>1 DEF Tombed, Tombs, Bundles
<1> QED
  BY <1>1, <1>3, <1>4, <1>5, <1>6, <1>7 DEF TypeOK, Bounded, Sized, Small, Pages

(* Every variable keeps its type, a parked verdict or a candidate never    *)
(* outgrows its slice nor the tombstones theirs, and no observed request   *)
(* is from the future or beyond its page's polls.                          *)
THEOREM OrchestratorTypeCorrect == Spec => []TypeOK
<1>1. Init => IInv /\ Bounded
  <2> SUFFICES ASSUME Init PROVE IInv /\ Bounded
    OBVIOUS
  <2>1. /\ session.lcs = {} /\ session.parked = {} /\ session.cands = {}
        /\ local.tombs = {}
    BY DEF Init, NoEvidence
  <2>2. IsFiniteSet({}) /\ Cardinality({}) = 0
    BY FS_EmptySet
  <2>3. Small({}, Cap) /\ Small({}, MaxTombs)
    BY <2>2, Caps DEF Small
  <2>4. Sized(session) /\ Small(local.tombs, MaxTombs) /\ Within(session.lcs, polls)
    BY <2>1, <2>3 DEF Sized, Within
  <2>5. page \in [Sub -> Pages] /\ now <= MaxTime /\ stops \in 0 .. MaxStops
          /\ enabled \in BOOLEAN /\ up \in BOOLEAN
    <3>1. page = [s \in Sub |-> "idle"] /\ "idle" \in Pages
      BY DEF Init, Pages
    <3>2. page \in [Sub -> Pages]
      BY <3>1
    <3>3. now = 0 /\ stops = 0 /\ enabled = TRUE /\ up = FALSE
      BY DEF Init
    <3>4. now <= MaxTime /\ stops \in 0 .. MaxStops
      BY <3>3, Caps
    <3>5. enabled \in BOOLEAN /\ up \in BOOLEAN
      BY <3>3
    <3> QED
      BY <3>2, <3>4, <3>5
  <2>6. \A s \in Sub : polls[s] <= setup[s].polls
    BY OrchestratorAssumption DEF Init
  <2> QED
    BY <2>4, <2>5, <2>6, InitInv DEF Bounded
<1>2. IInv /\ Bounded /\ [Next]_vars => (IInv /\ Bounded)'
  <2> SUFFICES ASSUME IInv, Bounded, [Next]_vars
               PROVE  (IInv /\ Bounded)'
    OBVIOUS
  <2>1. IInv'
    BY NextStep
  <2>2. CASE Next
    BY <2>1, <2>2, PageBounds, WorkBounds, WorkerBounds DEF Next
  <2>3. CASE UNCHANGED vars
    BY <2>1, <2>3 DEF vars, Bounded, Sized, Within
  <2> QED
    BY <2>2, <2>3
<1>3. IInv /\ Bounded => TypeOK
  BY BoundedTypes
<1> QED
  BY <1>1, <1>2, <1>3, PTL DEF Spec
-----------------------------------------------------------------------------
(* What a candidate resolves to: the verdict of the one request it selects,*)
(* if that was matched to a confirmed submission that fits.                *)
Keyed(lcs) == \A e, f \in lcs : e.req = f.req => e = f

Fit(c, e) == DocOf(e) = Doc(c.sub) /\ IsSubmit(e) /\ Prob(e.req[1]) = Prob(c.sub)

Selects(c, lcs, e) ==
  /\ e \in lcs /\ e.done /\ e.at <= c.at
  /\ c.req # NoRequest => e.req = c.req
  /\ c.req = NoRequest =>
       /\ Fit(c, e)
       /\ \A f \in lcs : Fit(c, f) => f.at <= c.at /\ (f.done => f.at < e.at \/ f = e)

Joins(c, e, confirmed) ==
  /\ e.out = "matched" /\ confirmed[e.sid] # None
  /\ confirmed[e.sid].prob = Prob(c.sub) /\ ~(confirmed[e.sid].at > c.at)
  /\ c.req # NoRequest =>
       ~(IF IsSubmit(e) THEN Prob(e.req[1]) # Prob(c.sub) ELSE e.sid # e.req[1])

JoinOf(c, s) == [sub |-> s, at |-> c.at, prob |-> Prob(c.sub), of |-> c.sub, cand |-> TRUE]

Undecided == {Pending, Terminal}

LEMMA JoinApart ==
  ASSUME NEW c, NEW s
  PROVE  JoinOf(c, s) \notin Undecided
<1>1. "join" \notin DOMAIN JoinOf(c, s)
  BY DEF JoinOf
<1>2. "join" \in DOMAIN Pending /\ "join" \in DOMAIN Terminal
  BY DEF Pending, Terminal
<1> QED
  BY <1>1, <1>2 DEF Undecided

LEMMA JoinCases ==
  ASSUME NEW c, NEW e, NEW confirmed
  PROVE  /\ JoinConfirmed(c, e, confirmed) \notin Undecided =>
              /\ e.out = "matched" /\ confirmed[e.sid] # None
              /\ confirmed[e.sid].prob = Prob(c.sub) /\ ~(confirmed[e.sid].at > c.at)
              /\ JoinConfirmed(c, e, confirmed) = JoinOf(c, e.sid)
         /\ Joins(c, e, confirmed) => JoinConfirmed(c, e, confirmed) = JoinOf(c, e.sid)
  BY DEF JoinConfirmed, Joins, JoinOf, Undecided

LEMMA ArmedResolves ==
  ASSUME NEW c \in Candidates, c.req # NoRequest, NEW lcs \in SUBSET Lifecycles, Keyed(lcs),
         NEW confirmed
  PROVE  /\ ReconcileArmed(c, lcs, confirmed) \notin Undecided =>
              \E e \in lcs : /\ Selects(c, lcs, e) /\ Joins(c, e, confirmed)
                             /\ ReconcileArmed(c, lcs, confirmed) = JoinOf(c, e.sid)
         /\ \A e \in lcs : Selects(c, lcs, e) /\ Joins(c, e, confirmed) =>
              ReconcileArmed(c, lcs, confirmed) = JoinOf(c, e.sid)
<1> DEFINE named == {e \in lcs : e.req = c.req}
           e0 == CHOOSE x \in named : TRUE
<1>1. \A e \in lcs : e.req = c.req => e = e0 /\ e0 \in named
  BY DEF Keyed
<1>2. named # {} => e0 \in lcs /\ e0.req = c.req
  OBVIOUS
<1>3. ReconcileArmed(c, lcs, confirmed) =
        IF named = {} THEN Pending
        ELSE IF e0.at > c.at THEN Terminal
        ELSE IF ~e0.done THEN Pending
        ELSE IF /\ e0.out = "matched" /\ confirmed[e0.sid] # None
                /\ IF IsSubmit(e0) THEN Prob(e0.req[1]) # Prob(c.sub) ELSE e0.sid # e0.req[1]
             THEN Terminal
             ELSE JoinConfirmed(c, e0, confirmed)
  BY DEF ReconcileArmed
<1>4. \A e \in lcs : e.at \in Nat /\ e.done \in BOOLEAN
  BY DEF Lifecycles
<1>5. c.at \in Nat
  BY DEF Candidates
<1>6. Pending \in Undecided /\ Terminal \in Undecided
  BY DEF Undecided
<1>7. ASSUME ReconcileArmed(c, lcs, confirmed) \notin Undecided
      PROVE  \E e \in lcs : /\ Selects(c, lcs, e) /\ Joins(c, e, confirmed)
                            /\ ReconcileArmed(c, lcs, confirmed) = JoinOf(c, e.sid)
  <2> HIDE DEF e0
  <2>1. /\ named # {} /\ ~(e0.at > c.at) /\ e0.done
        /\ ~(/\ e0.out = "matched" /\ confirmed[e0.sid] # None
             /\ IF IsSubmit(e0) THEN Prob(e0.req[1]) # Prob(c.sub) ELSE e0.sid # e0.req[1])
        /\ ReconcileArmed(c, lcs, confirmed) = JoinConfirmed(c, e0, confirmed)
    BY <1>3, <1>6, <1>7
  <2>2. /\ e0.out = "matched" /\ confirmed[e0.sid] # None
        /\ confirmed[e0.sid].prob = Prob(c.sub) /\ ~(confirmed[e0.sid].at > c.at)
        /\ JoinConfirmed(c, e0, confirmed) = JoinOf(c, e0.sid)
    BY <1>7, <2>1, JoinCases
  <2>3. Joins(c, e0, confirmed)
    BY <2>1, <2>2 DEF Joins
  <2>4. e0 \in lcs /\ e0.req = c.req /\ e0.at <= c.at
    BY <1>2, <1>4, <1>5, <2>1
  <2>5. Selects(c, lcs, e0)
    BY <2>1, <2>4 DEF Selects
  <2> QED
    BY <2>1, <2>2, <2>3, <2>4, <2>5
<1>8. ASSUME NEW e \in lcs, Selects(c, lcs, e), Joins(c, e, confirmed)
      PROVE  ReconcileArmed(c, lcs, confirmed) = JoinOf(c, e.sid)
  <2>1. e = e0 /\ named # {} /\ e.at <= c.at /\ e.done
    BY <1>1, <1>8 DEF Selects
  <2> HIDE DEF e0, named
  <2>2. ~(e0.at > c.at)
    BY <1>4, <1>5, <2>1
  <2>3. ~(IF IsSubmit(e0) THEN Prob(e0.req[1]) # Prob(c.sub) ELSE e0.sid # e0.req[1])
    BY <1>8, <2>1 DEF Joins
  <2>4. ReconcileArmed(c, lcs, confirmed) = JoinConfirmed(c, e0, confirmed)
    BY <1>3, <2>1, <2>2, <2>3
  <2> QED
    BY <1>8, <2>1, <2>4, JoinCases
<1> QED
  BY <1>7, <1>8

LEMMA LegacyResolves ==
  ASSUME NEW c \in Candidates, c.req = NoRequest, NEW lcs \in SUBSET Lifecycles,
         NEW confirmed
  PROVE  /\ ReconcileLegacy(c, lcs, confirmed) \notin Undecided =>
              \E e \in lcs : /\ Selects(c, lcs, e) /\ Joins(c, e, confirmed)
                             /\ ReconcileLegacy(c, lcs, confirmed) = JoinOf(c, e.sid)
         /\ \A e \in lcs : Selects(c, lcs, e) /\ Joins(c, e, confirmed) =>
              ReconcileLegacy(c, lcs, confirmed) = JoinOf(c, e.sid)
<1> DEFINE fits == {e \in lcs : Fit(c, e)}
           eligible == {e \in fits : e.done /\ e.at <= c.at}
           latest == {e \in eligible : \A f \in eligible : f.at <= e.at}
           e0 == CHOOSE e \in latest : TRUE
<1>1. ReconcileLegacy(c, lcs, confirmed) =
        IF \E e \in fits : e.at > c.at THEN Terminal
        ELSE IF latest = {} THEN Pending
        ELSE IF \E e, f \in latest : e # f THEN Terminal
        ELSE JoinConfirmed(c, e0, confirmed)
  BY DEF ReconcileLegacy, Fit
<1>2. \A e \in lcs : e.at \in Nat /\ e.done \in BOOLEAN
  BY DEF Lifecycles
<1>3. c.at \in Nat
  BY DEF Candidates
<1>4. Pending \in Undecided /\ Terminal \in Undecided
  BY DEF Undecided
<1>5. latest # {} => e0 \in latest
  OBVIOUS
<1>6. ASSUME ReconcileLegacy(c, lcs, confirmed) \notin Undecided
      PROVE  \E e \in lcs : /\ Selects(c, lcs, e) /\ Joins(c, e, confirmed)
                            /\ ReconcileLegacy(c, lcs, confirmed) = JoinOf(c, e.sid)
  <2> HIDE DEF e0
  <2>1. /\ ~\E e \in fits : e.at > c.at
        /\ latest # {} /\ ~\E e, f \in latest : e # f
        /\ ReconcileLegacy(c, lcs, confirmed) = JoinConfirmed(c, e0, confirmed)
    BY <1>1, <1>4, <1>6
  <2>2. /\ e0.out = "matched" /\ confirmed[e0.sid] # None
        /\ confirmed[e0.sid].prob = Prob(c.sub) /\ ~(confirmed[e0.sid].at > c.at)
        /\ JoinConfirmed(c, e0, confirmed) = JoinOf(c, e0.sid)
    BY <1>6, <2>1, JoinCases
  <2>3. Joins(c, e0, confirmed)
    BY <2>2 DEF Joins
  <2>4. /\ e0 \in latest /\ e0 \in lcs /\ Fit(c, e0) /\ e0.done /\ e0.at <= c.at
    BY <1>5, <2>1
  <2>5. ASSUME NEW f \in lcs, Fit(c, f)
        PROVE  f.at <= c.at /\ (f.done => f.at < e0.at \/ f = e0)
    <3>1. f.at <= c.at
      BY <1>2, <1>3, <2>1, <2>5
    <3>2. ASSUME f.done, ~(f.at < e0.at) PROVE f = e0
      <4>1. f \in eligible /\ f.at <= e0.at
        BY <2>4, <2>5, <3>1, <3>2
      <4>2. f.at = e0.at
        BY <1>2, <2>4, <3>2, <4>1
      <4>3. f \in latest
        BY <2>4, <4>1, <4>2
      <4> QED
        BY <2>1, <2>4, <4>3
    <3> QED
      BY <3>1, <3>2
  <2>6. Selects(c, lcs, e0)
    BY <2>4, <2>5 DEF Selects
  <2> QED
    BY <2>1, <2>2, <2>3, <2>4, <2>6
<1>7. ASSUME NEW e \in lcs, Selects(c, lcs, e), Joins(c, e, confirmed)
      PROVE  ReconcileLegacy(c, lcs, confirmed) = JoinOf(c, e.sid)
  <2>1. /\ e.done /\ e.at <= c.at /\ Fit(c, e)
        /\ \A f \in lcs : Fit(c, f) => f.at <= c.at /\ (f.done => f.at < e.at \/ f = e)
    BY <1>7 DEF Selects
  <2>2. ~\E f \in fits : f.at > c.at
    BY <1>2, <1>3, <2>1
  <2>3. e \in eligible
    BY <2>1
  <2>4. \A f \in eligible : f.at < e.at \/ f = e
    BY <2>1
  <2>5. e \in latest
    BY <1>2, <2>3, <2>4
  <2>6. \A f \in latest : f = e
    BY <1>2, <2>3, <2>4
  <2>7. e0 = e
    BY <1>5, <2>5, <2>6
  <2> HIDE DEF e0, latest, fits
  <2>8. ReconcileLegacy(c, lcs, confirmed) = JoinConfirmed(c, e, confirmed)
    BY <1>1, <2>2, <2>5, <2>6, <2>7
  <2> QED
    BY <1>7, <2>8, JoinCases
<1> QED
  BY <1>6, <1>7

LEMMA Resolves ==
  ASSUME NEW c \in Candidates, NEW lcs \in SUBSET Lifecycles, Keyed(lcs), NEW confirmed
  PROVE  /\ Reconcile(c, lcs, confirmed) \notin Undecided =>
              /\ ~Expired(c.at, E1Ttl)
              /\ \E e \in lcs : /\ Selects(c, lcs, e) /\ Joins(c, e, confirmed)
                                /\ Reconcile(c, lcs, confirmed) = JoinOf(c, e.sid)
         /\ \A e \in lcs :
              ~Expired(c.at, E1Ttl) /\ Selects(c, lcs, e) /\ Joins(c, e, confirmed) =>
                Reconcile(c, lcs, confirmed) = JoinOf(c, e.sid)
<1>1. CASE Expired(c.at, E1Ttl)
  BY <1>1 DEF Reconcile, Undecided
<1>2. CASE ~Expired(c.at, E1Ttl) /\ c.req # NoRequest
  <2>1. Reconcile(c, lcs, confirmed) = ReconcileArmed(c, lcs, confirmed)
    BY <1>2 DEF Reconcile
  <2> QED
    BY <1>2, <2>1, ArmedResolves
<1>3. CASE ~Expired(c.at, E1Ttl) /\ c.req = NoRequest
  <2>1. Reconcile(c, lcs, confirmed) = ReconcileLegacy(c, lcs, confirmed)
    BY <1>3 DEF Reconcile
  <2> QED
    BY <1>3, <2>1, LegacyResolves
<1> QED
  BY <1>1, <1>2, <1>3

(* A result that rests on a request the other requests and records select  *)
(* and join as well is their result.                                       *)
LEMMA SameResult ==
  ASSUME NEW c \in Candidates, NEW lcs \in SUBSET Lifecycles, Keyed(lcs), NEW confirmed,
         NEW less \in SUBSET Lifecycles, Keyed(less), NEW known,
         Reconcile(c, less, known) \notin Undecided,
         \A e \in less : Selects(c, less, e) /\ Joins(c, e, known)
                         /\ Reconcile(c, less, known) = JoinOf(c, e.sid) =>
           e \in lcs /\ Selects(c, lcs, e) /\ Joins(c, e, confirmed)
  PROVE  Reconcile(c, lcs, confirmed) = Reconcile(c, less, known)
<1>1. ~Expired(c.at, E1Ttl)
  BY Resolves
<1>2. PICK e \in less : /\ Selects(c, less, e) /\ Joins(c, e, known)
                        /\ Reconcile(c, less, known) = JoinOf(c, e.sid)
  BY Resolves
<1> QED
  BY <1>1, <1>2, Resolves

(* What stored evidence looks like: one lifecycle of a request, matched    *)
(* only when done, and within its document.                                *)
Shape(ses) ==
  /\ Keyed(ses.lcs)
  /\ \A e \in ses.lcs : IF e.out = "matched"
                        THEN e.done /\ (DocOf(e) = "lc" => Doc(e.sid) = "lc")
                        ELSE e.sid = None
  /\ \A c \in ses.cands : Doc(c.sub) = "lc" /\ (c.req # NoRequest => c.req[1] = c.sub)

LEMMA PrunedShape ==
  ASSUME Shape(session)
  PROVE  Shape(Pruned)
<1>1. Pruned.lcs \subseteq session.lcs /\ Pruned.cands \subseteq session.cands
  BY DEF Pruned
<1> HIDE DEF Pruned
<1> QED
  BY <1>1 DEF Shape, Keyed

(* What outlived its TTL did not decide what has not.                      *)
LEMMA PrunedSame ==
  ASSUME IInv, Shape(session), NEW c \in Pruned.cands, NEW confirmed,
         Reconcile(c, Pruned.lcs, confirmed) \notin Undecided
  PROVE  Reconcile(c, session.lcs, confirmed) = Reconcile(c, Pruned.lcs, confirmed)
<1>1. /\ Pruned.lcs \subseteq session.lcs /\ Pruned.lcs \subseteq Lifecycles
      /\ session.lcs \subseteq Lifecycles /\ c \in Candidates /\ ~Expired(c.at, E1Ttl)
      /\ \A f \in session.lcs : f \notin Pruned.lcs => Expired(f.at, E1Ttl)
      /\ \A f \in Pruned.lcs : ~Expired(f.at, E1Ttl)
  BY SessionParts DEF Pruned, IInv, Types
<1>2. PICK lcs \in SUBSET Lifecycles : lcs = session.lcs
  BY <1>1
<1>3. PICK less \in SUBSET Lifecycles : less = Pruned.lcs
  BY <1>1
<1>4. Keyed(lcs) /\ Keyed(less)
  BY <1>1, <1>2, <1>3 DEF Shape, Keyed
<1>5. ASSUME NEW e \in less, Selects(c, less, e)
      PROVE  Selects(c, lcs, e)
  <2>1. ASSUME c.req = NoRequest, NEW f \in lcs, Fit(c, f)
        PROVE  f.at <= c.at /\ (f.done => f.at < e.at \/ f = e)
    <3>1. CASE f \in less
      BY <1>5, <2>1, <3>1 DEF Selects
    <3>2. CASE f \notin less
      <4>1. Expired(f.at, E1Ttl) /\ ~Expired(c.at, E1Ttl) /\ ~Expired(e.at, E1Ttl)
        BY <1>1, <1>2, <1>3, <3>2
      <4>2. f.at \in Nat /\ c.at \in Nat /\ e.at \in Nat /\ now \in Nat /\ E1Ttl \in Nat
        BY <1>1, OrchestratorAssumption DEF Lifecycles, Candidates, IInv, Types
      <4> QED
        BY <4>1, <4>2 DEF Expired
    <3> QED
      BY <3>1, <3>2
  <2> QED
    BY <1>1, <1>2, <1>3, <1>5, <2>1 DEF Selects
<1>6. Reconcile(c, less, confirmed) \notin Undecided
  BY <1>3
<1>7. \A e \in less : Selects(c, less, e) => e \in lcs /\ Selects(c, lcs, e)
  BY <1>1, <1>2, <1>3, <1>5
<1>8. Reconcile(c, lcs, confirmed) = Reconcile(c, less, confirmed)
  BY <1>1, <1>4, <1>6, <1>7, SameResult
<1> QED
  BY <1>2, <1>3, <1>8

(* Whatever else is confirmed, a result of another submission was there.   *)
LEMMA OthersSame ==
  ASSUME NEW s, NEW c \in Candidates, NEW lcs \in SUBSET Lifecycles, Keyed(lcs),
         \A e \in lcs : e.out = "matched" => e.sid \in Sub,
         NEW confirmed, NEW known, \A t \in Sub \ {s} : known[t] = confirmed[t],
         Reconcile(c, lcs, known) \notin Undecided, Reconcile(c, lcs, known).sub # s
  PROVE  Reconcile(c, lcs, confirmed) = Reconcile(c, lcs, known)
<1>1. ASSUME NEW e \in lcs, Selects(c, lcs, e), Joins(c, e, known),
             Reconcile(c, lcs, known) = JoinOf(c, e.sid)
      PROVE  Joins(c, e, confirmed)
  <2>1. e.sid # s /\ e.sid \in Sub
    BY <1>1 DEF JoinOf, Joins
  <2>2. known[e.sid] = confirmed[e.sid]
    BY <2>1
  <2> QED
    BY <1>1, <2>2 DEF Joins
<1> QED
  BY <1>1, SameResult

(* Forgetting a confirmation makes nothing resolvable.                     *)
LEMMA ForgottenSame ==
  ASSUME NEW c \in Candidates, NEW lcs \in SUBSET Lifecycles, Keyed(lcs),
         \A e \in lcs : e.out = "matched" => e.sid \in Sub,
         NEW confirmed, NEW known, \A t \in Sub : known[t] \in {confirmed[t], None},
         Reconcile(c, lcs, known) \notin Undecided
  PROVE  Reconcile(c, lcs, confirmed) = Reconcile(c, lcs, known)
<1>1. ASSUME NEW e \in lcs, Joins(c, e, known)
      PROVE  Joins(c, e, confirmed)
  <2>1. known[e.sid] = confirmed[e.sid]
    BY <1>1 DEF Joins
  <2> QED
    BY <1>1, <2>1 DEF Joins
<1> QED
  BY <1>1, SameResult

LEMMA MatchedKeyed ==
  ASSUME NEW s \in Sub, NEW req, NEW ses \in Sessions, Keyed(ses.lcs)
  PROVE  Keyed(Matched(s, req, ses))
<1> DEFINE tied(f) == IF f.req = req THEN [f EXCEPT !.out = "matched", !.sid = s] ELSE f
           less == Matched(s, req, ses)
           lcs == ses.lcs
<1>1. \A e \in less : \E f \in lcs : e = tied(f)
  BY DEF Matched
<1>2. \A f \in lcs : tied(f).req = f.req
  BY SessionParts DEF Lifecycles
<1> HIDE DEF tied, less
<1>3. ASSUME NEW e \in less, NEW f \in less, e.req = f.req PROVE e = f
  <2>1. PICK g \in lcs : e = tied(g)
    BY <1>1
  <2>2. PICK h \in lcs : f = tied(h)
    BY <1>1
  <2>3. g.req = h.req
    BY <1>2, <1>3, <2>1, <2>2
  <2>4. g = h
    BY <2>3 DEF Keyed
  <2> QED
    BY <2>1, <2>2, <2>4
<1> QED
  BY <1>3 DEF Keyed, less

(* Tying a request to a submission makes only that submission a result.    *)
LEMMA MatchedSame ==
  ASSUME NEW s \in Sub, NEW req, NEW ses \in Sessions, Keyed(ses.lcs),
         Matching(ses), NEW c \in Candidates, NEW confirmed,
         Reconcile(c, Matched(s, req, ses), confirmed) \notin Undecided,
         Reconcile(c, Matched(s, req, ses), confirmed).sub # s
  PROVE  Reconcile(c, ses.lcs, confirmed) = Reconcile(c, Matched(s, req, ses), confirmed)
<1> DEFINE tied(f) == IF f.req = req THEN [f EXCEPT !.out = "matched", !.sid = s] ELSE f
           less == Matched(s, req, ses)
           lcs == ses.lcs
<1>1. \A e \in less : \E f \in lcs : e = tied(f)
  BY DEF Matched
<1>2. \A f \in lcs : tied(f) \in less
  BY DEF Matched
<1>3. \A f \in lcs : /\ f \in Lifecycles /\ tied(f).req = f.req /\ tied(f).at = f.at
                     /\ tied(f).done = f.done /\ (f.req = req => tied(f).sid = s)
                     /\ (f.req # req => tied(f) = f)
  BY SessionParts DEF Lifecycles
<1> HIDE DEF tied, less, lcs
<1>4. /\ less \in SUBSET Lifecycles /\ lcs \in SUBSET Lifecycles
      /\ Keyed(lcs) /\ Keyed(less)
  BY MatchedTypes, MatchedKeyed, SessionParts DEF less, lcs
<1>5. Reconcile(c, less, confirmed) \notin Undecided /\ Reconcile(c, less, confirmed).sub # s
  BY DEF less
<1>6. ASSUME NEW e \in less, Selects(c, less, e), Joins(c, e, confirmed),
             Reconcile(c, less, confirmed) = JoinOf(c, e.sid)
      PROVE  e \in lcs /\ Selects(c, lcs, e)
  <2>1. e.sid # s
    BY <1>5, <1>6 DEF JoinOf
  <2>2. PICK g \in lcs : e = tied(g)
    BY <1>1
  <2>3. e = g /\ e \in lcs
    BY <1>3, <2>1, <2>2
  <2>4. ASSUME c.req = NoRequest, NEW f \in lcs, Fit(c, f)
        PROVE  f.at <= c.at /\ (f.done => f.at < e.at \/ f = e)
    <3>1. tied(f) \in less /\ tied(f).req = f.req /\ tied(f).at = f.at /\ tied(f).done = f.done
      BY <1>2, <1>3
    <3>2. Fit(c, tied(f))
      BY <2>4, <3>1 DEF Fit, DocOf, IsSubmit
    <3>3. f.at <= c.at /\ (f.done => f.at < e.at \/ tied(f) = e)
      BY <1>6, <2>4, <3>1, <3>2 DEF Selects
    <3>4. tied(f) = e => f.req = e.req
      BY <3>1
    <3>5. f.req = e.req => f = e
      BY <1>4, <2>3 DEF Keyed
    <3> QED
      BY <3>3, <3>4, <3>5
  <2> QED
    BY <1>6, <2>3, <2>4 DEF Selects
<1> QED
  BY <1>4, <1>5, <1>6, SameResult DEF less, lcs

(* A further signal of a request decides no candidate: what is matched is  *)
(* done already and stays as it is.                                        *)
LEMMA MergedKeeps ==
  ASSUME NEW e \in Lifecycles, NEW signal
  PROVE  /\ MergedE1(e, signal).req = e.req /\ MergedE1(e, signal).at = e.at
         /\ MergedE1(e, signal).sid = e.sid
         /\ e.done => MergedE1(e, signal).done
         /\ (MergedE1(e, signal).out = "matched") = (e.out = "matched")
         /\ e.out = "matched" /\ e.done => MergedE1(e, signal) = e
<1> DEFINE done == e.done \/ signal = "completed"
           outcome == CASE e.out = "matched" -> e.out
                        [] e.out # "matched" /\ signal = "error" -> "error"
                        [] e.out = "pending" /\ signal = "redirect" -> "flawed"
                        [] OTHER -> e.out
<1>1. e.done \in BOOLEAN /\ e.out \in {"pending", "flawed", "matched", "error"}
  BY DEF Lifecycles
<1>2. outcome = "matched" <=> e.out = "matched"
  BY <1>1
<1>3. e.done => done
  OBVIOUS
<1>4. done \in BOOLEAN
  BY <1>1
<1>5. MergedE1(e, signal) = [e EXCEPT !.done = done, !.out = outcome]
  BY DEF MergedE1
<1> HIDE DEF done, outcome
<1>6. /\ MergedE1(e, signal).req = e.req /\ MergedE1(e, signal).at = e.at
      /\ MergedE1(e, signal).sid = e.sid
      /\ MergedE1(e, signal).done = done /\ MergedE1(e, signal).out = outcome
  BY <1>5 DEF Lifecycles
<1>7. ASSUME e.out = "matched", e.done
      PROVE  MergedE1(e, signal) = e
  <2>1. done = e.done
    BY <1>1, <1>3, <1>4, <1>7
  <2>2. outcome = e.out
    BY <1>2, <1>7
  <2>3. e = [req |-> e.req, at |-> e.at, done |-> e.done, out |-> e.out, sid |-> e.sid]
    BY DEF Lifecycles
  <2> QED
    BY <1>5, <2>1, <2>2, <2>3
<1> QED
  BY <1>2, <1>3, <1>6, <1>7

Observed(req, signal, ses) ==
  LET prior == {e \in ses.lcs : e.req = req}
      merged == IF prior = {} THEN {MergedE1(Lifecycle(req, now, FALSE, "pending", None), signal)}
                ELSE {MergedE1(e, signal) : e \in prior}
  IN (ses.lcs \ prior) \cup merged

LEMMA ObservedFacts ==
  ASSUME NEW req, NEW signal, NEW ses \in Sessions, Shape(ses)
  PROVE  /\ Keyed(Observed(req, signal, ses))
         /\ \A e \in Observed(req, signal, ses) :
              IF e.out = "matched"
              THEN e \in ses.lcs /\ e.done /\ (DocOf(e) = "lc" => Doc(e.sid) = "lc")
              ELSE e.sid = None
         /\ \A f \in ses.lcs : \E e \in Observed(req, signal, ses) :
              e.req = f.req /\ e.at = f.at /\ (f.done => e.done)
<1> DEFINE prior == {e \in ses.lcs : e.req = req}
           first == MergedE1(Lifecycle(req, now, FALSE, "pending", None), signal)
           merged == IF prior = {} THEN {first} ELSE {MergedE1(e, signal) : e \in prior}
           lcs == (ses.lcs \ prior) \cup merged
<1>1. \A e \in ses.lcs : /\ e \in Lifecycles
                         /\ IF e.out = "matched"
                            THEN e.done /\ (DocOf(e) = "lc" => Doc(e.sid) = "lc")
                            ELSE e.sid = None
  BY SessionParts DEF Shape
<1>2. first.req = req /\ first.out # "matched" /\ first.sid = None
  BY DEF MergedE1, Lifecycle
<1>3. \A f \in prior : MergedE1(f, signal) \in lcs /\ f \in ses.lcs /\ f.req = req
  OBVIOUS
<1>4. \A e \in lcs : \/ e \in ses.lcs /\ e.req # req
                     \/ prior = {} /\ e = first
                     \/ \E f \in prior : e = MergedE1(f, signal)
  BY Zenon
<1>5. Observed(req, signal, ses) = lcs
  BY DEF Observed
<1>6. \A f \in ses.lcs : f.req # req => f \in lcs
  OBVIOUS
<1>7. \A e, f \in ses.lcs : e.req = f.req => e = f
  BY DEF Shape, Keyed
<1>8. prior = {} => \A f \in ses.lcs : f.req # req
  OBVIOUS
<1> HIDE DEF prior, first, merged, lcs
<1>9. ASSUME NEW e \in lcs
      PROVE  IF e.out = "matched"
             THEN e \in ses.lcs /\ e.done /\ (DocOf(e) = "lc" => Doc(e.sid) = "lc")
             ELSE e.sid = None
  <2>1. CASE e \in ses.lcs
    BY <1>1, <2>1
  <2>2. CASE e = first
    BY <1>2, <2>2
  <2>3. CASE \E f \in prior : e = MergedE1(f, signal)
    <3>1. PICK f \in prior : e = MergedE1(f, signal)
      BY <2>3
    <3>2. f \in ses.lcs /\ f \in Lifecycles
      BY <1>1, <1>3, <3>1
    <3>3. /\ e.sid = f.sid /\ (e.out = "matched") = (f.out = "matched")
          /\ f.out = "matched" /\ f.done => e = f
      BY <3>1, <3>2, MergedKeeps
    <3> QED
      BY <1>1, <3>2, <3>3
  <2> QED
    BY <1>4, <2>1, <2>2, <2>3
<1>10. ASSUME NEW e \in lcs, NEW f \in lcs, e.req = f.req PROVE e = f
  <2>1. \A g \in prior : MergedE1(g, signal).req = req
    BY <1>1, <1>3, MergedKeeps
  <2>2. CASE e.req # req
    <3>1. e \in ses.lcs /\ f \in ses.lcs
      BY <1>2, <1>4, <1>10, <2>1, <2>2
    <3> QED
      BY <1>7, <1>10, <3>1
  <2>3. CASE e.req = req
    <3>1. CASE prior = {}
      BY <1>4, <1>10, <2>3, <3>1
    <3>2. CASE prior # {}
      <4>1. PICK g \in prior : e = MergedE1(g, signal)
        BY <1>4, <2>3, <3>2
      <4>2. PICK h \in prior : f = MergedE1(h, signal)
        BY <1>4, <1>10, <2>3, <3>2
      <4>3. g = h
        BY <1>3, <1>7, <4>1, <4>2
      <4> QED
        BY <4>1, <4>2, <4>3
    <3> QED
      BY <3>1, <3>2
  <2> QED
    BY <2>2, <2>3
<1>11. ASSUME NEW f \in ses.lcs
       PROVE  \E e \in lcs : e.req = f.req /\ e.at = f.at /\ (f.done => e.done)
  <2>1. CASE f.req # req
    BY <1>6, <2>1
  <2>2. CASE f.req = req
    <3>1. f \in prior
      BY <2>2 DEF prior
    <3>2. MergedE1(f, signal) \in lcs /\ f \in Lifecycles
      BY <1>1, <1>3, <3>1
    <3> QED
      BY <3>2, MergedKeeps
  <2> QED
    BY <2>1, <2>2
<1> QED
  BY <1>5, <1>9, <1>10, <1>11 DEF Keyed

LEMMA ObservedSame ==
  ASSUME NEW req, NEW signal, NEW ses \in Sessions, Shape(ses),
         Observed(req, signal, ses) \in SUBSET Lifecycles, NEW c \in Candidates, NEW confirmed,
         Reconcile(c, Observed(req, signal, ses), confirmed) \notin Undecided
  PROVE  Reconcile(c, ses.lcs, confirmed) = Reconcile(c, Observed(req, signal, ses), confirmed)
<1> DEFINE less == Observed(req, signal, ses)
           lcs == ses.lcs
<1>1. /\ Keyed(less)
      /\ \A e \in less : e.out = "matched" => e \in lcs
      /\ \A f \in lcs : \E e \in less : e.req = f.req /\ e.at = f.at /\ (f.done => e.done)
  BY ObservedFacts
<1>2. lcs \in SUBSET Lifecycles /\ Keyed(lcs)
  BY SessionParts DEF Shape
<1>3. less \in SUBSET Lifecycles /\ Reconcile(c, less, confirmed) \notin Undecided
  OBVIOUS
<1> HIDE DEF less, lcs
<1>4. ASSUME NEW e \in less, Selects(c, less, e), Joins(c, e, confirmed)
      PROVE  e \in lcs /\ Selects(c, lcs, e)
  <2>1. e \in lcs
    BY <1>1, <1>4 DEF Joins
  <2>2. ASSUME c.req = NoRequest, NEW f \in lcs, Fit(c, f)
        PROVE  f.at <= c.at /\ (f.done => f.at < e.at \/ f = e)
    <3>1. PICK g \in less : g.req = f.req /\ g.at = f.at /\ (f.done => g.done)
      BY <1>1
    <3>2. Fit(c, g)
      BY <2>2, <3>1 DEF Fit, DocOf, IsSubmit
    <3>3. g.at <= c.at /\ (g.done => g.at < e.at \/ g = e)
      BY <1>4, <2>2, <3>2 DEF Selects
    <3>4. g = e => f = e
      BY <1>2, <2>1, <3>1 DEF Keyed
    <3> QED
      BY <3>1, <3>3, <3>4
  <2> QED
    BY <1>4, <2>1, <2>2 DEF Selects
<1>5. Reconcile(c, lcs, confirmed) = Reconcile(c, less, confirmed)
  BY <1>1, <1>2, <1>3, <1>4, SameResult
<1> QED
  BY <1>5 DEF less, lcs

(* Removing a NowCoder submission's requests decides no LeetCode candidate.*)
LEMMA ForeignSame ==
  ASSUME NEW s \in Sub, Doc(s) # "lc", NEW ses \in Sessions, Shape(ses),
         NEW c \in ses.cands, NEW less, less = {e \in ses.lcs : e.sid # s}, NEW confirmed,
         Reconcile(c, less, confirmed) \notin Undecided
  PROVE  Reconcile(c, ses.lcs, confirmed) = Reconcile(c, less, confirmed)
<1>1. /\ ses.lcs \in SUBSET Lifecycles /\ less \in SUBSET Lifecycles /\ c \in Candidates
      /\ Keyed(ses.lcs) /\ Keyed(less) /\ Doc(c.sub) = "lc"
  BY SessionParts DEF Shape, Keyed
<1>2. ASSUME NEW f \in ses.lcs, f \notin less
      PROVE  ~Fit(c, f)
  <2>1. f.sid = s
    BY <1>2
  <2>2. f.out = "matched"
    BY <2>1, NoSubmission DEF Shape
  <2>3. DocOf(f) # "lc"
    BY <2>1, <2>2 DEF Shape
  <2> QED
    BY <1>1, <2>3 DEF Fit
<1>3. ASSUME NEW e \in less, Selects(c, less, e)
      PROVE  e \in ses.lcs /\ Selects(c, ses.lcs, e)
  BY <1>2, <1>3 DEF Selects
<1> QED
  BY <1>1, <1>3, SameResult

(* Two candidates without a request and of one problem agree.              *)
LEMMA Agree ==
  ASSUME NEW c \in Candidates, NEW d \in Candidates, c.req = NoRequest, d.req = NoRequest,
         Doc(c.sub) = Doc(d.sub), Prob(c.sub) = Prob(d.sub),
         NEW lcs \in SUBSET Lifecycles, Keyed(lcs), NEW confirmed,
         Reconcile(c, lcs, confirmed) \notin Undecided,
         Reconcile(d, lcs, confirmed) \notin Undecided
  PROVE  Reconcile(c, lcs, confirmed).sub = Reconcile(d, lcs, confirmed).sub
<1>1. PICK e \in lcs : Selects(c, lcs, e) /\ Reconcile(c, lcs, confirmed) = JoinOf(c, e.sid)
  BY Resolves
<1>2. PICK f \in lcs : Selects(d, lcs, f) /\ Reconcile(d, lcs, confirmed) = JoinOf(d, f.sid)
  BY Resolves
<1>3. Fit(c, e) /\ Fit(d, f) /\ e.done /\ f.done
  BY <1>1, <1>2 DEF Selects
<1>4. Fit(c, f) /\ Fit(d, e)
  BY <1>3 DEF Fit
<1>5. (f.at < e.at \/ f = e) /\ (e.at < f.at \/ e = f)
  BY <1>1, <1>2, <1>3, <1>4 DEF Selects
<1>6. e.at \in Nat /\ f.at \in Nat
  BY DEF Lifecycles
<1>7. e = f
  BY <1>5, <1>6
<1> QED
  BY <1>1, <1>2, <1>7 DEF JoinOf

LEMMA LatestExists ==
  ASSUME NEW S \in SUBSET Lifecycles, S # {}, NEW n \in Nat, \A e \in S : e.at <= n
  PROVE  \E e \in S : \A f \in S : f.at <= e.at
<1> DEFINE T == {n - e.at : e \in S}
<1>1. \A e \in S : e.at \in Nat /\ n - e.at \in Nat
  BY DEF Lifecycles
<1>2. T \subseteq Nat /\ T # {}
  BY <1>1
<1>3. \E t \in T : \A u \in T : <<u, t>> \notin OpToRel(<, Nat)
  BY <1>2, NatLessThanWellFounded, WFMin
<1>4. PICK t \in T : \A u \in T : ~(u < t)
  BY <1>2, <1>3 DEF OpToRel
<1>5. PICK e \in S : t = n - e.at
  OBVIOUS
<1>6. ASSUME NEW f \in S PROVE f.at <= e.at
  <2>1. ~(n - f.at < n - e.at)
    BY <1>4, <1>5
  <2> QED
    BY <1>1, <2>1
<1> QED
  BY <1>6

LEMMA ArmedBy ==
  ASSUME NEW c, NEW lcs, Keyed(lcs), NEW confirmed
  PROVE  /\ (\A e \in lcs : e.req # c.req) => ReconcileArmed(c, lcs, confirmed) = Pending
         /\ \A e \in lcs : e.req = c.req =>
              ReconcileArmed(c, lcs, confirmed) =
                IF e.at > c.at THEN Terminal
                ELSE IF ~e.done THEN Pending
                ELSE IF /\ e.out = "matched" /\ confirmed[e.sid] # None
                        /\ IF IsSubmit(e) THEN Prob(e.req[1]) # Prob(c.sub) ELSE e.sid # e.req[1]
                     THEN Terminal
                     ELSE JoinConfirmed(c, e, confirmed)
<1> DEFINE named == {e \in lcs : e.req = c.req}
           e0 == CHOOSE x \in named : TRUE
<1>1. (\A e \in lcs : e.req # c.req) => named = {}
  OBVIOUS
<1>2. ASSUME NEW e \in lcs, e.req = c.req
      PROVE  named # {} /\ e0 = e
  <2>1. e \in named /\ \A f \in named : f = e
    BY <1>2 DEF Keyed
  <2> QED
    BY <2>1
<1>3. ReconcileArmed(c, lcs, confirmed) =
        IF named = {} THEN Pending
        ELSE IF e0.at > c.at THEN Terminal
        ELSE IF ~e0.done THEN Pending
        ELSE IF /\ e0.out = "matched" /\ confirmed[e0.sid] # None
                /\ IF IsSubmit(e0) THEN Prob(e0.req[1]) # Prob(c.sub) ELSE e0.sid # e0.req[1]
             THEN Terminal
             ELSE JoinConfirmed(c, e0, confirmed)
  BY DEF ReconcileArmed
<1> HIDE DEF named, e0
<1>4. ASSUME NEW e \in lcs, e.req = c.req
      PROVE  ReconcileArmed(c, lcs, confirmed) =
                IF e.at > c.at THEN Terminal
                ELSE IF ~e.done THEN Pending
                ELSE IF /\ e.out = "matched" /\ confirmed[e.sid] # None
                        /\ IF IsSubmit(e) THEN Prob(e.req[1]) # Prob(c.sub) ELSE e.sid # e.req[1]
                     THEN Terminal
                     ELSE JoinConfirmed(c, e, confirmed)
  <2>1. named # {} /\ e0 = e
    BY <1>2, <1>4
  <2> QED
    BY <1>3, <2>1
<1> QED
  BY <1>1, <1>3, <1>4

LEMMA PendingJoin ==
  ASSUME NEW c, NEW e, NEW confirmed
  PROVE  JoinConfirmed(c, e, confirmed) = Pending <=>
           (e.out # "matched" \/ confirmed[e.sid] = None)
<1>1. \A s : JoinOf(c, s) # Pending
  BY JoinApart DEF Undecided
<1>2. Terminal # Pending
  BY DEF Terminal, Pending
<1> QED
  BY <1>1, <1>2 DEF JoinConfirmed, JoinOf

(* Bundling s leaves a candidate waiting that was waiting.                 *)
LEMMA BundledWaits ==
  ASSUME NEW s \in Sub, NEW ses \in Sessions, Shape(ses), Matching(ses), NEW c \in ses.cands,
         NEW less, less = {e \in ses.lcs : e.sid # s}, NEW confirmed, NEW known,
         confirmed[s] # None, \A t \in Sub \ {s} : known[t] = confirmed[t],
         Reconcile(c, ses.lcs, confirmed) = Pending
  PROVE  Reconcile(c, less, known) = Pending
<1>1. PICK lcs \in SUBSET Lifecycles : lcs = ses.lcs
  BY SessionParts
<1>2. /\ c \in Candidates /\ less \subseteq lcs /\ Keyed(lcs) /\ Keyed(less)
      /\ \A e \in lcs : e \in Lifecycles /\ e.at \in Nat /\ c.at \in Nat
      /\ \A e \in lcs : e.sid # s => e \in less
      /\ Reconcile(c, lcs, confirmed) = Pending
  BY <1>1, SessionParts DEF Shape, Keyed, Lifecycles, Candidates
<1>3. ASSUME NEW e \in lcs, e.out = "matched" => confirmed[e.sid] = None
      PROVE  e \in less /\ (e.out = "matched" => known[e.sid] = None)
  <2>1. e.sid # s
    <3>1. CASE e.out = "matched"
      BY <1>3, <3>1
    <3>2. CASE e.out # "matched"
      BY <1>1, <3>2, NoSubmission DEF Shape
    <3> QED
      BY <3>1, <3>2
  <2>2. e.out = "matched" => e.sid \in Sub
    BY <1>1 DEF Matching
  <2> QED
    BY <1>2, <1>3, <2>1, <2>2
<1>4. Terminal # Pending
  BY DEF Terminal, Pending
<1>5. ~Expired(c.at, E1Ttl)
  BY <1>2, <1>4 DEF Reconcile
<1>6. CASE c.req # NoRequest
  <2>1. /\ Reconcile(c, lcs, confirmed) = ReconcileArmed(c, lcs, confirmed)
        /\ Reconcile(c, less, known) = ReconcileArmed(c, less, known)
    BY <1>5, <1>6 DEF Reconcile
  <2>2. CASE \A e \in lcs : e.req # c.req
    <3>1. \A e \in less : e.req # c.req
      BY <1>2, <2>2
    <3> QED
      BY <1>2, <2>1, <3>1, ArmedBy
  <2>3. ASSUME NEW e \in lcs, e.req = c.req
        PROVE  Reconcile(c, less, known) = Pending
    <3>1. ReconcileArmed(c, lcs, confirmed) =
                IF e.at > c.at THEN Terminal
                ELSE IF ~e.done THEN Pending
                ELSE IF /\ e.out = "matched" /\ confirmed[e.sid] # None
                        /\ IF IsSubmit(e) THEN Prob(e.req[1]) # Prob(c.sub) ELSE e.sid # e.req[1]
                     THEN Terminal
                     ELSE JoinConfirmed(c, e, confirmed)
      BY <1>2, <2>3, ArmedBy
    <3>2. ~(e.at > c.at)
      BY <1>2, <1>4, <2>1, <3>1
    <3>3. e.out = "matched" => e.done
      BY <1>1 DEF Shape
    <3>4. e.out = "matched" => confirmed[e.sid] = None
      <4>1. SUFFICES ASSUME e.out = "matched", confirmed[e.sid] # None PROVE FALSE
        OBVIOUS
      <4>2. JoinConfirmed(c, e, confirmed) # Pending
        BY <4>1, PendingJoin
      <4> QED
        BY <1>2, <1>4, <2>1, <3>1, <3>2, <3>3, <4>1, <4>2
    <3>5. e \in less /\ (e.out = "matched" => known[e.sid] = None)
      BY <1>3, <3>4
    <3>6. JoinConfirmed(c, e, known) = Pending
      BY <3>5, PendingJoin
    <3>7. ReconcileArmed(c, less, known) =
                IF e.at > c.at THEN Terminal
                ELSE IF ~e.done THEN Pending
                ELSE IF /\ e.out = "matched" /\ known[e.sid] # None
                        /\ IF IsSubmit(e) THEN Prob(e.req[1]) # Prob(c.sub) ELSE e.sid # e.req[1]
                     THEN Terminal
                     ELSE JoinConfirmed(c, e, known)
      BY <1>2, <2>3, <3>5, ArmedBy
    <3> QED
      BY <2>1, <3>2, <3>5, <3>6, <3>7
  <2> QED
    BY <2>2, <2>3
<1>7. CASE c.req = NoRequest
  <2> DEFINE fits(l) == {e \in l : Fit(c, e)}
             eligible(l) == {e \in fits(l) : e.done /\ e.at <= c.at}
             latest(l) == {e \in eligible(l) : \A f \in eligible(l) : f.at <= e.at}
             e0(l) == CHOOSE e \in latest(l) : TRUE
  <2>1. ASSUME NEW l, NEW conf
        PROVE  Reconcile(c, l, conf) =
                 IF \E e \in fits(l) : e.at > c.at THEN Terminal
                 ELSE IF latest(l) = {} THEN Pending
                 ELSE IF \E e, f \in latest(l) : e # f THEN Terminal
                 ELSE JoinConfirmed(c, e0(l), conf)
    BY <1>5, <1>7 DEF Reconcile, ReconcileLegacy, Fit
  <2>2. fits(less) \subseteq fits(lcs) /\ eligible(less) \subseteq eligible(lcs)
    BY <1>2
  <2>3. ~\E e \in fits(lcs) : e.at > c.at
    BY <1>2, <1>4, <2>1
  <2>4. ~\E e \in fits(less) : e.at > c.at
    BY <2>2, <2>3
  <2>5. CASE latest(lcs) = {}
    <3>1. eligible(lcs) = {}
      <4>1. SUFFICES ASSUME eligible(lcs) # {} PROVE FALSE
        OBVIOUS
      <4>2. PICK S \in SUBSET Lifecycles : S = eligible(lcs)
        BY <1>2
      <4>3. S # {} /\ c.at \in Nat /\ \A e \in S : e.at <= c.at
        BY <1>2, <4>1, <4>2
      <4>4. \E e \in S : \A f \in S : f.at <= e.at
        BY <4>3, LatestExists
      <4> QED
        BY <2>5, <4>2, <4>4
    <3>2. latest(less) = {}
      BY <2>2, <3>1
    <3> QED
      BY <2>1, <2>4, <3>2
  <2>6. CASE latest(lcs) # {}
    <3>1. /\ ~\E e, f \in latest(lcs) : e # f
          /\ JoinConfirmed(c, e0(lcs), confirmed) = Pending
      BY <1>2, <1>4, <2>1, <2>3, <2>6
    <3>2. PICK e \in latest(lcs) : e = e0(lcs)
      BY <2>6
    <3>3. \A f \in latest(lcs) : f = e
      BY <3>1
    <3>4. e.out = "matched" => confirmed[e.sid] = None
      BY <3>1, <3>2, PendingJoin
    <3>5. e \in less /\ (e.out = "matched" => known[e.sid] = None)
      BY <1>3, <3>4
    <3>6. e \in latest(less)
      BY <2>2, <3>5
    <3>7. \A f \in latest(less) : f = e
      <4>1. SUFFICES ASSUME NEW f \in latest(less) PROVE f = e
        OBVIOUS
      <4>2. f \in eligible(lcs) /\ e.at <= f.at
        BY <2>2, <3>6
      <4>3. \A g \in eligible(lcs) : g.at <= f.at
        <5>1. SUFFICES ASSUME NEW g \in eligible(lcs) PROVE g.at <= f.at
          OBVIOUS
        <5>2. g.at <= e.at /\ g.at \in Nat /\ e.at \in Nat /\ f.at \in Nat
          BY <1>2, <4>2
        <5> QED
          BY <4>2, <5>2
      <4> QED
        BY <3>3, <4>2, <4>3
    <3>8. e0(less) = e
      BY <3>6, <3>7
    <3>9. JoinConfirmed(c, e, known) = Pending
      BY <3>5, PendingJoin
    <3> HIDE DEF fits, eligible, latest, e0
    <3> QED
      BY <2>1, <2>4, <3>6, <3>7, <3>8, <3>9
  <2> QED
    BY <2>5, <2>6
<1> QED
  BY <1>1, <1>6, <1>7

(* Of the candidates that were about to be joined to s only those without  *)
(* a request can be joined again, and they are of its problem.             *)
LEMMA BundledRest ==
  ASSUME NEW s \in Sub, NEW ses \in Sessions, Shape(ses), NEW c \in ses.cands,
         NEW less, less = {e \in ses.lcs : e.sid # s}, NEW confirmed, NEW known,
         Reconcile(c, ses.lcs, confirmed) \notin Undecided,
         Reconcile(c, ses.lcs, confirmed).sub = s
  PROVE  /\ Prob(c.sub) = confirmed[s].prob
         /\ Reconcile(c, less, known) \notin Undecided => c.req = NoRequest
<1>1. /\ ses.lcs \in SUBSET Lifecycles /\ less \in SUBSET Lifecycles /\ c \in Candidates
      /\ Keyed(ses.lcs) /\ Keyed(less)
  BY SessionParts DEF Shape, Keyed
<1>2. PICK e \in ses.lcs : /\ Selects(c, ses.lcs, e) /\ Joins(c, e, confirmed)
                           /\ Reconcile(c, ses.lcs, confirmed) = JoinOf(c, e.sid)
  BY <1>1, Resolves
<1>3. e.sid = s
  BY <1>2 DEF JoinOf
<1>4. ASSUME Reconcile(c, less, known) \notin Undecided, c.req # NoRequest PROVE FALSE
  <2>1. PICK f \in less : Selects(c, less, f)
    BY <1>1, <1>4, Resolves
  <2>2. f.req = e.req /\ f \in ses.lcs
    BY <1>2, <1>4, <2>1 DEF Selects
  <2>3. f = e
    BY <1>1, <2>2 DEF Keyed
  <2> QED
    BY <1>3, <2>3
<1> QED
  BY <1>2, <1>3, <1>4 DEF Joins

(* A record that is added takes no candidate from the undecided ones.      *)
LEMMA ConfirmedLess ==
  ASSUME NEW c \in Candidates, NEW lcs \in SUBSET Lifecycles, Keyed(lcs),
         NEW confirmed, NEW known, \A e \in lcs : e.out = "matched" => e.sid \in Sub,
         \A t \in Sub : confirmed[t] # None => known[t] = confirmed[t],
         Reconcile(c, lcs, known) # Terminal
  PROVE  \/ Reconcile(c, lcs, confirmed) = Pending
         \/ Reconcile(c, lcs, confirmed) = Reconcile(c, lcs, known)
<1>1. ASSUME NEW e \in lcs
      PROVE  \/ JoinConfirmed(c, e, confirmed) = Pending
             \/ JoinConfirmed(c, e, confirmed) = JoinConfirmed(c, e, known)
  BY DEF JoinConfirmed
<1>2. CASE Expired(c.at, E1Ttl)
  BY <1>2 DEF Reconcile
<1>3. CASE ~Expired(c.at, E1Ttl) /\ c.req # NoRequest
  <2>1. \A conf : Reconcile(c, lcs, conf) = ReconcileArmed(c, lcs, conf)
    BY <1>3 DEF Reconcile
  <2>2. CASE \A e \in lcs : e.req # c.req
    BY <2>1, <2>2, ArmedBy
  <2>3. ASSUME NEW e \in lcs, e.req = c.req
        PROVE  \/ Reconcile(c, lcs, confirmed) = Pending
               \/ Reconcile(c, lcs, confirmed) = Reconcile(c, lcs, known)
    <3>1. ASSUME NEW conf
          PROVE  Reconcile(c, lcs, conf) =
                IF e.at > c.at THEN Terminal
                ELSE IF ~e.done THEN Pending
                ELSE IF /\ e.out = "matched" /\ conf[e.sid] # None
                        /\ IF IsSubmit(e) THEN Prob(e.req[1]) # Prob(c.sub) ELSE e.sid # e.req[1]
                     THEN Terminal
                     ELSE JoinConfirmed(c, e, conf)
      BY <2>1, <2>3, ArmedBy
    <3>2. CASE e.at > c.at \/ ~e.done
      BY <3>1, <3>2
    <3>3. CASE ~(e.at > c.at) /\ e.done
      <4>1. CASE e.out # "matched" \/ confirmed[e.sid] = None
        <5>1. JoinConfirmed(c, e, confirmed) = Pending
          BY <4>1, PendingJoin
        <5>2. ~(e.out = "matched" /\ confirmed[e.sid] # None)
          BY <4>1
        <5> QED
          BY <3>1, <3>3, <5>1, <5>2
      <4>2. CASE e.out = "matched" /\ confirmed[e.sid] # None
        <5>1. known[e.sid] = confirmed[e.sid]
          BY <4>2
        <5>2. JoinConfirmed(c, e, confirmed) = JoinConfirmed(c, e, known)
          BY <5>1 DEF JoinConfirmed
        <5> QED
          BY <3>1, <3>3, <4>2, <5>1, <5>2
      <4> QED
        BY <4>1, <4>2
    <3> QED
      BY <3>2, <3>3
  <2> QED
    BY <2>2, <2>3
<1>4. CASE ~Expired(c.at, E1Ttl) /\ c.req = NoRequest
  <2> DEFINE fits == {e \in lcs : Fit(c, e)}
             eligible == {e \in fits : e.done /\ e.at <= c.at}
             latest == {e \in eligible : \A f \in eligible : f.at <= e.at}
             e0 == CHOOSE e \in latest : TRUE
  <2>1. ASSUME NEW conf
        PROVE  Reconcile(c, lcs, conf) =
                 IF \E e \in fits : e.at > c.at THEN Terminal
                 ELSE IF latest = {} THEN Pending
                 ELSE IF \E e, f \in latest : e # f THEN Terminal
                 ELSE JoinConfirmed(c, e0, conf)
    BY <1>4 DEF Reconcile, ReconcileLegacy, Fit
  <2>2. latest # {} => e0 \in lcs
    OBVIOUS
  <2> HIDE DEF fits, latest, e0
  <2> QED
    BY <1>1, <2>1, <2>2
<1> QED
  BY <1>2, <1>3, <1>4
-----------------------------------------------------------------------------
(* Where the candidates stand.  Between jobs each waits or is beyond       *)
(* joining; while verdicts wait in todo, they are of one submission, and a *)
(* candidate that joins has its verdict among them or, once the first is   *)
(* bundled, is dropped by its own.                                         *)
Jobs == todo \cap Verdicts

Batch(jobs) == /\ \A j \in jobs : j.cand /\ ~Expired(j.at, E1Ttl)
               /\ \A j, k \in jobs : j.sub = k.sub

Fresh(ses) == /\ \A e \in ses.lcs : ~Expired(e.at, E1Ttl)
              /\ \A c \in ses.cands : ~Expired(c.at, E1Ttl)

Taken(ses, loc, jobs) ==
  \A c \in ses.cands :
    \/ Reconcile(c, ses.lcs, loc.confirmed) = Pending
    \/ Reconcile(c, ses.lcs, loc.confirmed) \in jobs
    \/ Reconcile(c, ses.lcs, loc.confirmed) = Terminal /\ jobs = {}

Settled(ses, loc, jobs) ==
  \A c \in ses.cands :
    \/ Reconcile(c, ses.lcs, loc.confirmed) = Pending
    \/ Reconcile(c, ses.lcs, loc.confirmed) \in jobs
    \/ Reconcile(c, ses.lcs, loc.confirmed) = Terminal /\ jobs = {}
    \/ \E j \in jobs : j.of = c.sub /\ IsFinal(j.sub, loc)

(* The candidates that join do so with one submission, so that a worker    *)
(* that lost its jobs finds one batch again.                               *)
Agreed(ses, loc) ==
  \A c, d \in ses.cands :
    /\ Reconcile(c, ses.lcs, loc.confirmed) \notin Undecided
    /\ Reconcile(d, ses.lcs, loc.confirmed) \notin Undecided
    => Reconcile(c, ses.lcs, loc.confirmed).sub = Reconcile(d, ses.lcs, loc.confirmed).sub

(* What a handler starts from between jobs, and what it returns.           *)
Idle(ses) ==
  /\ Shape(ses) /\ Fresh(ses)
  /\ \A c \in ses.cands : Reconcile(c, ses.lcs, local.confirmed) \in Undecided

Kempt(out) ==
  /\ Shape(out.session) /\ Batch(out.work)
  /\ Taken(out.session, out.local, out.work)
  /\ out.work # {} => Fresh(out.session)

LEMMA LeftKempt ==
  ASSUME NEW ses, Idle(ses), NEW out, out.work = {}, out.local.confirmed = local.confirmed,
         out.session.lcs = ses.lcs, out.session.cands \subseteq ses.cands
  PROVE  Kempt(out)
<1>1. Shape(out.session)
  BY DEF Idle, Shape, Keyed
<1>2. Batch(out.work)
  BY DEF Batch
<1>3. Taken(out.session, out.local, out.work)
  BY DEF Idle, Taken, Undecided
<1> QED
  BY <1>1, <1>2, <1>3 DEF Kempt

LEMMA HandleE0Kempt ==
  ASSUME NEW s, NEW ses \in Sessions, Idle(ses), NEW out \in HandleE0(s, ses)
  PROVE  Kempt(out)
<1>1. PICK left : /\ out = Quiet(local, left)
                  /\ left.lcs = ses.lcs /\ left.cands = ses.cands
  <2>1. CASE \E h \in ses.hints : h.doc = Doc(s) /\ h.prob = Prob(s)
    BY <2>1 DEF HandleE0
  <2>2. CASE ~\E h \in ses.hints : h.doc = Doc(s) /\ h.prob = Prob(s)
    BY <2>2, SessionParts DEF HandleE0, Sessions
  <2> QED
    BY <2>1, <2>2
<1>2. out.work = {} /\ out.local = local /\ out.session = left
  BY <1>1 DEF Quiet, Outcome
<1> QED
  BY <1>1, <1>2, LeftKempt

LEMMA HandleE1Kempt ==
  ASSUME IInv, NEW req \in Requests, NEW signal, NEW ses \in Sessions, Matching(ses), Idle(ses),
         NEW out \in HandleE1(req, signal, ses)
  PROVE  Kempt(out)
<1>1. out.session \in Sessions /\ Sound(out)
  BY HandleE1Sound DEF Sound, Outcomes
<1> DEFINE lcs == Observed(req, signal, ses)
           cands == {c \in ses.cands : \/ signal = "redirect" \/ c.req # NoRequest
                                       \/ Reconcile(c, lcs, local.confirmed) # Terminal}
<1>2. out = Quiet(local, [ses EXCEPT !.lcs = lcs, !.cands = cands])
  BY DEF HandleE1, Observed
<1>3. /\ cands \subseteq ses.cands /\ cands \subseteq Candidates
  BY SessionParts
<1> HIDE DEF lcs, cands
<1>4. /\ out.work = {} /\ out.local = local
      /\ out.session.lcs = lcs /\ out.session.cands = cands
  BY <1>2 DEF Quiet, Outcome, Sessions
<1>5. lcs \in SUBSET Lifecycles
  BY <1>1, <1>4, SessionParts
<1>6. Shape(ses)
  BY DEF Idle
<1>7. Shape(out.session)
  <2>1. /\ Keyed(lcs)
        /\ \A e \in lcs : IF e.out = "matched"
                          THEN e.done /\ (DocOf(e) = "lc" => Doc(e.sid) = "lc")
                          ELSE e.sid = None
    BY <1>6, ObservedFacts DEF lcs
  <2> QED
    BY <1>3, <1>4, <1>6, <2>1 DEF Shape
<1>8. ASSUME NEW c \in cands
      PROVE  Reconcile(c, lcs, local.confirmed) \in Undecided
  <2>1. c \in ses.cands /\ c \in Candidates
    BY <1>3
  <2>2. SUFFICES ASSUME Reconcile(c, lcs, local.confirmed) \notin Undecided PROVE FALSE
    OBVIOUS
  <2>3. PICK confirmed : confirmed = local.confirmed
    OBVIOUS
  <2>4. Reconcile(c, ses.lcs, confirmed) = Reconcile(c, lcs, confirmed)
    BY <1>5, <1>6, <2>1, <2>2, <2>3, ObservedSame DEF lcs
  <2> QED
    BY <2>1, <2>2, <2>3, <2>4 DEF Idle
<1>9. Taken(out.session, out.local, out.work)
  BY <1>4, <1>8 DEF Taken, Undecided
<1>10. Batch(out.work)
  BY <1>4 DEF Batch
<1> QED
  BY <1>4, <1>7, <1>9, <1>10 DEF Kempt

(* A verdict is consumed, parked or bundled.                               *)
Consumed(e3, loc, ses, out) ==
  /\ out.local = loc /\ out.session.lcs = ses.lcs
  /\ out.session.cands = WithoutCand(e3, ses.cands)

Parked(e3, loc, ses, out) ==
  /\ out.local = loc /\ out.session.lcs = ses.lcs /\ out.session.cands = ses.cands
  /\ loc.confirmed[e3.sub] = None \/ loc.confirmed[e3.sub].prob # e3.prob

Bundled(e3, loc, ses, out) ==
  /\ loc.confirmed[e3.sub] # None
  /\ out.local.confirmed = [loc.confirmed EXCEPT ![e3.sub] = None]
  /\ [sub |-> e3.sub, fin |-> e3.at] \in out.local.tombs
  /\ out.session.lcs = {e \in ses.lcs : e.sid # e3.sub}
  /\ out.session.cands = WithoutCand(e3, ses.cands)

LEMMA HandleE3Cases ==
  ASSUME NEW e3 \in Verdicts, NEW loc \in Stores, NEW ses \in Sessions,
         NEW out \in HandleE3(e3, loc, ses)
  PROVE  /\ out.work = {}
         /\ \/ Consumed(e3, loc, ses, out)
            \/ ~IsFinal(e3.sub, loc) /\ (Parked(e3, loc, ses, out) \/ Bundled(e3, loc, ses, out))
<1> DEFINE conf == loc.confirmed[e3.sub]
           consumed == [ses EXCEPT !.cands = WithoutCand(e3, @)]
           bundled == [consumed EXCEPT !.lcs = {e \in @ : e.sid # e3.sub},
                                       !.parked = {p \in @ : p.sub # e3.sub}]
<1>1. /\ consumed.lcs = ses.lcs /\ consumed.cands = WithoutCand(e3, ses.cands)
      /\ bundled.lcs = {e \in ses.lcs : e.sid # e3.sub}
      /\ bundled.cands = WithoutCand(e3, ses.cands)
  BY DEF Sessions
<1> HIDE DEF bundled, consumed
<1>2. ASSUME NEW l, NEW left, out = Quiet(l, left)
      PROVE  out.local = l /\ out.session = left /\ out.work = {}
  BY <1>2 DEF Quiet, Outcome
<1>3. CASE out = Quiet(loc, consumed)
  BY <1>1, <1>2, <1>3 DEF Consumed
<1>4. CASE ~IsFinal(e3.sub, loc) /\ (conf = None \/ conf.prob # e3.prob)
  <2>1. PICK P : out = Quiet(loc, [ses EXCEPT !.parked = P])
    BY <1>4 DEF HandleE3
  <2>2. [ses EXCEPT !.parked = P].lcs = ses.lcs /\ [ses EXCEPT !.parked = P].cands = ses.cands
    BY DEF Sessions
  <2> QED
    BY <1>2, <1>4, <2>1, <2>2 DEF Parked
<1>5. CASE /\ ~IsFinal(e3.sub, loc) /\ ~(conf = None \/ conf.prob # e3.prob)
           /\ out # Quiet(loc, consumed)
  <2>1. PICK start \in Starts(e3, conf, ses) :
            LET b == Bundle(e3, start, conf.at)
            IN out \in IF InOrder(b) THEN {Quiet(loc2, bundled) : loc2 \in Finalized(loc, b)}
                       ELSE {Quiet(loc, consumed)}
    BY <1>5 DEF HandleE3, consumed, bundled
  <2> DEFINE b == Bundle(e3, start, conf.at)
  <2>2. e3.sub \in Sub /\ e3.at \in Nat /\ e3.of \in Sub /\ conf \in Records
    BY <1>5 DEF Verdicts, Stores
  <2>3. start \in Nat /\ conf.at \in Nat
    BY <2>1, <2>2, StartTypes DEF Records
  <2>4. b \in Bundles /\ b.sub = e3.sub /\ b.fin = e3.at
    BY <2>2, <2>3 DEF Bundle, Bundles
  <2> HIDE DEF b
  <2>5. PICK l \in Finalized(loc, b) : out = Quiet(l, bundled)
    BY <1>5, <2>1 DEF b
  <2>6. /\ l.confirmed = [loc.confirmed EXCEPT ![b.sub] = None]
        /\ [sub |-> b.sub, fin |-> b.fin] \in l.tombs
    BY <2>4, <2>5, FinalizedFacts
  <2> QED
    BY <1>1, <1>2, <1>5, <2>4, <2>5, <2>6 DEF Bundled
<1>6. CASE IsFinal(e3.sub, loc)
  <2>1. out = Quiet(loc, consumed)
    BY <1>6 DEF HandleE3, consumed
  <2> QED
    BY <1>3, <2>1
<1> QED
  BY <1>3, <1>4, <1>5, <1>6

(* A NowCoder verdict touches no candidate.                                *)
LEMMA HandleE3Kempt ==
  ASSUME NEW e3 \in Verdicts, ~e3.cand, Doc(e3.sub) # "lc", local \in Stores,
         NEW ses \in Sessions, Matching(ses), Idle(ses), NEW out \in HandleE3(e3, local, ses)
  PROVE  Kempt(out)
<1>1. out.work = {} /\ WithoutCand(e3, ses.cands) = ses.cands
  BY HandleE3Cases DEF WithoutCand
<1>2. CASE Consumed(e3, local, ses, out) \/ Parked(e3, local, ses, out)
  BY <1>1, <1>2, LeftKempt DEF Consumed, Parked
<1>3. CASE Bundled(e3, local, ses, out)
  <2> DEFINE s == e3.sub
  <2>1. PICK less : less = {e \in ses.lcs : e.sid # s}
    OBVIOUS
  <2>2. PICK confirmed \in [Sub -> Records \cup {None}] : confirmed = local.confirmed
    BY DEF Stores
  <2>3. PICK known : known = [confirmed EXCEPT ![s] = None]
    OBVIOUS
  <2>4. /\ out.session.lcs = less /\ out.session.cands = ses.cands
        /\ out.local.confirmed = known
    BY <1>1, <1>3, <2>1, <2>2, <2>3 DEF Bundled
  <2>5. s \in Sub /\ \A t \in Sub : known[t] \in {confirmed[t], None}
    BY <2>3 DEF Verdicts
  <2> HIDE DEF s
  <2>6. Shape(ses) /\ Doc(s) # "lc"
    BY DEF Idle, s
  <2>7. Keyed(ses.lcs) /\ \A e \in ses.lcs : e.out = "matched" => e.sid \in Sub
    BY <2>6 DEF Shape, Matching
  <2>8. ses.lcs \in SUBSET Lifecycles /\ ses.cands \subseteq Candidates
    BY SessionParts
  <2>9. ASSUME NEW c \in ses.cands
        PROVE  Reconcile(c, less, known) \in Undecided
    <3>1. SUFFICES ASSUME Reconcile(c, less, known) \notin Undecided PROVE FALSE
      OBVIOUS
    <3>2. Reconcile(c, ses.lcs, known) = Reconcile(c, less, known)
      BY <2>1, <2>5, <2>6, <3>1, ForeignSame
    <3>3. c \in Candidates /\ Reconcile(c, ses.lcs, known) \notin Undecided
      BY <2>8, <3>1, <3>2
    <3>4. Reconcile(c, ses.lcs, confirmed) = Reconcile(c, ses.lcs, known)
      BY <2>5, <2>7, <2>8, <3>3, ForgottenSame
    <3> QED
      BY <2>2, <3>3, <3>4 DEF Idle
  <2>10. Taken(out.session, out.local, out.work)
    BY <1>1, <2>4, <2>9 DEF Taken, Undecided
  <2>11. Shape(out.session)
    BY <2>1, <2>4, <2>6 DEF Shape, Keyed
  <2> QED
    BY <1>1, <2>10, <2>11 DEF Kempt, Batch
<1> QED
  BY <1>2, <1>3, HandleE3Cases

(* What is kept after joining waits or has its verdict among the results,  *)
(* which are young and come from candidates.                               *)
LEMMA KeptTaken ==
  ASSUME NEW cands, NEW lcs, NEW confirmed, NEW c \in Kept(cands, lcs, confirmed)
  PROVE  /\ c \in cands /\ ~Expired(c.at, E1Ttl) /\ Reconcile(c, lcs, confirmed) # Terminal
         /\ \/ Reconcile(c, lcs, confirmed) = Pending
            \/ Reconcile(c, lcs, confirmed) \in Resolutions(cands, lcs, confirmed)
<1>1. c \in cands /\ Reconcile(c, lcs, confirmed) # Terminal
  BY DEF Kept
<1>2. ~Expired(c.at, E1Ttl)
  BY <1>1 DEF Reconcile
<1> QED
  BY <1>1, <1>2 DEF Resolutions

LEMMA ResultsYoung ==
  ASSUME NEW cands \in SUBSET Candidates, NEW lcs \in SUBSET Lifecycles, Keyed(lcs),
         NEW confirmed, NEW j \in Resolutions(cands, lcs, confirmed)
  PROVE  /\ j.cand /\ ~Expired(j.at, E1Ttl)
         /\ \E c \in cands : j = Reconcile(c, lcs, confirmed) /\ j \notin Undecided
<1>1. PICK c \in cands : j = Reconcile(c, lcs, confirmed) /\ j \notin Undecided
  BY DEF Resolutions, Undecided
<1>2. ~Expired(c.at, E1Ttl) /\ \E e \in lcs : j = JoinOf(c, e.sid)
  BY <1>1, Resolves
<1>3. j.cand /\ j.at = c.at
  BY <1>2 DEF JoinOf
<1>4. ~Expired(j.at, E1Ttl)
  BY <1>2, <1>3
<1> QED
  BY <1>1, <1>3, <1>4

(* Only the candidate that arrives can join.                               *)
LEMMA HandleCandidateKempt ==
  ASSUME NEW c \in Candidates, Doc(c.sub) = "lc", c.req # NoRequest => c.req[1] = c.sub,
         NEW ses \in Sessions, Idle(ses), NEW out \in HandleCandidate(c, ses)
  PROVE  Kempt(out)
<1>1. PICK cands \in Newest({d \in ses.cands : d.sub # c.sub}, c, Cap) : out = Joined(cands, ses)
  BY DEF HandleCandidate
<1>2. cands \subseteq ses.cands \cup {c}
  BY <1>1 DEF Newest
<1>3. PICK lcs \in SUBSET Lifecycles : lcs = ses.lcs
  BY SessionParts
<1>4. PICK confirmed : confirmed = local.confirmed
  OBVIOUS
<1>5. /\ out.local = local /\ out.session.lcs = lcs
      /\ out.session.cands = Kept(cands, lcs, confirmed)
      /\ out.work = Resolutions(cands, lcs, confirmed)
  BY <1>1, <1>3, <1>4 DEF Joined, Outcome, Sessions
<1>6. Keyed(lcs) /\ cands \in SUBSET Candidates /\ Shape(ses) /\ Fresh(ses)
  BY <1>2, <1>3, SessionParts DEF Idle, Shape
<1>7. \A d \in Kept(cands, lcs, confirmed) :
         /\ ~Expired(d.at, E1Ttl) /\ d \in cands
         /\ \/ Reconcile(d, lcs, confirmed) = Pending
            \/ Reconcile(d, lcs, confirmed) \in Resolutions(cands, lcs, confirmed)
  BY KeptTaken
<1>8. \A j \in Resolutions(cands, lcs, confirmed) :
         /\ j.cand /\ ~Expired(j.at, E1Ttl)
         /\ \E d \in cands : j = Reconcile(d, lcs, confirmed) /\ j \notin Undecided
  BY <1>6, ResultsYoung
<1>9. \A d \in ses.cands : Reconcile(d, lcs, confirmed) \in Undecided
  BY <1>3, <1>4 DEF Idle
<1>10. \A j \in Resolutions(cands, lcs, confirmed) : j = Reconcile(c, lcs, confirmed)
  BY <1>2, <1>8, <1>9
<1>11. Batch(out.work)
  BY <1>5, <1>8, <1>10 DEF Batch
<1>12. Taken(out.session, out.local, out.work)
  BY <1>4, <1>5, <1>7 DEF Taken
<1>13. Shape(out.session) /\ Fresh(out.session)
  BY <1>2, <1>3, <1>5, <1>6, <1>7 DEF Shape, Fresh
<1> QED
  BY <1>11, <1>12, <1>13 DEF Kempt

LEMMA MatchedShape ==
  ASSUME NEW s \in Sub, NEW req, NEW ses \in Sessions, Shape(ses),
         \A e \in ses.lcs : e.req = req => e.done /\ (DocOf(e) = "lc" => Doc(s) = "lc"),
         NEW e \in Matched(s, req, ses)
  PROVE  /\ IF e.out = "matched"
            THEN e.done /\ (DocOf(e) = "lc" => Doc(e.sid) = "lc")
            ELSE e.sid = None
         /\ \E f \in ses.lcs : f.at = e.at
<1>1. PICK f \in ses.lcs : e = IF f.req = req THEN [f EXCEPT !.out = "matched", !.sid = s] ELSE f
  BY DEF Matched
<1>2. f \in Lifecycles
  BY SessionParts
<1>3. CASE f.req = req
  <2>1. e.out = "matched" /\ e.sid = s /\ e.done = f.done /\ e.req = f.req /\ e.at = f.at
    BY <1>1, <1>2, <1>3 DEF Lifecycles
  <2> QED
    BY <1>3, <2>1 DEF DocOf
<1>4. CASE f.req # req
  BY <1>1, <1>4 DEF Shape
<1> QED
  BY <1>3, <1>4

(* Nothing is known of a session without requests and candidates.          *)
LEMMA BlindKempt ==
  ASSUME NEW out, out.session.lcs = {}, out.session.cands = {}, Batch(out.work)
  PROVE  Kempt(out)
  BY DEF Kempt, Shape, Keyed, Taken, Fresh

LEMMA ConfirmedKeeps ==
  ASSUME NEW s \in Sub, NEW at, NEW prob, local \in Stores
  PROVE  \A t \in Sub : local.confirmed[t] # None =>
           Confirmed(s, at, prob).confirmed[t] = local.confirmed[t]
<1>1. PICK confirmed \in [Sub -> Records \cup {None}] : confirmed = local.confirmed
  BY DEF Stores
<1>2. Confirmed(s, at, prob).confirmed =
        [confirmed EXCEPT ![s] = IF @ = None THEN [at |-> at, prob |-> prob] ELSE @]
  BY <1>1 DEF Confirmed, Stores
<1> QED
  BY <1>1, <1>2

(* What the confirmation resolves is its own submission: whatever joins    *)
(* with another joined before.  A replay that is told nothing of the       *)
(* requests either leaves them out of the session or leaves it as the      *)
(* confirmation made it; then it may leave out the confirmation.           *)
LEMMA HandleE2Kempt ==
  ASSUME IInv, NEW s \in Sub, NEW at \in Nat, NEW prob \in STRING, NEW req,
         NEW ses \in Sessions, Matching(ses), Idle(ses),
         \A e \in ses.lcs : e.req = req => e.done /\ (DocOf(e) = "lc" => Doc(s) = "lc"),
         NEW out \in HandleE2(s, at, prob, req, ses)
  PROVE  Kempt(out)
<1>1. CASE Refused(s, prob)
  <2>1. out = Quiet(local, ses)
    BY <1>1 DEF HandleE2
  <2>2. out.work = {} /\ out.local = local /\ out.session = ses
    BY <2>1 DEF Quiet, Outcome
  <2> QED
    BY <2>2, LeftKempt
<1>2. CASE ~Refused(s, prob)
  <2>1. PICK after \in Stores : after = Confirmed(s, at, prob)
    BY <1>2, ConfirmedFacts
  <2>2. PICK known : known = after.confirmed
    OBVIOUS
  <2>3. PICK confirmed : confirmed = local.confirmed
    OBVIOUS
  <2>4. PICK lcs : lcs = Matched(s, req, ses)
    OBVIOUS
  <2>5. PICK cands : cands = Kept(ses.cands, lcs, known)
    OBVIOUS
  <2>6. PICK work : work = Resolutions(ses.cands, lcs, known)
    OBVIOUS
  <2>7. PICK matched : matched = [ses EXCEPT !.lcs = lcs, !.cands = cands]
    OBVIOUS
  <2>8. matched.lcs = lcs /\ matched.cands = cands
    BY <2>7 DEF Sessions
  <2>9. /\ Shape(ses) /\ Fresh(ses) /\ Keyed(ses.lcs)
        /\ \A c \in ses.cands : Reconcile(c, ses.lcs, confirmed) \in Undecided
    BY <2>3 DEF Idle, Shape
  <2>10. /\ lcs \in SUBSET Lifecycles /\ Keyed(lcs)
         /\ \A e \in lcs : e.out = "matched" => e.sid \in Sub
    BY <2>4, <2>9, MatchedTypes, MatchedKeyed
  <2>11. ses.cands \in SUBSET Candidates
    BY SessionParts
  <2>12. \A e \in lcs : /\ IF e.out = "matched"
                           THEN e.done /\ (DocOf(e) = "lc" => Doc(e.sid) = "lc")
                           ELSE e.sid = None
                        /\ \E f \in ses.lcs : f.at = e.at
    BY <2>4, <2>9, MatchedShape
  <2>13. \A c \in cands :
            /\ c \in ses.cands /\ ~Expired(c.at, E1Ttl) /\ Reconcile(c, lcs, known) # Terminal
            /\ Reconcile(c, lcs, known) = Pending \/ Reconcile(c, lcs, known) \in work
    BY <2>5, <2>6, KeptTaken
  <2>14. Shape(matched) /\ Fresh(matched)
    <3>1. \A e \in lcs : ~Expired(e.at, E1Ttl)
      BY <2>9, <2>12 DEF Fresh
    <3> QED
      BY <2>8, <2>9, <2>10, <2>12, <2>13, <3>1 DEF Shape, Fresh
  <2>15. \A t \in Sub \ {s} : known[t] = confirmed[t]
    <3>1. Confirms(Confirmed(s, at, prob), s)
      BY <1>2, ConfirmedFacts
    <3>2. Same(after, s)
      BY <2>1, <3>1 DEF Confirms
    <3> QED
      BY <2>2, <2>3, <3>2 DEF Same
  <2>16. ASSUME NEW c \in ses.cands, Reconcile(c, lcs, known) \notin Undecided
         PROVE  Reconcile(c, lcs, known).sub = s
    <3>1. SUFFICES ASSUME Reconcile(c, lcs, known).sub # s PROVE FALSE
      OBVIOUS
    <3>2. c \in Candidates
      BY <2>11
    <3>3. Reconcile(c, ses.lcs, known) = Reconcile(c, lcs, known)
      BY <2>4, <2>9, <2>16, <3>1, <3>2, MatchedSame
    <3>4. PICK old \in SUBSET Lifecycles : old = ses.lcs
      BY SessionParts
    <3>5. /\ Reconcile(c, old, known) \notin Undecided /\ Reconcile(c, old, known).sub # s
          /\ Keyed(old) /\ \A e \in old : e.out = "matched" => e.sid \in Sub
      BY <2>9, <2>16, <3>1, <3>3, <3>4 DEF Matching
    <3>6. Reconcile(c, old, confirmed) = Reconcile(c, old, known)
      BY <2>15, <3>2, <3>5, OthersSame
    <3> QED
      BY <2>9, <3>4, <3>5, <3>6
  <2>17. Batch(work)
    <3>1. \A j \in work :
             /\ j.cand /\ ~Expired(j.at, E1Ttl)
             /\ \E c \in ses.cands : j = Reconcile(c, lcs, known) /\ j \notin Undecided
      BY <2>6, <2>10, <2>11, ResultsYoung
    <3> QED
      BY <2>16, <3>1 DEF Batch
  <2>18. CASE out = Outcome(after, matched, work)
    <3>1. out.local = after /\ out.session = matched /\ out.work = work
      BY <2>18 DEF Outcome
    <3>2. Taken(matched, after, work)
      BY <2>2, <2>8, <2>13 DEF Taken
    <3> QED
      BY <2>14, <2>17, <3>1, <3>2 DEF Kempt
  <2>19. CASE \E p \in ses.parked : out \in Replayed(p, after, matched, work)
    <3>1. PICK p \in Verdicts : out \in Replayed(p, after, matched, work)
      BY <2>19, SessionParts
    <3>2. PICK blind : blind = [NoEvidence EXCEPT !.hints = matched.hints]
      OBVIOUS
    <3>3. matched.hints = ses.hints
      BY <2>7 DEF Sessions
    <3>4. blind = [hints |-> ses.hints, lcs |-> {}, parked |-> {}, cands |-> {}]
      BY <3>2, <3>3 DEF NoEvidence
    <3>5. blind \in Sessions /\ blind.lcs = {} /\ blind.cands = {}
      BY <3>4, SessionParts DEF Sessions
    <3>6. PICK o \in HandleE3(p, after, blind) :
            out = Outcome(IF o.local = after THEN local ELSE o.local,
                          IF o.session = blind /\ o.local = after THEN matched ELSE o.session,
                          work)
      BY <3>1, <3>2 DEF Replayed
    <3>7. o.session.lcs = {} /\ o.session.cands = {}
      <4>1. WithoutCand(p, blind.cands) = {}
        BY <3>5 DEF WithoutCand
      <4>2. \/ Consumed(p, after, blind, o) \/ Parked(p, after, blind, o)
            \/ Bundled(p, after, blind, o)
        BY <3>1, <3>5, <3>6, HandleE3Cases
      <4> QED
        BY <3>5, <4>1, <4>2 DEF Consumed, Parked, Bundled
    <3>8. out.work = work
      BY <3>6 DEF Outcome
    <3>9. CASE ~(o.session = blind /\ o.local = after)
      <4>1. out.session = o.session
        BY <3>6, <3>9 DEF Outcome
      <4> QED
        BY <2>17, <3>7, <3>8, <4>1, BlindKempt
    <3>10. CASE o.session = blind /\ o.local = after
      <4>1. out.session = matched /\ out.local = local
        BY <3>6, <3>10 DEF Outcome
      <4>2. \A t \in Sub : confirmed[t] # None => known[t] = confirmed[t]
        BY <2>1, <2>2, <2>3, ConfirmedKeeps DEF IInv, Types
      <4>3. ASSUME NEW c \in cands
            PROVE  \/ Reconcile(c, lcs, confirmed) = Pending
                   \/ Reconcile(c, lcs, confirmed) \in work
        <5>1. c \in Candidates /\ Reconcile(c, lcs, known) # Terminal
          BY <2>11, <2>13
        <5>2. \/ Reconcile(c, lcs, confirmed) = Pending
              \/ Reconcile(c, lcs, confirmed) = Reconcile(c, lcs, known)
          BY <2>10, <4>2, <5>1, ConfirmedLess
        <5> QED
          BY <2>13, <5>2
      <4>4. Taken(matched, local, work)
        BY <2>3, <2>8, <4>3 DEF Taken
      <4> QED
        BY <2>14, <2>17, <3>8, <4>1, <4>4 DEF Kempt
    <3> QED
      BY <3>9, <3>10
  <2> QED
    <3>1. PICK waiting : waiting = {p \in ses.parked : p.sub = s}
      OBVIOUS
    <3>2. CASE waiting = {}
      <4>1. out = Outcome(after, matched, work)
        BY <1>2, <2>1, <2>2, <2>4, <2>5, <2>6, <2>7, <3>1, <3>2 DEF HandleE2
      <4> QED
        BY <2>18, <4>1
    <3>3. CASE waiting # {}
      <4>1. \E p \in waiting : out \in Replayed(p, after, matched, work)
        BY <1>2, <2>1, <2>2, <2>4, <2>5, <2>6, <2>7, <3>1, <3>3 DEF HandleE2
      <4> QED
        BY <2>19, <3>1, <4>1
    <3> QED
      BY <3>2, <3>3
<1> QED
  BY <1>1, <1>2

(* The request a poll confirms is answered, and of the poll's document.    *)
LEMMA PollMatchDone ==
  ASSUME IInv, Shape(session), NEW s, NEW poll \in session.lcs, poll.done,
         NEW m \in PollMatch(s, poll), NEW e \in session.lcs, e.req = m.req
  PROVE  e.done /\ (DocOf(e) = "lc" => Doc(s) = "lc")
<1>1. DocOf(e) = "lc" => Doc(s) = "lc"
  BY PollMatchDoc DEF DocOf
<1>2. \A f, g \in session.lcs : f.req = g.req => f = g
  BY DEF Shape, Keyed
<1>3. ASSUME m \in CheckMatch(poll) \/ m \in StatusMatch(poll)
      PROVE  e.done
  <2>1. PICK f \in session.lcs : f.done /\ f.req = m.req
    BY <1>3 DEF CheckMatch, StatusMatch, Only
  <2> QED
    BY <1>2, <2>1
<1>4. ASSUME m \in ResultMatch(poll)
      PROVE  e.done
  <2> DEFINE Submits(h) == {f \in session.lcs :
                       IsSubmit(f) /\ DocOf(f) = "lc" /\ h.at <= f.at /\ f.at <= poll.at}
             root(h) == IF Submits(h) = {} THEN poll.req
                        ELSE (CHOOSE f \in Submits(h) : TRUE).req
  <2>1. PICK h : m.req = root(h) /\ \A f \in Submits(h) : f.done
    <3>1. \E h \in session.hints : /\ m = [prob |-> h.prob, at |-> poll.at, req |-> root(h)]
                                   /\ \A f \in Submits(h) : f.done
      BY <1>4 DEF ResultMatch, Only
    <3> HIDE DEF Submits, root
    <3> QED
      BY <3>1
  <2>2. CASE Submits(h) = {}
    BY <1>2, <2>1, <2>2
  <2>3. CASE Submits(h) # {}
    <3>1. \E f \in Submits(h) : m.req = f.req
      BY <2>1, <2>3
    <3>2. \E f \in session.lcs : f.done /\ f.req = m.req
      BY <2>1, <3>1
    <3> QED
      BY <1>2, <3>2
  <2> QED
    BY <2>2, <2>3
<1> QED
  BY <1>1, <1>3, <1>4 DEF PollMatch

LEMMA HandlePollKempt ==
  ASSUME IInv, Shape(session), Idle(Pruned),
         \A c \in session.cands : Reconcile(c, session.lcs, local.confirmed) \in Undecided,
         NEW s \in Sub, NEW n, NEW out \in HandlePoll(s, n, Pruned)
  PROVE  Kempt(out)
<1>1. PICK matches : matches = UNION {PollMatch(s, e) :
                        e \in {x \in session.lcs : x.req = <<s, n>> /\ x.done}}
  OBVIOUS
<1>2. CASE matches = {}
  <2>1. out = Quiet(local, session)
    BY <1>1, <1>2 DEF HandlePoll
  <2>2. out.work = {} /\ out.local = local /\ out.session = session
    BY <2>1 DEF Quiet, Outcome
  <2>3. Taken(session, local, {})
    BY DEF Taken, Undecided
  <2> QED
    BY <2>2, <2>3 DEF Kempt, Batch
<1>3. CASE matches # {}
  <2>1. PICK m \in matches : out \in HandleE2(s, m.at, m.prob, m.req, Pruned)
    BY <1>1, <1>3 DEF HandlePoll
  <2>2. PICK poll \in session.lcs : m \in PollMatch(s, poll) /\ poll.done
    BY <1>1, <2>1
  <2>3. m.prob \in STRING /\ m.at \in Nat
    BY <2>2, PollMatchTypes
  <2>4. Pruned \in Sessions /\ Matching(Pruned) /\ Pruned.lcs \subseteq session.lcs
    BY PrunedTypes DEF Pruned
  <2>5. \A e \in session.lcs : e.req = m.req => e.done /\ (DocOf(e) = "lc" => Doc(s) = "lc")
    BY <2>2, PollMatchDone
  <2>6. PICK ses \in Sessions : ses = Pruned
    BY <2>4
  <2>7. PICK at \in Nat : at = m.at
    BY <2>3
  <2>8. PICK prob \in STRING : prob = m.prob
    BY <2>3
  <2>9. PICK req : req = m.req
    OBVIOUS
  <2>10. \A e \in ses.lcs : e.req = req => e.done /\ (DocOf(e) = "lc" => Doc(s) = "lc")
    BY <2>4, <2>5, <2>6, <2>9
  <2>11. Matching(ses) /\ Idle(ses) /\ out \in HandleE2(s, at, prob, req, ses)
    BY <2>1, <2>4, <2>6, <2>7, <2>8, <2>9
  <2> QED
    BY <2>10, <2>11, HandleE2Kempt
<1> QED
  BY <1>2, <1>3

(* A verdict a candidate joins to is of a submission that is confirmed for *)
(* the candidate's problem.                                                *)
LEMMA ResultConfirmed ==
  ASSUME NEW c \in Candidates, NEW lcs \in SUBSET Lifecycles, Keyed(lcs), NEW confirmed,
         Reconcile(c, lcs, confirmed) \notin Undecided
  PROVE  /\ Reconcile(c, lcs, confirmed).of = c.sub
         /\ confirmed[Reconcile(c, lcs, confirmed).sub] # None
         /\ confirmed[Reconcile(c, lcs, confirmed).sub].prob = Reconcile(c, lcs, confirmed).prob
<1>1. PICK e \in lcs : Joins(c, e, confirmed) /\ Reconcile(c, lcs, confirmed) = JoinOf(c, e.sid)
  BY Resolves
<1> QED
  BY <1>1 DEF Joins, JoinOf

(* One of the verdicts that wait is applied: the first bundles their       *)
(* submission, the candidate of every other is dropped with its own.       *)
LEMMA JobKeeps ==
  ASSUME IInv, NEW ses \in Sessions, Matching(ses), Shape(ses), Fresh(ses), Agreed(ses, local),
         NEW jobs \in SUBSET Verdicts, Batch(jobs), Settled(ses, local, jobs),
         NEW j \in jobs, NEW out \in HandleE3(j, local, ses)
  PROVE  /\ Shape(out.session) /\ Fresh(out.session) /\ Agreed(out.session, out.local)
         /\ Settled(out.session, out.local, jobs \ {j})
<1>1. local \in Stores
  BY DEF IInv, Types
<1>2. \/ Consumed(j, local, ses, out)
      \/ ~IsFinal(j.sub, local) /\ (Parked(j, local, ses, out) \/ Bundled(j, local, ses, out))
  BY <1>1, HandleE3Cases
<1>3. \A k \in jobs : k.cand /\ k.sub = j.sub
  BY DEF Batch
<1>4. WithoutCand(j, ses.cands) = {c \in ses.cands : c.sub # j.of}
  BY <1>3 DEF WithoutCand
<1>5. PICK confirmed : confirmed = local.confirmed
  OBVIOUS
<1>6. PICK lcs \in SUBSET Lifecycles : lcs = ses.lcs
  BY SessionParts
<1>7. /\ ses.cands \subseteq Candidates /\ Keyed(lcs)
  BY <1>6, SessionParts DEF Shape
<1>8. \A k \in jobs : k \notin Undecided
  BY Decisions DEF Undecided
<1>9. ASSUME NEW c \in ses.cands
      PROVE  \/ Reconcile(c, lcs, confirmed) = Pending
             \/ Reconcile(c, lcs, confirmed) \in jobs
             \/ \E k \in jobs : k.of = c.sub /\ IsFinal(k.sub, local)
  BY <1>5, <1>6 DEF Settled
<1>10. ASSUME NEW c \in ses.cands, Reconcile(c, lcs, confirmed) \in jobs
       PROVE  /\ Reconcile(c, lcs, confirmed) \notin Undecided
              /\ Reconcile(c, lcs, confirmed).of = c.sub
              /\ confirmed[Reconcile(c, lcs, confirmed).sub] # None
              /\ confirmed[Reconcile(c, lcs, confirmed).sub].prob = Reconcile(c, lcs, confirmed).prob
  BY <1>7, <1>8, <1>10, ResultConfirmed
<1>11. CASE Consumed(j, local, ses, out)
  <2>1. /\ out.local = local /\ out.session.lcs = lcs
        /\ out.session.cands = {c \in ses.cands : c.sub # j.of}
    BY <1>4, <1>6, <1>11 DEF Consumed
  <2>2. Shape(out.session) /\ Fresh(out.session) /\ Agreed(out.session, out.local)
    BY <1>6, <2>1 DEF Shape, Fresh, Agreed
  <2>3. ASSUME NEW c \in ses.cands, c.sub # j.of
        PROVE  \/ Reconcile(c, lcs, confirmed) = Pending
               \/ Reconcile(c, lcs, confirmed) \in jobs \ {j}
               \/ \E k \in jobs \ {j} : k.of = c.sub /\ IsFinal(k.sub, local)
    <3>1. CASE Reconcile(c, lcs, confirmed) \in jobs
      BY <1>10, <2>3, <3>1
    <3>2. CASE \E k \in jobs : k.of = c.sub /\ IsFinal(k.sub, local)
      BY <2>3, <3>2
    <3> QED
      BY <1>9, <3>1, <3>2
  <2>4. Settled(out.session, out.local, jobs \ {j})
    BY <1>5, <2>1, <2>3 DEF Settled
  <2> QED
    BY <2>2, <2>4
<1>12. CASE ~IsFinal(j.sub, local) /\ Parked(j, local, ses, out)
  <2>1. /\ out.local = local /\ out.session.lcs = lcs /\ out.session.cands = ses.cands
        /\ confirmed[j.sub] = None \/ confirmed[j.sub].prob # j.prob
    BY <1>5, <1>6, <1>12 DEF Parked
  <2>2. Shape(out.session) /\ Fresh(out.session) /\ Agreed(out.session, out.local)
    BY <1>6, <2>1 DEF Shape, Fresh, Agreed
  <2>3. ASSUME NEW c \in ses.cands
        PROVE  \/ Reconcile(c, lcs, confirmed) = Pending
               \/ Reconcile(c, lcs, confirmed) \in jobs \ {j}
    <3>1. CASE Reconcile(c, lcs, confirmed) \in jobs
      BY <1>10, <2>1, <3>1
    <3> QED
      BY <1>3, <1>9, <1>12, <3>1
  <2>4. Settled(out.session, out.local, jobs \ {j})
    BY <1>5, <2>1, <2>3 DEF Settled
  <2> QED
    BY <2>2, <2>4
<1>13. CASE ~IsFinal(j.sub, local) /\ Bundled(j, local, ses, out)
  <2>1. PICK s \in Sub : s = j.sub
    BY DEF Verdicts
  <2>2. PICK less : less = {e \in ses.lcs : e.sid # s}
    OBVIOUS
  <2>3. PICK known : known = [confirmed EXCEPT ![s] = None]
    OBVIOUS
  <2>4. /\ out.local.confirmed = known /\ out.session.lcs = less
        /\ out.session.cands = {c \in ses.cands : c.sub # j.of}
        /\ [sub |-> s, fin |-> j.at] \in out.local.tombs /\ confirmed[s] # None
    BY <1>4, <1>5, <1>13, <2>1, <2>2, <2>3 DEF Bundled
  <2>5. confirmed \in [Sub -> Records \cup {None}]
    BY <1>1, <1>5 DEF Stores
  <2>6. \A t \in Sub \ {s} : known[t] = confirmed[t]
    BY <2>3, <2>5
  <2>7. IsFinal(s, out.local)
    <3>1. ~Expired(j.at, E1Ttl)
      BY DEF Batch
    <3>2. now \in Nat /\ j.at \in Nat /\ E1Ttl \in Nat /\ TombTtl \in Nat /\ E1Ttl <= TombTtl
      BY OrchestratorAssumption DEF IInv, Types, Verdicts
    <3>3. ~Expired(j.at, TombTtl)
      BY <3>1, <3>2 DEF Expired
    <3>4. PICK x \in out.local.tombs : x = [sub |-> s, fin |-> j.at]
      BY <2>4
    <3>5. x.sub = s /\ x.fin = j.at
      BY <3>4
    <3>6. ~Expired(x.fin, TombTtl)
      BY <3>3, <3>5
    <3> QED
      BY <3>5, <3>6 DEF IsFinal
  <2>8. less \subseteq ses.lcs /\ less \in SUBSET Lifecycles /\ Keyed(less)
    BY <1>6, <1>7, <2>2 DEF Keyed
  <2>9. Shape(out.session) /\ Fresh(out.session)
    BY <2>4, <2>8 DEF Shape, Fresh
  <2>10. ASSUME NEW c \in ses.cands
         PROVE  \/ Reconcile(c, less, known) = Pending
                \/ /\ Reconcile(c, lcs, confirmed) \in jobs
                   /\ Prob(c.sub) = confirmed[s].prob
                   /\ Reconcile(c, less, known) \notin Undecided => c.req = NoRequest
    <3>1. CASE Reconcile(c, lcs, confirmed) = Pending
      BY <1>6, <2>2, <2>4, <2>6, <3>1, BundledWaits
    <3>2. CASE Reconcile(c, lcs, confirmed) \in jobs
      <4>1. Reconcile(c, lcs, confirmed) \notin Undecided /\ Reconcile(c, lcs, confirmed).sub = s
        BY <1>3, <1>10, <2>1, <3>2
      <4> QED
        BY <1>6, <2>2, <3>2, <4>1, BundledRest
    <3> QED
      BY <1>3, <1>9, <1>13, <2>1, <3>1, <3>2
  <2>11. ASSUME NEW c \in ses.cands, c.sub # j.of
         PROVE  \/ Reconcile(c, less, known) = Pending
                \/ \E k \in jobs \ {j} : k.of = c.sub /\ IsFinal(k.sub, out.local)
    <3>1. CASE Reconcile(c, lcs, confirmed) \in jobs
      <4>1. PICK k \in jobs : k = Reconcile(c, lcs, confirmed)
        BY <3>1
      <4>2. k.of = c.sub /\ k.sub = s
        BY <1>3, <1>10, <2>1, <3>1, <4>1
      <4> QED
        BY <2>7, <2>11, <4>2
    <3> QED
      BY <2>10, <3>1
  <2>12. Settled(out.session, out.local, jobs \ {j})
    BY <2>4, <2>11 DEF Settled
  <2>13. ASSUME NEW c \in ses.cands, NEW d \in ses.cands,
                Reconcile(c, less, known) \notin Undecided,
                Reconcile(d, less, known) \notin Undecided
         PROVE  Reconcile(c, less, known).sub = Reconcile(d, less, known).sub
    <3>1. /\ c.req = NoRequest /\ d.req = NoRequest /\ Prob(c.sub) = Prob(d.sub)
      BY <2>10, <2>13 DEF Undecided
    <3>2. Doc(c.sub) = Doc(d.sub) /\ c \in Candidates /\ d \in Candidates
      BY <1>7 DEF Shape
    <3> QED
      BY <2>8, <2>13, <3>1, <3>2, Agree
  <2>14. Agreed(out.session, out.local)
    BY <2>4, <2>13 DEF Agreed
  <2> QED
    BY <2>9, <2>12, <2>14
<1> QED
  BY <1>2, <1>11, <1>12, <1>13

(* A job that wrote local storage only leaves candidates that agree: it    *)
(* confirmed one submission or forgot one.                                 *)
LEMMA AgreedAfter ==
  ASSUME IInv, NEW ses \in Sessions, Matching(ses), Shape(ses),
         NEW l, \E s : Same(l, s) /\ l.confirmed[s] = None, Agreed(ses, local)
  PROVE  Agreed(ses, l)
<1>1. PICK s : Same(l, s) /\ l.confirmed[s] = None
  OBVIOUS
<1>2. PICK lcs \in SUBSET Lifecycles : lcs = ses.lcs
  BY SessionParts
<1>3. PICK confirmed : confirmed = local.confirmed
  OBVIOUS
<1>4. PICK known : known = l.confirmed
  OBVIOUS
<1>5. \A t \in Sub : known[t] \in {confirmed[t], None}
  BY <1>1, <1>3, <1>4 DEF Same
<1>6. Keyed(lcs) /\ \A e \in lcs : e.out = "matched" => e.sid \in Sub
  BY <1>2 DEF Shape, Matching
<1>7. \A c \in ses.cands : Reconcile(c, lcs, known) \notin Undecided =>
         Reconcile(c, lcs, confirmed) = Reconcile(c, lcs, known)
  BY <1>5, <1>6, SessionParts, ForgottenSame
<1> QED
  BY <1>2, <1>3, <1>4, <1>7 DEF Agreed

LEMMA AgreedWritten ==
  ASSUME IInv, NEW ses \in Sessions, Matching(ses), Shape(ses),
         \A c \in ses.cands : Reconcile(c, ses.lcs, local.confirmed) \in Undecided,
         NEW l, Writes(l)
  PROVE  Agreed(ses, l)
<1>1. Agreed(ses, local)
  BY DEF Agreed
<1>2. CASE l = local
  BY <1>1, <1>2
<1>3. CASE \E s \in Sub, x \in Tombs : Finalizes(l, s, x)
  <2>1. \E s : Same(l, s) /\ l.confirmed[s] = None
    BY <1>3 DEF Finalizes
  <2> QED
    BY <1>1, <2>1, AgreedAfter
<1>4. CASE \E s \in Sub : Confirms(l, s)
  <2>1. PICK s \in Sub : Same(l, s)
    BY <1>4 DEF Confirms
  <2>2. PICK lcs \in SUBSET Lifecycles : lcs = ses.lcs
    BY SessionParts
  <2>3. PICK confirmed : confirmed = local.confirmed
    OBVIOUS
  <2>4. PICK known : known = l.confirmed
    OBVIOUS
  <2>5. \A t \in Sub \ {s} : known[t] = confirmed[t]
    BY <2>1, <2>3, <2>4 DEF Same
  <2>6. Keyed(lcs) /\ \A e \in lcs : e.out = "matched" => e.sid \in Sub
    BY <2>2 DEF Shape, Matching
  <2>7. ASSUME NEW c \in ses.cands, Reconcile(c, lcs, known) \notin Undecided
        PROVE  Reconcile(c, lcs, known).sub = s
    <3>1. SUFFICES ASSUME Reconcile(c, lcs, known).sub # s PROVE FALSE
      OBVIOUS
    <3>2. c \in Candidates
      BY SessionParts
    <3>3. Reconcile(c, lcs, confirmed) = Reconcile(c, lcs, known)
      BY <2>5, <2>6, <2>7, <3>1, <3>2, OthersSame
    <3> QED
      BY <2>2, <2>3, <2>7, <3>3
  <2> QED
    BY <2>2, <2>4, <2>7 DEF Agreed
<1> QED
  BY <1>2, <1>3, <1>4 DEF Writes
-----------------------------------------------------------------------------
(* The steps: candidates, requests and jobs stay in order.                 *)
ShownApart ==
  \A s \in Sub : shown[s] # None /\ shown[s].req # NoRequest => shown[s].req[1] = s

Orderly ==
  /\ ShownApart /\ Shape(session) /\ Agreed(session, local)
  /\ todo # {} => up
  /\ \A j \in todo \cap Polls : todo = {j}
  /\ Batch(Jobs)
  /\ Jobs # {} => enabled /\ Fresh(session)
  /\ up \/ ~enabled => Settled(session, local, Jobs)

(* The clock decides only whether a candidate has expired.                 *)
LEMMA SameRule ==
  ASSUME UNCHANGED setup, NEW c, NEW lcs, NEW confirmed
  PROVE  /\ ReconcileArmed(c, lcs, confirmed)' = ReconcileArmed(c, lcs, confirmed)
         /\ ReconcileLegacy(c, lcs, confirmed)' = ReconcileLegacy(c, lcs, confirmed)
<1>1. \A s : Doc(s)' = Doc(s) /\ Prob(s)' = Prob(s)
  BY DEF Doc, Prob
<1>2. \A e : JoinConfirmed(c, e, confirmed)' = JoinConfirmed(c, e, confirmed)
  BY <1>1 DEF JoinConfirmed
<1>3. \A e : IsSubmit(e)' = IsSubmit(e) /\ Fit(c, e)' = Fit(c, e)
  BY <1>1 DEF Fit, DocOf, IsSubmit
<1>4. ReconcileArmed(c, lcs, confirmed)' = ReconcileArmed(c, lcs, confirmed)
  BY <1>1, <1>2, <1>3 DEF ReconcileArmed
<1>5. ReconcileLegacy(c, lcs, confirmed)' = ReconcileLegacy(c, lcs, confirmed)
  <2> DEFINE Legacy(fits) ==
        LET eligible == {e \in fits : e.done /\ e.at <= c.at}
            latest == {e \in eligible : \A f \in eligible : f.at <= e.at}
        IN IF \E e \in fits : e.at > c.at THEN Terminal
           ELSE IF latest = {} THEN Pending
           ELSE IF \E e, f \in latest : e # f THEN Terminal
           ELSE JoinConfirmed(c, CHOOSE e \in latest : TRUE, confirmed)
  <2>1. PICK fits : fits = {e \in lcs : Fit(c, e)}
    OBVIOUS
  <2>2. fits = {e \in lcs : Fit(c, e)'}
    BY <1>3, <2>1
  <2>3. ReconcileLegacy(c, lcs, confirmed) = Legacy(fits)
    BY <2>1 DEF ReconcileLegacy, Fit
  <2>4. ReconcileLegacy(c, lcs, confirmed)' = Legacy(fits)'
    BY <2>2 DEF ReconcileLegacy, Fit
  <2>5. Legacy(fits)' = Legacy(fits)
    BY <1>2
  <2> QED
    BY <2>3, <2>4, <2>5
<1> QED
  BY <1>4, <1>5

LEMMA SameJoin ==
  ASSUME UNCHANGED <<setup, now>>, NEW c, NEW lcs, NEW confirmed
  PROVE  Reconcile(c, lcs, confirmed)' = Reconcile(c, lcs, confirmed)
<1>1. Expired(c.at, E1Ttl)' = Expired(c.at, E1Ttl)
  BY DEF Expired
<1> QED
  BY <1>1, SameRule DEF Reconcile

LEMMA LaterJoin ==
  ASSUME UNCHANGED setup, now \in Nat, now' = now + 1, NEW c \in Candidates, NEW lcs,
         NEW confirmed
  PROVE  \/ Reconcile(c, lcs, confirmed)' = Terminal
         \/ Reconcile(c, lcs, confirmed)' = Reconcile(c, lcs, confirmed)
<1>1. CASE Expired(c.at, E1Ttl)'
  BY <1>1 DEF Reconcile
<1>2. CASE ~Expired(c.at, E1Ttl)'
  <2>1. c.at \in Nat /\ E1Ttl \in Nat
    BY OrchestratorAssumption DEF Candidates
  <2>2. ~Expired(c.at, E1Ttl)
    BY <1>2, <2>1 DEF Expired
  <2> QED
    BY <1>2, <2>2, SameRule DEF Reconcile
<1> QED
  BY <1>1, <1>2

LEMMA SameOrder ==
  ASSUME UNCHANGED <<setup, now>>, NEW ses, NEW loc, NEW jobs
  PROVE  /\ Shape(ses) => Shape(ses)'
         /\ Fresh(ses) => Fresh(ses)'
         /\ Batch(jobs) => Batch(jobs)'
         /\ Agreed(ses, loc) => Agreed(ses, loc)'
         /\ Settled(ses, loc, jobs) => Settled(ses, loc, jobs)'
<1>1. \A s : Doc(s)' = Doc(s)
  BY DEF Doc
<1>2. \A at, ttl : Expired(at, ttl)' = Expired(at, ttl)
  BY DEF Expired
<1>3. \A c : Reconcile(c, ses.lcs, loc.confirmed)' = Reconcile(c, ses.lcs, loc.confirmed)
  BY SameJoin
<1>4. \A s : IsFinal(s, loc)' = IsFinal(s, loc)
  BY <1>2 DEF IsFinal
<1>5. Shape(ses) => Shape(ses)'
  BY <1>1 DEF Shape, Keyed, DocOf
<1>6. Fresh(ses) => Fresh(ses)'
  BY <1>2 DEF Fresh
<1>7. Batch(jobs) => Batch(jobs)'
  BY <1>2 DEF Batch
<1>8. Agreed(ses, loc) => Agreed(ses, loc)'
  BY <1>3 DEF Agreed
<1>9. Settled(ses, loc, jobs) => Settled(ses, loc, jobs)'
  BY <1>3, <1>4 DEF Settled
<1> QED
  BY <1>5, <1>6, <1>7, <1>8, <1>9

LEMMA OrderlyNext ==
  ASSUME UNCHANGED <<setup, now>>, ShownApart',
         NEW ses, ses = session', NEW loc, loc = local', NEW jobs, jobs = Jobs',
         Shape(ses), Agreed(ses, loc), todo' # {} => up',
         \A j \in todo' \cap Polls : todo' = {j},
         Batch(jobs), jobs # {} => enabled' /\ Fresh(ses),
         up' \/ ~enabled' => Settled(ses, loc, jobs)
  PROVE  Orderly'
<1>1. /\ Shape(ses)' /\ Agreed(ses, loc)' /\ Batch(jobs)'
      /\ jobs # {} => enabled' /\ Fresh(ses)'
      /\ up' \/ ~enabled' => Settled(ses, loc, jobs)'
  BY SameOrder
<1>2. Shape(session)' /\ (Fresh(ses)' => Fresh(session)') /\ Agreed(session, local)'
  BY <1>1
<1>3. Batch(Jobs)' /\ (Settled(ses, loc, jobs)' => Settled(session, local, Jobs)')
  BY <1>1
<1>4. Jobs' # {} => enabled' /\ Fresh(session)'
  BY <1>1, <1>2
<1>5. up' \/ ~enabled' => Settled(session, local, Jobs)'
  BY <1>1, <1>3
<1> QED
  BY <1>2, <1>3, <1>4, <1>5 DEF Orderly

(* Between jobs no stored candidate joins, and pruning finds none that     *)
(* does.                                                                   *)
LEMMA IdleBetween ==
  ASSUME IInv, Orderly, Jobs = {}, up \/ ~enabled
  PROVE  /\ \A c \in session.cands : Reconcile(c, session.lcs, local.confirmed) \in Undecided
         /\ Idle(Pruned)
<1>1. Shape(session) /\ Settled(session, local, {})
  BY DEF Orderly
<1>2. \A c \in session.cands : Reconcile(c, session.lcs, local.confirmed) \in Undecided
  BY <1>1 DEF Settled, Undecided
<1>3. Shape(Pruned)
  BY <1>1, PrunedShape
<1>4. Fresh(Pruned) /\ Pruned.cands \subseteq session.cands
  BY DEF Fresh, Pruned
<1>5. ASSUME NEW c \in Pruned.cands
      PROVE  Reconcile(c, Pruned.lcs, local.confirmed) \in Undecided
  <2>1. SUFFICES ASSUME Reconcile(c, Pruned.lcs, local.confirmed) \notin Undecided PROVE FALSE
    OBVIOUS
  <2>2. PICK confirmed : confirmed = local.confirmed
    OBVIOUS
  <2>3. Reconcile(c, session.lcs, confirmed) = Reconcile(c, Pruned.lcs, confirmed)
    BY <1>1, <2>1, <2>2, PrunedSame
  <2> QED
    BY <1>2, <1>4, <2>1, <2>2, <2>3
<1> QED
  BY <1>2, <1>3, <1>4, <1>5 DEF Idle

LEMMA PollsApart == Polls \cap Verdicts = {}
<1>1. \A j \in Polls : "poll" \in DOMAIN j
  BY DEF Polls
<1>2. \A j \in Verdicts : "poll" \notin DOMAIN j
  BY DEF Verdicts
<1> QED
  BY <1>1, <1>2

(* An event or a poll's answer is applied between jobs.                    *)
LEMMA ApplyOrderly ==
  ASSUME IInv, Orderly, Jobs = {}, UNCHANGED <<setup, now, shown, enabled>>,
         NEW outs, \A out \in outs : Sound(out) /\ Kempt(out),
         NEW rest \in SUBSET Polls, \A j \in rest : rest = {j},
         rest # {} => \A out \in outs : out.work = {}, Apply(outs, rest)
  PROVE  Orderly'
<1>1. /\ Shape(session) /\ Agreed(session, local) /\ up /\ Settled(session, local, {})
      /\ session \in Sessions /\ Matching(session) /\ ShownApart'
  BY DEF Orderly, Apply, IInv, Types, ShownApart
<1>2. \A c \in session.cands : Reconcile(c, session.lcs, local.confirmed) \in Undecided
  BY IdleBetween, <1>1
<1>3. rest \cap Verdicts = {} /\ Polls \cap Verdicts = {}
  BY PollsApart
<1>4. Batch({})
  BY DEF Batch
<1>5. PICK ses \in Sessions : ses = session
  BY <1>1
<1>6. PICK loc : loc = local
  OBVIOUS
<1>7. CASE enabled /\ \E out \in outs : WriteAll(out, rest)
  <2>1. PICK out \in outs : WriteAll(out, rest)
    BY <1>7
  <2>2. out \in Outcomes /\ Kempt(out)
    BY <2>1 DEF Sound
  <2>3. PICK work \in SUBSET Verdicts : work = out.work
    BY <2>2 DEF Outcomes
  <2>4. PICK left : left = out.session
    OBVIOUS
  <2>5. PICK l : l = out.local
    OBVIOUS
  <2>6. /\ Shape(left) /\ Batch(work) /\ Taken(left, l, work)
        /\ work # {} => Fresh(left)
    BY <2>2, <2>3, <2>4, <2>5 DEF Kempt
  <2>7. local' = l /\ session' = left /\ todo' = work \cup rest /\ UNCHANGED up
    BY <2>1, <2>3, <2>4, <2>5 DEF WriteAll
  <2>8. Jobs' = work
    BY <1>3, <2>7 DEF Jobs
  <2>9. Settled(left, l, work)
    BY <2>6 DEF Taken, Settled
  <2>10. Agreed(left, l)
    <3>1. work \cap Undecided = {}
      BY Decisions DEF Undecided
    <3>2. \A c \in left.cands : Reconcile(c, left.lcs, l.confirmed) \notin Undecided =>
             Reconcile(c, left.lcs, l.confirmed) \in work
      BY <2>6 DEF Taken, Undecided
    <3> QED
      BY <2>6, <3>2 DEF Agreed, Batch
  <2>11. \A j \in todo' \cap Polls : todo' = {j}
    <3>1. todo' \cap Polls = rest
      BY <1>3, <2>7
    <3>2. rest # {} => work = {}
      BY <2>1, <2>3
    <3> QED
      BY <2>7, <3>1, <3>2
  <2> QED
    BY <1>1, <1>7, <2>6, <2>7, <2>8, <2>9, <2>10, <2>11, OrderlyNext
<1>8. CASE todo' = {} /\ up' = FALSE /\ enabled /\ session' = session
           /\ \E l : Writes(l) /\ local' = l
  <2>1. PICK l : Writes(l) /\ local' = l
    BY <1>8
  <2>2. Agreed(ses, l)
    BY <1>1, <1>2, <1>5, <2>1, AgreedWritten
  <2>3. Jobs' = {} /\ Shape(ses) /\ session' = ses
    BY <1>1, <1>5, <1>8 DEF Jobs
  <2> QED
    BY <1>1, <1>4, <1>8, <2>1, <2>2, <2>3, OrderlyNext
<1>9. CASE ~enabled /\ todo' = rest /\ UNCHANGED <<local, session, up>>
  <2>1. Jobs' = {} /\ session' = ses /\ local' = loc
    BY <1>3, <1>5, <1>6, <1>9 DEF Jobs
  <2>2. Shape(ses) /\ Agreed(ses, loc) /\ Settled(ses, loc, {})
    BY <1>1, <1>5, <1>6
  <2>3. \A j \in todo' \cap Polls : todo' = {j}
    BY <1>9
  <2> QED
    BY <1>1, <1>4, <1>9, <2>1, <2>2, <2>3, OrderlyNext
<1>10. ASSUME NEW out \in outs, enabled, WriteLocalOnly(out)
       PROVE  Orderly'
  <2>1. Writes(out.local)
    BY <1>10 DEF Sound
  <2>2. PICK l : l = out.local
    OBVIOUS
  <2>3. Writes(l) /\ local' = l
    BY <1>10, <2>1, <2>2 DEF WriteLocalOnly
  <2> QED
    BY <1>8, <1>10, <2>3 DEF WriteLocalOnly, Stopped
<1>11. ASSUME enabled, WriteNothing
       PROVE  Orderly'
  <2>1. PICK l : l = local
    OBVIOUS
  <2>2. Writes(l) /\ local' = l
    BY <1>11, <2>1 DEF WriteNothing, Writes
  <2> QED
    BY <1>8, <1>11, <2>2 DEF WriteNothing, Stopped
<1> QED
  BY <1>7, <1>9, <1>10, <1>11 DEF Apply

(* The rest of a batch.                                                    *)
LEMMA JobOrderly ==
  ASSUME IInv, Orderly, UNCHANGED <<setup, now, shown, enabled>>,
         NEW job \in Jobs, NEW outs, outs = HandleE3(job, local, Pruned),
         Apply(outs, todo \ {job})
  PROVE  Orderly'
<1>1. /\ Shape(session) /\ Fresh(session) /\ Agreed(session, local) /\ up /\ enabled
      /\ Settled(session, local, Jobs) /\ Batch(Jobs) /\ ShownApart'
  BY DEF Orderly, Apply, ShownApart
<1>2. todo = Jobs /\ Jobs \subseteq Verdicts
  <2>1. todo \cap Polls = {}
    BY PollsApart DEF Orderly, Jobs
  <2> QED
    BY <2>1 DEF IInv, Types, Jobs
<1>3. PICK ses \in Sessions : ses = session
  BY DEF IInv, Types
<1>4. PICK loc : loc = local
  OBVIOUS
<1>5. PICK jobs \in SUBSET Verdicts : jobs = Jobs
  BY <1>2
<1>6. PICK pruned \in Sessions : pruned = Pruned
  BY PrunedTypes
<1>7. pruned.lcs = ses.lcs /\ pruned.cands = ses.cands
  BY <1>1, <1>3, <1>6 DEF Fresh, Pruned
<1>8. /\ Shape(ses) /\ Fresh(ses) /\ Agreed(ses, local) /\ Settled(ses, local, jobs)
      /\ Batch(jobs) /\ Matching(ses) /\ Matching(pruned)
  BY <1>1, <1>3, <1>5, <1>6, PrunedTypes DEF IInv, Types
<1>9. Shape(pruned) /\ Fresh(pruned) /\ Agreed(pruned, local) /\ Settled(pruned, local, jobs)
  BY <1>7, <1>8 DEF Shape, Fresh, Agreed, Settled
<1>10. job \in jobs /\ outs = HandleE3(job, local, pruned) /\ local \in Stores
  BY <1>5, <1>6 DEF IInv, Types
<1>11. Batch(jobs \ {job}) /\ Batch({})
  BY <1>8 DEF Batch
<1>12. CASE \E out \in outs : WriteAll(out, todo \ {job})
  <2>1. PICK out \in outs : WriteAll(out, todo \ {job})
    BY <1>12
  <2>2. PICK left : left = out.session
    OBVIOUS
  <2>3. PICK l : l = out.local
    OBVIOUS
  <2>4. /\ Shape(left) /\ Fresh(left) /\ Agreed(left, l) /\ Settled(left, l, jobs \ {job})
    BY <1>8, <1>9, <1>10, <2>1, <2>2, <2>3, JobKeeps
  <2>5. out.work = {}
    BY <1>10, <2>1, HandleE3Cases
  <2>6. local' = l /\ session' = left /\ todo' = jobs \ {job} /\ UNCHANGED up
    BY <1>2, <1>5, <2>1, <2>2, <2>3, <2>5 DEF WriteAll
  <2>7. Jobs' = jobs \ {job}
    BY <2>6 DEF Jobs
  <2>8. \A j \in todo' \cap Polls : todo' = {j}
    BY <2>6, PollsApart
  <2> QED
    BY <1>1, <1>11, <2>4, <2>6, <2>7, <2>8, OrderlyNext
<1>13. ASSUME NEW l, Agreed(ses, l), local' = l, session' = session, todo' = {}, up' = FALSE
       PROVE  Orderly'
  <2>1. Jobs' = {} /\ session' = ses
    BY <1>3, <1>13 DEF Jobs
  <2> QED
    BY <1>1, <1>8, <1>11, <1>13, <2>1, OrderlyNext
<1>14. CASE \E out \in outs : WriteLocalOnly(out)
  <2>1. PICK out \in outs : WriteLocalOnly(out)
    BY <1>14
  <2>2. PICK l : l = out.local
    OBVIOUS
  <2>3. \/ l = local
        \/ /\ l.confirmed = [local.confirmed EXCEPT ![job.sub] = None]
           /\ local.confirmed[job.sub] # None
    <3>1. job \in Verdicts /\ out \in HandleE3(job, local, pruned)
      BY <1>10, <2>1
    <3>2. \/ Consumed(job, local, pruned, out) \/ Parked(job, local, pruned, out)
          \/ Bundled(job, local, pruned, out)
      BY <1>10, <3>1, HandleE3Cases
    <3> QED
      BY <2>2, <3>2 DEF Consumed, Parked, Bundled
  <2>4. Agreed(ses, l)
    <3>1. CASE l = local
      BY <1>8, <3>1
    <3>2. CASE l.confirmed = [local.confirmed EXCEPT ![job.sub] = None]
      <4>1. local.confirmed \in [Sub -> Records \cup {None}] /\ job.sub \in Sub
        BY <1>10 DEF Stores, Verdicts
      <4>2. PICK confirmed \in [Sub -> Records \cup {None}] : confirmed = local.confirmed
        BY <4>1
      <4>3. l.confirmed = [confirmed EXCEPT ![job.sub] = None]
        BY <3>2, <4>2
      <4>4. Same(l, job.sub) /\ l.confirmed[job.sub] = None
        BY <4>1, <4>2, <4>3 DEF Same
      <4> QED
        BY <1>8, <4>4, AgreedAfter
    <3> QED
      BY <2>3, <3>1, <3>2
  <2> QED
    BY <1>13, <2>1, <2>2, <2>4 DEF WriteLocalOnly, Stopped
<1>15. CASE WriteNothing
  <2>1. Agreed(ses, loc) /\ local' = loc
    BY <1>4, <1>8, <1>15 DEF WriteNothing
  <2> QED
    BY <1>13, <1>15, <2>1 DEF WriteNothing, Stopped
<1> QED
  BY <1>1, <1>12, <1>14, <1>15 DEF Apply

(* The browser's events.                                                   *)
LEMMA PageOrderly ==
  ASSUME IInv, Orderly, NEW s \in Sub,
         \/ Click(s) \/ SubmitSent(s) \/ SubmitAnswered(s) \/ SubmitFails(s)
         \/ PollSent(s) \/ PollAnswered(s) \/ VerdictReported(s)
  PROVE  Orderly'
<1>1. todo = {} /\ Jobs = {} /\ up /\ UNCHANGED <<setup, now, shown, enabled>>
  BY DEF Click, SubmitSent, SubmitAnswered, SubmitFails, PollSent, PollAnswered,
         VerdictReported, Reported, Apply, Jobs
<1>2. PICK ses \in Sessions : ses = Pruned
  BY PrunedTypes
<1>3. Matching(ses) /\ Idle(ses)
  BY <1>1, <1>2, PrunedTypes, IdleBetween
<1>4. ASSUME NEW outs, NEW rest, Reported(outs, rest),
             \A out \in outs : Sound(out) /\ Kempt(out), rest \in SUBSET Polls,
             \A j \in rest : rest = {j}, rest # {} => \A out \in outs : out.work = {}
      PROVE  Orderly'
  <2>1. Apply(outs, rest)
    BY <1>4 DEF Reported
  <2> QED
    BY <1>1, <1>4, <2>1, ApplyOrderly
<1>5. ASSUME NEW req \in Requests, NEW signal, NEW rest, rest \in SUBSET Polls,
             \A j \in rest : rest = {j}, Reported(HandleE1(req, signal, Pruned), rest)
      PROVE  Orderly'
  <2>1. PICK outs : outs = HandleE1(req, signal, ses)
    OBVIOUS
  <2>2. \A out \in outs : Sound(out) /\ Kempt(out)
    BY <1>3, <2>1, HandleE1Sound, HandleE1Kempt
  <2>3. \A out \in outs : out.work = {}
    <3>1. \A out \in outs : \E left : out = Quiet(local, left)
      BY <2>1 DEF HandleE1
    <3> QED
      BY <3>1 DEF Quiet, Outcome
  <2>4. Reported(outs, rest)
    BY <1>2, <1>5, <2>1 DEF Reported, Apply
  <2> QED
    BY <1>4, <1>5, <2>2, <2>3, <2>4
<1>6. \A j \in {} : {} = {j}
  OBVIOUS
<1>7. CASE Click(s)
  <2>1. PICK outs : outs = HandleE0(s, ses)
    OBVIOUS
  <2>2. \A out \in outs : Sound(out) /\ Kempt(out)
    BY <1>3, <2>1, HandleE0Sound, HandleE0Kempt
  <2>3. Reported(outs, {})
    BY <1>2, <1>7, <2>1 DEF Click, Reported, Apply
  <2> QED
    BY <1>4, <2>2, <2>3
<1>8. CASE SubmitSent(s) \/ SubmitAnswered(s) \/ SubmitFails(s)
  <2>1. \E signal : Reported(HandleE1(<<s, 0>>, signal, Pruned), {})
    BY <1>8 DEF SubmitSent, SubmitAnswered, SubmitFails
  <2>2. <<s, 0>> \in Requests
    BY Seeing
  <2> QED
    BY <1>5, <2>1, <2>2
<1>9. polls[s] \in Nat /\ polls[s] + 1 \in Nat
  BY DEF IInv, Types
<1>10. CASE PollSent(s)
  <2>1. PICK req : req = <<s, polls[s] + 1>>
    OBVIOUS
  <2>2. req \in Requests
    BY <1>9, <2>1, Seeing
  <2>3. Reported(HandleE1(req, "before", Pruned), {})
    BY <1>10, <2>1 DEF PollSent
  <2> QED
    BY <1>5, <2>2, <2>3
<1>11. CASE PollAnswered(s)
  <2>1. PICK req : req = <<s, polls[s]>>
    OBVIOUS
  <2>2. req \in Requests
    BY <1>9, <2>1, Seeing
  <2>3. Reported(HandleE1(req, "completed", Pruned), {[poll |-> req]})
    BY <1>11, <2>1 DEF PollAnswered
  <2>4. PICK rest : rest = {[poll |-> req]}
    OBVIOUS
  <2>5. rest \in SUBSET Polls /\ \A j \in rest : rest = {j}
    BY <2>2, <2>4 DEF Polls
  <2>6. Reported(HandleE1(req, "completed", Pruned), rest)
    BY <2>3, <2>4
  <2> QED
    BY <1>5, <2>2, <2>5, <2>6
<1>12. CASE VerdictReported(s)
  <2> DEFINE e3 == [sub |-> s, at |-> shown[s].at, prob |-> Prob(s), of |-> s, cand |-> FALSE]
             c == [sub |-> s, at |-> shown[s].at, req |-> shown[s].req]
  <2>1. shown[s] \in Seen
    BY <1>12 DEF VerdictReported, IInv, Types
  <2>2. /\ e3 \in Verdicts /\ c \in Candidates /\ e3.sub = s /\ c.sub = s
        /\ ~e3.cand /\ c.req = shown[s].req
    BY <2>1, SetupTypes DEF Seen, Verdicts, Candidates
  <2>3. PICK outs : outs = IF setup[s].flow = "status" THEN HandleE3(e3, local, ses)
                           ELSE HandleCandidate(c, ses)
    OBVIOUS
  <2>4. Reported(outs, {})
    BY <1>2, <1>12, <2>3 DEF VerdictReported, Reported, Apply
  <2>5. Doc(s) = (IF setup[s].flow = "status" THEN "nc" ELSE "lc")
    BY DEF Doc
  <2>6. c.req # NoRequest => c.req[1] = c.sub
    <3>1. shown[s] # None
      BY <1>12 DEF VerdictReported
    <3> QED
      BY <2>2, <3>1 DEF Orderly, ShownApart
  <2>7. local \in Stores
    BY DEF IInv, Types
  <2> HIDE DEF e3, c
  <2>8. \A out \in outs : Sound(out) /\ Kempt(out)
    <3>1. CASE setup[s].flow = "status"
      BY <1>3, <2>2, <2>3, <2>5, <2>7, <3>1, HandleE3Sound, HandleE3Kempt
    <3>2. CASE setup[s].flow # "status"
      BY <1>3, <2>2, <2>3, <2>5, <2>6, <3>2, HandleCandidateSound, HandleCandidateKempt
    <3> QED
      BY <3>1, <3>2
  <2> QED
    BY <1>4, <2>4, <2>8
<1> QED
  BY <1>7, <1>8, <1>10, <1>11, <1>12

LEMMA WorkOrderly ==
  ASSUME IInv, Orderly, Work
  PROVE  Orderly'
<1>1. PICK job \in todo :
          Apply(IF "poll" \in DOMAIN job THEN HandlePoll(job.poll[1], job.poll[2], Pruned)
                ELSE HandleE3(job, local, Pruned), todo \ {job})
  BY DEF Work
<1>2. PICK outs : outs = IF "poll" \in DOMAIN job
                         THEN HandlePoll(job.poll[1], job.poll[2], Pruned)
                         ELSE HandleE3(job, local, Pruned)
  OBVIOUS
<1>3. PICK rest : rest = todo \ {job}
  OBVIOUS
<1>4. Apply(outs, rest) /\ UNCHANGED <<setup, now, shown, enabled>> /\ up
  BY <1>1, <1>2, <1>3 DEF Apply, WriteAll, Work, browser
<1>5. job \in Polls \cup Verdicts
  BY <1>1 DEF IInv, Types
<1>6. CASE job \in Polls
  <2>1. "poll" \in DOMAIN job /\ job.poll[1] \in Sub /\ job.poll[2] \in Nat
    BY <1>6 DEF Polls, Requests
  <2>2. todo = {job} /\ rest = {} /\ Jobs = {}
    BY <1>1, <1>3, <1>6, PollsApart DEF Orderly, Jobs
  <2>3. Idle(Pruned) /\ Shape(session)
        /\ \A c \in session.cands : Reconcile(c, session.lcs, local.confirmed) \in Undecided
    BY <1>4, <2>2, IdleBetween DEF Orderly
  <2>4. PICK s \in Sub : s = job.poll[1]
    BY <2>1
  <2>5. PICK n \in Nat : n = job.poll[2]
    BY <2>1
  <2>6. outs = HandlePoll(s, n, Pruned)
    BY <1>2, <2>1, <2>4, <2>5
  <2>7. \A out \in outs : Sound(out) /\ Kempt(out)
    BY <2>3, <2>6, HandlePollSound, HandlePollKempt
  <2> QED
    BY <1>4, <2>2, <2>7, ApplyOrderly
<1>7. CASE job \in Verdicts
  <2>1. "poll" \notin DOMAIN job /\ job \in Jobs
    BY <1>1, <1>7 DEF Verdicts, Jobs
  <2>2. outs = HandleE3(job, local, Pruned) /\ Apply(outs, todo \ {job})
    BY <1>2, <1>3, <1>4, <2>1
  <2> QED
    BY <1>4, <2>1, <2>2, JobOrderly
<1> QED
  BY <1>5, <1>6, <1>7

(* A worker that starts finds one batch, and none while capture is off.    *)
LEMMA ReinstalledOrderly ==
  ASSUME IInv, Orderly, todo = {}, Reinstalled, UNCHANGED <<setup, now, shown, local>>,
         up', enabled' \/ ~enabled
  PROVE  Orderly'
<1>1. PICK lcs \in SUBSET Lifecycles : lcs = Pruned.lcs
  BY PrunedTypes, SessionParts
<1>2. PICK cands \in SUBSET Candidates : cands = Pruned.cands
  BY PrunedTypes, SessionParts
<1>3. PICK loc : loc = local
  OBVIOUS
<1>4. PICK confirmed : confirmed = loc.confirmed
  OBVIOUS
<1>5. PICK jobs : jobs = Resolutions(cands, lcs, confirmed)
  OBVIOUS
<1>6. PICK left : left = [Pruned EXCEPT !.cands = Kept(cands, lcs, confirmed)]
  OBVIOUS
<1>7. left.lcs = lcs /\ left.cands = Kept(cands, lcs, confirmed)
  BY <1>1, <1>6, PrunedTypes DEF Sessions
<1>8. session' = left /\ todo' = jobs /\ local' = loc
  BY <1>1, <1>2, <1>3, <1>4, <1>5, <1>6 DEF Reinstalled
<1>9. Shape(session) /\ Agreed(session, local) /\ ShownApart'
  BY DEF Orderly, ShownApart
<1>10. /\ Shape(Pruned) /\ Fresh(Pruned) /\ Keyed(lcs)
       /\ \A e \in lcs : e.out = "matched" => e.sid \in Sub
  BY <1>1, <1>9, PrunedShape, PrunedTypes DEF Fresh, Pruned, Shape, Matching
<1>11. jobs \subseteq Verdicts /\ jobs = Jobs'
  BY <1>2, <1>5, <1>8, <1>10, KeptResolved DEF Jobs
<1>12. \A j \in jobs : /\ j.cand /\ ~Expired(j.at, E1Ttl)
                       /\ \E c \in cands : /\ j = Reconcile(c, lcs, confirmed)
                                           /\ j \notin Undecided
  BY <1>5, <1>10, ResultsYoung
<1>13. \A c \in cands :
          /\ c \in session.cands
          /\ Reconcile(c, lcs, confirmed) \notin Undecided =>
               Reconcile(c, session.lcs, local.confirmed) = Reconcile(c, lcs, confirmed)
  BY <1>1, <1>2, <1>3, <1>4, <1>9, PrunedSame DEF Pruned
<1>14. \A c, d \in cands :
          /\ Reconcile(c, lcs, confirmed) \notin Undecided
          /\ Reconcile(d, lcs, confirmed) \notin Undecided
          => Reconcile(c, lcs, confirmed).sub = Reconcile(d, lcs, confirmed).sub
  BY <1>9, <1>13 DEF Agreed
<1>15. Batch(jobs)
  BY <1>12, <1>14 DEF Batch
<1>16. \A c \in left.cands :
          /\ c \in cands
          /\ Reconcile(c, lcs, confirmed) = Pending \/ Reconcile(c, lcs, confirmed) \in jobs
  BY <1>5, <1>7, KeptTaken
<1>17. Settled(left, loc, jobs) /\ Agreed(left, loc)
  BY <1>4, <1>7, <1>14, <1>16 DEF Settled, Agreed
<1>18. Shape(left) /\ Fresh(left)
  BY <1>1, <1>2, <1>7, <1>10, <1>16 DEF Shape, Fresh
<1>19. jobs # {} => enabled'
  <2>1. SUFFICES ASSUME ~enabled' PROVE jobs = {}
    OBVIOUS
  <2>2. Jobs = {}
    BY DEF Jobs
  <2>3. \A c \in cands : Reconcile(c, lcs, confirmed) \in Undecided
    BY <1>1, <1>2, <1>3, <1>4, <2>1, <2>2, IdleBetween DEF Idle
  <2> QED
    BY <1>12, <2>3
<1>20. \A j \in todo' \cap Polls : todo' = {j}
  BY <1>8, <1>11, PollsApart
<1> QED
  BY <1>8, <1>9, <1>11, <1>15, <1>17, <1>18, <1>19, <1>20, OrderlyNext

LEMMA WorkerOrderly ==
  ASSUME IInv, Orderly, Install \/ WorkerStops \/ SetCaptureEnabled \/ Drain
  PROVE  Orderly'
<1>1. /\ Shape(session) /\ Agreed(session, local) /\ Batch({})
      /\ UNCHANGED <<setup, now, shown>> /\ ShownApart'
  BY DEF Orderly, ShownApart, Batch, Install, WorkerStops, SetCaptureEnabled, Drain, browser
<1>2. PICK ses : ses = session
  OBVIOUS
<1>3. PICK loc : loc = local
  OBVIOUS
<1>4. CASE Install
  BY <1>4, ReinstalledOrderly DEF Install, browser
<1>5. CASE WorkerStops
  <2>1. /\ todo' = {} /\ Jobs' = {} /\ ~up' /\ UNCHANGED <<local, session, enabled>>
    BY <1>5 DEF WorkerStops, Stopped, Jobs
  <2>2. ~enabled => Settled(ses, loc, {})
    BY <1>2, <1>3 DEF Orderly
  <2> QED
    BY <1>1, <1>2, <1>3, <2>1, <2>2, OrderlyNext
<1>6. CASE SetCaptureEnabled /\ ~enabled
  BY <1>6, ReinstalledOrderly DEF SetCaptureEnabled, browser
<1>7. CASE SetCaptureEnabled /\ enabled
  <2>1. /\ up /\ Jobs = {} /\ session' = Pruned /\ todo' = {} /\ Jobs' = {} /\ UNCHANGED local
    BY <1>7 DEF SetCaptureEnabled, Jobs
  <2>2. Idle(Pruned)
    BY <2>1, IdleBetween
  <2>3. PICK left : left = Pruned
    OBVIOUS
  <2>4. Shape(left) /\ Settled(left, loc, {}) /\ Agreed(left, loc)
    BY <1>3, <2>2, <2>3 DEF Idle, Settled, Agreed, Undecided
  <2>5. session' = left /\ local' = loc /\ (todo' # {} => up')
    BY <1>3, <2>1, <2>3
  <2>6. \A j \in todo' \cap Polls : todo' = {j}
    BY <2>1
  <2> QED
    BY <1>1, <2>1, <2>4, <2>5, <2>6, OrderlyNext
<1>8. CASE Drain
  <2>1. /\ up /\ todo = {} /\ UNCHANGED <<session, todo, up, enabled>>
        /\ \E b : local' = [local EXCEPT !.outbox = @ \ {b}]
    BY <1>8 DEF Drain
  <2>2. PICK l : l = local'
    OBVIOUS
  <2>3. l.confirmed = loc.confirmed
    BY <1>3, <2>1, <2>2 DEF IInv, Types, Stores
  <2>4. Jobs' = {} /\ Jobs = {} /\ Settled(ses, loc, {}) /\ Agreed(ses, loc)
    BY <1>1, <1>2, <1>3, <2>1 DEF Orderly, Jobs
  <2>5. Settled(ses, l, {}) /\ Agreed(ses, l)
    BY <2>3, <2>4 DEF Settled, Agreed
  <2>6. \A j \in todo' \cap Polls : todo' = {j}
    BY <2>1
  <2> QED
    BY <1>1, <1>2, <2>1, <2>2, <2>4, <2>5, <2>6, OrderlyNext
<1> QED
  BY <1>4, <1>5, <1>6, <1>7, <1>8

LEMMA ShownOrderly ==
  ASSUME IInv, Orderly, NEW s \in Sub, VerdictShown(s)
  PROVE  Orderly'
<1>1. UNCHANGED <<setup, now, enabled, up, todo, local, session>>
  BY DEF VerdictShown
<1>2. PICK n, v : /\ shown' = [shown EXCEPT ![s] = v]
                  /\ v.req \in {<<s, 0>>, <<s, n>>, NoRequest}
  <2>1. PICK n : shown' = [shown EXCEPT ![s] =
         [at |-> now, req |-> CASE setup[s].flow = "check" -> <<s, 0>>
                                [] setup[s].flow = "result" -> <<s, n>>
                                [] OTHER -> NoRequest]]
    BY DEF VerdictShown
  <2>2. PICK req : req = CASE setup[s].flow = "check" -> <<s, 0>>
                           [] setup[s].flow = "result" -> <<s, n>>
                           [] OTHER -> NoRequest
    OBVIOUS
  <2>3. req \in {<<s, 0>>, <<s, n>>, NoRequest}
    BY <2>2
  <2>4. PICK v : v = [at |-> now, req |-> req]
    OBVIOUS
  <2>5. shown' = [shown EXCEPT ![s] = v] /\ v.req = req
    BY <2>1, <2>2, <2>4
  <2> QED
    BY <2>3, <2>5
<1>3. ShownApart'
  <2>1. PICK old \in [Sub -> Seen \cup {None}] : old = shown
    BY DEF IInv, Types
  <2>2. shown' = [old EXCEPT ![s] = v] /\ ShownApart
    BY <1>2, <2>1 DEF Orderly
  <2>3. ASSUME NEW t \in Sub, shown'[t] # None, shown'[t].req # NoRequest
        PROVE  shown'[t].req[1] = t
    <3>1. CASE t = s
      <4>1. shown'[t] = v
        BY <2>2, <3>1
      <4>2. v.req \in {<<s, 0>>, <<s, n>>}
        BY <1>2, <2>3, <4>1
      <4> QED
        BY <3>1, <4>1, <4>2
    <3>2. CASE t # s
      <4>1. shown'[t] = shown[t]
        BY <2>1, <2>2, <3>2
      <4> QED
        BY <2>2, <2>3, <4>1 DEF ShownApart
    <3> QED
      BY <3>1, <3>2
  <2> QED
    BY <2>3 DEF ShownApart
<1>4. PICK ses : ses = session
  OBVIOUS
<1>5. PICK loc : loc = local
  OBVIOUS
<1>6. PICK jobs : jobs = Jobs
  OBVIOUS
<1>7. /\ Shape(ses) /\ Agreed(ses, loc) /\ Batch(jobs)
      /\ jobs # {} => enabled' /\ Fresh(ses)
      /\ up' \/ ~enabled' => Settled(ses, loc, jobs)
      /\ \A j \in todo' \cap Polls : todo' = {j}
      /\ todo' # {} => up'
      /\ jobs = Jobs'
  BY <1>1, <1>4, <1>5, <1>6 DEF Orderly, Jobs
<1> QED
  BY <1>1, <1>3, <1>4, <1>5, <1>7, OrderlyNext

(* Time lets candidates expire, and does so between jobs.                  *)
LEMMA TickOrderly ==
  ASSUME IInv, Orderly, Tick
  PROVE  Orderly'
<1>1. /\ todo = {} /\ now' = now + 1 /\ now \in Nat
      /\ UNCHANGED <<setup, shown, enabled, up, todo, local, session>>
  BY DEF Tick, IInv, Types
<1>2. Jobs = {} /\ Jobs' = {}
  BY <1>1 DEF Jobs
<1>3. PICK ses \in Sessions : ses = session
  BY DEF IInv, Types
<1>4. PICK loc : loc = local
  OBVIOUS
<1>5. Shape(ses) /\ Agreed(ses, loc) /\ (up \/ ~enabled => Settled(ses, loc, {}))
  BY <1>2, <1>3, <1>4 DEF Orderly
<1>6. \A c \in ses.cands :
         \/ Reconcile(c, ses.lcs, loc.confirmed)' = Terminal
         \/ Reconcile(c, ses.lcs, loc.confirmed)' = Reconcile(c, ses.lcs, loc.confirmed)
  BY <1>1, LaterJoin, SessionParts
<1>7. Agreed(ses, loc)'
  BY <1>5, <1>6 DEF Agreed, Undecided
<1>8. up \/ ~enabled => Settled(ses, loc, {})'
  BY <1>5, <1>6 DEF Settled
<1>9. Shape(ses)'
  <2>1. \A s : Doc(s)' = Doc(s)
    BY <1>1 DEF Doc
  <2> QED
    BY <1>5, <2>1 DEF Shape, Keyed, DocOf
<1>10. Shape(session)' /\ Agreed(session, local)'
  BY <1>1, <1>3, <1>4, <1>7, <1>9
<1>11. up' \/ ~enabled' => Settled(session, local, Jobs)'
  BY <1>1, <1>2, <1>3, <1>4, <1>8
<1>12. ShownApart'
  BY <1>1 DEF Orderly, ShownApart
<1>13. Batch(Jobs)'
  BY <1>2 DEF Batch
<1> QED
  BY <1>1, <1>2, <1>10, <1>11, <1>12, <1>13 DEF Orderly

LEMMA InitOrderly ==
  ASSUME Init
  PROVE  Orderly
<1>1. /\ session.lcs = {} /\ session.cands = {} /\ todo = {}
      /\ \A s \in Sub : shown[s] = None
  BY DEF Init, NoEvidence
<1> QED
  BY <1>1 DEF Orderly, ShownApart, Shape, Keyed, Agreed, Settled, Batch, Jobs

(* A running, enabled worker that is idle has no candidate left that could *)
(* be joined: whatever stopped between a confirmation and its verdict, and *)
(* in whatever order the evidence came, none is stranded.                  *)
THEOREM CandidatesResolved == Spec => []NoStrandedCandidate
<1>1. Init => IInv /\ Orderly
  BY InitInv, InitOrderly
<1>2. IInv /\ Orderly /\ [Next]_vars => IInv' /\ Orderly'
  <2>1. SUFFICES ASSUME IInv, Orderly, [Next]_vars PROVE Orderly'
    BY NextStep
  <2>2. ASSUME NEW s \in Sub,
               \/ Click(s) \/ SubmitSent(s) \/ SubmitAnswered(s) \/ SubmitFails(s)
               \/ PollSent(s) \/ PollAnswered(s) \/ VerdictReported(s)
        PROVE  Orderly'
    BY <2>1, <2>2, PageOrderly
  <2>3. ASSUME NEW s \in Sub, VerdictShown(s) PROVE Orderly'
    BY <2>1, <2>3, ShownOrderly
  <2>4. CASE Install \/ WorkerStops \/ SetCaptureEnabled \/ Drain
    BY <2>1, <2>4, WorkerOrderly
  <2>5. CASE Work
    BY <2>1, <2>5, WorkOrderly
  <2>6. CASE Tick
    BY <2>1, <2>6, TickOrderly
  <2>7. CASE UNCHANGED vars
    <3>1. PICK ses : ses = session
      OBVIOUS
    <3>2. PICK loc : loc = local
      OBVIOUS
    <3>3. PICK jobs : jobs = Jobs
      OBVIOUS
    <3>4. UNCHANGED <<setup, now, shown, enabled, up, todo, local, session>>
      BY <2>7 DEF vars
    <3>5. /\ Shape(ses) /\ Agreed(ses, loc) /\ Batch(jobs)
          /\ jobs # {} => enabled' /\ Fresh(ses)
          /\ up' \/ ~enabled' => Settled(ses, loc, jobs)
          /\ \A j \in todo' \cap Polls : todo' = {j}
          /\ todo' # {} => up'
          /\ jobs = Jobs' /\ ShownApart'
      BY <2>1, <3>1, <3>2, <3>3, <3>4 DEF Orderly, Jobs, ShownApart
    <3> QED
      BY <3>1, <3>2, <3>4, <3>5, OrderlyNext
  <2> QED
    BY <2>1, <2>2, <2>3, <2>4, <2>5, <2>6, <2>7 DEF Next
<1>3. IInv /\ Orderly => NoStrandedCandidate
  <2>1. SUFFICES ASSUME IInv, Orderly, up, enabled, todo = {}
                 PROVE  \A c \in session.cands :
                          Reconcile(c, session.lcs, local.confirmed) \in {Pending, Terminal}
    BY DEF NoStrandedCandidate
  <2> QED
    BY <2>1, IdleBetween DEF Jobs, Undecided
<1> QED
  BY <1>1, <1>2, <1>3, PTL DEF Spec
=============================================================================
