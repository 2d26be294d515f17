------------------------- MODULE CaptureConnection --------------------------
(***************************************************************************)
(* How an extension and the local application come to share a credential,  *)
(* and what it is good for (captureConnectionChallenge.ts, the routes      *)
(* under app/api/capture, captureInstallation.ts, localConnection.ts,      *)
(* background.ts and CaptureConnectionSettings.tsx).  It runs beside the   *)
(* launcher of LocalVault: there is a server to talk to only while the     *)
(* application is serving a vault, and the challenges live in its memory;  *)
(* the installation file lives outside every vault.                        *)
(*                                                                         *)
(* One browser profile is one extension with its own settings page.  A     *)
(* capability is known by the challenge it was made for.  A worker may be  *)
(* stopped while it waits; what it asked of the server goes on.  Each      *)
(* extension has at most one delivery in flight at the server.             *)
(***************************************************************************)
EXTENDS LocalVault, FiniteSets

CONSTANTS
  Extensions,  \* browser profiles with the extension installed
  Clicks,      \* bound: how often the user asks to connect
  MaxActive,   \* 100 challenges
  Setups       \* what there is at the start, and how much of each bound is used

ASSUME ConnectionAssumption ==
  /\ None \notin Extensions
  /\ Clicks \in Nat /\ MaxActive \in Nat \ {0}
  /\ \A s \in Setups :
       /\ s.given \in 0..Commands /\ s.mishaps \in 0..Mishaps /\ s.clicks \in 0..Clicks
       /\ s.vaults \subseteq Dirs /\ s.items \subseteq Extensions
       /\ s.holder \in Extensions \cup {None}
       /\ s.holder # None => s.clicks > 0

VARIABLES
  clicks,     \* how many of the challenges were asked for
  challenge,  \* the challenges: who asked, its state at the server and
              \* whether its minute is over, what its page was told and where
              \* the extension's request for it stands
  file,       \* capture-installation.json
  ext,        \* each extension: its storage and its worker
  delivery,   \* each extension's attempt on its way through the server
  delivered   \* history: whose attempt the server has taken

connectionVars == <<clicks, challenge, file, ext, delivery, delivered>>
vars == <<vaultVars, connectionVars>>

Ids == 1..Clicks
NoCapability == 0
NoChallenge == [by |-> None, state |-> "none", late |-> FALSE, page |-> "none", post |-> "none"]
NoDelivery == [stage |-> "none", cap |-> NoCapability, seen |-> NoCapability,
               inst |-> None, orphan |-> FALSE]
NoProbe == [on |-> FALSE, cap |-> NoCapability, was |-> "connected", got |-> "none"]
NoInstallation == [inst |-> None, version |-> 0, cap |-> NoCapability]

Asked(c) == challenge[c].by # None
Serving == serving # None

(* One of the extensions may have connected before, by the last challenge. *)
Init ==
  /\ VaultInit
  /\ \E s \in Setups :
       LET cap(e) == IF e = s.holder THEN s.clicks ELSE NoCapability
       IN
       /\ given = s.given /\ mishaps = s.mishaps /\ clicks = s.clicks
       /\ {d \in Dirs : Whole(d)} = s.vaults
       /\ s.vaults # {} => pointer # None
       /\ ext = [e \in Extensions |->
            [up |-> FALSE, cap |-> cap(e), item |-> e \in s.items,
             status |-> IF cap(e) = NoCapability THEN "connection_required" ELSE "connected",
             jobs |-> <<>>, stage |-> "run", probe |-> NoProbe]]
       /\ file = IF s.holder = None THEN NoInstallation
                 ELSE [inst |-> s.holder, version |-> 1, cap |-> s.clicks]
  /\ challenge = [c \in Ids |-> NoChallenge]
  /\ delivery = [e \in Extensions |-> NoDelivery]
  /\ delivered = [e \in Extensions |-> FALSE]

Set(e, x) == ext' = [ext EXCEPT ![e] = x]
Status(x, s) == [x EXCEPT !.status = s]
Finish(x) == [x EXCEPT !.jobs = Tail(@), !.stage = "run"]

-----------------------------------------------------------------------------
(* The challenges.  A challenge lives a minute, the oldest expiring first. *)

Expire(c) ==
  /\ Asked(c) /\ ~challenge[c].late
  /\ \A b \in 1..(c - 1) : Asked(b) => challenge[b].late
  /\ challenge' = [challenge EXCEPT ![c].late = TRUE]
  /\ UNCHANGED <<vaultVars, clicks, file, ext, delivery, delivered>>

(* What is left in the store before a challenge is added: those over two   *)
(* minutes old are pruned, and then the oldest go until there is room.     *)
Kept(pruned) ==
  LET rest == {c \in Ids \ pruned : challenge[c].state # "none"}
  IN {c \in rest : Cardinality({b \in rest : b > c}) + 1 < MaxActive}

(* Mutant: a worker that starts does not ask.                              *)
WokenQuietly(x) == [x EXCEPT !.up = TRUE]
(* A worker that starts asks what its capability is worth.                 *)
Woken(x) ==
  IF x.cap = NoCapability
  THEN [x EXCEPT !.up = TRUE, !.status = "connection_required"]
  ELSE [x EXCEPT !.up = TRUE, !.probe = [on |-> TRUE, cap |-> x.cap,
                                         was |-> x.status, got |-> "none"]]
Awake(x) == IF x.up THEN x ELSE Woken(x)

(* The page gets a challenge and hands it to the extension, whose worker   *)
(* is woken for it and queues a job.                                       *)
Click(e) ==
  LET c == clicks + 1 IN
  /\ Serving
  /\ clicks < Clicks
  /\ \A b \in Ids : challenge[b].by = e => challenge[b].page # "waiting"
  /\ clicks' = c
  /\ \E pruned \in SUBSET {b \in Ids : challenge[b].late} :
       challenge' = [b \in Ids |->
         IF b = c THEN [by |-> e, state |-> "pending", late |-> FALSE,
                        page |-> "waiting", post |-> "none"]
         ELSE IF b \in Kept(pruned) THEN challenge[b]
         ELSE [challenge[b] EXCEPT !.state = "none"]]
  /\ Set(e, [Awake(ext[e]) EXCEPT !.jobs = Append(@, c)])
  /\ UNCHANGED <<vaultVars, file, delivery, delivered>>

Told(c) ==
  CASE challenge[c].state = "none" -> "failed"
    [] challenge[c].state = "pending" /\ challenge[c].late -> "expired"
    [] challenge[c].state = "pending" -> challenge[c].page
    [] OTHER -> challenge[c].state

(* The page polls for its last challenge until it is told.                 *)
Poll(c) ==
  /\ challenge[c].page \in {"waiting", "unreachable"}
  /\ \A b \in (c + 1)..Clicks : challenge[b].by # challenge[c].by
  /\ challenge' = [challenge EXCEPT ![c].page = IF Serving THEN Told(c) ELSE "unreachable"]
  /\ UNCHANGED <<vaultVars, clicks, file, ext, delivery, delivered>>

(* The page is closed or loaded again, and its challenge given up.         *)
LeavePage(c) ==
  /\ challenge[c].page = "waiting"
  /\ challenge' = [challenge EXCEPT ![c].page = "failed"]
  /\ UNCHANGED <<vaultVars, clicks, file, ext, delivery, delivered>>

Open(c) == challenge[c].state = "pending" /\ ~challenge[c].late

(* The server takes the request: one use, within the minute.               *)
Complete(c) ==
  /\ challenge[c].post = "sent" /\ Serving
  /\ IF Open(c)
     THEN /\ file' = [inst |-> challenge[c].by, version |-> file.version + 1, cap |-> c]
          /\ challenge' = [challenge EXCEPT ![c].state = "connected", ![c].post = "done"]
     ELSE /\ challenge' = [challenge EXCEPT ![c].post = "denied"]
          /\ UNCHANGED file
  /\ UNCHANGED <<vaultVars, clicks, ext, delivery, delivered>>

(* The installation file cannot be written.                                *)
CompleteFails(c) ==
  /\ challenge[c].post = "sent" /\ Serving /\ Open(c)
  /\ mishaps < Mishaps
  /\ mishaps' = mishaps + 1
  /\ challenge' = [challenge EXCEPT ![c].state = "failed", ![c].post = "denied"]
  /\ UNCHANGED <<files, pointer, launcher, serving, given, torn,
                 clicks, file, ext, delivery, delivered>>

Unanswered(c) ==
  /\ challenge[c].post = "sent" /\ ~Serving
  /\ challenge' = [challenge EXCEPT ![c].post = "denied"]
  /\ UNCHANGED <<vaultVars, clicks, file, ext, delivery, delivered>>

-----------------------------------------------------------------------------
(* The worker: jobs run one after the other.  A job is a challenge to      *)
(* complete, or 0 for a delivery; a completed connection delivers too,     *)
(* before its job ends.                                                    *)

Flush == 0
Delivering(e) == ext[e].jobs # <<>> /\ (Head(ext[e].jobs) = Flush \/ ext[e].stage = "flush")
Connecting(e) == ext[e].jobs # <<>> /\ ~Delivering(e)

Wake(e) ==
  /\ ~ext[e].up
  /\ Set(e, Woken(ext[e]))
  /\ UNCHANGED <<vaultVars, clicks, challenge, file, delivery, delivered>>

(* The flush alarm.                                                        *)
Alarm(e) ==
  /\ ext[e].up /\ ext[e].item /\ ext[e].jobs = <<>>
  /\ Set(e, [ext[e] EXCEPT !.jobs = <<Flush>>])
  /\ UNCHANGED <<vaultVars, clicks, challenge, file, delivery, delivered>>

Connect(e) ==
  LET c == Head(ext[e].jobs)
      x == ext[e]
  IN
  /\ Connecting(e)
  /\ \/ /\ challenge[c].post = "none"
        /\ challenge' = [challenge EXCEPT ![c].post = "sent"]
        /\ UNCHANGED ext
     \/ /\ challenge[c].post = "done"
        /\ Set(e, [Status(x, "connected") EXCEPT !.cap = c, !.stage = "flush"])
        /\ UNCHANGED challenge
     \/ /\ challenge[c].post = "denied"
        /\ Set(e, Finish(Status(x, "capability_rejected")))
        /\ UNCHANGED challenge
  /\ UNCHANGED <<vaultVars, clicks, file, delivery, delivered>>

(* A delivery begins, if there is anything to deliver and to show for it.  *)
Deliver(e) ==
  LET x == ext[e] IN
  /\ Delivering(e) /\ delivery[e].stage = "none"
  /\ IF ~x.item
     THEN Set(e, Finish(x)) /\ UNCHANGED delivery
     ELSE IF x.cap = NoCapability
     THEN Set(e, Finish(Status(x, "connection_required"))) /\ UNCHANGED delivery
     ELSE /\ delivery' = [delivery EXCEPT ![e] = [NoDelivery EXCEPT !.stage = "sent", !.cap = x.cap]]
          /\ UNCHANGED ext
  /\ UNCHANGED <<vaultVars, clicks, challenge, file, delivered>>

(* The capability is authorized before the body is read ...                *)
Authorize(e) ==
  LET r == delivery[e] IN
  /\ r.stage = "sent"
  /\ delivery' = [delivery EXCEPT ![e] =
       IF ~Serving THEN [r EXCEPT !.stage = "unreachable"]
       ELSE IF file.cap = r.cap
       THEN [r EXCEPT !.stage = "body", !.inst = file.inst, !.seen = file.version]
       ELSE [r EXCEPT !.stage = "refused"]]
  /\ UNCHANGED <<vaultVars, clicks, challenge, file, ext, delivered>>

(* Mutants: the file is not read again, or is written back as it was.      *)
AdmittedOnce(e) == delivery[e].inst = e
Admitted(e) == delivery[e].inst = e /\ file.inst = e
TouchedAsSeen(e) ==
  [inst |-> e, version |-> delivery[e].seen, cap |-> delivery[e].cap]
Touched(e) == file

(* ... and the installation is read again, checked and touched after it.   *)
Accept(e) ==
  LET r == delivery[e] IN
  /\ r.stage = "body"
  /\ IF Serving /\ Admitted(e)
     THEN /\ file' = Touched(e)
          /\ delivered' = [delivered EXCEPT ![e] = TRUE]
          /\ delivery' = [delivery EXCEPT ![e].stage = "taken"]
     ELSE /\ delivery' = [delivery EXCEPT ![e].stage =
               IF Serving THEN "refused" ELSE "unreachable"]
          /\ UNCHANGED <<file, delivered>>
  /\ UNCHANGED <<vaultVars, clicks, challenge, ext>>

Answers == {"taken", "refused", "unreachable"}
(* Mutant: only the good answer is translated.                             *)
StatusUntranslated(stage) == IF stage = "taken" THEN "connected" ELSE stage
StatusOf(stage) ==
  CASE stage = "taken" -> "connected"
    [] stage = "refused" -> "capability_rejected"
    [] OTHER -> "service_unreachable"

(* The worker is told, unless it is no longer the one that asked.          *)
Answer(e) ==
  LET r == delivery[e] IN
  /\ r.stage \in Answers
  /\ IF r.orphan THEN UNCHANGED ext
     ELSE Set(e, [Finish(Status(ext[e], StatusOf(r.stage))) EXCEPT !.item = r.stage # "taken"])
  /\ delivery' = [delivery EXCEPT ![e] = NoDelivery]
  /\ UNCHANGED <<vaultVars, clicks, challenge, file, delivered>>

(* The probe of a starting worker runs beside its jobs, and its result is  *)
(* written only if it differs from the status there was when it began.     *)
Probe(e) ==
  LET p == ext[e].probe IN
  /\ p.on /\ p.got = "none"
  /\ Set(e, [ext[e] EXCEPT !.probe.got =
       IF ~Serving THEN "service_unreachable"
       ELSE IF file.cap = p.cap THEN "connected" ELSE "capability_rejected"])
  /\ UNCHANGED <<vaultVars, clicks, challenge, file, delivery, delivered>>

Probed(e) ==
  LET p == ext[e].probe IN
  /\ p.got # "none"
  /\ Set(e, [ext[e] EXCEPT !.probe = NoProbe,
                           !.status = IF p.got # p.was THEN p.got ELSE @])
  /\ UNCHANGED <<vaultVars, clicks, challenge, file, delivery, delivered>>

-----------------------------------------------------------------------------
(* Ends.                                                                   *)

Idle(e) == ext[e].jobs = <<>> /\ ~ext[e].probe.on

(* What a stopped worker leaves: its pages are told that it failed.        *)
Drop(e) ==
  LET lost == {ext[e].jobs[i] : i \in DOMAIN ext[e].jobs} IN
  /\ ext[e].up
  /\ Set(e, [ext[e] EXCEPT !.up = FALSE, !.jobs = <<>>, !.stage = "run", !.probe = NoProbe])
  /\ challenge' = [c \in Ids |->
       IF c \in lost /\ challenge[c].page \in {"waiting", "unreachable"}
       THEN [challenge[c] EXCEPT !.page = "failed"] ELSE challenge[c]]
  /\ delivery' = [delivery EXCEPT ![e].orphan = delivery[e].stage # "none"]
  /\ UNCHANGED <<clicks, file, delivered>>

Sleep(e) ==
  /\ Idle(e) /\ Drop(e)
  /\ UNCHANGED vaultVars

Crash(e) ==
  /\ ~Idle(e) /\ Drop(e)
  /\ mishaps < Mishaps
  /\ mishaps' = mishaps + 1
  /\ UNCHANGED <<files, pointer, launcher, serving, given, torn>>

(* The application ends: its challenges are gone, and the answers under    *)
(* way may be lost.                                                        *)
Forget ==
  /\ \E lost \in BOOLEAN :
       /\ challenge' = [c \in Ids |->
            [challenge[c] EXCEPT !.state = "none",
                                 !.post = IF @ = "done" /\ lost THEN "denied" ELSE @]]
       /\ delivery' = [e \in Extensions |->
            [delivery[e] EXCEPT !.stage = IF @ \in {"taken", "refused"} /\ lost
                                          THEN "unreachable" ELSE @]]
  /\ UNCHANGED <<clicks, file, ext, delivered>>

Challenged(c) == Complete(c) \/ Unanswered(c)
Progress(e) ==
  \/ Wake(e) \/ Alarm(e) \/ Connect(e) \/ Deliver(e) \/ Authorize(e)
  \/ Accept(e) \/ Answer(e) \/ Probe(e) \/ Probed(e) \/ Sleep(e)

Next ==
  \/ \E l \in Launchers : Exit(l) /\ Forget
  \/ \E l \in Launchers :
       (Command(l) \/ Work(l) \/ Fail(l) \/ Kill(l)) /\ UNCHANGED connectionVars
  \/ \E e \in Extensions : Click(e) \/ Progress(e) \/ Crash(e)
  \/ \E c \in Ids : Expire(c) \/ Poll(c) \/ LeavePage(c) \/ Challenged(c) \/ CompleteFails(c)

(* Requests are answered, jobs run, and a worker is stopped when it has    *)
(* nothing to do and started again by its alarms.                          *)
Spec ==
  /\ Init /\ [][Next]_vars
  /\ \A e \in Extensions : WF_vars(Progress(e))
  /\ \A c \in Ids : WF_vars(Challenged(c))

-----------------------------------------------------------------------------

Statuses == {"connected", "connection_required", "service_unreachable", "capability_rejected"}
Capabilities == 0..Clicks
Installer == Extensions \cup {None}

Challenges ==
  [by : Installer, late : BOOLEAN,
   state : {"none", "pending", "connected", "failed"},
   page : {"none", "waiting", "unreachable", "connected", "expired", "failed"},
   post : {"none", "sent", "done", "denied"}]
Probes == [on : BOOLEAN, cap : Capabilities, was : Statuses, got : Statuses \cup {"none"}]
Workers ==
  [up : BOOLEAN, cap : Capabilities, status : Statuses, item : BOOLEAN,
   jobs : Seq(Capabilities), stage : {"run", "flush"}, probe : Probes]
Deliveries ==
  [stage : {"none", "sent", "body"} \cup Answers, cap : Capabilities, seen : Nat,
   inst : Installer, orphan : BOOLEAN]

TypeOK ==
  /\ VaultTypeOK
  /\ clicks \in 0..Clicks
  /\ challenge \in [Ids -> Challenges]
  /\ file \in [inst : Installer, version : Nat, cap : Capabilities]
  /\ ext \in [Extensions -> Workers]
  /\ delivery \in [Extensions -> Deliveries]
  /\ delivered \in [Extensions -> BOOLEAN]

(* POST attempts authorizes a capability, then waits for the body.  What   *)
(* it takes after that wait is still an attempt of the installation that   *)
(* is connected, though another one may have connected meanwhile.          *)
AcceptedIsCurrent ==
  [][\A e \in Extensions : delivered'[e] # delivered[e] => file.inst = e]_vars

(* A credential that was replaced never comes back: touching the           *)
(* installation after the wait does not write what was read before it.     *)
CredentialNeverReturns == [][file'.version >= file.version]_vars

(* A page that was told its challenge has expired is told the truth: the   *)
(* extension's request for it, however late, connects nothing.             *)
ExpiredIsFinal ==
  \A c \in Ids : challenge[c].page = "expired" =>
    /\ file.cap # c
    /\ \A e \in Extensions : ext[e].cap # c

(* Once the application stays up, what each extension shows settles on the *)
(* truth: connected exactly when it holds the current capability, whatever *)
(* answers it lost and whoever else connected.                             *)
Holds(e) == ext[e].cap # NoCapability /\ ext[e].cap = file.cap
StatusSettles ==
  <>[]Serving => <>[](\A e \in Extensions : ext[e].status = "connected" <=> Holds(e))
=============================================================================
