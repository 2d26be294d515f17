----------------------- MODULE CaptureConnection_proofs ---------------------
(***************************************************************************)
(* The vaults, and the system of launcher, server and extensions that      *)
(* extends them.                                                           *)
(*                                                                         *)
(* First VaultsWhole for any number of directories, launchers, commands,   *)
(* failures and kills.  The invariant says what the directory of a         *)
(* launcher holds at each of its steps, that nobody else has anything to   *)
(* do with a directory while it is filled or emptied, and what is left to  *)
(* remove of it at each point of an error path.                            *)
(*                                                                         *)
(* Then type correctness of the connection, the vault invariant carried    *)
(* over to the larger system, the two step properties of the installation  *)
(* file, and that an expired challenge connects nothing.  The last rests   *)
(* on Used: a challenge that has given anyone anything is not pending, and *)
(* only a pending one can be told expired.                                 *)
(***************************************************************************)
EXTENDS CaptureConnection, TLAPS

(* The launcher has put something into its directory, or may yet remove    *)
(* something from it.                                                      *)
Filling == {"describe", "commitDb", "commitDesc", "validate", "point", "undo"}
Owns(l) == Fills(l) /\ launcher[l].pc \in Filling
Owned(d) == \E l \in Launchers : Owns(l) /\ launcher[l].dir = d

(* What there can be of a directory with the removals u still to come.     *)
Settled == {{}, VaultFiles}
UndoState(f, u) ==
  \/ u = <<>> /\ f \in Settled
  \/ u = <<"tmpDesc">> /\ f \ {"tmpDesc"} \in Settled
  \/ u = <<"tmpDb", "tmpDesc">> /\ f \ {"tmpDb", "tmpDesc"} \in Settled
  \/ u = <<"db">> /\ f \ {"db"} = {}
  \/ u = <<"tmpDesc", "db">> /\ f \ {"tmpDesc", "db"} = {}
  \/ u = <<"tmpDb", "tmpDesc", "db">> /\ f \ {"tmpDb", "tmpDesc", "db"} = {}
  \/ u = <<"db", "tmpDb", "tmpDesc">> /\ f \ {"tmpDb", "tmpDesc", "db"} = {}
  \/ u = <<"desc", "db">> /\ f = VaultFiles
  \/ u = <<"tmpDesc", "desc", "db">> /\ f \ {"tmpDesc"} = VaultFiles
  \/ u = <<"tmpDb", "tmpDesc", "desc", "db">> /\ f \ {"tmpDb", "tmpDesc"} = VaultFiles

Holding(pc, f, u) ==
  \/ pc = "describe" /\ f = {"tmpDb"}
  \/ pc = "commitDb" /\ f = {"tmpDb", "tmpDesc"}
  \/ pc = "commitDesc" /\ f = {"db", "tmpDesc"}
  \/ pc \in {"validate", "point"} /\ f = VaultFiles
  \/ pc = "undo" /\ UndoState(f, u)

Coherent(x) ==
  /\ x.pc # "off" => x.dir \in Dirs /\ x.cmd # "none"
  /\ x.pc \in {"fill", "describe", "commitDb", "commitDesc", "undo"}
       => x.cmd \in {"create", "adopt"}
  /\ x.pc \in {"validate", "point"} => x.cmd # "serve"

Coherence == \A l \in Launchers : Coherent(launcher[l])
Contents ==
  \A l \in Launchers :
    Owns(l) => Holding(launcher[l].pc, files[launcher[l].dir], launcher[l].undo)
Alone ==
  \A l \in Launchers : Owns(l) =>
    /\ launcher[l].dir \notin {pointer, serving}
    /\ \A m \in Launchers \ {l} : Busy(m) => launcher[m].dir # launcher[l].dir
Apart ==
  \A l, m \in Launchers :
    Busy(l) /\ Busy(m) /\ launcher[l].cmd # "serve" /\ launcher[m].cmd # "serve"
      /\ launcher[l].dir = launcher[m].dir => l = m
Serves ==
  \A l \in Launchers :
    Busy(l) /\ (launcher[l].cmd = "serve" \/ launcher[l].pc \in {"start", "serving"})
      => Whole(launcher[l].dir)
Rest == \A d \in Dirs : d \in torn \/ Owned(d) \/ files[d] \in Settled

VInv ==
  /\ VaultTypeOK /\ Coherence /\ Contents /\ Alone /\ Apart /\ Serves /\ Rest
  /\ DescribedIsWhole /\ NamedIsWhole

-----------------------------------------------------------------------------
(* What a busy launcher must see to, for its step to keep the invariant.   *)

LEMMA StepKeeps ==
  ASSUME VaultAssumption, VInv, VaultTypeOK', NEW l \in Launchers, Busy(l),
         \A m \in Launchers \ {l} : launcher'[m] = launcher[m],
         launcher'[l].pc # "off" => /\ launcher'[l].dir = launcher[l].dir
                                    /\ launcher'[l].cmd \in {launcher[l].cmd, "serve"},
         Coherent(launcher'[l]),
         \A d \in Dirs : files'[d] # files[d] => d = launcher[l].dir /\ Owns(l)',
         Owns(l)' => Holding(launcher'[l].pc, files'[launcher[l].dir], launcher'[l].undo),
         Owns(l)' => Owns(l) \/ files[launcher[l].dir] = {},
         Owns(l) /\ ~Owns(l)' => launcher[l].dir \in torn' \/ files[launcher[l].dir] \in Settled,
         torn \subseteq torn',
         pointer' # pointer => pointer' = launcher[l].dir /\ Whole(pointer') /\ ~Owns(l)',
         serving' \notin {serving, None} => serving' = launcher[l].dir /\ Whole(serving') /\ ~Owns(l)',
         Busy(l)' /\ (launcher'[l].cmd = "serve" \/ launcher'[l].pc \in {"start", "serving"})
           => Whole(launcher[l].dir)
  PROVE  VInv'
<1> DEFINE d0 == launcher[l].dir
<1>0. d0 \in Dirs /\ (Busy(l)' => launcher'[l].dir = d0)
  BY DEF VInv, Coherence, Coherent, Busy
<1>1. Coherence'
  BY DEF VInv, Coherence, Coherent
<1>2. ASSUME NEW m \in Launchers \ {l}, Owns(m)
      PROVE  launcher[m].dir # d0 /\ launcher[m].dir \in Dirs
  BY <1>2 DEF VInv, Alone, Coherence, Coherent, Owns, Filling
<1>3. ASSUME NEW m \in Launchers \ {l}
      PROVE  (Owns(m)' <=> Owns(m)) /\ (Busy(m)' <=> Busy(m))
  BY DEF Owns, Fills, Busy
<1>4. ASSUME Owns(l)', NEW m \in Launchers \ {l}, Busy(m)
      PROVE  launcher[m].dir # d0
  <2>1. CASE Owns(l)
    BY <1>4, <2>1 DEF VInv, Alone
  <2>2. CASE files[d0] = {}
    <3>1. launcher[l].cmd # "serve"
      BY <1>4 DEF Owns, Fills, Filling
    <3>2. CASE launcher[m].cmd = "serve"
      BY <1>4, <2>2, <3>2 DEF VInv, Serves, Whole, VaultFiles
    <3>3. CASE launcher[m].cmd # "serve"
      BY <1>4, <3>1, <3>3 DEF VInv, Apart
    <3> QED
      BY <3>2, <3>3
  <2> QED
    BY <1>4, <2>1, <2>2
<1>5. ASSUME Owns(l)'
      PROVE  d0 \notin {pointer, serving}
  <2>1. CASE Owns(l)
    BY <2>1 DEF VInv, Alone
  <2>2. CASE files[d0] = {}
    BY <1>0, <2>2 DEF VInv, NamedIsWhole, Whole, VaultFiles, VaultAssumption
  <2> QED
    BY <1>5, <2>1, <2>2
<1>6. Contents'
  <2> SUFFICES ASSUME NEW m \in Launchers, Owns(m)'
               PROVE  Holding(launcher'[m].pc, files'[launcher'[m].dir], launcher'[m].undo)
    BY DEF Contents
  <2>1. CASE m = l
    BY <2>1, <1>0 DEF Owns, Busy, Filling
  <2>2. CASE m # l
    BY <2>2, <1>2, <1>3 DEF VInv, Contents
  <2> QED
    BY <2>1, <2>2
<1>7. Alone'
  <2> SUFFICES ASSUME NEW m \in Launchers, Owns(m)'
               PROVE  /\ launcher'[m].dir \notin {pointer', serving'}
                      /\ \A n \in Launchers \ {m} : Busy(n)' => launcher'[n].dir # launcher'[m].dir
    BY DEF Alone
  <2>1. CASE m = l
    <3>1. launcher'[l].dir = d0 /\ d0 # None
      BY <2>1, <1>0 DEF Owns, Busy, Filling, VaultAssumption
    <3>2. d0 \notin {pointer', serving'}
      BY <2>1, <3>1, <1>5
    <3> QED
      BY <2>1, <3>1, <3>2, <1>3, <1>4
  <2>2. CASE m # l
    <3>1. Owns(m) /\ launcher'[m].dir = launcher[m].dir /\ launcher[m].dir # d0
          /\ launcher[m].dir # None
      BY <2>2, <1>2, <1>3 DEF VaultAssumption
    <3>2. launcher[m].dir \notin {pointer', serving'}
      BY <2>2, <3>1 DEF VInv, Alone
    <3>3. ASSUME NEW n \in Launchers \ {m}, Busy(n)'
          PROVE  launcher'[n].dir # launcher'[m].dir
      <4>1. CASE n = l
        BY <4>1, <3>1, <3>3, <1>0
      <4>2. CASE n # l
        BY <4>2, <3>1, <3>3, <1>3 DEF VInv, Alone
      <4> QED
        BY <4>1, <4>2
    <3> QED
      BY <3>1, <3>2, <3>3
  <2> QED
    BY <2>1, <2>2
<1>8. Apart'
  <2> SUFFICES ASSUME NEW m \in Launchers, NEW n \in Launchers, Busy(m)', Busy(n)',
                      launcher'[m].cmd # "serve", launcher'[n].cmd # "serve",
                      launcher'[m].dir = launcher'[n].dir
               PROVE  m = n
    BY DEF Apart
  <2>1. \A k \in Launchers : Busy(k)' =>
          Busy(k) /\ launcher'[k].dir = launcher[k].dir
          /\ launcher'[k].cmd \in {launcher[k].cmd, "serve"}
    BY <1>3 DEF Busy
  <2> QED
    BY <2>1 DEF VInv, Apart
<1>9. ASSUME NEW d \in Dirs, Whole(d), files'[d] # files[d]
      PROVE  Owns(l) /\ Owns(l)' /\ d = d0
  BY <1>9 DEF Whole, VaultFiles
<1>10. Serves'
  <2> SUFFICES ASSUME NEW m \in Launchers, Busy(m)',
                      launcher'[m].cmd = "serve" \/ launcher'[m].pc \in {"start", "serving"}
               PROVE  VaultFiles \subseteq files'[launcher'[m].dir]
    BY DEF Serves, Whole, VaultFiles
  <2>1. CASE m = l
    <3>1. Whole(d0) /\ launcher'[l].dir = d0
      BY <2>1, <1>0
    <3>2. ~Owns(l)'
      BY <2>1 DEF Owns, Fills, Filling
    <3> QED
      BY <2>1, <3>1, <3>2, <1>0 DEF Whole
  <2>2. CASE m # l
    <3>1. Busy(m) /\ launcher'[m] = launcher[m]
      BY <2>2, <1>3
    <3>2. Whole(launcher[m].dir) /\ launcher[m].dir \in Dirs
      BY <3>1 DEF VInv, Serves, Coherence, Coherent, Busy
    <3>3. files'[launcher[m].dir] = files[launcher[m].dir]
      BY <2>2, <3>1, <3>2, <1>4, <1>9
    <3> QED
      BY <3>1, <3>2, <3>3 DEF Whole
  <2> QED
    BY <2>1, <2>2
<1>11. Rest'
  <2> SUFFICES ASSUME NEW d \in Dirs, d \notin torn', ~Owned(d)'
               PROVE  files'[d] \in Settled
    BY DEF Rest, Settled
  <2>1. files'[d] = files[d]
    BY <1>0 DEF Owned, Owns, Filling, Busy
  <2>2. CASE Owned(d)
    <3>1. PICK m \in Launchers : Owns(m) /\ launcher[m].dir = d
      BY <2>2 DEF Owned
    <3>2. m = l
      BY <3>1, <1>3 DEF Owned
    <3>3. ~Owns(l)'
      BY <3>1, <3>2, <1>0 DEF Owned, Owns, Filling, Busy
    <3> QED
      BY <2>1, <3>1, <3>2, <3>3
  <2>3. CASE ~Owned(d)
    BY <2>1, <2>3 DEF VInv, Rest
  <2> QED
    BY <2>2, <2>3
<1>12. DescribedIsWhole'
  <2> SUFFICES ASSUME NEW d \in Dirs, "desc" \in files'[d]
               PROVE  "db" \in files'[d]
    BY DEF DescribedIsWhole
  <2>1. CASE files'[d] = files[d]
    BY <2>1 DEF VInv, DescribedIsWhole
  <2>2. CASE files'[d] # files[d]
    <3>1. Holding(launcher'[l].pc, files'[d], launcher'[l].undo)
      BY <2>2
    <3> QED
      BY <3>1 DEF Holding, UndoState, Settled, VaultFiles
  <2> QED
    BY <2>1, <2>2
<1>13. NamedIsWhole'
  <2> SUFFICES ASSUME NEW d \in {pointer', serving'}, d # None
               PROVE  Whole(d)'
    BY DEF NamedIsWhole
  <2>1. d \in Dirs
    BY DEF VaultTypeOK
  <2>2. Whole(d)
    BY <2>1 DEF VInv, NamedIsWhole
  <2>3. files'[d] = files[d]
    BY <2>1, <2>2, <1>5, <1>9
  <2> QED
    BY <2>2, <2>3 DEF Whole
<1> QED
  BY <1>1, <1>6, <1>7, <1>8, <1>10, <1>11, <1>12, <1>13 DEF VInv
-----------------------------------------------------------------------------
(* The steps, one by one.                                                  *)

Places == Steps \cup {"off", "port", "start", "serving", "undo"}

LEMMA LaunchFields ==
  ASSUME VaultTypeOK, NEW l \in Launchers
  PROVE  /\ launcher[l] \in Launches /\ launcher[l].undo \in Seq(Names)
         /\ launcher[l].pc \in Places
BY DEF VaultTypeOK, Launches, Places

LEMMA GotoStep ==
  ASSUME VaultTypeOK, NEW l \in Launchers, NEW pc \in Places, Goto(l, pc)
  PROVE  /\ launcher' \in [Launchers -> Launches]
         /\ \A m \in Launchers \ {l} : launcher'[m] = launcher[m]
         /\ launcher'[l].pc = pc /\ launcher'[l].dir = launcher[l].dir
         /\ launcher'[l].cmd = launcher[l].cmd /\ launcher'[l].undo = launcher[l].undo
<1>1. launcher[l] \in Launches
  BY LaunchFields
<1>2. [launcher[l] EXCEPT !.pc = pc] \in Launches
  BY <1>1 DEF Launches, Places
<1> QED
  BY <1>1, <1>2 DEF VaultTypeOK, Goto, Launches

LEMMA LeaveStep ==
  ASSUME VaultTypeOK, NEW l \in Launchers, Leave(l)
  PROVE  /\ launcher' \in [Launchers -> Launches]
         /\ \A m \in Launchers \ {l} : launcher'[m] = launcher[m]
         /\ launcher'[l].pc = "off" /\ launcher'[l].cmd = "none"
         /\ ~Owns(l)' /\ ~Busy(l)' /\ Coherent(launcher'[l])
<1>1. Off \in Launches
  BY DEF Off, Launches, Names
<1>2. launcher'[l] = Off /\ launcher' \in [Launchers -> Launches]
  BY <1>1 DEF VaultTypeOK, Leave
<1> QED
  BY <1>2 DEF VaultTypeOK, Leave, Off, Owns, Fills, Filling, Busy, Coherent

(* A step that moves the launcher on and changes no file.                  *)
LEMMA MoveKeeps ==
  ASSUME VaultAssumption, VInv, NEW l \in Launchers, Busy(l), NEW pc \in Places,
         Goto(l, pc), VaultTypeOK', files' = files, torn' = torn, pointer' = pointer,
         serving' \in {serving, None, launcher[l].dir},
         Coherent([launcher[l] EXCEPT !.pc = pc]),
         Fills(l) /\ pc \in Filling =>
           /\ Owns(l) /\ serving' \in {serving, None}
           /\ Holding(pc, files[launcher[l].dir], launcher[l].undo),
         Fills(l) /\ pc \notin Filling /\ Owns(l) => files[launcher[l].dir] \in Settled,
         launcher[l].cmd = "serve" \/ pc \in {"start", "serving"} => Whole(launcher[l].dir),
         serving' \notin {serving, None} => Whole(launcher[l].dir)
  PROVE  VInv'
<1>1. VaultTypeOK /\ launcher[l] \in Launches
  BY LaunchFields DEF VInv
<1>2. /\ \A m \in Launchers \ {l} : launcher'[m] = launcher[m]
      /\ launcher'[l].pc = pc /\ launcher'[l].dir = launcher[l].dir
      /\ launcher'[l].cmd = launcher[l].cmd /\ launcher'[l].undo = launcher[l].undo
  BY <1>1, GotoStep
<1>3. Coherent(launcher'[l])
  BY <1>1, <1>2 DEF Coherent, Launches
<1>4. (Owns(l)' <=> Fills(l) /\ pc \in Filling) /\ (Owns(l) => Fills(l))
  BY <1>2 DEF Owns, Fills
<1>5. \A d \in Dirs : files'[d] # files[d] => d = launcher[l].dir /\ Owns(l)'
  OBVIOUS
<1>6. Whole(launcher[l].dir)' <=> Whole(launcher[l].dir)
  BY <1>2 DEF Whole
<1> QED
  BY <1>2, <1>3, <1>4, <1>5, StepKeeps DEF Whole

(* A step with which the launcher ends.                                    *)
LEMMA LeaveKeeps ==
  ASSUME VaultAssumption, VInv, NEW l \in Launchers, Busy(l), Leave(l), VaultTypeOK',
         files' = files, torn \subseteq torn', serving' \in {serving, None},
         pointer' # pointer => pointer' = launcher[l].dir /\ Whole(pointer'),
         Owns(l) => launcher[l].dir \in torn' \/ files[launcher[l].dir] \in Settled
  PROVE  VInv'
<1>1. VaultTypeOK
  BY DEF VInv
<1>2. /\ \A m \in Launchers \ {l} : launcher'[m] = launcher[m]
      /\ launcher'[l].pc = "off" /\ ~Owns(l)' /\ ~Busy(l)' /\ Coherent(launcher'[l])
  BY <1>1, LeaveStep
<1>3. \A d \in Dirs : files'[d] # files[d] => d = launcher[l].dir /\ Owns(l)'
  OBVIOUS
<1> QED
  BY <1>2, <1>3, StepKeeps

(* A step that writes into the launcher's directory.                       *)
LEMMA WriteKeeps ==
  ASSUME VaultAssumption, VInv, NEW l \in Launchers, Busy(l), VaultTypeOK',
         NEW f \in SUBSET Names, NEW pc \in {"describe", "commitDb", "commitDesc", "validate", "undo"},
         Fills(l), Owns(l) \/ files[launcher[l].dir] = {}, Put(launcher[l].dir, f),
         \A m \in Launchers \ {l} : launcher'[m] = launcher[m],
         launcher'[l].pc = pc, launcher'[l].dir = launcher[l].dir,
         launcher'[l].cmd = launcher[l].cmd, Holding(pc, f, launcher'[l].undo),
         torn' = torn, pointer' = pointer, serving' = serving
  PROVE  VInv'
<1>1. launcher[l].dir \in Dirs /\ files \in [Dirs -> SUBSET Names]
  BY DEF VInv, Coherence, Coherent, Busy, VaultTypeOK
<1>2. files'[launcher[l].dir] = f
      /\ \A d \in Dirs : files'[d] # files[d] => d = launcher[l].dir
  BY <1>1 DEF Put
<1>3. Owns(l)' /\ Coherent(launcher'[l]) /\ launcher[l].cmd # "serve"
  BY <1>1 DEF Owns, Fills, Filling, Coherent
<1> QED
  BY <1>2, <1>3, StepKeeps

-----------------------------------------------------------------------------
(* The actions.                                                            *)

LEMMA CheckPortKeeps ==
  ASSUME VaultAssumption, VInv, NEW l \in Launchers, CheckPort(l) PROVE VInv'
<1> DEFINE pc == AfterPort(launcher[l].cmd)
<1>1. VaultTypeOK /\ Busy(l) /\ Coherent(launcher[l]) /\ ~Owns(l) /\ launcher[l] \in Launches
  BY LaunchFields DEF VInv, Coherence, Busy, Owns, Filling, CheckPort, At
<1>2. CASE serving = None
  <2>1. Goto(l, pc)
    BY <1>2 DEF CheckPort
  <2>2. pc \in Places
    BY DEF AfterPort, Places, Steps
  <2>3. VaultTypeOK'
    BY <1>1, <2>1, <2>2, GotoStep DEF VaultTypeOK, CheckPort
  <2>4. Coherent([launcher[l] EXCEPT !.pc = pc])
    BY <1>1 DEF AfterPort, Coherent, Launches, CheckPort, At
  <2>5. Fills(l) => pc = "fill"
    BY DEF Fills, AfterPort
  <2>6. pc \in {"start", "serving"} => launcher[l].cmd = "serve"
    BY DEF AfterPort
  <2>7. launcher[l].cmd = "serve" => Whole(launcher[l].dir)
    BY <1>1 DEF VInv, Serves
  <2> HIDE DEF pc
  <2> QED
    BY <1>1, <2>1, <2>2, <2>3, <2>4, <2>5, <2>6, <2>7, MoveKeeps DEF CheckPort, Filling
<1>3. CASE serving # None
  <2>1. Leave(l) /\ VaultTypeOK'
    BY <1>1, <1>3, LeaveStep DEF CheckPort, VaultTypeOK
  <2> QED
    BY <1>1, <2>1, LeaveKeeps DEF CheckPort
<1> QED
  BY <1>2, <1>3

LEMMA StartKeeps ==
  ASSUME VaultAssumption, VInv, NEW l \in Launchers, Start(l) PROVE VInv'
<1>1. /\ VaultTypeOK /\ Busy(l) /\ Coherent(launcher[l]) /\ ~Owns(l)
      /\ launcher[l] \in Launches /\ Whole(launcher[l].dir) /\ launcher[l].dir \in Dirs
  BY LaunchFields DEF VInv, Coherence, Coherent, Busy, Owns, Filling, Start, At, Serves
<1>2. CASE serving = None
  <2>1. Goto(l, "serving") /\ serving' = launcher[l].dir
    BY <1>2 DEF Start
  <2>2. VaultTypeOK'
    BY <1>1, <2>1, GotoStep DEF VaultTypeOK, Start, Places
  <2>3. Coherent([launcher[l] EXCEPT !.pc = "serving"])
    BY <1>1 DEF Coherent, Launches, Start, At
  <2> QED
    BY <1>1, <2>1, <2>2, <2>3, MoveKeeps DEF Start, Filling, Places
<1>3. CASE serving # None
  <2>1. Leave(l) /\ VaultTypeOK'
    BY <1>1, <1>3, LeaveStep DEF Start, VaultTypeOK
  <2> QED
    BY <1>1, <1>3, <2>1, LeaveKeeps DEF Start
<1> QED
  BY <1>2, <1>3

LEMMA ExitKeeps ==
  ASSUME VaultAssumption, VInv, NEW l \in Launchers, Exit(l) PROVE VInv'
<1>1. VaultTypeOK /\ Busy(l) /\ ~Owns(l)
  BY DEF VInv, Busy, Owns, Filling, Exit, At
<1>2. VaultTypeOK'
  BY <1>1, LeaveStep DEF VaultTypeOK, Exit
<1> QED
  BY <1>1, <1>2, LeaveKeeps DEF Exit

LEMMA FillKeeps ==
  ASSUME VaultAssumption, VInv, NEW l \in Launchers, Fill(l) PROVE VInv'
<1>1. /\ VaultTypeOK /\ Busy(l) /\ ~Owns(l) /\ Fills(l) /\ launcher[l].dir \in Dirs
  BY DEF VInv, Coherence, Coherent, Busy, Owns, Filling, Fills, Fill, At
<1>2. CASE files[launcher[l].dir] = {}
  <2>1. Put(launcher[l].dir, {"tmpDb"}) /\ Goto(l, "describe")
    BY <1>2 DEF Fill
  <2>2. VaultTypeOK'
    BY <1>1, <2>1, GotoStep DEF VaultTypeOK, Fill, Put, Names, Places, Steps
  <2>3. Holding("describe", {"tmpDb"}, launcher'[l].undo)
    BY DEF Holding
  <2> QED
    BY <1>1, <1>2, <2>1, <2>2, <2>3, GotoStep, WriteKeeps DEF Fill, Names, Places, Steps
<1>3. CASE files[launcher[l].dir] # {}
  <2>1. Leave(l) /\ VaultTypeOK'
    BY <1>1, <1>3, LeaveStep DEF Fill, VaultTypeOK
  <2> QED
    BY <1>1, <1>3, <2>1, LeaveKeeps DEF Fill
<1> QED
  BY <1>2, <1>3

LEMMA DescribeKeeps ==
  ASSUME VaultAssumption, VInv, NEW l \in Launchers, Describe(l) PROVE VInv'
<1> DEFINE f == files[launcher[l].dir] \cup {"tmpDesc"}
<1>1. VaultTypeOK /\ Busy(l) /\ Owns(l) /\ Fills(l) /\ launcher[l].dir \in Dirs
  BY DEF VInv, Coherence, Coherent, Busy, Owns, Filling, Fills, Describe, At
<1>2. files[launcher[l].dir] = {"tmpDb"}
  BY <1>1 DEF VInv, Contents, Holding, Describe, At
<1>3. Put(launcher[l].dir, f) /\ Goto(l, "commitDb") /\ f \in SUBSET Names
  BY <1>2 DEF Describe, Names
<1>4. VaultTypeOK'
  BY <1>1, <1>3, GotoStep DEF VaultTypeOK, Describe, Put, Names, Places, Steps
<1>5. Holding("commitDb", f, launcher'[l].undo)
  BY <1>2 DEF Holding
<1> HIDE DEF f
<1> QED
  BY <1>1, <1>3, <1>4, <1>5, GotoStep, WriteKeeps DEF Describe, Places, Steps

LEMMA CommitDbKeeps ==
  ASSUME VaultAssumption, VInv, NEW l \in Launchers, CommitDb(l) PROVE VInv'
<1> DEFINE f == (files[launcher[l].dir] \ {"tmpDb"}) \cup {"db"}
<1>1. VaultTypeOK /\ Busy(l) /\ Owns(l) /\ Fills(l) /\ launcher[l].dir \in Dirs
  BY DEF VInv, Coherence, Coherent, Busy, Owns, Filling, Fills, CommitDb, At
<1>2. files[launcher[l].dir] = {"tmpDb", "tmpDesc"}
  BY <1>1 DEF VInv, Contents, Holding, CommitDb, At
<1>3. Put(launcher[l].dir, f) /\ Goto(l, "commitDesc") /\ f \in SUBSET Names
  BY <1>2 DEF CommitDb, Names
<1>4. VaultTypeOK'
  BY <1>1, <1>3, GotoStep DEF VaultTypeOK, CommitDb, Put, Names, Places, Steps
<1>5. Holding("commitDesc", f, launcher'[l].undo)
  BY <1>2 DEF Holding
<1> HIDE DEF f
<1> QED
  BY <1>1, <1>3, <1>4, <1>5, GotoStep, WriteKeeps DEF CommitDb, Places, Steps

LEMMA CommitDescKeeps ==
  ASSUME VaultAssumption, VInv, NEW l \in Launchers, CommitDesc(l) PROVE VInv'
<1> DEFINE f == (files[launcher[l].dir] \ {"tmpDesc"}) \cup {"desc"}
<1>1. VaultTypeOK /\ Busy(l) /\ Owns(l) /\ Fills(l) /\ launcher[l].dir \in Dirs
  BY DEF VInv, Coherence, Coherent, Busy, Owns, Filling, Fills, CommitDesc, At
<1>2. files[launcher[l].dir] = {"db", "tmpDesc"}
  BY <1>1 DEF VInv, Contents, Holding, CommitDesc, At
<1>3. Put(launcher[l].dir, f) /\ Goto(l, "validate") /\ f \in SUBSET Names
  BY <1>2 DEF CommitDesc, Names
<1>4. VaultTypeOK'
  BY <1>1, <1>3, GotoStep DEF VaultTypeOK, CommitDesc, Put, Names, Places, Steps
<1>5. Holding("validate", f, launcher'[l].undo)
  BY <1>2 DEF Holding, VaultFiles
<1> HIDE DEF f
<1> QED
  BY <1>1, <1>3, <1>4, <1>5, GotoStep, WriteKeeps DEF CommitDesc, Places, Steps
LEMMA ValidateKeeps ==
  ASSUME VaultAssumption, VInv, NEW l \in Launchers, Validate(l) PROVE VInv'
<1>1. /\ VaultTypeOK /\ Busy(l) /\ Coherent(launcher[l]) /\ launcher[l] \in Launches
      /\ Fills(l) => Owns(l) /\ files[launcher[l].dir] = VaultFiles
  BY LaunchFields
  DEF VInv, Coherence, Busy, Owns, Fills, Filling, Validate, At, Contents, Holding
<1>2. CASE Whole(launcher[l].dir)
  <2>1. Goto(l, "point")
    BY <1>2 DEF Validate
  <2>2. VaultTypeOK'
    BY <1>1, <2>1, GotoStep DEF VaultTypeOK, Validate, Places, Steps
  <2>3. Coherent([launcher[l] EXCEPT !.pc = "point"])
    BY <1>1 DEF Coherent, Launches, Validate, At
  <2> QED
    BY <1>1, <1>2, <2>1, <2>2, <2>3, MoveKeeps DEF Validate, Filling, Places, Steps, Holding
<1>3. CASE ~Whole(launcher[l].dir)
  <2>1. Leave(l) /\ VaultTypeOK'
    BY <1>1, <1>3, LeaveStep DEF Validate, VaultTypeOK
  <2>2. ~Owns(l)
    BY <1>1, <1>3 DEF Whole, Owns
  <2> QED
    BY <1>1, <2>1, <2>2, LeaveKeeps DEF Validate
<1> QED
  BY <1>2, <1>3

LEMMA PointKeeps ==
  ASSUME VaultAssumption, VInv, NEW l \in Launchers, Point(l) PROVE VInv'
<1>1. /\ VaultTypeOK /\ Busy(l) /\ Coherent(launcher[l]) /\ launcher[l].dir \in Dirs
      /\ launcher[l] \in Launches /\ Whole(launcher[l].dir)
      /\ Owns(l) => files[launcher[l].dir] \in Settled
  BY LaunchFields DEF VInv, Coherence, Coherent, Busy, Owns, Fills, Point, At,
                      Contents, Holding, Settled
<1>2. CASE launcher[l].starts
  <2>1. launcher' = [launcher EXCEPT ![l].cmd = "serve", ![l].pc = "start"]
    BY <1>2 DEF Point
  <2>2. /\ launcher' \in [Launchers -> Launches]
        /\ \A m \in Launchers \ {l} : launcher'[m] = launcher[m]
        /\ launcher'[l].pc = "start" /\ launcher'[l].dir = launcher[l].dir
        /\ launcher'[l].cmd = "serve"
    BY <1>1, <2>1 DEF VaultTypeOK, Launches
  <2>3. VaultTypeOK'
    BY <1>1, <2>2 DEF VaultTypeOK, Point
  <2>4. ~Owns(l)' /\ Coherent(launcher'[l])
    BY <1>1, <2>2 DEF Owns, Filling, Coherent, Point, At
  <2> QED
    BY <1>1, <2>2, <2>3, <2>4, StepKeeps DEF Point, Whole
<1>3. CASE ~launcher[l].starts
  <2>1. Leave(l) /\ VaultTypeOK'
    BY <1>1, <1>3, LeaveStep DEF Point, VaultTypeOK
  <2> QED
    BY <1>1, <2>1, LeaveKeeps DEF Point, Whole
<1> QED
  BY <1>2, <1>3

(* What an error path starts with matches what the directory holds.        *)
LEMMA UndoBegins ==
  ASSUME NEW cmd \in {"create", "adopt"}, NEW pc \in Steps, NEW f \in SUBSET Names,
         pc = "fill" => f = {}, pc # "fill" => Holding(pc, f, <<>>),
         Undo(cmd, pc) # <<>>
  PROVE  UndoState(f \cup PartOf(pc), Undo(cmd, pc))
<1>1. CASE pc \in {"fill", "describe", "commitDb"}
  BY <1>1 DEF Undo, PartOf, Holding, UndoState, Settled
<1>2. CASE pc = "commitDesc"
  BY <1>2 DEF Undo, PartOf, Holding, UndoState
<1>3. CASE pc \in {"validate", "point"}
  BY <1>3 DEF Undo, PartOf, Holding, UndoState, Settled, VaultFiles
<1> QED
  BY <1>1, <1>2, <1>3 DEF Steps

LEMMA UndoType ==
  ASSUME NEW cmd, NEW pc PROVE Undo(cmd, pc) \in Seq(Names)
<1>1. /\ <<>> \in Seq(Names)
      /\ <<"tmpDb", "tmpDesc">> \in Seq(Names)
      /\ <<"db", "tmpDb", "tmpDesc">> \in Seq(Names)
      /\ <<"tmpDb", "tmpDesc", "db">> \in Seq(Names)
      /\ <<"tmpDb", "tmpDesc", "desc", "db">> \in Seq(Names)
  BY DEF Names
<1> QED
  BY <1>1, Zenon DEF Undo

LEMMA FailKeeps ==
  ASSUME VaultAssumption, VInv, NEW l \in Launchers, Fail(l) PROVE VInv'
<1> DEFINE d == launcher[l].dir
           pc == launcher[l].pc
           undo == Undo(launcher[l].cmd, pc)
           f == files[d] \cup PartOf(pc)
<1>1. /\ VaultTypeOK /\ Busy(l) /\ Coherent(launcher[l]) /\ d \in Dirs /\ pc \in Steps
      /\ launcher[l] \in Launches /\ mishaps' \in 0..Mishaps
      /\ Owns(l) <=> Fills(l) /\ pc # "fill"
      /\ Fills(l) => launcher[l].cmd \in {"create", "adopt"}
      /\ Fills(l) \/ launcher[l].cmd = "switch"
  BY LaunchFields DEF VInv, Coherence, Coherent, Busy, Owns, Fills, Filling, Fail, Steps,
                      VaultTypeOK, VaultAssumption, Launches
<1>2. Owns(l) => Holding(pc, files[d], <<>>)
  BY <1>1 DEF VInv, Contents, Holding, Steps
<1>3. CASE undo = <<>>
  <2>1. Leave(l) /\ files' = files
    BY <1>3 DEF Fail
  <2>2. VaultTypeOK'
    BY <1>1, <2>1, LeaveStep DEF VaultTypeOK, Fail
  <2>3. Owns(l) => pc = "point" 
    BY <1>1, <1>3 DEF Undo
  <2>4. Owns(l) => files[d] \in Settled
    BY <1>2, <2>3 DEF Holding, Settled
  <2> QED
    BY <1>1, <2>1, <2>2, <2>4, LeaveKeeps DEF Fail
<1>4. CASE undo # <<>>
  <2>1. Fills(l)
    BY <1>1, <1>4 DEF Undo
  <2>2. Put(d, f) /\ launcher' = [launcher EXCEPT ![l].pc = "undo", ![l].undo = undo]
    BY <1>4 DEF Fail
  <2>3. undo \in Seq(Names) /\ f \in SUBSET Names
    BY <1>1, UndoType DEF VaultTypeOK, PartOf, Names
  <2>4. /\ launcher' \in [Launchers -> Launches]
        /\ \A m \in Launchers \ {l} : launcher'[m] = launcher[m]
        /\ launcher'[l].pc = "undo" /\ launcher'[l].dir = d /\ launcher'[l].undo = undo
        /\ launcher'[l].cmd = launcher[l].cmd
    BY <1>1, <2>2, <2>3 DEF VaultTypeOK, Launches
  <2>5. VaultTypeOK'
    BY <1>1, <2>2, <2>3, <2>4 DEF VaultTypeOK, Fail, Put
  <2>6. pc = "fill" => files[d] = {}
    BY DEF Fail
  <2>7. UndoState(f, undo)
    BY <1>1, <1>2, <1>4, <2>1, <2>6, UndoBegins DEF VaultTypeOK
  <2>8. Holding("undo", f, launcher'[l].undo)
    BY <2>4, <2>7 DEF Holding
  <2> HIDE DEF f, undo, pc
  <2> QED
    BY <1>1, <2>1, <2>2, <2>3, <2>4, <2>5, <2>6, <2>8, WriteKeeps DEF Fail
<1> QED
  BY <1>3, <1>4

LEMMA UndoGoesOn ==
  ASSUME NEW f \in SUBSET Names, NEW u \in Seq(Names), u # <<>>, UndoState(f, u)
  PROVE  UndoState(f \ {Head(u)}, Tail(u))
<1>1. CASE u = <<"tmpDesc">> /\ f \ {"tmpDesc"} \in Settled
  BY <1>1 DEF UndoState
<1>2. CASE u = <<"tmpDb", "tmpDesc">> /\ f \ {"tmpDb", "tmpDesc"} \in Settled
  <2>1. Head(u) = "tmpDb" /\ Tail(u) = <<"tmpDesc">>
    BY <1>2
  <2>2. (f \ {"tmpDb"}) \ {"tmpDesc"} = f \ {"tmpDb", "tmpDesc"}
    OBVIOUS
  <2> QED
    BY <1>2, <2>1, <2>2 DEF UndoState
<1>3. CASE u = <<"db">> /\ f \ {"db"} = {}
  BY <1>3 DEF UndoState, Settled
<1>4. CASE u = <<"tmpDesc", "db">> /\ f \ {"tmpDesc", "db"} = {}
  <2>1. Head(u) = "tmpDesc" /\ Tail(u) = <<"db">>
    BY <1>4
  <2> QED
    BY <1>4, <2>1 DEF UndoState
<1>5. CASE u = <<"tmpDb", "tmpDesc", "db">> /\ f \ {"tmpDb", "tmpDesc", "db"} = {}
  <2>1. Head(u) = "tmpDb" /\ Tail(u) = <<"tmpDesc", "db">>
    BY <1>5
  <2> QED
    BY <1>5, <2>1 DEF UndoState
<1>6. CASE u = <<"db", "tmpDb", "tmpDesc">> /\ f \ {"tmpDb", "tmpDesc", "db"} = {}
  <2>1. Head(u) = "db" /\ Tail(u) = <<"tmpDb", "tmpDesc">>
    BY <1>6
  <2>2. (f \ {"db"}) \ {"tmpDb", "tmpDesc"} = {}
    BY <1>6
  <2> QED
    BY <2>1, <2>2 DEF UndoState, Settled
<1>7. CASE u = <<"desc", "db">> /\ f = VaultFiles
  <2>1. Head(u) = "desc" /\ Tail(u) = <<"db">>
    BY <1>7
  <2> QED
    BY <1>7, <2>1 DEF UndoState, VaultFiles
<1>8. CASE u = <<"tmpDesc", "desc", "db">> /\ f \ {"tmpDesc"} = VaultFiles
  <2>1. Head(u) = "tmpDesc" /\ Tail(u) = <<"desc", "db">>
    BY <1>8
  <2> QED
    BY <1>8, <2>1 DEF UndoState
<1>9. CASE u = <<"tmpDb", "tmpDesc", "desc", "db">> /\ f \ {"tmpDb", "tmpDesc"} = VaultFiles
  <2>1. Head(u) = "tmpDb" /\ Tail(u) = <<"tmpDesc", "desc", "db">>
    BY <1>9
  <2>2. (f \ {"tmpDb"}) \ {"tmpDesc"} = VaultFiles
    BY <1>9
  <2> QED
    BY <2>1, <2>2 DEF UndoState
<1> QED
  BY <1>1, <1>2, <1>3, <1>4, <1>5, <1>6, <1>7, <1>8, <1>9 DEF UndoState

LEMMA RemoveKeeps ==
  ASSUME VaultAssumption, VInv, NEW l \in Launchers, Remove(l) PROVE VInv'
<1> DEFINE d == launcher[l].dir
           u == launcher[l].undo
           f == files[d] \ {Head(u)}
<1>1. /\ VaultTypeOK /\ Busy(l) /\ Owns(l) /\ Fills(l) /\ d \in Dirs
      /\ u \in Seq(Names) /\ files[d] \in SUBSET Names
  BY LaunchFields DEF VInv, Coherence, Coherent, Busy, Owns, Fills, Filling, Remove, At, VaultTypeOK
<1>2. UndoState(files[d], u)
  BY <1>1 DEF VInv, Contents, Holding, Remove, At
<1>3. CASE u = <<>>
  <2>1. Leave(l) /\ VaultTypeOK' /\ files' = files
    BY <1>1, <1>3, LeaveStep DEF Remove, VaultTypeOK
  <2>2. files[d] \in Settled
    BY <1>2, <1>3 DEF UndoState
  <2> QED
    BY <1>1, <2>1, <2>2, LeaveKeeps DEF Remove
<1>4. CASE u # <<>>
  <2>1. Put(d, f) /\ launcher' = [launcher EXCEPT ![l].undo = Tail(u)]
    BY <1>1, <1>4 DEF Remove, VaultTypeOK
  <2>2. Tail(u) \in Seq(Names) /\ f \in SUBSET Names
    BY <1>1, <1>4
  <2>3. /\ launcher' \in [Launchers -> Launches]
        /\ \A m \in Launchers \ {l} : launcher'[m] = launcher[m]
        /\ launcher'[l].pc = "undo" /\ launcher'[l].dir = d /\ launcher'[l].undo = Tail(u)
        /\ launcher'[l].cmd = launcher[l].cmd
    BY <1>1, <2>1, <2>2, ZenonT(60) DEF VaultTypeOK, Launches, Remove, At
  <2>4. VaultTypeOK'
    BY <1>1, <2>1, <2>2, <2>3 DEF VaultTypeOK, Remove, Put
  <2>5. Holding("undo", f, launcher'[l].undo)
    BY <1>1, <1>2, <1>4, <2>3, UndoGoesOn DEF Holding
  <2> HIDE DEF f, u
  <2> QED
    BY <1>1, <2>1, <2>2, <2>3, <2>4, <2>5, WriteKeeps DEF Remove
<1> QED
  BY <1>3, <1>4

LEMMA KillKeeps ==
  ASSUME VaultAssumption, VInv, NEW l \in Launchers, Kill(l) PROVE VInv'
<1>1. VaultTypeOK /\ Busy(l) /\ launcher[l].dir \in Dirs /\ mishaps' \in 0..Mishaps
  BY DEF VInv, Coherence, Coherent, Busy, Kill, VaultTypeOK, VaultAssumption
<1>2. VaultTypeOK'
  BY <1>1, LeaveStep DEF VaultTypeOK, Kill
<1> QED
  BY <1>1, <1>2, LeaveKeeps DEF Kill
(* A command begins: its launcher was idle and owns nothing yet.           *)
LEMMA BeginKeeps ==
  ASSUME VaultAssumption, VInv, NEW l \in Launchers,
         NEW cmd \in {"serve", "create", "switch", "adopt"},
         NEW d \in Dirs, NEW starts \in BOOLEAN, Begin(l, cmd, d, starts),
         \A m \in Launchers : Owns(m) => launcher[m].dir # d,
         cmd = "serve" => Whole(d),
         cmd # "serve" => \A m \in Launchers : Busy(m) => launcher[m].dir # d
  PROVE  VInv'
<1> DEFINE x == [cmd |-> cmd, dir |-> d, starts |-> starts, pc |-> "port", undo |-> <<>>]
<1>1. VaultTypeOK /\ x \in Launches /\ ~Busy(l)
  BY DEF VInv, Begin, Launches, Names
<1>2. /\ launcher' = [launcher EXCEPT ![l] = x] /\ files' = files /\ pointer' = pointer
      /\ serving' = serving /\ torn' = torn /\ mishaps' = mishaps /\ given' \in 0..Commands
  BY <1>1 DEF Begin, VaultTypeOK, VaultAssumption
<1>3. launcher'[l] = x /\ \A m \in Launchers \ {l} : launcher'[m] = launcher[m]
  BY <1>1, <1>2 DEF VaultTypeOK
<1>4. VaultTypeOK'
  BY <1>1, <1>2 DEF VaultTypeOK
<1>5. ~Owns(l) /\ ~Owns(l)' /\ Coherent(x)
  BY <1>1, <1>3 DEF Owns, Filling, Busy, Coherent
<1>6. \A m \in Launchers : (Owns(m)' <=> Owns(m))
                             /\ (Owns(m) => launcher'[m] = launcher[m] /\ m # l)
  BY <1>3, <1>5 DEF Owns, Fills
<1>7. Coherence'
  BY <1>3, <1>5 DEF VInv, Coherence
<1>8. Contents'
  BY <1>2, <1>6 DEF VInv, Contents
<1>9. Alone'
  <2> SUFFICES ASSUME NEW m \in Launchers, Owns(m)
               PROVE  /\ launcher[m].dir \notin {pointer, serving}
                      /\ \A n \in Launchers \ {m} : Busy(n)' => launcher'[n].dir # launcher[m].dir
    BY <1>2, <1>6 DEF Alone
  <2>1. ASSUME NEW n \in Launchers \ {m}, Busy(n)'
        PROVE  launcher'[n].dir # launcher[m].dir
    <3>1. CASE n = l
      BY <3>1, <1>3
    <3>2. CASE n # l
      BY <3>2, <2>1, <1>3 DEF VInv, Alone, Busy
    <3> QED
      BY <3>1, <3>2
  <2> QED
    BY <2>1 DEF VInv, Alone
<1>10. Apart'
  <2> SUFFICES ASSUME NEW m \in Launchers, NEW n \in Launchers, Busy(m)', Busy(n)',
                      launcher'[m].cmd # "serve", launcher'[n].cmd # "serve",
                      launcher'[m].dir = launcher'[n].dir, m # n
               PROVE  FALSE
    BY DEF Apart
  <2>1. CASE m = l
    BY <2>1, <1>3 DEF Busy
  <2>2. CASE n = l
    BY <2>2, <1>3 DEF Busy
  <2>3. CASE m # l /\ n # l
    BY <2>3, <1>3 DEF VInv, Apart, Busy
  <2> QED
    BY <2>1, <2>2, <2>3
<1>11. Serves'
  <2> SUFFICES ASSUME NEW m \in Launchers, Busy(m)',
                      launcher'[m].cmd = "serve" \/ launcher'[m].pc \in {"start", "serving"}
               PROVE  VaultFiles \subseteq files[launcher'[m].dir]
    BY <1>2 DEF Serves, Whole, VaultFiles
  <2>1. CASE m = l
    BY <2>1, <1>3 DEF Whole
  <2>2. CASE m # l
    BY <2>2, <1>3 DEF VInv, Serves, Busy, Whole
  <2> QED
    BY <2>1, <2>2
<1>12. Rest'
  BY <1>2, <1>6 DEF VInv, Rest, Owned
<1>13. DescribedIsWhole' /\ NamedIsWhole'
  BY <1>2 DEF VInv, DescribedIsWhole, NamedIsWhole, Whole
<1> QED
  BY <1>4, <1>7, <1>8, <1>9, <1>10, <1>11, <1>12, <1>13 DEF VInv

LEMMA CommandKeeps ==
  ASSUME VaultAssumption, VInv, NEW l \in Launchers, Command(l) PROVE VInv'
<1>1. CASE ServeActive(l)
  <2>1. pointer \in Dirs /\ Whole(pointer) /\ Begin(l, "serve", pointer, TRUE)
    BY <1>1 DEF VInv, VaultTypeOK, ServeActive, ActiveIsValid
  <2>2. \A m \in Launchers : Owns(m) => launcher[m].dir # pointer
    BY DEF VInv, Alone
  <2> QED
    BY <2>1, <2>2, BeginKeeps
<1>2. ASSUME NEW cmd \in {"create", "switch", "adopt"}, NEW d \in Dirs, NEW starts \in BOOLEAN,
             Configure(l, cmd, d, starts)
      PROVE  VInv'
  <2>1. \A m \in Launchers : Owns(m) => Busy(m)
    BY DEF Owns, Filling, Busy
  <2>2. \A m \in Launchers : Busy(m) => launcher[m].dir # d
    BY <1>2 DEF Configure
  <2>3. Begin(l, cmd, d, starts)
    BY <1>2 DEF Configure
  <2> QED
    BY <2>1, <2>2, <2>3, BeginKeeps
<1> QED
  BY <1>1, <1>2 DEF Command

(* More mishaps alone change nothing.                                      *)
LEMMA StutterKeeps ==
  ASSUME VaultAssumption, VInv, UNCHANGED <<files, pointer, launcher, serving, given, torn>>,
         mishaps' \in 0..Mishaps
  PROVE  VInv'
BY DEF VInv, VaultTypeOK, Coherence, Contents, Alone, Apart, Serves, Rest, Owned, Owns, Fills,
       Busy, DescribedIsWhole, NamedIsWhole, Whole

LEMMA InitVInv == ASSUME VaultAssumption, VaultInit PROVE VInv
<1>1. VaultTypeOK
  <2>1. Off \in Launches
    BY DEF Off, Launches, Names
  <2> QED
    BY <2>1 DEF VaultInit, VaultTypeOK, VaultFiles, Names
<1>2. \A l \in Launchers : launcher[l].pc = "off"
  BY DEF VaultInit, Off
<1>3. Coherence /\ Contents /\ Alone /\ Apart /\ Serves
  BY <1>2 DEF Coherence, Coherent, Contents, Alone, Apart, Serves, Owns, Filling, Busy
<1>4. Rest /\ DescribedIsWhole /\ NamedIsWhole
  BY DEF VaultInit, Rest, Settled, DescribedIsWhole, NamedIsWhole, VaultFiles, Whole
<1> QED
  BY <1>1, <1>3, <1>4 DEF VInv

LEMMA VaultStepKeeps ==
  ASSUME VaultAssumption, VInv, NEW l \in Launchers,
         Command(l) \/ Work(l) \/ Exit(l) \/ Fail(l) \/ Kill(l)
  PROVE  VInv'
<1>1. CASE Work(l)
  BY <1>1, CheckPortKeeps, StartKeeps, FillKeeps, DescribeKeeps, CommitDbKeeps,
     CommitDescKeeps, ValidateKeeps, PointKeeps, RemoveKeeps DEF Work
<1> QED
  BY <1>1, CommandKeeps, ExitKeeps, FailKeeps, KillKeeps

LEMMA VInvImplies == ASSUME VInv PROVE VaultsWhole
<1>1. ASSUME NEW d \in Dirs \ torn,
             \A l \in Launchers : Busy(l) => launcher[l].dir # d
      PROVE  files[d] \in Settled
  BY <1>1 DEF VInv, Rest, Owned, Owns, Filling, Busy
<1> QED
  BY <1>1 DEF VInv, VaultsWhole, NoPartialVault, Settled

(* localVault.ts and launcher.ts, whatever fails and whenever a launcher   *)
(* is killed: a directory with a descriptor has its database, what is      *)
(* active or served is whole, and only a kill leaves a partial vault.      *)
THEOREM VaultsAreWhole == ASSUME VaultAssumption PROVE VaultSpec => []VaultsWhole
<1>1. VaultInit => VInv
  BY InitVInv
<1>2. VInv /\ [VaultNext]_vaultVars => VInv'
  <2>1. ASSUME VInv, UNCHANGED vaultVars PROVE VInv'
    BY <2>1, StutterKeeps DEF vaultVars, VInv, VaultTypeOK
  <2> QED
    BY <2>1, VaultStepKeeps DEF VaultNext
<1> QED
  BY <1>1, <1>2, VInvImplies, PTL DEF VaultSpec
-----------------------------------------------------------------------------
(* The connection.                                                         *)

ConnectionTypeOK ==
  /\ clicks \in 0..Clicks
  /\ challenge \in [Ids -> Challenges]
  /\ file \in [inst : Installer, version : Nat, cap : Capabilities]
  /\ ext \in [Extensions -> Workers]
  /\ delivery \in [Extensions -> Deliveries]
  /\ delivered \in [Extensions -> BOOLEAN]

Known ==
  /\ file.cap \in 0..clicks
  /\ \A e \in Extensions : ext[e].cap \in 0..clicks /\ ext[e].jobs \in Seq(0..clicks)
  /\ \A c \in Ids : c > clicks =>
       challenge[c].state = "none" /\ challenge[c].post = "none" /\ challenge[c].page = "none"

Given(c) == challenge[c].post = "done" \/ file.cap = c \/ \E e \in Extensions : ext[e].cap = c
Used == \A c \in Ids : Given(c) => challenge[c].state # "pending"
ToldInTime == \A c \in Ids : challenge[c].page = "expired" => challenge[c].late /\ ~Given(c)

CInv == ConnectionTypeOK /\ Known /\ Used /\ ToldInTime

-----------------------------------------------------------------------------

LEMMA InitCInv == ASSUME VaultAssumption, ConnectionAssumption, Init PROVE CInv
<1>2. PICK s \in Setups :
        /\ clicks = s.clicks
        /\ ext = [e \in Extensions |->
             [up |-> FALSE, cap |-> IF e = s.holder THEN s.clicks ELSE NoCapability,
              item |-> e \in s.items,
              status |-> IF (IF e = s.holder THEN s.clicks ELSE NoCapability) = NoCapability
                         THEN "connection_required" ELSE "connected",
              jobs |-> <<>>, stage |-> "run", probe |-> NoProbe]]
        /\ file = IF s.holder = None THEN NoInstallation
                  ELSE [inst |-> s.holder, version |-> 1, cap |-> s.clicks]
  BY DEF Init
<1>1. s.clicks \in 0..Clicks /\ s.holder \in Extensions \cup {None} /\ Clicks \in Nat
  BY <1>2 DEF ConnectionAssumption
<1>3. clicks \in 0..Clicks /\ Clicks \in Nat /\ s.holder \in Installer
  BY <1>1, <1>2 DEF Installer
<1>4. \A e \in Extensions : ext[e].cap \in {NoCapability, clicks} /\ ext[e].jobs = <<>>
  BY <1>2
<1>5. ext \in [Extensions -> Workers]
  <2>1. NoProbe \in Probes
    BY <1>3 DEF NoProbe, Probes, NoCapability, Capabilities, Statuses
  <2>2. <<>> \in Seq(Capabilities)
    OBVIOUS
  <2> QED
    BY <1>2, <1>3, <2>1, <2>2 DEF Workers, Capabilities, NoCapability, Statuses
<1>6. file \in [inst : Installer, version : Nat, cap : Capabilities]
      /\ file.cap \in {NoCapability, clicks}
  BY <1>2, <1>3 DEF NoInstallation, NoCapability, Capabilities, Installer
<1>7. challenge \in [Ids -> Challenges] /\ \A c \in Ids : challenge[c] = NoChallenge
  BY DEF Init, NoChallenge, Challenges, Installer
<1>8. delivery \in [Extensions -> Deliveries] /\ delivered \in [Extensions -> BOOLEAN]
  BY <1>3 DEF Init, NoDelivery, Deliveries, Installer, NoCapability, Capabilities
<1>9. Known
  <2>1. <<>> \in Seq(0..clicks)
    OBVIOUS
  <2>2. NoCapability \in 0..clicks /\ clicks \in 0..clicks
    BY <1>3 DEF NoCapability
  <2>3. \A e \in Extensions : ext[e].cap \in 0..clicks /\ ext[e].jobs \in Seq(0..clicks)
    BY <2>1, <2>2, <1>4
  <2> QED
    BY <2>2, <2>3, <1>6, <1>7 DEF Known, NoChallenge
<1>10. Used /\ ToldInTime
  BY <1>7 DEF Used, ToldInTime, NoChallenge
<1> QED
  BY <1>3, <1>5, <1>6, <1>7, <1>8, <1>9, <1>10 DEF CInv, ConnectionTypeOK

(* What a step that neither asks nor connects must see to.                 *)
LEMMA Keeps ==
  ASSUME CInv, ConnectionTypeOK', clicks' = clicks, file'.cap = file.cap,
         \A e \in Extensions :
           /\ \/ ext'[e].cap = ext[e].cap
              \/ \E c \in 1..clicks : c \in Ids /\ ext'[e].cap = c /\ challenge[c].post = "done"
           /\ ext'[e].jobs \in Seq(0..clicks),
         \A c \in Ids :
           /\ challenge'[c].post = "done" => challenge[c].post = "done"
           /\ challenge'[c].state = "pending" => challenge[c].state = "pending"
           /\ challenge[c].late => challenge'[c].late
           /\ challenge'[c].page = "expired" =>
                \/ challenge[c].page = "expired"
                \/ challenge[c].state = "pending" /\ challenge[c].late
           /\ c > clicks => /\ challenge'[c].state = "none" /\ challenge'[c].post = "none"
                            /\ challenge'[c].page = "none"
  PROVE  CInv'
<1>1. \A c \in Ids : Given(c)' => Given(c)
  BY DEF Given
<1>2. Known'
  <2>1. \A e \in Extensions : ext'[e].cap \in 0..clicks
    BY DEF Known, CInv
  <2> QED
    BY <2>1 DEF Known, CInv
<1>3. Used'
  BY <1>1 DEF CInv, Used
<1>4. ToldInTime'
  BY <1>1 DEF CInv, Used, ToldInTime
<1> QED
  BY <1>2, <1>3, <1>4 DEF CInv

LEMMA Same ==
  ASSUME CInv, UNCHANGED connectionVars PROVE CInv'
BY DEF CInv, ConnectionTypeOK, Known, Used, ToldInTime, Given, connectionVars

-----------------------------------------------------------------------------
(* The challenges.                                                         *)

(* An update of challenges that keeps each of them a challenge.            *)
LEMMA ChallengeStep ==
  ASSUME CInv, UNCHANGED <<clicks, file, ext, delivery, delivered>>,
         challenge' \in [Ids -> Challenges],
         \A c \in Ids :
           /\ challenge'[c].post = "done" => challenge[c].post = "done"
           /\ challenge'[c].state = "pending" => challenge[c].state = "pending"
           /\ challenge[c].late => challenge'[c].late
           /\ challenge'[c].page = "expired" =>
                \/ challenge[c].page = "expired"
                \/ challenge[c].state = "pending" /\ challenge[c].late
           /\ c > clicks => /\ challenge'[c].state = "none" /\ challenge'[c].post = "none"
                            /\ challenge'[c].page = "none"
  PROVE  CInv'
<1>1. ConnectionTypeOK'
  BY DEF CInv, ConnectionTypeOK
<1>2. \A e \in Extensions : ext'[e].jobs \in Seq(0..clicks)
  BY DEF CInv, Known
<1> QED
  BY <1>1, <1>2, Keeps

LEMMA ExpireKeeps == ASSUME CInv, NEW c \in Ids, Expire(c) PROVE CInv'
<1>1. challenge' \in [Ids -> Challenges]
  <2>1. challenge[c] \in Challenges
    BY DEF CInv, ConnectionTypeOK
  <2>2. [challenge[c] EXCEPT !.late = TRUE] \in Challenges
    BY <2>1 DEF Challenges
  <2>3. challenge' = [challenge EXCEPT ![c] = [challenge[c] EXCEPT !.late = TRUE]]
    BY DEF Expire
  <2> QED
    BY <2>2, <2>3 DEF CInv, ConnectionTypeOK
<1> QED
  BY <1>1, ChallengeStep DEF CInv, ConnectionTypeOK, Known, Expire

LEMMA PollKeeps == ASSUME CInv, NEW c \in Ids, Poll(c) PROVE CInv'
<1>1. challenge[c] \in Challenges
  BY DEF CInv, ConnectionTypeOK
<1>2. /\ Told(c) \in {"waiting", "unreachable", "connected", "expired", "failed"}
      /\ Told(c) = "expired" => challenge[c].state = "pending" /\ challenge[c].late
  BY <1>1 DEF Told, Poll, Challenges
<1>3. challenge' \in [Ids -> Challenges]
  BY <1>2 DEF CInv, ConnectionTypeOK, Poll, Challenges
<1>4. c <= clicks
  BY DEF CInv, Known, ConnectionTypeOK, Poll, Ids
<1> QED
  BY <1>2, <1>3, <1>4, ChallengeStep DEF CInv, ConnectionTypeOK, Known, Poll

LEMMA LeavePageKeeps == ASSUME CInv, NEW c \in Ids, LeavePage(c) PROVE CInv'
<1>1. challenge' \in [Ids -> Challenges]
  BY DEF CInv, ConnectionTypeOK, LeavePage, Challenges
<1> QED
  BY <1>1, ChallengeStep DEF CInv, ConnectionTypeOK, Known, LeavePage

LEMMA UnansweredKeeps == ASSUME CInv, NEW c \in Ids, Unanswered(c) PROVE CInv'
<1>1. challenge' \in [Ids -> Challenges]
  BY DEF CInv, ConnectionTypeOK, Unanswered, Challenges
<1> QED
  BY <1>1, ChallengeStep DEF CInv, ConnectionTypeOK, Known, Unanswered

LEMMA CompleteFailsKeeps == ASSUME CInv, NEW c \in Ids, CompleteFails(c) PROVE CInv'
<1>1. challenge' \in [Ids -> Challenges]
  BY DEF CInv, ConnectionTypeOK, CompleteFails, Challenges
<1> QED
  BY <1>1, ChallengeStep DEF CInv, ConnectionTypeOK, Known, CompleteFails

(* Only an open challenge connects: nobody was told that it expired.       *)
LEMMA CompleteKeeps ==
  ASSUME ConnectionAssumption, CInv, NEW c \in Ids, Complete(c) PROVE CInv'
<1>1. CASE Open(c)
  <2> DEFINE told == [challenge[c] EXCEPT !.state = "connected", !.post = "done"]
  <2>1. c <= clicks /\ c \in Capabilities /\ c \in 0..clicks
    BY DEF CInv, Known, ConnectionTypeOK, Complete, Ids, Capabilities, ConnectionAssumption
  <2>2. /\ challenge' \in [Ids -> Challenges]
        /\ \A b \in Ids : b # c => challenge'[b] = challenge[b]
        /\ challenge'[c].state = "connected" /\ challenge'[c].page = challenge[c].page
    <3>1. challenge[c] \in Challenges /\ challenge \in [Ids -> Challenges]
      BY DEF CInv, ConnectionTypeOK
    <3>2. told \in Challenges /\ told.state = "connected" /\ told.page = challenge[c].page
      BY <3>1 DEF Challenges
    <3>3. challenge' = [challenge EXCEPT ![c] = told]
      BY <1>1 DEF Complete
    <3> QED
      BY <3>1, <3>2, <3>3
  <2>3. challenge[c].by \in Installer
    BY DEF CInv, ConnectionTypeOK, Challenges
  <2>4. file' \in [inst : Installer, version : Nat, cap : Capabilities] /\ file'.cap = c
    BY <1>1, <2>1, <2>3 DEF CInv, ConnectionTypeOK, Complete
  <2>5. ConnectionTypeOK'
    BY <2>2, <2>4 DEF CInv, ConnectionTypeOK, Complete
  <2>6. \A b \in Ids : b # c => (Given(b)' => Given(b))
    BY <2>2, <2>4 DEF Given, Complete
  <2>7. Known'
    BY <2>1, <2>2, <2>4 DEF CInv, Known, Complete
  <2>8. challenge'[c].page # "expired"
    BY <1>1, <2>2 DEF CInv, ToldInTime, Open
  <2>9. Used' /\ ToldInTime'
    BY <2>2, <2>6, <2>8 DEF CInv, Used, ToldInTime
  <2> QED
    BY <2>5, <2>7, <2>9 DEF CInv
<1>2. CASE ~Open(c)
  <2>1. /\ challenge' = [challenge EXCEPT ![c].post = "denied"]
        /\ UNCHANGED <<clicks, file, ext, delivery, delivered>>
    BY <1>2 DEF Complete
  <2>2. challenge' \in [Ids -> Challenges]
    BY <2>1 DEF CInv, ConnectionTypeOK, Challenges
  <2>3. c <= clicks
    <3>1. challenge[c].post = "sent"
      BY DEF Complete
    <3>2. ~(c > clicks) /\ clicks \in 0..Clicks
      BY <3>1 DEF CInv, Known, ConnectionTypeOK
    <3> QED
      BY <3>2 DEF Ids, ConnectionAssumption
  <2>4. \A b \in Ids : b # c => challenge'[b] = challenge[b]
    BY <2>1 DEF CInv, ConnectionTypeOK
  <2>5. /\ challenge'[c].state = challenge[c].state /\ challenge'[c].page = challenge[c].page
        /\ challenge'[c].late = challenge[c].late /\ challenge'[c].post = "denied"
    BY <2>1 DEF CInv, ConnectionTypeOK, Challenges
  <2>6. \A b \in Ids : b > clicks => b # c
    BY <2>3 DEF Ids, CInv, ConnectionTypeOK
  <2> QED
    BY <2>1, <2>2, <2>4, <2>5, <2>6, ChallengeStep DEF CInv, Known
<1> QED
  BY <1>1, <1>2

-----------------------------------------------------------------------------
(* The workers.                                                            *)

(* A step of one worker that leaves the challenges and the file alone.     *)
LEMMA WorkerStep ==
  ASSUME CInv, NEW e \in Extensions, NEW x \in Workers, Set(e, x),
         UNCHANGED <<clicks, challenge, file>>,
         delivery' \in [Extensions -> Deliveries], delivered' \in [Extensions -> BOOLEAN],
         \/ x.cap = ext[e].cap
         \/ \E c \in 1..clicks : c \in Ids /\ x.cap = c /\ challenge[c].post = "done",
         x.jobs \in Seq(0..clicks)
  PROVE  CInv'
<1>1. ext' \in [Extensions -> Workers] /\ ext'[e] = x
      /\ \A f \in Extensions \ {e} : ext'[f] = ext[f]
  BY DEF Set, CInv, ConnectionTypeOK
<1>2. ConnectionTypeOK'
  BY <1>1 DEF CInv, ConnectionTypeOK
<1>3. \A f \in Extensions :
        /\ \/ ext'[f].cap = ext[f].cap
           \/ \E c \in 1..clicks : c \in Ids /\ ext'[f].cap = c /\ challenge[c].post = "done"
        /\ ext'[f].jobs \in Seq(0..clicks)
  BY <1>1 DEF CInv, Known
<1> QED
  BY <1>2, <1>3, Keeps DEF CInv, Known

LEMMA DeliveryStep ==
  ASSUME CInv, UNCHANGED <<clicks, challenge, file, ext>>,
         delivery' \in [Extensions -> Deliveries], delivered' \in [Extensions -> BOOLEAN]
  PROVE  CInv'
<1>1. ConnectionTypeOK'
  BY DEF CInv, ConnectionTypeOK
<1> QED
  BY <1>1, Keeps DEF CInv, Known

LEMMA WorkerIn ==
  ASSUME CInv, NEW e \in Extensions
  PROVE  /\ ext[e] \in Workers /\ delivery[e] \in Deliveries
         /\ ext[e].jobs \in Seq(0..clicks)
BY DEF CInv, ConnectionTypeOK, Known

LEMMA WokenIn ==
  ASSUME NEW x \in Workers
  PROVE  /\ Woken(x) \in Workers /\ Woken(x).cap = x.cap /\ Woken(x).jobs = x.jobs
         /\ Awake(x) \in Workers /\ Awake(x).cap = x.cap /\ Awake(x).jobs = x.jobs
<1>1. Woken(x) \in Workers /\ Woken(x).cap = x.cap /\ Woken(x).jobs = x.jobs
  BY DEF Woken, Workers, Probes, Statuses
<1> QED
  BY <1>1 DEF Awake

(* Ending the first job.                                                   *)
LEMMA FinishIn ==
  ASSUME NEW n \in Nat, NEW x \in Workers, x.jobs \in Seq(0..n), x.jobs # <<>>,
         NEW s \in Statuses
  PROVE  LET y == Finish(Status(x, s)) IN
         /\ y \in Workers /\ y.cap = x.cap /\ y.jobs \in Seq(0..n)
         /\ Finish(x) \in Workers /\ Finish(x).cap = x.cap /\ Finish(x).jobs \in Seq(0..n)
<1>1. Tail(x.jobs) \in Seq(0..n) /\ Tail(x.jobs) \in Seq(Capabilities)
  BY DEF Workers
<1> QED
  BY <1>1 DEF Finish, Status, Workers

LEMMA WakeKeeps == ASSUME CInv, NEW e \in Extensions, Wake(e) PROVE CInv'
<1>1. Woken(ext[e]) \in Workers /\ Woken(ext[e]).cap = ext[e].cap
      /\ Woken(ext[e]).jobs \in Seq(0..clicks)
  BY WorkerIn, WokenIn
<1> QED
  BY <1>1, WorkerStep DEF Wake, CInv, ConnectionTypeOK

LEMMA AlarmKeeps ==
  ASSUME ConnectionAssumption, CInv, NEW e \in Extensions, Alarm(e) PROVE CInv'
<1> DEFINE x == [ext[e] EXCEPT !.jobs = <<Flush>>]
<1>1. <<Flush>> \in Seq(0..clicks) /\ <<Flush>> \in Seq(Capabilities)
  BY DEF Flush, Capabilities, CInv, ConnectionTypeOK, ConnectionAssumption
<1>2. x \in Workers /\ x.cap = ext[e].cap /\ x.jobs \in Seq(0..clicks)
  BY <1>1, WorkerIn DEF Workers
<1> QED
  BY <1>2, WorkerStep DEF Alarm, CInv, ConnectionTypeOK

(* The capability a worker stores is one that was given to it.             *)
LEMMA ConnectKeeps ==
  ASSUME ConnectionAssumption, CInv, NEW e \in Extensions, Connect(e) PROVE CInv'
<1> DEFINE c == Head(ext[e].jobs)
<1>1. /\ ext[e] \in Workers /\ ext[e].jobs \in Seq(0..clicks) /\ ext[e].jobs # <<>>
      /\ clicks \in Nat /\ clicks <= Clicks /\ Clicks \in Nat
  BY WorkerIn DEF Connect, Connecting, CInv, ConnectionTypeOK, ConnectionAssumption
<1>2. c \in 0..clicks /\ c # 0
  <2>1. Connecting(e)
    BY DEF Connect
  <2>2. c # 0
    BY <2>1 DEF Connecting, Delivering, Flush
  <2>3. c \in 0..clicks
    BY <1>1
  <2> QED
    BY <2>2, <2>3
<1>3. c \in 1..clicks /\ c \in Ids /\ c \in Capabilities
  BY <1>1, <1>2 DEF Ids, Capabilities
<1>4. CASE challenge' = [challenge EXCEPT ![c].post = "sent"] /\ UNCHANGED ext
  <2>1. challenge[c] \in Challenges /\ challenge \in [Ids -> Challenges]
    BY <1>3 DEF CInv, ConnectionTypeOK
  <2>2. challenge' \in [Ids -> Challenges]
    BY <1>4, <2>1 DEF Challenges
  <2>3. \A b \in Ids : b # c => challenge'[b] = challenge[b]
    BY <1>4, <2>1
  <2>4. /\ challenge'[c].state = challenge[c].state /\ challenge'[c].page = challenge[c].page
        /\ challenge'[c].late = challenge[c].late /\ challenge'[c].post = "sent"
    BY <1>3, <1>4, <2>1 DEF Challenges
  <2>5. \A b \in Ids : b > clicks => b # c
    BY <1>1, <1>3 DEF Ids
  <2>6. UNCHANGED <<clicks, file, ext, delivery, delivered>>
    BY <1>4 DEF Connect
  <2> QED
    BY <2>2, <2>3, <2>4, <2>5, <2>6, ChallengeStep DEF CInv, Known
<1>5. CASE /\ challenge[c].post = "done" /\ UNCHANGED challenge
           /\ Set(e, [Status(ext[e], "connected") EXCEPT !.cap = c, !.stage = "flush"])
  <2> DEFINE x == [Status(ext[e], "connected") EXCEPT !.cap = c, !.stage = "flush"]
  <2>1. x \in Workers /\ x.cap = c /\ x.jobs \in Seq(0..clicks)
    BY <1>1, <1>3 DEF Status, Workers, Statuses
  <2> QED
    BY <1>3, <1>5, <2>1, WorkerStep DEF Connect, CInv, ConnectionTypeOK
<1>6. CASE /\ UNCHANGED challenge
           /\ Set(e, Finish(Status(ext[e], "capability_rejected")))
  <2>1. "capability_rejected" \in Statuses
    BY DEF Statuses
  <2> QED
    BY <1>1, <1>6, <2>1, FinishIn, WorkerStep, ZenonT(60) DEF Connect, CInv, ConnectionTypeOK
<1> QED
  BY <1>4, <1>5, <1>6 DEF Connect

LEMMA DeliverKeeps ==
  ASSUME ConnectionAssumption, CInv, NEW e \in Extensions, Deliver(e) PROVE CInv'
<1>1. /\ ext[e] \in Workers /\ ext[e].jobs \in Seq(0..clicks) /\ ext[e].jobs # <<>>
      /\ clicks \in Nat /\ delivery \in [Extensions -> Deliveries]
      /\ delivered \in [Extensions -> BOOLEAN] /\ Clicks \in Nat
  BY WorkerIn DEF Deliver, Delivering, CInv, ConnectionTypeOK, ConnectionAssumption
<1>2. CASE Set(e, Finish(ext[e])) /\ UNCHANGED delivery
  <2>1. "connected" \in Statuses
    BY DEF Statuses
  <2> QED
    BY <1>1, <1>2, <2>1, FinishIn, WorkerStep DEF Deliver
<1>3. CASE Set(e, Finish(Status(ext[e], "connection_required"))) /\ UNCHANGED delivery
  <2>1. "connection_required" \in Statuses
    BY DEF Statuses
  <2> QED
    BY <1>1, <1>3, <2>1, FinishIn, WorkerStep, ZenonT(60) DEF Deliver
<1>4. CASE /\ delivery' = [delivery EXCEPT ![e] =
                [NoDelivery EXCEPT !.stage = "sent", !.cap = ext[e].cap]]
           /\ UNCHANGED ext
  <2>1. [NoDelivery EXCEPT !.stage = "sent", !.cap = ext[e].cap] \in Deliveries
    BY <1>1 DEF NoDelivery, Deliveries, Installer, NoCapability, Capabilities, Workers
  <2>2. delivery' \in [Extensions -> Deliveries]
    BY <1>1, <1>4, <2>1
  <2> QED
    BY <1>1, <1>4, <2>2, DeliveryStep DEF Deliver
<1> QED
  BY <1>2, <1>3, <1>4 DEF Deliver

LEMMA AuthorizeKeeps == ASSUME CInv, NEW e \in Extensions, Authorize(e) PROVE CInv'
<1>1. /\ delivery \in [Extensions -> Deliveries] /\ delivered \in [Extensions -> BOOLEAN]
      /\ file.inst \in Installer /\ file.version \in Nat
  BY DEF CInv, ConnectionTypeOK
<1>2. delivery' \in [Extensions -> Deliveries]
  <2> DEFINE r == delivery[e]
             x == IF ~Serving THEN [r EXCEPT !.stage = "unreachable"]
                  ELSE IF file.cap = r.cap
                  THEN [r EXCEPT !.stage = "body", !.inst = file.inst, !.seen = file.version]
                  ELSE [r EXCEPT !.stage = "refused"]
  <2>1. r \in Deliveries
    BY <1>1
  <2>2. x \in Deliveries
    BY <1>1, <2>1 DEF Deliveries, Answers
  <2>3. delivery' = [delivery EXCEPT ![e] = x]
    BY DEF Authorize
  <2> HIDE DEF x
  <2> QED
    BY <1>1, <2>2, <2>3
<1> QED
  BY <1>1, <1>2, DeliveryStep DEF Authorize

LEMMA AcceptKeeps == ASSUME CInv, NEW e \in Extensions, Accept(e) PROVE CInv'
<1>1. delivery \in [Extensions -> Deliveries] /\ delivered \in [Extensions -> BOOLEAN]
  BY DEF CInv, ConnectionTypeOK
<1>2. delivery' \in [Extensions -> Deliveries]
  BY <1>1 DEF Accept, Deliveries, Answers
<1>3. delivered' \in [Extensions -> BOOLEAN] /\ file' = file
  BY <1>1 DEF Accept, Touched
<1> QED
  BY <1>2, <1>3, DeliveryStep DEF Accept

LEMMA AnswerKeeps ==
  ASSUME ConnectionAssumption, CInv, NEW e \in Extensions, Answer(e),
         ~delivery[e].orphan => ext[e].jobs # <<>>
  PROVE  CInv'
<1> DEFINE s == StatusOf(delivery[e].stage)
           y == Finish(Status(ext[e], s))
           x == [y EXCEPT !.item = delivery[e].stage # "taken"]
<1>1. /\ ext[e] \in Workers /\ ext[e].jobs \in Seq(0..clicks)
      /\ clicks \in Nat /\ delivery \in [Extensions -> Deliveries]
      /\ delivered \in [Extensions -> BOOLEAN]
  BY WorkerIn DEF CInv, ConnectionTypeOK, ConnectionAssumption
<1>2. s \in Statuses
  BY DEF StatusOf, Statuses
<1>3. delivery' \in [Extensions -> Deliveries]
  <2>1. NoDelivery \in Deliveries
    BY DEF NoDelivery, Deliveries, Installer, NoCapability, Capabilities, ConnectionAssumption
  <2> QED
    BY <1>1, <2>1 DEF Answer
<1>4. CASE delivery[e].orphan
  BY <1>1, <1>3, <1>4, DeliveryStep DEF Answer
<1>5. CASE ~delivery[e].orphan
  <2>1. y \in Workers /\ y.cap = ext[e].cap /\ y.jobs \in Seq(0..clicks)
    BY <1>1, <1>2, <1>5, FinishIn
  <2>2. x \in Workers /\ x.cap = ext[e].cap /\ x.jobs \in Seq(0..clicks)
    BY <2>1 DEF Workers
  <2>3. Set(e, x)
    BY <1>5 DEF Answer
  <2> QED
    BY <1>1, <1>3, <2>2, <2>3, WorkerStep DEF Answer
<1> QED
  BY <1>4, <1>5

LEMMA ProbeKeeps == ASSUME CInv, NEW e \in Extensions, Probe(e) PROVE CInv'
<1> DEFINE g == IF ~Serving THEN "service_unreachable"
                ELSE IF file.cap = ext[e].probe.cap THEN "connected" ELSE "capability_rejected"
           x == [ext[e] EXCEPT !.probe.got = g]
<1>1. g \in Statuses
  BY DEF Statuses
<1>2. Set(e, x)
  BY DEF Probe
<1>3. x \in Workers /\ x.cap = ext[e].cap /\ x.jobs \in Seq(0..clicks)
  <2> HIDE DEF g
  <2> QED
    BY <1>1, WorkerIn DEF Workers, Probes
<1> HIDE DEF x
<1> QED
  BY <1>2, <1>3, WorkerStep DEF Probe, CInv, ConnectionTypeOK

LEMMA ProbedKeeps ==
  ASSUME ConnectionAssumption, CInv, NEW e \in Extensions, Probed(e) PROVE CInv'
<1> DEFINE p == ext[e].probe
           x == [ext[e] EXCEPT !.probe = NoProbe, !.status = IF p.got # p.was THEN p.got ELSE @]
<1>1. ext[e] \in Workers /\ ext[e].jobs \in Seq(0..clicks) /\ p \in Probes
  BY WorkerIn DEF Workers
<1>2. NoProbe \in Probes
  BY DEF NoProbe, Probes, NoCapability, Capabilities, Statuses, ConnectionAssumption
<1>3. p.got \in Statuses
  BY <1>1 DEF Probed, Probes
<1>4. x \in Workers /\ x.cap = ext[e].cap /\ x.jobs \in Seq(0..clicks)
  BY <1>1, <1>2, <1>3 DEF Workers
<1>5. Set(e, x)
  BY DEF Probed
<1> HIDE DEF x
<1> QED
  BY <1>4, <1>5, WorkerStep DEF Probed, CInv, ConnectionTypeOK

(* A worker stops: its pages may be told so, and nothing is given.         *)
LEMMA DropKeeps ==
  ASSUME ConnectionAssumption, CInv, NEW e \in Extensions, Drop(e) PROVE CInv'
<1> DEFINE x == [ext[e] EXCEPT !.up = FALSE, !.jobs = <<>>, !.stage = "run", !.probe = NoProbe]
<1>1. /\ ext[e] \in Workers /\ ext \in [Extensions -> Workers]
      /\ challenge \in [Ids -> Challenges] /\ delivery \in [Extensions -> Deliveries]
  BY WorkerIn DEF CInv, ConnectionTypeOK
<1>2. x \in Workers /\ x.cap = ext[e].cap /\ x.jobs = <<>>
  <2>1. NoProbe \in Probes
    BY DEF NoProbe, Probes, NoCapability, Capabilities, Statuses, ConnectionAssumption
  <2>2. <<>> \in Seq(Capabilities)
    OBVIOUS
  <2> QED
    BY <1>1, <2>1, <2>2 DEF Workers
<1>3. ext' = [ext EXCEPT ![e] = x]
  BY DEF Drop, Set
<1> HIDE DEF x
<1>4. \A f \in Extensions : ext'[f].cap = ext[f].cap /\ ext'[f].jobs \in {ext[f].jobs, <<>>}
  BY <1>1, <1>2, <1>3
<1>5. \A c \in Ids :
        challenge'[c] \in {challenge[c], [challenge[c] EXCEPT !.page = "failed"]}
        /\ (challenge'[c] = challenge[c] \/ challenge[c].page \in {"waiting", "unreachable"})
  BY <1>1 DEF Drop
<1>6. \A c \in Ids : [challenge[c] EXCEPT !.page = "failed"] \in Challenges
  BY <1>1 DEF Challenges
<1>7. challenge' \in [Ids -> Challenges]
  BY <1>1, <1>5, <1>6 DEF Drop
<1>8. ext' \in [Extensions -> Workers]
  BY <1>1, <1>2, <1>3
<1>9. delivery' \in [Extensions -> Deliveries]
  <2> DEFINE orphan == delivery[e].stage # "none"
             d == [delivery[e] EXCEPT !.orphan = orphan]
  <2>1. delivery' = [delivery EXCEPT ![e] = d]
    BY <1>1 DEF Drop
  <2>2. orphan \in BOOLEAN
    OBVIOUS
  <2> HIDE DEF orphan
  <2>3. d \in Deliveries
    BY <1>1, <2>2 DEF Deliveries
  <2> HIDE DEF d
  <2> QED
    BY <1>1, <2>1, <2>3
<1>10. \A c \in Ids :
         /\ challenge'[c].post = challenge[c].post /\ challenge'[c].state = challenge[c].state
         /\ challenge'[c].late = challenge[c].late
         /\ challenge'[c].page = "expired" => challenge[c].page = "expired"
         /\ c > clicks => challenge'[c].page = "none"
  <2> SUFFICES ASSUME NEW c \in Ids
               PROVE  /\ challenge'[c].post = challenge[c].post
                      /\ challenge'[c].state = challenge[c].state
                      /\ challenge'[c].late = challenge[c].late
                      /\ challenge'[c].page = "expired" => challenge[c].page = "expired"
                      /\ c > clicks => challenge'[c].page = "none"
    OBVIOUS
  <2>1. challenge[c] \in Challenges /\ (c > clicks => challenge[c].page = "none")
    BY <1>1 DEF CInv, Known
  <2>2. CASE challenge'[c] = challenge[c]
    BY <2>1, <2>2
  <2>3. CASE /\ challenge'[c] = [challenge[c] EXCEPT !.page = "failed"]
             /\ challenge[c].page \in {"waiting", "unreachable"}
    BY <2>1, <2>3 DEF Challenges
  <2> QED
    BY <1>5, <2>2, <2>3
<1>11. clicks' = clicks /\ file' = file /\ delivered' = delivered
  BY DEF Drop
<1>12. \A f \in Extensions : ext'[f].jobs \in Seq(0..clicks)
  <2>1. <<>> \in Seq(0..clicks)
    OBVIOUS
  <2> QED
    BY <1>4, <2>1 DEF CInv, Known
<1>13. ConnectionTypeOK'
  BY <1>7, <1>8, <1>9, <1>11 DEF CInv, ConnectionTypeOK
<1> QED
  BY <1>4, <1>10, <1>11, <1>12, <1>13, Keeps DEF CInv, Known

LEMMA ForgetKeeps == ASSUME CInv, Forget PROVE CInv'
<1>1. /\ challenge \in [Ids -> Challenges] /\ delivery \in [Extensions -> Deliveries]
      /\ UNCHANGED <<clicks, file, ext, delivered>>
  BY DEF CInv, ConnectionTypeOK, Forget
<1>2. PICK lost \in BOOLEAN :
        /\ challenge' = [c \in Ids |->
             [challenge[c] EXCEPT !.state = "none",
                                  !.post = IF @ = "done" /\ lost THEN "denied" ELSE @]]
        /\ delivery' = [e \in Extensions |->
             [delivery[e] EXCEPT !.stage = IF @ \in {"taken", "refused"} /\ lost
                                           THEN "unreachable" ELSE @]]
  BY DEF Forget
<1>3. challenge' \in [Ids -> Challenges]
  BY <1>1, <1>2, ZenonT(60) DEF Challenges
<1>4. delivery' \in [Extensions -> Deliveries]
  BY <1>1, <1>2, ZenonT(60) DEF Deliveries, Answers
<1>5. ConnectionTypeOK'
  BY <1>1, <1>3, <1>4 DEF CInv, ConnectionTypeOK
<1>6. \A c \in Ids :
        /\ challenge'[c].state = "none" /\ challenge'[c].page = challenge[c].page
        /\ challenge'[c].late = challenge[c].late
        /\ challenge'[c].post \in {challenge[c].post, "denied"}
        /\ challenge[c].post = "none" => challenge'[c].post = "none"
  BY <1>1, <1>2 DEF Challenges
<1> QED
  BY <1>1, <1>5, <1>6, Keeps DEF CInv, Known

LEMMA WiderSeq == ASSUME NEW A, NEW B, A \subseteq B, NEW s \in Seq(A) PROVE s \in Seq(B)
<1>1. s = [i \in 1..Len(s) |-> s[i]] /\ Len(s) \in Nat /\ \A i \in 1..Len(s) : s[i] \in B
  OBVIOUS
<1> QED
  BY <1>1

(* The new challenge was never anyone's.                                   *)
LEMMA ClickKeeps ==
  ASSUME ConnectionAssumption, CInv, NEW e \in Extensions, Click(e) PROVE CInv'
<1> DEFINE c == clicks + 1
           new == [by |-> e, state |-> "pending", late |-> FALSE,
                   page |-> "waiting", post |-> "none"]
           gone(b) == [challenge[b] EXCEPT !.state = "none"]
           x == [Awake(ext[e]) EXCEPT !.jobs = Append(@, c)]
<1>1. /\ clicks \in Nat /\ Clicks \in Nat /\ clicks' = c /\ c \in 1..Clicks
      /\ challenge \in [Ids -> Challenges] /\ ext \in [Extensions -> Workers]
      /\ UNCHANGED <<file, delivery, delivered>>
  BY DEF CInv, ConnectionTypeOK, Click, ConnectionAssumption
<1>2. c \in Ids /\ c \in Capabilities /\ c \in 0..clicks' /\ new \in Challenges
  BY <1>1 DEF Ids, Capabilities, Challenges, Installer
<1>3. PICK pruned : challenge' = [b \in Ids |->
         IF b = c THEN new
         ELSE IF b \in Kept(pruned) THEN challenge[b] ELSE gone(b)]
  BY DEF Click
<1>4. /\ challenge'[c] = new
      /\ \A b \in Ids : b # c => challenge'[b] = challenge[b] \/ challenge'[b] = gone(b)
  BY <1>2, <1>3
<1>5. \A b \in Ids :
        /\ gone(b) \in Challenges /\ gone(b).state = "none" /\ gone(b).page = challenge[b].page
        /\ gone(b).post = challenge[b].post /\ gone(b).late = challenge[b].late
  BY <1>1 DEF Challenges
<1> HIDE DEF new, gone
<1>6. challenge' \in [Ids -> Challenges]
  <2>1. \A b \in Ids : challenge'[b] \in Challenges
    BY <1>1, <1>2, <1>4, <1>5
  <2> QED
    BY <1>3, <2>1
<1>7. \A b \in Ids : b # c =>
        /\ challenge'[b].state \in {challenge[b].state, "none"}
        /\ challenge'[b].page = challenge[b].page
        /\ challenge'[b].post = challenge[b].post /\ challenge'[b].late = challenge[b].late
  BY <1>4, <1>5
<1>8. challenge'[c].post = "none" /\ challenge'[c].page = "waiting"
  BY <1>4 DEF new
<1>9. ext[e].jobs \in Seq(0..clicks') /\ \A f \in Extensions :
        ext[f].cap \in 0..clicks' /\ ext[f].jobs \in Seq(0..clicks')
  <2>1. 0..clicks \subseteq 0..clicks'
    BY <1>1
  <2>2. \A f \in Extensions : ext[f].jobs \in Seq(0..clicks')
    BY <2>1, WiderSeq DEF CInv, Known
  <2> QED
    BY <2>1, <2>2 DEF CInv, Known
<1>10. x \in Workers /\ x.cap = ext[e].cap /\ x.jobs \in Seq(0..clicks')
  <2>1. /\ Awake(ext[e]) \in Workers /\ Awake(ext[e]).cap = ext[e].cap
        /\ Awake(ext[e]).jobs = ext[e].jobs
    BY <1>1, WokenIn
  <2>2. Append(ext[e].jobs, c) \in Seq(0..clicks') /\ Append(ext[e].jobs, c) \in Seq(Capabilities)
    BY <1>1, <1>2, <1>9 DEF Workers
  <2> QED
    BY <2>1, <2>2 DEF Workers
<1>11. ext' = [ext EXCEPT ![e] = x]
  BY DEF Click, Set
<1> HIDE DEF x
<1>12. ext' \in [Extensions -> Workers]
       /\ \A f \in Extensions : ext'[f].cap = ext[f].cap /\ ext'[f].jobs \in Seq(0..clicks')
  BY <1>1, <1>9, <1>10, <1>11
<1>13. ConnectionTypeOK'
  BY <1>1, <1>6, <1>12 DEF CInv, ConnectionTypeOK
<1>14. Known'
  <2>1. file'.cap \in 0..clicks'
    BY <1>1 DEF CInv, Known
  <2>2. \A b \in Ids : b > clicks' => b > clicks /\ b # c
    BY <1>1 DEF Ids
  <2> QED
    BY <1>7, <1>9, <1>12, <2>1, <2>2 DEF CInv, Known
<1>15. ~Given(c) /\ \A b \in Ids : (b # c \/ challenge'[b].post # "done") => (Given(b)' => Given(b))
  <2>1. \A f \in Extensions : ext[f].cap # c
    BY <1>1 DEF CInv, Known
  <2>2. file.cap # c
    BY <1>1 DEF CInv, Known
  <2>3. challenge[c].post = "none"
    BY <1>1, <1>2 DEF CInv, Known
  <2> QED
    BY <1>1, <1>7, <1>12, <2>1, <2>2, <2>3 DEF Given
<1>16. Used' /\ ToldInTime'
  BY <1>7, <1>8, <1>15 DEF CInv, Used, ToldInTime
<1> QED
  BY <1>13, <1>14, <1>16 DEF CInv

-----------------------------------------------------------------------------
(* A delivery that someone waits for is the worker's first job.            *)

Attended ==
  \A e \in Extensions : delivery[e].stage # "none" /\ ~delivery[e].orphan => Delivering(e)

BrowserStep ==
  \/ \E e \in Extensions : Click(e) \/ Progress(e) \/ Crash(e)
  \/ \E c \in Ids : Expire(c) \/ Poll(c) \/ LeavePage(c) \/ Challenged(c) \/ CompleteFails(c)
ConnectionStep == BrowserStep \/ Forget

LEMMA AttendedKeeps == ASSUME CInv, Attended, ConnectionStep PROVE Attended'
<1>1. ext \in [Extensions -> Workers] /\ delivery \in [Extensions -> Deliveries]
  BY DEF CInv, ConnectionTypeOK
<1>2. CASE UNCHANGED <<ext, delivery>>
  BY <1>2 DEF Attended, Delivering
<1>3. ASSUME NEW e \in Extensions, NEW x, ext' = [ext EXCEPT ![e] = x],
             \A f \in Extensions : f # e => delivery'[f] = delivery[f],
             \/ delivery'[e].stage = "none" \/ delivery'[e].orphan
             \/ x.jobs # <<>> /\ (Head(x.jobs) = Flush \/ x.stage = "flush")
      PROVE  Attended'
  <2> SUFFICES ASSUME NEW f \in Extensions, delivery'[f].stage # "none", ~delivery'[f].orphan
               PROVE  Delivering(f)'
    BY DEF Attended
  <2>1. CASE f = e
    BY <1>1, <1>3, <2>1 DEF Delivering
  <2>2. CASE f # e
    BY <1>1, <1>3, <2>2 DEF Attended, Delivering
  <2> QED
    BY <2>1, <2>2
<1>4. ASSUME NEW e \in Extensions, ext' = ext,
             \A f \in Extensions : f # e => delivery'[f] = delivery[f],
             delivery'[e].stage = "none" \/ delivery'[e].orphan \/ Delivering(e)
      PROVE  Attended'
  BY <1>4 DEF Attended, Delivering
<1>5. ASSUME NEW e \in Extensions PROVE Wake(e) => Attended'
  <2> SUFFICES ASSUME Wake(e) PROVE Attended'
    OBVIOUS
  <2>1. Woken(ext[e]).jobs = ext[e].jobs /\ Woken(ext[e]).stage = ext[e].stage
    BY <1>1 DEF Woken, Workers
  <2>2. delivery[e].stage = "none" \/ delivery[e].orphan \/ Delivering(e)
    BY DEF Attended
  <2> QED
    BY <1>3, <2>1, <2>2 DEF Wake, Set, Delivering
<1>6. ASSUME NEW e \in Extensions PROVE Alarm(e) => Attended'
  <2> SUFFICES ASSUME Alarm(e) PROVE Attended'
    OBVIOUS
  <2>1. delivery'[e].stage = "none" \/ delivery'[e].orphan
    BY DEF Attended, Alarm, Delivering
  <2> QED
    BY <1>3, <2>1 DEF Alarm, Set
<1>7. ASSUME NEW e \in Extensions PROVE Connect(e) => Attended'
  <2> SUFFICES ASSUME Connect(e) PROVE Attended'
    OBVIOUS
  <2>1. delivery'[e].stage = "none" \/ delivery'[e].orphan
    BY DEF Attended, Connect, Connecting
  <2> QED
    BY <1>2, <1>3, <2>1 DEF Connect, Set
<1>8. ASSUME NEW e \in Extensions PROVE Deliver(e) => Attended'
  <2> SUFFICES ASSUME Deliver(e) PROVE Attended'
    OBVIOUS
  <2>1. ASSUME NEW x, Set(e, x), UNCHANGED delivery PROVE Attended'
    BY <1>3, <2>1 DEF Deliver, Set
  <2>2. CASE ext' = ext
    BY <1>1, <1>4, <2>2 DEF Deliver
  <2> QED
    BY <2>1, <2>2 DEF Deliver
<1>9. ASSUME NEW e \in Extensions PROVE Authorize(e) \/ Accept(e) => Attended'
  <2> SUFFICES ASSUME Authorize(e) \/ Accept(e) PROVE Attended'
    OBVIOUS
  <2>1. /\ ext' = ext /\ \A f \in Extensions : f # e => delivery'[f] = delivery[f]
        /\ delivery'[e].orphan = delivery[e].orphan /\ delivery[e].stage # "none"
    BY <1>1, ZenonT(60) DEF Authorize, Accept, Deliveries
  <2>2. delivery'[e].orphan \/ Delivering(e)
    BY <2>1 DEF Attended
  <2> QED
    BY <1>4, <2>1, <2>2
<1>10. ASSUME NEW e \in Extensions PROVE Answer(e) => Attended'
  <2> SUFFICES ASSUME Answer(e) PROVE Attended'
    OBVIOUS
  <2>1. /\ delivery'[e].stage = "none"
        /\ \A f \in Extensions : f # e => delivery'[f] = delivery[f]
    BY <1>1 DEF Answer, NoDelivery
  <2>2. CASE delivery[e].orphan
    BY <1>4, <2>1, <2>2 DEF Answer
  <2>3. CASE ~delivery[e].orphan
    BY <1>3, <2>1, <2>3 DEF Answer, Set
  <2> QED
    BY <2>2, <2>3
<1>11. ASSUME NEW e \in Extensions PROVE Probe(e) \/ Probed(e) => Attended'
  <2> SUFFICES ASSUME Probe(e) \/ Probed(e) PROVE Attended'
    OBVIOUS
  <2>1. PICK x : /\ ext' = [ext EXCEPT ![e] = x]
                 /\ x.jobs = ext[e].jobs /\ x.stage = ext[e].stage
    <3>1. \A p, s : LET y == [ext[e] EXCEPT !.probe = p, !.status = s]
                   IN y.jobs = ext[e].jobs /\ y.stage = ext[e].stage
      BY <1>1 DEF Workers
    <3>2. \A g : LET y == [ext[e] EXCEPT !.probe.got = g]
                IN y.jobs = ext[e].jobs /\ y.stage = ext[e].stage
      BY <1>1 DEF Workers
    <3>3. CASE Probe(e)
      BY <3>2, <3>3 DEF Probe, Set
    <3>4. CASE Probed(e)
      <4> DEFINE s == IF ext[e].probe.got # ext[e].probe.was
                      THEN ext[e].probe.got ELSE ext[e].status
                 y == [ext[e] EXCEPT !.probe = NoProbe, !.status = s]
      <4>1. ext' = [ext EXCEPT ![e] = y]
        BY <1>1, <3>4 DEF Probed, Set, Workers
      <4>2. y.jobs = ext[e].jobs /\ y.stage = ext[e].stage
        BY <3>1
      <4> QED
        BY <4>1, <4>2
    <3> QED
      BY <3>3, <3>4
  <2>2. delivery[e].stage = "none" \/ delivery[e].orphan \/ Delivering(e)
    BY DEF Attended
  <2> QED
    BY <1>3, <2>1, <2>2 DEF Probe, Probed, Delivering
<1>12. ASSUME NEW e \in Extensions PROVE Drop(e) => Attended'
  <2> SUFFICES ASSUME Drop(e) PROVE Attended'
    OBVIOUS
  <2>1. /\ \A f \in Extensions : f # e => delivery'[f] = delivery[f]
        /\ delivery'[e].orphan \/ delivery'[e].stage = "none"
    BY <1>1 DEF Drop, Deliveries
  <2> QED
    BY <1>3, <2>1 DEF Drop, Set
<1>13. ASSUME NEW e \in Extensions PROVE Click(e) => Attended'
  <2> SUFFICES ASSUME Click(e) PROVE Attended'
    OBVIOUS
  <2> DEFINE c == clicks + 1
             x == [Awake(ext[e]) EXCEPT !.jobs = Append(@, c)]
  <2>1. /\ Awake(ext[e]).jobs = ext[e].jobs /\ Awake(ext[e]).stage = ext[e].stage
        /\ Awake(ext[e]) \in Workers /\ ext[e].jobs \in Seq(Capabilities)
    <3>1. ext[e] \in Workers
      BY <1>1
    <3>2. Awake(ext[e]).stage = ext[e].stage
      BY <3>1 DEF Awake, Woken, Workers
    <3> QED
      BY <3>1, <3>2, WokenIn DEF Workers
  <2>2. x.jobs = Append(ext[e].jobs, c) /\ x.stage = ext[e].stage
    BY <2>1 DEF Workers
  <2>3. ext[e].jobs # <<>> => Head(Append(ext[e].jobs, c)) = Head(ext[e].jobs)
    BY <2>1
  <2>4. Append(ext[e].jobs, c) # <<>>
    BY <2>1
  <2>5. delivery[e].stage = "none" \/ delivery[e].orphan \/ Delivering(e)
    BY DEF Attended
  <2>6. ext' = [ext EXCEPT ![e] = x] /\ delivery' = delivery
    BY DEF Click, Set
  <2> HIDE DEF x
  <2> QED
    BY <1>3, <2>2, <2>3, <2>4, <2>5, <2>6 DEF Delivering
<1>14. Forget => Attended'
  <2> SUFFICES ASSUME Forget PROVE Attended'
    OBVIOUS
  <2>1. ext' = ext
    BY DEF Forget
  <2> SUFFICES ASSUME NEW e \in Extensions, delivery'[e].stage # "none", ~delivery'[e].orphan
               PROVE  Delivering(e)'
    BY DEF Attended
  <2>2. ~delivery[e].orphan /\ delivery[e].stage # "none"
    <3>1. delivery[e] \in Deliveries
      BY <1>1
    <3>2. PICK s : delivery'[e] = [delivery[e] EXCEPT !.stage = s]
                   /\ (delivery[e].stage = "none" => s = "none")
      BY DEF Forget
    <3> QED
      BY <3>1, <3>2 DEF Deliveries
  <2>3. Delivering(e)
    BY <2>2 DEF Attended
  <2> QED
    BY <2>1, <2>3 DEF Delivering
<1> QED
  BY <1>2, <1>5, <1>6, <1>7, <1>8, <1>9, <1>10, <1>11, <1>12, <1>13, <1>14
     DEF ConnectionStep, BrowserStep, Progress, Crash, Sleep, Challenged, Expire, Poll, LeavePage,
         Complete, Unanswered, CompleteFails

-----------------------------------------------------------------------------
(* The whole.                                                              *)

Inv == VInv /\ CInv /\ Attended

LEMMA InitInv == ASSUME VaultAssumption, ConnectionAssumption, Init PROVE Inv
<1>1. VInv
  BY InitVInv DEF Init
<1>2. Attended
  BY DEF Init, NoDelivery, Attended
<1> QED
  BY <1>1, <1>2, InitCInv DEF Inv

LEMMA ConnectionStepKeeps ==
  ASSUME ConnectionAssumption, Inv, ConnectionStep PROVE CInv' /\ Attended'
<1>1. CInv /\ Attended
  BY DEF Inv
<1>2. ASSUME NEW e \in Extensions, Answer(e) PROVE CInv'
  <2>1. ~delivery[e].orphan => ext[e].jobs # <<>>
    BY <1>1, <1>2 DEF Attended, Delivering, Answer, Answers
  <2> QED
    BY <1>1, <1>2, <2>1, AnswerKeeps
<1>3. ASSUME NEW e \in Extensions, Click(e) \/ Progress(e) \/ Crash(e) PROVE CInv'
  BY <1>1, <1>2, <1>3, ClickKeeps, WakeKeeps, AlarmKeeps, ConnectKeeps, DeliverKeeps,
     AuthorizeKeeps, AcceptKeeps, ProbeKeeps, ProbedKeeps, DropKeeps
     DEF Progress, Sleep, Crash
<1>4. ASSUME NEW c \in Ids,
             Expire(c) \/ Poll(c) \/ LeavePage(c) \/ Challenged(c) \/ CompleteFails(c)
      PROVE  CInv'
  BY <1>1, <1>4, ExpireKeeps, PollKeeps, LeavePageKeeps, CompleteKeeps, UnansweredKeeps,
     CompleteFailsKeeps DEF Challenged
<1> QED
  BY <1>1, <1>3, <1>4, ForgetKeeps, AttendedKeeps DEF ConnectionStep, BrowserStep

LEMMA SameKeeps ==
  ASSUME CInv, Attended, UNCHANGED connectionVars PROVE CInv' /\ Attended'
<1>1. UNCHANGED <<clicks, challenge, file, ext, delivery, delivered>>
  BY DEF connectionVars
<1>2. Attended'
  BY <1>1 DEF Attended, Delivering
<1> QED
  BY <1>2, Same

(* A step of the extensions does nothing to the vaults but use up a bound. *)
LEMMA VaultApart ==
  ASSUME BrowserStep
  PROVE  /\ UNCHANGED <<files, pointer, launcher, serving, given, torn>>
         /\ mishaps' = mishaps \/ (mishaps < Mishaps /\ mishaps' = mishaps + 1)
BY DEF BrowserStep, Challenged, Expire, Poll, LeavePage, Complete, CompleteFails, Unanswered,
       Click, Progress, Wake, Alarm, Connect, Deliver, Authorize, Accept, Answer, Probe, Probed,
       Sleep, Crash, vaultVars

LEMMA NextKeeps ==
  ASSUME VaultAssumption, ConnectionAssumption, Inv, [Next]_vars PROVE Inv'
<1>1. VInv /\ CInv /\ Attended /\ mishaps \in 0..Mishaps
  BY DEF Inv, VInv, VaultTypeOK
<1>2. CASE UNCHANGED vars
  BY <1>1, <1>2, SameKeeps, StutterKeeps DEF Inv, vars, vaultVars
<1>3. ASSUME NEW l \in Launchers, Exit(l), Forget PROVE Inv'
  <2>1. VInv'
    BY <1>1, <1>3, VaultStepKeeps
  <2> QED
    BY <1>3, <2>1, ConnectionStepKeeps DEF Inv, ConnectionStep
<1>4. ASSUME NEW l \in Launchers, Command(l) \/ Work(l) \/ Fail(l) \/ Kill(l),
             UNCHANGED connectionVars
      PROVE  Inv'
  BY <1>1, <1>4, VaultStepKeeps, SameKeeps DEF Inv
<1>5. ASSUME BrowserStep PROVE Inv'
  <2>1. mishaps' \in 0..Mishaps
    BY <1>1, <1>5, VaultApart DEF VaultAssumption
  <2> QED
    BY <1>1, <1>5, <2>1, VaultApart, StutterKeeps, ConnectionStepKeeps DEF Inv, ConnectionStep
<1> QED
  BY <1>2, <1>3, <1>4, <1>5 DEF Next, BrowserStep

(* The challenges, the workers and the files stay what they are meant to   *)
(* be, for any number of profiles, clicks, commands and mishaps.           *)
THEOREM ConnectionTypes ==
  ASSUME VaultAssumption, ConnectionAssumption PROVE Spec => []TypeOK
<1>1. Init => Inv
  BY InitInv
<1>2. Inv /\ [Next]_vars => Inv'
  BY NextKeeps
<1>3. Inv => TypeOK
  BY DEF Inv, VInv, CInv, ConnectionTypeOK, TypeOK
<1> QED
  BY <1>1, <1>2, <1>3, PTL DEF Spec

(* Extensions that come and go, connect and deliver leave the vaults as    *)
(* whole as localVault.ts makes them.                                      *)
THEOREM ServedVaultsAreWhole ==
  ASSUME VaultAssumption, ConnectionAssumption PROVE Spec => []VaultsWhole
<1>1. Init => Inv
  BY InitInv
<1>2. Inv /\ [Next]_vars => Inv'
  BY NextKeeps
<1>3. Inv => VaultsWhole
  BY VInvImplies DEF Inv
<1> QED
  BY <1>1, <1>2, <1>3, PTL DEF Spec

(* completeCaptureConnectionChallenge never honours a challenge that the   *)
(* settings page was told had expired.                                     *)
THEOREM ExpiredStaysExpired ==
  ASSUME VaultAssumption, ConnectionAssumption PROVE Spec => []ExpiredIsFinal
<1>1. Init => Inv
  BY InitInv
<1>2. Inv /\ [Next]_vars => Inv'
  BY NextKeeps
<1>3. Inv => ExpiredIsFinal
  BY DEF Inv, CInv, ToldInTime, Given, ExpiredIsFinal
<1> QED
  BY <1>1, <1>2, <1>3, PTL DEF Spec

(* Only Accept marks an attempt as taken.                                  *)
LEMMA OnlyAcceptDelivers ==
  ASSUME Inv, Next, NEW e \in Extensions, delivered'[e] # delivered[e] PROVE file.inst = e
<1>1. delivered \in [Extensions -> BOOLEAN] /\ delivered' # delivered
  BY DEF Inv, CInv, ConnectionTypeOK
<1>2. PICK f \in Extensions : Accept(f)
  BY <1>1 DEF Next, connectionVars, Forget, Click, Progress, Crash, Wake, Alarm, Connect, Deliver,
     Authorize, Answer, Probe, Probed, Sleep, Drop, Expire, Poll, LeavePage, Challenged,
     Complete, Unanswered, CompleteFails
<1>3. delivered' = [delivered EXCEPT ![f] = TRUE] /\ file.inst = f
  BY <1>1, <1>2 DEF Accept, Admitted
<1> QED
  BY <1>1, <1>3

(* A request that was authorized before its body was read is taken only    *)
(* while its installation is the connected one (attempts/route.ts).        *)
THEOREM TakenFromTheConnected ==
  ASSUME VaultAssumption, ConnectionAssumption PROVE Spec => AcceptedIsCurrent
<1>1. Init => Inv
  BY InitInv
<1>2. Inv /\ [Next]_vars => Inv'
  BY NextKeeps
<1>3. Inv /\ [Next]_vars =>
        [\A e \in Extensions : delivered'[e] # delivered[e] => file.inst = e]_vars
  BY OnlyAcceptDelivers
<1> QED
  BY <1>1, <1>2, <1>3, PTL DEF Spec, AcceptedIsCurrent

(* Every step leaves the installation's version or raises it.              *)
LEMMA VersionGrows == ASSUME Inv, [Next]_vars PROVE file'.version >= file.version
<1>1. file.version \in Nat /\ file \in [inst : Installer, version : Nat, cap : Capabilities]
  BY DEF Inv, CInv, ConnectionTypeOK
<1>2. CASE file' = file
  BY <1>1, <1>2
<1>3. ASSUME NEW c \in Ids, Complete(c) PROVE file'.version >= file.version
  BY <1>1, <1>2, <1>3 DEF Complete
<1> QED
  BY <1>2, <1>3 DEF Next, vars, connectionVars, Forget, Click, Progress, Crash, Wake, Alarm,
     Connect, Deliver, Authorize, Accept, Touched, Answer, Probe, Probed, Sleep, Drop, Expire,
     Poll, LeavePage, Challenged, Unanswered, CompleteFails

(* touchCaptureInstallation never writes back a credential that was        *)
(* replaced while the request waited for its body.                         *)
THEOREM CredentialsOnlyAdvance ==
  ASSUME VaultAssumption, ConnectionAssumption PROVE Spec => CredentialNeverReturns
<1>1. Init => Inv
  BY InitInv
<1>2. Inv /\ [Next]_vars => Inv'
  BY NextKeeps
<1>3. Inv /\ [Next]_vars => [file'.version >= file.version]_vars
  BY VersionGrows
<1> QED
  BY <1>1, <1>2, <1>3, PTL DEF Spec, CredentialNeverReturns
=============================================================================
