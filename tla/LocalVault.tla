----------------------------- MODULE LocalVault -----------------------------
(***************************************************************************)
(* The local vault and its launcher (lib/vault/localVault.ts and           *)
(* launcher.ts).  A vault is a directory that holds a database and a       *)
(* descriptor; a pointer in the user's configuration names the active one; *)
(* the launcher creates, adopts, switches and serves vaults.  Each step    *)
(* below is one change of the file system, and the launcher may fail or be *)
(* killed before any of them.                                              *)
(*                                                                         *)
(* Launchers are processes: nothing keeps two of them from running at the  *)
(* same time.  That two of them are not given the same directory is        *)
(* assumed: the code checks that a directory is empty, and takes no lock.  *)
(***************************************************************************)
EXTENDS Naturals, Sequences

CONSTANTS
  Dirs,        \* directories the user may choose
  Launchers,   \* launcher processes
  None,        \* no vault
  Commands,    \* bound: how many commands are given
  Mishaps      \* bound: how many failures and kills there are

ASSUME VaultAssumption ==
  /\ None \notin Dirs
  /\ Commands \in Nat /\ Mishaps \in Nat

VARIABLES
  files,      \* what each directory holds
  pointer,    \* the active vault
  launcher,   \* what each launcher is doing
  serving,    \* the vault the application on port 3000 was started with
  given,      \* how many of the commands were given
  mishaps,    \* how many of the failures and kills there were
  torn        \* history: directories a launcher was killed in

vaultVars == <<files, pointer, launcher, serving, given, mishaps, torn>>

Names == {"tmpDb", "tmpDesc", "db", "desc"}
VaultFiles == {"db", "desc"}
Whole(d) == VaultFiles \subseteq files[d]

Off == [cmd |-> "none", dir |-> None, starts |-> FALSE, pc |-> "off", undo |-> <<>>]
Busy(l) == launcher[l].pc # "off"
Fills(l) == launcher[l].cmd \in {"create", "adopt"}
At(l, pc) == launcher[l].pc = pc
Goto(l, pc) == launcher' = [launcher EXCEPT ![l].pc = pc]
Leave(l) == launcher' = [launcher EXCEPT ![l] = Off]
Put(d, set) == files' = [files EXCEPT ![d] = set]

(* Some directories may hold vaults already, and one of them be active.    *)
VaultInit ==
  /\ files \in [Dirs -> {{}, VaultFiles}]
  /\ pointer \in {d \in Dirs : Whole(d)} \cup {None}
  /\ launcher = [l \in Launchers |-> Off]
  /\ serving = None
  /\ given \in 0..Commands
  /\ mishaps \in 0..Mishaps
  /\ torn = {}

-----------------------------------------------------------------------------
(* The commands.                                                           *)

Begin(l, cmd, d, starts) ==
  /\ ~Busy(l)
  /\ given < Commands
  /\ given' = given + 1
  /\ launcher' = [launcher EXCEPT ![l] = [cmd |-> cmd, dir |-> d, starts |-> starts,
                                          pc |-> "port", undo |-> <<>>]]
  /\ UNCHANGED <<files, pointer, serving, mishaps, torn>>

(* Serving validates the active vault before it does anything else.        *)
ActiveIsValid == pointer # None => Whole(pointer)

ServeActive(l) ==
  /\ pointer # None /\ ActiveIsValid
  /\ Begin(l, "serve", pointer, TRUE)

(* A command with a directory, alone or chosen by a serve.                 *)
Configure(l, cmd, d, starts) ==
  /\ \A m \in Launchers : Busy(m) => launcher[m].dir # d
  /\ starts => ActiveIsValid
  /\ Begin(l, cmd, d, starts)

AfterPort(cmd) ==
  CASE cmd = "serve" -> "start" [] cmd = "switch" -> "validate" [] OTHER -> "fill"

(* The port is probed and released again: it is not held.                  *)
CheckPort(l) ==
  /\ At(l, "port")
  /\ IF serving = None THEN Goto(l, AfterPort(launcher[l].cmd)) ELSE Leave(l)
  /\ UNCHANGED <<files, pointer, serving, given, mishaps, torn>>

(* The application fails to start when the port was taken meanwhile.       *)
Start(l) ==
  /\ At(l, "start")
  /\ IF serving = None
     THEN serving' = launcher[l].dir /\ Goto(l, "serving")
     ELSE UNCHANGED serving /\ Leave(l)
  /\ UNCHANGED <<files, pointer, given, mishaps, torn>>

(* The application ends, and its launcher with it.                         *)
Exit(l) ==
  /\ At(l, "serving")
  /\ serving' = None
  /\ Leave(l)
  /\ UNCHANGED <<files, pointer, given, mishaps, torn>>

-----------------------------------------------------------------------------
(* Creating and adopting: both fill an empty directory by way of temporary *)
(* files and rename the database into place before the descriptor.         *)

Fill(l) ==
  LET d == launcher[l].dir IN
  /\ At(l, "fill")
  /\ IF files[d] = {} THEN Put(d, {"tmpDb"}) /\ Goto(l, "describe")
     ELSE UNCHANGED files /\ Leave(l)
  /\ UNCHANGED <<pointer, serving, given, mishaps, torn>>

Describe(l) ==
  LET d == launcher[l].dir IN
  /\ At(l, "describe")
  /\ Put(d, files[d] \cup {"tmpDesc"})
  /\ Goto(l, "commitDb")
  /\ UNCHANGED <<pointer, serving, given, mishaps, torn>>

CommitDb(l) ==
  LET d == launcher[l].dir IN
  /\ At(l, "commitDb")
  /\ Put(d, (files[d] \ {"tmpDb"}) \cup {"db"})
  /\ Goto(l, "commitDesc")
  /\ UNCHANGED <<pointer, serving, given, mishaps, torn>>

CommitDesc(l) ==
  LET d == launcher[l].dir IN
  /\ At(l, "commitDesc")
  /\ Put(d, (files[d] \ {"tmpDesc"}) \cup {"desc"})
  /\ Goto(l, "validate")
  /\ UNCHANGED <<pointer, serving, given, mishaps, torn>>

Validate(l) ==
  /\ At(l, "validate")
  /\ IF Whole(launcher[l].dir) THEN Goto(l, "point") ELSE Leave(l)
  /\ UNCHANGED <<files, pointer, serving, given, mishaps, torn>>

(* The pointer is replaced by one rename; a first serve goes on to start.  *)
Point(l) ==
  /\ At(l, "point")
  /\ Whole(launcher[l].dir)
  /\ pointer' = launcher[l].dir
  /\ IF launcher[l].starts
     THEN launcher' = [launcher EXCEPT ![l].cmd = "serve", ![l].pc = "start"]
     ELSE Leave(l)
  /\ UNCHANGED <<files, serving, given, mishaps, torn>>

-----------------------------------------------------------------------------
(* Failures: what the error path of each command removes, in its order.    *)

(* Mutant: the database is removed before the descriptor.                  *)
UndoDbFirst(cmd, pc) ==
  CASE cmd = "switch" -> <<>>
    [] cmd = "create" /\ pc = "point" -> <<>>
    [] cmd = "create" /\ pc = "commitDesc" -> <<"db", "tmpDb", "tmpDesc">>
    [] cmd = "adopt" /\ pc = "commitDesc" -> <<"tmpDb", "tmpDesc", "db">>
    [] cmd = "adopt" /\ pc \in {"validate", "point"} -> <<"tmpDb", "tmpDesc", "db", "desc">>
    [] OTHER -> <<"tmpDb", "tmpDesc">>
(* A created vault is kept when it cannot be made the active one; an       *)
(* adopted one is not.                                                     *)
Undo(cmd, pc) ==
  CASE cmd = "switch" -> <<>>
    [] cmd = "create" /\ pc = "point" -> <<>>
    [] cmd = "create" /\ pc = "commitDesc" -> <<"db", "tmpDb", "tmpDesc">>
    [] cmd = "adopt" /\ pc = "commitDesc" -> <<"tmpDb", "tmpDesc", "db">>
    [] cmd = "adopt" /\ pc \in {"validate", "point"} -> <<"tmpDb", "tmpDesc", "desc", "db">>
    [] OTHER -> <<"tmpDb", "tmpDesc">>

(* A write that fails may have left part of its temporary file.            *)
PartOf(pc) ==
  CASE pc = "fill" -> {"tmpDb"} [] pc = "describe" -> {"tmpDesc"} [] OTHER -> {}

Steps == {"fill", "describe", "commitDb", "commitDesc", "validate", "point"}

Fail(l) ==
  LET me == launcher[l]
      undo == Undo(me.cmd, me.pc)
  IN
  /\ me.pc \in Steps
  /\ me.pc = "fill" => files[me.dir] = {}
  /\ mishaps < Mishaps
  /\ mishaps' = mishaps + 1
  /\ IF undo = <<>>
     THEN UNCHANGED files /\ Leave(l)
     ELSE /\ Put(me.dir, files[me.dir] \cup PartOf(me.pc))
          /\ launcher' = [launcher EXCEPT ![l].pc = "undo", ![l].undo = undo]
  /\ UNCHANGED <<pointer, serving, given, torn>>

Remove(l) ==
  LET me == launcher[l] IN
  /\ At(l, "undo")
  /\ IF me.undo = <<>>
     THEN UNCHANGED files /\ Leave(l)
     ELSE /\ Put(me.dir, files[me.dir] \ {Head(me.undo)})
          /\ launcher' = [launcher EXCEPT ![l].undo = Tail(@)]
  /\ UNCHANGED <<pointer, serving, given, mishaps, torn>>

(* The launcher is killed.  An application it started outlives it, and is  *)
(* seen to the end in Exit.                                                *)
Kill(l) ==
  /\ Busy(l) /\ ~At(l, "serving")
  /\ mishaps < Mishaps
  /\ mishaps' = mishaps + 1
  /\ torn' = torn \cup {launcher[l].dir}
  /\ Leave(l)
  /\ UNCHANGED <<files, pointer, serving, given>>

Work(l) ==
  \/ CheckPort(l)
  \/ Start(l)
  \/ Fill(l)
  \/ Describe(l)
  \/ CommitDb(l)
  \/ CommitDesc(l)
  \/ Validate(l)
  \/ Point(l)
  \/ Remove(l)

Command(l) ==
  \/ ServeActive(l)
  \/ \E cmd \in {"create", "switch", "adopt"}, d \in Dirs, starts \in BOOLEAN :
       Configure(l, cmd, d, starts)

VaultNext ==
  \E l \in Launchers : Command(l) \/ Work(l) \/ Exit(l) \/ Fail(l) \/ Kill(l)

VaultSpec == VaultInit /\ [][VaultNext]_vaultVars

-----------------------------------------------------------------------------

Launches ==
  [cmd : {"none", "serve", "create", "switch", "adopt"}, dir : Dirs \cup {None},
   starts : BOOLEAN, undo : Seq(Names),
   pc : Steps \cup {"off", "port", "start", "serving", "undo"}]

VaultTypeOK ==
  /\ files \in [Dirs -> SUBSET Names]
  /\ pointer \in Dirs \cup {None}
  /\ launcher \in [Launchers -> Launches]
  /\ serving \in Dirs \cup {None}
  /\ given \in 0..Commands
  /\ mishaps \in 0..Mishaps
  /\ torn \subseteq Dirs

(* A directory with a descriptor has its database, whatever fails and      *)
(* whenever the launcher is killed.                                        *)
DescribedIsWhole == \A d \in Dirs : "desc" \in files[d] => "db" \in files[d]

(* The pointer and the application never name anything but a whole vault,  *)
(* so the next serve can open what it names.                               *)
NamedIsWhole == \A d \in {pointer, serving} \ {None} : Whole(d)

(* A command that fails leaves its directory empty or a whole vault; only  *)
(* a kill leaves anything else.                                            *)
NoPartialVault ==
  \A d \in Dirs \ torn :
    (\A l \in Launchers : Busy(l) => launcher[l].dir # d)
      => files[d] \in {{}, VaultFiles}

(* The vault operations of localVault.ts never tear a vault: what has a    *)
(* descriptor has a database, what is active or served is whole, and an    *)
(* error path leaves no partial vault behind.                              *)
VaultsWhole == DescribedIsWhole /\ NamedIsWhole /\ NoPartialVault
=============================================================================
