------------------------------ MODULE Registry ------------------------------
(***************************************************************************)
(* The workspaces of a host: rows in the control database, directories, and *)
(* the engines a running server keeps open (engines.rs), with the commands  *)
(* that make, look at, check and delete workspaces from other processes     *)
(* (commands.rs).                                                           *)
(*                                                                         *)
(* Opening an engine is several steps: the workspace is looked up, its      *)
(* directory is made when it is missing, its row is made when it is         *)
(* missing, and the record is repaired.  No lock is held over them that     *)
(* another process would see.                                               *)
(***************************************************************************)
EXTENDS Control

CONSTANTS
    Server,       \* the server's process
    MaxKills      \* a bound of the model

ASSUME RegistryAssumption ==
    MaxKills \in Nat /\ Server \notin Operators /\ None \notin {"create", "show", "delete", "check"}

VARIABLES
    dirs,        \* ids that have a directory under the data directory
    cached,      \* ids whose engines the server keeps open
    sessions,    \* ids with a rewrite session open
    opening,     \* what each process is opening, and how far it is
    errands,     \* the command each operator's process runs
    gone,        \* ids ever deleted
    kills

host == <<dirs, cached, sessions, opening, errands, gone, kills>>
registry == <<control, host>>

Processes == Operators \cup {Server}
Closed == [step |-> "closed", id |-> None]
NoErrand == [do |-> None, step |-> "start", name |-> None, id |-> None, force |-> FALSE,
             seen |-> {}, left |-> {}]

RegistryInit ==
    /\ ControlInit
    /\ dirs = {}
    /\ cached = {}
    /\ sessions = {}
    /\ opening = [p \in Processes |-> Closed]
    /\ errands = [o \in Operators |-> NoErrand]
    /\ gone = {}
    /\ kills = 0

-----------------------------------------------------------------------------
(* Opening an engine. *)

Open(p, id) == opening' = [opening EXCEPT ![p] = [step |-> "found", id |-> id]]

\* `FsShelf::open` makes what is missing of the directory.
OpenShelf(p) ==
    /\ opening[p].step = "found"
    /\ dirs' = dirs \cup {opening[p].id}
    /\ opening' = [opening EXCEPT ![p].step = "shelf"]
    /\ UNCHANGED <<control, cached, sessions, errands, gone, kills>>

\* `ledger.create`: INSERT OR IGNORE, without a name.
CreateRow(p) ==
    /\ opening[p].step = "shelf"
    /\ workspaces' = IF opening[p].id \in Workspaces THEN workspaces
                     ELSE With(workspaces, opening[p].id, None)
    /\ opening' = [opening EXCEPT ![p].step = "row"]
    /\ UNCHANGED <<keys, audit, now, commands, requests, connection, minted, tokens, dead>>
    /\ UNCHANGED <<dirs, cached, sessions, errands, gone, kills>>

\* The repair reads the record, and fails where there is none any more.
Reconcile(p, Then) ==
    /\ opening[p].step = "row"
    /\ IF opening[p].id \in Workspaces THEN Then ELSE UNCHANGED <<cached, errands, sessions>>
    /\ opening' = [opening EXCEPT ![p] = Closed]
    /\ UNCHANGED <<control, dirs, gone, kills>>

-----------------------------------------------------------------------------
(* The server. *)

\* Mutant of Get: only what is open already is looked after.
GetCached(id) ==
    /\ opening[Server] = Closed
    /\ id \in cached
    /\ Open(Server, id)
    /\ UNCHANGED <<control, dirs, cached, sessions, errands, gone, kills>>

\* `Engines::get`, under its mutex, for a request's workspace or, from the janitor,
\* for each workspace of the list.
Get(id) ==
    /\ opening[Server] = Closed
    /\ id \in Workspaces \ cached
    /\ Open(Server, id)
    /\ UNCHANGED <<control, dirs, cached, sessions, errands, gone, kills>>

GotEngine ==
    Reconcile(Server, cached' = cached \cup {opening[Server].id} /\ UNCHANGED <<errands, sessions>>)

\* A device begins or ends a rewrite; an engine whose record is gone refuses.
BeginSession(id) ==
    /\ id \in cached \cap Workspaces
    /\ sessions' = sessions \cup {id}
    /\ UNCHANGED <<control, dirs, cached, opening, errands, gone, kills>>

EndSession(id) ==
    /\ id \in cached \cap sessions
    /\ sessions' = sessions \ {id}
    /\ UNCHANGED <<control, dirs, cached, opening, errands, gone, kills>>

-----------------------------------------------------------------------------
(* Commands.  A process runs one command, which may be refused at any step. *)

Going(o, do, step) == errands[o].do = do /\ errands[o].step = step
Step(o, step) == errands' = [errands EXCEPT ![o].step = step]
Finish(o) == errands' = [errands EXCEPT ![o] = NoErrand]
Start(o) == errands[o] = NoErrand /\ commands[o] = Idle /\ opening[o] = Closed

\* workspace create: the row, and then the directory.
StartCreate(o) ==
    /\ Start(o)
    /\ BeginCreateWorkspace(o)
    /\ errands' = [errands EXCEPT ![o].do = "create"]
    /\ UNCHANGED <<dirs, cached, sessions, opening, gone, kills>>

CreatedRow(o) ==
    /\ Going(o, "create", "start")
    /\ CreateWorkspace(o)
    /\ \E id \in DOMAIN workspaces' \ Workspaces :
          errands' = [errands EXCEPT ![o].step = "made", ![o].id = id]
    /\ UNCHANGED <<dirs, cached, sessions, opening, gone, kills>>

PrivateDir(o) ==
    /\ Going(o, "create", "made")
    /\ dirs' = dirs \cup {errands[o].id}
    /\ Finish(o)
    /\ UNCHANGED <<control, cached, sessions, opening, gone, kills>>

\* workspace show, rewrite show, rewrite abort: the workspace is found by its name and
\* opened; an abort ends the session.
StartShow(o) ==
    /\ Start(o)
    /\ \E name \in Names : \E id \in FindWorkspace(name) :
          /\ Open(o, id)
          /\ errands' = [errands EXCEPT ![o].do = "show", ![o].id = id]
    /\ UNCHANGED <<control, dirs, cached, sessions, gone, kills>>

Shown(o) ==
    /\ Going(o, "show", "start")
    /\ \E ended \in {{}, {errands[o].id}} :
          Reconcile(o, Finish(o) /\ sessions' = sessions \ ended /\ UNCHANGED cached)

\* workspace delete: found and opened to see whether a session is open.
StartDelete(o) ==
    /\ Start(o)
    /\ \E name \in Names, force \in BOOLEAN : \E id \in FindWorkspace(name) :
          /\ Open(o, id)
          /\ errands' = [errands EXCEPT ![o] = [NoErrand EXCEPT !.do = "delete", !.name = name,
                                                                !.id = id, !.force = force]]
    /\ UNCHANGED <<control, dirs, cached, sessions, gone, kills>>

\* Without --force an open session refuses; then the name is asked for again.
MayDelete(o) ==
    /\ Going(o, "delete", "start")
    /\ Reconcile(o, /\ IF errands[o].id \in sessions /\ ~errands[o].force THEN Finish(o)
                                                                          ELSE Step(o, "confirmed")
                    /\ UNCHANGED <<cached, sessions>>)

\* `delete_workspace` looks the name up again.
DeleteByName(o) ==
    /\ Going(o, "delete", "confirmed")
    /\ BeginDeleteWorkspace(o, errands[o].name)
    /\ Step(o, "deleting")
    /\ UNCHANGED <<dirs, cached, sessions, opening, gone, kills>>

DeletedRows(o) ==
    /\ Going(o, "delete", "deleting")
    /\ DeleteWorkspace(o)
    /\ sessions' = sessions \ {commands[o].found}
    /\ gone' = gone \cup {commands[o].found}
    /\ Step(o, "deleted")
    /\ UNCHANGED <<dirs, cached, opening, kills>>

\* Mutant of RemoveDir: the directory goes first.
RemoveDirFirst(o) ==
    /\ errands[o].do = "delete"
    /\ errands[o].step \in {"confirmed", "deleted"}
    /\ dirs' = dirs \ {errands[o].id}
    /\ IF errands[o].step = "deleted" THEN Finish(o) ELSE UNCHANGED errands
    /\ UNCHANGED <<control, cached, sessions, opening, gone, kills>>

\* The directory of the id that was found first.
RemoveDir(o) ==
    /\ Going(o, "delete", "deleted")
    /\ dirs' = dirs \ {errands[o].id}
    /\ Finish(o)
    /\ UNCHANGED <<control, cached, sessions, opening, gone, kills>>

\* check: the rows are listed, each is opened, and then the directories are read.
\* `seen` is the list, and `left` what of it is still to be opened.
StartCheck(o) ==
    /\ Start(o)
    /\ errands' = [errands EXCEPT ![o] = [NoErrand EXCEPT !.do = "check", !.step = "listed",
                                                  !.seen = Workspaces, !.left = Workspaces]]
    /\ UNCHANGED <<control, dirs, cached, sessions, opening, gone, kills>>

CheckOne(o) ==
    /\ Going(o, "check", "listed")
    /\ opening[o] = Closed
    /\ \E id \in errands[o].left :
          /\ Open(o, id)
          /\ errands' = [errands EXCEPT ![o].step = "opening", ![o].left = @ \ {id}]
    /\ UNCHANGED <<control, dirs, cached, sessions, gone, kills>>

CheckedOne(o) ==
    /\ Going(o, "check", "opening")
    /\ Reconcile(o, Step(o, "listed") /\ UNCHANGED <<cached, sessions>>)

\* One that cannot be opened is told of, and the next one tried.
CheckFailed(o) ==
    /\ Going(o, "check", "opening")
    /\ opening[o] = Closed
    /\ Step(o, "listed")
    /\ UNCHANGED <<control, dirs, cached, sessions, opening, gone, kills>>

\* "belongs to no workspace; a deletion was cut short. Remove it"
ReportStrays(o) ==
    /\ Going(o, "check", "listed")
    /\ opening[o] = Closed
    /\ errands[o].left = {}
    /\ errands' = [errands EXCEPT ![o].step = "told", ![o].seen = dirs \ @]
    /\ UNCHANGED <<control, dirs, cached, sessions, opening, gone, kills>>

CheckDone(o) ==
    /\ Going(o, "check", "told")
    /\ Finish(o)
    /\ UNCHANGED <<control, dirs, cached, sessions, opening, gone, kills>>

\* Refused where there is nothing to go on with: the name is taken or gone, or the
\* record was gone when it was to be repaired.
GiveUp(o) ==
    /\ errands[o] # NoErrand
    /\ \/ Going(o, "create", "start") /\ FindWorkspace(commands[o].name) # {}
       \/ Going(o, "delete", "confirmed") /\ FindWorkspace(errands[o].name) = {}
       \/ errands[o].do \in {"show", "delete"} /\ errands[o].step = "start" /\ opening[o] = Closed
    /\ Finish(o)
    /\ commands' = [commands EXCEPT ![o] = Idle]
    /\ UNCHANGED <<workspaces, keys, audit, now, requests, connection, minted, tokens, dead>>
    /\ UNCHANGED <<dirs, cached, sessions, opening, gone, kills>>

-----------------------------------------------------------------------------
(* Kills. *)

KillCommand(o) ==
    /\ errands[o] # NoErrand
    /\ kills < MaxKills
    /\ kills' = kills + 1
    /\ Finish(o)
    /\ commands' = [commands EXCEPT ![o] = Idle]
    /\ opening' = [opening EXCEPT ![o] = Closed]
    /\ UNCHANGED <<workspaces, keys, audit, now, requests, connection, minted, tokens, dead>>
    /\ UNCHANGED <<dirs, cached, sessions, gone>>

RestartServer ==
    /\ kills < MaxKills
    /\ kills' = kills + 1
    /\ cached' = {}
    /\ opening' = [opening EXCEPT ![Server] = Closed]
    /\ UNCHANGED <<control, dirs, sessions, errands, gone>>

Serve == GotEngine \/ \E id \in Ids : Get(id) \/ BeginSession(id) \/ EndSession(id)

Command(o) ==
    \/ StartCreate(o) \/ CreatedRow(o) \/ PrivateDir(o)
    \/ StartShow(o) \/ Shown(o)
    \/ StartDelete(o) \/ MayDelete(o) \/ DeleteByName(o) \/ DeletedRows(o) \/ RemoveDir(o)
    \/ StartCheck(o) \/ CheckOne(o) \/ CheckedOne(o) \/ CheckFailed(o)
    \/ ReportStrays(o) \/ CheckDone(o)
    \/ GiveUp(o)

RegistryNext ==
    \/ \E p \in Processes : OpenShelf(p) \/ CreateRow(p)
    \/ Serve
    \/ \E o \in Operators : Command(o) \/ KillCommand(o)
    \/ RestartServer

RegistrySpec == RegistryInit /\ [][RegistryNext]_registry

\* A running process goes on with what it does, and the janitor comes by every ten minutes
\* and asks for every workspace of the list.
RegistryFairness ==
    /\ \A p \in Processes : WF_registry(OpenShelf(p)) /\ WF_registry(CreateRow(p))
    /\ WF_registry(GotEngine)
    /\ \A id \in Ids : SF_registry(Get(id))

-----------------------------------------------------------------------------
(* Properties. *)

Named(id) == id \in Workspaces /\ workspaces[id] # None

\* Every variable has its type, the control database's included.
RegistryTypeOK ==
    /\ ControlTypeOK
    /\ dirs \subseteq minted
    /\ cached \subseteq minted
    /\ sessions \subseteq Workspaces
    /\ opening \in [Processes -> [step : {"closed", "found", "shelf", "row"}, id : Ids \cup {None}]]
    /\ gone \subseteq minted
    /\ kills \in 0 .. MaxKills

\* "The rows are gone; a directory left by a kill here is found by `check`" (workspace
\* delete): items are destroyed only once the rows are gone, so no workspace that can
\* be named ever loses its directory, though the name is looked up twice.
NamedKeepTheirItems ==
    [][\A id \in dirs \ dirs' : ~Named(id)]_registry

\* A workspace whose creation was cut short before its directory was made gets one: the
\* janitor opens every workspace of the list (server.rs, janitor; FsShelf::open).
EveryWorkspaceGetsItsDirectory ==
    RegistryFairness => \A id \in Ids : Named(id) ~> (id \in dirs \/ ~Named(id))

\* "NotFound for a workspace the control database does not have, before anything is
\* created for it" (Engines::get): a workspace that was deleted is not made again.
DeletedStaysDeleted == gone \cap Workspaces = {}

\* "While a rewrite session is open it needs `--force`" (docs/usage.md): the rows of a
\* workspace with a session open go only with it.
SessionNeedsForce ==
    [][\A o \in Operators : Going(o, "delete", "deleting") /\ errands'[o].step = "deleted"
          /\ commands[o].found \in sessions => errands[o].force]_registry

\* "belongs to no workspace; a deletion was cut short. Remove it" (check): the directory
\* of a workspace that is there is not called that.
CheckSparesTheLiving ==
    \A o \in Operators : Going(o, "check", "told") => errands[o].seen \cap Workspaces = {}

=============================================================================
