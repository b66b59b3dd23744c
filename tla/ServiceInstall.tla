---------------------------- MODULE ServiceInstall ----------------------------
(***************************************************************************)
(* `service install` and `service remove` (crates/passalong-server-cli,    *)
(* service/): the command looks at the host, decides a list of actions     *)
(* (plan.rs), and performs them one after the other (mod.rs, system.rs).   *)
(* An action fails, and the rest is not done; the command can be run       *)
(* again, by the same build or by a newer one.  Between two commands the   *)
(* administrator owns the host.                                            *)
(*                                                                         *)
(* A build is a number.  A file this command renders (the unit, the        *)
(* sysusers file) is the build that rendered it, or Foreign.  systemd and  *)
(* the files are external, modelled from how system.rs uses them.          *)
(***************************************************************************)
EXTENDS Naturals, Sequences

CONSTANTS
  Builds,       \* bound: builds 1..Builds
  Failures,     \* bound: actions that fail
  Edits         \* bound: what the administrator does to the host's files

ASSUME ServiceAssumption == Builds \in Nat \ {0} /\ Failures \in Nat /\ Edits \in Nat

VARIABLES
  host,      \* what is on the disk
  systemd,   \* the user, the unit it has read, whether it is enabled, what runs
  command,   \* the command at work: its build, its plan, what is left of it
  failed,    \* actions that failed
  edits      \* edits of the administrator

installation == <<host, systemd, command, failed, edits>>

Absent == "absent"
Foreign == Builds + 1       \* a rendered file that no build wrote; 0 is none
NoCommand == [kind |-> "none", build |-> 0, todo |-> <<>>, said |-> "nothing"]
Nothing == [binary |-> 0, unit |-> 0]

(* `Existing::of`.  Different builds render different files.               *)
ExistingOf(found, build) ==
  IF found = Foreign THEN "foreign"
  ELSE IF found = 0 THEN Absent
  ELSE IF found = build THEN "same" ELSE "ours"

(* The pair that listen.mode = "tls" expects: `pair_of`.  The configuration
   that is written when there is none says tls.                            *)
Tls == host.config \in {Absent, "tls"}

\* Mutant of Refused: half a pair is no reason to stop.
RefusedForeign(build) ==
  \/ "foreign" \in {ExistingOf(host.unit, build), ExistingOf(host.sysusers, build)}
  \/ host.config = "broken"

(* `plan_install`: refused when a file of someone else's or half a pair is
   in the way.                                                             *)
Refused(build) ==
  \/ "foreign" \in {ExistingOf(host.unit, build), ExistingOf(host.sysusers, build)}
  \/ Tls /\ (host.cert = Absent) # (host.key = Absent)
  \/ host.config = "broken"

(* An action puts a file or a directory into a state, or runs a program.   *)
Write(file, value) == [file |-> file, to |-> value]
Run(program) == [file |-> "none", to |-> program]

(* The actions of `plan_install`, in their order; a pair is its key and then
   its certificate, and the directories are one.                           *)
If(condition, actions) == IF condition THEN actions ELSE <<>>
PairThere == host.cert # Absent /\ host.key # Absent

Differs(found, build) == ExistingOf(found, build) # "same"

Changed(build) == host.binary # build \/ Differs(host.unit, build)

PlanInstall(build, names) ==
  LET makes == Tls /\ ~PairThere /\ names
      starts == ~Tls \/ PairThere \/ makes
  IN If(host.binary # build, <<Write("binary", build)>>)
     \o If(Differs(host.sysusers, build), <<Write("sysusers", build), Run("systemd-sysusers")>>)
     \o <<Write("dirs", TRUE)>>
     \o If(host.config = Absent, <<Write("config", "tls")>>)
     \o If(makes, <<Write("key", "made"), Write("cert", "made")>>)
     \o If(Differs(host.unit, build), <<Write("unit", build), Run("daemon-reload")>>)
     \o <<Run("enable")>>
     \o If(starts, <<Run(IF Changed(build) THEN "restart" ELSE "start")>>)

(* `plan_remove`.                                                          *)
PlanRemove == If(host.unit # 0, <<Run("disable"), Write("unit", 0), Run("daemon-reload")>>)

ServiceInit ==
  /\ host = [binary |-> 0, unit |-> 0, sysusers |-> 0, dirs |-> FALSE,
             config |-> Absent, cert |-> Absent, key |-> Absent]
  /\ systemd = [user |-> FALSE, unit |-> 0, enabled |-> FALSE, runs |-> Nothing]
  /\ command = NoCommand
  /\ failed = 0
  /\ edits = 0

-----------------------------------------------------------------------------
(* The commands.                                                           *)

(* `service install`: look, plan, and say it is done when nothing is left. *)
Install(build, names) ==
  /\ command.todo = <<>>
  /\ command' = IF Refused(build)
                THEN [kind |-> "install", build |-> build, todo |-> <<>>, said |-> "refused"]
                ELSE [kind |-> "install", build |-> build,
                      todo |-> PlanInstall(build, names), said |-> "nothing"]
  /\ UNCHANGED <<host, systemd, failed, edits>>

(* `service remove`.                                                       *)
RemoveService(build) ==
  /\ command.todo = <<>>
  /\ command' = IF host.unit = Foreign
                THEN [kind |-> "remove", build |-> build, todo |-> <<>>, said |-> "refused"]
                ELSE [kind |-> "remove", build |-> build,
                      todo |-> PlanRemove, said |-> "nothing"]
  /\ UNCHANGED <<host, systemd, failed, edits>>

(* systemctl: a unit's first start or a restart runs what is on the disk
   under the unit that was read last; a start of what runs does nothing.
   `enable` reads the units as daemon-reload does.                         *)
Started == [binary |-> host.binary, unit |-> systemd.unit]

(* What a program does to systemd.                                         *)
AfterRun(program) ==
  CASE program = "systemd-sysusers" -> [systemd EXCEPT !.user = TRUE]
    [] program = "daemon-reload" -> [systemd EXCEPT !.unit = host.unit]
    [] program = "enable" -> [systemd EXCEPT !.enabled = TRUE, !.unit = host.unit]
    [] program = "disable" -> [systemd EXCEPT !.enabled = FALSE, !.runs = Nothing]
    [] program = "restart" -> [systemd EXCEPT !.runs = Started]
    [] program = "start" -> [systemd EXCEPT !.runs = IF @ = Nothing THEN Started ELSE @]

(* What one action does: `perform` of mod.rs and `Host` of system.rs.  A
   file is placed whole or not at all.                                     *)
Effect(action) ==
  IF action.file = "none"
  THEN systemd' = AfterRun(action.to) /\ UNCHANGED host
  ELSE host' = [host EXCEPT ![action.file] = action.to] /\ UNCHANGED systemd

(* What is given to the service's user needs that user.                    *)
NeedsUser(action) == action.file \in {"dirs", "config", "key", "cert"}

(* The next action is done; after the last the command says so.            *)
Perform ==
  /\ command.todo # <<>>
  /\ NeedsUser(Head(command.todo)) => systemd.user
  /\ Effect(Head(command.todo))
  /\ command' = [command EXCEPT !.todo = Tail(@),
                                !.said = IF Len(command.todo) > 1 THEN @
                                         ELSE IF Head(command.todo) \in {Run("start"), Run("restart")}
                                              THEN "running" ELSE "done"]
  /\ UNCHANGED <<failed, edits>>

(* `perform_all`: an action fails, "Running the command again takes up
   where this stopped."                                                    *)
PerformFails ==
  /\ command.todo # <<>>
  /\ \/ failed < Failures /\ failed' = failed + 1
     \/ NeedsUser(Head(command.todo)) /\ ~systemd.user /\ UNCHANGED failed
  /\ command' = [command EXCEPT !.todo = <<>>, !.said = "failed"]
  /\ UNCHANGED <<host, systemd, edits>>

(* The administrator writes or removes a file between two commands.        *)
Edit(field, value) ==
  /\ command.todo = <<>>
  /\ edits < Edits
  /\ edits' = edits + 1
  /\ host' = [host EXCEPT ![field] = value]
  /\ command' = NoCommand
  /\ UNCHANGED <<systemd, failed>>

Administers ==
  \/ \E f \in {"unit", "sysusers"} : \E v \in {0, Foreign} : Edit(f, v)
  \/ \E v \in {Absent, "tls", "plain", "broken"} : Edit("config", v)
  \/ \E f \in {"cert", "key"} : \E v \in {Absent, "theirs"} : Edit(f, v)

ServiceNext ==
  \/ \E build \in 1..Builds : RemoveService(build) \/ \E names \in BOOLEAN : Install(build, names)
  \/ Perform
  \/ PerformFails
  \/ Administers

ServiceSpec == ServiceInit /\ [][ServiceNext]_installation

(* The operator installs one build, with names for a pair, until it is said
   to run: an action that neither fails nor needs what is missing is done.  *)
Again == command.said # "running" /\ Install(1, TRUE)

Rerun == ServiceInit /\ [][Again \/ Perform \/ PerformFails]_installation /\ WF_installation(Again) /\ WF_installation(Perform \/ PerformFails)

-----------------------------------------------------------------------------
(* Properties.                                                             *)

RemoveTakesTheUnit ==
  command.kind = "remove" /\ command.todo # <<>> => host' = [host EXCEPT !.unit = host'.unit]

(* What the administrator wrote is never written over or removed by a
   command, however its actions and their failures follow one another: a
   foreign unit or sysusers file, a configuration, either half of a pair
   (plan.rs, plan_install).  Removing the service takes the unit away and
   nothing else (plan_remove).                                             *)
SparesTheirs ==
  [][/\ RemoveTakesTheUnit
     /\ edits' = edits =>
          /\ \A f \in {"unit", "sysusers"} : host[f] = Foreign => host'[f] = Foreign
          /\ host.config # Absent => host'.config = host.config
          /\ \A f \in {"cert", "key"} : host[f] = "theirs" => host'[f] = "theirs"]_installation

(* What the command said is running is the build and the unit it installed:
   "A new binary or unit reaches a running service only by a restart"
   (plan.rs, plan_install).                                                *)
RunsWhatWasInstalled ==
  command.kind = "install" /\ command.said = "running" =>
    /\ systemd.runs = [binary |-> command.build, unit |-> command.build]
    /\ systemd.enabled
    /\ Tls => PairThere

(* "Running the command again takes up where this stopped." (mod.rs,
   perform_all): once nothing fails any more, it gets to the end.          *)
TakesUpWhereItStopped == <>(command.said = "running")
=============================================================================
