-------------------------------- MODULE Places --------------------------------
(***************************************************************************)
(* Where the configuration and the data are, and who may touch them:        *)
(* `init` (crates/passalong-server-cli, commands.rs), the search of every   *)
(* later command (core, config.rs, find), and the rule that only the data   *)
(* directory's owner runs commands on it (cli, main.rs and owner.rs).       *)
(*                                                                          *)
(* A configuration file is the data directory it names.  Each user has an   *)
(* environment that stays as it is.                                         *)
(***************************************************************************)
EXTENDS Naturals, Sequences

CONSTANTS
  Users,     \* the users of the host
  Root,      \* the one that is root
  None

ASSUME RootAssumption == Root \in Users

VARIABLES
  env,       \* per user: whether the file variable, XDG_CONFIG_HOME, and HOME are set
  config,    \* per place: the data directory its file names, or None for no file
  owner,     \* per data directory: whose it is, or None for no directory
  database,  \* per data directory: whoever created or opened its database
  made       \* per user: the file the user's last `init` wrote

places == <<env, config, owner, database, made>>

(* Places of configuration files and of data.  "other" is a path that was
   typed; "variable" is the file that PASSALONG_SERVER_CONFIG_FILE names.  *)
UserPlaces == {<<"xdg", u>> : u \in Users} \cup {<<"home", u>> : u \in Users}
Shared == {<<"other", None>>, <<"variable", None>>, <<"etc", None>>, <<"here", None>>}
AllPlaces == UserPlaces \cup Shared
DataDirs == {<<"share", u>> : u \in Users} \cup {<<"var", None>>}
ASSUME NoneIsNoPlace == None \notin AllPlaces \cup DataDirs

PlacesInit ==
  /\ env \in [Users -> [variable : BOOLEAN, xdg : BOOLEAN, home : BOOLEAN]]
  /\ config = [p \in AllPlaces |-> None]
  /\ owner = [d \in DataDirs |-> None]
  /\ database = [d \in DataDirs |-> {}]
  /\ made = [u \in Users |-> None]

\* Mutant of DefaultFile: `init` does not ask for the variable.
DefaultFileUnasked(u) ==
  CASE u # Root /\ env[u].home -> IF env[u].xdg THEN <<"xdg", u>> ELSE <<"home", u>>
    [] OTHER -> <<"etc", None>>

(* `default_paths`.                                                        *)
DefaultFile(u) ==
  IF env[u].variable THEN <<"variable", None>>
  ELSE IF u = Root \/ ~env[u].home THEN <<"etc", None>>
  ELSE IF env[u].xdg THEN <<"xdg", u>> ELSE <<"home", u>>
DefaultData(u) == IF u # Root /\ env[u].home THEN <<"share", u>> ELSE <<"var", None>>

(* `find` without --config: the variable's file, which must be there, or the
   first of the places that has one.                                       *)
Searched(u) ==
  (IF env[u].xdg THEN <<<<"xdg", u>>>> ELSE <<>>)
  \o (IF env[u].home THEN <<<<"home", u>>>> ELSE <<>>)
  \o <<<<"etc", None>>, <<"here", None>>>>
Find(u) ==
  IF env[u].variable
  THEN IF config[<<"variable", None>>] = None THEN None ELSE <<"variable", None>>
  ELSE LET there == {n \in DOMAIN Searched(u) : config[Searched(u)[n]] # None}
           first == CHOOSE n \in there : \A m \in there : n <= m
       IN IF there = {} THEN None ELSE Searched(u)[first]

(* `init`: refused over a file; it takes the data directory (which fails for
   a user who is neither root nor its owner), writes the file, and creates
   or opens the database.                                                  *)
InitCommand(u, file, data) ==
  /\ config[file] = None
  /\ u = Root \/ owner[data] \in {None, u}
  /\ owner' = [owner EXCEPT ![data] = IF @ = None THEN u ELSE @]
  /\ config' = [config EXCEPT ![file] = data]
  /\ database' = [database EXCEPT ![data] = @ \cup {u}]
  /\ made' = [made EXCEPT ![u] = file]
  /\ UNCHANGED env

(* `owner::check`.                                                         *)
MayRun(u, data) == owner[data] = u

(* Any other command: the configuration it was told or found, and the owner
   rule.                                                                   *)
Command(u, file) ==
  /\ file # None /\ config[file] # None
  /\ MayRun(u, config[file])
  /\ database' = [database EXCEPT ![config[file]] = @ \cup {u}]
  /\ UNCHANGED <<env, config, owner, made>>

PlacesNext ==
  \E u \in Users :
    \/ \E file \in {DefaultFile(u), <<"other", None>>}, data \in {DefaultData(u), <<"var", None>>} :
          InitCommand(u, file, data)
    \/ \E file \in {Find(u), <<"other", None>>} : Command(u, file)

PlacesSpec == PlacesInit /\ [][PlacesNext]_places

-----------------------------------------------------------------------------
(* commands.rs, default_paths: "that is where every later command will
   look".  What a user's `init` wrote, not being told where, is what the
   user's next command finds, whatever others have set up before or after;
   root's own file in /etc may stand behind one of root's home.            *)
InitIsFound ==
  \A u \in Users :
    made[u] \notin {None, <<"other", None>>} /\ (u # Root \/ env[u].variable)
    /\ (env[u].home \/ ~env[u].xdg \/ env[u].variable)
      => Find(u) = made[u]

(* owner.rs: "Who may run the commands: the data directory's owner, and
   nobody else, root included": nobody else's files come to be in it.      *)
OwnersFilesOnly == \A d \in DataDirs : database[d] \subseteq {owner[d]}

(* The same but for `init`: once set up, no command of anyone adds another
   user's files to a data directory, through whichever configuration file
   it was reached (owner.rs, check).                                       *)
CommandsAreTheOwners ==
  [][config' = config => \A d \in DataDirs :
       database'[d] \subseteq database[d] \cup {owner[d]}]_places
=============================================================================
