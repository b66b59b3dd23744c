------------------------------ MODULE Control ------------------------------
(***************************************************************************)
(* The control database (control/mod.rs): workspaces, API keys, the audit   *)
(* trail, and who a bearer token is from.                                   *)
(*                                                                         *)
(* Commands run in processes of their own.  Each reads the clock, and most  *)
(* of them look something up, before their transaction takes the database;  *)
(* the server's requests share one connection behind a mutex.  So what a    *)
(* command or a request goes by may be old when it is used.                 *)
(***************************************************************************)
EXTENDS Naturals, Sequences, FiniteSets

CONSTANTS
    Ids,             \* workspace ids, minted at random and never twice
    Names,           \* names an operator gives
    KeyIds,          \* public ids of API keys
    Operators,       \* processes that run a command
    Requests,        \* requests of devices
    Lasting,         \* what `--expires` says: seconds, or None for `--never`
    OlderThan,       \* `key prune --older-than`
    LastUseEvery,    \* LAST_USE_EVERY_SECS
    None,
    \* Bounds of the model, not of the program.
    MaxTime, MaxAudit, MaxSecrets

ASSUME ControlAssumption ==
    /\ Lasting \subseteq Nat \cup {None}
    /\ OlderThan \in Nat /\ LastUseEvery \in Nat
    /\ MaxTime \in Nat /\ MaxAudit \in Nat /\ MaxSecrets \in Nat

ASSUME ControlNoneAssumption ==
    None \notin Ids \cup Names \cup KeyIds \cup Requests \cup Nat \cup {"accepted"}

VARIABLES
    workspaces,   \* id -> the row's name; a row made by opening has none
    keys,         \* key id -> row
    audit,        \* the trail, oldest first
    now,
    commands,     \* what each operator's process is about to do
    requests,     \* how far each request is
    connection,   \* the request that has the server's connection
    minted,       \* workspace ids ever made
    tokens,       \* keys ever handed out: id and secret
    dead          \* of them, the ones revoked or deleted, by whatever way

control == <<workspaces, keys, audit, now, commands, requests, connection, minted, tokens, dead>>

Times == 0 .. MaxTime + 1
Token == [key : KeyIds, secret : 1 .. MaxSecrets]
NoSecret == 0
Workspaces == DOMAIN workspaces
KeysKnown == DOMAIN keys

Key == [workspace : Ids, secret : 1 .. MaxSecrets, expires : Nat \cup {None},
        revoked : Times \cup {None}, used : Times \cup {None}]

\* Revoked is said before expired.
KeyState(key, at) ==
    CASE key.revoked # None -> "revoked"
      [] key.revoked = None /\ key.expires # None /\ key.expires <= at -> "expired"
      [] OTHER -> "active"

Without(f, S) == [x \in DOMAIN f \ S |-> f[x]]
With(f, x, y) == [z \in DOMAIN f \cup {x} |-> IF z = x THEN y ELSE f[z]]
TokensOf(S) == {[key |-> k, secret |-> keys[k].secret] : k \in S}

Idle == [do |-> "idle", at |-> 0, name |-> None, found |-> None, key |-> None, lasts |-> None]
Unsent == [step |-> "unsent", token |-> None, at |-> 0, late |-> FALSE, note |-> FALSE,
           answer |-> None]

\* A new database.
ControlInit ==
    /\ workspaces = <<>>
    /\ keys = <<>>
    /\ audit = <<>>
    /\ now = 0
    /\ commands = [o \in Operators |-> Idle]
    /\ requests = [r \in Requests |-> Unsent]
    /\ connection = None
    /\ minted = {}
    /\ tokens = {}
    /\ dead = {}

Actions ==
    {"workspace.create", "workspace.delete",
     "key.create", "key.extend", "key.revoke", "key.delete", "key.prune"}

Entry(action, id, key) == [action |-> action, workspace |-> id, key |-> key]

\* `note`, in the transaction of the change it tells of.
Note(action, id, key) == audit' = Append(audit, Entry(action, id, key))

-----------------------------------------------------------------------------
(* Commands.  What a process reads before its transaction. *)

Begin(o, command) ==
    /\ commands[o] = Idle
    /\ Len(audit) < MaxAudit
    /\ commands' = [commands EXCEPT ![o] = command]
    /\ UNCHANGED <<workspaces, keys, audit, now, requests, connection, minted, tokens, dead>>

\* `workspace(name)`: the id the name has now.
FindWorkspace(name) == {id \in Workspaces : workspaces[id] = name}

BeginCreateWorkspace(o) ==
    \E name \in Names : Begin(o, [Idle EXCEPT !.do = "create workspace", !.at = now, !.name = name])

BeginDeleteWorkspace(o, name) ==
    \E id \in FindWorkspace(name) :
        Begin(o, [Idle EXCEPT !.do = "delete workspace", !.at = now, !.name = name, !.found = id])

BeginCreateKey(o) ==
    \E name \in Names, lasts \in Lasting : \E id \in FindWorkspace(name) :
        Begin(o, [Idle EXCEPT !.do = "create key", !.at = now, !.found = id, !.lasts = lasts])

BeginChangeKey(o) ==
    \E k \in KeyIds, do \in {"extend key", "revoke key", "delete key"}, lasts \in Lasting :
        /\ do # "extend key" => lasts = None
        /\ Begin(o, [Idle EXCEPT !.do = do, !.at = now, !.key = k, !.lasts = lasts])

BeginPruneKeys(o) == Begin(o, [Idle EXCEPT !.do = "prune keys", !.at = now])

\* Refused, or the database cannot be used, or the process is killed: the transaction
\* is rolled back.
Fail(o) ==
    /\ commands[o] # Idle
    /\ commands' = [commands EXCEPT ![o] = Idle]
    /\ UNCHANGED <<workspaces, keys, audit, now, requests, connection, minted, tokens, dead>>

-----------------------------------------------------------------------------
(* Commands.  The transaction, which SQLite keeps apart from every other. *)

\* `o` runs its command `do`, and is done.
Transact(o, do) ==
    /\ commands[o].do = do
    /\ commands' = [commands EXCEPT ![o] = Idle]
    /\ UNCHANGED <<now, requests, connection>>

Until(command) == IF command.lasts = None THEN None ELSE command.at + command.lasts

CreateWorkspace(o) ==
    /\ Transact(o, "create workspace")
    /\ FindWorkspace(commands[o].name) = {}
    /\ \E id \in Ids \ minted :
          /\ workspaces' = With(workspaces, id, commands[o].name)
          /\ minted' = minted \cup {id}
          /\ Note("workspace.create", id, None)
    /\ UNCHANGED <<keys, tokens, dead>>

\* By the id that was found; the rows that belong to it go with it.  The trail is
\* told whether or not there was a row left.
DeleteWorkspace(o) ==
    LET id == commands[o].found
        its == {k \in KeysKnown : keys[k].workspace = id}
    IN  /\ Transact(o, "delete workspace")
        /\ workspaces' = Without(workspaces, {id})
        /\ keys' = Without(keys, its)
        /\ dead' = dead \cup TokensOf(its)
        /\ Note("workspace.delete", id, None)
        /\ UNCHANGED <<minted, tokens>>

\* An id no key has now, and a secret no key ever had.  A row for a workspace that
\* has gone is refused by the foreign key.
CreateKey(o) ==
    LET secret == Cardinality(tokens) + 1
    IN  /\ Transact(o, "create key")
        /\ commands[o].found \in Workspaces
        /\ secret <= MaxSecrets
        /\ \E k \in KeyIds \ KeysKnown :
              /\ keys' = With(keys, k, [workspace |-> commands[o].found, secret |-> secret,
                                        expires |-> Until(commands[o]),
                                        revoked |-> None, used |-> None])
              /\ tokens' = tokens \cup {[key |-> k, secret |-> secret]}
              /\ Note("key.create", commands[o].found, k)
        /\ UNCHANGED <<workspaces, minted, dead>>

\* `change_key`: one row, and its note.
ChangeKey(o, do, action) ==
    /\ Transact(o, do)
    /\ commands[o].key \in KeysKnown
    /\ Note(action, keys[commands[o].key].workspace, commands[o].key)
    /\ UNCHANGED <<workspaces, minted, tokens>>

\* Mutant of ExtendKey: a revoked key is brought back.
ExtendAndRestore(o) ==
    /\ ChangeKey(o, "extend key", "key.extend")
    /\ keys' = [keys EXCEPT ![commands[o].key].expires = Until(commands[o]),
                            ![commands[o].key].revoked = None]
    /\ UNCHANGED dead

ExtendKey(o) ==
    /\ ChangeKey(o, "extend key", "key.extend")
    /\ keys' = [keys EXCEPT ![commands[o].key].expires = Until(commands[o])]
    /\ UNCHANGED dead

\* Revoking again changes nothing, and is noted.
RevokeKey(o) ==
    LET k == commands[o].key
    IN  /\ ChangeKey(o, "revoke key", "key.revoke")
        /\ keys' = [keys EXCEPT ![k].revoked = IF @ = None THEN commands[o].at ELSE @]
        /\ dead' = dead \cup TokensOf({k})

DeleteKey(o) ==
    LET k == commands[o].key
    IN  /\ ChangeKey(o, "delete key", "key.delete")
        /\ keys' = Without(keys, {k})
        /\ dead' = dead \cup TokensOf({k})

\* coalesce(revoked_at, expires_at) <= now - older_than; a NULL is never that.
Prunable(key, at) ==
    LET since == IF key.revoked # None THEN key.revoked ELSE key.expires
        before == IF at > OlderThan THEN at - OlderThan ELSE 0
    IN  since # None /\ since <= before

\* Mutant of PruneKeys: a single key is not worth a note.
PruneQuietly(o) ==
    LET pruned == {k \in KeysKnown : Prunable(keys[k], commands[o].at)}
    IN  /\ Transact(o, "prune keys")
        /\ keys' = Without(keys, pruned)
        /\ dead' = dead \cup TokensOf(pruned)
        /\ IF Cardinality(pruned) > 1 THEN Note("key.prune", None, None) ELSE UNCHANGED audit
        /\ UNCHANGED <<workspaces, minted, tokens>>

\* Mutant of PruneKeys: whatever has an end is pruned when its time from now is up.
PruneEarly(o) ==
    LET pruned == {k \in KeysKnown : keys[k].expires # None /\ keys[k].expires <= commands[o].at + OlderThan}
    IN  /\ Transact(o, "prune keys")
        /\ keys' = Without(keys, pruned)
        /\ dead' = dead \cup TokensOf(pruned)
        /\ IF pruned # {} THEN Note("key.prune", None, None) ELSE UNCHANGED audit
        /\ UNCHANGED <<workspaces, minted, tokens>>

PruneKeys(o) ==
    LET pruned == {k \in KeysKnown : Prunable(keys[k], commands[o].at)}
    IN  /\ Transact(o, "prune keys")
        /\ keys' = Without(keys, pruned)
        /\ dead' = dead \cup TokensOf(pruned)
        /\ IF pruned # {} THEN Note("key.prune", None, None) ELSE UNCHANGED audit
        /\ UNCHANGED <<workspaces, minted, tokens>>

-----------------------------------------------------------------------------
(* authenticate. *)

Answer(r, answer) == requests' = [requests EXCEPT ![r].step = "answered", ![r].answer = answer]

\* The token is parsed, and the clock is read before the connection is free.  A
\* device sends a key it was given, or one with another secret.
Arrive(r) ==
    \E token \in tokens \cup [key : KeyIds, secret : {NoSecret}] :
        /\ requests[r] = Unsent
        /\ requests' = [requests EXCEPT ![r] = [Unsent EXCEPT !.step = "timed", !.token = token,
                                                    !.at = now, !.late = token \in dead]]
        /\ UNCHANGED <<workspaces, keys, audit, now, commands, connection, minted, tokens, dead>>

\* The right secret for the id, which an id without a row never has.
Matches(token) == token.key \in KeysKnown /\ keys[token.key].secret = token.secret

Stale(key, at) ==
    key.used = None \/ (IF at > key.used THEN at - key.used ELSE 0) >= LastUseEvery

\* The row is read, and the request refused or let in.
Check(r) ==
    LET token == requests[r].token
        at == requests[r].at
        row == keys[token.key]
    IN  /\ requests[r].step = "timed"
        /\ connection = None
        /\ \/ /\ ~Matches(token)
              /\ Answer(r, "unauthenticated")
              /\ UNCHANGED connection
           \/ /\ Matches(token)
              /\ KeyState(row, at) # "active"
              /\ Answer(r, KeyState(row, at))
              /\ UNCHANGED connection
           \/ /\ Matches(token)
              /\ KeyState(row, at) = "active"
              /\ requests' = [requests EXCEPT ![r].step = "checked", ![r].note = Stale(row, at)]
              /\ connection' = r
        /\ UNCHANGED <<workspaces, keys, audit, now, commands, minted, tokens, dead>>

\* The last use is written down when the note is old; the row may have gone, and a
\* failure to write locks nobody out.
NoteUse(r) ==
    LET k == requests[r].token.key
    IN  /\ requests[r].step = "checked"
        /\ connection = r
        /\ \/ /\ requests[r].note
              /\ k \in KeysKnown
              /\ keys' = [keys EXCEPT ![k].used = requests[r].at]
           \/ UNCHANGED keys
        /\ Answer(r, "accepted")
        /\ connection' = None
        /\ UNCHANGED <<workspaces, audit, now, commands, minted, tokens, dead>>

\* "The server does not know, so it refuses."
CannotCheck(r) ==
    /\ requests[r].step = "timed"
    /\ connection = None
    /\ Answer(r, "unavailable")
    /\ UNCHANGED <<workspaces, keys, audit, now, commands, connection, minted, tokens, dead>>

Tick ==
    /\ now < MaxTime
    /\ now' = now + 1
    /\ UNCHANGED <<workspaces, keys, audit, commands, requests, connection, minted, tokens, dead>>

WorkspaceCommand(o) ==
    \/ BeginCreateWorkspace(o) \/ CreateWorkspace(o)
    \/ \E name \in Names : BeginDeleteWorkspace(o, name)
    \/ DeleteWorkspace(o)

KeyCommand(o) ==
    \/ BeginCreateKey(o) \/ CreateKey(o)
    \/ BeginChangeKey(o) \/ ExtendKey(o) \/ RevokeKey(o) \/ DeleteKey(o)
    \/ BeginPruneKeys(o) \/ PruneKeys(o)

Authenticate(r) == Arrive(r) \/ Check(r) \/ NoteUse(r) \/ CannotCheck(r)

ControlNext ==
    \/ \E o \in Operators : WorkspaceCommand(o) \/ KeyCommand(o) \/ Fail(o)
    \/ \E r \in Requests : Authenticate(r)
    \/ Tick

ControlSpec == ControlInit /\ [][ControlNext]_control

-----------------------------------------------------------------------------
(* Properties. *)

\* Every variable has its type, a key belongs to a workspace that is there (the
\* foreign key), and no two workspaces have one name (create_workspace looks for the
\* name in the transaction that takes it).
ControlTypeOK ==
    /\ Workspaces \subseteq minted /\ minted \subseteq Ids
    /\ \A id \in Workspaces : workspaces[id] \in Names \cup {None}
    /\ \A a, b \in Workspaces : workspaces[a] = workspaces[b] /\ workspaces[a] # None => a = b
    /\ KeysKnown \subseteq KeyIds
    /\ \A k \in KeysKnown : keys[k] \in Key /\ keys[k].workspace \in Workspaces
    /\ audit \in Seq([action : Actions, workspace : Ids \cup {None}, key : KeyIds \cup {None}])
    /\ now \in 0 .. MaxTime
    /\ connection \in Requests \cup {None}
    /\ dead \subseteq tokens /\ tokens \subseteq Token

\* "Refused from the next request on, by every process" (revoke_key): a key that was
\* revoked or deleted, or whose workspace was deleted, before a request arrived does
\* not let it in, whatever was extended, pruned or made anew meanwhile.
DeadKeysStayOut ==
    \A r \in Requests : requests[r].answer = "accepted" => ~requests[r].late

\* "The row goes; the audit trail remembers" (delete_key): why a key is no longer there,
\* and that it is revoked, can be told from what the trail says after its creation.
TrailExplainsKeys ==
    \A i \in DOMAIN audit : audit[i].action = "key.create" =>
        LET k == audit[i].key
            Says(action, id, key) == \E j \in i + 1 .. Len(audit) : audit[j] = Entry(action, id, key)
            again == \E j \in i + 1 .. Len(audit) : audit[j].action = "key.create" /\ audit[j].key = k
        IN  /\ k \notin KeysKnown \/ again =>
                 \/ Says("key.delete", audit[i].workspace, k)
                 \/ Says("workspace.delete", audit[i].workspace, None)
                 \/ Says("key.prune", None, None)
            /\ k \in KeysKnown /\ ~again =>
                 (keys[k].revoked # None <=> Says("key.revoke", audit[i].workspace, k))

\* "When it last opened its workspace" (last_used_at) never goes back, though requests
\* read the clock before they queue for the connection.
LastUseNeverGoesBack ==
    [][\A k \in KeysKnown \cap DOMAIN keys' :
          keys[k].used # None /\ keys[k].secret = keys'[k].secret => keys'[k].used >= keys[k].used]_control

\* Pruning takes no key that still works (prune_keys deletes by what the rows say in
\* its own transaction, though its clock was read before).
PruneSparesActiveKeys ==
    [][\A k \in KeysKnown \ DOMAIN keys' :
          KeyState(keys[k], now) = "active" =>
              \E o \in Operators : commands[o].do \in {"delete key", "delete workspace"}
                                   /\ commands'[o] = Idle]_control

\* `delete_workspace` refuses with NoSuchWorkspace where there is none: a deletion in
\* the trail removed a workspace.
DeletionsDelete ==
    [][audit' # audit /\ audit'[Len(audit')].action = "workspace.delete" =>
          audit'[Len(audit')].workspace \in Workspaces]_control

=============================================================================
