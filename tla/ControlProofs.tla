--------------------------- MODULE ControlProofs ----------------------------
(***************************************************************************)
(* Keys and workspaces of the control database, for every value of the      *)
(* constants: whom a bearer token lets in, what the trail tells of a key,   *)
(* and that no workspace loses its items to a deletion of another one.      *)
(***************************************************************************)
EXTENDS Registry, FiniteSetTheorems, TLAPS

Doings ==
    {"idle", "create workspace", "delete workspace", "create key", "extend key", "revoke key",
     "delete key", "prune keys"}

CommandRecord ==
    [do : Doings, at : Times, name : Names \cup {None}, found : Ids \cup {None},
     key : KeyIds \cup {None}, lasts : Nat \cup {None}]

RequestRecord ==
    [step : {"unsent", "timed", "checked", "answered"},
     token : Token \cup [key : KeyIds, secret : {NoSecret}] \cup {None},
     at : Times, late : BOOLEAN, note : BOOLEAN,
     answer : {None, "unauthenticated", "revoked", "expired", "accepted", "unavailable"}]

\* What commands and requests go by was read before.
Underway ==
    /\ commands \in [Operators -> CommandRecord]
    /\ \A o \in Operators : commands[o].at =< now
    /\ requests \in [Requests -> RequestRecord]

\* A secret is handed out once, with the key it is of.
HandedOut ==
    /\ IsFiniteSet(tokens)
    /\ \A t \in tokens : t.secret =< Cardinality(tokens)
    /\ TokensOf(KeysKnown) \subseteq tokens

\* A token that is dead belongs to no row, to a row with another secret, or to one that
\* is revoked.
DeadRefused == \A t \in dead : Matches(t) => keys[t.key].revoked # None

\* Nobody is let in with a token that was dead when the request came.
LateRefused ==
    \A r \in Requests : requests[r].late =>
        /\ requests[r].token \in dead
        /\ requests[r].step # "checked"
        /\ requests[r].answer # "accepted"

ControlInv == ControlTypeOK /\ Underway /\ HandedOut /\ DeadRefused /\ LateRefused

\* What the trail says of an entry that tells of a key's creation.
Says(trail, i, entry) == \E j \in i + 1 .. Len(trail) : trail[j] = entry
Again(trail, i) ==
    \E j \in i + 1 .. Len(trail) : trail[j].action = "key.create" /\ trail[j].key = trail[i].key
Gone(trail, i) ==
    \/ Says(trail, i, Entry("key.delete", trail[i].workspace, trail[i].key))
    \/ Says(trail, i, Entry("workspace.delete", trail[i].workspace, None))
    \/ Says(trail, i, Entry("key.prune", None, None))
Revoked(trail, i) == Says(trail, i, Entry("key.revoke", trail[i].workspace, trail[i].key))

\* The trail explains a creation; and the row it made, while it is there, is in the
\* workspace the trail says.
Explains(trail, i) ==
    /\ trail[i].key \notin KeysKnown \/ Again(trail, i) => Gone(trail, i)
    /\ trail[i].key \in KeysKnown /\ ~Again(trail, i) =>
          /\ keys[trail[i].key].workspace = trail[i].workspace
          /\ keys[trail[i].key].revoked # None <=> Revoked(trail, i)

TrailInv == \A i \in 1 .. Len(audit) : audit[i].action = "key.create" => Explains(audit, i)

-----------------------------------------------------------------------------
(* Whom a token lets in. *)

\* A step that leaves the rows and the tokens alone.
LEMMA RowsStay ==
    ASSUME ControlInv, UNCHANGED <<workspaces, keys, minted, tokens, dead>>
    PROVE  /\ HandedOut' /\ DeadRefused'
           /\ Workspaces' = Workspaces /\ KeysKnown' = KeysKnown
<1>1. Workspaces' = Workspaces /\ KeysKnown' = KeysKnown
  BY DEF Workspaces, KeysKnown
<1>2. HandedOut'
  BY <1>1 DEF ControlInv, HandedOut, TokensOf
<1>3. DeadRefused'
  BY <1>1 DEF ControlInv, DeadRefused, Matches
<1>4. QED
  BY <1>1, <1>2, <1>3

\* What a process reads before its transaction changes nothing; so does a command that
\* fails.
LEMMA BeginSafe ==
    ASSUME ControlInv, NEW o \in Operators, NEW command \in CommandRecord, command.at =< now,
           commands' = [commands EXCEPT ![o] = command],
           UNCHANGED <<workspaces, keys, audit, now, requests, connection, minted, tokens, dead>>
    PROVE  ControlInv'
<1>1. /\ HandedOut' /\ DeadRefused'
      /\ Workspaces' = Workspaces /\ KeysKnown' = KeysKnown
  BY RowsStay
<1>2. ControlTypeOK'
  BY <1>1 DEF ControlInv, ControlTypeOK
<1>3. Underway'
  BY DEF ControlInv, Underway
<1>4. LateRefused'
  BY DEF ControlInv, LateRefused
<1>5. QED
  BY <1>1, <1>2, <1>3, <1>4 DEF ControlInv

\* An idle process is one that has read nothing.
LEMMA IdleIsARecord == Idle \in CommandRecord /\ Idle.at = 0
<1>1. 0 \in Times
  BY ControlAssumption DEF Times
<1>2. QED
  BY <1>1 DEF Idle, CommandRecord, Doings

\* Every command begins with the time, and with what it found by name.
LEMMA BeginsSafe ==
    ASSUME ControlInv, NEW o \in Operators,
           \/ BeginCreateWorkspace(o) \/ (\E name \in Names : BeginDeleteWorkspace(o, name))
           \/ BeginCreateKey(o) \/ BeginChangeKey(o) \/ BeginPruneKeys(o) \/ Fail(o)
    PROVE  ControlInv'
<1>1. now \in Times /\ now \in Nat /\ now =< now /\ Workspaces \subseteq Ids /\ 0 =< now
  BY ControlAssumption DEF ControlInv, ControlTypeOK, Times
<1>2. Idle \in CommandRecord /\ Idle.at = 0
  BY IdleIsARecord
<1>3. ASSUME NEW command \in CommandRecord, command.at = now, Begin(o, command)
      PROVE  ControlInv'
  BY <1>1, <1>3, BeginSafe DEF Begin
<1>4. CASE BeginCreateWorkspace(o)
  <2>1. PICK name \in Names : Begin(o, [Idle EXCEPT !.do = "create workspace", !.at = now, !.name = name])
    BY <1>4 DEF BeginCreateWorkspace
  <2> DEFINE command == [Idle EXCEPT !.do = "create workspace", !.at = now, !.name = name]
  <2>2. command \in CommandRecord /\ command.at = now
    BY <1>1, <1>2 DEF CommandRecord, Doings
  <2> HIDE DEF command
  <2>3. QED
    BY <1>3, <2>1, <2>2 DEF command
<1>5. ASSUME NEW name \in Names, BeginDeleteWorkspace(o, name) PROVE ControlInv'
  <2>1. PICK id \in FindWorkspace(name) :
           Begin(o, [Idle EXCEPT !.do = "delete workspace", !.at = now, !.name = name, !.found = id])
    BY <1>5 DEF BeginDeleteWorkspace
  <2> DEFINE command == [Idle EXCEPT !.do = "delete workspace", !.at = now, !.name = name, !.found = id]
  <2>2. id \in Ids
    BY <1>1, <2>1 DEF FindWorkspace
  <2>3. command \in CommandRecord /\ command.at = now
    BY <1>1, <1>2, <2>2 DEF CommandRecord, Doings
  <2> HIDE DEF command
  <2>4. QED
    BY <1>3, <2>1, <2>3 DEF command
<1>6. CASE BeginCreateKey(o)
  <2>1. PICK name \in Names, lasts \in Lasting : \E id \in FindWorkspace(name) :
           Begin(o, [Idle EXCEPT !.do = "create key", !.at = now, !.found = id, !.lasts = lasts])
    BY <1>6 DEF BeginCreateKey
  <2>2. PICK id \in FindWorkspace(name) :
           Begin(o, [Idle EXCEPT !.do = "create key", !.at = now, !.found = id, !.lasts = lasts])
    BY <2>1
  <2> DEFINE command == [Idle EXCEPT !.do = "create key", !.at = now, !.found = id, !.lasts = lasts]
  <2>3. id \in Ids /\ lasts \in Nat \cup {None}
    BY <1>1, ControlAssumption DEF FindWorkspace
  <2>4. command \in CommandRecord /\ command.at = now
    BY <1>1, <1>2, <2>3 DEF CommandRecord, Doings
  <2> HIDE DEF command
  <2>5. QED
    BY <1>3, <2>2, <2>4 DEF command
<1>7. CASE BeginChangeKey(o)
  <2>1. PICK k \in KeyIds, do \in {"extend key", "revoke key", "delete key"}, lasts \in Lasting :
           Begin(o, [Idle EXCEPT !.do = do, !.at = now, !.key = k, !.lasts = lasts])
    BY <1>7 DEF BeginChangeKey
  <2> DEFINE command == [Idle EXCEPT !.do = do, !.at = now, !.key = k, !.lasts = lasts]
  <2>2. do \in Doings /\ lasts \in Nat \cup {None}
    BY ControlAssumption DEF Doings
  <2>3. command \in CommandRecord /\ command.at = now
    BY <1>1, <1>2, <2>2 DEF CommandRecord
  <2> HIDE DEF command
  <2>4. QED
    BY <1>3, <2>1, <2>3 DEF command
<1>8. CASE BeginPruneKeys(o)
  <2> DEFINE command == [Idle EXCEPT !.do = "prune keys", !.at = now]
  <2>1. command \in CommandRecord /\ command.at = now
    BY <1>1, <1>2 DEF CommandRecord, Doings
  <2> HIDE DEF command
  <2>2. QED
    BY <1>3, <1>8, <2>1 DEF command, BeginPruneKeys
<1>9. CASE Fail(o)
  BY <1>1, <1>2, <1>9, BeginSafe DEF Fail
<1>10. QED
  BY <1>4, <1>5, <1>6, <1>7, <1>8, <1>9

AuditRecord == [action : Actions, workspace : Ids \cup {None}, key : KeyIds \cup {None}]

\* The rows of the database, as ControlTypeOK has them.
RowsOK ==
    /\ Workspaces \subseteq minted /\ minted \subseteq Ids
    /\ \A id \in Workspaces : workspaces[id] \in Names \cup {None}
    /\ \A a, b \in Workspaces : workspaces[a] = workspaces[b] /\ workspaces[a] # None => a = b
    /\ KeysKnown \subseteq KeyIds
    /\ \A k \in KeysKnown : keys[k] \in Key /\ keys[k].workspace \in Workspaces

\* What every transaction leaves behind: an idle process, and a note in the trail.
LEMMA TransactSafe ==
    ASSUME ControlInv, NEW o \in Operators, NEW do, Transact(o, do),
           audit' \in Seq(AuditRecord), RowsOK', HandedOut', DeadRefused',
           tokens \subseteq tokens', tokens' \subseteq Token, dead \subseteq dead', dead' \subseteq tokens'
    PROVE  ControlInv'
<1>1. /\ commands' = [commands EXCEPT ![o] = Idle]
      /\ now' = now /\ requests' = requests /\ connection' = connection
  BY DEF Transact
<1>2. ControlTypeOK'
  BY <1>1 DEF ControlInv, ControlTypeOK, RowsOK, AuditRecord
<1>3. Underway'
  <2>1. 0 =< now
    BY DEF ControlInv, ControlTypeOK
  <2>2. QED
    BY <1>1, <2>1, IdleIsARecord DEF ControlInv, Underway
<1>4. LateRefused'
  BY <1>1 DEF ControlInv, LateRefused
<1>5. QED
  BY <1>2, <1>3, <1>4 DEF ControlInv

\* The note of a change.
LEMMA NoteSafe ==
    ASSUME ControlInv, NEW action \in Actions, NEW id \in Ids \cup {None},
           NEW key \in KeyIds \cup {None}, Note(action, id, key)
    PROVE  audit' \in Seq(AuditRecord)
<1> DEFINE entry == Entry(action, id, key)
<1>1. entry \in AuditRecord
  BY DEF Entry, AuditRecord
<1>2. audit \in Seq(AuditRecord)
  BY DEF ControlInv, ControlTypeOK, AuditRecord
<1> HIDE DEF entry
<1>3. QED
  BY <1>1, <1>2 DEF Note, entry

\* Rows that go take their tokens with them.
LEMMA ForgetSafe ==
    ASSUME ControlInv, NEW S \in SUBSET KeysKnown, keys' = Without(keys, S),
           dead' = dead \cup TokensOf(S), tokens' = tokens
    PROVE  /\ HandedOut' /\ DeadRefused' /\ dead \subseteq dead' /\ dead' \subseteq tokens'
           /\ KeysKnown' = KeysKnown \ S /\ \A k \in KeysKnown' : keys'[k] = keys[k]
<1>1. KeysKnown' = KeysKnown \ S /\ \A k \in KeysKnown' : keys'[k] = keys[k]
  BY DEF KeysKnown, Without
<1>2. TokensOf(S) \subseteq TokensOf(KeysKnown) /\ TokensOf(KeysKnown)' \subseteq TokensOf(KeysKnown)
  BY <1>1 DEF TokensOf
<1>3. HandedOut'
  BY <1>2 DEF ControlInv, HandedOut
<1>4. dead' \subseteq tokens'
  BY <1>2 DEF ControlInv, HandedOut, ControlTypeOK
<1>5. DeadRefused'
  <2> SUFFICES ASSUME NEW t \in dead', Matches(t)'
               PROVE  keys'[t.key].revoked # None
    BY DEF DeadRefused
  <2>1. t.key \in KeysKnown \ S /\ keys[t.key] = keys'[t.key] /\ keys[t.key].secret = t.secret
    BY <1>1 DEF Matches
  <2>2. t \notin TokensOf(S)
    <3>1. \A k \in S : [key |-> k, secret |-> keys[k].secret].key = k
      OBVIOUS
    <3>2. QED
      BY <2>1, <3>1 DEF TokensOf
  <2>3. t \in dead /\ Matches(t)
    BY <2>1, <2>2 DEF Matches
  <2>4. QED
    BY <2>1, <2>3 DEF ControlInv, DeadRefused
<1>6. QED
  BY <1>1, <1>3, <1>4, <1>5

\* A workspace is made under an id that was never used and a name no other has
\* (create_workspace).
LEMMA CreateWorkspaceSafe ==
    ASSUME ControlInv, NEW o \in Operators, CreateWorkspace(o)
    PROVE  ControlInv'
<1> DEFINE name == commands[o].name
<1>1. PICK id \in Ids \ minted : /\ workspaces' = With(workspaces, id, name)
                                 /\ minted' = minted \cup {id}
                                 /\ Note("workspace.create", id, None)
  BY DEF CreateWorkspace
<1>2. /\ FindWorkspace(name) = {} /\ UNCHANGED <<keys, tokens, dead>>
      /\ Transact(o, "create workspace")
  BY DEF CreateWorkspace
<1>3. name \in Names \cup {None}
  BY DEF ControlInv, Underway, CommandRecord
<1> HIDE DEF name
<1>4. /\ Workspaces' = Workspaces \cup {id}
      /\ \A w \in Workspaces' : workspaces'[w] = IF w = id THEN name ELSE workspaces[w]
  BY <1>1 DEF Workspaces, With
<1>5. \A w \in Workspaces : workspaces[w] # name
  BY <1>2 DEF FindWorkspace
<1>6. KeysKnown' = KeysKnown
  BY <1>2 DEF KeysKnown
<1>7. RowsOK'
  <2>0. RowsOK
    BY DEF RowsOK, ControlInv, ControlTypeOK
  <2>1. /\ Workspaces' \subseteq minted' /\ minted' \subseteq Ids
        /\ \A w \in Workspaces' : workspaces'[w] \in Names \cup {None}
    BY <1>1, <1>3, <1>4, <2>0 DEF RowsOK
  <2>2. \A a, b \in Workspaces' : workspaces'[a] = workspaces'[b] /\ workspaces'[a] # None => a = b
    BY <1>4, <1>5, <2>0 DEF RowsOK
  <2>3. /\ KeysKnown' \subseteq KeyIds
        /\ \A k \in KeysKnown' : keys'[k] \in Key /\ keys'[k].workspace \in Workspaces'
    BY <1>2, <1>4, <1>6, <2>0 DEF RowsOK
  <2>4. QED
    BY <2>1, <2>2, <2>3 DEF RowsOK
<1>8. HandedOut' /\ DeadRefused'
  BY <1>2, <1>6 DEF ControlInv, HandedOut, DeadRefused, TokensOf, Matches
<1>9. audit' \in Seq(AuditRecord)
  BY <1>1, NoteSafe DEF Actions
<1>10. /\ tokens \subseteq tokens' /\ tokens' \subseteq Token
       /\ dead \subseteq dead' /\ dead' \subseteq tokens'
  BY <1>2 DEF ControlInv, ControlTypeOK
<1>11. QED
  BY <1>2, <1>7, <1>8, <1>9, <1>10, TransactSafe

\* A workspace goes with its keys (delete_workspace).
LEMMA DeleteWorkspaceSafe ==
    ASSUME ControlInv, NEW o \in Operators, DeleteWorkspace(o)
    PROVE  ControlInv'
<1> DEFINE id == commands[o].found
           its == {k \in KeysKnown : keys[k].workspace = id}
<1>1. /\ Transact(o, "delete workspace") /\ workspaces' = Without(workspaces, {id})
      /\ keys' = Without(keys, its) /\ dead' = dead \cup TokensOf(its)
      /\ Note("workspace.delete", id, None) /\ UNCHANGED <<minted, tokens>>
  BY DEF DeleteWorkspace
<1>2. id \in Ids \cup {None}
  BY DEF ControlInv, Underway, CommandRecord
<1>3. /\ HandedOut' /\ DeadRefused' /\ dead \subseteq dead' /\ dead' \subseteq tokens'
      /\ KeysKnown' = KeysKnown \ its /\ \A k \in KeysKnown' : keys'[k] = keys[k]
  <2>1. its \in SUBSET KeysKnown
    OBVIOUS
  <2> HIDE DEF its
  <2>2. QED
    BY <1>1, <2>1, ForgetSafe
<1>4. /\ Workspaces' = Workspaces \ {id}
      /\ \A w \in Workspaces' : workspaces'[w] = workspaces[w]
  BY <1>1 DEF Workspaces, Without
<1>5. RowsOK'
  <2>0. RowsOK
    BY DEF RowsOK, ControlInv, ControlTypeOK
  <2>1. /\ Workspaces' \subseteq minted' /\ minted' \subseteq Ids
        /\ \A w \in Workspaces' : workspaces'[w] \in Names \cup {None}
    BY <1>1, <1>4, <2>0 DEF RowsOK
  <2>2. \A a, b \in Workspaces' : workspaces'[a] = workspaces'[b] /\ workspaces'[a] # None => a = b
    BY <1>4, <2>0 DEF RowsOK
  <2>3. /\ KeysKnown' \subseteq KeyIds
        /\ \A k \in KeysKnown' : keys'[k] \in Key /\ keys'[k].workspace \in Workspaces'
    BY <1>3, <1>4, <2>0 DEF RowsOK
  <2>4. QED
    BY <2>1, <2>2, <2>3 DEF RowsOK
<1>6. audit' \in Seq(AuditRecord)
  BY <1>1, <1>2, NoteSafe DEF Actions
<1>7. tokens \subseteq tokens' /\ tokens' \subseteq Token
  BY <1>1 DEF ControlInv, ControlTypeOK
<1>8. QED
  BY <1>1, <1>3, <1>5, <1>6, <1>7, TransactSafe

\* When a key that is made or extended ends.
LEMMA UntilType ==
    ASSUME ControlInv, NEW o \in Operators
    PROVE  Until(commands[o]) \in Nat \cup {None}
<1>1. commands[o].lasts \in Nat \cup {None} /\ commands[o].at \in Nat
  BY ControlAssumption DEF ControlInv, Underway, CommandRecord, Times
<1>2. QED
  BY <1>1 DEF Until

\* A key is made with a secret that no key ever had, dead or not, so no token that was
\* handed out before is let in by it, though its id may have been another key's
\* (create_key).
LEMMA CreateKeySafe ==
    ASSUME ControlInv, NEW o \in Operators, CreateKey(o)
    PROVE  ControlInv'
<1> DEFINE secret == Cardinality(tokens) + 1
           id == commands[o].found
           until == Until(commands[o])
<1>1. /\ Transact(o, "create key") /\ id \in Workspaces /\ secret <= MaxSecrets
      /\ UNCHANGED <<workspaces, minted, dead>>
  BY DEF CreateKey
<1>2. PICK k \in KeyIds \ KeysKnown :
         /\ keys' = With(keys, k, [workspace |-> id, secret |-> secret, expires |-> until,
                                   revoked |-> None, used |-> None])
         /\ tokens' = tokens \cup {[key |-> k, secret |-> secret]}
         /\ Note("key.create", id, k)
  BY DEF CreateKey
<1> DEFINE row == [workspace |-> id, secret |-> secret, expires |-> until,
                   revoked |-> None, used |-> None]
           token == [key |-> k, secret |-> secret]
<1>3. RowsOK /\ id \in Ids
  BY <1>1 DEF RowsOK, ControlInv, ControlTypeOK
<1>4. /\ Cardinality(tokens) \in Nat /\ secret \in 1 .. MaxSecrets
      /\ \A t \in tokens : t.secret # secret /\ t.secret < secret
  <2>1. IsFiniteSet(tokens) /\ \A t \in tokens : t.secret =< Cardinality(tokens) /\ t.secret \in Nat
    BY DEF ControlInv, HandedOut, ControlTypeOK, Token
  <2> DEFINE n == Cardinality(tokens)
  <2>2. n \in Nat
    BY <2>1, FS_CardinalityType
  <2>3. secret = n + 1 /\ n + 1 =< MaxSecrets /\ \A t \in tokens : t.secret =< n /\ t.secret \in Nat
    BY <1>1, <2>1
  <2> HIDE DEF n, secret
  <2>4. secret \in 1 .. MaxSecrets
    BY <2>2, <2>3, ControlAssumption
  <2>5. \A t \in tokens : t.secret # secret /\ t.secret < secret
    BY <2>2, <2>3
  <2>6. QED
    BY <2>2, <2>4, <2>5 DEF n
<1>5. until \in Nat \cup {None}
  BY UntilType
<1>6. token.secret = secret /\ token.key = k /\ token \in Token /\ token \notin tokens
  BY <1>4 DEF Token
<1> HIDE DEF until
<1>7. /\ IsFiniteSet(tokens') /\ Cardinality(tokens') = secret
      /\ \A t \in tokens' : t.secret =< secret
  <2>1. IsFiniteSet(tokens) /\ tokens' = tokens \cup {token}
    BY <1>2 DEF ControlInv, HandedOut
  <2> HIDE DEF token
  <2>2. IsFiniteSet(tokens') /\ Cardinality(tokens') = Cardinality(tokens) + 1
    BY <1>6, <2>1, FS_AddElement
  <2>3. secret \in Nat /\ secret = Cardinality(tokens) + 1
    BY <1>4
  <2> HIDE DEF secret
  <2>4. \A t \in tokens' : t.secret =< secret
    <3>1. \A t \in tokens : t.secret \in Nat
      BY DEF ControlInv, ControlTypeOK, Token
    <3>2. QED
      BY <1>4, <1>6, <2>1, <2>3, <3>1
  <2>5. QED
    BY <2>2, <2>3, <2>4
<1> HIDE DEF secret
<1>8. row \in Key /\ row.workspace = id /\ row.secret = secret
  BY <1>3, <1>4, <1>5 DEF Key
<1>9. keys' = With(keys, k, row) /\ tokens' = tokens \cup {token}
  BY <1>2
<1> HIDE DEF row
<1>10. /\ KeysKnown' = KeysKnown \cup {k} /\ keys'[k] = row
       /\ \A x \in KeysKnown : keys'[x] = keys[x] /\ x # k
  BY <1>9 DEF KeysKnown, With
<1>11. HandedOut'
  <2>1. TokensOf(KeysKnown)' \subseteq tokens'
    BY <1>8, <1>9, <1>10 DEF TokensOf, ControlInv, HandedOut
  <2>2. QED
    BY <1>7, <2>1 DEF HandedOut
<1>12. DeadRefused'
  <2> SUFFICES ASSUME NEW t \in dead, Matches(t)'
               PROVE  keys'[t.key].revoked # None
    BY <1>1 DEF DeadRefused
  <2>1. t \in tokens /\ t.secret # secret
    BY <1>4 DEF ControlInv, ControlTypeOK
  <2>2. t.key # k /\ t.key \in KeysKnown
    BY <1>8, <1>10, <2>1 DEF Matches
  <2>3. keys'[t.key] = keys[t.key] /\ Matches(t)
    BY <1>10, <2>2 DEF Matches
  <2>4. QED
    BY <2>3 DEF ControlInv, DeadRefused
<1>13. RowsOK'
  <2>1. Workspaces' = Workspaces
    BY <1>1 DEF Workspaces
  <2>2. /\ Workspaces' \subseteq minted' /\ minted' \subseteq Ids
        /\ \A w \in Workspaces' : workspaces'[w] \in Names \cup {None}
        /\ \A a, b \in Workspaces' : workspaces'[a] = workspaces'[b] /\ workspaces'[a] # None => a = b
    BY <1>1, <1>3, <2>1 DEF RowsOK
  <2>3. /\ KeysKnown' \subseteq KeyIds
        /\ \A x \in KeysKnown' : keys'[x] \in Key /\ keys'[x].workspace \in Workspaces'
    BY <1>1, <1>3, <1>8, <1>10, <2>1 DEF RowsOK
  <2>4. QED
    BY <2>2, <2>3 DEF RowsOK
<1>14. audit' \in Seq(AuditRecord)
  BY <1>2, <1>3, NoteSafe DEF Actions
<1>15. /\ tokens \subseteq tokens' /\ tokens' \subseteq Token
       /\ dead \subseteq dead' /\ dead' \subseteq tokens'
  BY <1>1, <1>6, <1>9 DEF ControlInv, ControlTypeOK
<1>16. QED
  BY <1>1, <1>11, <1>12, <1>13, <1>14, <1>15, TransactSafe

\* One row changes, and keeps its secret and its revocation.
LEMMA ChangeSafe ==
    ASSUME ControlInv, NEW k \in KeysKnown, NEW row \in Key, keys' = [keys EXCEPT ![k] = row],
           row.workspace = keys[k].workspace, row.secret = keys[k].secret,
           keys[k].revoked # None => row.revoked # None,
           UNCHANGED <<workspaces, minted, tokens>>,
           dead' = dead \/ (row.revoked # None /\ dead' = dead \cup TokensOf({k}))
    PROVE  /\ RowsOK' /\ HandedOut' /\ DeadRefused'
           /\ tokens \subseteq tokens' /\ tokens' \subseteq Token
           /\ dead \subseteq dead' /\ dead' \subseteq tokens'
<1>0. RowsOK
  BY DEF RowsOK, ControlInv, ControlTypeOK
<1>1. /\ KeysKnown' = KeysKnown /\ keys'[k] = row
      /\ \A x \in KeysKnown : x # k => keys'[x] = keys[x]
      /\ \A x \in KeysKnown : keys'[x].secret = keys[x].secret
  BY DEF KeysKnown
<1>2. TokensOf(KeysKnown)' = TokensOf(KeysKnown) /\ TokensOf({k}) \subseteq TokensOf(KeysKnown)
  BY <1>1 DEF TokensOf
<1>3. HandedOut'
  BY <1>2 DEF ControlInv, HandedOut
<1>4. dead \subseteq dead' /\ dead' \subseteq tokens' /\ tokens \subseteq tokens' /\ tokens' \subseteq Token
  BY <1>2 DEF ControlInv, HandedOut, ControlTypeOK
<1>5. DeadRefused'
  <2> SUFFICES ASSUME NEW t \in dead', Matches(t)'
               PROVE  keys'[t.key].revoked # None
    BY DEF DeadRefused
  <2>1. Matches(t)
    BY <1>1 DEF Matches
  <2>2. CASE t \in dead
    <3>1. t.key \in KeysKnown /\ keys[t.key].revoked # None
      BY <2>1, <2>2 DEF ControlInv, DeadRefused, Matches
    <3>2. QED
      BY <1>1, <3>1
  <2>3. CASE t \notin dead
    <3>1. row.revoked # None /\ t \in TokensOf({k})
      BY <2>3
    <3>2. t.key = k
      BY <3>1 DEF TokensOf
    <3>3. QED
      BY <1>1, <3>1, <3>2
  <2>4. QED
    BY <2>2, <2>3
<1>6. RowsOK'
  <2>1. Workspaces' = Workspaces
    BY DEF Workspaces
  <2>2. /\ Workspaces' \subseteq minted' /\ minted' \subseteq Ids
        /\ \A w \in Workspaces' : workspaces'[w] \in Names \cup {None}
        /\ \A a, b \in Workspaces' : workspaces'[a] = workspaces'[b] /\ workspaces'[a] # None => a = b
    BY <1>0, <2>1 DEF RowsOK
  <2>3. /\ KeysKnown' \subseteq KeyIds
        /\ \A x \in KeysKnown' : keys'[x] \in Key /\ keys'[x].workspace \in Workspaces'
    BY <1>0, <1>1, <2>1 DEF RowsOK
  <2>4. QED
    BY <2>2, <2>3 DEF RowsOK
<1>7. QED
  BY <1>3, <1>4, <1>5, <1>6

\* A key is extended: its end moves, and a revoked key stays revoked (extend_key).
LEMMA ExtendKeySafe ==
    ASSUME ControlInv, NEW o \in Operators, ExtendKey(o)
    PROVE  ControlInv'
<1> DEFINE k == commands[o].key
           until == Until(commands[o])
           row == [keys[k] EXCEPT !.expires = until]
<1>1. /\ Transact(o, "extend key") /\ k \in KeysKnown /\ Note("key.extend", keys[k].workspace, k)
      /\ UNCHANGED <<workspaces, minted, tokens>> /\ dead' = dead
      /\ keys' = [keys EXCEPT ![k].expires = until]
  BY DEF ExtendKey, ChangeKey
<1>2. keys[k] \in Key /\ k \in KeyIds
  BY <1>1 DEF ControlInv, ControlTypeOK
<1>3. until \in Nat \cup {None}
  BY UntilType
<1> HIDE DEF until, k
<1>4. /\ row \in Key /\ row.workspace = keys[k].workspace /\ row.secret = keys[k].secret
      /\ row.revoked = keys[k].revoked
  BY <1>2, <1>3 DEF Key
<1>5. keys' = [keys EXCEPT ![k] = row]
  BY <1>1
<1> HIDE DEF row
<1>6. /\ RowsOK' /\ HandedOut' /\ DeadRefused'
      /\ tokens \subseteq tokens' /\ tokens' \subseteq Token
      /\ dead \subseteq dead' /\ dead' \subseteq tokens'
  BY <1>1, <1>4, <1>5, ChangeSafe
<1>7. audit' \in Seq(AuditRecord)
  BY <1>1, <1>2, NoteSafe DEF Actions, Key
<1>8. QED
  BY <1>1, <1>6, <1>7, TransactSafe

\* A key is revoked, once and for all (revoke_key).
LEMMA RevokeKeySafe ==
    ASSUME ControlInv, NEW o \in Operators, RevokeKey(o)
    PROVE  ControlInv'
<1> DEFINE k == commands[o].key
           at == commands[o].at
           row == [keys[k] EXCEPT !.revoked = IF @ = None THEN at ELSE @]
<1>1. /\ Transact(o, "revoke key") /\ k \in KeysKnown /\ Note("key.revoke", keys[k].workspace, k)
      /\ UNCHANGED <<workspaces, minted, tokens>> /\ dead' = dead \cup TokensOf({k})
      /\ keys' = [keys EXCEPT ![k].revoked = IF @ = None THEN at ELSE @]
  BY DEF RevokeKey, ChangeKey
<1>2. keys[k] \in Key /\ k \in KeyIds
  BY <1>1 DEF ControlInv, ControlTypeOK
<1>3. at \in Times /\ at # None
  BY ControlAssumption, ControlNoneAssumption DEF ControlInv, Underway, CommandRecord, Times
<1> HIDE DEF at, k
<1>4. /\ row \in Key /\ row.workspace = keys[k].workspace /\ row.secret = keys[k].secret
      /\ row.revoked # None
  BY <1>2, <1>3 DEF Key
<1>5. keys' = [keys EXCEPT ![k] = row]
  BY <1>1
<1> HIDE DEF row
<1>6. /\ RowsOK' /\ HandedOut' /\ DeadRefused'
      /\ tokens \subseteq tokens' /\ tokens' \subseteq Token
      /\ dead \subseteq dead' /\ dead' \subseteq tokens'
  BY <1>1, <1>4, <1>5, ChangeSafe
<1>7. audit' \in Seq(AuditRecord)
  BY <1>1, <1>2, NoteSafe DEF Actions, Key
<1>8. QED
  BY <1>1, <1>6, <1>7, TransactSafe

\* Rows that go, whatever the reason, leave the others as they are.
LEMMA ForgetRows ==
    ASSUME ControlInv, NEW S \in SUBSET KeysKnown, keys' = Without(keys, S),
           UNCHANGED <<workspaces, minted, tokens>>
    PROVE  RowsOK' /\ tokens \subseteq tokens' /\ tokens' \subseteq Token
<1>1. KeysKnown' = KeysKnown \ S /\ \A k \in KeysKnown' : keys'[k] = keys[k]
  BY DEF KeysKnown, Without
<1>2. Workspaces' = Workspaces
  BY DEF Workspaces
<1>3. RowsOK /\ tokens' \subseteq Token
  BY DEF RowsOK, ControlInv, ControlTypeOK
<1>4. QED
  BY <1>1, <1>2, <1>3 DEF RowsOK

\* A key is deleted (delete_key).
LEMMA DeleteKeySafe ==
    ASSUME ControlInv, NEW o \in Operators, DeleteKey(o)
    PROVE  ControlInv'
<1> DEFINE k == commands[o].key
<1>1. /\ Transact(o, "delete key") /\ k \in KeysKnown /\ Note("key.delete", keys[k].workspace, k)
      /\ UNCHANGED <<workspaces, minted, tokens>> /\ dead' = dead \cup TokensOf({k})
      /\ keys' = Without(keys, {k})
  BY DEF DeleteKey, ChangeKey
<1>2. keys[k] \in Key /\ k \in KeyIds
  BY <1>1 DEF ControlInv, ControlTypeOK
<1> HIDE DEF k
<1>3. {k} \in SUBSET KeysKnown
  BY <1>1
<1>4. RowsOK' /\ tokens \subseteq tokens' /\ tokens' \subseteq Token
  BY <1>1, <1>3, ForgetRows
<1>5. HandedOut' /\ DeadRefused' /\ dead \subseteq dead' /\ dead' \subseteq tokens'
  BY <1>1, <1>3, ForgetSafe
<1>6. audit' \in Seq(AuditRecord)
  BY <1>1, <1>2, NoteSafe DEF Actions, Key
<1>7. QED
  BY <1>1, <1>4, <1>5, <1>6, TransactSafe

\* Keys that are over for long enough are pruned (prune_keys).
LEMMA PruneKeysSafe ==
    ASSUME ControlInv, NEW o \in Operators, PruneKeys(o)
    PROVE  ControlInv'
<1> DEFINE S == {k \in KeysKnown : Prunable(keys[k], commands[o].at)}
<1>1. /\ Transact(o, "prune keys") /\ keys' = Without(keys, S) /\ dead' = dead \cup TokensOf(S)
      /\ IF S # {} THEN Note("key.prune", None, None) ELSE UNCHANGED audit
      /\ UNCHANGED <<workspaces, minted, tokens>>
  BY DEF PruneKeys
<1>2. S \in SUBSET KeysKnown
  OBVIOUS
<1> HIDE DEF S
<1>3. RowsOK' /\ tokens \subseteq tokens' /\ tokens' \subseteq Token
  BY <1>1, <1>2, ForgetRows
<1>4. HandedOut' /\ DeadRefused' /\ dead \subseteq dead' /\ dead' \subseteq tokens'
  BY <1>1, <1>2, ForgetSafe
<1>5. audit' \in Seq(AuditRecord)
  <2>1. CASE S # {}
    BY <1>1, <2>1, NoteSafe DEF Actions
  <2>2. CASE S = {}
    BY <1>1, <2>2 DEF ControlInv, ControlTypeOK, AuditRecord
  <2>3. QED
    BY <2>1, <2>2
<1>6. QED
  BY <1>1, <1>3, <1>4, <1>5, TransactSafe

\* What a request leaves behind: its own record.
LEMMA RequestSafe ==
    ASSUME ControlInv, NEW r \in Requests, NEW record \in RequestRecord,
           requests' = [requests EXCEPT ![r] = record],
           record.late => /\ record.token \in dead
                          /\ record.step # "checked" /\ record.answer # "accepted",
           RowsOK', HandedOut', DeadRefused', connection' \in Requests \cup {None},
           UNCHANGED <<audit, now, commands, tokens, dead>>
    PROVE  ControlInv'
<1>1. ControlTypeOK'
  BY DEF ControlInv, ControlTypeOK, RowsOK
<1>2. Underway'
  BY DEF ControlInv, Underway
<1>3. LateRefused'
  BY DEF ControlInv, Underway, LateRefused
<1>4. QED
  BY <1>1, <1>2, <1>3 DEF ControlInv

\* A request that only looks leaves the rows as they are.
LEMMA LookSafe ==
    ASSUME ControlInv, UNCHANGED <<workspaces, keys, minted, tokens, dead>>
    PROVE  RowsOK' /\ HandedOut' /\ DeadRefused'
<1>1. /\ HandedOut' /\ DeadRefused'
      /\ Workspaces' = Workspaces /\ KeysKnown' = KeysKnown
  BY RowsStay
<1>2. RowsOK
  BY DEF RowsOK, ControlInv, ControlTypeOK
<1>3. QED
  BY <1>1, <1>2 DEF RowsOK

\* A request comes with a token, dead or not.
LEMMA ArriveSafe ==
    ASSUME ControlInv, NEW r \in Requests, Arrive(r)
    PROVE  ControlInv'
<1>1. PICK token \in tokens \cup [key : KeyIds, secret : {NoSecret}] :
         /\ requests' = [requests EXCEPT ![r] = [Unsent EXCEPT !.step = "timed", !.token = token,
                                                     !.at = now, !.late = token \in dead]]
         /\ UNCHANGED <<workspaces, keys, audit, now, commands, connection, minted, tokens, dead>>
  BY DEF Arrive
<1> DEFINE late == token \in dead
           record == [Unsent EXCEPT !.step = "timed", !.token = token, !.at = now, !.late = late]
<1>2. /\ now \in Times /\ token \in Token \cup [key : KeyIds, secret : {NoSecret}] \cup {None}
      /\ late \in BOOLEAN
  BY ControlAssumption DEF ControlInv, ControlTypeOK, Times
<1>3. Unsent \in RequestRecord /\ Unsent.answer = None
  <2>1. 0 \in Times
    BY ControlAssumption DEF Times
  <2>2. QED
    BY <2>1 DEF Unsent, RequestRecord
<1>4. late => token \in dead
  OBVIOUS
<1> HIDE DEF late
<1>5. /\ record \in RequestRecord /\ record.late = late /\ record.token = token
      /\ record.step = "timed" /\ record.answer = None
  BY <1>2, <1>3 DEF RequestRecord
<1>6. requests' = [requests EXCEPT ![r] = record]
  BY <1>1 DEF late
<1> HIDE DEF record
<1>7. RowsOK' /\ HandedOut' /\ DeadRefused'
  BY <1>1, LookSafe
<1>8. None # "accepted"
  BY ControlNoneAssumption
<1>9. connection' \in Requests \cup {None}
  BY <1>1 DEF ControlInv, ControlTypeOK
<1>10. QED
  BY <1>1, <1>4, <1>5, <1>6, <1>7, <1>8, <1>9, RequestSafe

\* A request is answered; nobody is let in who should not be.
LEMMA AnswerSafe ==
    ASSUME ControlInv, NEW r \in Requests,
           NEW answer \in {"unauthenticated", "revoked", "expired", "accepted", "unavailable"},
           Answer(r, answer), answer = "accepted" => requests[r].step = "checked",
           RowsOK', HandedOut', DeadRefused', connection' \in Requests \cup {None},
           UNCHANGED <<audit, now, commands, tokens, dead>>
    PROVE  ControlInv'
<1> DEFINE record == [requests[r] EXCEPT !.step = "answered", !.answer = answer]
<1>1. requests[r] \in RequestRecord
  BY DEF ControlInv, Underway
<1>2. /\ record \in RequestRecord /\ record.late = requests[r].late /\ record.token = requests[r].token
      /\ record.step = "answered" /\ record.answer = answer
  BY <1>1 DEF RequestRecord
<1>3. requests' = [requests EXCEPT ![r] = record]
  BY DEF Answer
<1> HIDE DEF record
<1>4. record.late => /\ record.token \in dead
                     /\ record.step # "checked" /\ record.answer # "accepted"
  BY <1>2 DEF ControlInv, LateRefused
<1>5. QED
  BY <1>2, <1>3, <1>4, RequestSafe

\* What a row says of its key.
LEMMA KeyStates ==
    ASSUME NEW key, NEW at
    PROVE  /\ KeyState(key, at) \in {"revoked", "expired", "active"}
           /\ KeyState(key, at) = "active" => key.revoked = None
  BY DEF KeyState

\* A row is read, and a token that is dead is not let in.
LEMMA CheckSafe ==
    ASSUME ControlInv, NEW r \in Requests, Check(r)
    PROVE  ControlInv'
<1> DEFINE token == requests[r].token
           at == requests[r].at
           row == keys[token.key]
           state == KeyState(row, at)
<1>1. /\ requests[r].step = "timed" /\ connection = None
      /\ UNCHANGED <<workspaces, keys, audit, now, commands, minted, tokens, dead>>
  BY DEF Check
<1>2. RowsOK' /\ HandedOut' /\ DeadRefused'
  BY <1>1, LookSafe
<1>3. state \in {"revoked", "expired", "active"} /\ (state = "active" => row.revoked = None)
  BY KeyStates
<1>4. \/ /\ Answer(r, "unauthenticated") /\ UNCHANGED connection
      \/ /\ state # "active" /\ Answer(r, state) /\ UNCHANGED connection
      \/ /\ Matches(token) /\ state = "active" /\ connection' = r
         /\ requests' = [requests EXCEPT ![r].step = "checked", ![r].note = Stale(row, at)]
  BY DEF Check
<1>5. CASE Answer(r, "unauthenticated") /\ UNCHANGED connection
  <2>1. connection' \in Requests \cup {None}
    BY <1>1, <1>5
  <2>2. QED
    BY <1>1, <1>2, <1>5, <2>1, AnswerSafe
<1>6. CASE state # "active" /\ Answer(r, state) /\ UNCHANGED connection
  <2>1. connection' \in Requests \cup {None} /\ state \in {"revoked", "expired"}
    BY <1>1, <1>3, <1>6
  <2> HIDE DEF state
  <2>2. QED
    BY <1>1, <1>2, <1>6, <2>1, AnswerSafe
<1>7. CASE /\ Matches(token) /\ state = "active" /\ connection' = r
           /\ requests' = [requests EXCEPT ![r].step = "checked", ![r].note = Stale(row, at)]
  <2> DEFINE note == Stale(row, at)
             record == [requests[r] EXCEPT !.step = "checked", !.note = note]
  <2>1. requests[r] \in RequestRecord /\ note \in BOOLEAN
    BY DEF ControlInv, Underway, Stale
  <2> HIDE DEF note
  <2>2. /\ record \in RequestRecord /\ record.late = requests[r].late
    BY <2>1 DEF RequestRecord
  <2>3. requests' = [requests EXCEPT ![r] = record]
    BY <1>7 DEF note
  <2> HIDE DEF record
  <2>4. ~requests[r].late
    BY <1>3, <1>7 DEF ControlInv, LateRefused, DeadRefused
  <2>5. QED
    BY <1>1, <1>2, <1>7, <2>2, <2>3, <2>4, RequestSafe
<1>8. QED
  BY <1>4, <1>5, <1>6, <1>7

\* The last use is written down.
LEMMA NoteUseSafe ==
    ASSUME ControlInv, NEW r \in Requests, NoteUse(r)
    PROVE  ControlInv'
<1> DEFINE k == requests[r].token.key
           at == requests[r].at
           row == [keys[k] EXCEPT !.used = at]
<1>1. /\ requests[r].step = "checked" /\ Answer(r, "accepted") /\ connection' = None
      /\ UNCHANGED <<workspaces, audit, now, commands, minted, tokens, dead>>
      /\ (k \in KeysKnown /\ keys' = [keys EXCEPT ![k].used = at]) \/ UNCHANGED keys
  BY DEF NoteUse
<1>2. CASE k \in KeysKnown /\ keys' = [keys EXCEPT ![k].used = at]
  <2>1. keys[k] \in Key /\ at \in Times
    BY <1>2 DEF ControlInv, ControlTypeOK, Underway, RequestRecord
  <2> HIDE DEF at, k
  <2>2. /\ row \in Key /\ row.workspace = keys[k].workspace /\ row.secret = keys[k].secret
        /\ row.revoked = keys[k].revoked
    BY <2>1 DEF Key
  <2>3. keys' = [keys EXCEPT ![k] = row]
    BY <1>2
  <2> HIDE DEF row
  <2>4. RowsOK' /\ HandedOut' /\ DeadRefused'
    BY <1>1, <1>2, <2>2, <2>3, ChangeSafe
  <2>5. QED
    BY <1>1, <2>4, AnswerSafe
<1>3. CASE UNCHANGED keys
  <2>1. RowsOK' /\ HandedOut' /\ DeadRefused'
    BY <1>1, <1>3, LookSafe
  <2>2. QED
    BY <1>1, <2>1, AnswerSafe
<1>4. QED
  BY <1>1, <1>2, <1>3

\* One action preserves the invariant, whichever it is.
LEMMA StepControl == ControlInv /\ [ControlNext]_control => ControlInv'
<1> SUFFICES ASSUME ControlInv, [ControlNext]_control PROVE ControlInv'
  OBVIOUS
<1>1. ASSUME NEW o \in Operators, WorkspaceCommand(o) \/ KeyCommand(o) \/ Fail(o)
      PROVE  ControlInv'
  BY <1>1, BeginsSafe, CreateWorkspaceSafe, DeleteWorkspaceSafe, CreateKeySafe, ExtendKeySafe,
     RevokeKeySafe, DeleteKeySafe, PruneKeysSafe DEF WorkspaceCommand, KeyCommand
<1>2. ASSUME NEW r \in Requests, Authenticate(r) PROVE ControlInv'
  <2>1. CASE CannotCheck(r)
    <3>1. /\ Answer(r, "unavailable") /\ connection' \in Requests \cup {None}
          /\ UNCHANGED <<workspaces, keys, audit, now, commands, minted, tokens, dead>>
      BY <2>1 DEF CannotCheck
    <3>2. RowsOK' /\ HandedOut' /\ DeadRefused'
      BY <3>1, LookSafe
    <3>3. QED
      BY <3>1, <3>2, AnswerSafe
  <2>2. QED
    BY <1>2, <2>1, ArriveSafe, CheckSafe, NoteUseSafe DEF Authenticate
<1>3. ASSUME now' \in 0 .. MaxTime, now =< now',
             UNCHANGED <<workspaces, keys, audit, commands, requests, connection, minted, tokens, dead>>
      PROVE  ControlInv'
  <2>1. RowsOK' /\ HandedOut' /\ DeadRefused'
    BY <1>3, LookSafe
  <2>2. ControlTypeOK'
    BY <1>3, <2>1 DEF ControlInv, ControlTypeOK, RowsOK
  <2>3. Underway'
    <3>1. \A o \in Operators : commands[o].at \in Nat /\ commands[o].at =< now
      BY ControlAssumption DEF ControlInv, Underway, CommandRecord, Times
    <3>2. now \in Nat /\ now' \in Nat
      BY <1>3 DEF ControlInv, ControlTypeOK
    <3>3. \A o \in Operators : commands[o].at =< now'
      BY <1>3, <3>1, <3>2
    <3>4. QED
      BY <1>3, <3>3 DEF ControlInv, Underway
  <2>4. LateRefused'
    BY <1>3 DEF ControlInv, LateRefused
  <2>5. QED
    BY <2>1, <2>2, <2>3, <2>4 DEF ControlInv
<1>4. now \in 0 .. MaxTime /\ now =< now
  BY DEF ControlInv, ControlTypeOK
<1>5. CASE Tick
  BY <1>3, <1>4, <1>5, ControlAssumption DEF Tick
<1>6. CASE UNCHANGED control
  BY <1>3, <1>4, <1>6 DEF control
<1>7. QED
  BY <1>1, <1>2, <1>5, <1>6 DEF ControlNext

\* A new database has no keys, and nobody has come yet.
LEMMA InitControl == ControlInit => ControlInv
<1> SUFFICES ASSUME ControlInit PROVE ControlInv
  OBVIOUS
<1>1. /\ Workspaces = {} /\ KeysKnown = {} /\ minted = {} /\ tokens = {} /\ dead = {}
      /\ audit = <<>> /\ now = 0 /\ connection = None
  BY DEF ControlInit, Workspaces, KeysKnown
<1>2. ControlTypeOK
  <2>1. 0 \in 0 .. MaxTime
    BY ControlAssumption
  <2>2. <<>> \in Seq([action : Actions, workspace : Ids \cup {None}, key : KeyIds \cup {None}])
    OBVIOUS
  <2>3. QED
    BY <1>1, <2>1, <2>2 DEF ControlTypeOK
<1>3. Underway
  <2>1. Unsent \in RequestRecord
    <3>1. 0 \in Times
      BY ControlAssumption DEF Times
    <3>2. QED
      BY <3>1 DEF Unsent, RequestRecord
  <2>2. QED
    BY <1>1, <2>1, IdleIsARecord DEF Underway, ControlInit
<1>4. HandedOut
  BY <1>1, FS_EmptySet DEF HandedOut, TokensOf
<1>5. DeadRefused
  BY <1>1 DEF DeadRefused
<1>6. LateRefused
  BY DEF LateRefused, ControlInit, Unsent
<1>7. QED
  BY <1>2, <1>3, <1>4, <1>5, <1>6 DEF ControlInv

\* The database keeps its invariant.
LEMMA ControlStays == ControlSpec => []ControlInv
  BY InitControl, StepControl, PTL DEF ControlSpec

\* The rows keep their types: a key belongs to a workspace that is there, and two
\* workspaces never have one name, whatever processes run what at once.
THEOREM RowsKeepTheirTypes == ControlSpec => []ControlTypeOK
<1>1. ControlInv => ControlTypeOK
  BY DEF ControlInv
<1>2. QED
  BY <1>1, ControlStays, PTL

\* A key that was revoked or deleted, by whatever way, before a request came does not let
\* it in: no extension brings it back and no key made since under its id has its secret.
THEOREM DeadKeysAreRefused == ControlSpec => []DeadKeysStayOut
<1>1. ControlInv => DeadKeysStayOut
  BY DEF ControlInv, LateRefused, DeadKeysStayOut
<1>2. QED
  BY <1>1, ControlStays, PTL

-----------------------------------------------------------------------------
(* What pruning takes, and what the trail tells. *)

\* What is prunable at some time was over then, and is over ever after.
LEMMA PrunableIsOver ==
    ASSUME NEW key \in Key, NEW at \in Nat, NEW later \in Nat, at =< later, Prunable(key, at)
    PROVE  KeyState(key, later) # "active"
<1>1. key.revoked \in Nat \cup {None} /\ key.expires \in Nat \cup {None}
  BY ControlAssumption DEF Key, Times
<1>2. OlderThan \in Nat
  BY ControlAssumption
<1>3. CASE key.revoked # None
  BY <1>3 DEF KeyState
<1>4. CASE key.revoked = None
  <2>1. key.expires # None /\ key.expires =< at
    BY <1>1, <1>2, <1>4 DEF Prunable
  <2>2. key.expires =< later
    BY <1>1, <2>1
  <2>3. QED
    BY <1>4, <2>1, <2>2 DEF KeyState
<1>5. QED
  BY <1>3, <1>4

\* Rows go by a deletion, or because they are prunable.
LEMMA RowsGo ==
    ASSUME ControlInv, [ControlNext]_control, NEW k \in KeysKnown, k \notin KeysKnown'
    PROVE  \E o \in Operators :
              \/ commands[o].do \in {"delete key", "delete workspace"} /\ commands'[o] = Idle
              \/ Prunable(keys[k], commands[o].at)
<1>0. commands \in [Operators -> CommandRecord]
  BY DEF ControlInv, Underway
<1>1. keys' # keys
  BY DEF KeysKnown
<1>2. PICK o \in Operators : \/ DeleteWorkspace(o) \/ CreateKey(o) \/ ExtendKey(o) \/ RevokeKey(o)
                             \/ DeleteKey(o) \/ PruneKeys(o) \/ \E r \in Requests : NoteUse(r)
  <2>1. CASE \E o \in Operators : WorkspaceCommand(o) \/ KeyCommand(o) \/ Fail(o)
    BY <1>1, <2>1 DEF WorkspaceCommand, KeyCommand, Fail, BeginCreateWorkspace, BeginDeleteWorkspace,
       BeginCreateKey, BeginChangeKey, BeginPruneKeys, Begin, CreateWorkspace
  <2>2. CASE \E r \in Requests : Authenticate(r)
    <3>1. PICK r \in Requests : NoteUse(r)
      BY <1>1, <2>2 DEF Authenticate, Arrive, Check, CannotCheck
    <3>2. KeysKnown' = KeysKnown
      BY <3>1 DEF NoteUse, KeysKnown
    <3>3. QED
      BY <3>2
  <2>3. QED
    BY <1>1, <2>1, <2>2 DEF ControlNext, control, Tick
<1>3. CASE \E r \in Requests : NoteUse(r)
  BY <1>3 DEF NoteUse, KeysKnown
<1>4. CASE CreateKey(o)
  BY <1>4 DEF CreateKey, KeysKnown, With
<1>5. CASE ExtendKey(o) \/ RevokeKey(o)
  BY <1>5 DEF ExtendKey, RevokeKey, KeysKnown
<1>6. CASE DeleteWorkspace(o) \/ DeleteKey(o)
  <2>1. Transact(o, "delete workspace") \/ Transact(o, "delete key")
    BY <1>6 DEF DeleteWorkspace, DeleteKey, ChangeKey
  <2>2. QED
    BY <1>0, <2>1 DEF Transact
<1>7. CASE PruneKeys(o)
  BY <1>7 DEF PruneKeys, KeysKnown, Without
<1>8. QED
  BY <1>2, <1>3, <1>4, <1>5, <1>6, <1>7

\* Pruning takes no key that still works, though the clock it goes by was read before its
\* transaction: a key that was over then is over now.
THEOREM PruningSparesActiveKeys == ControlSpec => PruneSparesActiveKeys
<1>1. ControlInv /\ [ControlNext]_control =>
         [\A k \in KeysKnown \ DOMAIN keys' :
             KeyState(keys[k], now) = "active" =>
                 \E o \in Operators : commands[o].do \in {"delete key", "delete workspace"}
                                      /\ commands'[o] = Idle]_control
  <2> SUFFICES ASSUME ControlInv, [ControlNext]_control, NEW k \in KeysKnown \ DOMAIN keys',
                      KeyState(keys[k], now) = "active"
               PROVE  \E o \in Operators : commands[o].do \in {"delete key", "delete workspace"}
                                           /\ commands'[o] = Idle
    OBVIOUS
  <2>1. PICK o \in Operators :
           \/ commands[o].do \in {"delete key", "delete workspace"} /\ commands'[o] = Idle
           \/ Prunable(keys[k], commands[o].at)
    BY RowsGo DEF KeysKnown
  <2>2. keys[k] \in Key /\ now \in Nat /\ commands[o].at \in Nat /\ commands[o].at =< now
    BY ControlAssumption DEF ControlInv, ControlTypeOK, Underway, CommandRecord, Times
  <2>3. QED
    BY <2>1, <2>2, PrunableIsOver
<1>2. QED
  BY <1>1, ControlStays, PTL DEF ControlSpec, PruneSparesActiveKeys

\* What an entry that is added says of the ones before it.
LEMMA TrailAppend ==
    ASSUME NEW trail \in Seq(AuditRecord), NEW e \in AuditRecord, NEW i \in 1 .. Len(trail)
    PROVE  /\ Append(trail, e)[i] = trail[i]
           /\ \A x : Says(Append(trail, e), i, x) <=> Says(trail, i, x) \/ e = x
           /\ Again(Append(trail, e), i) <=>
                 Again(trail, i) \/ (e.action = "key.create" /\ e.key = trail[i].key)
<1> DEFINE longer == Append(trail, e)
<1>1. /\ Len(longer) = Len(trail) + 1 /\ longer[Len(trail) + 1] = e
      /\ \A j \in 1 .. Len(trail) : longer[j] = trail[j]
      /\ Len(trail) \in Nat
  OBVIOUS
<1> HIDE DEF longer
<1>2. i + 1 .. Len(longer) = (i + 1 .. Len(trail)) \cup {Len(trail) + 1}
  BY <1>1
<1>3. \A j \in i + 1 .. Len(trail) : longer[j] = trail[j]
  BY <1>1
<1>4. longer[i] = trail[i]
  BY <1>1
<1>5. \A x : Says(longer, i, x) <=> Says(trail, i, x) \/ e = x
  BY <1>1, <1>2, <1>3 DEF Says
<1>6. Again(longer, i) <=> Again(trail, i) \/ (e.action = "key.create" /\ e.key = trail[i].key)
  BY <1>1, <1>2, <1>3, <1>4 DEF Again
<1>7. QED
  BY <1>4, <1>5, <1>6 DEF longer

\* Two entries are one when they say the same.
LEMMA SameEntry ==
    ASSUME NEW a, NEW w, NEW k, NEW b, NEW v, NEW l, Entry(a, w, k) = Entry(b, v, l)
    PROVE  a = b /\ w = v /\ k = l
<1>1. Entry(a, w, k).action = a /\ Entry(a, w, k).workspace = w /\ Entry(a, w, k).key = k
  BY DEF Entry
<1>2. Entry(b, v, l).action = b /\ Entry(b, v, l).workspace = v /\ Entry(b, v, l).key = l
  BY DEF Entry
<1>3. QED
  BY <1>1, <1>2

\* A change to the rows, and the note that tells of it.
Tells(e) ==
    /\ \A k \in KeysKnown \ KeysKnown' :
          \/ e = Entry("key.delete", keys[k].workspace, k)
          \/ e = Entry("workspace.delete", keys[k].workspace, None)
          \/ e = Entry("key.prune", None, None)
    /\ \A k \in KeysKnown \cap KeysKnown' :
          /\ keys'[k].workspace = keys[k].workspace
          /\ keys'[k].revoked # None <=>
                keys[k].revoked # None \/ e = Entry("key.revoke", keys[k].workspace, k)
    /\ \A k \in KeysKnown' \ KeysKnown :
          e = Entry("key.create", keys'[k].workspace, k) /\ keys'[k].revoked = None
    /\ e.action = "key.create" => e.key \in KeysKnown' \ KeysKnown

\* A transaction that appends one entry telling what it did to the keys keeps the trail's account.
LEMMA TrailGrows ==
    ASSUME ControlInv, TrailInv, NEW e \in AuditRecord, audit' = Append(audit, e), Tells(e)
    PROVE  TrailInv'
<1>0. audit \in Seq(AuditRecord)
  BY DEF ControlInv, ControlTypeOK, AuditRecord
<1>1. /\ Len(audit') = Len(audit) + 1 /\ Len(audit) \in Nat /\ audit'[Len(audit) + 1] = e
      /\ 1 .. Len(audit') = (1 .. Len(audit)) \cup {Len(audit) + 1}
  BY <1>0
<1>2. ASSUME NEW i \in 1 .. Len(audit), audit[i].action = "key.create" PROVE Explains(audit, i)'
  <2> DEFINE k == audit[i].key
             w == audit[i].workspace
  <2>1. /\ audit'[i] = audit[i]
        /\ \A x : Says(audit', i, x) <=> Says(audit, i, x) \/ e = x
        /\ Again(audit', i) <=> Again(audit, i) \/ (e.action = "key.create" /\ e.key = k)
    BY <1>0, TrailAppend
  <2>2. Explains(audit, i)
    BY <1>2 DEF TrailInv
  <2>3. /\ Gone(audit', i) <=> \/ Gone(audit, i)
                               \/ e = Entry("key.delete", w, k)
                               \/ e = Entry("workspace.delete", w, None)
                               \/ e = Entry("key.prune", None, None)
        /\ Revoked(audit', i) <=> Revoked(audit, i) \/ e = Entry("key.revoke", w, k)
    BY <2>1 DEF Gone, Revoked
  <2>4. k \notin KeysKnown' \/ Again(audit', i) => Gone(audit', i)
    BY <2>1, <2>2, <2>3 DEF Explains, Tells
  <2>5. k \in KeysKnown' /\ ~Again(audit', i) =>
           /\ keys'[k].workspace = w
           /\ keys'[k].revoked # None <=> Revoked(audit', i)
    <3> SUFFICES ASSUME k \in KeysKnown', ~Again(audit', i)
                 PROVE  /\ keys'[k].workspace = w
                        /\ keys'[k].revoked # None <=> Revoked(audit', i)
      OBVIOUS
    <3>1. k \in KeysKnown
      <4>1. CASE k \notin KeysKnown
        <5>1. e = Entry("key.create", keys'[k].workspace, k)
          BY <4>1 DEF Tells
        <5>2. e.action = "key.create" /\ e.key = k
          BY <5>1 DEF Entry
        <5>3. QED
          BY <2>1, <5>2
      <4>2. QED
        BY <4>1
    <3>2. /\ ~Again(audit, i)
      BY <2>1
    <3>3. QED
      BY <2>2, <2>3, <3>1, <3>2 DEF Explains, Tells
  <2>6. QED
    BY <2>1, <2>4, <2>5 DEF Explains
<1>3. ASSUME NEW n \in Nat, n = Len(audit) + 1, e.action = "key.create" PROVE Explains(audit, n)'
  <2>1. n + 1 .. Len(audit') = {}
    BY <1>1, <1>3
  <2>2. ~Again(audit', n) /\ ~Revoked(audit', n)
    BY <2>1 DEF Again, Revoked, Says
  <2>3. e.key \in KeysKnown' /\ e = Entry("key.create", keys'[e.key].workspace, e.key)
        /\ keys'[e.key].revoked = None
    BY <1>3 DEF Tells
  <2>4. e.workspace = keys'[e.key].workspace
    BY <2>3 DEF Entry
  <2>5. audit'[n] = e
    BY <1>1, <1>3
  <2>6. QED
    BY <2>2, <2>3, <2>4, <2>5 DEF Explains
<1>4. ASSUME NEW i \in 1 .. Len(audit'), audit'[i].action = "key.create" PROVE Explains(audit, i)'
  <2>1. CASE i \in 1 .. Len(audit)
    <3>1. audit'[i] = audit[i]
      BY <1>0, <2>1, TrailAppend
    <3>2. QED
      BY <1>2, <1>4, <2>1, <3>1
  <2>2. CASE i = Len(audit) + 1
    BY <1>1, <1>3, <1>4, <2>2
  <2>3. QED
    BY <1>1, <2>1, <2>2
<1>5. QED
  BY <1>4 DEF TrailInv

\* A step that adds nothing to the trail, and takes away, moves and revokes no key.
LEMMA TrailKept ==
    ASSUME TrailInv, audit' = audit, KeysKnown' = KeysKnown,
           \A k \in KeysKnown : /\ keys'[k].workspace = keys[k].workspace
                                /\ keys'[k].revoked = keys[k].revoked
    PROVE  TrailInv'
<1>1. ASSUME NEW i \in 1 .. Len(audit), Explains(audit, i) PROVE Explains(audit, i)'
  BY <1>1 DEF Explains, Again, Gone, Revoked, Says
<1>2. QED
  BY <1>1 DEF TrailInv

\* A step that changes no key.
LEMMA TrailOfNoKey ==
    ASSUME ControlInv, TrailInv, NEW e \in AuditRecord, audit' = Append(audit, e), keys' = keys,
           e.action \notin {"key.create", "key.revoke"}
    PROVE  TrailInv'
<1>1. KeysKnown' = KeysKnown
  BY DEF KeysKnown
<1>2. \A w, k : e # Entry("key.revoke", w, k)
  BY DEF Entry
<1>3. Tells(e)
  BY <1>1, <1>2 DEF Tells
<1>4. QED
  BY <1>3, TrailGrows

\* A note is an entry.
LEMMA EntryIsARecord ==
    ASSUME NEW action \in Actions, NEW w \in Ids \cup {None}, NEW k \in KeyIds \cup {None}
    PROVE  /\ Entry(action, w, k) \in AuditRecord /\ Entry(action, w, k).action = action
           /\ Entry(action, w, k).workspace = w /\ Entry(action, w, k).key = k
  BY DEF Entry, AuditRecord

\* The transactions tell of what they do to keys.
LEMMA TransactionsTell ==
    ASSUME ControlInv, TrailInv, NEW o \in Operators,
           \/ CreateWorkspace(o) \/ DeleteWorkspace(o) \/ CreateKey(o) \/ ExtendKey(o)
           \/ RevokeKey(o) \/ DeleteKey(o) \/ PruneKeys(o)
    PROVE  TrailInv'
<1>0. /\ commands[o].found \in Ids \cup {None} /\ Workspaces \subseteq Ids /\ KeysKnown \subseteq KeyIds
      /\ \A k \in KeysKnown : keys[k] \in Key /\ keys[k].workspace \in Ids
  BY DEF ControlInv, Underway, CommandRecord, ControlTypeOK
<1>1. CASE CreateWorkspace(o)
  <2>1. PICK id \in Ids : Note("workspace.create", id, None) /\ keys' = keys
    BY <1>1 DEF CreateWorkspace
  <2>2. /\ Entry("workspace.create", id, None) \in AuditRecord
        /\ Entry("workspace.create", id, None).action = "workspace.create"
    BY EntryIsARecord DEF Actions
  <2>3. QED
    BY <2>1, <2>2, TrailOfNoKey DEF Note
<1>2. CASE DeleteWorkspace(o)
  <2> DEFINE id == commands[o].found
             its == {k \in KeysKnown : keys[k].workspace = id}
             e == Entry("workspace.delete", id, None)
  <2>1. keys' = Without(keys, its) /\ audit' = Append(audit, e)
    BY <1>2 DEF DeleteWorkspace, Note
  <2>2. e \in AuditRecord /\ e.action = "workspace.delete"
    BY <1>0, EntryIsARecord DEF Actions
  <2>3. \A w, k : e # Entry("key.revoke", w, k)
    BY <2>2 DEF Entry
  <2>4. KeysKnown' = KeysKnown \ its /\ \A k \in KeysKnown' : keys'[k] = keys[k]
    BY <2>1 DEF KeysKnown, Without
  <2>5. \A k \in its : e = Entry("workspace.delete", keys[k].workspace, None)
    OBVIOUS
  <2> HIDE DEF e, its
  <2>6. Tells(e)
    BY <2>2, <2>3, <2>4, <2>5 DEF Tells
  <2>7. QED
    BY <2>1, <2>2, <2>6, TrailGrows
<1>3. CASE CreateKey(o)
  <2> DEFINE id == commands[o].found
             secret == Cardinality(tokens) + 1
  <2>1. PICK k \in KeyIds \ KeysKnown :
           /\ keys' = With(keys, k, [workspace |-> id, secret |-> secret, expires |-> Until(commands[o]),
                                     revoked |-> None, used |-> None])
           /\ audit' = Append(audit, Entry("key.create", id, k))
    BY <1>3 DEF CreateKey, Note
  <2> DEFINE e == Entry("key.create", id, k)
  <2>2. e \in AuditRecord /\ e.action = "key.create" /\ e.key = k
    BY <1>0, EntryIsARecord DEF Actions
  <2>3. \A w, l : e # Entry("key.revoke", w, l)
    BY <2>2 DEF Entry
  <2>4. /\ KeysKnown' = KeysKnown \cup {k} /\ \A x \in KeysKnown : keys'[x] = keys[x]
        /\ keys'[k].workspace = id /\ keys'[k].revoked = None
    BY <2>1 DEF KeysKnown, With
  <2>5. e = Entry("key.create", keys'[k].workspace, k)
    BY <2>4
  <2>6. audit' = Append(audit, e)
    BY <2>1
  <2> HIDE DEF e, id, secret
  <2>7. Tells(e)
    BY <2>1, <2>2, <2>3, <2>4, <2>5 DEF Tells
  <2>8. QED
    BY <2>2, <2>6, <2>7, TrailGrows
<1>4. CASE ExtendKey(o)
  <2> DEFINE k == commands[o].key
             e == Entry("key.extend", keys[k].workspace, k)
  <2>1. /\ k \in KeysKnown /\ audit' = Append(audit, e)
        /\ keys' = [keys EXCEPT ![k].expires = Until(commands[o])]
    BY <1>4 DEF ExtendKey, ChangeKey, Note
  <2>2. e \in AuditRecord /\ e.action = "key.extend"
    BY <1>0, <2>1, EntryIsARecord DEF Actions
  <2>3. \A w, l : e # Entry("key.revoke", w, l)
    BY <2>2 DEF Entry
  <2>4. /\ KeysKnown' = KeysKnown
        /\ \A x \in KeysKnown : keys'[x].workspace = keys[x].workspace /\ keys'[x].revoked = keys[x].revoked
    BY <1>0, <2>1 DEF KeysKnown, Key
  <2> HIDE DEF e
  <2>5. Tells(e)
    BY <2>2, <2>3, <2>4 DEF Tells
  <2>6. QED
    BY <2>1, <2>2, <2>5, TrailGrows
<1>5. CASE RevokeKey(o)
  <2> DEFINE k == commands[o].key
             e == Entry("key.revoke", keys[k].workspace, k)
  <2>1. /\ k \in KeysKnown /\ audit' = Append(audit, e)
        /\ keys' = [keys EXCEPT ![k].revoked = IF @ = None THEN commands[o].at ELSE @]
    BY <1>5 DEF RevokeKey, ChangeKey, Note
  <2>2. e \in AuditRecord /\ e.action = "key.revoke"
    BY <1>0, <2>1, EntryIsARecord DEF Actions
  <2>3. commands[o].at # None
    BY ControlAssumption, ControlNoneAssumption DEF ControlInv, Underway, CommandRecord, Times
  <2>4. /\ KeysKnown' = KeysKnown
        /\ \A x \in KeysKnown : keys'[x].workspace = keys[x].workspace
        /\ \A x \in KeysKnown : x # k => keys'[x].revoked = keys[x].revoked
        /\ keys'[k].revoked # None
    BY <1>0, <2>1, <2>3 DEF KeysKnown, Key
  <2>5. \A x \in KeysKnown : e = Entry("key.revoke", keys[x].workspace, x) => x = k
    BY SameEntry
  <2>6. e = Entry("key.revoke", keys[k].workspace, k)
    OBVIOUS
  <2> HIDE DEF e
  <2>7. Tells(e)
    BY <2>1, <2>2, <2>4, <2>5, <2>6 DEF Tells
  <2>8. QED
    BY <2>1, <2>2, <2>7, TrailGrows
<1>6. CASE DeleteKey(o)
  <2> DEFINE k == commands[o].key
             e == Entry("key.delete", keys[k].workspace, k)
  <2>1. k \in KeysKnown /\ audit' = Append(audit, e) /\ keys' = Without(keys, {k})
    BY <1>6 DEF DeleteKey, ChangeKey, Note
  <2>2. e \in AuditRecord /\ e.action = "key.delete"
    BY <1>0, <2>1, EntryIsARecord DEF Actions
  <2>3. \A w, l : e # Entry("key.revoke", w, l)
    BY <2>2 DEF Entry
  <2>4. KeysKnown' = KeysKnown \ {k} /\ \A x \in KeysKnown' : keys'[x] = keys[x]
    BY <2>1 DEF KeysKnown, Without
  <2>5. e = Entry("key.delete", keys[k].workspace, k)
    OBVIOUS
  <2> HIDE DEF e
  <2>6. Tells(e)
    BY <2>2, <2>3, <2>4, <2>5 DEF Tells
  <2>7. QED
    BY <2>1, <2>2, <2>6, TrailGrows
<1>7. CASE PruneKeys(o)
  <2> DEFINE S == {k \in KeysKnown : Prunable(keys[k], commands[o].at)}
             e == Entry("key.prune", None, None)
  <2>1. keys' = Without(keys, S) /\ audit' = IF S # {} THEN Append(audit, e) ELSE audit
    BY <1>7 DEF PruneKeys, Note
  <2>2. e \in AuditRecord /\ e.action = "key.prune"
    BY EntryIsARecord DEF Actions
  <2>3. \A w, l : e # Entry("key.revoke", w, l)
    BY <2>2 DEF Entry
  <2>4. KeysKnown' = KeysKnown \ S /\ \A x \in KeysKnown' : keys'[x] = keys[x]
    BY <2>1 DEF KeysKnown, Without
  <2>5. e = Entry("key.prune", None, None)
    OBVIOUS
  <2> HIDE DEF e, S
  <2>6. CASE S # {}
    <3>1. Tells(e)
      BY <2>2, <2>3, <2>4, <2>5 DEF Tells
    <3>2. QED
      BY <2>1, <2>2, <2>6, <3>1, TrailGrows
  <2>7. CASE S = {}
    BY <2>1, <2>4, <2>7, TrailKept
  <2>8. QED
    BY <2>6, <2>7
<1>8. QED
  BY <1>1, <1>2, <1>3, <1>4, <1>5, <1>6, <1>7

\* Steps of other kinds leave the trail and what it explains alone.
LEMMA StepTrail == ControlInv /\ TrailInv /\ [ControlNext]_control => TrailInv'
<1> SUFFICES ASSUME ControlInv, TrailInv, [ControlNext]_control PROVE TrailInv'
  OBVIOUS
<1>1. ASSUME audit' = audit, keys' = keys PROVE TrailInv'
  <2>1. KeysKnown' = KeysKnown
    BY <1>1 DEF KeysKnown
  <2>2. QED
    BY <1>1, <2>1, TrailKept
<1>2. ASSUME NEW o \in Operators, WorkspaceCommand(o) \/ KeyCommand(o) \/ Fail(o)
      PROVE  TrailInv'
  <2>1. ASSUME \/ BeginCreateWorkspace(o) \/ (\E name \in Names : BeginDeleteWorkspace(o, name))
               \/ BeginCreateKey(o) \/ BeginChangeKey(o) \/ BeginPruneKeys(o) \/ Fail(o)
        PROVE  audit' = audit /\ keys' = keys
    BY <2>1 DEF Fail, BeginCreateWorkspace, BeginDeleteWorkspace, BeginCreateKey, BeginChangeKey,
       BeginPruneKeys, Begin
  <2>2. QED
    BY <1>1, <1>2, <2>1, TransactionsTell DEF WorkspaceCommand, KeyCommand
<1>3. ASSUME NEW r \in Requests, NoteUse(r) PROVE TrailInv'
  <2>1. audit' = audit /\ KeysKnown' = KeysKnown
    BY <1>3 DEF NoteUse, KeysKnown
  <2>2. \A k \in KeysKnown : keys[k] \in Key
    BY DEF ControlInv, ControlTypeOK
  <2>3. \A k \in KeysKnown : keys'[k].workspace = keys[k].workspace /\ keys'[k].revoked = keys[k].revoked
    BY <1>3, <2>2 DEF NoteUse, KeysKnown, Key
  <2>4. QED
    BY <2>1, <2>3, TrailKept
<1>4. ASSUME NEW r \in Requests, Arrive(r) \/ Check(r) \/ CannotCheck(r) PROVE TrailInv'
  BY <1>1, <1>4 DEF Arrive, Check, CannotCheck
<1>5. CASE Tick
  BY <1>1, <1>5 DEF Tick
<1>6. CASE UNCHANGED control
  BY <1>1, <1>6 DEF control
<1>7. QED
  BY <1>2, <1>3, <1>4, <1>5, <1>6 DEF ControlNext, Authenticate

\* Why a key is no longer there, and whether it is revoked, can be told from the trail for
\* every key that was ever made: no deletion, pruning or revocation goes without its note.
THEOREM TrailExplainsEveryKey == ControlSpec => []TrailExplainsKeys
<1>1. ControlInit => TrailInv
  BY DEF ControlInit, TrailInv
<1>2. ControlInv /\ TrailInv => TrailExplainsKeys
  <2> SUFFICES ASSUME ControlInv, TrailInv PROVE TrailExplainsKeys
    OBVIOUS
  <2>1. DOMAIN audit = 1 .. Len(audit)
    BY DEF ControlInv, ControlTypeOK
  <2>2. \A i \in DOMAIN audit : audit[i].action = "key.create" => Explains(audit, i)
    BY <2>1 DEF TrailInv
  <2>3. QED
    BY <2>2 DEF TrailExplainsKeys, Explains, Again, Gone, Revoked, Says
<1>3. QED
  BY <1>1, <1>2, ControlStays, StepTrail, PTL DEF ControlSpec

-----------------------------------------------------------------------------
(* When a key was last used. *)

\* A note of a key's use that waits to be written is of the request that has the server's
\* connection, and no later use is written down yet.
NoteInv ==
    \A r \in Requests : requests[r].step = "checked" =>
        /\ connection = r
        /\ requests[r].note /\ requests[r].token.key \in KeysKnown =>
              \/ keys[requests[r].token.key].used = None
              \/ keys[requests[r].token.key].used =< requests[r].at

\* Only `NoteUse` writes a use down: what else changes the rows leaves what they say of it, and
\* a row that is made says nothing.
LEMMA UsesStay ==
    ASSUME ControlInv, [ControlNext]_control, ~\E r \in Requests : NoteUse(r)
    PROVE  /\ \A k \in KeysKnown \cap KeysKnown' : keys'[k].used = keys[k].used
           /\ \A k \in KeysKnown' \ KeysKnown : keys'[k].used = None
<1>1. \A k \in KeysKnown : keys[k] \in Key
  BY DEF ControlInv, ControlTypeOK
<1>2. \/ UNCHANGED keys
      \/ \E o \in Operators : \/ DeleteWorkspace(o) \/ CreateKey(o) \/ ExtendKey(o)
                              \/ RevokeKey(o) \/ DeleteKey(o) \/ PruneKeys(o)
  <2>1. CASE \E o \in Operators : WorkspaceCommand(o) \/ KeyCommand(o) \/ Fail(o)
    BY <2>1 DEF WorkspaceCommand, KeyCommand, Fail, BeginCreateWorkspace, BeginDeleteWorkspace,
       BeginCreateKey, BeginChangeKey, BeginPruneKeys, Begin, CreateWorkspace
  <2>2. CASE \E r \in Requests : Authenticate(r)
    BY <2>2 DEF Authenticate, Arrive, Check, CannotCheck
  <2>3. QED
    BY <2>1, <2>2 DEF ControlNext, control, Tick
<1>3. CASE UNCHANGED keys
  BY <1>3 DEF KeysKnown
<1>4. ASSUME NEW o \in Operators, DeleteWorkspace(o) \/ DeleteKey(o) \/ PruneKeys(o)
      PROVE  /\ \A k \in KeysKnown \cap KeysKnown' : keys'[k].used = keys[k].used
             /\ \A k \in KeysKnown' \ KeysKnown : keys'[k].used = None
  <2>1. \E lost : keys' = Without(keys, lost)
    BY <1>4 DEF DeleteWorkspace, DeleteKey, PruneKeys
  <2>2. QED
    BY <2>1 DEF Without, KeysKnown
<1>5. ASSUME NEW o \in Operators, CreateKey(o)
      PROVE  /\ \A k \in KeysKnown \cap KeysKnown' : keys'[k].used = keys[k].used
             /\ \A k \in KeysKnown' \ KeysKnown : keys'[k].used = None
  <2> DEFINE row == [workspace |-> commands[o].found, secret |-> Cardinality(tokens) + 1,
                     expires |-> Until(commands[o]), revoked |-> None, used |-> None]
  <2>1. \E k \in KeyIds \ KeysKnown : keys' = With(keys, k, row)
    BY <1>5 DEF CreateKey
  <2>2. row.used = None
    OBVIOUS
  <2> HIDE DEF row
  <2>3. QED
    BY <2>1, <2>2 DEF With, KeysKnown
<1>6. ASSUME NEW o \in Operators, ExtendKey(o) \/ RevokeKey(o)
      PROVE  /\ \A k \in KeysKnown \cap KeysKnown' : keys'[k].used = keys[k].used
             /\ \A k \in KeysKnown' \ KeysKnown : keys'[k].used = None
  <2>1. \/ keys' = [keys EXCEPT ![commands[o].key].expires = Until(commands[o])]
        \/ keys' = [keys EXCEPT ![commands[o].key].revoked = IF @ = None THEN commands[o].at ELSE @]
    BY <1>6 DEF ExtendKey, RevokeKey
  <2>2. QED
    BY <1>1, <2>1 DEF KeysKnown, Key
<1>7. QED
  BY <1>2, <1>3, <1>4, <1>5, <1>6

\* A request is let in while the connection is free, and its note is due only when the use it
\* tells of is the later one.
LEMMA NoteIsNewer ==
    ASSUME LastUseEvery > 0, NEW key \in Key, NEW at \in Times, Stale(key, at)
    PROVE  key.used = None \/ key.used =< at
<1>1. key.used \in Nat \cup {None} /\ at \in Nat /\ LastUseEvery \in Nat
  BY ControlAssumption DEF Key, Times
<1>2. QED
  BY <1>1, ControlNoneAssumption DEF Stale

\* One action keeps the notes that wait.
LEMMA StepNotes ==
    ASSUME LastUseEvery > 0, ControlInv, NoteInv, [ControlNext]_control
    PROVE  NoteInv'
<1>0. requests \in [Requests -> RequestRecord] /\ None \notin Nat
  BY ControlNoneAssumption DEF ControlInv, Underway
<1>1. CASE \E r \in Requests : NoteUse(r)
  <2>1. PICK r \in Requests : NoteUse(r)
    BY <1>1
  <2>2. /\ connection = r /\ requests'[r].step = "answered"
        /\ \A s \in Requests \ {r} : requests'[s] = requests[s]
    BY <1>0, <2>1 DEF NoteUse, Answer, RequestRecord
  <2>3. \A s \in Requests : requests'[s].step # "checked"
    BY <2>2 DEF NoteInv
  <2>4. QED
    BY <2>3 DEF NoteInv
<1>2. CASE ~\E r \in Requests : NoteUse(r)
  <2> SUFFICES ASSUME NEW r \in Requests, requests'[r].step = "checked"
               PROVE  /\ connection' = r
                      /\ requests'[r].note /\ requests'[r].token.key \in KeysKnown' =>
                            \/ keys'[requests'[r].token.key].used = None
                            \/ keys'[requests'[r].token.key].used =< requests'[r].at
    BY DEF NoteInv
  <2>1. /\ \A k \in KeysKnown \cap KeysKnown' : keys'[k].used = keys[k].used
        /\ \A k \in KeysKnown' \ KeysKnown : keys'[k].used = None
    BY <1>2, UsesStay
  <2>2. CASE requests'[r] = requests[r] /\ connection' = connection
    BY <2>1, <2>2 DEF NoteInv
  <2>3. CASE Check(r)
    <3>1. requests[r] \in RequestRecord /\ requests[r].step = "timed"
      BY <1>0, <2>3 DEF Check
    <3>2. /\ Matches(requests[r].token) /\ connection' = r
          /\ requests' = [requests EXCEPT ![r].step = "checked",
                             ![r].note = Stale(keys[requests[r].token.key], requests[r].at)]
      BY <1>0, <2>3, <3>1 DEF Check, Answer, RequestRecord
    <3>3. /\ requests'[r].token = requests[r].token /\ requests'[r].at = requests[r].at
          /\ requests'[r].note = Stale(keys[requests[r].token.key], requests[r].at)
      BY <1>0, <3>1, <3>2 DEF RequestRecord
    <3>4. requests[r].token.key \in KeysKnown /\ keys' = keys
      BY <2>3, <3>2 DEF Matches, Check
    <3>5. keys[requests[r].token.key] \in Key /\ requests[r].at \in Times
      BY <3>1, <3>4 DEF ControlInv, ControlTypeOK, RequestRecord
    <3>6. QED
      BY <3>2, <3>3, <3>4, <3>5, NoteIsNewer
  <2>4. ASSUME NEW s \in Requests, Check(s), s # r
        PROVE  requests'[r] = requests[r] /\ connection' = connection
    <3>1. requests'[r] = requests[r] /\ connection = None
      BY <1>0, <2>4 DEF Check, Answer
    <3>2. connection = r
      BY <3>1 DEF NoteInv
    <3>3. QED
      BY <3>1, <3>2, ControlNoneAssumption
  <2>5. ASSUME NEW s \in Requests, Arrive(s) \/ CannotCheck(s)
        PROVE  requests'[r] = requests[r] /\ connection' = connection
    <3>1. connection' = connection
      BY <2>5 DEF Arrive, CannotCheck
    <3>2. CASE s # r
      BY <1>0, <2>5, <3>2 DEF Arrive, CannotCheck, Answer
    <3>3. CASE s = r
      <4>1. CASE Arrive(r)
        <5>1. PICK token \in tokens \cup [key : KeyIds, secret : {NoSecret}] :
                 requests' = [requests EXCEPT ![r] = [Unsent EXCEPT !.step = "timed", !.token = token,
                                                          !.at = now, !.late = token \in dead]]
          BY <4>1 DEF Arrive
        <5>2. requests'[r].step = "timed"
          BY <1>0, <5>1 DEF Unsent
        <5>3. QED
          BY <5>2
      <4>2. CASE CannotCheck(r)
        <5>1. requests'[r].step = "answered"
          BY <1>0, <4>2 DEF CannotCheck, Answer, RequestRecord
        <5>2. QED
          BY <5>1
      <4>3. QED
        BY <2>5, <3>3, <4>1, <4>2
    <3>4. QED
      BY <3>1, <3>2, <3>3
  <2>6. CASE \E o \in Operators : WorkspaceCommand(o) \/ KeyCommand(o) \/ Fail(o)
    <3>1. UNCHANGED <<requests, connection>>
      BY <2>6 DEF WorkspaceCommand, KeyCommand, Fail, BeginCreateWorkspace, BeginDeleteWorkspace,
         BeginCreateKey, BeginChangeKey, BeginPruneKeys, Begin, CreateWorkspace, DeleteWorkspace,
         CreateKey, ExtendKey, RevokeKey, DeleteKey, PruneKeys, ChangeKey, Transact
    <3>2. QED
      BY <2>2, <3>1
  <2>7. CASE Tick \/ UNCHANGED control
    BY <2>2, <2>7 DEF Tick, control
  <2>8. QED
    BY <1>2, <2>2, <2>3, <2>4, <2>5, <2>6, <2>7 DEF ControlNext, Authenticate
<1>3. QED
  BY <1>1, <1>2

\* When a key was last used never goes back, though requests read the clock before they queue for
\* the connection and commands change the row meanwhile (authenticate).  A note is written at
\* most every so often; with no time between two of them at all it could go back.
THEOREM LastUseGoesForward ==
    ASSUME LastUseEvery > 0
    PROVE  ControlSpec => LastUseNeverGoesBack
<1>1. ControlInit => NoteInv
  BY DEF ControlInit, NoteInv, Unsent
<1>2. ControlInv /\ NoteInv /\ [ControlNext]_control => NoteInv'
  BY StepNotes
<1>3. ControlInv /\ NoteInv /\ [ControlNext]_control =>
         [\A k \in KeysKnown \cap DOMAIN keys' :
             keys[k].used # None /\ keys[k].secret = keys'[k].secret
                => keys'[k].used >= keys[k].used]_control
  <2> SUFFICES ASSUME ControlInv, NoteInv, [ControlNext]_control,
                      NEW k \in KeysKnown \cap DOMAIN keys', keys[k].used # None
               PROVE  keys'[k].used >= keys[k].used
    OBVIOUS
  <2>1. keys[k] \in Key /\ keys[k].used \in Nat
    BY ControlAssumption DEF ControlInv, ControlTypeOK, Key, Times
  <2>2. CASE ~\E r \in Requests : NoteUse(r)
    BY <2>1, <2>2, UsesStay DEF KeysKnown
  <2>3. ASSUME NEW r \in Requests, NoteUse(r) PROVE keys'[k].used >= keys[k].used
    <3>1. CASE UNCHANGED keys
      BY <2>1, <3>1
    <3>2. CASE /\ requests[r].note /\ requests[r].token.key \in KeysKnown
               /\ keys' = [keys EXCEPT ![requests[r].token.key].used = requests[r].at]
      <4>1. requests[r].at \in Nat
        BY ControlAssumption DEF ControlInv, Underway, RequestRecord, Times
      <4>2. CASE k = requests[r].token.key
        <5>1. keys[k].used =< requests[r].at
          BY <2>3, <3>2, <4>2 DEF NoteInv, NoteUse
        <5>2. keys'[k].used = requests[r].at
          BY <2>1, <3>2, <4>2 DEF Key, KeysKnown
        <5>3. QED
          BY <2>1, <4>1, <5>1, <5>2
      <4>3. CASE k # requests[r].token.key
        BY <2>1, <3>2, <4>3 DEF KeysKnown
      <4>4. QED
        BY <4>2, <4>3
    <3>3. QED
      BY <2>3, <3>1, <3>2 DEF NoteUse
  <2>4. QED
    BY <2>2, <2>3
<1>4. QED
  BY <1>1, <1>2, <1>3, ControlStays, PTL DEF ControlSpec, LastUseNeverGoesBack

-----------------------------------------------------------------------------
(* The workspaces of a host. *)

ErrandRecord ==
    [do : {None, "create", "show", "delete", "check"},
     step : {"start", "made", "confirmed", "deleting", "deleted", "listed", "opening", "told"},
     name : Names \cup {None}, id : Ids \cup {None},
     force : BOOLEAN, seen : SUBSET Ids, left : SUBSET Ids]

OpeningRecord == [step : {"closed", "found", "shelf", "row"}, id : Ids \cup {None}]

NamedIn(id, rows) == id \in DOMAIN rows /\ rows[id] # None

\* The workspace a deletion found first has the name it was found by, as long as it has
\* one; the name then leads to it again; and it has none once the rows are deleted.
Deleting(errand, command, rows) ==
    /\ errand.step \in {"start", "confirmed"} /\ NamedIn(errand.id, rows) =>
          rows[errand.id] = errand.name
    /\ errand.step = "deleting" /\ NamedIn(errand.id, rows) => command.found = errand.id
    /\ errand.step = "deleted" => ~NamedIn(errand.id, rows)

ErrandOK(errand, command, rows, made) ==
    /\ errand \in ErrandRecord
    /\ errand.left \subseteq made
    /\ errand.do = "delete" \/ (errand.do = "create" /\ errand.step = "made") => errand.id \in made
    /\ errand.do = "delete" => Deleting(errand, command, rows)
    /\ command.do = "delete workspace" => command.found \in made

\* Directories, engines and sessions are of workspaces that were made; so is what a process
\* opens.
HostOK ==
    /\ dirs \subseteq minted /\ cached \subseteq minted /\ sessions \subseteq Workspaces
    /\ gone \subseteq minted /\ kills \in 0 .. MaxKills
    /\ opening \in [Processes -> OpeningRecord]
    /\ \A p \in Processes : opening[p].step # "closed" => opening[p].id \in minted

Errands ==
    /\ errands \in [Operators -> ErrandRecord]
    /\ \A o \in Operators : ErrandOK(errands[o], commands[o], workspaces, minted)

RegistryInv == ControlInv /\ HostOK /\ Errands

\* Workspaces that were made before have the name they had, or none.
NamesKept ==
    /\ minted \subseteq minted'
    /\ \A id \in minted : NamedIn(id, workspaces') =>
          NamedIn(id, workspaces) /\ workspaces'[id] = workspaces[id]

\* What a process goes by is not disturbed by what others do to the rows.
LEMMA ErrandStays ==
    ASSUME NamesKept, NEW errand, NEW command, ErrandOK(errand, command, workspaces, minted)
    PROVE  ErrandOK(errand, command, workspaces', minted')
<1>1. errand.do = "delete" => Deleting(errand, command, workspaces')
  BY DEF ErrandOK, Deleting, NamesKept
<1>2. QED
  BY <1>1 DEF ErrandOK, NamesKept

\* A step in which the commands stay where they are.
LEMMA NoErrandMoves ==
    ASSUME Errands, NamesKept, errands' = errands, commands' = commands
    PROVE  Errands'
  BY ErrandStays DEF Errands

\* A step of one command.
LEMMA OneErrandMoves ==
    ASSUME Errands, ControlInv, NamesKept, NEW o \in Operators, NEW errand, NEW command,
           errands' = [errands EXCEPT ![o] = errand], commands' = [commands EXCEPT ![o] = command],
           ErrandOK(errand, command, workspaces', minted')
    PROVE  Errands'
<1>1. errand \in ErrandRecord
  BY DEF ErrandOK
<1>2. errands \in [Operators -> ErrandRecord] /\ commands \in [Operators -> CommandRecord]
  BY DEF Errands, ControlInv, Underway
<1>3. errands' \in [Operators -> ErrandRecord]
  BY <1>1, <1>2
<1>4. ASSUME NEW x \in Operators
      PROVE  ErrandOK(errands'[x], commands'[x], workspaces', minted')
  <2>1. CASE x = o
    BY <1>2, <2>1
  <2>2. CASE x # o
    <3>1. errands'[x] = errands[x] /\ commands'[x] = commands[x]
      BY <1>2, <2>2
    <3>2. ErrandOK(errands[x], commands[x], workspaces, minted)
      BY DEF Errands
    <3>3. QED
      BY <3>1, <3>2, ErrandStays
  <2>3. QED
    BY <2>1, <2>2
<1>5. QED
  BY <1>3, <1>4 DEF Errands

\* Rows that are left alone.
LEMMA RowsLeftAlone ==
    ASSUME UNCHANGED <<workspaces, minted>>
    PROVE  NamesKept /\ Workspaces' = Workspaces
  BY DEF NamesKept, Workspaces

\* What is finished, given up or killed has left nothing to go by.
LEMMA FinishSafe ==
    ASSUME RegistryInv, NamesKept, NEW o \in Operators, Finish(o),
           commands' = commands \/ commands' = [commands EXCEPT ![o] = Idle]
    PROVE  Errands'
<1>0. commands \in [Operators -> CommandRecord] /\ ErrandOK(errands[o], commands[o], workspaces, minted)
  BY DEF RegistryInv, Errands, ControlInv, Underway
<1>1. NoErrand \in ErrandRecord /\ NoErrand.do = None /\ NoErrand.left = {}
  BY DEF NoErrand, ErrandRecord
<1>2. None # "delete" /\ None # "create" /\ Idle.do = "idle"
  BY RegistryAssumption DEF Idle
<1>3. CASE commands' = commands
  <2>1. ErrandOK(NoErrand, commands[o], workspaces', minted')
    BY <1>0, <1>1, <1>2 DEF ErrandOK, NamesKept
  <2>2. commands' = [commands EXCEPT ![o] = commands[o]]
    BY <1>0, <1>3
  <2>3. QED
    BY <2>1, <2>2, OneErrandMoves DEF Finish, RegistryInv
<1>4. CASE commands' = [commands EXCEPT ![o] = Idle]
  <2>1. ErrandOK(NoErrand, Idle, workspaces', minted')
    BY <1>1, <1>2 DEF ErrandOK
  <2>2. QED
    BY <1>4, <2>1, OneErrandMoves DEF Finish, RegistryInv
<1>5. QED
  BY <1>3, <1>4

\* An engine is opened step by step: the directory, and then the row, are made of a
\* workspace that was made before (FsShelf::open, ledger.create).
LEMMA OpenShelfSafe ==
    ASSUME RegistryInv, NEW p \in Processes, OpenShelf(p)
    PROVE  RegistryInv'
<1>1. /\ opening[p].step = "found" /\ dirs' = dirs \cup {opening[p].id}
      /\ opening' = [opening EXCEPT ![p].step = "shelf"]
      /\ UNCHANGED <<control, cached, sessions, errands, gone, kills>>
  BY DEF OpenShelf
<1>2. UNCHANGED <<workspaces, keys, audit, now, commands, requests, connection, minted, tokens, dead>>
  BY <1>1 DEF control
<1>3. NamesKept /\ Workspaces' = Workspaces
  BY <1>2, RowsLeftAlone
<1>4. ControlInv'
  <2>1. [ControlNext]_control
    BY <1>1
  <2>2. QED
    BY <2>1, StepControl DEF RegistryInv
<1>5. HostOK'
  BY <1>1, <1>2, <1>3 DEF RegistryInv, HostOK, OpeningRecord
<1>6. Errands'
  BY <1>1, <1>2, <1>3, NoErrandMoves DEF RegistryInv
<1>7. QED
  BY <1>4, <1>5, <1>6 DEF RegistryInv

\* The opening records its workspace, if no row of it is there (Engines::get).
LEMMA CreateRowSafe ==
    ASSUME RegistryInv, NEW p \in Processes, CreateRow(p)
    PROVE  RegistryInv'
<1> DEFINE id == opening[p].id
<1>1. /\ opening[p].step = "shelf" /\ opening' = [opening EXCEPT ![p].step = "row"]
      /\ workspaces' = IF id \in Workspaces THEN workspaces ELSE With(workspaces, id, None)
      /\ UNCHANGED <<keys, audit, now, commands, requests, connection, minted, tokens, dead>>
      /\ UNCHANGED <<dirs, cached, sessions, errands, gone, kills>>
  BY DEF CreateRow
<1>2. id \in minted
  BY <1>1 DEF RegistryInv, HostOK
<1>3. /\ Workspaces' = Workspaces \cup {id}
      /\ \A w \in Workspaces : workspaces'[w] = workspaces[w]
      /\ \A w \in Workspaces' : w \notin Workspaces => workspaces'[w] = None
  BY <1>1 DEF Workspaces, With
<1>4. NamesKept
  BY <1>1, <1>3 DEF NamesKept, NamedIn, Workspaces
<1>5. KeysKnown' = KeysKnown
  BY <1>1 DEF KeysKnown
<1> HIDE DEF id
<1>6. ControlInv'
  <2>1. /\ Workspaces' \subseteq minted' /\ minted' \subseteq Ids
        /\ \A w \in Workspaces' : workspaces'[w] \in Names \cup {None}
    BY <1>1, <1>2, <1>3 DEF RegistryInv, ControlInv, ControlTypeOK
  <2>2. \A a, b \in Workspaces' : workspaces'[a] = workspaces'[b] /\ workspaces'[a] # None => a = b
    BY <1>3 DEF RegistryInv, ControlInv, ControlTypeOK
  <2>3. ControlTypeOK'
    BY <1>1, <1>3, <1>5, <2>1, <2>2 DEF RegistryInv, ControlInv, ControlTypeOK
  <2>4. Underway' /\ LateRefused'
    BY <1>1 DEF RegistryInv, ControlInv, Underway, LateRefused
  <2>5. HandedOut' /\ DeadRefused'
    BY <1>1, <1>5 DEF RegistryInv, ControlInv, HandedOut, DeadRefused, TokensOf, Matches
  <2>6. QED
    BY <2>3, <2>4, <2>5 DEF ControlInv
<1>7. HostOK'
  BY <1>1, <1>3 DEF RegistryInv, HostOK, OpeningRecord
<1>8. Errands'
  BY <1>1, <1>4, NoErrandMoves DEF RegistryInv
<1>9. QED
  BY <1>6, <1>7, <1>8 DEF RegistryInv

\* A step that leaves the database alone.
LEMMA DatabaseLeftAlone ==
    ASSUME RegistryInv, UNCHANGED control
    PROVE  /\ ControlInv' /\ NamesKept /\ Workspaces' = Workspaces
           /\ UNCHANGED <<workspaces, commands, minted, now>>
<1>1. UNCHANGED <<workspaces, commands, minted, now>>
  BY DEF control
<1>2. NamesKept /\ Workspaces' = Workspaces
  BY <1>1, RowsLeftAlone
<1>3. ControlInv'
  BY StepControl DEF RegistryInv
<1>4. QED
  BY <1>1, <1>2, <1>3

\* A process opens what is closed, or closes it.
LEMMA OpeningTypes ==
    ASSUME HostOK, NEW p \in Processes, minted \subseteq Ids, minted \subseteq minted',
           opening' = [opening EXCEPT ![p] = Closed] \/ \E id \in minted : Open(p, id)
    PROVE  /\ opening' \in [Processes -> OpeningRecord]
           /\ \A x \in Processes : opening'[x].step # "closed" => opening'[x].id \in minted'
<1>0. opening \in [Processes -> OpeningRecord]
  BY DEF HostOK
<1>1. CASE opening' = [opening EXCEPT ![p] = Closed]
  <2>1. Closed \in OpeningRecord /\ Closed.step = "closed"
    BY DEF Closed, OpeningRecord
  <2>2. QED
    BY <1>0, <1>1, <2>1 DEF HostOK
<1>2. CASE \E id \in minted : Open(p, id)
  <2>1. PICK id \in minted : opening' = [opening EXCEPT ![p] = [step |-> "found", id |-> id]]
    BY <1>2 DEF Open
  <2> DEFINE record == [step |-> "found", id |-> id]
  <2>2. record \in OpeningRecord /\ record.id = id
    BY DEF OpeningRecord
  <2>3. opening' = [opening EXCEPT ![p] = record]
    BY <2>1
  <2> HIDE DEF record
  <2>4. QED
    BY <1>0, <2>2, <2>3 DEF HostOK
<1>3. QED
  BY <1>1, <1>2

\* The server keeps open what it found (Engines::get).
LEMMA ServerSafe ==
    ASSUME RegistryInv, Serve \/ RestartServer
    PROVE  RegistryInv'
<1>0. Server \in Processes
  BY DEF Processes
<1>1. UNCHANGED control
  BY DEF Serve, RestartServer, GotEngine, Reconcile, Get, BeginSession, EndSession
<1>2. /\ ControlInv' /\ NamesKept /\ Workspaces' = Workspaces
      /\ UNCHANGED <<workspaces, commands, minted, now>>
  BY <1>1, DatabaseLeftAlone
<1>3. Workspaces \subseteq minted /\ minted \subseteq Ids
  BY DEF RegistryInv, ControlInv, ControlTypeOK
<1>4. errands' = errands
  BY DEF Serve, RestartServer, GotEngine, Reconcile, Get, BeginSession, EndSession
<1>5. Errands'
  BY <1>2, <1>4, NoErrandMoves DEF RegistryInv
<1>6. HostOK'
  <2>1. CASE \E id \in Ids : Get(id)
    <3>1. PICK id \in Workspaces : Open(Server, id) /\ UNCHANGED <<dirs, cached, sessions, gone, kills>>
      BY <2>1 DEF Get
    <3>2. /\ opening' \in [Processes -> OpeningRecord]
          /\ \A x \in Processes : opening'[x].step # "closed" => opening'[x].id \in minted'
      BY <1>0, <1>2, <1>3, <3>1, OpeningTypes DEF RegistryInv
    <3>3. QED
      BY <1>2, <3>1, <3>2 DEF RegistryInv, HostOK
  <2>2. CASE GotEngine
    <3>1. /\ opening[Server].step = "row" /\ opening' = [opening EXCEPT ![Server] = Closed]
          /\ cached' = cached \cup {opening[Server].id} \/ cached' = cached
          /\ UNCHANGED <<dirs, sessions, gone, kills>>
      BY <2>2 DEF GotEngine, Reconcile
    <3>2. /\ opening' \in [Processes -> OpeningRecord]
          /\ \A x \in Processes : opening'[x].step # "closed" => opening'[x].id \in minted'
      BY <1>0, <1>2, <1>3, <3>1, OpeningTypes DEF RegistryInv
    <3>3. opening[Server].id \in minted
      BY <1>0, <3>1 DEF RegistryInv, HostOK
    <3>4. QED
      BY <1>2, <3>1, <3>2, <3>3 DEF RegistryInv, HostOK
  <2>3. CASE \E id \in Ids : BeginSession(id) \/ EndSession(id)
    BY <1>2, <2>3 DEF RegistryInv, HostOK, BeginSession, EndSession
  <2>4. CASE RestartServer
    <3>1. /\ opening' \in [Processes -> OpeningRecord]
          /\ \A x \in Processes : opening'[x].step # "closed" => opening'[x].id \in minted'
      BY <1>0, <1>2, <1>3, <2>4, OpeningTypes DEF RegistryInv, RestartServer
    <3>2. kills' \in 0 .. MaxKills
      BY <2>4, RegistryAssumption DEF RegistryInv, HostOK, RestartServer
    <3>3. QED
      BY <1>2, <2>4, <3>1, <3>2 DEF RegistryInv, HostOK, RestartServer
  <2>5. QED
    BY <2>1, <2>2, <2>3, <2>4 DEF Serve
<1>7. QED
  BY <1>2, <1>5, <1>6 DEF RegistryInv

\* Where a command is, when only its step changes.
LEMMA StepTypes ==
    ASSUME NEW errand \in ErrandRecord, NEW step \in
               {"start", "made", "confirmed", "deleting", "deleted", "listed", "opening", "told"}
    PROVE  LET next == [errand EXCEPT !.step = step]
           IN  /\ next \in ErrandRecord /\ next.do = errand.do /\ next.step = step
               /\ next.id = errand.id /\ next.name = errand.name /\ next.left = errand.left
  BY DEF ErrandRecord

\* A workspace is made: its row, and then its directory (workspace create).
LEMMA CreateErrandSafe ==
    ASSUME RegistryInv, NEW o \in Operators, StartCreate(o) \/ CreatedRow(o) \/ PrivateDir(o)
    PROVE  RegistryInv'
<1>0. /\ errands[o] \in ErrandRecord /\ commands[o] \in CommandRecord
      /\ errands \in [Operators -> ErrandRecord] /\ commands \in [Operators -> CommandRecord]
      /\ ErrandOK(errands[o], commands[o], workspaces, minted)
  BY DEF RegistryInv, Errands, ControlInv, Underway
<1>1. CASE StartCreate(o)
  <2>1. PICK name \in Names :
           /\ commands' = [commands EXCEPT ![o] = [Idle EXCEPT !.do = "create workspace",
                                                       !.at = now, !.name = name]]
           /\ UNCHANGED <<workspaces, keys, audit, now, requests, connection, minted, tokens, dead>>
    BY <1>1 DEF StartCreate, BeginCreateWorkspace, Begin
  <2>2. /\ errands[o] = NoErrand /\ errands' = [errands EXCEPT ![o].do = "create"]
        /\ UNCHANGED <<dirs, cached, sessions, opening, gone, kills>> /\ BeginCreateWorkspace(o)
    BY <1>1 DEF StartCreate, Start
  <2>3. NamesKept /\ Workspaces' = Workspaces
    BY <2>1, RowsLeftAlone
  <2>4. ControlInv'
    BY <2>2, BeginsSafe DEF RegistryInv
  <2>5. HostOK'
    BY <2>1, <2>2, <2>3 DEF RegistryInv, HostOK
  <2> DEFINE errand == [errands[o] EXCEPT !.do = "create"]
             command == [Idle EXCEPT !.do = "create workspace", !.at = now, !.name = name]
  <2>6. command.do = "create workspace"
    BY IdleIsARecord DEF CommandRecord
  <2>7. errand \in ErrandRecord /\ errand.do = "create" /\ errand.step = "start" /\ errand.left = {}
    <3>1. NoErrand \in ErrandRecord /\ NoErrand.step = "start" /\ NoErrand.left = {}
      BY DEF NoErrand, ErrandRecord
    <3>2. QED
      BY <2>2, <3>1 DEF ErrandRecord
  <2>8. errands' = [errands EXCEPT ![o] = errand] /\ commands' = [commands EXCEPT ![o] = command]
    BY <2>1, <2>2
  <2> HIDE DEF errand, command
  <2>9. ErrandOK(errand, command, workspaces', minted')
    BY <2>6, <2>7 DEF ErrandOK
  <2>10. Errands'
    BY <2>3, <2>8, <2>9, OneErrandMoves DEF RegistryInv
  <2>11. QED
    BY <2>4, <2>5, <2>10 DEF RegistryInv
<1>2. CASE CreatedRow(o)
  <2>1. PICK id \in Ids \ minted : /\ workspaces' = With(workspaces, id, commands[o].name)
                                   /\ minted' = minted \cup {id}
    BY <1>2 DEF CreatedRow, CreateWorkspace
  <2>2. PICK made \in DOMAIN workspaces' \ Workspaces :
           errands' = [errands EXCEPT ![o].step = "made", ![o].id = made]
    BY <1>2 DEF CreatedRow
  <2>3. /\ commands' = [commands EXCEPT ![o] = Idle] /\ errands[o].do = "create"
        /\ UNCHANGED <<dirs, cached, sessions, opening, gone, kills>> /\ CreateWorkspace(o)
    BY <1>2 DEF CreatedRow, CreateWorkspace, Transact, Going
  <2>4. Workspaces' = Workspaces \cup {id} /\ made = id /\ Workspaces \subseteq minted
        /\ \A w \in Workspaces : workspaces'[w] = workspaces[w]
    BY <2>1, <2>2 DEF With, Workspaces, RegistryInv, ControlInv, ControlTypeOK
  <2>5. NamesKept
    BY <2>1, <2>4 DEF NamesKept, NamedIn, Workspaces
  <2>6. ControlInv'
    BY <2>3, CreateWorkspaceSafe DEF RegistryInv
  <2>7. HostOK'
    BY <2>1, <2>3, <2>4 DEF RegistryInv, HostOK
  <2> DEFINE errand == [errands[o] EXCEPT !.step = "made", !.id = made]
  <2>8. /\ errand \in ErrandRecord /\ errand.do = "create" /\ errand.id = made
        /\ errand.left = errands[o].left
    BY <1>0, <2>1, <2>3, <2>4 DEF ErrandRecord
  <2>9. errands' = [errands EXCEPT ![o] = errand]
    BY <2>2
  <2> HIDE DEF errand
  <2>10. Idle.do = "idle"
    BY DEF Idle
  <2>11. ErrandOK(errand, Idle, workspaces', minted')
    BY <1>0, <2>1, <2>4, <2>8, <2>10 DEF ErrandOK
  <2>12. Errands'
    BY <2>3, <2>5, <2>9, <2>11, OneErrandMoves DEF RegistryInv
  <2>13. QED
    BY <2>6, <2>7, <2>12 DEF RegistryInv
<1>3. CASE PrivateDir(o)
  <2>1. /\ errands[o].do = "create" /\ errands[o].step = "made" /\ dirs' = dirs \cup {errands[o].id}
        /\ Finish(o) /\ UNCHANGED <<control, cached, sessions, opening, gone, kills>>
    BY <1>3 DEF PrivateDir, Going
  <2>2. /\ ControlInv' /\ NamesKept /\ Workspaces' = Workspaces
        /\ UNCHANGED <<workspaces, commands, minted, now>>
    BY <2>1, DatabaseLeftAlone
  <2>3. errands[o].id \in minted
    BY <1>0, <2>1 DEF ErrandOK
  <2>4. HostOK'
    BY <2>1, <2>2, <2>3 DEF RegistryInv, HostOK
  <2>5. Errands'
    BY <2>1, <2>2, FinishSafe
  <2>6. QED
    BY <2>2, <2>4, <2>5 DEF RegistryInv
<1>4. QED
  BY <1>1, <1>2, <1>3

\* A step of one command that leaves the database alone.
LEMMA ErrandAlone ==
    ASSUME RegistryInv, UNCHANGED control, NEW o \in Operators, NEW errand,
           errands' = [errands EXCEPT ![o] = errand],
           ErrandOK(errand, commands[o], workspaces, minted)
    PROVE  Errands'
<1>1. NamesKept /\ UNCHANGED <<workspaces, commands, minted, now>>
  BY DatabaseLeftAlone
<1>2. commands \in [Operators -> CommandRecord]
  BY DEF RegistryInv, ControlInv, Underway
<1>3. commands' = [commands EXCEPT ![o] = commands[o]]
  BY <1>1, <1>2
<1>4. ErrandOK(errand, commands[o], workspaces', minted')
  BY <1>1
<1>5. QED
  BY <1>1, <1>3, <1>4, OneErrandMoves DEF RegistryInv

\* A workspace is opened for a command (workspace show, delete, check), or closed again.
LEMMA OpensSafe ==
    ASSUME RegistryInv, UNCHANGED control, NEW o \in Operators,
           opening' = [opening EXCEPT ![o] = Closed] \/ \E id \in minted : Open(o, id),
           sessions' \subseteq sessions, UNCHANGED <<dirs, cached, gone, kills>>
    PROVE  HostOK'
<1>1. Workspaces' = Workspaces /\ minted' = minted
  BY DatabaseLeftAlone
<1>2. minted \subseteq Ids /\ o \in Processes
  BY DEF RegistryInv, ControlInv, ControlTypeOK, Processes
<1>3. /\ opening' \in [Processes -> OpeningRecord]
      /\ \A x \in Processes : opening'[x].step # "closed" => opening'[x].id \in minted'
  BY <1>1, <1>2, OpeningTypes DEF RegistryInv
<1>4. QED
  BY <1>1, <1>3 DEF RegistryInv, HostOK

\* The operator's `workspace show` opens the workspace it found, and reports.
LEMMA ShowErrandSafe ==
    ASSUME RegistryInv, NEW o \in Operators, StartShow(o) \/ Shown(o)
    PROVE  RegistryInv'
<1>0. /\ errands[o] \in ErrandRecord /\ ErrandOK(errands[o], commands[o], workspaces, minted)
      /\ Workspaces \subseteq minted /\ minted \subseteq Ids
  BY DEF RegistryInv, Errands, ControlInv, ControlTypeOK
<1>1. UNCHANGED control
  BY DEF StartShow, Shown, Reconcile
<1>2. ControlInv' /\ NamesKept /\ commands' = commands
  BY <1>1, DatabaseLeftAlone
<1>3. CASE StartShow(o)
  <2>1. PICK id \in Workspaces : /\ Open(o, id)
                                 /\ errands' = [errands EXCEPT ![o].do = "show", ![o].id = id]
    BY <1>3 DEF StartShow, FindWorkspace
  <2>2. UNCHANGED <<dirs, cached, sessions, gone, kills>>
    BY <1>3 DEF StartShow
  <2>3. HostOK'
    BY <1>0, <1>1, <2>1, <2>2, OpensSafe
  <2> DEFINE errand == [errands[o] EXCEPT !.do = "show", !.id = id]
  <2>4. /\ errand \in ErrandRecord /\ errand.do = "show" /\ errand.left = errands[o].left
    BY <1>0 DEF ErrandRecord
  <2>5. errands' = [errands EXCEPT ![o] = errand]
    BY <2>1
  <2> HIDE DEF errand
  <2>6. ErrandOK(errand, commands[o], workspaces, minted)
    BY <1>0, <2>4 DEF ErrandOK
  <2>7. Errands'
    BY <1>1, <2>5, <2>6, ErrandAlone
  <2>8. QED
    BY <1>2, <2>3, <2>7 DEF RegistryInv
<1>4. CASE Shown(o)
  <2>1. /\ opening' = [opening EXCEPT ![o] = Closed] /\ UNCHANGED <<dirs, gone, kills>>
        /\ cached' = cached /\ sessions' \subseteq sessions
        /\ Finish(o) \/ errands' = errands
    BY <1>4 DEF Shown, Reconcile
  <2>2. HostOK'
    BY <1>1, <2>1, OpensSafe
  <2>3. Errands'
    BY <1>2, <2>1, FinishSafe, NoErrandMoves DEF RegistryInv
  <2>4. QED
    BY <1>2, <2>2, <2>3 DEF RegistryInv
<1>5. QED
  BY <1>3, <1>4

\* A workspace is found by its name and opened, its rows are deleted by the id the name has
\* then, and its directory goes last (workspace delete).
LEMMA DeleteErrandSafe ==
    ASSUME RegistryInv, NEW o \in Operators,
           StartDelete(o) \/ MayDelete(o) \/ DeleteByName(o) \/ DeletedRows(o) \/ RemoveDir(o)
    PROVE  RegistryInv'
<1>0. /\ errands[o] \in ErrandRecord /\ ErrandOK(errands[o], commands[o], workspaces, minted)
      /\ Workspaces \subseteq minted /\ minted \subseteq Ids
      /\ commands[o] \in CommandRecord /\ commands \in [Operators -> CommandRecord]
      /\ \A a, b \in Workspaces : workspaces[a] = workspaces[b] /\ workspaces[a] # None => a = b
  BY DEF RegistryInv, Errands, ControlInv, ControlTypeOK, Underway
<1>1. CASE StartDelete(o)
  <2>1. PICK name \in Names, force \in BOOLEAN : \E id \in FindWorkspace(name) :
           /\ Open(o, id)
           /\ errands' = [errands EXCEPT ![o] = [NoErrand EXCEPT !.do = "delete", !.name = name,
                                                                 !.id = id, !.force = force]]
    BY <1>1 DEF StartDelete
  <2>2. PICK id \in FindWorkspace(name) :
           /\ Open(o, id)
           /\ errands' = [errands EXCEPT ![o] = [NoErrand EXCEPT !.do = "delete", !.name = name,
                                                                 !.id = id, !.force = force]]
    BY <2>1
  <2>3. UNCHANGED <<control, dirs, cached, sessions, gone, kills>>
    BY <1>1 DEF StartDelete
  <2>4. id \in Workspaces /\ workspaces[id] = name /\ id \in minted
    BY <1>0 DEF FindWorkspace
  <2>5. HostOK'
    BY <2>2, <2>3, <2>4, OpensSafe
  <2> DEFINE errand == [NoErrand EXCEPT !.do = "delete", !.name = name, !.id = id, !.force = force]
  <2>6. /\ errand \in ErrandRecord /\ errand.do = "delete" /\ errand.left = {} /\ errand.id = id
        /\ errand.name = name /\ errand.step = "start"
    <3>1. NoErrand \in ErrandRecord /\ NoErrand.step = "start" /\ NoErrand.left = {}
      BY DEF NoErrand, ErrandRecord
    <3>2. QED
      BY <1>0, <2>1, <2>4, <3>1 DEF ErrandRecord
  <2>7. errands' = [errands EXCEPT ![o] = errand]
    BY <2>2
  <2> HIDE DEF errand
  <2>8. ErrandOK(errand, commands[o], workspaces, minted)
    BY <1>0, <2>4, <2>6 DEF ErrandOK, Deleting
  <2>9. Errands'
    BY <2>3, <2>7, <2>8, ErrandAlone
  <2>10. QED
    BY <2>3, <2>5, <2>9, DatabaseLeftAlone DEF RegistryInv
<1>2. CASE MayDelete(o)
  <2>1. /\ errands[o].do = "delete" /\ errands[o].step = "start"
        /\ opening' = [opening EXCEPT ![o] = Closed]
        /\ UNCHANGED <<control, dirs, gone, kills>> /\ UNCHANGED <<cached, sessions>>
        /\ Finish(o) \/ Step(o, "confirmed") \/ errands' = errands
    BY <1>2 DEF MayDelete, Reconcile, Going
  <2>2. ControlInv' /\ NamesKept /\ commands' = commands
    BY <2>1, DatabaseLeftAlone
  <2>3. HostOK'
    BY <2>1, OpensSafe
  <2>4. CASE Step(o, "confirmed")
    <3> DEFINE errand == [errands[o] EXCEPT !.step = "confirmed"]
    <3>1. /\ errand \in ErrandRecord /\ errand.do = errands[o].do /\ errand.step = "confirmed"
          /\ errand.id = errands[o].id /\ errand.name = errands[o].name /\ errand.left = errands[o].left
      BY <1>0, StepTypes
    <3>2. errands' = [errands EXCEPT ![o] = errand]
      BY <2>4 DEF Step
    <3> HIDE DEF errand
    <3>3. ErrandOK(errand, commands[o], workspaces, minted)
      BY <1>0, <2>1, <3>1 DEF ErrandOK, Deleting
    <3>4. Errands'
      BY <2>1, <3>2, <3>3, ErrandAlone
    <3>5. QED
      BY <2>2, <2>3, <3>4 DEF RegistryInv
  <2>5. CASE Finish(o) \/ errands' = errands
    <3>1. Errands'
      BY <2>2, <2>5, FinishSafe, NoErrandMoves DEF RegistryInv
    <3>2. QED
      BY <2>2, <2>3, <3>1 DEF RegistryInv
  <2>6. QED
    BY <2>1, <2>4, <2>5
<1>3. CASE DeleteByName(o)
  <2>1. /\ errands[o].do = "delete" /\ errands[o].step = "confirmed"
        /\ BeginDeleteWorkspace(o, errands[o].name) /\ Step(o, "deleting")
        /\ UNCHANGED <<dirs, cached, sessions, opening, gone, kills>>
    BY <1>3 DEF DeleteByName, Going
  <2> DEFINE name == errands[o].name
  <2>2. PICK id \in FindWorkspace(name) :
           Begin(o, [Idle EXCEPT !.do = "delete workspace", !.at = now, !.name = name, !.found = id])
    BY <2>1 DEF BeginDeleteWorkspace
  <2> DEFINE command == [Idle EXCEPT !.do = "delete workspace", !.at = now, !.name = name, !.found = id]
             errand == [errands[o] EXCEPT !.step = "deleting"]
  <2>3. /\ commands' = [commands EXCEPT ![o] = command]
        /\ UNCHANGED <<workspaces, keys, audit, now, requests, connection, minted, tokens, dead>>
    BY <2>2 DEF Begin
  <2>4. id \in Workspaces /\ workspaces[id] = name /\ id \in minted
    BY <1>0 DEF FindWorkspace
  <2>5. command \in CommandRecord /\ command.found = id /\ command.at = now
    <3>1. Idle \in CommandRecord
      BY IdleIsARecord
    <3>2. name \in Names \cup {None} /\ now \in Times /\ id \in Ids
      BY <1>0, <2>4, ControlAssumption DEF ErrandRecord, RegistryInv, ControlInv, ControlTypeOK, Times
    <3> HIDE DEF name
    <3>3. QED
      BY <3>1, <3>2 DEF CommandRecord, Doings
  <2>6. /\ errand \in ErrandRecord /\ errand.do = errands[o].do /\ errand.step = "deleting"
        /\ errand.id = errands[o].id /\ errand.name = errands[o].name /\ errand.left = errands[o].left
    BY <1>0, StepTypes
  <2>7. errands' = [errands EXCEPT ![o] = errand]
    BY <2>1 DEF Step
  <2> HIDE DEF errand, command
  <2>8. NamesKept /\ Workspaces' = Workspaces
    BY <2>3, RowsLeftAlone
  <2>9. ControlInv'
    <3>1. now =< now
      BY DEF RegistryInv, ControlInv, ControlTypeOK
    <3>2. QED
      BY <2>3, <2>5, <3>1, BeginSafe DEF RegistryInv
  <2>10. HostOK'
    BY <2>1, <2>3, <2>8 DEF RegistryInv, HostOK
  <2>11. Deleting(errand, command, workspaces)
    <3>1. NamedIn(errands[o].id, workspaces) => errands[o].id = id
      BY <1>0, <2>1, <2>4 DEF ErrandOK, Deleting, NamedIn, Workspaces
    <3>2. QED
      BY <2>5, <2>6, <3>1 DEF Deleting
  <2>12. ErrandOK(errand, command, workspaces', minted')
    BY <1>0, <2>1, <2>3, <2>4, <2>5, <2>6, <2>11 DEF ErrandOK
  <2>13. Errands'
    BY <2>3, <2>7, <2>8, <2>12, OneErrandMoves DEF RegistryInv
  <2>14. QED
    BY <2>9, <2>10, <2>13 DEF RegistryInv
<1>4. CASE DeletedRows(o)
  <2> DEFINE id == commands[o].found
             errand == [errands[o] EXCEPT !.step = "deleted"]
  <2>1. /\ errands[o].do = "delete" /\ errands[o].step = "deleting"
        /\ DeleteWorkspace(o) /\ Step(o, "deleted") /\ sessions' = sessions \ {id}
        /\ gone' = gone \cup {id} /\ UNCHANGED <<dirs, cached, opening, kills>>
    BY <1>4 DEF DeletedRows, Going
  <2>2. /\ workspaces' = Without(workspaces, {id}) /\ minted' = minted
        /\ commands' = [commands EXCEPT ![o] = Idle] /\ commands[o].do = "delete workspace"
    BY <2>1 DEF DeleteWorkspace, Transact
  <2>3. Workspaces' = Workspaces \ {id} /\ \A w \in Workspaces' : workspaces'[w] = workspaces[w]
    BY <2>2 DEF Workspaces, Without
  <2>4. NamesKept
    BY <2>2, <2>3 DEF NamesKept, NamedIn, Workspaces
  <2>5. id \in minted
    BY <1>0, <2>2 DEF ErrandOK
  <2>6. ControlInv'
    BY <2>1, DeleteWorkspaceSafe DEF RegistryInv
  <2>7. HostOK'
    BY <2>1, <2>2, <2>3, <2>5 DEF RegistryInv, HostOK
  <2>8. /\ errand \in ErrandRecord /\ errand.do = errands[o].do /\ errand.step = "deleted"
        /\ errand.id = errands[o].id /\ errand.name = errands[o].name /\ errand.left = errands[o].left
    BY <1>0, StepTypes
  <2>9. errands' = [errands EXCEPT ![o] = errand]
    BY <2>1 DEF Step
  <2> HIDE DEF errand
  <2>10. ~NamedIn(errands[o].id, workspaces')
    BY <1>0, <2>1, <2>2, <2>3, <2>4 DEF ErrandOK, Deleting, NamedIn, NamesKept, Workspaces
  <2>11. Idle.do = "idle"
    BY DEF Idle
  <2>12. ErrandOK(errand, Idle, workspaces', minted')
    BY <1>0, <2>1, <2>2, <2>8, <2>10, <2>11 DEF ErrandOK, Deleting
  <2>13. Errands'
    BY <2>2, <2>4, <2>9, <2>12, OneErrandMoves DEF RegistryInv
  <2>14. QED
    BY <2>6, <2>7, <2>13 DEF RegistryInv
<1>5. CASE RemoveDir(o)
  <2>1. /\ dirs' = dirs \ {errands[o].id} /\ Finish(o)
        /\ UNCHANGED <<control, cached, sessions, opening, gone, kills>>
    BY <1>5 DEF RemoveDir
  <2>2. /\ ControlInv' /\ NamesKept /\ Workspaces' = Workspaces
        /\ UNCHANGED <<workspaces, commands, minted, now>>
    BY <2>1, DatabaseLeftAlone
  <2>3. HostOK'
    BY <2>1, <2>2 DEF RegistryInv, HostOK
  <2>4. Errands'
    BY <2>1, <2>2, FinishSafe
  <2>5. QED
    BY <2>2, <2>3, <2>4 DEF RegistryInv
<1>6. QED
  BY <1>1, <1>2, <1>3, <1>4, <1>5

\* Every workspace of the list is opened, and then the directories are read (check).
LEMMA CheckErrandSafe ==
    ASSUME RegistryInv, NEW o \in Operators,
           \/ StartCheck(o) \/ CheckOne(o) \/ CheckedOne(o) \/ CheckFailed(o)
           \/ ReportStrays(o) \/ CheckDone(o)
    PROVE  RegistryInv'
<1>0. /\ errands[o] \in ErrandRecord /\ ErrandOK(errands[o], commands[o], workspaces, minted)
      /\ Workspaces \subseteq minted /\ minted \subseteq Ids
  BY DEF RegistryInv, Errands, ControlInv, ControlTypeOK
<1>1. UNCHANGED control
  BY DEF StartCheck, CheckOne, CheckedOne, Reconcile, CheckFailed, ReportStrays, CheckDone
<1>2. /\ ControlInv' /\ NamesKept /\ Workspaces' = Workspaces
      /\ UNCHANGED <<workspaces, commands, minted, now>>
  BY <1>1, DatabaseLeftAlone
<1>3. ASSUME NEW errand \in ErrandRecord, errand.do = "check", errand.left \subseteq minted,
             errands' = [errands EXCEPT ![o] = errand]
      PROVE  Errands'
  <2>1. ErrandOK(errand, commands[o], workspaces, minted)
    BY <1>0, <1>3 DEF ErrandOK
  <2>2. QED
    BY <1>1, <1>3, <2>1, ErrandAlone
<1>4. ASSUME NEW step \in {"listed", "opening", "told"}, errands[o].do = "check", Step(o, step)
      PROVE  Errands'
  <2> DEFINE errand == [errands[o] EXCEPT !.step = step]
  <2>1. errand \in ErrandRecord /\ errand.do = errands[o].do /\ errand.left = errands[o].left
    BY <1>0 DEF ErrandRecord
  <2>2. errands' = [errands EXCEPT ![o] = errand]
    BY <1>4 DEF Step
  <2> HIDE DEF errand
  <2>3. QED
    BY <1>0, <1>3, <1>4, <2>1, <2>2 DEF ErrandOK
<1>5. ASSUME UNCHANGED <<dirs, cached, sessions, opening, gone, kills>> PROVE HostOK'
  BY <1>2, <1>5 DEF RegistryInv, HostOK
<1>6. CASE StartCheck(o)
  <2> DEFINE errand == [NoErrand EXCEPT !.do = "check", !.step = "listed",
                                        !.seen = Workspaces, !.left = Workspaces]
  <2>1. /\ errands' = [errands EXCEPT ![o] = errand]
        /\ UNCHANGED <<dirs, cached, sessions, opening, gone, kills>>
    BY <1>6 DEF StartCheck
  <2>2. errand \in ErrandRecord /\ errand.do = "check" /\ errand.left = Workspaces
    <3>1. NoErrand \in ErrandRecord
      BY DEF NoErrand, ErrandRecord
    <3>2. Workspaces \in SUBSET Ids
      BY <1>0
    <3>3. QED
      BY <3>1, <3>2 DEF ErrandRecord
  <2> HIDE DEF errand
  <2>3. Errands'
    BY <1>0, <1>3, <2>1, <2>2
  <2>4. QED
    BY <1>2, <1>5, <2>1, <2>3 DEF RegistryInv
<1>7. CASE CheckOne(o)
  <2>1. PICK id \in errands[o].left :
           /\ Open(o, id)
           /\ errands' = [errands EXCEPT ![o].step = "opening", ![o].left = @ \ {id}]
    BY <1>7 DEF CheckOne
  <2>2. UNCHANGED <<dirs, cached, sessions, gone, kills>> /\ errands[o].do = "check"
    BY <1>7 DEF CheckOne, Going
  <2>3. id \in minted
    BY <1>0 DEF ErrandOK
  <2>4. HostOK'
    BY <1>1, <2>1, <2>2, <2>3, OpensSafe
  <2> DEFINE left == errands[o].left \ {id}
             errand == [errands[o] EXCEPT !.step = "opening", !.left = left]
  <2>5. left \in SUBSET Ids /\ left \subseteq minted
    BY <1>0 DEF ErrandOK
  <2>6. errands' = [errands EXCEPT ![o] = errand]
    BY <2>1
  <2> HIDE DEF left
  <2>7. errand \in ErrandRecord /\ errand.do = "check" /\ errand.left = left
    BY <1>0, <2>2, <2>5 DEF ErrandRecord
  <2> HIDE DEF errand
  <2>8. Errands'
    BY <1>3, <2>5, <2>6, <2>7
  <2>9. QED
    BY <1>2, <2>4, <2>8 DEF RegistryInv
<1>8. CASE CheckedOne(o)
  <2>1. /\ errands[o].do = "check" /\ opening' = [opening EXCEPT ![o] = Closed]
        /\ UNCHANGED <<dirs, gone, kills>> /\ UNCHANGED <<cached, sessions>>
        /\ Step(o, "listed") \/ errands' = errands
    BY <1>8 DEF CheckedOne, Reconcile, Going
  <2>2. HostOK'
    BY <1>1, <2>1, OpensSafe
  <2>3. Errands'
    BY <1>2, <1>4, <2>1, NoErrandMoves DEF RegistryInv
  <2>4. QED
    BY <1>2, <2>2, <2>3 DEF RegistryInv
<1>9. CASE CheckFailed(o)
  <2>1. Errands'
    BY <1>4, <1>9 DEF CheckFailed, Going
  <2>2. HostOK'
    BY <1>5, <1>9 DEF CheckFailed
  <2>3. QED
    BY <1>2, <2>1, <2>2 DEF RegistryInv
<1>10. CASE ReportStrays(o)
  <2> DEFINE seen == dirs \ errands[o].seen
             errand == [errands[o] EXCEPT !.step = "told", !.seen = seen]
  <2>1. /\ errands' = [errands EXCEPT ![o] = errand] /\ errands[o].do = "check"
        /\ UNCHANGED <<dirs, cached, sessions, opening, gone, kills>>
    BY <1>10 DEF ReportStrays, Going
  <2>2. seen \in SUBSET Ids
    BY <1>0 DEF RegistryInv, HostOK
  <2> HIDE DEF seen
  <2>3. errand \in ErrandRecord /\ errand.do = "check" /\ errand.left = errands[o].left
    BY <1>0, <2>1, <2>2 DEF ErrandRecord
  <2> HIDE DEF errand
  <2>4. Errands'
    BY <1>0, <1>3, <2>1, <2>3 DEF ErrandOK
  <2>5. QED
    BY <1>2, <1>5, <2>1, <2>4 DEF RegistryInv
<1>11. CASE CheckDone(o)
  <2>1. Errands'
    BY <1>2, <1>11, FinishSafe DEF CheckDone
  <2>2. HostOK'
    BY <1>5, <1>11 DEF CheckDone
  <2>3. QED
    BY <1>2, <2>1, <2>2 DEF RegistryInv
<1>12. QED
  BY <1>6, <1>7, <1>8, <1>9, <1>10, <1>11

\* A command is refused, or its process killed, at any step.
LEMMA EndErrandSafe ==
    ASSUME RegistryInv, NEW o \in Operators, GiveUp(o) \/ KillCommand(o)
    PROVE  RegistryInv'
<1>1. /\ Finish(o) /\ commands' = [commands EXCEPT ![o] = Idle]
      /\ UNCHANGED <<workspaces, keys, audit, now, requests, connection, minted, tokens, dead>>
      /\ UNCHANGED <<dirs, cached, sessions, gone>>
  BY DEF GiveUp, KillCommand
<1>2. NamesKept /\ Workspaces' = Workspaces
  BY <1>1, RowsLeftAlone
<1>3. ControlInv'
  <2>1. Idle \in CommandRecord /\ Idle.at =< now
    BY IdleIsARecord DEF RegistryInv, ControlInv, ControlTypeOK
  <2>2. QED
    BY <1>1, <2>1, BeginSafe DEF RegistryInv
<1>4. Errands'
  BY <1>1, <1>2, FinishSafe
<1>5. /\ opening' \in [Processes -> OpeningRecord]
      /\ \A x \in Processes : opening'[x].step # "closed" => opening'[x].id \in minted'
  <2>1. CASE GiveUp(o)
    BY <1>1, <2>1 DEF GiveUp, RegistryInv, HostOK
  <2>2. CASE KillCommand(o)
    <3>1. opening' = [opening EXCEPT ![o] = Closed] /\ o \in Processes
      BY <2>2 DEF KillCommand, Processes
    <3>2. minted \subseteq Ids /\ minted \subseteq minted'
      BY <1>1 DEF RegistryInv, ControlInv, ControlTypeOK
    <3>3. QED
      BY <3>1, <3>2, OpeningTypes DEF RegistryInv
  <2>3. QED
    BY <2>1, <2>2
<1>6. kills' \in 0 .. MaxKills
  BY RegistryAssumption DEF RegistryInv, HostOK, GiveUp, KillCommand
<1>7. HostOK'
  BY <1>1, <1>2, <1>5, <1>6 DEF RegistryInv, HostOK
<1>8. QED
  BY <1>3, <1>4, <1>7 DEF RegistryInv

\* One action preserves the invariant, whichever it is.
LEMMA StepRegistry == RegistryInv /\ [RegistryNext]_registry => RegistryInv'
<1> SUFFICES ASSUME RegistryInv, [RegistryNext]_registry PROVE RegistryInv'
  OBVIOUS
<1>1. ASSUME NEW o \in Operators, Command(o) \/ KillCommand(o) PROVE RegistryInv'
  BY <1>1, CreateErrandSafe, ShowErrandSafe, DeleteErrandSafe, CheckErrandSafe, EndErrandSafe
     DEF Command
<1>2. CASE UNCHANGED registry
  <2>1. UNCHANGED control /\ UNCHANGED <<dirs, cached, sessions, opening, errands, gone, kills>>
    BY <1>2 DEF registry, host
  <2>2. /\ ControlInv' /\ NamesKept /\ Workspaces' = Workspaces
        /\ UNCHANGED <<workspaces, commands, minted, now>>
    BY <2>1, DatabaseLeftAlone
  <2>3. Errands'
    BY <2>1, <2>2, NoErrandMoves DEF RegistryInv
  <2>4. HostOK'
    BY <2>1, <2>2 DEF RegistryInv, HostOK
  <2>5. QED
    BY <2>2, <2>3, <2>4 DEF RegistryInv
<1>3. QED
  BY <1>1, <1>2, OpenShelfSafe, CreateRowSafe, ServerSafe DEF RegistryNext

\* A new host has no workspaces.
LEMMA InitRegistry == RegistryInit => RegistryInv
<1> SUFFICES ASSUME RegistryInit PROVE RegistryInv
  OBVIOUS
<1>1. ControlInv
  BY InitControl DEF RegistryInit
<1>2. HostOK
  <2>1. Closed \in OpeningRecord /\ Closed.step = "closed"
    BY DEF Closed, OpeningRecord
  <2>2. QED
    BY <2>1, RegistryAssumption DEF RegistryInit, HostOK
<1>3. Errands
  <2>1. NoErrand \in ErrandRecord /\ NoErrand.do = None /\ NoErrand.left = {}
    BY DEF NoErrand, ErrandRecord
  <2>2. None # "delete" /\ None # "create" /\ Idle.do = "idle"
    BY RegistryAssumption DEF Idle
  <2>3. ErrandOK(NoErrand, Idle, workspaces, minted)
    BY <2>1, <2>2 DEF ErrandOK
  <2>4. commands = [o \in Operators |-> Idle] /\ errands = [o \in Operators |-> NoErrand]
    BY DEF RegistryInit, ControlInit
  <2>5. QED
    BY <2>1, <2>3, <2>4 DEF Errands
<1>4. QED
  BY <1>1, <1>2, <1>3 DEF RegistryInv

\* The host's invariant holds in every behaviour of the registry.
LEMMA RegistryStays == RegistrySpec => []RegistryInv
  BY InitRegistry, StepRegistry, PTL DEF RegistrySpec

\* The host keeps its types: directories, engines and sessions are of workspaces that were
\* made, and the session of one that is deleted goes with its rows.
THEOREM HostKeepsItsTypes == RegistrySpec => []RegistryTypeOK
<1>1. RegistryInv => RegistryTypeOK
  BY DEF RegistryInv, ControlInv, HostOK, OpeningRecord, RegistryTypeOK
<1>2. QED
  BY <1>1, RegistryStays, PTL

\* No workspace that can be named loses its directory, whatever is opened, deleted, made
\* under the same name or killed between the two times a deletion looks its name up.
THEOREM DeletionsSpareTheNamed == RegistrySpec => NamedKeepTheirItems
<1>1. RegistryInv /\ [RegistryNext]_registry => [\A id \in dirs \ dirs' : ~Named(id)]_registry
  <2> SUFFICES ASSUME RegistryInv, [RegistryNext]_registry, NEW id \in dirs, id \notin dirs'
               PROVE  ~Named(id)
    OBVIOUS
  <2>1. PICK o \in Operators : RemoveDir(o)
    BY DEF RegistryNext, registry, host, OpenShelf, CreateRow, Serve, GotEngine, Reconcile, Get,
       BeginSession, EndSession, Command, StartCreate, CreatedRow, PrivateDir, StartShow, Shown,
       StartDelete, MayDelete, DeleteByName, DeletedRows, StartCheck, CheckOne, CheckedOne,
       CheckFailed, ReportStrays, CheckDone, GiveUp, KillCommand, RestartServer
  <2>2. errands[o].do = "delete" /\ errands[o].step = "deleted" /\ id = errands[o].id
    BY <2>1 DEF RemoveDir, Going
  <2>3. ErrandOK(errands[o], commands[o], workspaces, minted)
    BY DEF RegistryInv, Errands
  <2>4. QED
    BY <2>2, <2>3 DEF ErrandOK, Deleting, NamedIn, Named, Workspaces
<1>2. QED
  BY <1>1, RegistryStays, PTL DEF RegistrySpec, NamedKeepTheirItems

=============================================================================
