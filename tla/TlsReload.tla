------------------------------- MODULE TlsReload -------------------------------
(***************************************************************************)
(* The server's certificate and private key (crates/passalong-server-api,  *)
(* tls.rs): two files that others replace while the server runs, the       *)
(* configuration it gives new connections, and the task that looks at the  *)
(* files every half minute (server.rs, bind).  Who writes the files: the   *)
(* command `tls self-signed` (cli, commands.rs), the deploy hook that      *)
(* `tls letsencrypt` prints (cli, letsencrypt.rs), and any other tool that *)
(* writes them in place.                                                   *)
(*                                                                         *)
(* A file is abstracted to what the stamp and `load` tell apart: when it   *)
(* was written (unique, see Stamp), the key it holds or certifies, and     *)
(* whether all of it is there.                                             *)
(***************************************************************************)
EXTENDS Naturals

CONSTANTS
  Makers,      \* runs of `tls self-signed`
  Renewals,    \* bound: certificates that are issued
  InPlace      \* TRUE: some tool also writes the files in place

ASSUME TlsAssumption == Renewals \in Nat /\ InPlace \in BOOLEAN

VARIABLES
  files,    \* files["cert"], files["key"]: what is on the disk
  writes,   \* how many times a file was written: the next stamp
  issued,   \* how many keys there are
  hook,     \* the deploy hook: where it is, and the key of its pair
  tool,     \* the tool that writes in place, the same
  maker,    \* the runs of `tls self-signed`, the same, and the file they have open
  server,   \* where the server is: down, idle, or in `look` or `open`
  stamps,   \* the local `now` of `look`
  got,      \* the certificate `load` has read
  seen,     \* Reloading::seen
  current   \* Reloading::current

tls == <<files, writes, issued, hook, tool, maker, server, stamps, got, seen, current>>
disk == <<files, writes, issued, hook, tool, maker>>
serving == <<server, stamps, got, seen, current>>

Names == {"cert", "key"}
NoFile == [at |-> 0, key |-> 0, whole |-> FALSE]
NoPair == [cert |-> NoFile, key |-> NoFile]
NotWriting == [at |-> "idle", key |-> 0]
NotMaking == [at |-> "idle", key |-> 0, file |-> 0]
Made == [at |-> "done", key |-> 0, file |-> 0]

(* `stamp` of tls.rs: the time of the last write and the length, None for a
   file that is not there.  Two writes of one file have two stamps.        *)
Stamp(f) == f.at

(* `load`: both files hold something usable and the key is the
   certificate's.  A certificate cut short may still parse: a chain whose
   last certificates are missing does.                                     *)
Loads(c, k) == c.at # 0 /\ k.at # 0 /\ k.whole /\ c.key = k.key

TlsInit ==
  /\ files = NoPair
  /\ writes = 0
  /\ issued = 0
  /\ hook = NotWriting
  /\ tool = NotWriting
  /\ maker = [m \in Makers |-> NotMaking]
  /\ server = "down"
  /\ stamps = [n \in Names |-> 0]
  /\ got = NoFile
  /\ seen = [n \in Names |-> 0]
  /\ current = NoPair

-----------------------------------------------------------------------------
(* The writers.                                                            *)

Put(name, k, whole) ==
  /\ files' = [files EXCEPT ![name] = [at |-> writes + 1, key |-> k, whole |-> whole]]
  /\ writes' = writes + 1

(* `tls self-signed`: refused over a pair or half of one, ...              *)
Make(m) ==
  /\ maker[m].at = "idle"
  /\ files = NoPair
  /\ issued' = issued + 1
  /\ maker' = [maker EXCEPT ![m] = [at |-> "key", key |-> issued', file |-> 0]]
  /\ UNCHANGED <<files, writes, hook, tool>>
  /\ UNCHANGED serving

(* ... then each of the two is written by `write_new`, the key first, to a
   file that must not exist and is empty at first.  The command may also be
   killed, or the disk be full, between any two of its steps.              *)
CreateNew(m, name, next) ==
  /\ maker[m].at = name
  /\ IF files[name] = NoFile
     THEN /\ Put(name, 0, FALSE)
          /\ maker' = [maker EXCEPT ![m].at = next, ![m].file = writes']
     ELSE /\ maker' = [maker EXCEPT ![m] = Made]
          /\ UNCHANGED <<files, writes>>
  /\ UNCHANGED <<issued, hook, tool>>
  /\ UNCHANGED serving

(* The file it opened is filled.  Where another tool was faster, that file
   is no longer the one with the name, or it is and now holds a mixture.   *)
FillNew(m, name, at, next) ==
  /\ maker[m].at = at
  /\ \/ /\ files[name].at = maker[m].file
        /\ Put(name, maker[m].key, TRUE)
     \/ /\ files[name].at # maker[m].file
        /\ UNCHANGED <<files, writes>>
     \/ /\ files[name].at # maker[m].file
        /\ Put(name, 0, FALSE)
  /\ maker' = [maker EXCEPT ![m] = IF next = "done" THEN Made ELSE [@ EXCEPT !.at = next, !.file = 0]]
  /\ UNCHANGED <<issued, hook, tool>>
  /\ UNCHANGED serving

(* certbot issues a certificate, for the key it has (--reuse-key) or for a
   new one, and starts the hook, which writes both parts aside.            *)
Issue ==
  /\ hook.at = "idle"
  /\ issued < Renewals
  /\ issued' = issued + 1
  /\ \E k \in {hook.key, issued'} \ {0} : hook' = [at |-> "key", key |-> k]
  /\ UNCHANGED <<files, writes, tool, maker>>
  /\ UNCHANGED serving

(* The hook moves the key into place, then the certificate.                *)
Move(name, next) ==
  /\ hook.at = name
  /\ Put(name, hook.key, TRUE)
  /\ hook' = [hook EXCEPT !.at = next]
  /\ UNCHANGED <<issued, tool, maker>>
  /\ UNCHANGED serving

(* It is killed, or its `mv` fails (set -e).                               *)
HookDies ==
  /\ hook.at # "idle"
  /\ hook' = [hook EXCEPT !.at = "idle"]
  /\ UNCHANGED <<files, writes, issued, tool, maker>>
  /\ UNCHANGED serving

(* Another tool writes a new pair in place, the certificate first: each
   file is first cut short and then whole.                                 *)
ToolStarts ==
  /\ InPlace
  /\ tool.at = "idle"
  /\ issued < Renewals
  /\ issued' = issued + 1
  /\ tool' = [at |-> "cert", key |-> issued']
  /\ UNCHANGED <<files, writes, hook, maker>>
  /\ UNCHANGED serving

ToolWrites(name, whole, at, next) ==
  /\ tool.at = at
  /\ Put(name, tool.key, whole)
  /\ tool' = IF next = "idle" THEN NotWriting ELSE [tool EXCEPT !.at = next]
  /\ UNCHANGED <<issued, hook, maker>>
  /\ UNCHANGED serving

Writer ==
  \/ \E m \in Makers :
        \/ Make(m)
        \/ CreateNew(m, "key", "key2") \/ FillNew(m, "key", "key2", "cert")
        \/ CreateNew(m, "cert", "cert2") \/ FillNew(m, "cert", "cert2", "done")
  \/ Issue
  \/ Move("key", "cert") \/ Move("cert", "idle")
  \/ HookDies
  \/ ToolStarts
  \/ ToolWrites("cert", FALSE, "cert", "cert2") \/ ToolWrites("cert", TRUE, "cert2", "key")
  \/ ToolWrites("key", FALSE, "key", "key2") \/ ToolWrites("key", TRUE, "key2", "idle")

-----------------------------------------------------------------------------
(* The server.  `open` and `look` read one file at a time.                 *)

Start ==
  /\ server = "down"
  /\ server' = "open"
  /\ UNCHANGED <<stamps, got, seen, current>>
  /\ UNCHANGED disk

(* The half minute is over.                                                *)
Look ==
  /\ server = "idle"
  /\ server' = "look"
  /\ UNCHANGED <<stamps, got, seen, current>>
  /\ UNCHANGED disk

StampOf(name, from, to) ==
  /\ server \in from
  /\ server' = to[server]
  /\ stamps' = [stamps EXCEPT ![name] = Stamp(files[name])]
  /\ UNCHANGED <<got, seen, current>>
  /\ UNCHANGED disk

StampCert == StampOf("cert", {"open", "look"}, [open |-> "open2", look |-> "look2"])
\* Mutant of StampKey: only the certificate's stamp is looked at.
StampCertAgain ==
  /\ server \in {"open2", "look2"}
  /\ server' = [open2 |-> "openStamped", look2 |-> "looked"][server]
  /\ UNCHANGED <<stamps, got, seen, current>>
  /\ UNCHANGED disk

StampKey == StampOf("key", {"open2", "look2"}, [open2 |-> "openStamped", look2 |-> "looked"])

(* `look`: the stamp is as it was and nothing is done, or it is remembered,
   whether or not the pair will load.  `open` takes it without comparing.  *)
Remember ==
  /\ server \in {"looked", "openStamped"}
  /\ seen' = stamps
  /\ server' = IF server = "openStamped" THEN "openRead"
               ELSE IF seen = stamps THEN "idle" ELSE "read"
  /\ UNCHANGED <<stamps, got, current>>
  /\ UNCHANGED disk

(* `load` reads the certificate, ...                                       *)
ReadCert ==
  /\ server \in {"read", "openRead"}
  /\ got' = files["cert"]
  /\ server' = [read |-> "readKey", openRead |-> "openReadKey"][server]
  /\ UNCHANGED <<stamps, seen, current>>
  /\ UNCHANGED disk

(* ... and the key.  What loads is used from here on; what does not leaves
   the pair before it in use, or keeps the server from starting.           *)
ReadKey ==
  /\ server \in {"readKey", "openReadKey"}
  /\ \/ /\ Loads(got, files["key"])
        /\ current' = [cert |-> got, key |-> files["key"]]
        /\ server' = "idle"
     \/ /\ ~(got.whole /\ Loads(got, files["key"]))
        /\ current' = current
        /\ server' = IF server = "readKey" THEN "idle" ELSE "down"
  /\ got' = NoFile
  /\ UNCHANGED <<stamps, seen>>
  /\ UNCHANGED disk

(* The process ends, in the middle of anything.                            *)
Stop ==
  /\ server # "down"
  /\ server' = "down"
  /\ stamps' = [n \in Names |-> 0]
  /\ got' = NoFile
  /\ current' = NoPair
  /\ seen' = [n \in Names |-> 0]
  /\ UNCHANGED disk

Server == Look \/ StampCert \/ StampKey \/ Remember \/ ReadCert \/ ReadKey

TlsNext == Writer \/ Server \/ Start \/ Stop

TlsSpec == TlsInit /\ [][TlsNext]_tls

(* The reloading task runs for as long as the server does: each of its
   waits ends, and each file can be read.  Nobody has to finish a renewal,
   and nobody has to start or stop the server.                             *)
ReloadFairness == WF_tls(Server)

-----------------------------------------------------------------------------
(* Properties.                                                             *)

Up == server \in {"idle", "look", "look2", "looked", "read", "readKey"}
PairOnDisk == files["cert"].whole /\ Loads(files["cert"], files["key"])

(* While the server is up, new connections get a certificate and the key
   it is for, whatever a renewal has done to the files in the middle of
   `look` (tls.rs, Reloading).                                             *)
ServesAPair == Up => /\ current["cert"].at # 0
                     /\ current["cert"].key = current["key"].key

(* A whole pair that stays on the disk of a server that stays up is what new
   connections come to get (docs/usage.md, "The pair is read again within
   half a minute"), however the writes fell between the stamp and the two
   reads of earlier looks; and at no time do connections get half of one.  *)
PairIsServed ==
  []ServesAPair /\ (ReloadFairness => (<>[](PairOnDisk /\ Up) => <>[](current = files)))

(* Runs of `tls self-signed` at once, each killed anywhere, leave no mixture:
   if both files are whole, or a server would load them, they are a pair;
   a run that was killed leaves an empty one that loads with no key
   (commands.rs, write_new).                                               *)
NeverMixed ==
  (\A n \in Names : files[n].whole) \/ Loads(files["cert"], files["key"]) => PairOnDisk

(* If both files are there, they are a pair.                               *)
NeverHalf == (\A n \in Names : files[n] # NoFile) => PairOnDisk

(* letsencrypt.rs, of the hook: "A whole pair or nothing: never half of a
   renewal over a pair that works."  While the server uses a pair and no
   hook is at work, the files are a pair, and a restart finds one.         *)
WholePairOrNothing == Up /\ hook.at = "idle" => PairOnDisk
=============================================================================
