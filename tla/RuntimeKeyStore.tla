--------------------------- MODULE RuntimeKeyStore ---------------------------
(***************************************************************************)
(* Where an agent's runtime key lives (credentials/runtime_key.py): a key  *)
(* mounted by the deployment, or one made once for the scope and kept in   *)
(* the keyring or in the descriptor file, by processes that share the      *)
(* descriptor directory, may stop at any step, and may lose the keyring.   *)
(***************************************************************************)
EXTENDS Naturals

CONSTANTS
  Processes,
  MaxKeys,     \* bound: keys generated
  MaxCrashes,  \* bound: processes that stop and start again
  MaxWipes,    \* bound: times the keyring entry is removed
  Directories, \* what the descriptor directory may be: "usable", "readonly", "bad"
  Nowhere

VARIABLES
  place,       \* each process's environment
  directory,
  descriptor,  \* the scope's descriptor, or Nowhere
  ring,        \* the keyring's entry for the scope, or Nowhere
  flock,       \* holder of the scope lock
  loader,      \* where each process stands in load_runtime_key
  minted,      \* keys generated so far
  crashes,
  wipes,
  served       \* history: keys of the scope ever handed out

storeVars == <<place, directory, descriptor, ring, flock, loader, minted, crashes, wipes, served>>

Keys == 1..MaxKeys
Places == [crypto  : BOOLEAN,                   \* the runtime extra is installed
           mounted : {"none", "good", "bad"},   \* DEEPINTSHIELD_RUNTIME_KEY_FILE
           keyring : BOOLEAN,                   \* _secure_keyring() is not None
           files   : BOOLEAN]                   \* _file_storage_supported()
Descriptors == [storage : {"keyring", "file"}, key : Keys]
Idle == [at |-> "idle", key |-> Nowhere]

TypeOK ==
  /\ place \in [Processes -> Places] /\ directory \in Directories
  /\ descriptor \in Descriptors \cup {Nowhere} /\ ring \in Keys \cup {Nowhere}
  /\ flock \in Processes \cup {Nowhere}
  /\ loader \in [Processes -> [at : {"idle", "lock", "read", "get", "set", "file", "link",
                                     "mounted", "loaded", "failed"},
                               key : Keys \cup {Nowhere}]]
  /\ minted \in 0..MaxKeys /\ crashes \in 0..MaxCrashes /\ wipes \in 0..MaxWipes
  /\ served \subseteq Keys

\* Processes of one host differ in their keyring and their mount.
Init ==
  /\ place \in [Processes -> {p \in Places : p.mounted # "bad" => p.crypto}]
  /\ \A p, q \in Processes : place[p].files = place[q].files /\ place[p].crypto = place[q].crypto
  /\ directory \in Directories
  /\ descriptor \in (IF directory = "readonly" THEN {Nowhere, [storage |-> "file", key |-> 1]}
                     ELSE {Nowhere})
  /\ minted = IF descriptor = Nowhere THEN 0 ELSE 1
  /\ ring = Nowhere /\ flock = Nowhere /\ loader = [p \in Processes |-> Idle]
  /\ crashes = 0 /\ wipes = 0 /\ served = {}

At(p, a) == loader[p].at = a
Goto(p, a) == loader' = [loader EXCEPT ![p].at = a]
Fail(p) == loader' = [loader EXCEPT ![p] = [at |-> "failed", key |-> Nowhere]]

\* _require_cryptography, then _mounted_key: an explicit file is all there is.
Load(p) ==
  /\ loader[p].at \in {"idle", "loaded", "mounted", "failed"}
  /\ IF ~place[p].crypto \/ place[p].mounted = "bad" THEN Fail(p)
     ELSE loader' = [loader EXCEPT ![p] =
            [at |-> IF place[p].mounted = "good" THEN "mounted" ELSE "lock", key |-> Nowhere]]
  /\ UNCHANGED <<place, directory, descriptor, ring, flock, minted, crashes, wipes, served>>

\* _scope_lock.  In a directory that cannot be written the lock file must
\* have been made before, with the descriptor.
Lock(p) ==
  /\ At(p, "lock")
  /\ IF directory = "bad" \/ (directory = "readonly" /\ descriptor = Nowhere)
     THEN Fail(p) /\ UNCHANGED flock
     ELSE flock = Nowhere /\ flock' = p /\ Goto(p, "read")
  /\ UNCHANGED <<place, directory, descriptor, ring, minted, crashes, wipes, served>>

Serve(p, k) ==
  /\ loader' = [loader EXCEPT ![p] = [at |-> "loaded", key |-> k]]
  /\ flock' = Nowhere /\ served' = served \cup {k}
GiveUp(p) == Fail(p) /\ flock' = Nowhere /\ UNCHANGED served

Mint(p, a) ==
  /\ minted < MaxKeys /\ minted' = minted + 1
  /\ loader' = [loader EXCEPT ![p] = [at |-> a, key |-> minted + 1]]

\* Mutant: an enrolled key that is gone is replaced.
FindReplaced(p) ==
  /\ At(p, "read") /\ descriptor # Nowhere
  /\ \/ /\ descriptor.storage = "file" /\ place[p].files
        /\ Serve(p, descriptor.key) /\ UNCHANGED <<minted, descriptor>>
     \/ /\ descriptor.storage = "keyring"
        /\ IF place[p].keyring /\ ring = descriptor.key
           THEN Serve(p, ring) /\ UNCHANGED <<minted, descriptor>>
           ELSE Mint(p, "file") /\ descriptor' = Nowhere /\ UNCHANGED <<flock, served>>
  /\ UNCHANGED <<place, directory, ring, crashes, wipes>>

\* A descriptor decides: its own storage must still hold its own key.
Find(p) ==
  /\ At(p, "read") /\ descriptor # Nowhere
  /\ IF \/ descriptor.storage = "file" /\ place[p].files
        \/ descriptor.storage = "keyring" /\ place[p].keyring /\ ring = descriptor.key
     THEN Serve(p, descriptor.key) ELSE GiveUp(p)
  /\ UNCHANGED <<place, directory, descriptor, ring, minted, crashes, wipes>>

\* No descriptor yet: a key is made.
Create(p) ==
  /\ At(p, "read") /\ descriptor = Nowhere
  /\ Mint(p, IF place[p].keyring THEN "get" ELSE "file")
  /\ UNCHANGED <<place, directory, descriptor, ring, flock, crashes, wipes, served>>

\* A key left by a process that stopped before its descriptor is used again;
\* a keyring that raises is left for the file.
Get(p) ==
  /\ At(p, "get")
  /\ \/ ring # Nowhere /\ loader' = [loader EXCEPT ![p] = [at |-> "link", key |-> ring]]
     \/ ring = Nowhere /\ Goto(p, "set")
     \/ Goto(p, "file")
  /\ UNCHANGED <<place, directory, descriptor, ring, flock, minted, crashes, wipes, served>>

\* set_password stores the key, and may raise all the same.
Put(p) ==
  /\ At(p, "set")
  /\ \/ ring' = loader[p].key /\ Goto(p, "link")
     \/ ring' \in {ring, loader[p].key} /\ Goto(p, "file")
  /\ UNCHANGED <<place, directory, descriptor, flock, minted, crashes, wipes, served>>

Commit(p, storage) ==
  /\ descriptor' = [storage |-> storage, key |-> loader[p].key] /\ Serve(p, loader[p].key)
  /\ UNCHANGED <<place, directory, ring, minted, crashes, wipes>>

\* _write_descriptor: complete, or not there at all.
Link(p) == At(p, "link") /\ Commit(p, "keyring")
File(p) ==
  /\ At(p, "file")
  /\ \/ place[p].files /\ Commit(p, "file")
     \/ /\ ~place[p].files /\ GiveUp(p)
        /\ UNCHANGED <<place, directory, descriptor, ring, minted, crashes, wipes>>

\* A process stops; the system drops its lock.
Crash(p) ==
  /\ crashes < MaxCrashes /\ crashes' = crashes + 1 /\ ~At(p, "idle")
  /\ loader' = [loader EXCEPT ![p] = Idle]
  /\ flock' = IF flock = p THEN Nowhere ELSE flock
  /\ UNCHANGED <<place, directory, descriptor, ring, minted, wipes, served>>

\* The user, or a new session, loses the keyring entry.
Wipe ==
  /\ wipes < MaxWipes /\ wipes' = wipes + 1 /\ ring # Nowhere /\ ring' = Nowhere
  /\ UNCHANGED <<place, directory, descriptor, flock, loader, minted, crashes, served>>

Next ==
  \/ \E p \in Processes : Load(p) \/ Lock(p) \/ Find(p) \/ Create(p) \/ Get(p) \/ Put(p)
                            \/ Link(p) \/ File(p) \/ Crash(p)
  \/ Wipe

Spec == Init /\ [][Next]_storeVars

\* runtime_key_available, with _directory_usable.
Available(p) ==
  /\ place[p].crypto /\ place[p].mounted # "bad"
  /\ \/ place[p].mounted = "good"
     \/ (place[p].files \/ place[p].keyring) /\ directory = "usable"

----------------------------------------------------------------------------
(* Properties. *)

\* A scope has one key for good: whatever stops or is lost, no two keys are
\* ever handed out for it (runtime_key.py:240-321).
OneKeyForGood == \A k, l \in served : k = l

\* "a True is necessary, not sufficient" (runtime_key.py:226): a process that
\* loads a key is one runtime_key_available answers True for; except that a key
\* whose descriptor is in a directory that can no longer be written is loaded
\* (runtime_key.py:258-264), though _directory_usable answers False there.
KeptReadOnly(p) == directory = "readonly" /\ descriptor # Nowhere /\ (place[p].files \/ place[p].keyring)
CapableIsNecessary ==
  \A p \in Processes : loader[p].at \in {"loaded", "mounted"} => Available(p) \/ KeptReadOnly(p)
=============================================================================
