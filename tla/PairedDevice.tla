---------------------------- MODULE PairedDevice ----------------------------
(***************************************************************************)
(* What a WirelessPairingService keeps between its sessions, the iPhone's  *)
(* and the Apple TV's alike (wireless_pairing.rs): the encrypted pairing   *)
(* and its key on disk, and the identity of the paired device in memory,   *)
(* which requests look up over an RSD session when it is not cached.       *)
(*                                                                         *)
(* A pairing stands for the device it was made with: a session opened with *)
(* a pairing can only read the identity of that device.                    *)
(***************************************************************************)
EXTENDS Naturals

CONSTANTS
    Pairings,  \* pairings that are ever made
    Callers,   \* requests that ask for the identity of the paired device
    None

ASSUME NoneAssumption == None \notin Pairings

VARIABLES
    stored,  \* the pairing in STATE_FILE, or None
    key,     \* KEY_FILE
    cached,  \* identity_cache: the pairing whose device it names, or None
    asking,  \* the requests in remote_pairing_device_identity, by place
    loaded   \* the pairing a request's RSD session uses

lookupVars == <<asking, loaded>>
pairedVars == <<stored, key, cached, lookupVars>>

PairedTypeOK ==
    /\ stored \in Pairings \cup {None}
    /\ key \in {"none", "whole", "torn"}
    /\ cached \in Pairings \cup {None}
    /\ asking \in [Callers -> {"idle", "session", "caching"}]
    /\ loaded \in [Callers -> Pairings \cup {None}]

PairedInit ==
    /\ stored = None /\ key = "none"
    /\ cached = None
    /\ asking = [c \in Callers |-> "idle"]
    /\ loaded = [c \in Callers |-> None]

-----------------------------------------------------------------------------
(* The pairing on disk *)

\* A state file without its key is as good as lost.
Readable == stored # None => key = "whole"

\* PairingStore::save: the key is created first, then the state is renamed
\* into place. A key cut short by a crash or a full disk stays.
Save(p) ==
    /\ key # "torn"
    /\ key' = "whole"
    /\ stored' = p

\* Mutant: the state is written before its key.
SaveBreaksAfterState ==
    /\ key' = key
    /\ stored' \in Pairings

\* The save fails, or a crash ends it, before the rename.
SaveBreaks ==
    /\ key' \in (IF key = "none" THEN {"none", "whole", "torn"} ELSE {key})
    /\ UNCHANGED stored

\* has_stored_pairing: load_existing finds a complete pairing.
HasStoredPairing == stored # None /\ key = "whole"

-----------------------------------------------------------------------------
(* Looking the identity up *)

\* The cached identity is returned at once. Otherwise RemoteRsdSession::open
\* loads the pairing; without one it fails.
LookupStarts(c) ==
    /\ asking[c] = "idle"
    /\ cached = None
    /\ HasStoredPairing
    /\ asking' = [asking EXCEPT ![c] = "session"]
    /\ loaded' = [loaded EXCEPT ![c] = stored]
    /\ UNCHANGED <<stored, key, cached>>

\* The device is not found, refuses the pairing or stays silent for
\* RSD_IDENTITY_LOOKUP_TIMEOUT; or the request is dropped.
LookupEnds(c) ==
    /\ asking[c] # "idle"
    /\ asking' = [asking EXCEPT ![c] = "idle"]
    /\ loaded' = [loaded EXCEPT ![c] = None]
    /\ UNCHANGED <<stored, key, cached>>

\* The device answers, and the session is closed.
LookupAnswered(c) ==
    /\ asking[c] = "session"
    /\ asking' = [asking EXCEPT ![c] = "caching"]
    /\ UNCHANGED <<stored, key, cached, loaded>>

\* The answer is cached whatever happened to the pairing since it was loaded.
LookupCaches(c) ==
    /\ asking[c] = "caching"
    /\ cached' = loaded[c]
    /\ asking' = [asking EXCEPT ![c] = "idle"]
    /\ loaded' = [loaded EXCEPT ![c] = None]
    /\ UNCHANGED <<stored, key>>

LookupStep(c) ==
    \/ LookupStarts(c) \/ LookupEnds(c) \/ LookupAnswered(c) \/ LookupCaches(c)

-----------------------------------------------------------------------------

\* The server restarts: the disk stays, the cache and the requests go.
ForgetMemory ==
    /\ cached' = None
    /\ asking' = [c \in Callers |-> "idle"]
    /\ loaded' = [c \in Callers |-> None]

=============================================================================
