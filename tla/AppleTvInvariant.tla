-------------------------- MODULE AppleTvInvariant --------------------------
(***************************************************************************)
(* The inductive invariant behind the safety properties of AppleTvPairing: *)
(* who holds start_lock, which tasks may still change the pairing, and     *)
(* what a look-up under way will find.                                     *)
(***************************************************************************)
EXTENDS AppleTvPairing

Holding == {"connect", "handshake", "asked", "pin", "saving", "saved"}
AfterSave == {"stored", "verify", "lookup", "report"}
BeforePin == {"lock", "connect", "handshake", "asked"}

\* start_lock is held by one task, or by the forget, and by nobody else.
LockInv ==
    /\ \A s \in Pairings : pc[s] \in Holding <=> holder = s
    /\ forget \in {"locked", "cleared"} => holder = None

\* The session's task is the only one that has not been aborted.
SessionInv ==
    /\ session = None => phase = "cancelled"
    /\ session # None => pc[session] # "none"
    /\ \A s \in Pairings : s # session => pc[s] \in {"none", "done"} \/ s \in aborted
    /\ \A s \in aborted : pc[s] # "none"
    /\ session # None /\ session \in aborted => phase \in Terminal
    /\ session # None /\ phase \in Terminal => pc[session] = "done" \/ session \in aborted

\* Once it has stored its pairing, only a forget can change what is stored.
StoredInv ==
    /\ \A s \in Pairings : pc[s] \in {"saved"} \cup AfterSave => s \in saved
    /\ \A s \in Pairings : session = s /\ pc[s] \in {"saved"} \cup AfterSave
          => /\ stored \in {None, s}
             /\ \A t \in Pairings : t # s => pc[t] \notin Holding

\* Until the Apple TV asks for a PIN, there is nothing to submit.
PinInv ==
    /\ \A s \in Pairings : pc[s] = "pin" => s \in taken
    /\ \A s \in Pairings : session = s /\ s \notin taken /\ pc[s] \in BeforePin
          => phase \in {"connecting"} \cup Terminal

\* What look-ups will cache, and tasks report, unless one overlapped a change.
LookupInv ==
    /\ overlap = "no" => \A c \in Callers : asking[c] # "idle" => loaded[c] = stored
    /\ overlap = "no" /\ forget = "cleared" => cached = None
    /\ \A s \in Pairings : pc[s] # "report" => identity[s] = None
    /\ overlap = "no" => \A s \in Pairings : session = s /\ pc[s] = "report"
                                          => identity[s] \in {None, s}

\* An inductive invariant: it holds initially and every step preserves it.
TvInv ==
    /\ TvTypeOK
    /\ LockInv /\ SessionInv /\ StoredInv /\ PinInv /\ LookupInv
    /\ Readable /\ ReadyWasSaved /\ CacheFollowsPairing /\ VerifiedIsItself
    /\ AcceptedPinArrives

=============================================================================
