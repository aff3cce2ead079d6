-------------------------- MODULE WirelessInvariant --------------------------
(***************************************************************************)
(* The inductive invariant behind the safety properties of WirelessPairing: *)
(* which request or task knows which session, and what an abort or the end *)
(* of a session implies for its task and its advertisement.                *)
(***************************************************************************)
EXTENDS WirelessPairing

\* Ids are fresh, and the start under way has one of its own.
StartInv ==
    /\ startPc \in {"idle", "preparing"} <=> startId = None
    /\ startPc = "advertising" => task = None /\ expires[startId] = 0
    /\ startPc = "storing" => task \in {None, startId} /\ expires[startId] > 0
    /\ startId # None => startId # session /\ startId \notin ended
    /\ session # None => expires[session] > 0
    /\ \A p \in ended : expires[p] > 0

\* A task that has begun serves the session that is kept.
TaskInv ==
    /\ task # None => expires[task] > 0
    /\ task # None /\ pc # "spawned" => session = task
    /\ task # None /\ pc = "code" => until <= expires[task] \/ until <= clock

\* An abort, or a client that saw the end, stops the task before it stores.
AbortInv ==
    /\ abort = "sent" => task # None /\ session = task
    /\ task # None /\ task \in ended => session = task /\ (abort = "sent" \/ pc = "cleanup")
    /\ abort = "sent" /\ pc \in {"committed", "uncommitted"} => phase \in Terminal
    /\ session # None /\ phase \in Terminal /\ task = session
          => abort = "sent" \/ pc = "cleanup"

\* Who still has to withdraw the advertisement of a session that ended.
AdvertInv ==
    /\ abort = "sent" => session \notin advert
    /\ session # None /\ phase \in Terminal /\ task = session
          => session \notin advert \/ pc = "cleanup"

\* An inductive invariant: it holds initially and every step preserves it.
WirelessInv ==
    /\ WirelessTypeOK
    /\ StartInv /\ TaskInv /\ AbortInv /\ AdvertInv
    /\ PairedIsStored /\ PairingReadable /\ WaitsEndInTime /\ EndedIsQuiet

=============================================================================
