--------------------------- MODULE LoginInvariant ---------------------------
(***************************************************************************)
(* The inductive invariant of AppleLogin, in named parts: who still        *)
(* delivers an answer, what a task that waits may assume, and whose        *)
(* Sideloader is installed.                                                *)
(***************************************************************************)
EXTENDS AppleLogin

\* A request that delivers an answer was accepted for the last challenge, which
\* is the only one it can meet: no other delivers, and nobody asks again.
DeliveryInv ==
    /\ \A c \in Clients : at[c] # "idle" => about[c] \in Logins /\ answers[c] # 0
    /\ \A c \in Clients : at[c] = "stores" =>
         /\ answers[c] = challenge[about[c]]
         /\ phase[about[c]] # "awaiting_2fa"
         /\ response[about[c]] = 0
         /\ task[about[c]] \in {"checks", "dozing", "asleep", "failing", "done"}
    /\ \A c, d \in Clients : at[c] = "stores" /\ at[d] = "stores" /\ about[c] = about[d] => c = d

\* An open challenge has no answer in store.
OpenInv == \A l \in Logins : phase[l] = "awaiting_2fa" =>
    /\ response[l] = 0 /\ challenge[l] # 0
    /\ task[l] \in {"checks", "dozing", "asleep", "failing"}

AnswerInv == \A l \in Logins :
    /\ response[l] \in {0, challenge[l]}
    /\ response[l] # 0 => task[l] \in {"checks", "dozing", "asleep", "failing", "done"}

\* Whoever took no answer finds the permit of the one that is stored.
WakeInv == \A l \in Logins : task[l] \in {"dozing", "asleep"} /\ response[l] # 0
    => permit[l] = "yes" \/ \E c \in Clients : at[c] = "notifies" /\ about[c] = l

\* What the phase says of the task.
LoginPhaseInv == \A l \in Logins :
    /\ task[l] = "none" <=> phase[l] = "none"
    /\ phase[l] = "ready" => task[l] = "done" /\ sideloader # None
    /\ phase[l] = "failed" => task[l] = "done"
    /\ task[l] = "done" => phase[l] \in {"ready", "failed"}
    /\ task[l] = "installed" => sideloader # None

SignerInv == signing # None => signing = sideloader

RecoveryInv == OneRecoveryPerRequest

LoginInv ==
    /\ LoginTypeOK /\ DeliveryInv /\ OpenInv /\ AnswerInv /\ WakeInv
    /\ LoginPhaseInv /\ SignerInv /\ RecoveryInv
=============================================================================
