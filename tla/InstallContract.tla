--------------------------- MODULE InstallContract ---------------------------
(***************************************************************************)
(* What install interception promises about one command, whatever it scans *)
(* and whatever happens around it: the risk found only ever grows while    *)
(* packages are considered; the command is then accepted or refused, once; *)
(* only an accepted one, or one interception does not apply to, starts the *)
(* package manager, at most once; and every command may end early.         *)
(* InstallGate implements this specification.                              *)
(***************************************************************************)
CONSTANTS Asks   \* [flags, rules, form]: what is asked for, on whose terms

VARIABLES ask,     \* the command's flags, the policy's rules, the command's form
          stage,   \* "open", "accepted", "refused", "through" or "over"
          risk,    \* the worst decision on its packages so far
          started  \* whether the package manager was started

vars == <<ask, stage, risk, started>>

\* Interception is for installations only, and can be switched off.
Applies == ask.rules.enabled /\ ask.form \notin {"advanced", "other"}

\* A block needs an override with a reason, where the policy has overrides; a
\* warning needs an override or, from anyone but an agent, an agreement.
Consented ==
    /\ risk = "block" => ask.flags.force /\ ask.flags.reason /\ ask.rules.allowForce
    /\ risk = "warn"  =>
          \/ ask.flags.force
          \/ /\ ~ask.flags.agent
             /\ IF ask.flags.yes THEN ask.rules.allowYes ELSE ask.flags.tty

Init == ask \in Asks /\ stage = "open" /\ risk = "allow" /\ ~started

Exempt ==
    /\ stage = "open" /\ ~Applies
    /\ stage' = "through"
    /\ UNCHANGED <<ask, risk, started>>

\* One more package is considered.
Consider ==
    /\ stage = "open" /\ Applies
    /\ \/ risk' = "block"
       \/ risk' = "warn" /\ risk = "allow"
    /\ UNCHANGED <<ask, stage, started>>

Accept ==
    /\ stage = "open" /\ Applies /\ Consented
    /\ stage' = "accepted"
    /\ UNCHANGED <<ask, risk, started>>

Refuse ==
    /\ stage = "open" /\ Applies
    /\ stage' = "refused"
    /\ UNCHANGED <<ask, risk, started>>

HandOver ==
    /\ stage = "accepted" /\ ~ask.flags.dryRun
    /\ stage' = "through"
    /\ UNCHANGED <<ask, risk, started>>

Start ==
    /\ stage = "through"
    /\ stage' = "over" /\ started' = TRUE
    /\ UNCHANGED <<ask, risk>>

End ==
    /\ stage # "over"
    /\ stage' = "over"
    /\ UNCHANGED <<ask, risk, started>>

Next == Exempt \/ Consider \/ Accept \/ Refuse \/ HandOver \/ Start \/ End

Spec == Init /\ [][Next]_vars
=============================================================================
