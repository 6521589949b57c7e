--------------------------- MODULE CheckContract ---------------------------
(***************************************************************************)
(* What the CHECK orders promise to the rest of the system (departure      *)
(* policy, readiness, maintenance): a unit has at most one open CHECK; a   *)
(* CHECK is signed once, in one step and no later than the last day its    *)
(* content is good for, which makes it the latest of its unit, creates the *)
(* corrective orders its content asks for and announces it; afterwards it  *)
(* can only be voided, and that is for good.                               *)
(***************************************************************************)
EXTENDS Naturals

CONSTANTS Unidades, Checks, Contents, NULL, Work(_), LastDay(_)

VARIABLES phase, owner, signed, correctives, announced, latest, voided, day

cvars == <<phase, owner, signed, correctives, announced, latest, voided, day>>

CInit ==
    /\ phase = [c \in Checks |-> "FREE"]
    /\ owner = [c \in Checks |-> NULL]
    /\ signed = [c \in Checks |-> NULL]
    /\ correctives = [c \in Checks |-> {}]
    /\ announced = {}
    /\ latest = [u \in Unidades |-> NULL]
    /\ voided = {}
    /\ day = 1

Open(c, u) ==
    /\ phase[c] = "FREE"
    /\ \A d \in Checks : ~(phase[d] = "OPEN" /\ owner[d] = u)
    /\ phase' = [phase EXCEPT ![c] = "OPEN"]
    /\ owner' = [owner EXCEPT ![c] = u]
    /\ UNCHANGED <<signed, correctives, announced, latest, voided, day>>

(* The content is whatever was captured: any, as far as the contract goes. *)
Sign(c) ==
    /\ phase[c] = "OPEN"
    /\ phase' = [phase EXCEPT ![c] = "SIGNED"]
    /\ signed'[c] \in Contents
    /\ day <= LastDay(signed'[c])
    /\ signed' = [signed EXCEPT ![c] = signed'[c]]
    /\ correctives' = [correctives EXCEPT ![c] = Work(signed'[c])]
    /\ announced' = announced \cup {c}
    /\ latest' = [latest EXCEPT ![owner[c]] = c]
    /\ UNCHANGED <<owner, voided, day>>

Void(c) ==
    /\ phase[c] = "SIGNED"
    /\ voided' = voided \cup {c}
    /\ UNCHANGED <<phase, owner, signed, correctives, announced, latest, day>>

NewDay ==
    /\ day' = day + 1
    /\ UNCHANGED <<phase, owner, signed, correctives, announced, latest, voided>>

CNext ==
    \/ \E c \in Checks : \/ \E u \in Unidades : Open(c, u)
                         \/ Sign(c)
                         \/ Void(c)
    \/ NewDay

CSpec == CInit /\ [][CNext]_cvars
=============================================================================
