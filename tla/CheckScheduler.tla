--------------------------- MODULE CheckScheduler ---------------------------
(***************************************************************************)
(* CheckDailyScheduler of one API process over the CHECK orders of a       *)
(* facility: a tick every minute, never two at once, takes the day and the *)
(* units of the facility and serves them one transaction each.  An         *)
(* exception ends the tick: the units it had not reached wait for the next.*)
(***************************************************************************)
EXTENDS CheckOrders

CONSTANT MaxFallas          \* bound on the exceptions of the instance

ASSUME CheckSchedulerAssumption == MaxFallas \in Nat

VARIABLES
    pass,           \* the tick under way: its day and the units left
    fallas          \* exceptions so far

svars == <<vars, pass, fallas>>

Idle == [running |-> FALSE, operationalDate |-> 0, left |-> {}]

SInit == Init /\ pass = Idle /\ fallas = 0

(* Mutant: the day is the one the process started on. *)
TickDayOfStart ==
    /\ ~pass.running
    /\ pass' = [running |-> TRUE, operationalDate |-> 1, left |-> Unidades]
    /\ UNCHANGED <<vars, fallas>>

(* The day and the units of the facility are read once, at the start. *)
Tick ==
    /\ ~pass.running
    /\ pass' = [running |-> TRUE, operationalDate |-> today, left |-> Unidades]
    /\ UNCHANGED <<vars, fallas>>

(* The outcomes SKIPPED_INELIGIBLE, _ACTIVE, _VALID and ALREADY_GENERATED. *)
Skips(u) ==
    \/ unitState[u] # "EN_PATIO"
    \/ FindActive(u) # {}
    \/ HasValid(u)
    \/ today \in generation[u]

(* The transaction of one unit, in whatever order the units were read. *)
Serve(u) ==
    /\ u \in pass.left
    /\ pass.operationalDate = today
    /\ \/ \E c \in Checks : GenerateDaily(c, u)
       \/ Skips(u) /\ UNCHANGED vars
    /\ pass' = [pass EXCEPT !.left = @ \ {u}]
    /\ UNCHANGED fallas

EndPass == pass' = Idle /\ UNCHANGED vars

(* Past midnight the day of the tick is refused. *)
WrongDay ==
    /\ pass.left # {}
    /\ pass.operationalDate # today
    /\ EndPass
    /\ UNCHANGED fallas

Finish ==
    /\ pass.running
    /\ pass.left = {}
    /\ EndPass
    /\ UNCHANGED fallas

(* A unit that cannot be read or saved: its transaction rolls back, and    *)
(* the loop over the units ends with it.                                   *)
Throw ==
    /\ pass.left # {}
    /\ fallas < MaxFallas
    /\ EndPass
    /\ fallas' = fallas + 1

Scheduler == Tick \/ (\E u \in Unidades : Serve(u)) \/ WrongDay \/ Finish

(* The rest of the orders, other API processes' generators included. *)
SNext ==
    \/ Scheduler
    \/ Throw
    \/ Next /\ UNCHANGED <<pass, fallas>>

(* Only the timer and the tick it starts are fair: setInterval calls again *)
(* every minute, and a tick that began runs on.  Nobody else has to act.   *)
SchedulerSpec == SInit /\ [][SNext]_svars /\ WF_svars(Scheduler)

-----------------------------------------------------------------------------
(* A unit that stays in the yard with neither an active nor a valid CHECK  *)
(* gets its CHECK of the day, though another unit's exception or midnight  *)
(* cut the tick short before its turn (or the instance has no identifier   *)
(* left): "minute retries cover startup, midnight and vehicles returning   *)
(* to the yard".                                                           *)
DailyCoverage ==
    \A u \in Unidades :
        unitState[u] = "EN_PATIO" ~>
            \/ unitState[u] # "EN_PATIO"
            \/ FindActive(u) # {}
            \/ HasValid(u)
            \/ today \in generation[u]
            \/ \A c \in Checks : visita[c].status # "FREE"
=============================================================================
